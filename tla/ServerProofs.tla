---------------------------- MODULE ServerProofs ----------------------------
(* What the parts of a server promise that share no state, for every value of *)
(* their constants: a chain leaves all of its writes or none, a registered    *)
(* tool's inputs are what it offers, a read is answered as it was admitted,   *)
(* and a registration and a walk through a listing hold what they say.        *)
EXTENDS Chain, Inputs, Catalogue, Reads, SequenceLemmas, FiniteSetTheorems,
        NaturalsInduction, WellFoundedInduction, TLAPS

-----------------------------------------------------------------------------
(* Chains.                                                                 *)

Gating == {"judge", "charge", "validate"}
Steps == {"service", "retrieve", "list"}
Early == Gating \cup Steps \cup {"permit"}
Late == {"render", "announce"}
Places == Early \cup Late \cup {"reread", "commit", "done"}
Errors == {"forbidden", "limited", "invalid", "failed", "raised"}
Replies == Errors \cup {"none", "timeout", "unrendered", "too large", "result"}

\* What call c wrote, in its transaction or for good.
Written(c) == work[c] \cup db[c]

ServiceStepsTo(c, n) == {i \in ServiceSteps(binding(c)) : i <= n}

\* Where call c stands says which of its steps have written, and where to.
WrittenSoFar(c) ==
  /\ at[c] \in Early => Written(c) = ServiceStepsTo(c, run[c].step - 1)
  /\ at[c] = "reread" => Written(c) = ServiceStepsTo(c, run[c].step)
  /\ at[c] \in Late \cup {"commit"} => Written(c) = ServiceSteps(binding(c))
  /\ at[c] \in Gating => Written(c) = {}
  /\ at[c] \in Steps => step(c).kind = at[c]
  /\ at[c] = "reread" => step(c).kind = "service"

\* The transaction: an atomic chain has committed nothing before its end, and nobody
\* else has anything to commit.
Uncommitted(c) ==
  /\ IF binding(c).atomic THEN at[c] \notin Late \cup {"done"} => db[c] = {} ELSE work[c] = {}
  /\ at[c] \in Late \cup {"done"} => work[c] = {}
  /\ binding(c).atomic /\ at[c] = "done" => db[c] \in {{}, ServiceSteps(binding(c))}

\* What the client and the subscribers were told.
Told(c) ==
  /\ at[c] # "done" => reply[c] \in {"none", "timeout"}
  /\ reply[c] \in Errors /\ binding(c).atomic => db[c] = {}
  /\ c \in heard => /\ at[c] = "done" /\ reply[c] = "result"
                    /\ db[c] = ServiceSteps(binding(c))

CallInv(c) == WrittenSoFar(c) /\ Uncommitted(c) /\ Told(c)

ChainTypes ==
  /\ run \in [Calls -> [binding : Chains, step : Nat]]
  /\ \A c \in Calls : run[c].step \in DOMAIN binding(c).steps
  /\ at \in [Calls -> Places] /\ reply \in [Calls -> Replies]
  /\ work \in [Calls -> SUBSET Nat] /\ db \in [Calls -> SUBSET Nat]
  /\ heard \subseteq Calls

ChainInv == ChainTypes /\ \A c \in Calls : CallInv(c)

-----------------------------------------------------------------------------
\* What a step keeps of a call it is not about.
Kept(c) ==
  /\ run'[c] = run[c] /\ at'[c] = at[c] /\ work'[c] = work[c] /\ db'[c] = db[c]
  /\ reply'[c] = reply[c] /\ (c \in heard') = (c \in heard)

\* Calls other than the one that moves stay as they are.
LEMMA OthersKept ==
  ASSUME ChainInv, NEW c \in Calls, Kept(c)
  PROVE  CallInv(c)'
BY DEF ChainInv, CallInv, WrittenSoFar, Uncommitted, Told, Kept, Written, ServiceStepsTo,
       ServiceSteps, binding, step

\* It is enough to look at the call a step is about.
LEMMA OneCall ==
  ASSUME ChainInv, ChainTypes', NEW c \in Calls, CallInv(c)',
         \A d \in Calls \ {c} : Kept(d)
  PROVE  ChainInv'
BY OthersKept DEF ChainInv

\* A call that ends without its transaction, from a place before the commit.
LEMMA Aborted ==
  ASSUME ChainInv, NEW c \in Calls, at[c] \notin Late \cup {"done"},
         run'[c] = run[c], at'[c] = "done", work'[c] = {}, heard' = heard,
         binding(c).atomic => db'[c] = db[c],
         reply'[c] \in Replies \ {"result"}
  PROVE  CallInv(c)'
BY DEF ChainInv, CallInv, WrittenSoFar, Uncommitted, Told, Written, ServiceStepsTo,
       ServiceSteps, binding, step, Gating, Steps, Early, Late

-----------------------------------------------------------------------------
\* A call that goes on to a place before its next write.
LEMMA GoesOn ==
  ASSUME ChainInv, NEW c \in Calls, at[c] \in Early, at'[c] \in Early,
         at[c] \in Gating \/ at'[c] \notin Gating,
         run'[c] = run[c], work'[c] = work[c], db'[c] = db[c], heard' = heard,
         reply'[c] = reply[c], at'[c] \in Steps => step(c).kind = at'[c]
  PROVE  CallInv(c)'
BY DEF ChainInv, CallInv, WrittenSoFar, Uncommitted, Told, Written, ServiceStepsTo,
       ServiceSteps, binding, step, Gating, Steps, Early, Late

\* A call that reaches the end of a step, all of whose writes are made.
LEMMA StepEnds ==
  ASSUME ChainInv, ChainTypes', NEW c \in Calls, StepDone(c), at[c] \in Steps \cup {"reread"},
         at[c] # "service", db'[c] = db[c], heard' = heard
  PROVE  CallInv(c)'
<1> USE ChainAssumption
<1> DEFINE k == binding(c)
           n == run[c].step
<1>1. /\ k \in Chains /\ n \in Nat /\ n \in 1..Len(k.steps) /\ Len(k.steps) \in Nat
      /\ DOMAIN k.steps = 1..Len(k.steps) /\ at \in [Calls -> Places]
      /\ run \in [Calls -> [binding : Chains, step : Nat]]
  BY DEF ChainInv, ChainTypes, binding
<1>2. Written(c) = {i \in ServiceSteps(k) : i <= n}
  <2>1. CASE at[c] = "reread"
    BY <2>1 DEF ChainInv, CallInv, WrittenSoFar, ServiceStepsTo
  <2>2. CASE at[c] \in {"retrieve", "list"}
    <3>1. Written(c) = {i \in ServiceSteps(k) : i <= n - 1} /\ k.steps[n].kind # "service"
      BY <2>2 DEF ChainInv, CallInv, WrittenSoFar, ServiceStepsTo, Early, Steps, step
    <3>2. \A i \in ServiceSteps(k) : i \in Nat /\ i # n
      BY <1>1, <3>1 DEF ServiceSteps
    <3> QED BY <1>1, <3>1, <3>2
  <2> QED BY <2>1, <2>2 DEF Steps
<1>3. /\ work' = work /\ reply' = reply
      /\ IF k.atomic THEN db[c] = {} ELSE work[c] = {}
      /\ reply[c] \in {"none", "timeout"} /\ c \notin heard
  BY DEF StepDone, ChainInv, CallInv, Uncommitted, Told, Late, Steps
<1>4. CASE n < Len(k.steps)
  <2>1. run'[c] = [run[c] EXCEPT !.step = n + 1] /\ at'[c] = "permit"
    BY <1>1, <1>4 DEF StepDone, Goto
  <2>2. binding(c)' = k /\ run'[c].step - 1 = n
    BY <1>1, <2>1 DEF binding
  <2>3. Written(c)' = ServiceStepsTo(c, run[c].step - 1)'
    BY <1>2, <1>3, <2>2 DEF Written, ServiceStepsTo
  <2> QED BY <1>3, <2>1, <2>2, <2>3
          DEF CallInv, WrittenSoFar, Uncommitted, Told, Early, Late, Gating, Steps, Errors
<1>5. CASE ~(n < Len(k.steps))
  <2>1. run' = run /\ at'[c] = "commit"
    BY <1>1, <1>5 DEF StepDone, Goto
  <2>2. \A i \in ServiceSteps(k) : i <= n
    BY <1>1, <1>5 DEF ServiceSteps
  <2>3. Written(c)' = ServiceSteps(binding(c))'
    BY <1>2, <1>3, <2>1, <2>2 DEF Written, binding
  <2> QED BY <1>3, <2>1, <2>3
          DEF CallInv, WrittenSoFar, Uncommitted, Told, Early, Late, Gating, Steps, Errors, binding
<1> QED BY <1>4, <1>5

-----------------------------------------------------------------------------
\* The pieces the steps are made of keep the types.
LEMMA PiecesTyped ==
  ASSUME ChainTypes, NEW c \in Calls
  PROVE  /\ work' = [work EXCEPT ![c] = {}] => work' \in [Calls -> SUBSET Nat]
         /\ \A l \in Places : Goto(c, l) => at' \in [Calls -> Places]
         /\ \A r \in Replies : Reply(c, r) => reply' \in [Calls -> Replies]
         /\ \A r \in Replies : End(c, r) => /\ at' \in [Calls -> Places]
                                            /\ reply' \in [Calls -> Replies]
         /\ \A r \in Replies : Abort(c, r) => /\ at' \in [Calls -> Places]
                                              /\ reply' \in [Calls -> Replies]
                                              /\ work' \in [Calls -> SUBSET Nat]
<1>1. ASSUME NEW l \in Places, Goto(c, l) PROVE at' \in [Calls -> Places]
  BY <1>1 DEF ChainTypes, Goto
<1>2. ASSUME NEW r \in Replies, Reply(c, r) PROVE reply' \in [Calls -> Replies]
  BY <1>2 DEF ChainTypes, Reply
<1>3. "done" \in Places
  BY DEF Places
<1>4. work' = [work EXCEPT ![c] = {}] => work' \in [Calls -> SUBSET Nat]
  BY DEF ChainTypes
<1> QED BY <1>1, <1>2, <1>3, <1>4 DEF End, Abort

\* The same for the step that ends.
LEMMA StepDoneTyped ==
  ASSUME ChainTypes, NEW c \in Calls, StepDone(c)
  PROVE  /\ run' \in [Calls -> [binding : Chains, step : Nat]]
         /\ \A d \in Calls : run'[d].step \in DOMAIN binding(d)'.steps
         /\ at' \in [Calls -> Places] /\ reply' = reply /\ work' = work
<1>1. /\ binding(c) \in Chains /\ run[c].step \in Nat
      /\ DOMAIN binding(c).steps = 1..Len(binding(c).steps) /\ Len(binding(c).steps) \in Nat
      /\ run[c].step \in 1..Len(binding(c).steps)
  BY ChainAssumption DEF ChainTypes, binding
<1>2. CASE run[c].step < Len(binding(c).steps)
  <2>1. run' = [run EXCEPT ![c].step = @ + 1] /\ Goto(c, "permit")
    BY <1>2 DEF StepDone
  <2>2. run'[c].step \in DOMAIN binding(c)'.steps
    BY <1>1, <1>2, <2>1 DEF ChainTypes, binding
  <2>3. \A d \in Calls \ {c} : run'[d] = run[d]
    BY <2>1 DEF ChainTypes
  <2>4. run' \in [Calls -> [binding : Chains, step : Nat]]
    <3>1. [run[c] EXCEPT !.step = @ + 1] \in [binding : Chains, step : Nat]
      <4>1. run[c] \in [binding : Chains, step : Nat] /\ run[c].step + 1 \in Nat
        BY <1>1 DEF ChainTypes
      <4> QED BY <4>1
    <3>2. run' = [run EXCEPT ![c] = [run[c] EXCEPT !.step = @ + 1]]
      BY <2>1
    <3> QED BY <3>1, <3>2 DEF ChainTypes
  <2>5. \A d \in Calls : run'[d].step \in DOMAIN binding(d)'.steps
    BY <2>2, <2>3 DEF ChainTypes, binding
  <2>6. "permit" \in Places
    BY DEF Places, Early
  <2> QED BY <2>1, <2>4, <2>5, <2>6, PiecesTyped DEF StepDone
<1>3. CASE ~(run[c].step < Len(binding(c).steps))
  BY <1>3, PiecesTyped DEF StepDone, ChainTypes, binding, Places
<1> QED BY <1>2, <1>3

\* Every step keeps the types.
LEMMA ChainTypesKept == ChainTypes /\ [ChainNext]_chainVars => ChainTypes'
<1> SUFFICES ASSUME ChainTypes, [ChainNext]_chainVars PROVE ChainTypes'
  OBVIOUS
<1> USE ChainAssumption
<1>p. /\ {"charge", "validate", "permit", "reread", "render", "announce"} \subseteq Places
      /\ Errors \cup {"timeout", "unrendered", "too large", "result"} \subseteq Replies
      /\ Errors = {"forbidden", "limited", "invalid", "failed", "raised"}
  BY DEF Places, Early, Gating, Late, Replies, Errors
<1>r. ASSUME run' = run PROVE \A d \in Calls : run'[d].step \in DOMAIN binding(d)'.steps
  BY <1>r DEF ChainTypes, binding
<1>1. ASSUME NEW c \in Calls, Judge(c) \/ Charge(c) \/ Validate(c) PROVE ChainTypes'
  BY <1>1, <1>p, <1>r, PiecesTyped DEF Judge, Charge, Validate, ChainTypes, around
<1>3. ASSUME NEW c \in Calls, Permit(c) PROVE ChainTypes'
  <2>1. step(c).kind \in Places
    BY DEF ChainTypes, binding, step, Places, Early, Steps
  <2> QED BY <1>3, <2>1, <1>p, <1>r, PiecesTyped DEF Permit, ChainTypes
<1>4. ASSUME NEW c \in Calls, Refuse(c) \/ Miss(c) PROVE ChainTypes'
  BY <1>4, <1>p, <1>r, PiecesTyped DEF Refuse, Miss, ChainTypes, around
<1>5. ASSUME NEW c \in Calls, Serve(c) PROVE ChainTypes'
  <2>1. run[c].step \in Nat
    BY DEF ChainTypes
  <2>2. db' \in [Calls -> SUBSET Nat] /\ run' = run /\ heard' = heard
    BY <1>5, <2>1 DEF Serve, ChainTypes, around
  <2>3. work' \in [Calls -> SUBSET Nat]
    <3>1. [work EXCEPT ![c] = work[c] \cup {run[c].step}] \in [Calls -> SUBSET Nat]
      BY <2>1 DEF ChainTypes
    <3>2. [work EXCEPT ![c] = {}] \in [Calls -> SUBSET Nat]
      BY DEF ChainTypes
    <3> QED BY <1>5, <3>1, <3>2, <2>1 DEF Serve, Abort, ChainTypes
  <2>4. at' \in [Calls -> Places] /\ reply' \in [Calls -> Replies]
    BY <1>5, <1>p, PiecesTyped DEF Serve, ChainTypes
  <2> QED BY <2>2, <2>3, <2>4, <1>r DEF ChainTypes
<1>6. ASSUME NEW c \in Calls, Reread(c) PROVE ChainTypes'
  BY <1>6, <1>p, <1>r, PiecesTyped, StepDoneTyped DEF Reread, ChainTypes, around
<1>7. ASSUME NEW c \in Calls, Select(c) PROVE ChainTypes'
  BY <1>7, StepDoneTyped DEF Select, ChainTypes, around
<1>8. ASSUME NEW c \in Calls, Commit(c) PROVE ChainTypes'
  <2>1. db' \in [Calls -> SUBSET Nat]
    BY <1>8, ZenonT(60) DEF Commit, ChainTypes
  <2>2. work' = [work EXCEPT ![c] = {}]
    BY <1>8 DEF Commit, Abort
  <2>3. work' \in [Calls -> SUBSET Nat]
    BY <2>2, PiecesTyped
  <2> QED BY <1>8, <2>1, <2>3, <1>p, <1>r, PiecesTyped DEF Commit, ChainTypes, around
<1>9. ASSUME NEW c \in Calls, Render(c) PROVE ChainTypes'
  BY <1>9, <1>p, <1>r, PiecesTyped DEF Render, ChainTypes, around
<1>10. ASSUME NEW c \in Calls, Announce(c) PROVE ChainTypes'
  BY <1>10, <1>p, <1>r, PiecesTyped DEF Announce, ChainTypes
<1>11. ASSUME NEW c \in Calls, Timeout(c) PROVE ChainTypes'
  BY <1>11, <1>p, <1>r DEF Timeout, ChainTypes, around
<1>12. ASSUME NEW c \in Calls, Die(c) PROVE ChainTypes'
  BY <1>12, <1>r DEF Die, ChainTypes, Goto, Places
<1>13. CASE Regrant
  BY <1>13, <1>r DEF Regrant, ChainTypes
<1>14. CASE UNCHANGED chainVars
  BY <1>14, <1>r DEF chainVars, ChainTypes
<1> QED BY <1>1, <1>3, <1>4, <1>5, <1>6, <1>7, <1>8, <1>9, <1>10, <1>11, <1>12, <1>13, <1>14
        DEF ChainNext

\* Every step is about one call at most.
LEMMA OneAtATime ==
  ASSUME ChainTypes, NEW c \in Calls, NEW d \in Calls \ {c}
  PROVE  /\ Judge(c) \/ Charge(c) \/ Validate(c) => Kept(d)
         /\ Permit(c) \/ Refuse(c) \/ Miss(c) => Kept(d)
         /\ Serve(c) => Kept(d)
         /\ Reread(c) \/ Select(c) => Kept(d)
         /\ Commit(c) => Kept(d)
         /\ Render(c) \/ Announce(c) => Kept(d)
         /\ Timeout(c) \/ Die(c) => Kept(d)
<1> USE DEF ChainTypes, Kept, Goto, End, Reply, Abort, around
<1>1. Judge(c) \/ Charge(c) \/ Validate(c) => Kept(d)
  BY DEF Judge, Charge, Validate
<1>2. Permit(c) \/ Refuse(c) \/ Miss(c) => Kept(d)
  BY DEF Permit, Refuse, Miss
<1>3. Serve(c) => Kept(d)
  BY DEF Serve
<1>4. Reread(c) \/ Select(c) => Kept(d)
  BY DEF Reread, Select, StepDone
<1>5. Commit(c) => Kept(d)
  BY DEF Commit
<1>6. Render(c) \/ Announce(c) => Kept(d)
  <2>1. Render(c) => Kept(d)
    BY DEF Render
  <2>2. Announce(c) => (d \in heard)' = (d \in heard)
    BY DEF Announce
  <2>3. Announce(c) => Kept(d)
    BY <2>2 DEF Announce
  <2> QED BY <2>1, <2>3
<1>7. Timeout(c) \/ Die(c) => Kept(d)
  BY DEF Timeout, Die
<1> QED BY <1>1, <1>2, <1>3, <1>4, <1>5, <1>6, <1>7

\* Every step of a chain keeps the invariant of the writes.
LEMMA ChainInductive == ChainInv /\ [ChainNext]_chainVars => ChainInv'
<1> SUFFICES ASSUME ChainInv, [ChainNext]_chainVars PROVE ChainInv'
  OBVIOUS
<1>t. ChainTypes /\ ChainTypes'
  BY ChainTypesKept DEF ChainInv

\* A step about one call: the others are as they were.
<1>o. ASSUME NEW c \in Calls, CallInv(c)', \A d \in Calls \ {c} : Kept(d) PROVE ChainInv'
  BY <1>t, <1>o, OneCall
<1>e. Errors \cup {"timeout", "unrendered", "too large"} \subseteq Replies \ {"result"}
  BY DEF Replies, Errors
<1>1. ASSUME NEW c \in Calls, at[c] \in Gating, run' = run, work' = work, db' = db, heard' = heard,
             NEW r \in Errors, End(c, r)
      PROVE  CallInv(c)'
  <2>1. work'[c] = {}
    BY <1>1 DEF ChainInv, CallInv, WrittenSoFar, Written
  <2>2. at'[c] = "done" /\ reply'[c] \in Replies \ {"result"}
    BY <1>1, <1>t, <1>e DEF End, Goto, Reply, ChainTypes, ChainInv, CallInv, Told, Gating
  <2> QED BY <1>1, <2>1, <2>2, Aborted DEF Gating, Late
<1>2. ASSUME NEW c \in Calls, at[c] \in Early \cup {"reread", "commit"}, run' = run,
             binding(c).atomic => db' = db, heard' = heard,
             NEW r \in Errors, Abort(c, r)
      PROVE  CallInv(c)'
  <2>1. work'[c] = {} /\ at'[c] = "done"
    BY <1>2, <1>t DEF Abort, End, Goto, ChainTypes
  <2>2. reply'[c] \in Replies \ {"result"}
    BY <1>2, <1>t, <1>e
       DEF Abort, End, Reply, ChainTypes, ChainInv, CallInv, Told, Early, Gating, Steps
  <2> QED BY <1>2, <2>1, <2>2, Aborted DEF Early, Gating, Steps, Late
<1>3. ASSUME NEW c \in Calls, Judge(c) \/ Charge(c) \/ Validate(c) PROVE ChainInv'
  <2>1. /\ run' = run /\ work' = work /\ db' = db /\ heard' = heard /\ at[c] \in Gating
        /\ \/ \E r \in Errors : End(c, r)
           \/ reply' = reply /\ at'[c] \in Gating \cup {"permit"}
    BY <1>3, <1>t DEF Judge, Charge, Validate, Goto, ChainTypes, Gating, around, Errors
  <2>2. CallInv(c)'
    BY <1>1, <2>1, GoesOn DEF Early, Gating, Steps
  <2> QED BY <1>3, <2>2, <1>o, <1>t, OneAtATime
<1>4. ASSUME NEW c \in Calls, Permit(c) PROVE ChainInv'
  <2>1. /\ run' = run /\ db' = db /\ heard' = heard /\ at[c] = "permit"
        /\ \/ \E r \in Errors : Abort(c, r)
           \/ reply' = reply /\ work' = work /\ at'[c] = step(c).kind
    BY <1>4, <1>t DEF Permit, Goto, ChainTypes, Errors
  <2>2. step(c).kind \in Steps
    BY <1>t, ChainAssumption DEF ChainTypes, step, binding, Steps
  <2>3. CallInv(c)'
    BY <1>2, <2>1, <2>2, GoesOn DEF Early, Gating, Steps
  <2> QED BY <1>4, <2>3, <1>o, <1>t, OneAtATime
<1>5. ASSUME NEW c \in Calls, Refuse(c) \/ Miss(c) PROVE ChainInv'
  <2>1. /\ run' = run /\ db' = db /\ heard' = heard /\ at[c] \in Early
        /\ \E r \in Errors : Abort(c, r)
    BY <1>5 DEF Refuse, Miss, around, Errors, Early, Steps
  <2>2. CallInv(c)'
    BY <1>2, <2>1
  <2> QED BY <1>5, <2>2, <1>o, <1>t, OneAtATime
<1>6. ASSUME NEW c \in Calls, Serve(c) PROVE ChainInv'
  <2>1. run' = run /\ heard' = heard /\ at[c] = "service"
    BY <1>6 DEF Serve, around
  <2>2. ASSUME NEW r \in Errors, Abort(c, r) PROVE CallInv(c)'
    BY <1>2, <1>6, <2>1, <2>2 DEF Serve, Early, Steps
  <2>3. ASSUME Goto(c, "reread"), UNCHANGED reply,
               work' = IF binding(c).atomic THEN [work EXCEPT ![c] = @ \cup {run[c].step}] ELSE work
        PROVE  CallInv(c)'
    <3> DEFINE n == run[c].step
    <3>1. /\ at'[c] = "reread" /\ step(c).kind = "service"
          /\ Written(c) = {i \in ServiceSteps(binding(c)) : i <= n - 1}
          /\ reply[c] \in {"none", "timeout"} /\ c \notin heard
          /\ IF binding(c).atomic THEN db[c] = {} ELSE work[c] = {}
      BY <1>t, <2>1, <2>3 DEF Goto, ChainTypes, ChainInv, CallInv, WrittenSoFar, Told,
         Uncommitted, ServiceStepsTo, Early, Steps, Late
    <3>2. Written(c)' = Written(c) \cup {n}
      BY <1>6, <1>t, <2>3 DEF Serve, Written, ChainTypes
    <3>3. n \in ServiceSteps(binding(c)) /\ n \in Nat /\ ServiceSteps(binding(c)) \subseteq Nat
      BY <1>t, <3>1, ChainAssumption DEF ServiceSteps, step, binding, ChainTypes
    <3>4. Written(c)' = {i \in ServiceSteps(binding(c)) : i <= n}
      BY <3>1, <3>2, <3>3
    <3>5. IF binding(c).atomic THEN db'[c] = {} ELSE work'[c] = {}
      BY <1>6, <1>t, <2>3, <3>1 DEF Serve, ChainTypes
    <3> QED BY <2>1, <2>3, <3>1, <3>4, <3>5
            DEF CallInv, WrittenSoFar, Uncommitted, Told, ServiceStepsTo, ServiceSteps, binding,
                step, Early, Gating, Steps, Late, Errors
  <2>4. CallInv(c)'
    BY <1>6, <2>2, <2>3 DEF Serve, Errors
  <2> QED BY <1>6, <2>4, <1>o, <1>t, OneAtATime
<1>7. ASSUME NEW c \in Calls, Reread(c) \/ Select(c) PROVE ChainInv'
  <2>1. /\ db' = db /\ heard' = heard /\ at[c] \in {"reread", "retrieve", "list"}
        /\ \/ StepDone(c)
           \/ at[c] = "reread" /\ run' = run /\ \E r \in Errors : Abort(c, r)
    BY <1>7 DEF Reread, Select, around, Errors
  <2>2. CallInv(c)'
    BY <1>2, <1>t, <2>1, StepEnds DEF Steps
  <2> QED BY <1>7, <2>2, <1>o, <1>t, OneAtATime
<1>8. ASSUME NEW c \in Calls, Commit(c) PROVE ChainInv'
  <2>1. run' = run /\ heard' = heard /\ at[c] = "commit"
    BY <1>8 DEF Commit, around
  <2>2. ASSUME NEW r \in Errors, Abort(c, r), db' = db PROVE CallInv(c)'
    BY <1>2, <2>1, <2>2
  <2>3. ASSUME db' = [db EXCEPT ![c] = @ \cup work[c]], work' = [work EXCEPT ![c] = {}],
               Goto(c, "render"), reply' = reply
        PROVE  CallInv(c)'
    <3>1. /\ db'[c] = Written(c) /\ work'[c] = {} /\ at'[c] = "render"
      BY <1>t, <2>3 DEF Goto, ChainTypes, Written
    <3>2. Written(c) = ServiceSteps(binding(c)) /\ reply[c] \in {"none", "timeout"} /\ c \notin heard
      BY <2>1 DEF ChainInv, CallInv, WrittenSoFar, Told
    <3> QED BY <2>1, <2>3, <3>1, <3>2
            DEF CallInv, WrittenSoFar, Uncommitted, Told, Written, ServiceSteps, binding, Early,
                Gating, Steps, Late, Errors
  <2>4. CallInv(c)'
    BY <1>8, <2>2, <2>3 DEF Commit, Errors
  <2> QED BY <1>8, <2>4, <1>o, <1>t, OneAtATime
<1>9. ASSUME NEW c \in Calls, Render(c) \/ Announce(c) PROVE ChainInv'
  <2>1. /\ run' = run /\ work' = work /\ db' = db /\ at[c] \in Late
        /\ \/ at'[c] = "announce" /\ reply' = reply /\ heard' = heard
           \/ /\ at'[c] = "done" /\ heard' = heard
              /\ reply'[c] \in {"timeout", "unrendered", "too large", "result"}
           \/ /\ at'[c] = "done" /\ heard' = heard \cup {c} /\ reply'[c] = "result"
    <3>1. reply[c] \in {"none", "timeout"} /\ at[c] \in Late
      BY <1>9 DEF Render, Announce, ChainInv, CallInv, Told, Late
    <3>2. CASE Render(c)
      BY <1>t, <3>1, <3>2 DEF Render, End, Goto, Reply, ChainTypes, around
    <3>3. CASE Announce(c)
      BY <1>t, <3>1, <3>3 DEF Announce, End, Goto, Reply, ChainTypes
    <3> QED BY <1>9, <3>2, <3>3
  <2>2. /\ Written(c) = ServiceSteps(binding(c)) /\ work[c] = {} /\ c \notin heard
        /\ reply[c] \in {"none", "timeout"}
    BY <2>1 DEF ChainInv, CallInv, WrittenSoFar, Uncommitted, Told, Late
  <2>3. CallInv(c)'
    BY <2>1, <2>2 DEF CallInv, WrittenSoFar, Uncommitted, Told, Written, ServiceSteps, binding,
       Early, Gating, Steps, Late, Errors
  <2> QED BY <1>9, <2>3, <1>o, <1>t, OneAtATime
<1>10. ASSUME NEW c \in Calls, Timeout(c) PROVE ChainInv'
  <2>1. /\ run' = run /\ work' = work /\ db' = db /\ heard' = heard /\ at' = at
        /\ at[c] # "done" /\ reply'[c] = "timeout"
    BY <1>10, <1>t DEF Timeout, ChainTypes, around
  <2>2. CallInv(c)'
    BY <2>1 DEF ChainInv, CallInv, WrittenSoFar, Uncommitted, Told, Written, ServiceStepsTo,
       ServiceSteps, binding, step, Errors
  <2> QED BY <1>10, <2>2, <1>o, <1>t, OneAtATime
<1>11. ASSUME NEW c \in Calls, Die(c) PROVE ChainInv'
  <2>1. /\ run' = run /\ db' = db /\ heard' = heard /\ reply' = reply
        /\ at[c] # "done" /\ at'[c] = "done" /\ work'[c] = {}
    BY <1>11, <1>t DEF Die, Goto, ChainTypes
  <2>2. reply[c] \in {"none", "timeout"} /\ c \notin heard
    BY <2>1 DEF ChainInv, CallInv, Told
  <2>3. at[c] \in Late => db[c] = ServiceSteps(binding(c))
    BY DEF ChainInv, CallInv, WrittenSoFar, Uncommitted, Written
  <2>4. CallInv(c)'
    BY <2>1, <2>2, <2>3 DEF ChainInv, CallInv, WrittenSoFar, Uncommitted, Told, Written,
       ServiceStepsTo, ServiceSteps, binding, step, Early, Gating, Steps, Late, Errors
  <2> QED BY <1>11, <2>4, <1>o, <1>t, OneAtATime
<1>12. CASE Regrant
  <2>1. \A c \in Calls : Kept(c)
    BY <1>12 DEF Regrant, Kept
  <2> QED BY <1>t, <2>1, OthersKept DEF ChainInv
<1>13. CASE UNCHANGED chainVars
  <2>1. \A c \in Calls : Kept(c)
    BY <1>13 DEF chainVars, Kept
  <2> QED BY <1>t, <2>1, OthersKept DEF ChainInv
<1> QED BY <1>3, <1>4, <1>5, <1>6, <1>7, <1>8, <1>9, <1>10, <1>11, <1>12, <1>13 DEF ChainNext

\* The writes of an atomic chain are committed together or not at all, none stands under
\* an error, and subscribers hear of a complete and answered chain only (_run_chain,
\* announce_invalidations).
THEOREM ChainsWhole == ChainSpec => []AllOrNothing
<1>1. ChainInit => ChainInv
  <2> SUFFICES ASSUME ChainInit PROVE ChainInv
    OBVIOUS
  <2>1. ChainTypes
    BY ChainAssumption DEF ChainInit, ChainTypes, binding, Places, Early, Gating, Replies
  <2>2. ASSUME NEW c \in Calls PROVE CallInv(c)
    <3>1. /\ at[c] = "judge" /\ run[c].step = 1 /\ work[c] = {} /\ db[c] = {} /\ reply[c] = "none"
          /\ heard = {} /\ binding(c) \in Chains
      BY DEF ChainInit, binding
    <3>2. ServiceStepsTo(c, run[c].step - 1) = {}
      BY <3>1, ChainAssumption DEF ServiceStepsTo, ServiceSteps
    <3> QED BY <3>1, <3>2 DEF CallInv, WrittenSoFar, Uncommitted, Told, Written, Early, Gating,
               Steps, Late, Errors
  <2> QED BY <2>1, <2>2 DEF ChainInv
<1>2. ChainInv => AllOrNothing
  <2> SUFFICES ASSUME ChainInv PROVE AllOrNothing
    OBVIOUS
  <2>1. ASSUME NEW c \in Calls, binding(c).atomic
        PROVE  /\ db[c] \in {{}, ServiceSteps(binding(c))}
               /\ reply[c] \in Errors => db[c] = {}
    BY <2>1 DEF ChainInv, CallInv, WrittenSoFar, Uncommitted, Told, Written, Late
  <2>2. \A c \in heard : db[c] = ServiceSteps(binding(c)) /\ reply[c] = "result"
    BY DEF ChainInv, ChainTypes, CallInv, Told
  <2> QED BY <2>1, <2>2 DEF AllOrNothing, CommittedWhole, HeardIsCommitted, Errors
<1> QED BY <1>1, <1>2, ChainInductive, PTL DEF ChainSpec

-----------------------------------------------------------------------------
(* The slices of a chain's permissions.                                    *)

\* Each step is judged on its own permissions: its slice is what it was cut from.
LEMMA SlicesFit ==
  ASSUME NEW k \in Chains, NEW i \in DOMAIN k.steps
  PROVE  Slice(k, i) = k.steps[i].perms
<1> DEFINE P == Range(k.perms) \cup UNION {Range(k.steps[j].perms) : j \in DOMAIN k.steps}
           s == [j \in DOMAIN k.steps |-> k.steps[j].perms]
           n == Len(k.steps)
<1>1. /\ n \in Nat /\ DOMAIN k.steps = 1..n /\ k.perms \in Seq(Range(k.perms))
      /\ \A j \in 1..n : k.steps[j].perms \in Seq(Range(k.steps[j].perms))
  BY ChainAssumption
<1>2. k.perms \in Seq(P) /\ \A j \in 1..n : k.steps[j].perms \in Seq(P)
  <2>1. Range(k.perms) \subseteq P /\ \A j \in 1..n : Range(k.steps[j].perms) \subseteq P
    BY <1>1
  <2> HIDE DEF P
  <2> QED BY <1>1, <2>1, SeqMonotonic
<1>3. s \in Seq(Seq(P)) /\ Len(s) = n /\ \A j \in 1..n : s[j] = k.steps[j].perms
  <2> HIDE DEF P
  <2> QED BY <1>1, <1>2
<1>4. Before(k, i) = Len(Prefix(s, i - 1))
  <2>1. \A j \in 1..(i - 1) : j \in 1..n
    BY <1>1
  <2>2. [j \in 1..(i - 1) |-> k.steps[j].perms] = [j \in 1..(i - 1) |-> s[j]]
    BY <1>3, <2>1
  <2> QED BY <2>2 DEF Before, Prefix
<1>5. i \in 1..Len(s) /\ s[i] = k.steps[i].perms
  BY <1>1, <1>3
<1>6. Slice(k, i) = SubSeq(FlattenSeq(s) \o k.perms, Len(Prefix(s, i - 1)) + 1,
                          Len(Prefix(s, i - 1)) + Len(s[i]))
  BY <1>4, <1>5 DEF Slice, Permissions
<1> HIDE DEF s, P
<1>7. SubSeq(FlattenSeq(s) \o k.perms, Len(Prefix(s, i - 1)) + 1,
             Len(Prefix(s, i - 1)) + Len(s[i])) = s[i]
  BY <1>2, <1>3, <1>5, FoundAt, Zenon
<1> QED BY <1>5, <1>6, <1>7

\* Nobody was denied by a step but after a change, and until a change comes the whole
\* chain of a call that was judged is admitted.
DenialInv ==
  /\ denied \subseteq moved /\ moved \subseteq Calls
  /\ \A c \in denied : at[c] = "done"
  /\ \A c \in Calls \ moved : at[c] \notin {"judge", "done"} => Admitted(binding(c))

\* Every step keeps the invariant of the denials.
LEMMA DenialInductive == ChainTypes /\ DenialInv /\ [ChainNext]_chainVars => DenialInv'
<1> SUFFICES ASSUME ChainTypes, DenialInv, [ChainNext]_chainVars PROVE DenialInv'
  OBVIOUS
<1>a. ASSUME grants' = grants, NEW c \in Calls, binding(c)' = binding(c)
      PROVE  Admitted(binding(c))' = Admitted(binding(c))
  BY <1>a DEF Admitted, Slice, Permissions, Before
<1>1. ASSUME NEW c \in Calls, Judge(c) PROVE DenialInv'
  <2>1. /\ at[c] = "judge" /\ moved' = moved \ {c} /\ denied' = denied /\ grants' = grants
        /\ run' = run /\ \A d \in Calls \ {c} : at'[d] = at[d]
        /\ at'[c] = "done" \/ Admitted(binding(c))
    BY <1>1 DEF Judge, Goto, End, ChainTypes
  <2>2. c \notin denied
    BY <2>1 DEF DenialInv
  <2>3. \A d \in Calls : Admitted(binding(d))' = Admitted(binding(d))
    BY <1>a, <2>1 DEF binding
  <2>4. \A d \in Calls \ moved' : at'[d] \notin {"judge", "done"} => Admitted(binding(d))'
    BY <2>1, <2>3 DEF DenialInv
  <2> QED BY <2>1, <2>2, <2>4 DEF DenialInv
<1>2. ASSUME NEW c \in Calls, at[c] \notin {"judge", "done"}, grants' = grants, moved' = moved,
             denied' \in {denied, denied \cup {c}}, denied' # denied => at'[c] = "done" /\ c \in moved,
             \A d \in Calls \ {c} : at'[d] = at[d], at'[c] # "judge",
             \A d \in Calls : run'[d].binding = run[d].binding
      PROVE  DenialInv'
  <2>1. \A d \in Calls : Admitted(binding(d))' = Admitted(binding(d))
    BY <1>a, <1>2 DEF binding
  <2>2. c \notin denied
    BY <1>2 DEF DenialInv
  <2>3. \A d \in Calls \ moved' : at'[d] \notin {"judge", "done"} => Admitted(binding(d))'
    BY <1>2, <2>1 DEF DenialInv
  <2>4. \A d \in denied' : at'[d] = "done"
    BY <1>2, <2>2 DEF DenialInv
  <2> QED BY <1>2, <2>3, <2>4 DEF DenialInv
<1>3. ASSUME NEW c \in Calls, Permit(c) PROVE DenialInv'
  <2>1. /\ at[c] = "permit" /\ grants' = grants /\ moved' = moved /\ run' = run
        /\ \A d \in Calls \ {c} : at'[d] = at[d]
        /\ \/ denied' = denied
           \/ /\ denied' = denied \cup {c} /\ at'[c] = "done"
              /\ ~ \A p \in Range(step(c).perms) : <<p, step(c).alias>> \in grants
    BY <1>3 DEF Permit, Abort, End, Goto, ChainTypes
  <2>2. at'[c] # "judge"
    <3>1. step(c).kind \in {"service", "retrieve", "list"}
      BY ChainAssumption DEF ChainTypes, step, binding
    <3> QED BY <1>3, <3>1 DEF Permit, Abort, End, Goto, ChainTypes
  <2>3. denied' # denied => c \in moved
    <3> SUFFICES ASSUME c \notin moved, denied' # denied PROVE FALSE
      OBVIOUS
    <3> DEFINE k == binding(c)
               i == run[c].step
    <3>1. k \in Chains /\ i \in DOMAIN k.steps /\ Admitted(k)
      BY <2>1 DEF ChainTypes, binding, DenialInv
    <3>2. \A p \in Range(Slice(k, i)) : <<p, k.steps[i].alias>> \in grants
      BY <3>1 DEF Admitted
    <3>3. \A p \in Range(k.steps[i].perms) : <<p, k.steps[i].alias>> \in grants
      BY <3>1, <3>2, SlicesFit
    <3> QED BY <2>1, <3>3 DEF step
  <2>4. denied' # denied => at'[c] = "done"
    BY <2>1
  <2> QED BY <1>2, <2>1, <2>2, <2>3, <2>4
<1>4. ASSUME NEW c \in Calls,
             \/ Charge(c) \/ Validate(c) \/ Refuse(c) \/ Serve(c) \/ Reread(c) \/ Select(c)
             \/ Miss(c) \/ Commit(c) \/ Render(c) \/ Announce(c) \/ Timeout(c) \/ Die(c)
      PROVE  DenialInv'
  <2>1. grants' = grants /\ moved' = moved /\ denied' = denied
    BY <1>4 DEF Charge, Validate, Refuse, Serve, Reread, Select, Miss, Commit, Render, Announce,
           Timeout, Die, around
  <2>2. \A d \in Calls \ {c} : at'[d] = at[d]
    BY <1>4 DEF Charge, Validate, Refuse, Serve, Reread, Select, Miss, Commit, Render, Announce,
           Timeout, Die, StepDone, Abort, End, Goto, ChainTypes
  <2>3. \A d \in Calls : run'[d].binding = run[d].binding
    <3>1. StepDone(c) \/ run' = run
      BY <1>4 DEF Charge, Validate, Refuse, Serve, Reread, Select, Miss, Commit, Render, Announce,
             Timeout, Die, around
    <3>2. CASE StepDone(c)
      <4> DEFINE next == [run EXCEPT ![c].step = @ + 1]
      <4>1. \A d \in Calls : next[d].binding = run[d].binding
        BY DEF ChainTypes
      <4> QED BY <3>2, <4>1 DEF StepDone
    <3> QED BY <3>1, <3>2
  <2>4. CASE Timeout(c)
    <3>1. at' = at
      BY <2>4 DEF Timeout
    <3>2. \A d \in Calls : Admitted(binding(d))' = Admitted(binding(d))
      BY <1>a, <2>1, <2>3 DEF binding
    <3> QED BY <2>1, <3>1, <3>2 DEF DenialInv
  <2>5. CASE ~Timeout(c)
    <3>1. at[c] \notin {"judge", "done"} \/ Die(c)
      BY <1>4, <2>5 DEF Charge, Validate, Refuse, Serve, Reread, Select, Miss, Commit, Render,
             Announce
    <3>2. at'[c] # "judge"
      BY <1>4, <2>5 DEF Charge, Validate, Refuse, Serve, Reread, Select, Miss, Commit, Render,
             Announce, Die, StepDone, Abort, End, Goto, ChainTypes
    <3>3. CASE Die(c)
      <4>1. at[c] # "done" /\ at'[c] = "done"
        BY <3>3 DEF Die, Goto, ChainTypes
      <4>2. \A d \in Calls : Admitted(binding(d))' = Admitted(binding(d))
        BY <1>a, <2>1, <2>3 DEF binding
      <4> QED BY <2>1, <2>2, <4>1, <4>2 DEF DenialInv
    <3> QED BY <1>2, <2>1, <2>2, <2>3, <3>1, <3>2, <3>3
  <2> QED BY <2>4, <2>5
<1>5. CASE Regrant
  BY <1>5 DEF Regrant, DenialInv
<1>6. CASE UNCHANGED chainVars
  <2>1. \A d \in Calls : Admitted(binding(d))' = Admitted(binding(d))
    BY <1>6, <1>a DEF chainVars, binding
  <2> QED BY <1>6, <2>1 DEF DenialInv, chainVars
<1> QED BY <1>1, <1>3, <1>4, <1>5, <1>6 DEF ChainNext

\* No chain is begun that its own steps' classes would deny, unless the grants change
\* under it: the slices judged before the chain are the permissions its steps ask for
\* (judge_tool_permissions, enforce_permissions).
THEOREM DenialsComeLate == ChainSpec => []DeniedLateOnlyByChange
<1>1. ChainInit => ChainTypes /\ DenialInv
  <2> SUFFICES ASSUME ChainInit PROVE ChainTypes /\ DenialInv
    OBVIOUS
  <2>1. ChainTypes
    BY ChainAssumption DEF ChainInit, ChainTypes, binding, Places, Early, Gating, Replies
  <2> QED BY <2>1 DEF ChainInit, DenialInv
<1>2. ChainTypes /\ DenialInv /\ [ChainNext]_chainVars => ChainTypes' /\ DenialInv'
  BY DenialInductive, ChainTypesKept
<1>3. DenialInv => DeniedLateOnlyByChange
  BY DEF DenialInv, DeniedLateOnlyByChange
<1> QED BY <1>1, <1>2, <1>3, PTL DEF ChainSpec

-----------------------------------------------------------------------------
(* The inputs of a registered tool.                                        *)

\* A set of numbers that has one has a least.
LEMMA LeastExists ==
  ASSUME NEW S \in SUBSET Nat, S # {}
  PROVE  Min(S) \in S /\ \A x \in S : Min(S) <= x
<1>1. IsWellFoundedOn(OpToRel(<, Nat), Nat)
  BY NatLessThanWellFounded
<1>2. \E x \in S : \A y \in S : ~ (<<y, x>> \in OpToRel(<, Nat))
  BY <1>1, WFMin
<1>3. \A x, y \in Nat : y < x => <<y, x>> \in OpToRel(<, Nat)
  BY DEF OpToRel
<1>4. \E x \in S : \A y \in S : ~ (y < x)
  BY <1>2, <1>3
<1>5. \E x \in S : \A y \in S : x <= y
  BY <1>4
<1> QED BY <1>5 DEF Min

\* The verdict is the first refusal's, or the pass of a handler that refuses nothing.
LEMMA FirstDecides ==
  ASSUME NEW S, NEW checks \in Seq(S), NEW passed
  PROVE  \/ /\ Verdict(checks, passed) = passed
            /\ \A i \in DOMAIN checks : ~checks[i][1]
         \/ \E i \in DOMAIN checks :
              /\ checks[i][1] /\ Verdict(checks, passed) = checks[i][2]
              /\ \A j \in DOMAIN checks : j < i => ~checks[j][1]
<1> DEFINE failing == {i \in DOMAIN checks : checks[i][1]}
<1>1. failing \in SUBSET Nat
  OBVIOUS
<1>2. Verdict(checks, passed) = IF failing = {} THEN passed ELSE checks[Min(failing)][2]
  BY DEF Verdict
<1>3. failing # {} => Min(failing) \in failing /\ \A x \in failing : Min(failing) <= x
  <2> HIDE DEF failing
  <2> QED BY <1>1, LeastExists
<1>4. CASE failing = {}
  BY <1>2, <1>4
<1>5. CASE failing # {}
  <2>1. PICK i : i = Min(failing)
    OBVIOUS
  <2>2. i \in DOMAIN checks /\ checks[i][1] /\ Verdict(checks, passed) = checks[i][2]
    BY <1>2, <1>3, <1>5, <2>1
  <2>3. ASSUME NEW j \in DOMAIN checks, j < i PROVE ~checks[j][1]
    <3>1. i \in Nat /\ j \in Nat
      BY <1>1, <2>2
    <3>2. j \notin failing
      <4> HIDE DEF failing
      <4> QED BY <1>3, <1>5, <2>1, <2>3, <3>1
    <3> QED BY <3>2
  <2> QED BY <2>2, <2>3
<1> QED BY <1>4, <1>5

\* So it is where a condition holds and none before it does.
LEMMA FirstIs ==
  ASSUME NEW S, NEW checks \in Seq(S), NEW passed,
         NEW i \in DOMAIN checks, checks[i][1],
         \A j \in DOMAIN checks : j < i => ~checks[j][1]
  PROVE  Verdict(checks, passed) = checks[i][2]
<1>1. PICK k \in DOMAIN checks :
        /\ checks[k][1] /\ Verdict(checks, passed) = checks[k][2]
        /\ \A j \in DOMAIN checks : j < k => ~checks[j][1]
  BY FirstDecides
<1>2. ~(k < i) /\ ~(i < k)
  BY <1>1
<1>3. k \in Nat /\ i \in Nat
  OBVIOUS
<1>4. k = i
  BY <1>2, <1>3
<1> QED BY <1>1, <1>4

\* Of checks made one after the other, the later ones decide what the earlier ones pass.
LEMMA OneAfterTheOther ==
  ASSUME NEW S, NEW a \in Seq(S), NEW b \in Seq(S), NEW passed
  PROVE  Verdict(a \o b, passed) = Verdict(a, Verdict(b, passed))
<1> DEFINE c == a \o b
<1>1. /\ c \in Seq(S) /\ Len(c) = Len(a) + Len(b)
      /\ \A i \in 1..Len(a) + Len(b) : c[i] = IF i <= Len(a) THEN a[i] ELSE b[i - Len(a)]
  BY ConcatProperties
<1>2. Len(a) \in Nat /\ Len(b) \in Nat
  OBVIOUS
<1>3. DOMAIN a = 1..Len(a) /\ DOMAIN b = 1..Len(b) /\ DOMAIN c = 1..Len(a) + Len(b)
  BY <1>1
<1>4. \A i \in DOMAIN a : i \in DOMAIN c /\ c[i] = a[i]
  BY <1>1, <1>2, <1>3
<1>5. \A i \in DOMAIN c : i \notin DOMAIN a => i - Len(a) \in DOMAIN b /\ c[i] = b[i - Len(a)]
  <2>1. ASSUME NEW i \in DOMAIN c, i \notin DOMAIN a
        PROVE  i - Len(a) \in DOMAIN b /\ c[i] = b[i - Len(a)]
    <3> HIDE DEF c
    <3>1. i \in 1..Len(a) + Len(b) /\ ~(i <= Len(a)) /\ i - Len(a) \in 1..Len(b)
      BY <1>2, <1>3, <2>1
    <3> QED BY <1>1, <1>3, <3>1
  <2> QED BY <2>1
<1>6. \A i \in DOMAIN b : i + Len(a) \in DOMAIN c /\ c[i + Len(a)] = b[i]
  <2>1. ASSUME NEW i \in DOMAIN b
        PROVE  i + Len(a) \in DOMAIN c /\ c[i + Len(a)] = b[i]
    <3> HIDE DEF c
    <3> DEFINE k == i + Len(a)
    <3>1. k \in 1..Len(a) + Len(b) /\ ~(k <= Len(a)) /\ k - Len(a) = i
      BY <1>2, <1>3
    <3> HIDE DEF k
    <3>2. c[k] = b[i]
      BY <1>1, <3>1
    <3> QED BY <1>3, <3>1, <3>2 DEF k
  <2> QED BY <2>1
<1>c. c \in Seq(S)
  BY <1>1
<1> HIDE DEF c
<1>7. ASSUME NEW i \in DOMAIN a, a[i][1], \A j \in DOMAIN a : j < i => ~a[j][1]
      PROVE  Verdict(c, passed) = Verdict(a, Verdict(b, passed))
  <2>1. Verdict(a, Verdict(b, passed)) = a[i][2]
    BY <1>7, FirstIs
  <2>2. \A j \in DOMAIN c : j < i => j \in DOMAIN a
    BY <1>2, <1>3
  <2>3. \A j \in DOMAIN c : j < i => ~c[j][1]
    BY <1>4, <1>7, <2>2
  <2>4. i \in DOMAIN c /\ c[i] = a[i] /\ c[i][1]
    BY <1>4, <1>7
  <2>5. Verdict(c, passed) = c[i][2]
    BY <1>c, <2>3, <2>4, FirstIs
  <2> QED BY <2>1, <2>4, <2>5
<1>8. ASSUME \A i \in DOMAIN a : ~a[i][1], Verdict(a, Verdict(b, passed)) = Verdict(b, passed)
      PROVE  Verdict(c, passed) = Verdict(a, Verdict(b, passed))
  <2>1. ASSUME NEW i \in DOMAIN b, b[i][1], Verdict(b, passed) = b[i][2],
               \A j \in DOMAIN b : j < i => ~b[j][1]
        PROVE  Verdict(c, passed) = Verdict(b, passed)
    <3>1. PICK k : k = i + Len(a)
      OBVIOUS
    <3>2. k \in DOMAIN c /\ c[k] = b[i] /\ c[k][1]
      BY <1>6, <2>1, <3>1
    <3>3. ASSUME NEW j \in DOMAIN c, j < k PROVE ~c[j][1]
      <4>1. CASE j \in DOMAIN a
        BY <1>4, <1>8, <4>1
      <4>2. CASE j \notin DOMAIN a
        <5>1. j - Len(a) \in DOMAIN b /\ c[j] = b[j - Len(a)]
          BY <1>5, <4>2
        <5>2. j - Len(a) < i
          BY <1>2, <1>3, <3>1, <3>3
        <5> QED BY <2>1, <5>1, <5>2
      <4> QED BY <4>1, <4>2
    <3>4. Verdict(c, passed) = c[k][2]
      BY <1>c, <3>2, <3>3, FirstIs
    <3> QED BY <2>1, <3>2, <3>4
  <2>2. ASSUME \A i \in DOMAIN b : ~b[i][1], Verdict(b, passed) = passed
        PROVE  Verdict(c, passed) = Verdict(b, passed)
    <3>1. \A i \in DOMAIN c : ~c[i][1]
      BY <1>4, <1>5, <1>8, <2>2
    <3>2. Verdict(c, passed) = passed
      BY <1>1, <3>1, FirstDecides
    <3> QED BY <2>2, <3>2
  <2>3. Verdict(c, passed) = Verdict(b, passed)
    BY <2>1, <2>2, FirstDecides
  <2> QED BY <1>8, <2>3
<1>9. Verdict(c, passed) = Verdict(a, Verdict(b, passed))
  BY <1>7, <1>8, FirstDecides
<1> QED BY <1>9 DEF c

\* A single check, and a few.
LEMMA OneCheck ==
  ASSUME NEW S, NEW a \in Seq(S), Len(a) = 1, NEW passed
  PROVE  Verdict(a, passed)
           = IF a[1][1] THEN a[1][2] ELSE passed
<1>1. 1 \in DOMAIN a
  OBVIOUS
<1>2. \A i \in DOMAIN a : i \in {1}
  OBVIOUS
<1>3. CASE a[1][1]
  <2>1. \A j \in DOMAIN a : j < 1 => ~a[j][1]
    BY <1>2, <1>3
  <2>2. Verdict(a, passed) = a[1][2]
    BY <1>1, <1>3, <2>1, FirstIs
  <2> QED BY <1>3, <2>2
<1>4. CASE ~a[1][1]
  <2>1. \A i \in DOMAIN a : ~a[i][1]
    BY <1>2, <1>4
  <2>2. Verdict(a, passed) = passed
    BY <2>1, FirstDecides
  <2> QED BY <1>4, <2>2
<1> QED BY <1>3, <1>4

\* Two checks in a row: the first that holds decides.
LEMMA TwoChecks ==
  ASSUME NEW S, NEW a \in Seq(S), Len(a) = 2, NEW passed
  PROVE  Verdict(a, passed)
           = IF a[1][1] THEN a[1][2] ELSE IF a[2][1] THEN a[2][2] ELSE passed
<1>1. 1 \in DOMAIN a /\ 2 \in DOMAIN a
  OBVIOUS
<1>2. \A i \in DOMAIN a : i \in {1, 2}
  OBVIOUS
<1>3. CASE a[1][1]
  <2>1. \A j \in DOMAIN a : j < 1 => ~a[j][1]
    BY <1>2, <1>3
  <2>2. Verdict(a, passed) = a[1][2]
    BY <1>1, <1>3, <2>1, FirstIs
  <2> QED BY <1>3, <2>2
<1>4. CASE ~a[1][1] /\ a[2][1]
  <2>1. \A j \in DOMAIN a : j < 2 => ~a[j][1]
    BY <1>2, <1>4
  <2>2. Verdict(a, passed) = a[2][2]
    BY <1>1, <1>4, <2>1, FirstIs
  <2> QED BY <1>4, <2>2
<1>5. CASE ~a[1][1] /\ ~a[2][1]
  <2>1. \A i \in DOMAIN a : ~a[i][1]
    BY <1>2, <1>5
  <2>2. Verdict(a, passed) = passed
    BY <2>1, FirstDecides
  <2> QED BY <1>5, <2>2
<1> QED BY <1>3, <1>4, <1>5

\* Three checks in a row.
LEMMA ThreeChecks ==
  ASSUME NEW S, NEW a \in Seq(S), Len(a) = 3, NEW passed
  PROVE  Verdict(a, passed)
           = IF a[1][1] THEN a[1][2] ELSE IF a[2][1] THEN a[2][2] ELSE IF a[3][1] THEN a[3][2] ELSE passed
<1>1. 1 \in DOMAIN a /\ 2 \in DOMAIN a /\ 3 \in DOMAIN a
  OBVIOUS
<1>2. \A i \in DOMAIN a : i \in {1, 2, 3}
  OBVIOUS
<1>3. CASE a[1][1]
  <2>1. \A j \in DOMAIN a : j < 1 => ~a[j][1]
    BY <1>2, <1>3
  <2>2. Verdict(a, passed) = a[1][2]
    BY <1>1, <1>3, <2>1, FirstIs
  <2> QED BY <1>3, <2>2
<1>4. CASE ~a[1][1] /\ a[2][1]
  <2>1. \A j \in DOMAIN a : j < 2 => ~a[j][1]
    BY <1>2, <1>4
  <2>2. Verdict(a, passed) = a[2][2]
    BY <1>1, <1>4, <2>1, FirstIs
  <2> QED BY <1>4, <2>2
<1>5. CASE ~a[1][1] /\ ~a[2][1] /\ a[3][1]
  <2>1. \A j \in DOMAIN a : j < 3 => ~a[j][1]
    BY <1>2, <1>5
  <2>2. Verdict(a, passed) = a[3][2]
    BY <1>1, <1>5, <2>1, FirstIs
  <2> QED BY <1>5, <2>2
<1>6. CASE ~a[1][1] /\ ~a[2][1] /\ ~a[3][1]
  <2>1. \A i \in DOMAIN a : ~a[i][1]
    BY <1>2, <1>6
  <2>2. Verdict(a, passed) = passed
    BY <2>1, FirstDecides
  <2> QED BY <1>6, <2>2
<1> QED BY <1>3, <1>4, <1>5, <1>6

\* Four checks in a row.
LEMMA FourChecks ==
  ASSUME NEW S, NEW a \in Seq(S), Len(a) = 4, NEW passed
  PROVE  Verdict(a, passed)
           = IF a[1][1] THEN a[1][2] ELSE IF a[2][1] THEN a[2][2] ELSE IF a[3][1] THEN a[3][2] ELSE IF a[4][1] THEN a[4][2] ELSE passed
<1>1. 1 \in DOMAIN a /\ 2 \in DOMAIN a /\ 3 \in DOMAIN a /\ 4 \in DOMAIN a
  OBVIOUS
<1>2. \A i \in DOMAIN a : i \in {1, 2, 3, 4}
  OBVIOUS
<1>3. CASE a[1][1]
  <2>1. \A j \in DOMAIN a : j < 1 => ~a[j][1]
    BY <1>2, <1>3
  <2>2. Verdict(a, passed) = a[1][2]
    BY <1>1, <1>3, <2>1, FirstIs
  <2> QED BY <1>3, <2>2
<1>4. CASE ~a[1][1] /\ a[2][1]
  <2>1. \A j \in DOMAIN a : j < 2 => ~a[j][1]
    BY <1>2, <1>4
  <2>2. Verdict(a, passed) = a[2][2]
    BY <1>1, <1>4, <2>1, FirstIs
  <2> QED BY <1>4, <2>2
<1>5. CASE ~a[1][1] /\ ~a[2][1] /\ a[3][1]
  <2>1. \A j \in DOMAIN a : j < 3 => ~a[j][1]
    BY <1>2, <1>5
  <2>2. Verdict(a, passed) = a[3][2]
    BY <1>1, <1>5, <2>1, FirstIs
  <2> QED BY <1>5, <2>2
<1>6. CASE ~a[1][1] /\ ~a[2][1] /\ ~a[3][1] /\ a[4][1]
  <2>1. \A j \in DOMAIN a : j < 4 => ~a[j][1]
    BY <1>2, <1>6
  <2>2. Verdict(a, passed) = a[4][2]
    BY <1>1, <1>6, <2>1, FirstIs
  <2> QED BY <1>6, <2>2
<1>7. CASE ~a[1][1] /\ ~a[2][1] /\ ~a[3][1] /\ ~a[4][1]
  <2>1. \A i \in DOMAIN a : ~a[i][1]
    BY <1>2, <1>7
  <2>2. Verdict(a, passed) = passed
    BY <2>1, FirstDecides
  <2> QED BY <1>7, <2>2
<1> QED BY <1>3, <1>4, <1>5, <1>6, <1>7

\* Five checks in a row.
LEMMA FiveChecks ==
  ASSUME NEW S, NEW a \in Seq(S), Len(a) = 5, NEW passed
  PROVE  Verdict(a, passed)
           = IF a[1][1] THEN a[1][2] ELSE IF a[2][1] THEN a[2][2] ELSE IF a[3][1] THEN a[3][2] ELSE IF a[4][1] THEN a[4][2] ELSE IF a[5][1] THEN a[5][2] ELSE passed
<1>1. 1 \in DOMAIN a /\ 2 \in DOMAIN a /\ 3 \in DOMAIN a /\ 4 \in DOMAIN a /\ 5 \in DOMAIN a
  OBVIOUS
<1>2. \A i \in DOMAIN a : i \in {1, 2, 3, 4, 5}
  OBVIOUS
<1>3. CASE a[1][1]
  <2>1. \A j \in DOMAIN a : j < 1 => ~a[j][1]
    BY <1>2, <1>3
  <2>2. Verdict(a, passed) = a[1][2]
    BY <1>1, <1>3, <2>1, FirstIs
  <2> QED BY <1>3, <2>2
<1>4. CASE ~a[1][1] /\ a[2][1]
  <2>1. \A j \in DOMAIN a : j < 2 => ~a[j][1]
    BY <1>2, <1>4
  <2>2. Verdict(a, passed) = a[2][2]
    BY <1>1, <1>4, <2>1, FirstIs
  <2> QED BY <1>4, <2>2
<1>5. CASE ~a[1][1] /\ ~a[2][1] /\ a[3][1]
  <2>1. \A j \in DOMAIN a : j < 3 => ~a[j][1]
    BY <1>2, <1>5
  <2>2. Verdict(a, passed) = a[3][2]
    BY <1>1, <1>5, <2>1, FirstIs
  <2> QED BY <1>5, <2>2
<1>6. CASE ~a[1][1] /\ ~a[2][1] /\ ~a[3][1] /\ a[4][1]
  <2>1. \A j \in DOMAIN a : j < 4 => ~a[j][1]
    BY <1>2, <1>6
  <2>2. Verdict(a, passed) = a[4][2]
    BY <1>1, <1>6, <2>1, FirstIs
  <2> QED BY <1>6, <2>2
<1>7. CASE ~a[1][1] /\ ~a[2][1] /\ ~a[3][1] /\ ~a[4][1] /\ a[5][1]
  <2>1. \A j \in DOMAIN a : j < 5 => ~a[j][1]
    BY <1>2, <1>7
  <2>2. Verdict(a, passed) = a[5][2]
    BY <1>1, <1>7, <2>1, FirstIs
  <2> QED BY <1>7, <2>2
<1>8. CASE ~a[1][1] /\ ~a[2][1] /\ ~a[3][1] /\ ~a[4][1] /\ ~a[5][1]
  <2>1. \A i \in DOMAIN a : ~a[i][1]
    BY <1>2, <1>8
  <2>2. Verdict(a, passed) = passed
    BY <2>1, FirstDecides
  <2> QED BY <1>8, <2>2
<1> QED BY <1>3, <1>4, <1>5, <1>6, <1>7, <1>8

\* Five groups of checks made one after the other.
LEMMA FiveGroups ==
  ASSUME NEW S, NEW a \in Seq(S), NEW b \in Seq(S), NEW c \in Seq(S), NEW d \in Seq(S),
         NEW e \in Seq(S), NEW passed
  PROVE  Verdict(a \o b \o c \o d \o e, passed)
           = Verdict(a, Verdict(b, Verdict(c, Verdict(d, Verdict(e, passed)))))
<1> DEFINE ab == a \o b
           abc == ab \o c
           abcd == abc \o d
<1>1. ab \in Seq(S)
  BY ConcatProperties
<1> HIDE DEF ab
<1>2. abc \in Seq(S)
  BY <1>1, ConcatProperties
<1> HIDE DEF abc
<1>3. abcd \in Seq(S)
  BY <1>2, ConcatProperties
<1> HIDE DEF abcd
<1>4. \A p : Verdict(ab, p) = Verdict(a, Verdict(b, p))
  BY OneAfterTheOther DEF ab
<1>5. \A p : Verdict(abc, p) = Verdict(ab, Verdict(c, p))
  BY <1>1, OneAfterTheOther DEF abc
<1>6. \A p : Verdict(abcd, p) = Verdict(abc, Verdict(d, p))
  BY <1>2, OneAfterTheOther DEF abcd
<1>7. Verdict(abcd \o e, passed) = Verdict(abcd, Verdict(e, passed))
  BY <1>3, OneAfterTheOther
<1>8. Verdict(abcd \o e, passed)
           = Verdict(a, Verdict(b, Verdict(c, Verdict(d, Verdict(e, passed)))))
  BY <1>4, <1>5, <1>6, <1>7
<1> QED BY <1>8 DEF abcd, abc, ab

\* What registration let through.
LetThrough(t) ==
  /\ ~Unbundled(t) /\ ~Unmatched(t) /\ (t.takesAny \/ Required(t) \subseteq Sources(t))
  /\ ~SeedFields(t)
  /\ Routes(t) \cap (Reserved \cup Paging) = {}
  /\ Queries(t) \cap (Reserved \cup Paging) = {} /\ Queries(t) \cap Routes(t) = {}
  /\ ~Queried(t) /\ Holds(t)
  /\ IF IsSelector(t)
     THEN ~(t.kind = "retrieve" /\ t.paginate) /\ ~Unreached(t) /\ ~PagingParameter(t)
     ELSE ~Routed(t) /\ CallerFields(t) \cap (LookupKeys(t) \ Reserved) = {}

\* What is registered passed every check of its registration.
LEMMA AcceptedIs ==
  ASSUME NEW t, Verdict(RegistrationChecks(t), "registered") = "registered"
  PROVE  LetThrough(t)
<1> DEFINE a == CallableChecks(t)
           b == << <<SeedFields(t), "field named after a seed">> >>
           c == UrlKwargChecks(t)
           d == QueryParamChecks(t)
           eS == << <<t.kind = "retrieve" /\ t.paginate, "retrieve paginated">>,
                    <<Queried(t), "input named after a query parameter">>,
                    <<Unreached(t), "url kwarg only a catch-all could take">>,
                    <<PagingParameter(t), "paging parameter">>,
                    <<~Holds(t), "server arguments">> >>
           eT == << <<Queried(t), "input named after a query parameter">>,
                    <<Routed(t), "input named after a url kwarg">>,
                    <<CallerFields(t) \cap (LookupKeys(t) \ Reserved) # {},
                      "field named after a lookup key">>,
                    <<~Holds(t), "server arguments">> >>
           S == {a[1], a[2], a[3], b[1], c[1], d[1], d[2], eS[1], eS[2], eS[3], eS[4], eS[5],
                 eT[1], eT[2], eT[3], eT[4]}
<1>1. a \in Seq(S) /\ Len(a) = 3 /\ b \in Seq(S) /\ Len(b) = 1
  BY DEF CallableChecks
<1>2. c \in Seq(S) /\ Len(c) = 1 /\ d \in Seq(S) /\ Len(d) = 2
  BY DEF UrlKwargChecks, QueryParamChecks
<1>3. eS \in Seq(S) /\ Len(eS) = 5
  OBVIOUS
<1>4. eT \in Seq(S) /\ Len(eT) = 4
  OBVIOUS
<1>5. a[1][2] # "registered" /\ a[2][2] # "registered" /\ a[3][2] # "registered"
  BY DEF CallableChecks
<1>6. b[1][2] # "registered" /\ c[1][2] # "registered" /\ d[1][2] # "registered" /\ d[2][2] # "registered"
  BY DEF UrlKwargChecks, QueryParamChecks
<1>7. /\ eS[1][2] # "registered" /\ eS[2][2] # "registered" /\ eS[3][2] # "registered"
      /\ eS[4][2] # "registered" /\ eS[5][2] # "registered"
  OBVIOUS
<1>8. /\ eT[1][2] # "registered" /\ eT[2][2] # "registered" /\ eT[3][2] # "registered"
      /\ eT[4][2] # "registered"
  OBVIOUS
<1>9. ~a[1][1] /\ ~a[2][1] /\ ~a[3][1] /\ ~b[1][1] /\ ~c[1][1] /\ ~d[1][1] /\ ~d[2][1] =>
        /\ ~Unbundled(t) /\ ~Unmatched(t) /\ (t.takesAny \/ Required(t) \subseteq Sources(t))
        /\ ~SeedFields(t)
        /\ Routes(t) \cap (Reserved \cup Paging) = {}
        /\ Queries(t) \cap (Reserved \cup Paging) = {} /\ Queries(t) \cap Routes(t) = {}
  BY DEF CallableChecks, UrlKwargChecks, QueryParamChecks
<1>10. ~eS[1][1] /\ ~eS[2][1] /\ ~eS[3][1] /\ ~eS[4][1] /\ ~eS[5][1] =>
        /\ ~(t.kind = "retrieve" /\ t.paginate) /\ ~Queried(t) /\ ~Unreached(t)
        /\ ~PagingParameter(t) /\ Holds(t)
  OBVIOUS
<1>11. ~eT[1][1] /\ ~eT[2][1] /\ ~eT[3][1] /\ ~eT[4][1] =>
        /\ ~Queried(t) /\ ~Routed(t) /\ CallerFields(t) \cap (LookupKeys(t) \ Reserved) = {}
        /\ Holds(t)
  OBVIOUS
<1> HIDE DEF a, b, c, d, eS, eT, S
<1>12. ASSUME NEW e \in Seq(S),
              Verdict(a, Verdict(b, Verdict(c, Verdict(d, Verdict(e, "registered"))))) = "registered"
       PROVE  /\ ~a[1][1] /\ ~a[2][1] /\ ~a[3][1] /\ ~b[1][1] /\ ~c[1][1] /\ ~d[1][1] /\ ~d[2][1]
              /\ Verdict(e, "registered") = "registered"
  <2>1. \A p : Verdict(a, p) = IF a[1][1] THEN a[1][2] ELSE IF a[2][1] THEN a[2][2]
                               ELSE IF a[3][1] THEN a[3][2] ELSE p
    BY <1>1, ThreeChecks
  <2>2. \A p : Verdict(b, p) = IF b[1][1] THEN b[1][2] ELSE p
    BY <1>1, OneCheck
  <2>3. \A p : Verdict(c, p) = IF c[1][1] THEN c[1][2] ELSE p
    BY <1>2, OneCheck
  <2>4. \A p : Verdict(d, p) = IF d[1][1] THEN d[1][2] ELSE IF d[2][1] THEN d[2][2] ELSE p
    BY <1>2, TwoChecks
  <2>5. PICK v4 : v4 = Verdict(e, "registered")
    OBVIOUS
  <2>6. PICK v3 : v3 = Verdict(d, v4)
    OBVIOUS
  <2>7. PICK v2 : v2 = Verdict(c, v3)
    OBVIOUS
  <2>8. PICK v1 : v1 = Verdict(b, v2)
    OBVIOUS
  <2>9. Verdict(a, v1) = "registered"
    BY <1>12, <2>5, <2>6, <2>7, <2>8
  <2>10. ~a[1][1] /\ ~a[2][1] /\ ~a[3][1] /\ v1 = "registered"
    BY <1>5, <2>1, <2>9
  <2>11. ~b[1][1] /\ v2 = "registered"
    BY <1>6, <2>2, <2>8, <2>10
  <2>12. ~c[1][1] /\ v3 = "registered"
    BY <1>6, <2>3, <2>7, <2>11
  <2>13. ~d[1][1] /\ ~d[2][1] /\ v4 = "registered"
    BY <1>6, <2>4, <2>6, <2>12
  <2> QED BY <2>5, <2>10, <2>11, <2>12, <2>13
<1>13. CASE IsSelector(t)
  <2>1. RegistrationChecks(t) = a \o b \o c \o d \o eS
    BY <1>13 DEF RegistrationChecks, SelectorChecks, a, b, c, d, eS
  <2>2. Verdict(a, Verdict(b, Verdict(c, Verdict(d, Verdict(eS, "registered"))))) = "registered"
    BY <1>1, <1>2, <1>3, <2>1, FiveGroups
  <2>3. Verdict(eS, "registered") = "registered"
    BY <1>3, <1>12, <2>2
  <2>4. ~eS[1][1] /\ ~eS[2][1] /\ ~eS[3][1] /\ ~eS[4][1] /\ ~eS[5][1]
    BY <1>3, <1>7, <2>3, FiveChecks
  <2>5. ~a[1][1] /\ ~a[2][1] /\ ~a[3][1] /\ ~b[1][1] /\ ~c[1][1] /\ ~d[1][1] /\ ~d[2][1]
    BY <1>3, <1>12, <2>2
  <2> QED BY <1>9, <1>10, <1>13, <2>4, <2>5 DEF LetThrough
<1>14. CASE ~IsSelector(t)
  <2>1. RegistrationChecks(t) = a \o b \o c \o d \o eT
    BY <1>14 DEF RegistrationChecks, ServiceChecks, a, b, c, d, eT
  <2>2. Verdict(a, Verdict(b, Verdict(c, Verdict(d, Verdict(eT, "registered"))))) = "registered"
    BY <1>1, <1>2, <1>4, <2>1, FiveGroups
  <2>3. Verdict(eT, "registered") = "registered"
    BY <1>4, <1>12, <2>2
  <2>4. ~eT[1][1] /\ ~eT[2][1] /\ ~eT[3][1] /\ ~eT[4][1]
    BY <1>4, <1>8, <2>3, FourChecks
  <2>5. ~a[1][1] /\ ~a[2][1] /\ ~a[3][1] /\ ~b[1][1] /\ ~c[1][1] /\ ~d[1][1] /\ ~d[2][1]
    BY <1>4, <1>12, <2>2
  <2> QED BY <1>9, <1>11, <1>14, <2>4, <2>5 DEF LetThrough
<1> QED BY <1>13, <1>14
-----------------------------------------------------------------------------
\* How the parts of a declaration lie within one another.
LEMMA RolesAre ==
  ASSUME NEW t
  PROVE  /\ Is(t, "route", {"default"}) \cup Is(t, "route", {"required"}) \subseteq Routes(t)
         /\ Required(t) \subseteq Params(t) /\ Params(t) \subseteq Names
         /\ Is(t, "lookup", {"required"}) \subseteq LookupKeys(t) /\ LookupKeys(t) \subseteq Names
         /\ Fills(t) \subseteq LaidBack(t) /\ LaidBack(t) \subseteq CallerFields(t)
         /\ CallerFields(t) \subseteq FieldNames(t)
         /\ Is(t, "field", {"required"}) \subseteq CallerFields(t)
         /\ Is(t, "from", {"supplied"}) \cup Is(t, "from", {"withheld"}) = ServerNames(t)
<1>1. /\ Is(t, "route", {"default"}) \cup Is(t, "route", {"required"}) \subseteq Routes(t)
      /\ Required(t) \subseteq Params(t) /\ Params(t) \subseteq Names
      /\ Is(t, "lookup", {"required"}) \subseteq LookupKeys(t) /\ LookupKeys(t) \subseteq Names
  BY DEF Is, Routes, Required, Params, LookupKeys
<1>2. /\ Fills(t) \subseteq LaidBack(t) /\ LaidBack(t) \subseteq CallerFields(t)
      /\ CallerFields(t) \subseteq FieldNames(t)
      /\ Is(t, "field", {"required"}) \subseteq CallerFields(t)
  BY DEF Is, Fills, LaidBack, CallerFields, FieldNames
<1>3. Is(t, "from", {"supplied"}) \cup Is(t, "from", {"withheld"}) = ServerNames(t)
  BY DEF Is, ServerNames
<1> QED BY <1>1, <1>2, <1>3

\* Who gives a value: the three are told apart.
LEMMA Givers ==
  ASSUME NEW n, NEW m
  PROVE  Of(n) # Server /\ Of(n) # Author /\ (Of(n) = Of(m) => n = m)
BY DEF Of, Server, Author

\* The arguments of a call: what was sent and what the server supplies, under its own value.
LEMMA ArgsAre ==
  ASSUME NEW t, NEW s, NEW n
  PROVE  /\ n \in DOMAIN Args(t, s) <=>
              (n \in s /\ n \notin ServerNames(t)) \/ n \in Is(t, "from", {"supplied"})
         /\ n \in DOMAIN Args(t, s) =>
              Args(t, s)[n] = IF n \in ServerNames(t) THEN Server ELSE Of(n)
BY DEF Args

\* What is left of the arguments once the routes and the query parameters are taken out.
LEMMA RestIs ==
  ASSUME NEW t, NEW s, NEW n
  PROVE  /\ n \in DOMAIN Rest(t, s) <=>
              n \in DOMAIN Args(t, s) /\ n \notin Routes(t) /\ n \notin Queries(t)
         /\ n \in DOMAIN Rest(t, s) => Rest(t, s)[n] = Args(t, s)[n]
BY DEF Rest, Without

\* The routes of a call: what was sent for one, or else what its author declared.
LEMMA RouteValuesAre ==
  ASSUME NEW t, NEW s, NEW n
  PROVE  /\ n \in DOMAIN RouteValues(t, s) <=>
              n \in Is(t, "route", {"default"}) \/ (n \in DOMAIN Args(t, s) /\ n \in Routes(t))
         /\ n \in DOMAIN RouteValues(t, s) =>
              RouteValues(t, s)[n] =
                IF n \in DOMAIN Args(t, s) /\ n \in Routes(t) THEN Args(t, s)[n] ELSE Author
<1> DEFINE low == [m \in Is(t, "route", {"default"}) |-> Author]
           high == Only(Args(t, s), Routes(t))
<1>1. /\ n \in DOMAIN high <=> n \in DOMAIN Args(t, s) /\ n \in Routes(t)
      /\ n \in DOMAIN high => high[n] = Args(t, s)[n]
  BY DEF Only
<1>2. DOMAIN low = Is(t, "route", {"default"}) /\ (n \in DOMAIN low => low[n] = Author)
  OBVIOUS
<1> HIDE DEF low, high
<1>3. /\ n \in DOMAIN Under(low, high) <=> n \in DOMAIN low \/ n \in DOMAIN high
      /\ n \in DOMAIN Under(low, high) =>
           Under(low, high)[n] = IF n \in DOMAIN high THEN high[n] ELSE low[n]
  BY DEF Under
<1>4. RouteValues(t, s) = Under(low, high)
  BY DEF RouteValues, low, high
<1> QED BY <1>1, <1>2, <1>3, <1>4

\* The pool: the caller's values, the seeds over them, the provider over both.
LEMMA PooledIs ==
  ASSUME NEW t \in Tools, NEW values, NEW n
  PROVE  /\ n \in DOMAIN Pooled(t, values) <=>
              /\ n \in Params(t)
              /\ \/ n \in DOMAIN values /\ n \notin Reserved
                 \/ n \in DOMAIN SeedsOf(t) \/ n \in Filled(t) \cup Claimed(t)
         /\ n \in DOMAIN Pooled(t, values) =>
              Pooled(t, values)[n] =
                IF n \in DOMAIN SeedsOf(t) \/ n \in Filled(t) \cup Claimed(t) THEN Server
                ELSE values[n]
         /\ DOMAIN SeedsOf(t) \subseteq Reserved /\ Seeds \subseteq DOMAIN SeedsOf(t)
         /\ HasLookup(t) => "instance" \in DOMAIN SeedsOf(t)
         /\ HasInput(t) /\ ~IsSelector(t) => "data" \in DOMAIN SeedsOf(t)
<1>1. /\ DOMAIN SeedsOf(t) \subseteq Reserved /\ Seeds \subseteq DOMAIN SeedsOf(t)
      /\ HasLookup(t) => "instance" \in DOMAIN SeedsOf(t)
      /\ HasInput(t) /\ ~IsSelector(t) => "data" \in DOMAIN SeedsOf(t)
  BY InputsAssumption DEF SeedsOf
<1>2. \A m \in DOMAIN SeedsOf(t) : SeedsOf(t)[m] = Server
  BY DEF SeedsOf
<1> DEFINE low == Without(values, Reserved)
           mid == Under(low, SeedsOf(t))
           top == [m \in Filled(t) \cup Claimed(t) |-> Server]
           all == Under(mid, top)
<1>3. (n \in DOMAIN low <=> n \in DOMAIN values /\ n \notin Reserved) /\ (n \in DOMAIN low => low[n] = values[n])
  BY DEF Without
<1> HIDE DEF low
<1>4. /\ n \in DOMAIN mid <=> n \in DOMAIN low \/ n \in DOMAIN SeedsOf(t)
      /\ n \in DOMAIN mid => mid[n] = IF n \in DOMAIN SeedsOf(t) THEN Server ELSE low[n]
  BY <1>2 DEF Under
<1> HIDE DEF mid
<1>5. /\ n \in DOMAIN all <=> n \in DOMAIN mid \/ n \in Filled(t) \cup Claimed(t)
      /\ n \in DOMAIN all => all[n] = IF n \in Filled(t) \cup Claimed(t) THEN Server ELSE mid[n]
  BY DEF Under
<1>6. Pooled(t, values) = Only(all, Params(t))
  BY DEF Pooled, low, mid
<1> HIDE DEF all
<1>7. /\ n \in DOMAIN Only(all, Params(t)) <=> n \in DOMAIN all /\ n \in Params(t)
      /\ n \in DOMAIN Only(all, Params(t)) => Only(all, Params(t))[n] = all[n]
  BY DEF Only
<1> QED BY <1>1, <1>3, <1>4, <1>5, <1>6, <1>7

\* What a serializer hands on comes from a field bound to the name.
LEMMA ValidatedIs ==
  ASSUME NEW t, NEW data, NEW n
  PROVE  /\ n \in DOMAIN Validated(t, data) <=>
              \E f \in CallerFields(t) :
                t.role[f].as = n /\ (f \in DOMAIN data \/ t.role[f].field = "default")
         /\ n \in DOMAIN Validated(t, data) =>
              \/ Validated(t, data)[n] = Author
              \/ \E f \in CallerFields(t) :
                   f \in DOMAIN data /\ t.role[f].as = n /\ Validated(t, data)[n] = data[f]
         /\ n \in DOMAIN Validated(t, data) /\ n \in DOMAIN data
              /\ (\A f \in CallerFields(t) : t.role[f].as = n => f = n) =>
              Validated(t, data)[n] = data[n]
<1> DEFINE given == {f \in CallerFields(t) : f \in DOMAIN data \/ t.role[f].field = "default"}
           Into(m) == {f \in given : t.role[f].as = m}
           value(m) == CHOOSE f \in Into(m) : f # m \/ Into(m) = {m}
           names == {t.role[f].as : f \in given}
<1>1. Validated(t, data) = [m \in names |-> IF value(m) \in DOMAIN data THEN data[value(m)] ELSE Author]
  BY DEF Validated
<1>2. n \in names <=> Into(n) # {}
  OBVIOUS
<1>3. Into(n) # {} => value(n) \in Into(n)
  <2> DEFINE I == Into(n)
  <2> HIDE DEF I
  <2>1. I # {} => \E f \in I : f # n \/ I = {n}
    OBVIOUS
  <2>2. I # {} => (CHOOSE f \in I : f # n \/ I = {n}) \in I
    BY <2>1
  <2> QED BY <2>2 DEF I
<1>4. \A f : f \in Into(n) <=>
        f \in CallerFields(t) /\ t.role[f].as = n /\ (f \in DOMAIN data \/ t.role[f].field = "default")
  OBVIOUS
<1>5. PICK v : v = value(n)
  OBVIOUS
<1>6. PICK I : I = Into(n)
  OBVIOUS
<1>7. n \in names => Validated(t, data)[n] = IF v \in DOMAIN data THEN data[v] ELSE Author
  BY <1>1, <1>5
<1>8. DOMAIN Validated(t, data) = names
  BY <1>1
<1> HIDE DEF names, value, Into, given
<1> QED BY <1>2, <1>3, <1>4, <1>5, <1>6, <1>7, <1>8

\* What is left of a call's arguments once the page is taken off a list's.
Left(t, s) == IF t.kind = "list" THEN Without(Rest(t, s), Paging) ELSE Rest(t, s)

\* The names of a selector's arguments and who gave each, without the paging.
LEMMA LeftIs ==
  ASSUME NEW t, NEW s, NEW n
  PROVE  /\ n \in DOMAIN Left(t, s) <=>
              n \in DOMAIN Rest(t, s) /\ (t.kind = "list" => n \notin Paging)
         /\ n \in DOMAIN Left(t, s) => Left(t, s)[n] = Rest(t, s)[n]
BY DEF Left, Without

\* The parameters of a selector: what was sent, what validation adds, defaults of routes.
LEMMA SelectorParamsAre ==
  ASSUME NEW t, NEW s, NEW n
  PROVE  LET valid == Validated(t, Args(t, s))
             defaults == (Fills(t) \cap Routes(t)) \ DOMAIN RouteValues(t, s)
         IN /\ n \in DOMAIN SelectorParams(t, s) <=>
                 \/ n \notin Routes(t) /\ (n \in DOMAIN Left(t, s) \/ n \in DOMAIN valid)
                 \/ n \in defaults
            /\ n \in DOMAIN SelectorParams(t, s) =>
                 SelectorParams(t, s)[n] =
                   IF n \in defaults THEN Author
                   ELSE IF n \in DOMAIN valid THEN valid[n] ELSE Left(t, s)[n]
<1> DEFINE valid == Validated(t, Args(t, s))
           defaults == (Fills(t) \cap Routes(t)) \ DOMAIN RouteValues(t, s)
           low == Under(Left(t, s), valid)
           mid == Without(low, Routes(t))
           top == [m \in defaults |-> Author]
<1>1. /\ n \in DOMAIN low <=> n \in DOMAIN Left(t, s) \/ n \in DOMAIN valid
      /\ n \in DOMAIN low => low[n] = IF n \in DOMAIN valid THEN valid[n] ELSE Left(t, s)[n]
  BY DEF Under
<1> HIDE DEF low
<1>2. (n \in DOMAIN mid <=> n \in DOMAIN low /\ n \notin Routes(t)) /\ (n \in DOMAIN mid => mid[n] = low[n])
  BY DEF Without
<1> HIDE DEF mid
<1>3. DOMAIN top = defaults /\ (n \in defaults => top[n] = Author)
  OBVIOUS
<1> HIDE DEF top
<1>4. /\ n \in DOMAIN Under(mid, top) <=> n \in DOMAIN mid \/ n \in DOMAIN top
      /\ n \in DOMAIN Under(mid, top) =>
           Under(mid, top)[n] = IF n \in DOMAIN top THEN top[n] ELSE mid[n]
  BY DEF Under
<1>5. SelectorParams(t, s) = Under(mid, top)
  BY DEF SelectorParams, mid, low, top, Left
<1> HIDE DEF valid, defaults
<1>6. /\ n \in DOMAIN SelectorParams(t, s) <=>
           \/ n \notin Routes(t) /\ (n \in DOMAIN Left(t, s) \/ n \in DOMAIN valid)
           \/ n \in defaults
      /\ n \in DOMAIN SelectorParams(t, s) =>
           SelectorParams(t, s)[n] =
             IF n \in defaults THEN Author
             ELSE IF n \in DOMAIN valid THEN valid[n] ELSE Left(t, s)[n]
  BY <1>1, <1>2, <1>3, <1>4, <1>5
<1> QED BY <1>6 DEF valid, defaults

\* What a selector, or a lookup, is handed of the call.
Delivered(t, s) ==
  IF IsSelector(t) THEN Under(SelectorParams(t, s), RouteValues(t, s))
  ELSE Under(Rest(t, s), RouteValues(t, s))

\* One pool laid over another.
LEMMA UnderIs ==
  ASSUME NEW f, NEW g, NEW n
  PROVE  /\ n \in DOMAIN Under(f, g) <=> n \in DOMAIN f \/ n \in DOMAIN g
         /\ n \in DOMAIN Under(f, g) => Under(f, g)[n] = IF n \in DOMAIN g THEN g[n] ELSE f[n]
BY DEF Under

\* The pool of a target lookup: its keys, from the seeds, the routes or the arguments.
LEMMA LookupPoolIs ==
  ASSUME NEW t \in Tools, NEW s, NEW n
  PROVE  LET given == Under(Rest(t, s), RouteValues(t, s))
         IN /\ n \in DOMAIN LookupPool(t, s) <=>
                 n \in LookupKeys(t) /\ (n \in Seeds \/ (n \in DOMAIN given /\ n \notin Reserved))
            /\ n \in DOMAIN LookupPool(t, s) =>
                 LookupPool(t, s)[n] = IF n \in Seeds THEN Server ELSE given[n]
<1> DEFINE given == Under(Rest(t, s), RouteValues(t, s))
           low == Without(given, Reserved)
           top == [m \in Seeds |-> Server]
<1>1. LookupPool(t, s) = Only(Under(low, top), LookupKeys(t))
  BY DEF LookupPool
<1> HIDE DEF given
<1>2. (n \in DOMAIN low <=> n \in DOMAIN given /\ n \notin Reserved) /\ (n \in DOMAIN low => low[n] = given[n])
  BY DEF Without
<1>3. DOMAIN top = Seeds /\ (n \in Seeds => top[n] = Server)
  OBVIOUS
<1> HIDE DEF low, top
<1> DEFINE all == Under(low, top)
<1>4. /\ n \in DOMAIN all <=> n \in DOMAIN low \/ n \in DOMAIN top
      /\ n \in DOMAIN all => all[n] = IF n \in DOMAIN top THEN top[n] ELSE low[n]
  BY UnderIs
<1> HIDE DEF all
<1>5. /\ n \in DOMAIN Only(all, LookupKeys(t)) <=> n \in DOMAIN all /\ n \in LookupKeys(t)
      /\ n \in DOMAIN Only(all, LookupKeys(t)) => Only(all, LookupKeys(t))[n] = all[n]
  BY DEF Only
<1>6. LookupPool(t, s) = Only(all, LookupKeys(t))
  BY <1>1 DEF all
<1>7. /\ n \in DOMAIN LookupPool(t, s) <=>
           n \in LookupKeys(t) /\ (n \in Seeds \/ (n \in DOMAIN given /\ n \notin Reserved))
      /\ n \in DOMAIN LookupPool(t, s) =>
           LookupPool(t, s)[n] = IF n \in Seeds THEN Server ELSE given[n]
  BY <1>2, <1>3, <1>4, <1>5, <1>6
<1> QED BY <1>7 DEF given

-----------------------------------------------------------------------------
(* How a call is answered.                                                 *)

RoutesGiven(t, s) == Is(t, "route", {"required"}) \subseteq DOMAIN Args(t, s)
NoneMissing(t, s) == Asked(t) \subseteq DOMAIN Delivered(t, s)
NoneUnknown(t, s) == ~(Closed(t) /\ ~(DOMAIN Args(t, s) \subseteq Known(t)))
LookupGiven(t, s) == Is(t, "lookup", {"required"}) \subseteq DOMAIN LookupPool(t, s)
FieldsGiven(t, s) ==
  Is(t, "field", {"required"})
    \subseteq DOMAIN (IF IsSelector(t) THEN Args(t, s) ELSE Payload(t, s))
ParametersGiven(t, s) == Required(t) \subseteq DOMAIN Pool(t, s)

\* The checks of a selector's call, and of a service's, and what each means.
LEMMA AnswerIs ==
  ASSUME NEW t, NEW s
  PROVE  /\ IsSelector(t) =>
              /\ Answer(t, s) = "TypeError" =>
                   RoutesGiven(t, s) /\ NoneMissing(t, s) /\ ~ParametersGiven(t, s)
              /\ Answer(t, s) # "TypeError in the lookup"
         /\ ~IsSelector(t) /\ Answer(t, s) = "TypeError in the lookup" =>
              RoutesGiven(t, s) /\ NoneMissing(t, s) /\ ~LookupGiven(t, s)
         /\ /\ RoutesGiven(t, s) /\ NoneMissing(t, s) /\ NoneUnknown(t, s)
            /\ IsSelector(t) \/ LookupGiven(t, s)
            /\ FieldsGiven(t, s) /\ ParametersGiven(t, s)
            => Answer(t, s) = "served"
<1> DEFINE missing == <<~(Asked(t) \subseteq DOMAIN Delivered(t, s)), "missing">>
           unknown == <<Closed(t) /\ ~(DOMAIN Args(t, s) \subseteq Known(t)), "unknown">>
           lookup == <<~(Is(t, "lookup", {"required"}) \subseteq DOMAIN LookupPool(t, s)),
                       "TypeError in the lookup">>
           invalid == <<~(Is(t, "field", {"required"})
                            \subseteq DOMAIN (IF IsSelector(t) THEN Args(t, s) ELSE Payload(t, s))),
                        "invalid">>
           a == << <<~(Is(t, "route", {"required"}) \subseteq DOMAIN Args(t, s)), "missing">> >>
           bS == <<unknown, invalid, missing>>
           bT == <<missing, unknown, lookup, invalid>>
           c == << <<~(Required(t) \subseteq DOMAIN Pool(t, s)), "TypeError">> >>
           S == {a[1], unknown, lookup, missing, invalid, c[1]}
<1>1. CallChecks(t, s) = a \o (IF IsSelector(t) THEN bS ELSE bT) \o c
  BY DEF CallChecks, Delivered
<1>2. a \in Seq(S) /\ Len(a) = 1 /\ c \in Seq(S) /\ Len(c) = 1
  OBVIOUS
<1>3. bS \in Seq(S) /\ Len(bS) = 3 /\ bT \in Seq(S) /\ Len(bT) = 4
  OBVIOUS
<1>4. a[1][2] = "missing" /\ c[1][2] = "TypeError"
      /\ (a[1][1] <=> ~RoutesGiven(t, s)) /\ (c[1][1] <=> ~ParametersGiven(t, s))
  BY DEF RoutesGiven, ParametersGiven
<1>5. /\ bS[1][2] = "unknown" /\ bS[2][2] = "invalid" /\ bS[3][2] = "missing"
      /\ (bS[1][1] <=> ~NoneUnknown(t, s)) /\ (bS[2][1] <=> ~FieldsGiven(t, s))
      /\ (bS[3][1] <=> ~NoneMissing(t, s))
  BY DEF NoneUnknown, FieldsGiven, NoneMissing
<1>6. /\ bT[1][2] = "missing" /\ bT[2][2] = "unknown" /\ bT[3][2] = "TypeError in the lookup"
      /\ bT[4][2] = "invalid"
      /\ (bT[1][1] <=> ~NoneMissing(t, s)) /\ (bT[2][1] <=> ~NoneUnknown(t, s))
      /\ (bT[3][1] <=> ~LookupGiven(t, s)) /\ (bT[4][1] <=> ~FieldsGiven(t, s))
  BY DEF NoneUnknown, FieldsGiven, NoneMissing, LookupGiven
<1> HIDE DEF a, bS, bT, c, S
<1>7. \A b \in Seq(S) : \A p : Verdict(a \o b \o c, p) = Verdict(a, Verdict(b, Verdict(c, p)))
  <2>1. ASSUME NEW b \in Seq(S), NEW p
        PROVE  Verdict(a \o b \o c, p) = Verdict(a, Verdict(b, Verdict(c, p)))
    <3>1. PICK ab : ab = a \o b
      OBVIOUS
    <3>2. ab \in Seq(S)
      BY <1>2, <3>1, ConcatProperties
    <3>3. Verdict(ab \o c, p) = Verdict(ab, Verdict(c, p))
      BY <1>2, <3>2, OneAfterTheOther
    <3>4. \A q : Verdict(ab, q) = Verdict(a, Verdict(b, q))
      BY <1>2, <3>1, OneAfterTheOther
    <3> QED BY <3>1, <3>3, <3>4
  <2> QED BY <2>1
<1>8. PICK v : v = Verdict(c, "served")
  OBVIOUS
<1>9. v = IF c[1][1] THEN c[1][2] ELSE "served"
  BY <1>2, <1>8, OneCheck
<1>10. \A p : Verdict(a, p) = IF a[1][1] THEN a[1][2] ELSE p
  BY <1>2, OneCheck
<1>11. CASE IsSelector(t)
  <2>1. PICK w : w = Verdict(bS, v)
    OBVIOUS
  <2>2. w = IF bS[1][1] THEN bS[1][2] ELSE IF bS[2][1] THEN bS[2][2]
            ELSE IF bS[3][1] THEN bS[3][2] ELSE v
    BY <1>3, <2>1, ThreeChecks
  <2>3. Answer(t, s) = Verdict(a, w)
    BY <1>1, <1>3, <1>7, <1>8, <1>11, <2>1 DEF Answer
  <2>4. Answer(t, s) = IF a[1][1] THEN a[1][2] ELSE w
    BY <1>10, <2>3
  <2> QED BY <1>4, <1>5, <1>9, <1>11, <2>2, <2>4
<1>12. CASE ~IsSelector(t)
  <2>1. PICK w : w = Verdict(bT, v)
    OBVIOUS
  <2>2. w = IF bT[1][1] THEN bT[1][2] ELSE IF bT[2][1] THEN bT[2][2]
            ELSE IF bT[3][1] THEN bT[3][2] ELSE IF bT[4][1] THEN bT[4][2] ELSE v
    BY <1>3, <2>1, FourChecks
  <2>3. Answer(t, s) = Verdict(a, w)
    BY <1>1, <1>3, <1>7, <1>8, <1>12, <2>1 DEF Answer
  <2>4. Answer(t, s) = IF a[1][1] THEN a[1][2] ELSE w
    BY <1>10, <2>3
  <2> QED BY <1>4, <1>6, <1>9, <1>12, <2>2, <2>4
<1> QED BY <1>11, <1>12
-----------------------------------------------------------------------------
(* Where an argument goes.                                                 *)

\* What a selector is not supplied with and the call carries, it is handed.
LEMMA SelectorIsHanded ==
  ASSUME NEW t \in Tools, NEW s, LetThrough(t), IsSelector(t),
         NEW n \in Params(t) \ SuppliedToSelector(t), n \in DOMAIN Args(t, s)
  PROVE  /\ n \in DOMAIN Delivered(t, s)
         /\ (\A f \in CallerFields(t) : t.role[f].as = n => f = n) =>
              Delivered(t, s)[n] = Args(t, s)[n]
<1> DEFINE valid == Validated(t, Args(t, s))
<1>1. n \notin Fills(t) /\ n \notin Is(t, "route", {"default"})
  BY DEF SuppliedToSelector
<1>2. /\ n \in DOMAIN Delivered(t, s) <=>
           n \in DOMAIN SelectorParams(t, s) \/ n \in DOMAIN RouteValues(t, s)
      /\ n \in DOMAIN Delivered(t, s) =>
           Delivered(t, s)[n] = IF n \in DOMAIN RouteValues(t, s) THEN RouteValues(t, s)[n]
                                ELSE SelectorParams(t, s)[n]
  BY UnderIs DEF Delivered
<1>3. CASE n \in Routes(t)
  BY <1>2, <1>3, RouteValuesAre
<1>4. CASE n \notin Routes(t)
  <2>1. n \notin DOMAIN RouteValues(t, s)
    BY <1>4, RouteValuesAre, RolesAre
  <2>2. n \in DOMAIN Left(t, s) \/ n \in LaidBack(t)
    <3>1. n \in Queries(t) => n \in LaidBack(t)
      BY DEF LetThrough, Queried, Reflected
    <3>2. t.kind = "list" /\ n \in Paging => n \in LaidBack(t)
      BY DEF LetThrough, PagingParameter
    <3> QED BY <1>4, <3>1, <3>2, LeftIs, RestIs
  <2>3. n \in LaidBack(t) => n \in DOMAIN valid
    BY ValidatedIs DEF LaidBack
  <2>4. /\ n \in DOMAIN SelectorParams(t, s) <=> n \in DOMAIN Left(t, s) \/ n \in DOMAIN valid
        /\ n \in DOMAIN SelectorParams(t, s) =>
             SelectorParams(t, s)[n] = IF n \in DOMAIN valid THEN valid[n] ELSE Left(t, s)[n]
    BY <1>1, <1>4, SelectorParamsAre
  <2>5. n \in DOMAIN valid /\ (\A f \in CallerFields(t) : t.role[f].as = n => f = n) =>
          valid[n] = Args(t, s)[n]
    BY ValidatedIs
  <2>6. n \in DOMAIN Left(t, s) => Left(t, s)[n] = Args(t, s)[n]
    BY LeftIs, RestIs
  <2> HIDE DEF valid
  <2> QED BY <1>2, <2>1, <2>2, <2>3, <2>4, <2>5, <2>6
<1> QED BY <1>3, <1>4

\* A target lookup is handed every key of its own that the call carries.
LEMMA LookupIsHanded ==
  ASSUME NEW t \in Tools, NEW s, LetThrough(t), ~IsSelector(t),
         NEW n \in LookupKeys(t) \ Reserved, n \in DOMAIN Args(t, s)
  PROVE  n \in DOMAIN Delivered(t, s) /\ Delivered(t, s)[n] = Args(t, s)[n]
<1>1. /\ n \in DOMAIN Delivered(t, s) <=>
           n \in DOMAIN Rest(t, s) \/ n \in DOMAIN RouteValues(t, s)
      /\ n \in DOMAIN Delivered(t, s) =>
           Delivered(t, s)[n] = IF n \in DOMAIN RouteValues(t, s) THEN RouteValues(t, s)[n]
                                ELSE Rest(t, s)[n]
  BY UnderIs DEF Delivered
<1>2. n \notin Queries(t)
  BY DEF LetThrough, Queried
<1> QED BY <1>1, <1>2, RestIs, RouteValuesAre, RolesAre

\* A service without a serializer is handed what it offers of its own.
LEMMA ServiceIsHanded ==
  ASSUME NEW t \in Tools, NEW s, LetThrough(t), ~IsSelector(t),
         NEW n \in OwnOffered(t) \ (Filled(t) \cup Claimed(t)), n \in DOMAIN Args(t, s)
  PROVE  n \in DOMAIN Rest(t, s) /\ Rest(t, s)[n] = Args(t, s)[n]
<1>1. n \notin Queries(t)
  BY DEF LetThrough, Queried
<1>2. n \notin Routes(t)
  BY DEF LetThrough, Routed
<1> QED BY <1>1, <1>2, RestIs

\* A service's serializer is handed every field of its own.
LEMMA SerializerIsHanded ==
  ASSUME NEW t \in Tools, NEW s, LetThrough(t), ~IsSelector(t),
         NEW n \in CallerFields(t), n \in DOMAIN Args(t, s)
  PROVE  n \in DOMAIN Payload(t, s)
<1>1. n \notin Queries(t)
  BY DEF LetThrough, Queried
<1>2. n \notin Routes(t)
  BY DEF LetThrough, Routed
<1>3. n \notin LookupKeys(t) \ Reserved
  BY DEF LetThrough
<1> QED BY <1>1, <1>2, <1>3, RestIs DEF Payload, Without

\* A selector that is called has all it requires.
LEMMA SelectorNotShort ==
  ASSUME NEW t \in Tools, NEW s, LetThrough(t), IsSelector(t), Excused(t) = {},
         RoutesGiven(t, s), NoneMissing(t, s)
  PROVE  ParametersGiven(t, s)
<1> SUFFICES ASSUME NEW n \in Required(t) PROVE n \in DOMAIN Pool(t, s)
  BY DEF ParametersGiven
<1>1. n \in Params(t)
  BY RolesAre
<1>2. /\ n \in DOMAIN Pool(t, s) <=>
           \/ n \in DOMAIN Delivered(t, s) /\ n \notin Reserved
           \/ n \in DOMAIN SeedsOf(t) \/ n \in Filled(t) \cup Claimed(t)
      /\ Seeds \subseteq DOMAIN SeedsOf(t) /\ (HasLookup(t) => "instance" \in DOMAIN SeedsOf(t))
  BY <1>1, PooledIs DEF Pool, Delivered
<1>3. n \in Sources(t)
  BY DEF Excused
<1>4. n \in Is(t, "route", {"default", "required"}) => n \in DOMAIN RouteValues(t, s) /\ n \notin Reserved
  <2>1. n \in Is(t, "route", {"default", "required"}) =>
          n \in Routes(t) /\ (n \in Is(t, "route", {"default"}) \/ n \in Is(t, "route", {"required"}))
    BY DEF Is, Routes
  <2>2. n \in Routes(t) => n \notin Reserved
    BY DEF LetThrough
  <2> QED BY <2>1, <2>2, RouteValuesAre DEF RoutesGiven
<1>5. n \in DOMAIN Delivered(t, s) <=>
        n \in DOMAIN SelectorParams(t, s) \/ n \in DOMAIN RouteValues(t, s)
  BY UnderIs DEF Delivered
<1>6. ASSUME n \notin Reserved PROVE n \in DOMAIN Pool(t, s)
  <2>1. CASE n \in Asked(t)
    BY <1>2, <1>6, <2>1 DEF NoneMissing
  <2>2. CASE n \in SuppliedToSelector(t)
    <3>1. CASE n \in Is(t, "route", {"default"})
      BY <1>2, <1>5, <1>6, <3>1, RouteValuesAre
    <3>2. CASE n \in Filled(t) \cup Claimed(t)
      BY <1>2, <3>2
    <3>3. CASE n \in Fills(t)
      <4>1. n \in DOMAIN Validated(t, Args(t, s))
        <5>1. n \in CallerFields(t) /\ t.role[n].as = n /\ t.role[n].field = "default"
          BY <3>3 DEF Fills, LaidBack
        <5> QED BY <5>1, ValidatedIs
      <4>2. n \in DOMAIN SelectorParams(t, s) \/ n \in DOMAIN RouteValues(t, s)
        BY <3>3, <4>1, SelectorParamsAre
      <4> QED BY <1>2, <1>5, <1>6, <4>2
    <3> QED BY <1>6, <2>2, <3>1, <3>2, <3>3 DEF SuppliedToSelector
  <2> QED BY <2>1, <2>2 DEF Asked
<1>7. ASSUME n \in Reserved PROVE n \in DOMAIN Pool(t, s)
  <2>1. n \notin FieldNames(t)
    <3>1. SUFFICES ASSUME n \in FieldNames(t) PROVE FALSE
      OBVIOUS
    <3>2. t.role[n].field \notin {"optional", "read only"} /\ t.role[n].as = n
      BY <1>7, <3>1 DEF Excused
    <3>3. n \in CallerFields(t)
      BY <3>1, <3>2 DEF CallerFields, FieldNames, Is
    <3> QED BY <1>7, <3>2, <3>3 DEF LetThrough, SeedFields
  <2>2. CASE n \in Is(t, "route", {"default", "required"})
    BY <1>4, <1>7, <2>2
  <2>3. CASE n \notin Is(t, "route", {"default", "required"})
    <3>1. n \in Seeds \/ n \in Claimed(t) \/ (HasLookup(t) /\ n = "instance")
      BY <1>3, <1>7, <2>1, <2>3 DEF Sources
    <3> QED BY <1>2, <3>1
  <2> QED BY <2>2, <2>3
<1> QED BY <1>6, <1>7

\* Nor is a target lookup.
LEMMA LookupNotShort ==
  ASSUME NEW t \in Tools, NEW s, LetThrough(t), ~IsSelector(t), Excused(t) = {},
         NoneMissing(t, s)
  PROVE  LookupGiven(t, s)
<1> SUFFICES ASSUME NEW n \in Is(t, "lookup", {"required"}) PROVE n \in DOMAIN LookupPool(t, s)
  BY DEF LookupGiven
<1>1. n \in LookupKeys(t)
  BY RolesAre
<1>2. n \in DOMAIN LookupPool(t, s) <=>
        n \in Seeds \/ (n \in DOMAIN Delivered(t, s) /\ n \notin Reserved)
  BY <1>1, LookupPoolIs DEF Delivered
<1>3. n \in Reserved => n \in Seeds
  BY DEF Excused
<1>4. ASSUME n \notin Reserved PROVE n \in DOMAIN Delivered(t, s)
  <2>1. CASE n \in Is(t, "route", {"default"})
    BY <2>1, RouteValuesAre, UnderIs DEF Delivered
  <2>2. CASE n \notin Is(t, "route", {"default"})
    BY <1>4, <2>2 DEF NoneMissing, Asked, SuppliedToLookup
  <2> QED BY <2>1, <2>2
<1> QED BY <1>2, <1>3, <1>4
-----------------------------------------------------------------------------
(* A call the schema describes.                                            *)

Described(t, s) == MustSend(t) \subseteq s /\ s \subseteq Offered(t)

\* What the server asks for in the schema the call carries, or the server does.
LEMMA AskedIsCarried ==
  ASSUME NEW t, NEW s, LetThrough(t), Described(t, s),
         NEW n \in Required(t) \cup Is(t, "lookup", {"required"}) \cup Is(t, "field", {"required"})
                     \cup Is(t, "route", {"required"}),
         n \in Asked(t) \/ n \in OwnOffered(t) \cap Required(t)
           \/ n \in Is(t, "field", {"required"}) \/ n \in Is(t, "route", {"required"})
  PROVE  n \in DOMAIN Args(t, s)
<1>1. n \notin Is(t, "from", {"withheld"})
  BY DEF LetThrough, Holds
<1>2. CASE n \in ServerNames(t)
  BY <1>1, <1>2, RolesAre, ArgsAre
<1>3. CASE n \notin ServerNames(t)
  <2>1. n \in s
    BY <1>3 DEF Described, MustSend
  <2> QED BY <1>3, <2>1, ArgsAre
<1> QED BY <1>2, <1>3

\* Nothing it carries is unknown.
LEMMA DescribedIsKnown ==
  ASSUME NEW t \in Tools, NEW s, LetThrough(t), Described(t, s)
  PROVE  DOMAIN Args(t, s) \subseteq Known(t)
<1> SUFFICES ASSUME NEW n \in DOMAIN Args(t, s) PROVE n \in Known(t)
  OBVIOUS
<1>1. n \in Reflected(t) \cup CallerFields(t) \cup Routes(t) \cup Queries(t)
        \/ (t.paginate /\ n \in Paging)
  <2>1. CASE n \in Is(t, "from", {"supplied"})
    BY <2>1, RolesAre DEF LetThrough, Holds
  <2>2. CASE n \in s
    BY <2>2 DEF Described, Offered
  <2> QED BY <2>1, <2>2, ArgsAre
<1>2. t.paginate => IsSelector(t)
  BY InputsAssumption DEF IsSelector
<1>3. CASE IsSelector(t)
  BY <1>1, <1>3, RolesAre DEF Known, Reflected
<1>4. CASE ~IsSelector(t)
  <2>1. n \in OwnOffered(t) => t.spread /\ ~HasInput(t) /\ n \in Params(t)
    BY DEF OwnOffered
  <2> QED BY <1>1, <1>2, <1>4, <2>1, RolesAre DEF Known, Reflected
<1> QED BY <1>3, <1>4

\* A service that is called as its schema describes has all it requires.
LEMMA ServiceNotShort ==
  ASSUME NEW t \in Tools, NEW s, LetThrough(t), ~IsSelector(t), Excused(t) = {}, Described(t, s)
  PROVE  ParametersGiven(t, s)
<1> SUFFICES ASSUME NEW n \in Required(t) PROVE n \in DOMAIN Pool(t, s)
  BY DEF ParametersGiven
<1>1. n \in Params(t)
  BY RolesAre
<1>2. n \in Sources(t)
  BY DEF Excused
<1>3. \A values : n \in DOMAIN Pooled(t, values) <=>
        \/ n \in DOMAIN values /\ n \notin Reserved
        \/ n \in DOMAIN SeedsOf(t) \/ n \in Filled(t) \cup Claimed(t)
  BY <1>1, PooledIs
<1>4. /\ Seeds \subseteq DOMAIN SeedsOf(t) /\ (HasLookup(t) => "instance" \in DOMAIN SeedsOf(t))
      /\ HasInput(t) => "data" \in DOMAIN SeedsOf(t)
  BY PooledIs
<1>5. \E values : Pool(t, s) = Pooled(t, values)
  BY DEF Pool
<1>6. CASE n \in DOMAIN SeedsOf(t) \/ n \in Filled(t) \cup Claimed(t)
  BY <1>3, <1>5, <1>6
<1>7. CASE n \notin DOMAIN SeedsOf(t) /\ n \notin Filled(t) \cup Claimed(t)
  <2>1. t.spread /\ n \in (IF HasInput(t) THEN FieldNames(t) ELSE Required(t) \ Reserved)
    BY <1>2, <1>4, <1>7 DEF Sources
  <2>2. CASE HasInput(t)
    <3>1. n \in FieldNames(t)
      BY <2>1, <2>2
    <3>2. t.role[n].field \notin {"optional", "read only"} /\ t.role[n].as = n
      BY <3>1 DEF Excused
    <3>3. n \in CallerFields(t) /\ (t.role[n].field = "default" \/ n \in Is(t, "field", {"required"}))
      BY <3>1, <3>2 DEF CallerFields, FieldNames, Is
    <3>4. n \notin Reserved
      BY <2>1, <3>2, <3>3 DEF LetThrough, SeedFields
    <3>5. n \in Is(t, "field", {"required"}) => n \in DOMAIN Payload(t, s)
      BY <3>3, AskedIsCarried, SerializerIsHanded
    <3>6. n \in DOMAIN Validated(t, Payload(t, s))
      <4>1. n \in CallerFields(t) /\ t.role[n].as = n
              /\ (n \in DOMAIN Payload(t, s) \/ t.role[n].field = "default")
        BY <3>2, <3>3, <3>5
      <4> QED BY <4>1, ValidatedIs
    <3>7. Pool(t, s) = Pooled(t, Validated(t, Payload(t, s)))
      BY <2>1, <2>2 DEF Pool
    <3> QED BY <1>3, <3>4, <3>6, <3>7
  <2>3. CASE ~HasInput(t)
    <3>1. n \notin Reserved
      BY <2>1, <2>3
    <3>2. n \in OwnOffered(t) \ (Filled(t) \cup Claimed(t))
      BY <1>1, <1>7, <2>1, <2>3, <3>1 DEF OwnOffered
    <3>3. n \in DOMAIN Rest(t, s)
      BY <3>2, AskedIsCarried, ServiceIsHanded
    <3>4. Pool(t, s) = Pooled(t, Rest(t, s))
      BY <2>1, <2>3 DEF Pool
    <3> QED BY <1>3, <3>1, <3>3, <3>4
  <2> QED BY <2>2, <2>3
<1> QED BY <1>6, <1>7

\* So such a call is served.
LEMMA DescribedIsServed ==
  ASSUME NEW t \in Tools, NEW s, LetThrough(t), Excused(t) = {}, Described(t, s)
  PROVE  Answer(t, s) = "served"
<1>1. RoutesGiven(t, s)
  BY AskedIsCarried DEF RoutesGiven
<1>2. NoneUnknown(t, s)
  BY DescribedIsKnown DEF NoneUnknown
<1>3. CASE IsSelector(t)
  <2>1. NoneMissing(t, s)
    <3>1. ASSUME NEW n \in Asked(t) PROVE n \in DOMAIN Delivered(t, s)
      <4>1. n \in Required(t) /\ n \in Params(t) \ SuppliedToSelector(t)
        BY <1>3, RolesAre DEF Asked
      <4>2. n \in DOMAIN Args(t, s)
        BY <4>1, AskedIsCarried
      <4> QED BY <1>3, <4>1, <4>2, SelectorIsHanded
    <3> QED BY <3>1 DEF NoneMissing
  <2>2. FieldsGiven(t, s)
    BY <1>3, AskedIsCarried DEF FieldsGiven
  <2>3. ParametersGiven(t, s)
    BY <1>1, <1>3, <2>1, SelectorNotShort
  <2> QED BY <1>1, <1>2, <1>3, <2>1, <2>2, <2>3, AnswerIs
<1>4. CASE ~IsSelector(t)
  <2>1. NoneMissing(t, s)
    <3>1. ASSUME NEW n \in Asked(t) PROVE n \in DOMAIN Delivered(t, s)
      <4>1. n \in Is(t, "lookup", {"required"}) /\ n \in LookupKeys(t) \ Reserved
        BY <1>4, RolesAre DEF Asked, SuppliedToLookup
      <4>2. n \in DOMAIN Args(t, s)
        BY <4>1, AskedIsCarried
      <4> QED BY <1>4, <4>1, <4>2, LookupIsHanded
    <3> QED BY <3>1 DEF NoneMissing
  <2>2. FieldsGiven(t, s)
    <3>1. ASSUME NEW n \in Is(t, "field", {"required"}) PROVE n \in DOMAIN Payload(t, s)
      BY <1>4, AskedIsCarried, SerializerIsHanded, RolesAre
    <3> QED BY <1>4, <3>1 DEF FieldsGiven
  <2>3. LookupGiven(t, s)
    BY <1>4, <2>1, LookupNotShort
  <2>4. ParametersGiven(t, s)
    BY <1>4, ServiceNotShort
  <2> QED BY <1>1, <1>2, <1>4, <2>1, <2>2, <2>3, <2>4, AnswerIs
<1> QED BY <1>3, <1>4

-----------------------------------------------------------------------------
(* What a pool holds under a name.                                         *)

\* An argument of a name the server does not bind is the caller's.
LEMMA CallersIs ==
  ASSUME NEW t, NEW s, NEW n \in s \cap Offered(t)
  PROVE  n \in DOMAIN Args(t, s) /\ Args(t, s)[n] = Of(n)
BY ArgsAre DEF Offered

\* What is offered arrives.
LEMMA OfferArrives ==
  ASSUME NEW t \in Tools, NEW s, LetThrough(t), NEW n \in s \cap Offered(t)
  PROVE  /\ /\ n \in (IF IsSelector(t) THEN Reflected(t) ELSE OwnOffered(t)) \ Claimed(t)
            /\ \A f \in CallerFields(t) : t.role[f].as = n => f = n
            => n \in DOMAIN Pool(t, s) /\ Pool(t, s)[n] = Of(n)
         /\ n \in LookupKeys(t) \ Reserved =>
              n \in DOMAIN LookupPool(t, s) /\ LookupPool(t, s)[n] = Of(n)
         /\ n \in CallerFields(t) /\ ~IsSelector(t) => n \in DOMAIN Payload(t, s)
<1>1. n \in DOMAIN Args(t, s) /\ Args(t, s)[n] = Of(n)
  BY CallersIs
<1>2. ASSUME n \in (IF IsSelector(t) THEN Reflected(t) ELSE OwnOffered(t)) \ Claimed(t),
             \A f \in CallerFields(t) : t.role[f].as = n => f = n
      PROVE  n \in DOMAIN Pool(t, s) /\ Pool(t, s)[n] = Of(n)
  <2>1. n \in Params(t) /\ n \notin Reserved /\ n \notin Filled(t)
    BY <1>2 DEF Reflected, OwnOffered, SuppliedToSelector
  <2>2. \A values : n \in DOMAIN values =>
          n \in DOMAIN Pooled(t, values) /\ Pooled(t, values)[n] = values[n]
    BY <1>2, <2>1, PooledIs
  <2>3. CASE IsSelector(t)
    <3>1. n \in DOMAIN Delivered(t, s) /\ Delivered(t, s)[n] = Of(n)
      BY <1>1, <1>2, <2>3, SelectorIsHanded DEF Reflected
    <3>2. Pool(t, s) = Pooled(t, Delivered(t, s))
      BY <2>3 DEF Pool, Delivered
    <3> QED BY <2>2, <3>1, <3>2
  <2>4. CASE ~IsSelector(t)
    <3>1. t.spread /\ ~HasInput(t)
      BY <1>2, <2>4 DEF OwnOffered
    <3>2. n \in DOMAIN Rest(t, s) /\ Rest(t, s)[n] = Of(n)
      BY <1>1, <1>2, <2>1, <2>4, ServiceIsHanded
    <3>3. Pool(t, s) = Pooled(t, Rest(t, s))
      BY <2>4, <3>1 DEF Pool
    <3> QED BY <2>2, <3>2, <3>3
  <2> QED BY <2>3, <2>4
<1>3. ASSUME n \in LookupKeys(t) \ Reserved
      PROVE  n \in DOMAIN LookupPool(t, s) /\ LookupPool(t, s)[n] = Of(n)
  <2>1. ~IsSelector(t)
    BY <1>3, InputsAssumption DEF IsSelector, LookupKeys, Is
  <2>2. n \in DOMAIN Delivered(t, s) /\ Delivered(t, s)[n] = Of(n)
    BY <1>1, <1>3, <2>1, LookupIsHanded
  <2>3. n \notin Seeds
    BY <1>3, InputsAssumption
  <2> QED BY <1>3, <2>1, <2>2, <2>3, LookupPoolIs DEF Delivered
<1>4. n \in CallerFields(t) /\ ~IsSelector(t) => n \in DOMAIN Payload(t, s)
  BY <1>1, SerializerIsHanded
<1> QED BY <1>2, <1>3, <1>4

\* Under a name the server binds no argument of the call is handed on as it came.
LEMMA BoundIsTheServers ==
  ASSUME NEW t \in Tools, NEW s, NEW n \in ServerNames(t), n \in DOMAIN Pool(t, s)
  PROVE  Pool(t, s)[n] # Of(n)
<1>1. \A m \in DOMAIN Args(t, s) : Args(t, s)[m] = Of(n) => FALSE
  BY ArgsAre, Givers
<1>2. \A m \in DOMAIN Rest(t, s) : Rest(t, s)[m] # Of(n)
  BY <1>1, RestIs
<1>3. n \in DOMAIN Delivered(t, s) /\ IsSelector(t) => Delivered(t, s)[n] # Of(n)
  <2>1. n \in DOMAIN RouteValues(t, s) => RouteValues(t, s)[n] # Of(n)
    BY <1>1, RouteValuesAre, Givers
  <2>2. n \in DOMAIN Validated(t, Args(t, s)) => Validated(t, Args(t, s))[n] # Of(n)
    BY <1>1, ValidatedIs, Givers
  <2>3. n \in DOMAIN Left(t, s) => Left(t, s)[n] # Of(n)
    BY <1>2, LeftIs
  <2>4. n \in DOMAIN SelectorParams(t, s) => SelectorParams(t, s)[n] # Of(n)
    BY <2>2, <2>3, SelectorParamsAre, Givers
  <2> QED BY <2>1, <2>4, UnderIs DEF Delivered
<1>4. n \in DOMAIN Validated(t, Payload(t, s)) => Validated(t, Payload(t, s))[n] # Of(n)
  <2>1. \A m \in DOMAIN Payload(t, s) : Payload(t, s)[m] # Of(n)
    BY <1>2 DEF Payload, Without
  <2> QED BY <2>1, ValidatedIs, Givers
<1>5. \A values : Pool(t, s) = Pooled(t, values) /\ (n \in DOMAIN values => values[n] # Of(n)) =>
        Pool(t, s)[n] # Of(n)
  BY PooledIs, Givers
<1>6. CASE IsSelector(t)
  BY <1>3, <1>5, <1>6 DEF Pool, Delivered
<1>7. CASE ~IsSelector(t) /\ ~t.spread
  <2>1. Pool(t, s) = Pooled(t, <<>>) /\ n \notin DOMAIN <<>>
    BY <1>7 DEF Pool
  <2> QED BY <1>5, <2>1
<1>8. CASE ~IsSelector(t) /\ t.spread
  BY <1>2, <1>4, <1>5, <1>8 DEF Pool
<1> QED BY <1>6, <1>7, <1>8

\* A seed or a provider's key is the server's in every pool.
LEMMA SeedIsTheServers ==
  ASSUME NEW t \in Tools, NEW s, NEW n \in Reserved \cup Filled(t), n \in DOMAIN Pool(t, s)
  PROVE  Pool(t, s)[n] = Server
<1>1. \E values : Pool(t, s) = Pooled(t, values)
  BY DEF Pool
<1> QED BY <1>1, PooledIs

\* A selector and a lookup read their route from the route.
LEMMA RouteIsTheRoutes ==
  ASSUME NEW t \in Tools, NEW s, NEW n \in Routes(t)
  PROVE  /\ IsSelector(t) /\ n \in DOMAIN Pool(t, s) => Pool(t, s)[n] \in {Of(n), Server, Author}
         /\ ~IsSelector(t) /\ n \in DOMAIN LookupPool(t, s) =>
              LookupPool(t, s)[n] \in {Of(n), Server, Author}
<1>1. n \in DOMAIN Args(t, s) => Args(t, s)[n] \in {Of(n), Server}
  BY ArgsAre
<1>2. n \in DOMAIN RouteValues(t, s) => RouteValues(t, s)[n] \in {Of(n), Server, Author}
  BY <1>1, RouteValuesAre
<1>3. n \in DOMAIN SelectorParams(t, s) => SelectorParams(t, s)[n] = Author
  BY SelectorParamsAre
<1>4. n \notin DOMAIN Rest(t, s)
  BY RestIs
<1>5. n \in DOMAIN Delivered(t, s) => Delivered(t, s)[n] \in {Of(n), Server, Author}
  BY <1>2, <1>3, <1>4, UnderIs DEF Delivered
<1>6. IsSelector(t) => Pool(t, s) = Pooled(t, Delivered(t, s))
  BY DEF Pool, Delivered
<1>7. IsSelector(t) /\ n \in DOMAIN Pool(t, s) => Pool(t, s)[n] \in {Of(n), Server, Author}
  BY <1>5, <1>6, PooledIs
<1>8. ~IsSelector(t) /\ n \in DOMAIN LookupPool(t, s) =>
        LookupPool(t, s)[n] \in {Of(n), Server, Author}
  BY <1>5, LookupPoolIs DEF Delivered
<1> QED BY <1>7, <1>8

-----------------------------------------------------------------------------
\* A tool is registered only if its checks let it through, and stays as it was declared.
InputsInv ==
  /\ tool \in Tools /\ sent \subseteq Names
  /\ Registered => Verdict(RegistrationChecks(tool), "registered") = "registered"

\* A registered declaration passed every check, whichever call is made of it.
LEMMA InputsHold == InputsSpec => []InputsInv
<1>1. InputsInit => InputsInv
  BY DEF InputsInit, InputsInv, Registered
<1>2. InputsInv /\ [InputsNext]_inputVars => InputsInv'
  BY DEF InputsInv, InputsNext, Declare, Call, inputVars, Registered
<1> QED BY <1>1, <1>2, PTL DEF InputsSpec

\* NeverCalledShort, for any declarations, names and calls: neither a selector nor a
\* target lookup is run without a value it requires.
THEOREM NoneIsCalledShort == InputsSpec => []NeverCalledShort
<1>1. InputsInv => NeverCalledShort
  BY AcceptedIs, AnswerIs, SelectorNotShort, LookupNotShort DEF InputsInv, NeverCalledShort
<1> QED BY <1>1, InputsHold, PTL

\* OfferKept: what a registered tool offers arrives, and a call that follows its schema
\* is served.
THEOREM OffersAreKept == InputsSpec => []OfferKept
<1>1. InputsInv => OfferedArrives
  BY AcceptedIs, OfferArrives DEF InputsInv, OfferedArrives
<1>2. InputsInv => SchemaIsKept
  BY AcceptedIs, DescribedIsServed DEF InputsInv, SchemaIsKept, Described
<1> QED BY <1>1, <1>2, InputsHold, PTL DEF OfferKept

\* AuthorityKept: no argument becomes what the server or the judged route owns.
THEOREM AuthorityIsKept == InputsSpec => []AuthorityKept
<1>1. InputsInv => SeedsAreTheServers
  BY SeedIsTheServers, BoundIsTheServers DEF InputsInv, SeedsAreTheServers
<1>2. InputsInv => RouteAsJudged
  BY RouteIsTheRoutes DEF InputsInv, RouteAsJudged
<1> QED BY <1>1, <1>2, InputsHold, PTL DEF AuthorityKept

-----------------------------------------------------------------------------
(* Reads.                                                                  *)

\* Where each door asks its class permissions, reads the rows, judges the row, and
\* settles how much of them is sent; and how many stages it has.
JudgePlace == [resource |-> 2, prompt |-> 3, completion |-> 3, selector |-> 1, direct |-> 1]
FetchPlace == [resource |-> 4, prompt |-> 5, completion |-> 5, selector |-> 7, direct |-> 4]
GuardPlace == [resource |-> 5, prompt |-> 0, completion |-> 0, selector |-> 8, direct |-> 5]
SentPlace == [resource |-> 6, prompt |-> 6, completion |-> 6, selector |-> 10, direct |-> 6]
LastPlace == [resource |-> 7, prompt |-> 7, completion |-> 6, selector |-> 11, direct |-> 6]

StageNames == {"look", "judge", "charge", "fetch", "guard", "shape", "weigh", "arguments",
               "completer", "cap", "spec", "route", "validate", "bound"}

\* What is known of stage s of door d when it is its stage number i.
Placed(d, i, s) ==
  /\ s \in StageNames
  /\ i = JudgePlace[d] <=> s = "judge" \/ (d = "direct" /\ s = "spec")
  /\ i = FetchPlace[d] <=> s = "fetch"
  /\ i = GuardPlace[d] <=> s = "guard"
  /\ i = SentPlace[d] <=> s \in {"shape", "cap"}
  /\ i = 9 /\ d = "selector" <=> s = "bound"
  /\ s = "cap" <=> i = SentPlace[d] /\ d = "completion"
  /\ s \notin {"look", "completer", "judge", "spec"} /\ ~(s = "arguments" /\ d = "prompt")
       => i > JudgePlace[d]
  /\ s = "spec" /\ d # "direct" => i > JudgePlace[d]

\* The stages of a door are in their places.
LEMMA StagesPlaced ==
  ASSUME NEW c,
         c.on.door \in {"resource", "prompt", "completion", "selector", "direct"},
         c.async \in BOOLEAN
  PROVE  /\ Len(Stages(c)) = LastPlace[c.on.door]
         /\ \A i \in 1..LastPlace[c.on.door] : Placed(c.on.door, i, Stages(c)[i])
<1> DEFINE d == c.on.door
<1>1. CASE d = "resource"
  <2> DEFINE a == <<"look", "judge", "charge", "fetch", "guard", "shape", "weigh">>
  <2>1. Stages(c) = a
    BY <1>1 DEF Stages, ResourceStages, AsyncResourceStages
  <2>2. Len(a) = 7 /\ \A i \in 1..7 : Placed("resource", i, a[i])
    BY DEF Placed, JudgePlace, FetchPlace, GuardPlace, SentPlace, StageNames
  <2> HIDE DEF a
  <2> QED BY <1>1, <2>1, <2>2 DEF LastPlace
<1>2. CASE d = "prompt"
  <2> DEFINE a == <<"look", "arguments", "judge", "charge", "fetch", "shape", "weigh">>
  <2>1. Stages(c) = a
    BY <1>2 DEF Stages, PromptStages, AsyncPromptStages
  <2>2. Len(a) = 7 /\ \A i \in 1..7 : Placed("prompt", i, a[i])
    BY DEF Placed, JudgePlace, FetchPlace, GuardPlace, SentPlace, StageNames
  <2> HIDE DEF a
  <2> QED BY <1>2, <2>1, <2>2 DEF LastPlace
<1>3. CASE d = "completion"
  <2> DEFINE a == <<"look", "completer", "judge", "charge", "fetch", "cap">>
  <2>1. Stages(c) = a
    BY <1>3 DEF Stages, CompletionStages
  <2>2. Len(a) = 6 /\ \A i \in 1..6 : Placed("completion", i, a[i])
    BY DEF Placed, JudgePlace, FetchPlace, GuardPlace, SentPlace, StageNames
  <2> HIDE DEF a
  <2> QED BY <1>3, <2>1, <2>2 DEF LastPlace
<1>4. CASE d = "direct"
  <2> DEFINE a == <<"spec", "route", "arguments", "fetch", "guard", "shape">>
  <2>1. Stages(c) = a
    BY <1>4 DEF Stages, DirectStages
  <2>2. Len(a) = 6 /\ \A i \in 1..6 : Placed("direct", i, a[i])
    BY DEF Placed, JudgePlace, FetchPlace, GuardPlace, SentPlace, StageNames
  <2> HIDE DEF a
  <2> QED BY <1>4, <2>1, <2>2 DEF LastPlace
<1>5. CASE d = "selector"
  <2> DEFINE a == Admission
             b == <<"fetch", "guard", "bound", "shape", "weigh">>
  <2>1. Stages(c) = a \o b
    BY <1>5 DEF Stages, SelectorStages, AsyncSelectorStages
  <2>2. /\ a \in Seq(StageNames) /\ Len(a) = 6
        /\ a[1] = "judge" /\ a[2] = "charge" /\ a[3] = "spec" /\ a[4] = "route"
        /\ a[5] = "validate" /\ a[6] = "arguments"
    BY DEF Admission, StageNames
  <2>3. /\ b \in Seq(StageNames) /\ Len(b) = 5
        /\ b[1] = "fetch" /\ b[2] = "guard" /\ b[3] = "bound" /\ b[4] = "shape"
        /\ b[5] = "weigh"
    BY DEF StageNames
  <2> HIDE DEF a, b
  <2>4. /\ Len(a \o b) = Len(a) + Len(b)
        /\ \A i \in 1..(Len(a) + Len(b)) :
             (a \o b)[i] = IF i <= Len(a) THEN a[i] ELSE b[i - Len(a)]
    <3>1. a \in Seq(StageNames) /\ b \in Seq(StageNames)
      BY <2>2, <2>3
    <3> QED BY <3>1, ConcatProperties
  <2>5. /\ Len(a \o b) = 11
        /\ \A i \in 1..6 : (a \o b)[i] = a[i]
        /\ \A j \in 1..5 : (a \o b)[j + 6] = b[j]
    <3>1. Len(a) = 6 /\ Len(b) = 5
      BY <2>2, <2>3
    <3>2. ASSUME NEW j \in 1..5 PROVE (a \o b)[j + 6] = b[j]
      <4>1. j + 6 \in 1..11 /\ ~(j + 6 <= 6) /\ (j + 6) - 6 = j
        OBVIOUS
      <4> QED BY <2>4, <3>1, <4>1, SMTT(60)
    <3> QED BY <2>4, <3>1, <3>2, SMTT(60)
  <2> DEFINE e == a \o b
  <2>6. /\ e[1] = "judge" /\ e[2] = "charge" /\ e[3] = "spec" /\ e[4] = "route"
        /\ e[5] = "validate" /\ e[6] = "arguments"
    <3>1. \A i \in 1..6 : e[i] = a[i]
      BY <2>5
    <3> HIDE DEF e
    <3> QED BY <2>2, <3>1
  <2>7. /\ e[7] = "fetch" /\ e[8] = "guard" /\ e[9] = "bound" /\ e[10] = "shape"
        /\ e[11] = "weigh"
    <3>1. \A j \in 1..5 : e[j + 6] = b[j]
      BY <2>5
    <3> HIDE DEF e
    <3>2. e[1 + 6] = b[1] /\ e[2 + 6] = b[2] /\ e[3 + 6] = b[3] /\ e[4 + 6] = b[4]
            /\ e[5 + 6] = b[5]
      BY <3>1
    <3>3. 1 + 6 = 7 /\ 2 + 6 = 8 /\ 3 + 6 = 9 /\ 4 + 6 = 10 /\ 5 + 6 = 11
      OBVIOUS
    <3> QED BY <2>3, <3>2, <3>3
  <2>8. Len(e) = 11 /\ Stages(c) = e
    BY <2>1, <2>5
  <2> HIDE DEF e
  <2>9. \A i \in 1..11 : Placed("selector", i, e[i])
    BY <2>6, <2>7 DEF Placed, JudgePlace, FetchPlace, GuardPlace, SentPlace, StageNames
  <2> QED BY <1>5, <2>8, <2>9 DEF LastPlace
<1> QED BY <1>1, <1>2, <1>3, <1>4, <1>5

ReadReplies ==
  {"none", "served", "forbidden", "limited", "raised", "not found", "too many", "unrendered",
   "unknown", "no completer", "missing", "invalid", "too large"}

CallSet ==
  [on : Doors, async : BOOLEAN, names : SUBSET CallerNames,
   limit : Int \cup {Garbled}, page : Int \cup {Garbled},
   at : Nat, held : Nat \cup {Lazy}, had : Int, skip : Int, sent : Int, more : BOOLEAN,
   charged : BOOLEAN, reply : ReadReplies]

WorldSet == [class : BOOLEAN, object : BOOLEAN, rows : Nat]

\* Call c is past the stage at place i of its door.
Past(c, i) == c.at > i \/ c.reply = "served"

\* Whoever is past the permission of the class was admitted by it.
AsAdmitted(c, w, dr) ==
  /\ Past(c, JudgePlace[c.on.door]) \/ c.reply \notin Open(c) \/ c.charged
  /\ c.on.door # "direct" \/ c.on.guarded
  => w.class \/ "class" \in dr

\* Whoever is past the guard was admitted to the row.
Owned(c, w, dr) ==
  /\ c.on.door \in {"resource", "selector", "direct"}
  /\ Past(c, GuardPlace[c.on.door]) /\ Judged(c)
  => w.object \/ "object" \in dr

\* What the bound settled for the rendering of a selector tool's list.
Settled(c, w, dr) ==
  c.on.door = "selector" /\ c.on.kind = "list" /\ c.at = SentPlace["selector"] =>
    IF c.on.paged
    THEN /\ c.more = (c.skip + PageSizeOf(c) < c.had)
         /\ c.held # Lazy => c.had = c.held
         /\ c.held = Lazy /\ "rows" \notin dr => c.had = w.rows
    ELSE c.on.ceiling # Unbounded => c.held # Lazy /\ c.held <= c.on.ceiling

\* What was rendered is whole or says that it is not.
Whole(c, dr) ==
  /\ ~c.on.paged => c.skip = 0
  /\ Past(c, SentPlace[c.on.door]) /\ c.on.kind = "list" =>
       /\ c.on.door = "selector" /\ c.on.ceiling # Unbounded => c.sent <= c.on.ceiling
       /\ c.on.door = "completion" => c.sent <= MaxCompletionValues
       /\ c.more \/ c.skip + c.sent >= c.had \/ (c.on.paged /\ "rows" \in dr)

ReadsType ==
  /\ call \in CallSet /\ call.at \in 1..LastPlace[call.on.door]
  /\ world \in WorldSet

ReadsInv ==
  /\ ReadsType
  /\ AsAdmitted(call, world, drifted) /\ Owned(call, world, drifted)
  /\ Settled(call, world, drifted) /\ Whole(call, drifted)

\* The stage a call is at is in its place.
LEMMA StageAt ==
  ASSUME NEW c \in CallSet, c.at \in 1..LastPlace[c.on.door]
  PROVE  /\ Len(Stages(c)) = LastPlace[c.on.door]
         /\ Placed(c.on.door, c.at, Stages(c)[c.at])
         /\ c.on.door \in {"resource", "prompt", "completion", "selector", "direct"}
<1>1. /\ c.on.door \in {"resource", "prompt", "completion", "selector", "direct"}
      /\ c.async \in BOOLEAN
  BY ReadsAssumption DEF CallSet
<1> QED BY <1>1, StagesPlaced

\* A call that passes a stage is at the next one or served, and keeps the rest.
LEMMA ReadGoesOn ==
  ASSUME NEW c \in CallSet, c.at \in 1..LastPlace[c.on.door], c.reply = "none",
         NEW p, p = Passed(c)
  PROVE  /\ p \in CallSet /\ p.at \in 1..LastPlace[p.on.door]
         /\ \A i \in {JudgePlace[c.on.door], FetchPlace[c.on.door], GuardPlace[c.on.door],
                   SentPlace[c.on.door]} : Past(p, i) => i <= c.at
         /\ p.at = c.at + 1 \/ (p.at = c.at /\ c.at = LastPlace[c.on.door])
         /\ p.reply \in {"none", "served"}
         /\ p.on = c.on /\ p.limit = c.limit /\ p.page = c.page /\ p.held = c.held
         /\ p.had = c.had /\ p.skip = c.skip /\ p.sent = c.sent /\ p.more = c.more
         /\ p.charged = c.charged
<1> DEFINE places == {JudgePlace[c.on.door], FetchPlace[c.on.door], GuardPlace[c.on.door],
                      SentPlace[c.on.door]}
<1>1. Len(Stages(c)) = LastPlace[c.on.door] /\ c.at \in Nat /\ LastPlace[c.on.door] \in Nat
  BY StageAt DEF LastPlace, CallSet
<1>4. \A i \in places : i \in Nat /\ i <= LastPlace[c.on.door]
  BY StageAt, SMTT(60) DEF JudgePlace, FetchPlace, GuardPlace, SentPlace, LastPlace
<1> HIDE DEF places
<1>2. CASE c.at < Len(Stages(c))
  <2>1. p = [c EXCEPT !.at = c.at + 1]
    BY <1>2 DEF Passed
  <2>2. /\ p \in CallSet /\ p.at = c.at + 1 /\ p.reply = "none"
        /\ p.on = c.on /\ p.limit = c.limit /\ p.page = c.page /\ p.held = c.held
        /\ p.had = c.had /\ p.skip = c.skip /\ p.sent = c.sent /\ p.more = c.more
        /\ p.charged = c.charged
    BY <1>1, <2>1, SMTT(60) DEF CallSet
  <2>3. \A i \in places : Past(p, i) => i <= c.at
    BY <1>1, <1>4, <2>2 DEF Past
  <2> QED BY <1>1, <1>2, <2>2, <2>3 DEF places
<1>3. CASE ~(c.at < Len(Stages(c)))
  <2>1. p = [c EXCEPT !.reply = "served"]
    BY <1>3 DEF Passed
  <2>2. /\ p \in CallSet /\ p.at = c.at /\ p.reply = "served"
        /\ p.on = c.on /\ p.limit = c.limit /\ p.page = c.page /\ p.held = c.held
        /\ p.had = c.had /\ p.skip = c.skip /\ p.sent = c.sent /\ p.more = c.more
        /\ p.charged = c.charged
    BY <2>1 DEF CallSet, ReadReplies
  <2>3. c.at = LastPlace[c.on.door]
    BY <1>1, <1>3
  <2>4. \A i \in places : Past(p, i) => i <= c.at
    BY <1>4, <2>3
  <2> QED BY <2>2, <2>3, <2>4 DEF places
<1> QED BY <1>2, <1>3

\* A call that is answered keeps all but its reply.
LEMMA AnsweredWith ==
  ASSUME NEW c \in CallSet, c.at \in 1..LastPlace[c.on.door], c.reply = "none",
         NEW r \in ReadReplies \ {"none", "served"}, NEW p, p = [c EXCEPT !.reply = r]
  PROVE  /\ p \in CallSet /\ p.at = c.at /\ p.reply = r
         /\ \A i : Past(p, i) <=> c.at > i
         /\ p.on = c.on /\ p.limit = c.limit /\ p.page = c.page /\ p.held = c.held
         /\ p.had = c.had /\ p.skip = c.skip /\ p.sent = c.sent /\ p.more = c.more
         /\ p.charged = c.charged
<1>1. /\ p \in CallSet /\ p.at = c.at /\ p.reply = r
      /\ p.on = c.on /\ p.limit = c.limit /\ p.page = c.page /\ p.held = c.held
      /\ p.had = c.had /\ p.skip = c.skip /\ p.sent = c.sent /\ p.more = c.more
      /\ p.charged = c.charged
  BY DEF CallSet
<1> QED BY <1>1 DEF Past

\* A binding is as it was declared.
LEMMA OnIs ==
  ASSUME NEW c \in CallSet
  PROVE  /\ c.on.kind \in {"retrieve", "list"}
         /\ c.on.paged \in BOOLEAN /\ c.on.guarded \in BOOLEAN /\ c.on.model \in BOOLEAN
         /\ c.on.ceiling \in Nat \cup {Unbounded}
         /\ c.on.door = "completion" => c.on.kind = "list"
         /\ c.on.paged => c.on.door = "selector" /\ c.on.ceiling # 0
BY ReadsAssumption DEF CallSet

\* A page has some rows, and no more than the ceiling.
LEMMA PageSizeIs ==
  ASSUME NEW c \in CallSet
  PROVE  /\ PageSizeOf(c) \in Int
         /\ c.on.ceiling # 0 => PageSizeOf(c) >= 1
         /\ c.on.ceiling # Unbounded => PageSizeOf(c) <= c.on.ceiling
<1>1. Coerced(c.limit, DefaultPageSize) \in Int
  BY ReadsAssumption DEF Coerced, CallSet
<1>2. c.on.ceiling \in Nat \cup {Unbounded}
  BY OnIs
<1> QED BY <1>1, <1>2 DEF PageSizeOf, Ceiled, Least, Most

\* What is before a page is a whole number of rows.
LEMMA SkippedIs ==
  ASSUME NEW c \in CallSet, c.on.ceiling # 0, NEW rows \in Nat
  PROVE  Skipped(c, rows) \in Int
<1> DEFINE size == PageSizeOf(c)
           full == (rows + size - 1) \div size
<1>1. size \in Int /\ size >= 1
  BY PageSizeIs
<1>2. full \in Int
  <2> HIDE DEF size
  <2> QED BY <1>1
<1>3. Coerced(c.page, 1) \in Int
  BY DEF Coerced, CallSet
<1> DEFINE turn == Least(Most(1, Coerced(c.page, 1)), Most(1, full)) - 1
<1>4. turn \in Int
  <2> HIDE DEF full
  <2> QED BY <1>2, <1>3 DEF Least, Most
<1>5. Skipped(c, rows) = turn * size
  BY DEF Skipped
<1> HIDE DEF turn, size
<1> QED BY <1>1, <1>4, <1>5

\* The places of a door's stages are numbers, in order.
LEMMA StagesAre ==
  ASSUME NEW d \in {"resource", "prompt", "completion", "selector", "direct"}
  PROVE  /\ JudgePlace[d] \in Nat /\ FetchPlace[d] \in Nat /\ GuardPlace[d] \in Nat
         /\ SentPlace[d] \in Nat /\ LastPlace[d] \in Nat
         /\ JudgePlace[d] < FetchPlace[d] /\ FetchPlace[d] < SentPlace[d]
         /\ SentPlace[d] <= LastPlace[d]
         /\ d \in {"resource", "selector", "direct"} =>
              FetchPlace[d] < GuardPlace[d] /\ GuardPlace[d] < SentPlace[d]
         /\ d = "selector" => SentPlace[d] = 10 /\ FetchPlace[d] = 7 /\ LastPlace[d] = 11
BY DEF JudgePlace, FetchPlace, GuardPlace, SentPlace, LastPlace

\* p follows c, whose binding and door it keeps.
Follows(p, c) ==
  /\ p \in CallSet /\ p.at \in 1..LastPlace[p.on.door] /\ p.on = c.on /\ p.limit = c.limit
  /\ p.at \in {c.at, c.at + 1}
  /\ \A i \in {JudgePlace[c.on.door], FetchPlace[c.on.door], GuardPlace[c.on.door],
             SentPlace[c.on.door]} : Past(p, i) => i <= c.at

\* No stage but the permission's own lets a call past it.
LEMMA AdmittedStill ==
  ASSUME NEW c \in CallSet, NEW p, NEW w, NEW dr, NEW dr2,
         c.at \in 1..LastPlace[c.on.door], Follows(p, c), AsAdmitted(c, w, dr),
         "class" \in dr => "class" \in dr2 \/ w.class,
         c.at # JudgePlace[c.on.door],
         p.reply \notin Open(c) \/ p.charged => c.at > JudgePlace[c.on.door] \/ c.charged
  PROVE  AsAdmitted(p, w, dr2)
<1>1. JudgePlace[c.on.door] \in Nat /\ c.at \in Nat
  BY StagesAre, StageAt DEF CallSet
<1>2. Open(p) = Open(c)
  BY DEF Open, Follows
<1>3. Past(p, JudgePlace[c.on.door]) => JudgePlace[c.on.door] < c.at
  <2>1. Past(p, JudgePlace[c.on.door]) => JudgePlace[c.on.door] <= c.at
    BY DEF Follows
  <2> QED BY <1>1, <2>1
<1>4. p.on = c.on
  BY DEF Follows
<1>5. c.at > JudgePlace[c.on.door] => Past(c, JudgePlace[c.on.door])
  BY DEF Past
<1> HIDE DEF Past
<1> QED BY <1>1, <1>2, <1>3, <1>4, <1>5 DEF AsAdmitted

\* No stage but the guard lets a call past it.
LEMMA OwnedStill ==
  ASSUME NEW c \in CallSet, NEW p, NEW w, NEW dr, NEW dr2,
         c.at \in 1..LastPlace[c.on.door], Follows(p, c), Owned(c, w, dr),
         "object" \in dr => "object" \in dr2,
         c.at = GuardPlace[c.on.door] /\ Past(p, c.at) /\ Judged(p) => w.object,
         Judged(p) => Judged(c) \/ c.at <= FetchPlace[c.on.door]
  PROVE  Owned(p, w, dr2)
<1>1. /\ GuardPlace[c.on.door] \in Nat /\ FetchPlace[c.on.door] \in Nat /\ c.at \in Nat
      /\ c.on.door \in {"resource", "selector", "direct"}
           => FetchPlace[c.on.door] < GuardPlace[c.on.door]
  BY StagesAre, StageAt DEF CallSet
<1>2. p.on = c.on /\ (Past(p, GuardPlace[c.on.door]) => GuardPlace[c.on.door] <= c.at)
  BY DEF Follows
<1>3. c.at > GuardPlace[c.on.door] => Past(c, GuardPlace[c.on.door])
  BY DEF Past
<1> QED BY <1>1, <1>2, <1>3 DEF Owned

\* What the bound settled stands until the rows are rendered.
LEMMA SettledStill ==
  ASSUME NEW c \in CallSet, NEW p, NEW w, NEW dr, NEW dr2,
         c.at \in 1..LastPlace[c.on.door], Follows(p, c), Settled(c, w, dr),
         "rows" \in dr => "rows" \in dr2,
         c.on.door = "selector" => c.at # 9,
         p.held = c.held, p.had = c.had, p.skip = c.skip, p.more = c.more
  PROVE  Settled(p, w, dr2)
<1>1. p.on = c.on /\ p.limit = c.limit /\ p.at \in {c.at, c.at + 1} /\ c.at \in Nat
  BY DEF Follows, CallSet
<1>2. c.on.door = "selector" /\ p.at = 10 => c.at = 10
  BY <1>1
<1>3. SentPlace["selector"] = 10
  BY DEF SentPlace
<1>4. PageSizeOf(p) = PageSizeOf(c)
  BY <1>1 DEF PageSizeOf, Ceiled
<1> QED BY <1>1, <1>2, <1>3, <1>4 DEF Settled

\* What was rendered stays as it is.
LEMMA WholeStill ==
  ASSUME NEW c \in CallSet, NEW p, NEW dr, NEW dr2,
         c.at \in 1..LastPlace[c.on.door], Follows(p, c), Whole(c, dr),
         "rows" \in dr => "rows" \in dr2,
         c.at = SentPlace[c.on.door] => ~Past(p, c.at),
         p.had = c.had, p.skip = c.skip, p.more = c.more, p.sent = c.sent
  PROVE  Whole(p, dr2)
<1>1. SentPlace[c.on.door] \in Nat /\ c.at \in Nat
  BY StagesAre, StageAt DEF CallSet
<1>2. p.on = c.on /\ (Past(p, SentPlace[c.on.door]) => SentPlace[c.on.door] <= c.at)
  BY DEF Follows
<1>3. c.at > SentPlace[c.on.door] => Past(c, SentPlace[c.on.door])
  BY DEF Past
<1>4. Past(p, SentPlace[c.on.door]) => Past(c, SentPlace[c.on.door])
  BY <1>1, <1>2, <1>3
<1> QED BY <1>2, <1>4 DEF Whole

\* A call that passes its stage with e for its rows follows the call it was.
LEMMA PassedFollows ==
  ASSUME NEW c \in CallSet, c.at \in 1..LastPlace[c.on.door],
         NEW e \in CallSet, e.on = c.on, e.at = c.at, e.limit = c.limit, e.reply = "none",
         NEW p, p = Passed(e)
  PROVE  /\ Follows(p, c) /\ p.reply \in {"none", "served"}
         /\ p.held = e.held /\ p.had = e.had /\ p.skip = e.skip /\ p.sent = e.sent
         /\ p.more = e.more /\ p.charged = e.charged
         /\ p.at = c.at + 1 \/ (p.at = c.at /\ c.at = LastPlace[c.on.door])
BY ReadGoesOn DEF Follows

\* A call that is answered follows the call it was.
LEMMA AnsweredFollows ==
  ASSUME NEW c \in CallSet, c.at \in 1..LastPlace[c.on.door], c.reply = "none",
         NEW r \in ReadReplies \ {"none", "served"}, NEW p, p = [c EXCEPT !.reply = r]
  PROVE  /\ Follows(p, c) /\ p.reply = r /\ ~Past(p, c.at) /\ p.at = c.at
         /\ p.held = c.held /\ p.had = c.had /\ p.skip = c.skip /\ p.sent = c.sent
         /\ p.more = c.more /\ p.charged = c.charged
<1>1. /\ p \in CallSet /\ p.at = c.at /\ p.reply = r /\ p.on = c.on /\ p.limit = c.limit
      /\ \A i : Past(p, i) <=> c.at > i
  BY AnsweredWith
<1>2. /\ p.held = c.held /\ p.had = c.had /\ p.skip = c.skip /\ p.sent = c.sent
      /\ p.more = c.more /\ p.charged = c.charged
  BY AnsweredWith
<1>3. c.at \in Nat
  BY DEF CallSet
<1>4. ~Past(p, c.at)
  BY <1>1, <1>3
<1>6. c.on.door \in {"resource", "prompt", "completion", "selector", "direct"}
  BY StageAt
<1>7. /\ JudgePlace[c.on.door] \in Nat /\ FetchPlace[c.on.door] \in Nat
      /\ GuardPlace[c.on.door] \in Nat /\ SentPlace[c.on.door] \in Nat
  BY <1>6, StagesAre
<1>8. \A i \in Nat : Past(p, i) => i <= c.at
  BY <1>1, <1>3
<1>5. \A i \in {JudgePlace[c.on.door], FetchPlace[c.on.door], GuardPlace[c.on.door],
             SentPlace[c.on.door]} : Past(p, i) => i <= c.at
  BY <1>7, <1>8
<1> QED BY <1>1, <1>2, <1>4, <1>5 DEF Follows

\* What holds at a stage s of call c.
Where(c, s) ==
  /\ c \in CallSet /\ c.at \in 1..LastPlace[c.on.door] /\ c.reply = "none"
  /\ Placed(c.on.door, c.at, s)
  /\ c.on.door \in {"resource", "prompt", "completion", "selector", "direct"}

\* A call that stands before a stage is a call at that stage's place.
LEMMA AtIs ==
  ASSUME ReadsType, NEW s, At(s)
  PROVE  Where(call, s)
BY StageAt DEF ReadsType, At, Where

\* A stage that neither asks the permission nor touches the rows keeps what is known.
LEMMA LooksOnly ==
  ASSUME NEW c, NEW s, Where(c, s), NEW p, Follows(p, c), NEW w, NEW dr, NEW dr2,
         AsAdmitted(c, w, dr), Owned(c, w, dr), Settled(c, w, dr), Whole(c, dr),
         "class" \in dr => "class" \in dr2 \/ w.class,
         "object" \in dr => "object" \in dr2, "rows" \in dr => "rows" \in dr2,
         s \notin {"judge", "guard", "shape", "cap", "bound"}, c.on.door = "direct" => s # "spec",
         p.reply \notin Open(c) \/ p.charged => c.at > JudgePlace[c.on.door] \/ c.charged,
         p.held = c.held, p.had = c.had, p.skip = c.skip, p.more = c.more, p.sent = c.sent
  PROVE  AsAdmitted(p, w, dr2) /\ Owned(p, w, dr2) /\ Settled(p, w, dr2) /\ Whole(p, dr2)
<1>1. /\ c \in CallSet /\ c.at \in 1..LastPlace[c.on.door]
      /\ c.at # JudgePlace[c.on.door] /\ c.at # GuardPlace[c.on.door]
      /\ c.at # SentPlace[c.on.door] /\ (c.on.door = "selector" => c.at # 9)
  BY DEF Where, Placed
<1>2. AsAdmitted(p, w, dr2)
  BY <1>1, AdmittedStill
<1>3. Owned(p, w, dr2)
  <2>1. Judged(p) => Judged(c)
    BY DEF Judged, Follows
  <2> QED BY <1>1, <2>1, OwnedStill
<1>4. Settled(p, w, dr2)
  BY <1>1, SettledStill
<1>5. Whole(p, dr2)
  BY <1>1, WholeStill
<1> QED BY <1>2, <1>3, <1>4, <1>5

\* The checks of a request: of one it refuses, only some refusals come before the permission.
LEMMA CheckKeeps ==
  ASSUME ReadsInv, Check
  PROVE  ReadsInv'
<1>1. PICK s \in DOMAIN Refusals : At(s) /\ (call' = Passed(call) \/ Answered(Refusals[s]))
  BY DEF Check
<1>2. Where(call, s)
  BY <1>1, AtIs DEF ReadsInv
<1>3. /\ s \in {"look", "completer", "arguments", "route", "validate", "weigh"}
      /\ Refusals[s] \in ReadReplies \ {"none", "served"}
      /\ s = "look" => Refusals[s] = "unknown"
      /\ s = "completer" => Refusals[s] = "no completer"
      /\ s = "arguments" => Refusals[s] = "missing"
  <2>1. s \in {"look", "completer", "arguments", "route", "validate", "weigh"}
    BY DEF Refusals
  <2>2. /\ Refusals["look"] = "unknown" /\ Refusals["completer"] = "no completer"
        /\ Refusals["arguments"] = "missing" /\ Refusals["route"] = "missing"
        /\ Refusals["validate"] = "invalid" /\ Refusals["weigh"] = "too large"
    BY DEF Refusals
  <2> QED BY <2>1, <2>2 DEF ReadReplies
<1>4. world' = world /\ drifted' = drifted
  BY DEF Check
<1>5. /\ Follows(call', call)
      /\ call'.held = call.held /\ call'.had = call.had /\ call'.skip = call.skip
      /\ call'.sent = call.sent /\ call'.more = call.more /\ call'.charged = call.charged
      /\ call'.reply \in {"none", "served", Refusals[s]}
      /\ call'.reply = "served" => call.at > JudgePlace[call.on.door]
  <2>1. CASE call' = Passed(call)
    <3>1. /\ Follows(call', call)
          /\ call'.held = call.held /\ call'.had = call.had /\ call'.skip = call.skip
          /\ call'.sent = call.sent /\ call'.more = call.more /\ call'.charged = call.charged
          /\ call'.reply \in {"none", "served"}
      BY <1>2, <2>1, PassedFollows DEF Where
    <3>2. call'.reply = "served" => call.at >= JudgePlace[call.on.door]
      BY <3>1 DEF Follows, Past
    <3>3. call.at # JudgePlace[call.on.door] /\ JudgePlace[call.on.door] \in Nat
            /\ call.at \in Nat
      BY <1>2, <1>3, StagesAre DEF Where, Placed, CallSet
    <3> QED BY <3>1, <3>2, <3>3
  <2>2. CASE Answered(Refusals[s])
    <3>1. call' = [call EXCEPT !.reply = Refusals[s]]
      BY <2>2 DEF Answered
    <3>2. /\ call \in CallSet /\ call.at \in 1..LastPlace[call.on.door] /\ call.reply = "none"
          /\ Refusals[s] \in ReadReplies \ {"none", "served"}
      BY <1>2, <1>3 DEF Where
    <3>3. PICK r \in ReadReplies \ {"none", "served"} : r = Refusals[s]
      BY <3>2
    <3>4. call' = [call EXCEPT !.reply = r]
      BY <3>1, <3>3
    <3>5. /\ Follows(call', call) /\ call'.reply = r
          /\ call'.held = call.held /\ call'.had = call.had /\ call'.skip = call.skip
          /\ call'.sent = call.sent /\ call'.more = call.more /\ call'.charged = call.charged
      BY <3>2, <3>4, AnsweredFollows
    <3> QED BY <3>2, <3>3, <3>5
  <2> QED BY <1>1, <2>1, <2>2
<1>6. call'.reply \notin Open(call) \/ call'.charged
        => call.at > JudgePlace[call.on.door] \/ call.charged
  BY <1>2, <1>3, <1>5 DEF Open, Where, Placed
<1>7. AsAdmitted(call', world, drifted) /\ Owned(call', world, drifted)
        /\ Settled(call', world, drifted) /\ Whole(call', drifted)
  BY <1>2, <1>3, <1>5, <1>6, LooksOnly DEF ReadsInv
<1> QED BY <1>4, <1>5, <1>7 DEF ReadsInv, ReadsType, Follows

\* The permission of the class is asked, and lets past whoever it admits then.
LEMMA AuthorizeKeeps ==
  ASSUME ReadsInv, NEW s \in {"judge", "spec"}, Authorize(s)
  PROVE  ReadsInv'
<1>1. Where(call, s)
  BY AtIs DEF ReadsInv, Authorize
<1>2. world' = world
  BY DEF Authorize
<1>3. /\ "class" \in drifted => "class" \in drifted' \/ world.class
      /\ "object" \in drifted => "object" \in drifted'
      /\ "rows" \in drifted => "rows" \in drifted'
  BY DEF Authorize
<1>4. /\ Follows(call', call)
      /\ call'.held = call.held /\ call'.had = call.had /\ call'.skip = call.skip
      /\ call'.sent = call.sent /\ call'.more = call.more /\ call'.charged = call.charged
      /\ \/ call'.reply \in {"none", "served"} /\ (Waived(s) \/ world.class)
         \/ call'.reply = "forbidden" /\ ~Past(call', call.at)
  <2>1. CASE Waived(s) \/ world.class
    <3>1. call' = Passed(call)
      BY <2>1 DEF Authorize
    <3> QED BY <1>1, <2>1, <3>1, PassedFollows DEF Where
  <2>2. CASE ~(Waived(s) \/ world.class)
    <3>1. call' = [call EXCEPT !.reply = "forbidden"]
      BY <2>2 DEF Authorize, Answered
    <3>2. "forbidden" \in ReadReplies \ {"none", "served"}
      BY DEF ReadReplies
    <3> QED BY <1>1, <3>1, <3>2, AnsweredFollows DEF Where
  <2> QED BY <2>1, <2>2
<1>5. CASE s = "spec" /\ call.on.door # "direct"
  <2>1. call'.reply \notin Open(call) \/ call'.charged
          => call.at > JudgePlace[call.on.door] \/ call.charged
    BY <1>1, <1>5 DEF Where, Placed
  <2>2. AsAdmitted(call', world, drifted') /\ Owned(call', world, drifted')
          /\ Settled(call', world, drifted') /\ Whole(call', drifted')
    BY <1>1, <1>3, <1>4, <1>5, <2>1, LooksOnly DEF ReadsInv
  <2> QED BY <1>2, <1>4, <2>2 DEF ReadsInv, ReadsType, Follows
<1>6. CASE s = "judge" \/ call.on.door = "direct"
  <2>1. call.at = JudgePlace[call.on.door] /\ call.at \in Nat
    BY <1>1, <1>6 DEF Where, Placed, CallSet
  <2>2. ASSUME call.on.door # "direct" \/ call.on.guarded,
               Past(call', JudgePlace[call.on.door]) \/ call'.reply \notin Open(call)
                 \/ call'.charged
        PROVE  world.class \/ "class" \in drifted'
    <3>1. CASE call'.reply = "forbidden" /\ ~Past(call', call.at)
      <4>1. call.charged
        BY <1>4, <2>1, <2>2, <3>1 DEF Open
      <4> QED BY <1>3, <2>2, <4>1 DEF ReadsInv, AsAdmitted
    <3>2. CASE Waived(s) \/ world.class
      <4>1. ~Waived(s)
        BY <1>6, <2>2 DEF Waived
      <4> QED BY <3>2, <4>1
    <3> QED BY <1>4, <3>1, <3>2
  <2>3. AsAdmitted(call', world, drifted')
    <3>1. call'.on = call.on
      BY <1>4 DEF Follows
    <3>2. Open(call') = Open(call)
      BY <3>1 DEF Open
    <3> QED BY <2>2, <3>1, <3>2 DEF AsAdmitted
  <2>4. /\ call \in CallSet /\ call.at \in 1..LastPlace[call.on.door]
        /\ call.at # GuardPlace[call.on.door]
        /\ call.at # SentPlace[call.on.door] /\ (call.on.door = "selector" => call.at # 9)
    BY <1>1 DEF Where, Placed
  <2>5. Owned(call', world, drifted')
    <3>1. Judged(call') => Judged(call)
      BY <1>4 DEF Judged, Follows
    <3> QED BY <1>3, <1>4, <2>4, <3>1, OwnedStill DEF ReadsInv
  <2>6. Settled(call', world, drifted')
    BY <1>3, <1>4, <2>4, SettledStill DEF ReadsInv
  <2>7. Whole(call', drifted')
    BY <1>3, <1>4, <2>4, WholeStill DEF ReadsInv
  <2> QED BY <1>2, <1>4, <2>3, <2>5, <2>6, <2>7 DEF ReadsInv, ReadsType, Follows
<1> QED BY <1>5, <1>6

\* A call is charged, or told that it is limited, past the permission only.
LEMMA SpendKeeps ==
  ASSUME ReadsInv, Spend
  PROVE  ReadsInv'
<1>1. Where(call, "charge")
  BY AtIs DEF ReadsInv, Spend
<1>2. world' = world /\ drifted' = drifted
  BY DEF Spend
<1>3. call.at > JudgePlace[call.on.door]
  BY <1>1 DEF Where, Placed
<1>4. /\ Follows(call', call)
      /\ call'.held = call.held /\ call'.had = call.had /\ call'.skip = call.skip
      /\ call'.sent = call.sent /\ call'.more = call.more
  <2>1. CASE call' = Passed([call EXCEPT !.charged = TRUE])
    <3>1. PICK e : e = [call EXCEPT !.charged = TRUE]
      OBVIOUS
    <3>2. /\ e \in CallSet /\ e.on = call.on /\ e.at = call.at /\ e.limit = call.limit
          /\ e.reply = "none" /\ e.held = call.held /\ e.had = call.had
          /\ e.skip = call.skip /\ e.sent = call.sent /\ e.more = call.more
      BY <1>1, <3>1 DEF Where, CallSet
    <3>3. call' = Passed(e)
      BY <2>1, <3>1
    <3> QED BY <1>1, <3>2, <3>3, PassedFollows DEF Where
  <2>2. CASE Answered("limited")
    <3>1. call' = [call EXCEPT !.reply = "limited"]
      BY <2>2 DEF Answered
    <3>2. "limited" \in ReadReplies \ {"none", "served"}
      BY DEF ReadReplies
    <3> QED BY <1>1, <3>1, <3>2, AnsweredFollows DEF Where
  <2> QED BY <2>1, <2>2 DEF Spend
<1>5. AsAdmitted(call', world, drifted) /\ Owned(call', world, drifted)
        /\ Settled(call', world, drifted) /\ Whole(call', drifted)
  BY <1>1, <1>3, <1>4, LooksOnly DEF ReadsInv
<1> QED BY <1>2, <1>4, <1>5 DEF ReadsInv, ReadsType, Follows

\* The guard lets past whoever the row admits then.
LEMMA GuardKeeps ==
  ASSUME ReadsInv, Guard
  PROVE  ReadsInv'
<1>1. Where(call, "guard")
  BY AtIs DEF ReadsInv, Guard
<1>2. /\ world' = world
      /\ "class" \in drifted => "class" \in drifted'
      /\ "rows" \in drifted => "rows" \in drifted'
  BY DEF Guard
<1>3. /\ call \in CallSet /\ call.at \in 1..LastPlace[call.on.door]
      /\ call.at = GuardPlace[call.on.door] /\ call.at # SentPlace[call.on.door]
      /\ call.at # JudgePlace[call.on.door] /\ call.at > JudgePlace[call.on.door]
      /\ call.on.door = "selector" => call.at # 9
  BY <1>1 DEF Where, Placed
<1>4. /\ Follows(call', call)
      /\ call'.held = call.held /\ call'.had = call.had /\ call'.skip = call.skip
      /\ call'.sent = call.sent /\ call'.more = call.more /\ call'.charged = call.charged
      /\ ~Past(call', call.at) \/ ~ObjectDenied(call)
  <2>1. CASE call' = Passed(call) /\ ~ObjectDenied(call)
    BY <1>1, <2>1, PassedFollows DEF Where
  <2>2. CASE Answered("forbidden")
    <3>1. call' = [call EXCEPT !.reply = "forbidden"]
      BY <2>2 DEF Answered
    <3>2. "forbidden" \in ReadReplies \ {"none", "served"}
      BY DEF ReadReplies
    <3> QED BY <1>1, <3>1, <3>2, AnsweredFollows DEF Where
  <2>3. Answered("forbidden") \/ (call' = Passed(call) /\ ~ObjectDenied(call))
    BY DEF Guard, ResourceDenied, ObjectDenied, Judged
  <2> QED BY <2>1, <2>2, <2>3
<1>5. AsAdmitted(call', world, drifted')
  BY <1>2, <1>3, <1>4, AdmittedStill DEF ReadsInv
<1>6. Owned(call', world, drifted')
  <2>1. Judged(call') => Judged(call)
    BY <1>4 DEF Judged, Follows
  <2>2. Past(call', call.at) /\ Judged(call') => world.object
    BY <1>4, <2>1 DEF ObjectDenied
  <2>3. /\ call'.on = call.on /\ GuardPlace[call.on.door] = call.at
    BY <1>3, <1>4 DEF Follows
  <2> QED BY <2>2, <2>3 DEF Owned
<1>7. Settled(call', world, drifted')
  BY <1>2, <1>3, <1>4, SettledStill DEF ReadsInv
<1>8. Whole(call', drifted')
  BY <1>2, <1>3, <1>4, WholeStill DEF ReadsInv
<1> QED BY <1>2, <1>4, <1>5, <1>6, <1>7, <1>8 DEF ReadsInv, ReadsType, Follows

\* What is read is read past the permission, and nothing was sent before it.
LEMMA FetchKeeps ==
  ASSUME ReadsInv, Fetch
  PROVE  ReadsInv'
<1>1. Where(call, "fetch")
  BY AtIs DEF ReadsInv, Fetch
<1>2. /\ world' = world
      /\ "class" \in drifted => "class" \in drifted'
      /\ "object" \in drifted => "object" \in drifted'
  BY DEF Fetch
<1>3. /\ call \in CallSet /\ call.at \in 1..LastPlace[call.on.door]
      /\ call.at = FetchPlace[call.on.door]
      /\ call.at # JudgePlace[call.on.door] /\ call.at > JudgePlace[call.on.door]
      /\ call.at # GuardPlace[call.on.door]
      /\ call.on.door \in {"resource", "prompt", "completion", "selector", "direct"}
  BY <1>1 DEF Where, Placed
<1>4. Follows(call', call) /\ call'.skip = call.skip /\ call'.charged = call.charged
  <2>1. CASE Answered("raised")
    <3>1. call' = [call EXCEPT !.reply = "raised"]
      BY <2>1 DEF Answered
    <3>2. "raised" \in ReadReplies \ {"none", "served"}
      BY DEF ReadReplies
    <3> QED BY <1>1, <3>1, <3>2, AnsweredFollows DEF Where
  <2>6. CASE Answered("not found")
    <3>1. call' = [call EXCEPT !.reply = "not found"]
      BY <2>6 DEF Answered
    <3>2. PICK r \in ReadReplies \ {"none", "served"} : r = "not found"
      BY DEF ReadReplies
    <3>3. call' = [call EXCEPT !.reply = r]
      BY <3>1, <3>2
    <3> QED BY <1>1, <3>3, AnsweredFollows DEF Where
  <2>2. ASSUME NEW h \in Nat \cup {Lazy}, NEW n \in Int,
               call' = Passed([call EXCEPT !.held = h, !.had = n])
        PROVE  Follows(call', call) /\ call'.skip = call.skip /\ call'.charged = call.charged
    <3>1. PICK e : e = [call EXCEPT !.held = h, !.had = n]
      OBVIOUS
    <3>2. /\ e \in CallSet /\ e.on = call.on /\ e.at = call.at /\ e.limit = call.limit
          /\ e.reply = "none" /\ e.skip = call.skip /\ e.charged = call.charged
      BY <1>1, <3>1 DEF Where, CallSet
    <3>3. call' = Passed(e)
      BY <2>2, <3>1
    <3> QED BY <1>1, <3>2, <3>3, PassedFollows DEF Where
  <2>3. world.rows \in Nat
    BY DEF ReadsInv, ReadsType, WorldSet
  <2>4. CASE \E h \in {Lazy, world.rows} :
               call' = Passed([call EXCEPT !.held = h, !.had = world.rows])
    <3>1. PICK n \in Nat : n = world.rows
      BY <2>3
    <3>2. PICK h \in Nat \cup {Lazy} : call' = Passed([call EXCEPT !.held = h, !.had = n])
      BY <2>4, <3>1
    <3>3. n \in Int
      OBVIOUS
    <3> QED BY <2>2, <3>2, <3>3
  <2>5. CASE call' = Passed([call EXCEPT !.held = IF world.rows = 0 THEN 0 ELSE 1])
    <3>1. PICK h \in Nat : h = IF world.rows = 0 THEN 0 ELSE 1
      OBVIOUS
    <3>2. [call EXCEPT !.held = h, !.had = call.had] = [call EXCEPT !.held = h]
      BY <1>3 DEF CallSet
    <3>3. call.had \in Int
      BY <1>3 DEF CallSet
    <3>4. call' = Passed([call EXCEPT !.held = h, !.had = call.had])
      BY <2>5, <3>1, <3>2
    <3> QED BY <2>2, <3>3, <3>4
  <2> QED BY <2>1, <2>4, <2>5, <2>6 DEF Fetch
<1>5. AsAdmitted(call', world, drifted')
  BY <1>2, <1>3, <1>4, AdmittedStill DEF ReadsInv
<1>6. Owned(call', world, drifted')
  <2>1. call.at <= FetchPlace[call.on.door]
    BY <1>3, StagesAre
  <2> QED BY <1>2, <1>3, <1>4, <2>1, OwnedStill DEF ReadsInv
<1>7. Settled(call', world, drifted')
  <2>1. call.on.door = "selector" => call.at = 7 /\ SentPlace["selector"] = 10
    BY <1>3, StagesAre
  <2>2. call'.on = call.on /\ call'.at \in {call.at, call.at + 1}
    BY <1>4 DEF Follows
  <2> QED BY <2>1, <2>2 DEF Settled
<1>8. Whole(call', drifted')
  <2>1. FetchPlace[call.on.door] < SentPlace[call.on.door] /\ SentPlace[call.on.door] \in Nat
          /\ FetchPlace[call.on.door] \in Nat
    BY <1>3, StagesAre
  <2>2. ~Past(call', SentPlace[call.on.door]) /\ call'.on = call.on
    BY <1>3, <1>4, <2>1 DEF Follows
  <2> QED BY <1>4, <2>2 DEF Whole, ReadsInv
<1> QED BY <1>2, <1>4, <1>5, <1>6, <1>7, <1>8 DEF ReadsInv, ReadsType, Follows

\* Bounding a list lets nobody past a permission, and sends nothing yet.
LEMMA BoundKeeps ==
  ASSUME ReadsInv, At("bound"), Follows(call', call), world' = world,
         call.on.kind = "list",
         "class" \in drifted => "class" \in drifted',
         "object" \in drifted => "object" \in drifted',
         call'.charged = call.charged, ~call.on.paged => call'.skip = call.skip,
         Settled(call', world, drifted')
  PROVE  ReadsInv'
<1>1. Where(call, "bound")
  BY AtIs DEF ReadsInv
<1>2. /\ call \in CallSet /\ call.at \in 1..LastPlace[call.on.door]
      /\ call.at # JudgePlace[call.on.door] /\ call.at > JudgePlace[call.on.door]
      /\ call.at # GuardPlace[call.on.door] /\ call.on.door = "selector" /\ call.at = 9
  BY <1>1 DEF Where, Placed
<1>3. AsAdmitted(call', world, drifted')
  BY <1>2, AdmittedStill DEF ReadsInv
<1>4. Owned(call', world, drifted')
  <2>1. ~Judged(call')
    BY DEF Judged, Follows
  <2> QED BY <2>1 DEF Owned
<1>5. Whole(call', drifted')
  <2>1. SentPlace[call.on.door] = 10
    BY <1>2, StagesAre
  <2>2. ~Past(call', SentPlace[call.on.door]) /\ call'.on = call.on
    BY <1>2, <2>1 DEF Follows
  <2> QED BY <2>2 DEF Whole, ReadsInv
<1> QED BY <1>3, <1>4, <1>5 DEF ReadsInv, ReadsType, Follows

\* A page is a window on the rows that were counted.
LEMMA PaginateKeeps ==
  ASSUME ReadsInv, Paginate
  PROVE  ReadsInv'
<1>1. Where(call, "bound")
  BY AtIs DEF ReadsInv, Paginate
<1>2. PICK rows : rows = HeldOr(world.rows)
  OBVIOUS
<1>3. rows \in Nat /\ (call.held = Lazy => rows = world.rows)
        /\ (call.held # Lazy => rows = call.held)
  BY <1>1, <1>2 DEF HeldOr, ReadsInv, ReadsType, WorldSet, Where, CallSet
<1>4. PICK skip : skip = Skipped(call, rows)
  OBVIOUS
<1>5. skip \in Int /\ PageSizeOf(call) \in Int
  BY <1>1, <1>3, <1>4, SkippedIs, PageSizeIs, OnIs DEF Paginate, Where
<1>6. PICK more : more = (skip + PageSizeOf(call) < rows)
  OBVIOUS
<1>12. more \in BOOLEAN
  <2> DEFINE beyond == skip + PageSizeOf(call) < rows
  <2>1. beyond \in BOOLEAN
    OBVIOUS
  <2> QED BY <1>6, <2>1
<1>7. PICK e : e = [call EXCEPT !.had = rows, !.skip = skip, !.more = more]
  OBVIOUS
<1>8. call' = Passed(e)
  BY <1>2, <1>4, <1>6, <1>7 DEF Paginate
<1>9. /\ e \in CallSet /\ e.on = call.on /\ e.at = call.at /\ e.limit = call.limit
      /\ e.reply = "none" /\ e.held = call.held /\ e.had = rows /\ e.skip = skip
      /\ e.more = more /\ e.charged = call.charged
  <2>1. rows \in Int /\ skip \in Int /\ more \in BOOLEAN /\ call \in CallSet
          /\ call.reply = "none"
    BY <1>1, <1>3, <1>5, <1>12 DEF Where
  <2>2. e \in CallSet
    BY ONLY <2>1, <1>7 DEF CallSet
  <2> QED BY <2>1, <2>2, <1>7 DEF CallSet
<1>10. /\ Follows(call', call) /\ call'.held = call.held /\ call'.had = rows
       /\ call'.skip = skip /\ call'.more = more /\ call'.charged = call.charged
  BY <1>1, <1>8, <1>9, PassedFollows DEF Where
<1>11. Settled(call', world, drifted')
  <2>1. call'.on = call.on /\ PageSizeOf(call') = PageSizeOf(call) /\ call.on.paged
    BY <1>10 DEF Follows, PageSizeOf, Ceiled, Paginate
  <2> QED BY <1>3, <1>6, <1>10, <2>1 DEF Settled
<1> QED BY <1>10, <1>11, BoundKeeps DEF Paginate

\* A list with a ceiling is read to it, and refused past it.
LEMMA BoundRowsKeeps ==
  ASSUME ReadsInv, Bound
  PROVE  ReadsInv'
<1>1. Where(call, "bound")
  BY AtIs DEF ReadsInv, Bound
<1>2. PICK rows : rows = HeldOr(world.rows)
  OBVIOUS
<1>3. rows \in Nat
  BY <1>1, <1>2 DEF HeldOr, ReadsInv, ReadsType, WorldSet, Where, CallSet
<1>4. CASE call.on.ceiling = Unbounded
  <2>1. call' = Passed(call)
    BY <1>4 DEF Bound
  <2>2. Follows(call', call) /\ call'.skip = call.skip /\ call'.charged = call.charged
    BY <1>1, <2>1, PassedFollows DEF Where
  <2>3. Settled(call', world, drifted')
    BY <1>4, <2>2 DEF Settled, Follows, Bound
  <2> QED BY <2>2, <2>3, BoundKeeps DEF Bound
<1>5. CASE call.on.ceiling # Unbounded /\ rows > call.on.ceiling
  <2>1. PICK r \in ReadReplies \ {"none", "served"} : r = "too many"
    BY DEF ReadReplies
  <2>2. call' = [call EXCEPT !.reply = r]
    BY <1>2, <1>5, <2>1 DEF Bound, Answered
  <2>3. Follows(call', call) /\ call'.skip = call.skip /\ call'.charged = call.charged
          /\ call'.at = call.at
    BY <1>1, <2>2, AnsweredFollows DEF Where
  <2>4. call.at = 9 /\ SentPlace["selector"] = 10
    BY <1>1 DEF Where, Placed, SentPlace
  <2>5. Settled(call', world, drifted')
    BY <2>3, <2>4 DEF Settled
  <2> QED BY <2>3, <2>5, BoundKeeps DEF Bound
<1>6. CASE call.on.ceiling # Unbounded /\ ~(rows > call.on.ceiling)
  <2>1. PICK e : e = [call EXCEPT !.held = rows, !.had = rows]
    OBVIOUS
  <2>2. call' = Passed(e)
    BY <1>2, <1>6, <2>1 DEF Bound
  <2>3. /\ e \in CallSet /\ e.on = call.on /\ e.at = call.at /\ e.limit = call.limit
        /\ e.reply = "none" /\ e.held = rows /\ e.skip = call.skip /\ e.charged = call.charged
    <3>1. rows \in Int /\ rows \in Nat \cup {Lazy} /\ call \in CallSet /\ call.reply = "none"
      BY <1>1, <1>3 DEF Where
    <3>2. e \in CallSet
      BY ONLY <2>1, <3>1 DEF CallSet
    <3> QED BY <3>1, <3>2, <2>1 DEF CallSet
  <2>4. /\ Follows(call', call) /\ call'.held = rows
        /\ call'.skip = call.skip /\ call'.charged = call.charged
    BY <1>1, <2>2, <2>3, PassedFollows DEF Where
  <2>5. Settled(call', world, drifted')
    <3>1. rows <= call.on.ceiling
      BY <1>1, <1>3, <1>6, OnIs DEF Where
    <3>2. rows # Lazy
      BY <1>3, ReadsAssumption
    <3> QED BY <2>4, <3>1, <3>2 DEF Settled, Follows, Bound
  <2> QED BY <2>4, <2>5, BoundKeeps DEF Bound
<1> QED BY <1>4, <1>5, <1>6

\* One row is under any bound.
LEMMA BoundOneKeeps ==
  ASSUME ReadsInv, BoundOne
  PROVE  ReadsInv'
<1>1. Where(call, "bound")
  BY AtIs DEF ReadsInv, BoundOne
<1>2. call' = Passed(call) /\ world' = world /\ drifted' = drifted
  BY DEF BoundOne
<1>3. /\ Follows(call', call)
      /\ call'.held = call.held /\ call'.had = call.had /\ call'.skip = call.skip
      /\ call'.sent = call.sent /\ call'.more = call.more /\ call'.charged = call.charged
  BY <1>1, <1>2, PassedFollows DEF Where
<1>4. /\ call \in CallSet /\ call.at \in 1..LastPlace[call.on.door]
      /\ call.at # JudgePlace[call.on.door] /\ call.at > JudgePlace[call.on.door]
      /\ call.at # GuardPlace[call.on.door] /\ call.at # SentPlace[call.on.door]
  BY <1>1 DEF Where, Placed
<1>5. AsAdmitted(call', world, drifted)
  BY <1>3, <1>4, AdmittedStill DEF ReadsInv
<1>6. Owned(call', world, drifted)
  <2>1. Judged(call') => Judged(call)
    BY <1>3 DEF Judged, Follows
  <2> QED BY <1>3, <1>4, <2>1, OwnedStill DEF ReadsInv
<1>7. Settled(call', world, drifted)
  BY <1>3 DEF Settled, Follows, BoundOne
<1>8. Whole(call', drifted)
  BY <1>3, <1>4, WholeStill DEF ReadsInv
<1> QED BY <1>2, <1>3, <1>5, <1>6, <1>7, <1>8 DEF ReadsInv, ReadsType, Follows

\* Sending lets nobody past a permission, and settles nothing for a bound.
LEMMA SendKeeps ==
  ASSUME ReadsInv, NEW s \in {"shape", "cap"}, At(s), Follows(call', call), world' = world,
         drifted' = drifted, call'.charged = call.charged, call'.held = call.held,
         \/ call'.reply = "unrendered" /\ call'.had = call.had /\ call'.skip = call.skip
              /\ call'.more = call.more /\ call'.sent = call.sent
              /\ ~Past(call', call.at) /\ call'.at = call.at
         \/ Whole(call', drifted) /\ call'.reply \in {"none", "served"}
              /\ (call'.at = call.at + 1
                   \/ (call'.at = call.at /\ call.at = LastPlace[call.on.door]))
  PROVE  ReadsInv'
<1>1. Where(call, s)
  BY AtIs DEF ReadsInv
<1>2. /\ call \in CallSet /\ call.at \in 1..LastPlace[call.on.door] /\ call.at \in Nat
      /\ call.at # JudgePlace[call.on.door] /\ call.at > JudgePlace[call.on.door]
      /\ call.at # GuardPlace[call.on.door] /\ call.at = SentPlace[call.on.door]
      /\ call.on.door \in {"resource", "prompt", "completion", "selector", "direct"}
  BY <1>1 DEF Where, Placed, CallSet
<1>3. AsAdmitted(call', world, drifted)
  BY <1>2, AdmittedStill DEF ReadsInv
<1>4. Owned(call', world, drifted)
  <2>1. Judged(call') => Judged(call)
    BY DEF Judged, Follows
  <2> QED BY <1>2, <2>1, OwnedStill DEF ReadsInv
<1>5. CASE call'.reply = "unrendered" /\ call'.had = call.had /\ call'.skip = call.skip
             /\ call'.more = call.more /\ call'.sent = call.sent
             /\ ~Past(call', call.at) /\ call'.at = call.at
  <2>1. call.on.door = "selector" => call.at # 9
    BY <1>1 DEF Where, Placed
  <2>2. Settled(call', world, drifted)
    BY <1>2, <1>5, <2>1, SettledStill DEF ReadsInv
  <2>3. Whole(call', drifted)
    BY <1>2, <1>5, WholeStill DEF ReadsInv
  <2> QED BY <1>3, <1>4, <2>2, <2>3 DEF ReadsInv, ReadsType, Follows
<1>6. CASE /\ Whole(call', drifted) /\ call'.reply \in {"none", "served"}
           /\ \/ call'.at = call.at + 1
              \/ call'.at = call.at /\ call.at = LastPlace[call.on.door]
  <2>1. call.on.door = "selector" => call'.at # 10
    BY <1>2, <1>6, StagesAre
  <2>2. Settled(call', world, drifted)
    BY <2>1 DEF Settled, SentPlace, Follows
  <2> QED BY <1>3, <1>4, <1>6, <2>2 DEF ReadsInv, ReadsType, Follows
<1> QED BY <1>5, <1>6

\* What is rendered is what was bounded.
LEMMA ShapeKeeps ==
  ASSUME ReadsInv, Shape
  PROVE  ReadsInv'
<1>1. Where(call, "shape") /\ At("shape")
  BY AtIs DEF ReadsInv, Shape
<1>2. PICK rows : rows = HeldOr(world.rows)
  OBVIOUS
<1>3. rows \in Nat /\ (call.held = Lazy => rows = world.rows)
        /\ (call.held # Lazy => rows = call.held)
  BY <1>1, <1>2 DEF HeldOr, ReadsInv, ReadsType, WorldSet, Where, CallSet
<1>4. PICK size : size = PageSizeOf(call)
  OBVIOUS
<1>5. size \in Int /\ (call.on.ceiling # Unbounded => size <= call.on.ceiling)
  BY <1>1, <1>4, PageSizeIs DEF Where
<1>6. call.had \in Int /\ call.skip \in Int /\ call.on.paged \in BOOLEAN
        /\ call.on.ceiling \in Nat \cup {Unbounded} /\ call \in CallSet
        /\ (call.on.paged => call.on.door = "selector") /\ call.reply = "none"
  BY <1>1, OnIs DEF Where, CallSet
<1> DEFINE seen == call.on.door = "selector" /\ call.on.kind = "list" /\ call.on.paged
           rest == IF rows > call.skip THEN rows - call.skip ELSE 0
<1>7. PICK window : window = IF seen THEN Least(size, rest) ELSE rows
  OBVIOUS
<1>8. window \in Int /\ (seen => window <= size) /\ (seen => window = size \/ window = rest)
  BY <1>3, <1>5, <1>6, <1>7 DEF Least
<1>9. PICK had : had = IF call.on.paged THEN call.had ELSE rows
  OBVIOUS
<1>10. had \in Int
  BY <1>3, <1>6, <1>9
<1>11. CASE Answered("unrendered")
  <2>1. PICK r \in ReadReplies \ {"none", "served"} : r = "unrendered"
    BY DEF ReadReplies
  <2>2. call' = [call EXCEPT !.reply = r]
    BY <1>11, <2>1 DEF Answered
  <2>3. /\ Follows(call', call) /\ call'.reply = "unrendered" /\ ~Past(call', call.at)
        /\ call'.held = call.held /\ call'.had = call.had /\ call'.skip = call.skip
        /\ call'.sent = call.sent /\ call'.more = call.more /\ call'.charged = call.charged
        /\ call'.at = call.at
    BY <1>1, <2>1, <2>2, AnsweredFollows DEF Where
  <2> QED BY <1>1, <2>3, SendKeeps DEF Shape
<1>12. CASE call' = Passed([call EXCEPT !.sent = window, !.had = had])
  <2>1. PICK e : e = [call EXCEPT !.sent = window, !.had = had]
    OBVIOUS
  <2>2. e \in CallSet
    BY ONLY <1>6, <1>8, <1>10, <2>1 DEF CallSet
  <2>3. /\ e.on = call.on /\ e.at = call.at /\ e.limit = call.limit
        /\ e.reply = "none" /\ e.held = call.held /\ e.had = had /\ e.skip = call.skip
        /\ e.sent = window /\ e.more = call.more /\ e.charged = call.charged
    BY ONLY <1>6, <2>1 DEF CallSet
  <2>4. call' = Passed(e)
    BY <1>12, <2>1
  <2>5. /\ Follows(call', call) /\ call'.reply \in {"none", "served"}
        /\ call'.held = call.held /\ call'.had = had /\ call'.skip = call.skip
        /\ call'.sent = window /\ call'.more = call.more /\ call'.charged = call.charged
        /\ call'.at = call.at + 1 \/ (call'.at = call.at /\ call.at = LastPlace[call.on.door])
    BY <1>1, <2>2, <2>3, <2>4, PassedFollows DEF Where
  <2>6. call'.on = call.on
    BY <2>5 DEF Follows
  <2>7. ~call.on.paged => call.skip = 0
    BY DEF ReadsInv, Whole
  <2>8. call.on.door # "completion"
    BY <1>1 DEF Where, Placed
  <2>9. call.on.door = "selector" /\ call.on.kind = "list" =>
          IF call.on.paged
          THEN /\ call.more = (call.skip + size < call.had)
               /\ call.held # Lazy => call.had = call.held
               /\ call.held = Lazy /\ "rows" \notin drifted => call.had = world.rows
          ELSE call.on.ceiling # Unbounded => call.held # Lazy /\ call.held <= call.on.ceiling
    BY <1>1, <1>4 DEF ReadsInv, Settled, Where, Placed
  <2>10. ASSUME call.on.kind = "list", call.on.door = "selector", call.on.ceiling # Unbounded
         PROVE  window <= call.on.ceiling
    BY <1>3, <1>5, <1>6, <1>7, <1>8, <2>9, <2>10
  <2>11. ASSUME call.on.kind = "list"
         PROVE  call.more \/ call.skip + window >= had \/ (call.on.paged /\ "rows" \in drifted)
    <3>1. CASE ~call.on.paged
      BY <1>3, <1>7, <1>9, <2>7, <3>1
    <3>2. CASE call.on.paged /\ "rows" \notin drifted
      <4>1. call.had = rows /\ had = rows /\ call.more = (call.skip + size < call.had)
        BY <1>3, <1>6, <1>9, <2>9, <2>11, <3>2
      <4>2. seen
        BY <1>6, <2>11, <3>2
      <4>3. call.skip + size >= rows => call.skip + window >= rows
        <5>1. window = size \/ window = rest
          BY <1>8, <4>2
        <5> QED BY <1>3, <1>5, <1>6, <5>1
      <4>4. call.skip + size < rows \/ call.skip + size >= rows
        BY <1>3, <1>5, <1>6
      <4> QED BY <4>1, <4>3, <4>4
    <3> QED BY <1>6, <3>1, <3>2
  <2>12. Whole(call', drifted)
    BY <2>5, <2>6, <2>7, <2>8, <2>10, <2>11 DEF Whole
  <2> QED BY <1>1, <2>5, <2>12, SendKeeps DEF Shape
<1> QED BY <1>2, <1>4, <1>7, <1>9, <1>11, <1>12 DEF Shape

\* The values past the cap are announced.
LEMMA CapKeeps ==
  ASSUME ReadsInv, Cap
  PROVE  ReadsInv'
<1>1. Where(call, "cap") /\ At("cap")
  BY AtIs DEF ReadsInv, Cap
<1>2. PICK values : values = HeldOr(world.rows)
  OBVIOUS
<1>3. values \in Nat /\ MaxCompletionValues \in Nat
  BY <1>1, <1>2, ReadsAssumption DEF HeldOr, ReadsInv, ReadsType, WorldSet, Where, CallSet
<1>4. PICK told : told = Least(values, MaxCompletionValues)
  OBVIOUS
<1>5. PICK more : more = (values > MaxCompletionValues)
  OBVIOUS
<1>6. more \in BOOLEAN
  <2> DEFINE beyond == values > MaxCompletionValues
  <2>1. beyond \in BOOLEAN
    OBVIOUS
  <2> QED BY <1>5, <2>1
<1>7. told \in Int /\ told <= MaxCompletionValues /\ (more \/ told = values)
  <2>1. told \in Int /\ told <= MaxCompletionValues
    BY <1>3, <1>4 DEF Least
  <2>2. CASE values > MaxCompletionValues
    BY <1>5, <2>1, <2>2
  <2>3. CASE ~(values > MaxCompletionValues)
    <3>1. told = values
      BY <1>3, <1>4, <2>3 DEF Least
    <3> QED BY <2>1, <3>1
  <2> QED BY <2>2, <2>3
<1>8. PICK e : e = [call EXCEPT !.had = values, !.sent = told, !.more = more]
  OBVIOUS
<1>9. call \in CallSet /\ call.reply = "none" /\ values \in Int /\ call.on.door = "completion"
        /\ ~call.on.paged
  BY <1>1, <1>3, OnIs DEF Where, Placed
<1>10. e \in CallSet
  BY ONLY <1>6, <1>7, <1>8, <1>9 DEF CallSet
<1>11. /\ e.on = call.on /\ e.at = call.at /\ e.limit = call.limit
       /\ e.reply = "none" /\ e.held = call.held /\ e.had = values /\ e.skip = call.skip
       /\ e.sent = told /\ e.more = more /\ e.charged = call.charged
  BY ONLY <1>8, <1>9 DEF CallSet
<1>12. call' = Passed(e)
  BY <1>2, <1>4, <1>5, <1>8 DEF Cap
<1>13. /\ Follows(call', call) /\ call'.reply \in {"none", "served"}
       /\ call'.held = call.held /\ call'.had = values /\ call'.skip = call.skip
       /\ call'.sent = told /\ call'.more = more /\ call'.charged = call.charged
       /\ call'.at = call.at + 1 \/ (call'.at = call.at /\ call.at = LastPlace[call.on.door])
  BY <1>1, <1>10, <1>11, <1>12, PassedFollows DEF Where
<1>14. Whole(call', drifted)
  <2>1. call.skip = 0 /\ call'.on = call.on
    BY <1>9, <1>13 DEF ReadsInv, Whole, Follows
  <2>2. more \/ 0 + told >= values
    BY <1>3, <1>7
  <2> QED BY <1>7, <1>9, <1>13, <2>1, <2>2 DEF Whole
<1> QED BY <1>1, <1>13, <1>14, SendKeeps DEF Cap

\* A change is remembered.
LEMMA DriftKeeps ==
  ASSUME ReadsInv, Drift
  PROVE  ReadsInv'
<1>1. call' = call
  BY DEF Drift
<1>2. PICK w : w = world'
  OBVIOUS
<1>3. world \in WorldSet /\ MaxRows \in Nat
  BY ReadsAssumption DEF ReadsInv, ReadsType
<1>4. /\ w \in WorldSet
      /\ "class" \in drifted' \/ w.class = world.class
      /\ "object" \in drifted' \/ w.object = world.object
      /\ "rows" \in drifted' \/ w.rows = world.rows
  <2>1. CASE world' = [world EXCEPT !.class = ~@] /\ drifted' = drifted \cup {"class"}
    BY <1>2, <1>3, <2>1 DEF WorldSet
  <2>2. CASE world' = [world EXCEPT !.object = ~@] /\ drifted' = drifted \cup {"object"}
    BY <1>2, <1>3, <2>2 DEF WorldSet
  <2>3. CASE /\ \E n \in 0..MaxRows : n # world.rows /\ world' = [world EXCEPT !.rows = n]
             /\ drifted' = drifted \cup {"rows"}
    <3>1. PICK n \in 0..MaxRows : w = [world EXCEPT !.rows = n]
      BY <1>2, <2>3
    <3>2. n \in Nat
      BY <1>3
    <3> QED BY <1>3, <2>3, <3>1, <3>2 DEF WorldSet
  <2> QED BY <2>1, <2>2, <2>3 DEF Drift
<1>5. drifted \subseteq drifted'
  BY DEF Drift
<1>6. AsAdmitted(call, w, drifted')
  BY <1>4, <1>5 DEF ReadsInv, AsAdmitted
<1>7. Owned(call, w, drifted')
  BY <1>4, <1>5 DEF ReadsInv, Owned
<1>8. Settled(call, w, drifted')
  BY <1>4, <1>5 DEF ReadsInv, Settled
<1>9. Whole(call, drifted')
  BY <1>5 DEF ReadsInv, Whole
<1> QED BY <1>1, <1>2, <1>4, <1>6, <1>7, <1>8, <1>9 DEF ReadsInv, ReadsType

\* A call starts before its first stage.
LEMMA ReadsStart ==
  ASSUME ReadsInit
  PROVE  ReadsInv
<1>1. PICK on \in Doors : call \in Ask(on)
  BY DEF ReadsInit
<1>2. /\ on.door \in {"resource", "prompt", "completion", "selector", "direct"}
      /\ Limits \subseteq Int \cup {Garbled} /\ Pages \subseteq Int \cup {Garbled}
      /\ MaxRows \in Nat
  BY ReadsAssumption
<1>3. /\ call.on = on /\ call.at = 1 /\ call.reply = "none" /\ call.skip = 0 /\ ~call.charged
  BY <1>1 DEF Ask
<1>4. /\ (IF on.door \in {"resource", "prompt", "completion"}
          THEN SUBSET CallerNames ELSE {{}}) \subseteq SUBSET CallerNames
      /\ (IF on.paged THEN Limits ELSE {Garbled}) \subseteq Int \cup {Garbled}
      /\ (IF on.paged THEN Pages ELSE {Garbled}) \subseteq Int \cup {Garbled}
  BY <1>2
<1>5. call \in CallSet
  <2> DEFINE names == IF on.door \in {"resource", "prompt", "completion"}
                      THEN SUBSET CallerNames ELSE {{}}
             limits == IF on.paged THEN Limits ELSE {Garbled}
             pages == IF on.paged THEN Pages ELSE {Garbled}
             asked == [on : {on}, async : BOOLEAN, names : names, limit : limits, page : pages,
                       at : {1}, held : {0}, had : {0}, skip : {0}, sent : {0}, more : {FALSE},
                       charged : {FALSE}, reply : {"none"}]
  <2>1. call \in asked
    BY <1>1 DEF Ask
  <2>2. /\ names \subseteq SUBSET CallerNames
        /\ limits \subseteq Int \cup {Garbled} /\ pages \subseteq Int \cup {Garbled}
    BY <1>4
  <2> HIDE DEF names, limits, pages
  <2>3. /\ {on} \subseteq Doors /\ {1} \subseteq Nat /\ {0} \subseteq Nat \cup {Lazy}
        /\ {0} \subseteq Int /\ {FALSE} \subseteq BOOLEAN /\ {"none"} \subseteq ReadReplies
    BY DEF ReadReplies
  <2>4. asked \subseteq CallSet
    BY <2>2, <2>3 DEF CallSet
  <2> QED BY <2>1, <2>4
<1>6. call.at \in 1..LastPlace[on.door] /\ JudgePlace[on.door] >= 1
      /\ (on.door \in {"resource", "selector", "direct"} => GuardPlace[on.door] >= 1)
      /\ SentPlace[on.door] > 1
  BY <1>2, <1>3 DEF LastPlace, JudgePlace, GuardPlace, SentPlace
<1>7. world \in WorldSet
  BY <1>2 DEF ReadsInit, WorldSet
<1>8. AsAdmitted(call, world, drifted)
  BY <1>2, <1>3, <1>6, StagesAre DEF AsAdmitted, Past, Open
<1>9. Owned(call, world, drifted)
  BY <1>2, <1>3, <1>6, StagesAre DEF Owned, Past
<1>10. Settled(call, world, drifted)
  BY <1>3 DEF Settled, SentPlace
<1>11. Whole(call, drifted)
  BY <1>2, <1>3, <1>6, StagesAre DEF Whole, Past
<1> QED BY <1>3, <1>5, <1>6, <1>7, <1>8, <1>9, <1>10, <1>11 DEF ReadsInv, ReadsType

\* Every read keeps what is known of it.
LEMMA ReadsKept ==
  ASSUME ReadsInv, [ReadsNext]_readVars
  PROVE  ReadsInv'
<1>1. CASE UNCHANGED readVars
  BY <1>1, ZenonT(60) DEF readVars, ReadsInv, ReadsType, AsAdmitted, Owned, Settled, Whole, Past, Judged, Open,
              PageSizeOf, Ceiled
<1>2. CASE ReadsNext
  BY <1>2, CheckKeeps, AuthorizeKeeps, SpendKeeps, FetchKeeps, GuardKeeps, PaginateKeeps,
     BoundRowsKeeps, BoundOneKeeps, ShapeKeeps, CapKeeps, DriftKeeps DEF ReadsNext
<1> QED BY <1>1, <1>2

\* Every state of a read is one its door's stages lead to.
LEMMA ReadsHold == ReadsSpec => []ReadsInv
<1>1. ReadsInit => ReadsInv
  BY ReadsStart
<1>2. ReadsInv /\ [ReadsNext]_readVars => ReadsInv'
  BY ReadsKept
<1> QED BY <1>1, <1>2, PTL DEF ReadsSpec

\* Whoever gets more than a refusal through any door was admitted to it.
THEOREM AnswersAreAdmitted == ReadsSpec => []AnsweredAsAdmitted
<1>1. ReadsInv => AnsweredAsAdmitted
  <2>1. ASSUME ReadsInv PROVE AnsweredAsAdmitted
    <3>1. /\ call.reply \notin Open(call) \/ call.charged
          /\ call.on.door # "direct" \/ call.on.guarded
          => world.class \/ "class" \in drifted
      BY <2>1 DEF ReadsInv, AsAdmitted
    <3>2. call.reply = "served" /\ Judged(call) /\ call.on.door # "prompt"
            => world.object \/ "object" \in drifted
      <4>1. call \in CallSet /\ call.at \in 1..LastPlace[call.on.door]
        BY <2>1 DEF ReadsInv, ReadsType
      <4>2. /\ call.on.door \in {"resource", "prompt", "completion", "selector", "direct"}
            /\ Judged(call) => call.on.door # "completion"
        BY <4>1, StageAt, OnIs DEF Judged
      <4> QED BY <2>1, <4>2 DEF ReadsInv, Owned, Past
    <3> QED BY <3>1, <3>2 DEF AnsweredAsAdmitted
  <2> QED BY <2>1
<1> QED BY <1>1, ReadsHold, PTL

\* What is served is whole or says that it is not, within the ceilings.
THEOREM ServedWhole == ReadsSpec => []WholeOrSaysSo
<1>1. ReadsInv => WholeOrSaysSo
  BY DEF ReadsInv, Whole, WholeOrSaysSo, Past
<1> QED BY <1>1, ReadsHold, PTL

\* No argument of a caller's takes a name the server or the author of a binding gives.
THEOREM SeedsStayTheServers == ReadsSpec => []SeedsStand
<1>1. ReadsInv => SeedsStand
  <2>1. ASSUME ReadsInv, call.on.door \in {"resource", "prompt", "completion"},
               NEW n \in DOMAIN ReadPool(call),
               n \in {"user", "request"}
                       \cup (IF call.on.door = "prompt" THEN {} ELSE ReservedNames)
        PROVE  ReadPool(call)[n] # "caller"
    <3>1. CASE call.on.door = "resource"
      <4>1. ReadPool(call) = ResourcePool(call)
        BY <3>1 DEF ReadPool, AsyncResourcePool
      <4> QED BY <2>1, <3>1, <4>1 DEF ResourcePool, Over, Given
    <3>2. CASE call.on.door = "prompt"
      <4>1. ReadPool(call) = PromptPool(call)
        BY <3>2 DEF ReadPool, AsyncPromptPool
      <4> QED BY <2>1, <3>2, <4>1 DEF PromptPool, Over, Given
    <3>3. CASE call.on.door = "completion"
      <4>1. ReadPool(call) = CompletionPool(call)
        BY <3>3 DEF ReadPool
      <4> QED BY <2>1, <3>3, <4>1 DEF CompletionPool, Over, Given
    <3> QED BY <2>1, <3>1, <3>2, <3>3
  <2> QED BY <2>1 DEF SeedsStand
<1> QED BY <1>1, ReadsHold, PTL

-----------------------------------------------------------------------------
(* Registration, listings and the walk through them.                       *)

(* The checks of a registrar.                                              *)

\* Checks none of whose answers is the pass, and checks none of which refuses.
AllRefuse(c) == \E S : c \in Seq(S) /\ \A i \in DOMAIN c : c[i][2] # "registered"
Clear(c) == \A i \in DOMAIN c : ~c[i][1]

\* What is registered was refused by none of its checks.
LEMMA RegisteredIsClear ==
  ASSUME NEW c, AllRefuse(c), Verdict(c, "registered") = "registered"
  PROVE  Clear(c)
<1>1. PICK S : c \in Seq(S) /\ \A i \in DOMAIN c : c[i][2] # "registered"
  BY DEF AllRefuse
<1>2. \A i \in DOMAIN c : ~c[i][1]
  BY <1>1, FirstDecides
<1> QED BY <1>2 DEF Clear

\* Checks made one after the other.
LEMMA Joined ==
  ASSUME NEW a, NEW b, AllRefuse(a), AllRefuse(b)
  PROVE  AllRefuse(a \o b) /\ (Clear(a \o b) => Clear(a) /\ Clear(b))
<1>1. PICK S : a \in Seq(S) /\ \A i \in DOMAIN a : a[i][2] # "registered"
  BY DEF AllRefuse
<1>2. PICK T : b \in Seq(T) /\ \A i \in DOMAIN b : b[i][2] # "registered"
  BY DEF AllRefuse
<1> DEFINE U == S \cup T
           c == a \o b
<1>3. a \in Seq(U) /\ b \in Seq(U)
  BY <1>1, <1>2
<1> HIDE DEF U
<1>4. /\ c \in Seq(U) /\ Len(c) = Len(a) + Len(b)
      /\ \A i \in 1..Len(a) + Len(b) : c[i] = IF i <= Len(a) THEN a[i] ELSE b[i - Len(a)]
  BY <1>3, ConcatProperties
<1> HIDE DEF c
<1>5. /\ Len(a) \in Nat /\ Len(b) \in Nat /\ DOMAIN a = 1..Len(a) /\ DOMAIN b = 1..Len(b)
      /\ DOMAIN c = 1..Len(a) + Len(b)
  BY <1>3, <1>4
<1>6. \A i \in DOMAIN a : i \in DOMAIN c /\ c[i] = a[i]
  BY <1>4, <1>5
<1>7. ASSUME NEW i \in DOMAIN b PROVE i + Len(a) \in DOMAIN c /\ c[i + Len(a)] = b[i]
  <2> DEFINE k == i + Len(a)
  <2>1. k \in 1..Len(a) + Len(b) /\ ~(k <= Len(a)) /\ k - Len(a) = i
    BY <1>5
  <2> HIDE DEF k
  <2>2. c[k] = b[i]
    BY <1>4, <2>1
  <2> QED BY <1>5, <2>1, <2>2 DEF k
<1>8. ASSUME NEW i \in DOMAIN c
      PROVE  \/ i \in DOMAIN a /\ c[i] = a[i]
             \/ i - Len(a) \in DOMAIN b /\ c[i] = b[i - Len(a)]
  <2>1. i \in 1..Len(a) + Len(b)
    BY <1>5
  <2>2. i <= Len(a) => i \in DOMAIN a
    BY <1>5
  <2>3. ~(i <= Len(a)) => i - Len(a) \in DOMAIN b
    BY <1>5
  <2> QED BY <1>4, <2>1, <2>2, <2>3
<1>9. \A i \in DOMAIN c : c[i][2] # "registered"
  BY <1>1, <1>2, <1>8
<1>10. Clear(c) => Clear(a) /\ Clear(b)
  BY <1>6, <1>7 DEF Clear
<1>11. AllRefuse(c)
  BY <1>4, <1>9 DEF AllRefuse
<1> QED BY <1>10, <1>11 DEF c

\* A few checks.
LEMMA OneRefusal ==
  ASSUME NEW x,
         x[2] # "registered"
  PROVE  /\ AllRefuse(<<x>>)
         /\ Clear(<<x>>) => ~x[1]
<1> DEFINE c == <<x>>
           S == {x}
<1>1. c \in Seq(S) /\ DOMAIN c = 1..1
  OBVIOUS
<1>2. c[1] = x
  OBVIOUS
<1>3. 1..1 = {1}
  OBVIOUS
<1> HIDE DEF c, S
<1>4. \A i \in DOMAIN c : c[i][2] # "registered"
  BY <1>1, <1>2, <1>3
<1>5. AllRefuse(c)
  BY <1>1, <1>4 DEF AllRefuse
<1>6. Clear(c) => ~x[1]
  BY <1>1, <1>2, <1>3 DEF Clear
<1> QED BY <1>5, <1>6 DEF c

\* Two checks that each refuse: they are clear only if neither holds.
LEMMA TwoRefusals ==
  ASSUME NEW x, NEW y,
         x[2] # "registered", y[2] # "registered"
  PROVE  /\ AllRefuse(<<x, y>>)
         /\ Clear(<<x, y>>) => ~x[1] /\ ~y[1]
<1> DEFINE c == <<x, y>>
           S == {x, y}
<1>1. c \in Seq(S) /\ DOMAIN c = 1..2
  OBVIOUS
<1>2. c[1] = x /\ c[2] = y
  OBVIOUS
<1>3. 1..2 = {1, 2}
  OBVIOUS
<1> HIDE DEF c, S
<1>4. \A i \in DOMAIN c : c[i][2] # "registered"
  BY <1>1, <1>2, <1>3
<1>5. AllRefuse(c)
  BY <1>1, <1>4 DEF AllRefuse
<1>6. Clear(c) => ~x[1] /\ ~y[1]
  BY <1>1, <1>2, <1>3 DEF Clear
<1> QED BY <1>5, <1>6 DEF c

\* Three checks that each refuse.
LEMMA ThreeRefusals ==
  ASSUME NEW x, NEW y, NEW z,
         x[2] # "registered", y[2] # "registered", z[2] # "registered"
  PROVE  /\ AllRefuse(<<x, y, z>>)
         /\ Clear(<<x, y, z>>) => ~x[1] /\ ~y[1] /\ ~z[1]
<1> DEFINE c == <<x, y, z>>
           S == {x, y, z}
<1>1. c \in Seq(S) /\ DOMAIN c = 1..3
  OBVIOUS
<1>2. c[1] = x /\ c[2] = y /\ c[3] = z
  OBVIOUS
<1>3. 1..3 = {1, 2, 3}
  OBVIOUS
<1> HIDE DEF c, S
<1>4. \A i \in DOMAIN c : c[i][2] # "registered"
  BY <1>1, <1>2, <1>3
<1>5. AllRefuse(c)
  BY <1>1, <1>4 DEF AllRefuse
<1>6. Clear(c) => ~x[1] /\ ~y[1] /\ ~z[1]
  BY <1>1, <1>2, <1>3 DEF Clear
<1> QED BY <1>5, <1>6 DEF c

\* Four checks that each refuse.
LEMMA FourRefusals ==
  ASSUME NEW x, NEW y, NEW z, NEW u,
         x[2] # "registered", y[2] # "registered", z[2] # "registered", u[2] # "registered"
  PROVE  /\ AllRefuse(<<x, y, z, u>>)
         /\ Clear(<<x, y, z, u>>) => ~x[1] /\ ~y[1] /\ ~z[1] /\ ~u[1]
<1> DEFINE c == <<x, y, z, u>>
           S == {x, y, z, u}
<1>1. c \in Seq(S) /\ DOMAIN c = 1..4
  OBVIOUS
<1>2. c[1] = x /\ c[2] = y /\ c[3] = z /\ c[4] = u
  OBVIOUS
<1>3. 1..4 = {1, 2, 3, 4}
  OBVIOUS
<1> HIDE DEF c, S
<1>4. \A i \in DOMAIN c : c[i][2] # "registered"
  BY <1>1, <1>2, <1>3
<1>5. AllRefuse(c)
  BY <1>1, <1>4 DEF AllRefuse
<1>6. Clear(c) => ~x[1] /\ ~y[1] /\ ~z[1] /\ ~u[1]
  BY <1>1, <1>2, <1>3 DEF Clear
<1> QED BY <1>5, <1>6 DEF c

\* Five checks that each refuse.
LEMMA FiveRefusals ==
  ASSUME NEW x1, NEW x2, NEW x3, NEW x4, NEW x5,
         x1[2] # "registered", x2[2] # "registered", x3[2] # "registered", x4[2] # "registered",
         x5[2] # "registered"
  PROVE  /\ AllRefuse(<<x1, x2, x3, x4, x5>>)
         /\ Clear(<<x1, x2, x3, x4, x5>>) => ~x1[1] /\ ~x2[1] /\ ~x3[1] /\ ~x4[1] /\ ~x5[1]
<1> DEFINE c == <<x1, x2, x3, x4, x5>>
           S == {x1, x2, x3, x4, x5}
<1>1. c \in Seq(S) /\ DOMAIN c = 1..5
  OBVIOUS
<1>2. c[1] = x1 /\ c[2] = x2 /\ c[3] = x3 /\ c[4] = x4 /\ c[5] = x5
  OBVIOUS
<1>3. 1..5 = {1, 2, 3, 4, 5}
  OBVIOUS
<1> HIDE DEF c, S
<1>4. \A i \in DOMAIN c : c[i][2] # "registered"
  BY <1>1, <1>2, <1>3
<1>5. AllRefuse(c)
  BY <1>1, <1>4 DEF AllRefuse
<1>6. Clear(c) => ~x1[1] /\ ~x2[1] /\ ~x3[1] /\ ~x4[1] /\ ~x5[1]
  BY <1>1, <1>2, <1>3 DEF Clear
<1> QED BY <1>5, <1>6 DEF c

\* Eight checks that each refuse.
LEMMA EightRefusals ==
  ASSUME NEW x1, NEW x2, NEW x3, NEW x4, NEW x5, NEW x6, NEW x7, NEW x8,
         x1[2] # "registered", x2[2] # "registered", x3[2] # "registered", x4[2] # "registered",
         x5[2] # "registered", x6[2] # "registered", x7[2] # "registered", x8[2] # "registered"
  PROVE  /\ AllRefuse(<<x1, x2, x3, x4, x5, x6, x7, x8>>)
         /\ Clear(<<x1, x2, x3, x4, x5, x6, x7, x8>>) => ~x1[1] /\ ~x2[1] /\ ~x3[1] /\ ~x4[1] /\ ~x5[1] /\ ~x6[1] /\ ~x7[1] /\ ~x8[1]
<1> DEFINE c == <<x1, x2, x3, x4, x5, x6, x7, x8>>
           S == {x1, x2, x3, x4, x5, x6, x7, x8}
<1>1. c \in Seq(S) /\ DOMAIN c = 1..8
  OBVIOUS
<1>2. c[1] = x1 /\ c[2] = x2 /\ c[3] = x3 /\ c[4] = x4 /\ c[5] = x5 /\ c[6] = x6 /\ c[7] = x7 /\ c[8] = x8
  OBVIOUS
<1>3. 1..8 = {1, 2, 3, 4, 5, 6, 7, 8}
  OBVIOUS
<1> HIDE DEF c, S
<1>4. \A i \in DOMAIN c : c[i][2] # "registered"
  BY <1>1, <1>2, <1>3
<1>5. AllRefuse(c)
  BY <1>1, <1>4 DEF AllRefuse
<1>6. Clear(c) => ~x1[1] /\ ~x2[1] /\ ~x3[1] /\ ~x4[1] /\ ~x5[1] /\ ~x6[1] /\ ~x7[1] /\ ~x8[1]
  BY <1>1, <1>2, <1>3 DEF Clear
<1> QED BY <1>5, <1>6 DEF c

\* Nine checks that each refuse.
LEMMA NineRefusals ==
  ASSUME NEW x1, NEW x2, NEW x3, NEW x4, NEW x5, NEW x6, NEW x7, NEW x8, NEW x9,
         x1[2] # "registered", x2[2] # "registered", x3[2] # "registered", x4[2] # "registered",
         x5[2] # "registered", x6[2] # "registered", x7[2] # "registered", x8[2] # "registered", x9[2] # "registered"
  PROVE  /\ AllRefuse(<<x1, x2, x3, x4, x5, x6, x7, x8, x9>>)
         /\ Clear(<<x1, x2, x3, x4, x5, x6, x7, x8, x9>>) => ~x1[1] /\ ~x2[1] /\ ~x3[1] /\ ~x4[1] /\ ~x5[1] /\ ~x6[1] /\ ~x7[1] /\ ~x8[1] /\ ~x9[1]
<1> DEFINE c == <<x1, x2, x3, x4, x5, x6, x7, x8, x9>>
           S == {x1, x2, x3, x4, x5, x6, x7, x8, x9}
<1>1. c \in Seq(S) /\ DOMAIN c = 1..9
  OBVIOUS
<1>2. c[1] = x1 /\ c[2] = x2 /\ c[3] = x3 /\ c[4] = x4 /\ c[5] = x5 /\ c[6] = x6 /\ c[7] = x7 /\ c[8] = x8 /\ c[9] = x9
  OBVIOUS
<1>3. 1..9 = {1, 2, 3, 4, 5, 6, 7, 8, 9}
  OBVIOUS
<1> HIDE DEF c, S
<1>4. \A i \in DOMAIN c : c[i][2] # "registered"
  BY <1>1, <1>2, <1>3
<1>5. AllRefuse(c)
  BY <1>1, <1>4 DEF AllRefuse
<1>6. Clear(c) => ~x1[1] /\ ~x2[1] /\ ~x3[1] /\ ~x4[1] /\ ~x5[1] /\ ~x6[1] /\ ~x7[1] /\ ~x8[1] /\ ~x9[1]
  BY <1>1, <1>2, <1>3 DEF Clear
<1> QED BY <1>5, <1>6 DEF c

\* Eight groups of checks made one after the other.
LEMMA EightJoined ==
  ASSUME NEW a, NEW b, NEW c, NEW d, NEW e, NEW f, NEW g, NEW h,
         AllRefuse(a), AllRefuse(b), AllRefuse(c), AllRefuse(d),
         AllRefuse(e), AllRefuse(f), AllRefuse(g), AllRefuse(h),
         Verdict(a \o b \o c \o d \o e \o f \o g \o h, "registered") = "registered"
  PROVE  Clear(b) /\ Clear(g) /\ Clear(h)
<1> DEFINE ab == a \o b
           abc == ab \o c
           abcd == abc \o d
           five == abcd \o e
           six == five \o f
           seven == six \o g
           all == seven \o h
<1>1. AllRefuse(ab) /\ (Clear(ab) => Clear(b))
  BY Joined
<1> HIDE DEF ab
<1>2. AllRefuse(abc) /\ (Clear(abc) => Clear(ab))
  BY <1>1, Joined
<1> HIDE DEF abc
<1>3. AllRefuse(abcd) /\ (Clear(abcd) => Clear(abc))
  BY <1>2, Joined
<1> HIDE DEF abcd
<1>4. AllRefuse(five) /\ (Clear(five) => Clear(abcd))
  BY <1>3, Joined
<1> HIDE DEF five
<1>5. AllRefuse(six) /\ (Clear(six) => Clear(five))
  BY <1>4, Joined
<1> HIDE DEF six
<1>6. AllRefuse(seven) /\ (Clear(seven) => Clear(six) /\ Clear(g))
  BY <1>5, Joined
<1> HIDE DEF seven
<1>7. AllRefuse(all) /\ (Clear(all) => Clear(seven) /\ Clear(h))
  BY <1>6, Joined
<1>8. Verdict(all, "registered") = "registered"
  BY DEF seven, six, five, abcd, abc, ab
<1> HIDE DEF all
<1>9. Clear(all)
  BY <1>7, <1>8, RegisteredIsClear
<1> QED BY <1>1, <1>2, <1>3, <1>4, <1>5, <1>6, <1>7, <1>9

\* A link that leads to a view.
Linked(t) == t.link # NoLink => Resolved(t.link) # <<>> /\ Head(Resolved(t.link)).mime = "view"

\* The checks the three registrars of tools share.
LEMMA SharedChecks ==
  ASSUME NEW t, NEW held
  PROVE  /\ AllRefuse(LinkChecks(t)) /\ (Clear(LinkChecks(t)) => Linked(t))
         /\ AllRefuse(OutputChecks(t)) /\ AllRefuse(DeclaredChecks(t))
         /\ AllRefuse(HeldChecks(t, held))
         /\ Clear(HeldChecks(t, held)) => \A i \in DOMAIN held : held[i].name # t.name
<1>1. AllRefuse(LinkChecks(t)) /\ (Clear(LinkChecks(t)) => Linked(t))
  <2> DEFINE x == Flaw(t, "two ui")
             y == <<t.link # NoLink /\ (Resolved(t.link) = <<>> \/ Head(Resolved(t.link)).mime # "view"),
                    "no view">>
             z == <<t.link # NoLink /\ ~EmitsContent(t), "blank view">>
  <2>1. x[2] # "registered" /\ y[2] # "registered" /\ z[2] # "registered"
    BY DEF Flaw
  <2>2. ~y[1] => Linked(t)
    BY DEF Linked
  <2>3. LinkChecks(t) = <<x, y, z>>
    BY DEF LinkChecks
  <2> HIDE DEF x, y, z
  <2>4. AllRefuse(<<x, y, z>>) /\ (Clear(<<x, y, z>>) => ~y[1])
    BY <2>1, ThreeRefusals
  <2> QED BY <2>2, <2>3, <2>4
<1>2. AllRefuse(OutputChecks(t))
  <2> DEFINE x == <<t.schema = "on" /\ t.content = "off", "schema without content">>
             y == <<t.kind = "retrieve" /\ t.paginated, "paginated retrieve">>
             z == Flaw(t, "media without mime type")
             u == <<t.media /\ (t.schema = "on" \/ t.content = "on"), "media with content">>
  <2>1. x[2] # "registered" /\ y[2] # "registered" /\ z[2] # "registered" /\ u[2] # "registered"
    BY DEF Flaw
  <2>2. OutputChecks(t) = <<x, y, z, u>>
    BY DEF OutputChecks
  <2> HIDE DEF x, y, z, u
  <2> QED BY <2>1, <2>2, FourRefusals
<1>3. AllRefuse(DeclaredChecks(t))
  <2> DEFINE x == <<t.perms = {} /\ setting.permissions, "unguarded">>
             y == <<~t.described /\ setting.descriptions, "undescribed">>
  <2>1. x[2] # "registered" /\ y[2] # "registered"
    OBVIOUS
  <2>2. DeclaredChecks(t) = <<x, y>>
    BY DEF DeclaredChecks
  <2> HIDE DEF x, y
  <2> QED BY <2>1, <2>2, TwoRefusals
<1>4. /\ AllRefuse(HeldChecks(t, held))
      /\ Clear(HeldChecks(t, held)) => \A i \in DOMAIN held : held[i].name # t.name
  <2> DEFINE x == <<\E i \in DOMAIN held : held[i].name = t.name, "duplicate">>
             y == Flaw(t, "server arguments")
  <2>1. x[2] # "registered" /\ y[2] # "registered"
    BY DEF Flaw
  <2>2. ~x[1] => \A i \in DOMAIN held : held[i].name # t.name
    OBVIOUS
  <2>3. HeldChecks(t, held) = <<x, y>>
    BY DEF HeldChecks
  <2> HIDE DEF x, y
  <2>4. AllRefuse(<<x, y>>) /\ (Clear(<<x, y>>) => ~x[1])
    BY <2>1, TwoRefusals
  <2> QED BY <2>2, <2>3, <2>4
<1> QED BY <1>1, <1>2, <1>3, <1>4

\* The shape of a chain.
LEMMA ShapeRefuses ==
  ASSUME NEW t
  PROVE  AllRefuse(ChainShapeChecks(t))
<1> DEFINE x1 == <<t.steps = <<>>, "no steps">>
           x2 == Flaw(t, "duplicate alias")
           x3 == Flaw(t, "not a spec")
           x4 == Flaw(t, "many first")
           x5 == Flaw(t, "two outputs")
           x6 == Flaw(t, "unknown output")
           x7 == Flaw(t, "unanswered affordances")
           x8 == Flaw(t, "misplaced permissions")
<1>1. /\ x1[2] # "registered" /\ x2[2] # "registered" /\ x3[2] # "registered"
      /\ x4[2] # "registered" /\ x5[2] # "registered" /\ x6[2] # "registered"
      /\ x7[2] # "registered" /\ x8[2] # "registered"
  BY DEF Flaw
<1>2. ChainShapeChecks(t) = <<x1, x2, x3, x4, x5, x6, x7, x8>> \o OutputChecks(t)
  BY DEF ChainShapeChecks
<1> HIDE DEF x1, x2, x3, x4, x5, x6, x7, x8
<1>3. AllRefuse(<<x1, x2, x3, x4, x5, x6, x7, x8>>)
  BY <1>1, EightRefusals
<1>4. AllRefuse(OutputChecks(t))
  BY SharedChecks
<1> QED BY <1>2, <1>3, <1>4, Joined

\* What every registrar of tools asks of what it lets through.
Sound(t, held) ==
  /\ Linked(t) /\ ~Unresolvable(t)
  /\ \A i \in DOMAIN held : held[i].name # t.name

\* A registered tool is sound.
LEMMA ToolPasses ==
  ASSUME NEW t, NEW held, ToolVerdict(t, held) = "registered"
  PROVE  Sound(t, held)
<1> DEFINE L == LinkChecks(t)
           D == DeclaredChecks(t)
           O == OutputChecks(t)
           H == HeldChecks(t, held)
           w == Flaw(t, "caller wins")
           p == Flaw(t, "passthrough")
           o == Flaw(t, "output format")
           s == Flaw(t, "permissions shape")
           i == Flaw(t, "inputs")
           n == Flaw(t, "no selector")
           r == Flaw(t, "unreadable annotation")
           c == Flaw(t, "channels")
           m == Flaw(t, "parameter names")
           u == <<Unresolvable(t), "schema without content">>
           g == <<t.kind = "list" /\ ~t.paginated /\ setting.pagination, "unpaginated">>
           k == Flaw(t, "does not compile")
<1>1. /\ w[2] # "registered" /\ p[2] # "registered" /\ o[2] # "registered" /\ s[2] # "registered"
      /\ i[2] # "registered" /\ n[2] # "registered" /\ r[2] # "registered" /\ c[2] # "registered"
      /\ m[2] # "registered" /\ u[2] # "registered" /\ g[2] # "registered" /\ k[2] # "registered"
  BY DEF Flaw
<1>2. ~u[1] => ~Unresolvable(t)
  OBVIOUS
<1>3. /\ AllRefuse(L) /\ AllRefuse(D) /\ AllRefuse(O) /\ AllRefuse(H) /\ AllRefuse(ChainShapeChecks(t))
      /\ Clear(L) => Linked(t)
      /\ Clear(H) => \A j \in DOMAIN held : held[j].name # t.name
  BY SharedChecks, ShapeRefuses
<1>4. ServiceToolChecks(t, held)
        = <<w, p>> \o L \o <<o, s, i>> \o O \o <<r, c>> \o D \o <<u, k>> \o H
  BY DEF ServiceToolChecks
<1>5. ChainToolChecks(t, held)
        = <<p>> \o L \o <<o, s>> \o ChainShapeChecks(t) \o <<i>> \o D \o <<u, k>> \o H
  BY DEF ChainToolChecks
<1>6. SelectorToolChecks(t, held)
        = <<w, p>> \o L \o <<o, s, n, i>> \o O \o <<c, m>> \o D \o <<u, g, k>> \o H
  BY DEF SelectorToolChecks
<1> HIDE DEF L, D, O, H, w, p, o, s, i, n, r, c, m, u, g, k
<1>7. /\ AllRefuse(<<w, p>>) /\ AllRefuse(<<r, c>>) /\ AllRefuse(<<u, k>>) /\ AllRefuse(<<o, s>>)
      /\ AllRefuse(<<c, m>>) /\ (Clear(<<u, k>>) => ~u[1])
  BY <1>1, TwoRefusals
<1>8. /\ AllRefuse(<<o, s, i>>) /\ AllRefuse(<<u, g, k>>) /\ (Clear(<<u, g, k>>) => ~u[1])
  BY <1>1, ThreeRefusals
<1>9. AllRefuse(<<o, s, n, i>>) /\ AllRefuse(<<p>>) /\ AllRefuse(<<i>>)
  BY <1>1, OneRefusal, FourRefusals
<1>10. CASE t.kind = "service"
  <2>1. Verdict(<<w, p>> \o L \o <<o, s, i>> \o O \o <<r, c>> \o D \o <<u, k>> \o H, "registered")
          = "registered"
    BY <1>4, <1>10 DEF ToolVerdict
  <2>2. Clear(L) /\ Clear(<<u, k>>) /\ Clear(H)
    BY <1>3, <1>7, <1>8, <2>1, EightJoined
  <2> QED BY <1>2, <1>3, <1>7, <2>2 DEF Sound
<1>11. CASE t.kind = "chain"
  <2>1. Verdict(<<p>> \o L \o <<o, s>> \o ChainShapeChecks(t) \o <<i>> \o D \o <<u, k>> \o H,
                "registered") = "registered"
    BY <1>5, <1>11 DEF ToolVerdict
  <2>2. Clear(L) /\ Clear(<<u, k>>) /\ Clear(H)
    BY <1>3, <1>7, <1>9, <2>1, EightJoined
  <2> QED BY <1>2, <1>3, <1>7, <2>2 DEF Sound
<1>12. CASE t.kind # "service" /\ t.kind # "chain"
  <2>1. Verdict(<<w, p>> \o L \o <<o, s, n, i>> \o O \o <<c, m>> \o D \o <<u, g, k>> \o H,
                "registered") = "registered"
    BY <1>6, <1>12 DEF ToolVerdict
  <2>2. Clear(L) /\ Clear(<<u, g, k>>) /\ Clear(H)
    BY <1>3, <1>7, <1>8, <1>9, <2>1, EightJoined
  <2> QED BY <1>2, <1>3, <1>8, <2>2 DEF Sound
<1> QED BY <1>10, <1>11, <1>12

\* A resource or a view is registered under an address nobody has yet.
LEMMA ResourcePasses ==
  ASSUME NEW b,
         Verdict(IF b.kind = "view" THEN ViewChecks(b) ELSE ResourceChecks(b), "registered")
           = "registered"
  PROVE  NewUri(b)
<1> DEFINE s == Flaw(b, "permissions shape")
           n == Flaw(b, "not a spec")
           f == Flaw(b, "no selector")
           c == Flaw(b, "uncarried field")
           z == Flaw(b, "serializer shape")
           r == Flaw(b, "reserved variable")
           u == Flaw(b, "unknown completion")
           g == <<b.perms = {} /\ setting.permissions, "unguarded">>
           d == <<~NewUri(b), "duplicate">>
           o == Flaw(b, "not one source")
           a == Flaw(b, "sees the caller")
           t == Flaw(b, "two ui")
<1>1. /\ s[2] # "registered" /\ n[2] # "registered" /\ f[2] # "registered" /\ c[2] # "registered"
      /\ z[2] # "registered" /\ r[2] # "registered" /\ u[2] # "registered" /\ g[2] # "registered"
      /\ d[2] # "registered" /\ o[2] # "registered" /\ a[2] # "registered" /\ t[2] # "registered"
  BY DEF Flaw
<1>2. ~d[1] => NewUri(b)
  OBVIOUS
<1>3. ResourceChecks(b) = <<s, n, f, c, z, r, u, g, d>>
  BY DEF ResourceChecks
<1>4. ViewChecks(b) = <<s, o, a, t, d>>
  BY DEF ViewChecks
<1> HIDE DEF s, n, f, c, z, r, u, g, d, o, a, t
<1>5. AllRefuse(<<s, n, f, c, z, r, u, g, d>>) /\ (Clear(<<s, n, f, c, z, r, u, g, d>>) => ~d[1])
  BY <1>1, NineRefusals
<1>6. AllRefuse(<<s, o, a, t, d>>) /\ (Clear(<<s, o, a, t, d>>) => ~d[1])
  BY <1>1, FiveRefusals
<1>7. CASE b.kind = "view"
  BY <1>2, <1>4, <1>6, <1>7, RegisteredIsClear
<1>8. CASE b.kind # "view"
  BY <1>2, <1>3, <1>5, <1>8, RegisteredIsClear
<1> QED BY <1>7, <1>8

\* A prompt is registered under a name no prompt has yet.
LEMMA PromptPasses ==
  ASSUME NEW b, Verdict(PromptChecks(b), "registered") = "registered"
  PROVE  \A i \in DOMAIN prompts : prompts[i].name # b.name
<1> DEFINE s == Flaw(b, "permissions shape")
           u == Flaw(b, "unknown completion")
           g == <<b.perms = {} /\ setting.permissions, "unguarded">>
           d == <<\E i \in DOMAIN prompts : prompts[i].name = b.name, "duplicate">>
<1>1. /\ s[2] # "registered" /\ u[2] # "registered" /\ g[2] # "registered" /\ d[2] # "registered"
  BY DEF Flaw
<1>2. ~d[1] => \A i \in DOMAIN prompts : prompts[i].name # b.name
  OBVIOUS
<1>3. PromptChecks(b) = <<s, u, g, d>>
  BY DEF PromptChecks
<1> HIDE DEF s, u, g, d
<1>4. AllRefuse(<<s, u, g, d>>) /\ (Clear(<<s, u, g, d>>) => ~d[1])
  BY <1>1, FourRefusals
<1> QED BY <1>2, <1>3, <1>4, RegisteredIsClear

-----------------------------------------------------------------------------
(* What a step does to the registries.                                     *)

\* The declarations as they are registered: as they are written, with the docstring for a
\* description, with defaults laid under them.
Forms ==
  ToolDecls \cup {Documented(t) : t \in ToolDecls}
    \cup {WithDefaults(t, b.defaults) : t \in ToolDecls, b \in Bulks}

\* Each was let through by what was registered before it.
LetIn(new) ==
  \A i \in DOMAIN new : Sound(new[i], tools \o SubSeq(new, 1, i - 1))

\* The tools grow pos their end, by sound ones.
ToolsGrow ==
  /\ UNCHANGED <<setting, resources, prompts>>
  /\ \E new \in Seq(Forms) : tools' = tools \o new /\ LetIn(new)

\* One more resource, under an address of its own.
ResourcesGrow ==
  /\ UNCHANGED <<setting, tools, prompts>>
  /\ \E b \in ResourceDecls : resources' = Append(resources, b) /\ NewUri(b)

\* One more prompt, under a name of its own.
PromptsGrow ==
  /\ UNCHANGED <<setting, tools, resources>>
  /\ \E b \in PromptDecls :
       /\ prompts' = Append(prompts, b)
       /\ \A i \in DOMAIN prompts : prompts[i].name # b.name

\* A tool by itself.
LEMMA OneToolGrows ==
  ASSUME tools \in Seq(Forms), NEW t \in Forms, RegisterTool(t)
  PROVE  ToolsGrow
<1> DEFINE new == <<t>>
<1>1. new \in Seq(Forms) /\ DOMAIN new = {1} /\ new[1] = t
  OBVIOUS
<1>2. SubSeq(new, 1, 1 - 1) = <<>>
  BY SubSeqEmpty
<1>3. tools \o SubSeq(new, 1, 1 - 1) = tools
  BY <1>2, ConcatEmptySeq
<1>4. Sound(t, tools)
  BY ToolPasses DEF RegisterTool
<1>5. tools' = tools \o new
  BY DEF RegisterTool
<1>6. UNCHANGED <<setting, resources, prompts>>
  BY DEF RegisterTool
<1> HIDE DEF new
<1>7. LetIn(new)
  BY <1>1, <1>3, <1>4 DEF LetIn
<1> QED BY <1>1, <1>5, <1>6, <1>7 DEF ToolsGrow

\* A list of them, up to the first that is refused.
LEMMA ListGrows ==
  ASSUME NEW ts \in Seq(Forms), RegisterAll(ts)
  PROVE  ToolsGrow
<1> DEFINE refused == {i \in 1..Len(ts) : ToolVerdict(ts[i], tools \o SubSeq(ts, 1, i - 1)) # "registered"}
           k == Accepted(ts)
           new == SubSeq(ts, 1, k)
<1>1. /\ k \in 0..Len(ts)
      /\ \A i \in 1..k : ToolVerdict(ts[i], tools \o SubSeq(ts, 1, i - 1)) = "registered"
  <2>1. refused \in SUBSET Nat /\ refused \subseteq 1..Len(ts)
    OBVIOUS
  <2>2. k = IF refused = {} THEN Len(ts) ELSE Min(refused) - 1
    BY DEF Accepted
  <2>d. \A i \in 1..Len(ts) :
          i \notin refused => ToolVerdict(ts[i], tools \o SubSeq(ts, 1, i - 1)) = "registered"
    OBVIOUS
  <2> HIDE DEF k, refused
  <2>3. refused # {} => Min(refused) \in refused /\ \A x \in refused : Min(refused) <= x
    BY <2>1, LeastExists
  <2>4. Len(ts) \in Nat
    OBVIOUS
  <2>5. CASE refused = {}
    <3>1. k = Len(ts)
      BY <2>2, <2>5
    <3>2. \A i \in 1..Len(ts) : i \notin refused
      BY <2>5
    <3> QED BY <2>4, <2>d, <3>1, <3>2
  <2>6. CASE refused # {}
    <3>1. PICK m : m = Min(refused)
      OBVIOUS
    <3>2. m \in 1..Len(ts) /\ k = m - 1 /\ \A x \in refused : m <= x
      BY <2>1, <2>2, <2>3, <2>6, <3>1
    <3>3. \A i \in 1..m - 1 : i \in 1..Len(ts) /\ i \notin refused
      BY <2>4, <3>2
    <3>4. m - 1 \in 0..Len(ts)
      BY <2>4, <3>2
    <3> QED BY <2>d, <3>2, <3>3, <3>4
  <2> QED BY <2>5, <2>6
<1>2. tools' = tools \o new /\ UNCHANGED <<setting, resources, prompts>>
  BY DEF RegisterAll
<1> HIDE DEF k
<1>3. new \in Seq(Forms) /\ Len(new) = k /\ \A i \in 1..k : new[i] = ts[i]
  <2>1. k \in Nat /\ \A i \in 1..k : ts[i] \in Forms
    BY <1>1
  <2>2. /\ new \in Seq(Forms) /\ Len(new) = IF 1 <= k THEN k - 1 + 1 ELSE 0
        /\ \A i \in 1..k - 1 + 1 : new[i] = ts[1 + i - 1]
    BY <2>1, SubSeqProperties
  <2> HIDE DEF new
  <2> QED BY <2>1, <2>2
<1>4. ASSUME NEW i \in 1..k PROVE SubSeq(new, 1, i - 1) = SubSeq(ts, 1, i - 1)
  <2>1. k \in Nat /\ i \in Int /\ i - 1 \in Int /\ \A j \in 1..i - 1 : j \in 1..k
    BY <1>1
  <2>2. \A j \in 1..i - 1 : new[j] \in Forms /\ ts[j] \in Forms /\ new[j] = ts[j]
    BY <1>1, <1>3, <2>1
  <2> DEFINE a == SubSeq(new, 1, i - 1)
             b == SubSeq(ts, 1, i - 1)
  <2>3. /\ a \in Seq(Forms) /\ Len(a) = IF 1 <= i - 1 THEN i - 1 - 1 + 1 ELSE 0
        /\ \A j \in 1..i - 1 - 1 + 1 : a[j] = new[1 + j - 1]
    BY <2>1, <2>2, SubSeqProperties
  <2>4. /\ b \in Seq(Forms) /\ Len(b) = IF 1 <= i - 1 THEN i - 1 - 1 + 1 ELSE 0
        /\ \A j \in 1..i - 1 - 1 + 1 : b[j] = ts[1 + j - 1]
    BY <2>1, <2>2, SubSeqProperties
  <2> HIDE DEF a, b, new
  <2>5. Len(a) = Len(b) /\ \A j \in 1..Len(a) : j \in 1..i - 1 /\ a[j] = new[j] /\ b[j] = ts[j]
    BY <2>1, <2>3, <2>4
  <2>6. Len(a) = Len(b) /\ \A j \in 1..Len(a) : a[j] = b[j]
    BY <2>2, <2>5
  <2>7. a = b
    BY <2>3, <2>4, <2>6, SeqEqual
  <2> QED BY <2>7 DEF a, b
<1>5. DOMAIN new = 1..k
  BY <1>1, <1>3
<1> HIDE DEF new
<1>6. LetIn(new)
  BY <1>1, <1>3, <1>4, <1>5, ToolPasses DEF LetIn
<1> QED BY <1>2, <1>3, <1>6 DEF ToolsGrow

\* Every step of registration is one of the three.
LEMMA RegistryGrows ==
  ASSUME tools \in Seq(Forms), RegistryNext
  PROVE  ToolsGrow \/ ResourcesGrow \/ PromptsGrow
<1>1. ASSUME NEW t \in ToolDecls, RegisterTool(t) PROVE ToolsGrow
  BY <1>1, OneToolGrows DEF Forms
<1>2. ASSUME NEW t \in ToolDecls, DecorateTool(t) PROVE ToolsGrow
  BY <1>2, OneToolGrows DEF Forms, DecorateTool
<1>3. ASSUME NEW b \in Bulks, RegisterTools(b) PROVE ToolsGrow
  <2> DEFINE ts == [i \in DOMAIN b.decls |-> WithDefaults(b.decls[i], b.defaults)]
  <2>1. b.decls \in Seq(ToolDecls)
    BY BulksAssumption
  <2>2. DOMAIN b.decls = 1..Len(b.decls) /\ Len(b.decls) \in Nat
    BY <2>1
  <2>3. \A i \in DOMAIN b.decls : WithDefaults(b.decls[i], b.defaults) \in Forms
    BY <2>1 DEF Forms
  <2>4. ts \in Seq(Forms)
    BY <2>2, <2>3
  <2>5. RegisterAll(ts)
    BY <1>3 DEF RegisterTools
  <2> QED BY <2>4, <2>5, ListGrows
<1>4. ASSUME NEW b \in Bulks, RegisterSpecs(b) PROVE ToolsGrow
  <2> DEFINE foreign == {i \in DOMAIN b.decls : b.decls[i].kind \notin {"service", "list", "retrieve"}}
  <2>1. b.decls \in Seq(ToolDecls) /\ b.decls \in Seq(Forms)
    <3>1. b.decls \in Seq(ToolDecls)
      BY BulksAssumption
    <3>2. ToolDecls \subseteq Forms
      BY DEF Forms
    <3> QED BY <3>1, <3>2
  <2>2. RegisterAll(IF foreign = {} THEN b.decls ELSE SubSeq(b.decls, 1, Min(foreign) - 1))
    BY <1>4 DEF RegisterSpecs
  <2>3. foreign \in SUBSET Nat /\ foreign \subseteq 1..Len(b.decls) /\ Len(b.decls) \in Nat
    BY <2>1
  <2> HIDE DEF foreign
  <2>4. CASE foreign = {}
    BY <2>1, <2>2, <2>4, ListGrows
  <2>5. CASE foreign # {}
    <3>1. PICK m : m = Min(foreign)
      OBVIOUS
    <3>2. m \in 1..Len(b.decls)
      BY <2>3, <2>5, <3>1, LeastExists
    <3>3. m - 1 \in Int /\ \A i \in 1..m - 1 : b.decls[i] \in Forms
      BY <2>1, <2>3, <3>2
    <3>4. SubSeq(b.decls, 1, m - 1) \in Seq(Forms)
      BY <3>3, SubSeqProperties
    <3> QED BY <2>2, <2>5, <3>1, <3>4, ListGrows
  <2> QED BY <2>4, <2>5
<1>5. ASSUME NEW b \in ResourceDecls, RegisterResource(b) PROVE ResourcesGrow
  BY <1>5, ResourcePasses DEF RegisterResource, ResourcesGrow
<1>6. ASSUME NEW b \in ResourceDecls, DecorateResource(b) PROVE ResourcesGrow
  BY <1>5, <1>6 DEF DecorateResource
<1>7. ASSUME NEW b \in PromptDecls, RegisterPrompt(b) PROVE PromptsGrow
  BY <1>7, PromptPasses DEF RegisterPrompt, PromptsGrow
<1> QED BY <1>1, <1>2, <1>3, <1>4, <1>5, <1>6, <1>7 DEF RegistryNext

-----------------------------------------------------------------------------
(* What a selection holds.                                                 *)

\* The kept elements, and no others.
LEMMA SelectedHolds ==
  ASSUME NEW S, NEW s \in Seq(S), NEW K
  PROVE  Selected(s, K) \in Seq(S) /\ ToSet(Selected(s, K)) = ToSet(s) \cap K
<1> DEFINE r == Selected(s, K)
<1>1. r \in Seq(S) /\ \E f : Picks(f, s, K, r)
  BY SelectedPicks
<1>2. PICK f : Picks(f, s, K, r)
  BY <1>1
<1> HIDE DEF r
<1>3. DOMAIN r = 1..Len(r)
  BY <1>1
<1>4. /\ f \in [1..Len(r) -> DOMAIN s] /\ \A j \in 1..Len(r) : r[j] = s[f[j]]
      /\ \A i \in DOMAIN s : s[i] \in K <=> \E j \in 1..Len(r) : f[j] = i
  BY <1>2 DEF Picks
<1>5. ASSUME NEW x \in ToSet(r) PROVE x \in ToSet(s) \cap K
  <2>1. PICK j \in 1..Len(r) : x = r[j]
    BY <1>3 DEF ToSet
  <2>2. f[j] \in DOMAIN s /\ x = s[f[j]] /\ s[f[j]] \in K
    BY <1>4, <2>1
  <2> QED BY <2>2 DEF ToSet
<1>6. ASSUME NEW x \in ToSet(s) \cap K PROVE x \in ToSet(r)
  <2>1. PICK i \in DOMAIN s : x = s[i]
    BY DEF ToSet
  <2>2. PICK j \in 1..Len(r) : f[j] = i
    BY <1>4, <2>1
  <2>3. x = r[j]
    BY <1>4, <2>1, <2>2
  <2> QED BY <1>3, <2>3 DEF ToSet
<1> QED BY <1>1, <1>5, <1>6 DEF r

\* Its head is the first element that is kept.
LEMMA SelectedHead ==
  ASSUME NEW S, NEW s \in Seq(S), NEW K
  PROVE  /\ \A i \in DOMAIN s : s[i] \in K => Selected(s, K) # <<>>
         /\ Selected(s, K) # <<>> =>
              \E i \in DOMAIN s : /\ s[i] \in K /\ Head(Selected(s, K)) = s[i]
                                  /\ \A j \in DOMAIN s : j < i => s[j] \notin K
<1> DEFINE r == Selected(s, K)
<1>1. r \in Seq(S) /\ \E f : Picks(f, s, K, r)
  BY SelectedPicks
<1>2. PICK f : Picks(f, s, K, r)
  BY <1>1
<1> HIDE DEF r
<1>3. DOMAIN r = 1..Len(r) /\ Len(r) \in Nat /\ (r # <<>> => Len(r) # 0 /\ Head(r) = r[1])
  BY <1>1
<1>4. /\ f \in [1..Len(r) -> DOMAIN s] /\ \A j \in 1..Len(r) : r[j] = s[f[j]]
      /\ \A i, j \in 1..Len(r) : i < j => f[i] < f[j]
      /\ \A i \in DOMAIN s : s[i] \in K <=> \E j \in 1..Len(r) : f[j] = i
  BY <1>2 DEF Picks
<1>5. ASSUME NEW i \in DOMAIN s, s[i] \in K PROVE r # <<>>
  <2>1. PICK j \in 1..Len(r) : f[j] = i
    BY <1>4, <1>5
  <2>2. r = <<>> => Len(r) = 0
    OBVIOUS
  <2> QED BY <1>3, <2>1, <2>2
<1>6. ASSUME r # <<>>
      PROVE  \E i \in DOMAIN s : /\ s[i] \in K /\ Head(r) = s[i]
                                 /\ \A j \in DOMAIN s : j < i => s[j] \notin K
  <2>1. 1 \in 1..Len(r) /\ Head(r) = r[1] /\ \A j \in 1..Len(r) : j = 1 \/ 1 < j
    BY <1>3, <1>6
  <2>2. f[1] \in DOMAIN s /\ r[1] = s[f[1]] /\ s[f[1]] \in K
    BY <1>4, <2>1
  <2>3. ASSUME NEW j \in DOMAIN s, j < f[1] PROVE s[j] \notin K
    <3>1. DOMAIN s \subseteq Int
      OBVIOUS
    <3>2. SUFFICES ASSUME s[j] \in K PROVE FALSE
      OBVIOUS
    <3>3. PICK k \in 1..Len(r) : f[k] = j
      BY <1>4, <3>2
    <3>4. k = 1 \/ f[1] < f[k]
      BY <1>4, <2>1
    <3>5. f[1] \in Int /\ j \in Int
      BY <2>2, <3>1
    <3> QED BY <2>3, <3>3, <3>4, <3>5
  <2> QED BY <2>1, <2>2, <2>3
<1> QED BY <1>5, <1>6 DEF r

-----------------------------------------------------------------------------
(* Where a link leads.                                                     *)

ConcreteIn(rs) == Selected(rs, {b \in ToSet(rs) : b.uri \in b.matches})
TemplatesIn(rs) == Selected(rs, {b \in ToSet(rs) : b.uri \notin b.matches})

\* One more resource comes last among its own.
LEMMA ResourceComesLast ==
  ASSUME NEW S, NEW rs \in Seq(S), NEW b \in S
  PROVE  IF b.uri \in b.matches
         THEN /\ ConcreteIn(Append(rs, b)) = Append(ConcreteIn(rs), b)
              /\ TemplatesIn(Append(rs, b)) = TemplatesIn(rs)
         ELSE /\ ConcreteIn(Append(rs, b)) = ConcreteIn(rs)
              /\ TemplatesIn(Append(rs, b)) = Append(TemplatesIn(rs), b)
<1> DEFINE more == Append(rs, b)
           K == {x \in ToSet(more) : x.uri \in x.matches}
           L == {x \in ToSet(more) : x.uri \notin x.matches}
<1>1. more \in Seq(S) /\ ToSet(more) = ToSet(rs) \cup {b}
  BY AppendHolds
<1>2. \A i \in DOMAIN rs : rs[i] \in ToSet(rs)
  BY DEF ToSet
<1>3. /\ \A i \in DOMAIN rs : rs[i] \in K <=> rs[i] \in {x \in ToSet(rs) : x.uri \in x.matches}
      /\ \A i \in DOMAIN rs : rs[i] \in L <=> rs[i] \in {x \in ToSet(rs) : x.uri \notin x.matches}
  BY <1>1, <1>2
<1>4. (b \in K <=> b.uri \in b.matches) /\ (b \in L <=> b.uri \notin b.matches)
  BY <1>1
<1>c. ConcreteIn(more) = Selected(more, K) /\ TemplatesIn(more) = Selected(more, L)
  BY DEF ConcreteIn, TemplatesIn
<1> HIDE DEF K, L
<1>5. ConcreteIn(rs) = Selected(rs, K) /\ TemplatesIn(rs) = Selected(rs, L)
  BY <1>3, SelectedSame DEF ConcreteIn, TemplatesIn
<1>6. /\ Selected(more, K) = Selected(rs, K) \o Single(b, K)
      /\ Selected(more, L) = Selected(rs, L) \o Single(b, L)
  BY SelectedAppend
<1>7. /\ b \in K => Single(b, K) = <<b>>
      /\ b \notin K => Single(b, K) = <<>>
      /\ b \in L => Single(b, L) = <<b>>
      /\ b \notin L => Single(b, L) = <<>>
  BY SingleIs
<1>8. Selected(rs, K) \in Seq(S) /\ Selected(rs, L) \in Seq(S)
  BY SelectedHolds
<1> HIDE DEF more
<1>9. \A q \in Seq(S) : q \o <<>> = q /\ q \o <<b>> = Append(q, b)
  BY ConcatEmptySeq
<1> QED BY <1>4, <1>5, <1>6, <1>7, <1>8, <1>9, <1>c DEF more

\* A link that leads to a view: the first concrete resource it names is one, or a template
\* that takes it is.
FirstView(l, c) ==
  \E i \in DOMAIN c : /\ l \in c[i].matches /\ c[i].mime = "view"
                      /\ \A j \in DOMAIN c : j < i => l \notin c[j].matches
SomeView(l, c) == \E i \in DOMAIN c : c[i].mime = "view" /\ l \in c[i].matches

LeadsToView(l) == FirstView(l, Concrete) \/ SomeView(l, Templates)

\* What comes after leaves it leading there.
LEMMA ViewStays ==
  ASSUME NEW S, NEW c \in Seq(S), NEW b \in S, NEW l
  PROVE  /\ FirstView(l, c) => FirstView(l, Append(c, b))
         /\ SomeView(l, c) => SomeView(l, Append(c, b))
<1> DEFINE d == Append(c, b)
<1>1. /\ DOMAIN d = DOMAIN c \cup {Len(c) + 1} /\ \A i \in DOMAIN c : d[i] = c[i]
      /\ \A i \in DOMAIN c : ~(Len(c) + 1 < i)
  BY AppendHolds
<1> HIDE DEF d
<1>2. FirstView(l, c) => FirstView(l, d)
  <2> SUFFICES ASSUME FirstView(l, c) PROVE FirstView(l, d)
    OBVIOUS
  <2>1. PICK i \in DOMAIN c : /\ l \in c[i].matches /\ c[i].mime = "view"
                              /\ \A j \in DOMAIN c : j < i => l \notin c[j].matches
    BY DEF FirstView
  <2>2. i \in DOMAIN d /\ d[i] = c[i] /\ \A j \in DOMAIN d : j < i => l \notin d[j].matches
    BY <1>1, <2>1
  <2> QED BY <2>1, <2>2 DEF FirstView
<1>3. SomeView(l, c) => SomeView(l, d)
  BY <1>1 DEF SomeView
<1> QED BY <1>2, <1>3 DEF d

\* The concrete resources and the templates are resources.
LEMMA PartsAre ==
  ASSUME NEW S, resources \in Seq(S)
  PROVE  /\ Concrete \in Seq(S) /\ Templates \in Seq(S)
         /\ ToSet(Concrete) \subseteq ToSet(resources)
         /\ ToSet(Templates) \subseteq ToSet(resources)
BY SelectedHolds DEF Concrete, Templates

\* What the resolution finds first.
LEMMA ResolvedIs ==
  ASSUME NEW S, resources \in Seq(S), NEW l
  PROVE  /\ \A i \in DOMAIN Concrete : l \in Concrete[i].matches => Resolved(l) # <<>>
         /\ \A i \in DOMAIN Templates : l \in Templates[i].matches => Resolved(l) # <<>>
         /\ Resolved(l) # <<>> =>
              \/ \E i \in DOMAIN Concrete :
                   /\ l \in Concrete[i].matches /\ Head(Resolved(l)) = Concrete[i]
                   /\ \A j \in DOMAIN Concrete : j < i => l \notin Concrete[j].matches
              \/ /\ \A j \in DOMAIN Concrete : l \notin Concrete[j].matches
                 /\ \E i \in DOMAIN Templates :
                      l \in Templates[i].matches /\ Head(Resolved(l)) = Templates[i]
<1> DEFINE c == Concrete
           t == Templates
           both == c \o t
           K == {b \in ToSet(resources) : l \in b.matches}
<1>1. /\ c \in Seq(S) /\ t \in Seq(S)
      /\ ToSet(c) \subseteq ToSet(resources) /\ ToSet(t) \subseteq ToSet(resources)
  BY PartsAre
<1>2. Resolved(l) = Selected(both, K)
  BY DEF Resolved
<1>3. /\ \A i \in DOMAIN c : c[i] \in K <=> l \in c[i].matches
      /\ \A i \in DOMAIN t : t[i] \in K <=> l \in t[i].matches
  BY <1>1 DEF ToSet
<1> HIDE DEF c, t, K
<1>4. /\ both \in Seq(S) /\ Len(both) = Len(c) + Len(t)
      /\ \A i \in 1..Len(c) + Len(t) : both[i] = IF i <= Len(c) THEN c[i] ELSE t[i - Len(c)]
  BY <1>1, ConcatProperties
<1> HIDE DEF both
<1>5. /\ Len(c) \in Nat /\ Len(t) \in Nat /\ DOMAIN c = 1..Len(c) /\ DOMAIN t = 1..Len(t)
      /\ DOMAIN both = 1..Len(c) + Len(t)
  BY <1>1, <1>4
<1>6. \A i \in DOMAIN c : i \in DOMAIN both /\ both[i] = c[i]
  BY <1>4, <1>5
<1>7. ASSUME NEW i \in DOMAIN t PROVE i + Len(c) \in DOMAIN both /\ both[i + Len(c)] = t[i]
  <2> DEFINE k == i + Len(c)
  <2>1. k \in 1..Len(c) + Len(t) /\ ~(k <= Len(c)) /\ k - Len(c) = i
    BY <1>5
  <2> HIDE DEF k
  <2>2. both[k] = t[i]
    BY <1>4, <2>1
  <2> QED BY <1>5, <2>1, <2>2 DEF k
<1>8. /\ \A i \in DOMAIN both : both[i] \in K => Resolved(l) # <<>>
      /\ Resolved(l) # <<>> =>
           \E i \in DOMAIN both : /\ both[i] \in K /\ Head(Resolved(l)) = both[i]
                                  /\ \A j \in DOMAIN both : j < i => both[j] \notin K
  BY <1>2, <1>4, SelectedHead
<1>9. ASSUME Resolved(l) # <<>>
      PROVE  \/ \E i \in DOMAIN c :
                  /\ l \in c[i].matches /\ Head(Resolved(l)) = c[i]
                  /\ \A j \in DOMAIN c : j < i => l \notin c[j].matches
             \/ /\ \A j \in DOMAIN c : l \notin c[j].matches
                /\ \E i \in DOMAIN t : l \in t[i].matches /\ Head(Resolved(l)) = t[i]
  <2>1. PICK i \in DOMAIN both : /\ both[i] \in K /\ Head(Resolved(l)) = both[i]
                                 /\ \A j \in DOMAIN both : j < i => both[j] \notin K
    BY <1>8, <1>9
  <2>2. CASE i <= Len(c)
    <3>1. i \in DOMAIN c
      BY <1>5, <2>2
    <3>2. c[i] \in K /\ Head(Resolved(l)) = c[i] /\ \A j \in DOMAIN c : j < i => c[j] \notin K
      BY <1>6, <2>1, <3>1
    <3> QED BY <1>3, <3>1, <3>2
  <2>3. CASE ~(i <= Len(c))
    <3>1. i \in 1..Len(c) + Len(t) /\ i - Len(c) \in DOMAIN t
      BY <1>5, <2>3
    <3>2. both[i] = t[i - Len(c)]
      BY <1>4, <2>3, <3>1
    <3>3. \A j \in DOMAIN c : j < i
      BY <1>5, <2>3
    <3>4. \A j \in DOMAIN c : c[j] \notin K
      BY <1>6, <2>1, <3>3
    <3> QED BY <1>3, <2>1, <3>1, <3>2, <3>4
  <2> QED BY <2>2, <2>3
<1> QED BY <1>3, <1>6, <1>7, <1>8, <1>9 DEF c, t

\* A link the registrar found a view for leads to one, and one that leads to a view is
\* answered as promised.
LEMMA LinkLeads ==
  ASSUME NEW S, resources \in Seq(S), NEW l
  PROVE  /\ Resolved(l) # <<>> /\ Head(Resolved(l)).mime = "view" => LeadsToView(l)
         /\ LeadsToView(l) =>
              /\ Resolved(l) # <<>>
              /\ \/ Head(Resolved(l)).mime = "view"
                 \/ \E i \in DOMAIN Templates :
                      Templates[i].mime = "view" /\ l \in Templates[i].matches
<1>1. ASSUME Resolved(l) # <<>>, Head(Resolved(l)).mime = "view" PROVE LeadsToView(l)
  BY <1>1, ResolvedIs DEF LeadsToView, FirstView, SomeView
<1>2. ASSUME SomeView(l, Templates)
      PROVE  /\ Resolved(l) # <<>>
             /\ \E i \in DOMAIN Templates : Templates[i].mime = "view" /\ l \in Templates[i].matches
  BY <1>2, ResolvedIs DEF SomeView
<1>3. ASSUME FirstView(l, Concrete)
      PROVE  Resolved(l) # <<>> /\ Head(Resolved(l)).mime = "view"
  <2>1. PICK i \in DOMAIN Concrete :
          /\ l \in Concrete[i].matches /\ Concrete[i].mime = "view"
          /\ \A j \in DOMAIN Concrete : j < i => l \notin Concrete[j].matches
    BY <1>3 DEF FirstView
  <2>2. Resolved(l) # <<>>
    BY <2>1, ResolvedIs
  <2>3. PICK k \in DOMAIN Concrete :
          /\ l \in Concrete[k].matches /\ Head(Resolved(l)) = Concrete[k]
          /\ \A j \in DOMAIN Concrete : j < k => l \notin Concrete[j].matches
    BY <2>1, <2>2, ResolvedIs
  <2>4. Concrete \in Seq(S)
    BY PartsAre
  <2>5. i \in Int /\ k \in Int
    BY <2>4
  <2>6. i = k
    BY <2>1, <2>3, <2>5
  <2> QED BY <2>1, <2>2, <2>3, <2>6
<1> QED BY <1>1, <1>2, <1>3 DEF LeadsToView

-----------------------------------------------------------------------------
(* The invariant of the registries.                                        *)

\* No name and no address twice; every tool resolves, and its link leads to a view.
RegistryInv ==
  /\ tools \in Seq(Forms) /\ resources \in Seq(ResourceDecls) /\ prompts \in Seq(PromptDecls)
  /\ \A i, j \in DOMAIN tools : i < j => tools[i].name # tools[j].name
  /\ \A i, j \in DOMAIN resources : i < j => resources[i].uri # resources[j].uri
  /\ \A i, j \in DOMAIN prompts : i < j => prompts[i].name # prompts[j].name
  /\ \A i \in DOMAIN tools : ~Unresolvable(tools[i])
  /\ \A i \in DOMAIN tools : tools[i].link # NoLink => LeadsToView(tools[i].link)

\* What the new tools bring.
LEMMA ToolsKeep ==
  ASSUME RegistryInv, ToolsGrow
  PROVE  RegistryInv'
<1>1. PICK new \in Seq(Forms) : tools' = tools \o new /\ LetIn(new)
  BY DEF ToolsGrow
<1>2. UNCHANGED <<setting, resources, prompts>>
  BY DEF ToolsGrow
<1>3. /\ tools \in Seq(Forms) /\ resources \in Seq(ResourceDecls) /\ prompts \in Seq(PromptDecls)
      /\ \A i, j \in DOMAIN tools : i < j => tools[i].name # tools[j].name
      /\ \A i \in DOMAIN tools : ~Unresolvable(tools[i])
      /\ \A i \in DOMAIN tools : tools[i].link # NoLink => LeadsToView(tools[i].link)
  BY DEF RegistryInv
<1> DEFINE all == tools \o new
           l == Len(tools)
<1>4. /\ all \in Seq(Forms) /\ Len(all) = l + Len(new)
      /\ \A i \in 1..l + Len(new) : all[i] = IF i <= l THEN tools[i] ELSE new[i - l]
  BY <1>3, ConcatProperties
<1> HIDE DEF all
<1>5. /\ l \in Nat /\ Len(new) \in Nat /\ DOMAIN tools = 1..l /\ DOMAIN new = 1..Len(new)
      /\ DOMAIN all = 1..l + Len(new)
  BY <1>3, <1>4
<1> HIDE DEF l
<1>6. \A i \in DOMAIN tools : i \in DOMAIN all /\ all[i] = tools[i]
  BY <1>4, <1>5
<1>7. ASSUME NEW i \in DOMAIN all, i \notin DOMAIN tools
      PROVE  i - l \in DOMAIN new /\ all[i] = new[i - l]
  BY <1>4, <1>5, <1>7
<1>8. ASSUME NEW i \in DOMAIN all, i \notin DOMAIN tools
      PROVE  /\ Linked(all[i]) /\ ~Unresolvable(all[i])
             /\ \A j \in DOMAIN all : j < i => all[j].name # all[i].name
  <2> DEFINE k == i - l
             before == SubSeq(new, 1, k - 1)
             held == tools \o before
  <2>1. k \in DOMAIN new /\ all[i] = new[k]
    BY <1>7, <1>8
  <2>2. Sound(new[k], held)
    BY <1>1, <2>1 DEF LetIn
  <2>3. k - 1 \in Int /\ k \in 1..Len(new) /\ k + l = i /\ k - 1 \in Nat
    BY <1>5, <2>1
  <2> HIDE DEF k
  <2>4. \A j \in 1..k - 1 : new[j] \in Forms
    BY <1>5, <2>3
  <2>5. /\ before \in Seq(Forms) /\ Len(before) = IF 1 <= k - 1 THEN k - 1 - 1 + 1 ELSE 0
        /\ \A j \in 1..k - 1 - 1 + 1 : before[j] = new[1 + j - 1]
    BY <2>3, <2>4, SubSeqProperties
  <2> HIDE DEF before
  <2>6. Len(before) = k - 1 /\ \A j \in 1..k - 1 : before[j] = new[j]
    BY <2>3, <2>5
  <2>7. /\ Len(held) = Len(tools) + Len(before)
        /\ held \in Seq(Forms)
        /\ \A j \in 1..Len(tools) + Len(before) :
             held[j] = IF j <= Len(tools) THEN tools[j] ELSE before[j - Len(tools)]
    BY <1>3, <2>5, ConcatProperties
  <2> HIDE DEF held
  <2>8. /\ DOMAIN held = 1..l + (k - 1)
        /\ \A j \in 1..l + (k - 1) : held[j] = IF j <= l THEN tools[j] ELSE before[j - l]
    BY <2>6, <2>7, SMTT(60) DEF l
  <2>9. ASSUME NEW j \in DOMAIN all, j < i PROVE j \in DOMAIN held /\ held[j] = all[j]
    <3>1. j \in 1..l + Len(new) /\ j \in 1..l + (k - 1)
      BY <1>5, <2>3, <2>9
    <3>2. ~(j <= l) => j - l \in 1..k - 1
      BY <1>5, <2>3, <3>1
    <3> QED BY <1>4, <2>6, <2>8, <3>1, <3>2
  <2> QED BY <2>1, <2>2, <2>9 DEF Sound
<1>9. \A i, j \in DOMAIN all : i < j => all[i].name # all[j].name
  <2> SUFFICES ASSUME NEW i \in DOMAIN all, NEW j \in DOMAIN all, i < j
               PROVE  all[i].name # all[j].name
    OBVIOUS
  <2>1. CASE j \in DOMAIN tools
    <3>1. i \in DOMAIN tools
      BY <1>5, <2>1
    <3> QED BY <1>3, <1>6, <2>1, <3>1
  <2>2. CASE j \notin DOMAIN tools
    BY <1>8, <2>2
  <2> QED BY <2>1, <2>2
<1>10. \A i \in DOMAIN all : ~Unresolvable(all[i])
  BY <1>3, <1>6, <1>8
<1>11. \A i \in DOMAIN all : all[i].link # NoLink => LeadsToView(all[i].link)
  BY <1>3, <1>6, <1>8, LinkLeads DEF Linked
<1>12. tools' = all
  BY <1>1 DEF all
<1>13. (\A i \in DOMAIN tools : ~Unresolvable(tools[i]))'
  BY <1>2, <1>10, <1>12 DEF Unresolvable, AdvertisesSchema, EmitsContent, Effective
<1>14. (\A i \in DOMAIN tools : tools[i].link # NoLink => LeadsToView(tools[i].link))'
  BY <1>2, <1>11, <1>12 DEF LeadsToView, Concrete, Templates
<1>15. (\A i, j \in DOMAIN tools : i < j => tools[i].name # tools[j].name)'
  BY <1>9, <1>12
<1>16. tools' \in Seq(Forms)
  BY <1>4, <1>12
<1>17. /\ (resources \in Seq(ResourceDecls) /\ prompts \in Seq(PromptDecls))'
       /\ (\A i, j \in DOMAIN resources : i < j => resources[i].uri # resources[j].uri)'
       /\ (\A i, j \in DOMAIN prompts : i < j => prompts[i].name # prompts[j].name)'
  BY <1>2 DEF RegistryInv
<1> QED BY <1>13, <1>14, <1>15, <1>16, <1>17 DEF RegistryInv

\* What one more resource brings: a concrete one may come before a template the link led
\* to, and the view is there all the same.
LEMMA ResourcesKeep ==
  ASSUME RegistryInv, ResourcesGrow
  PROVE  RegistryInv'
<1>1. PICK b \in ResourceDecls : resources' = Append(resources, b) /\ NewUri(b)
  BY DEF ResourcesGrow
<1>2. UNCHANGED <<setting, tools, prompts>>
  BY DEF ResourcesGrow
<1>3. resources \in Seq(ResourceDecls)
  BY DEF RegistryInv
<1>4. /\ resources' \in Seq(ResourceDecls)
      /\ DOMAIN resources' = DOMAIN resources \cup {Len(resources) + 1}
      /\ \A i \in DOMAIN resources : resources'[i] = resources[i]
      /\ resources'[Len(resources) + 1] = b
      /\ \A i \in DOMAIN resources : ~(Len(resources) + 1 < i)
      /\ ~(Len(resources) + 1 < Len(resources) + 1)
  BY <1>1, <1>3, AppendHolds
<1>5. (\A i, j \in DOMAIN resources : i < j => resources[i].uri # resources[j].uri)'
  <2>1. \A i, j \in DOMAIN resources : i < j => resources[i].uri # resources[j].uri
    BY DEF RegistryInv
  <2>2. \A i \in DOMAIN resources : resources[i].uri # b.uri
    BY <1>1 DEF NewUri
  <2> QED BY <1>4, <2>1, <2>2
<1>6. ASSUME NEW l, LeadsToView(l) PROVE LeadsToView(l)'
  <2> DEFINE c == ConcreteIn(resources)
             t == TemplatesIn(resources)
             d == ConcreteIn(Append(resources, b))
             u == TemplatesIn(Append(resources, b))
  <2>1. Concrete = c /\ Templates = t
    BY DEF Concrete, Templates, ConcreteIn, TemplatesIn
  <2>2. Concrete' = d /\ Templates' = u
    BY <1>1 DEF Concrete, Templates, ConcreteIn, TemplatesIn
  <2>3. c \in Seq(ResourceDecls) /\ t \in Seq(ResourceDecls)
    BY <1>3, <2>1, PartsAre
  <2>4. \/ d = Append(c, b) /\ u = t
        \/ d = c /\ u = Append(t, b)
    BY <1>3, ResourceComesLast
  <2>5. FirstView(l, c) \/ SomeView(l, t)
    BY <1>6, <2>1 DEF LeadsToView
  <2> HIDE DEF c, t, d, u
  <2>6. FirstView(l, d) \/ SomeView(l, u)
    BY <2>3, <2>4, <2>5, ViewStays
  <2>7. LeadsToView(l)' <=> FirstView(l, Concrete') \/ SomeView(l, Templates')
    BY DEF LeadsToView, FirstView, SomeView
  <2> QED BY <2>2, <2>6, <2>7
<1>7. (\A i \in DOMAIN tools : ~Unresolvable(tools[i]))'
  BY <1>2 DEF RegistryInv, Unresolvable, AdvertisesSchema, EmitsContent, Effective
<1>8. (\A i \in DOMAIN tools : tools[i].link # NoLink => LeadsToView(tools[i].link))'
  <2> SUFFICES ASSUME NEW i \in DOMAIN tools, tools[i].link # NoLink
               PROVE  LeadsToView(tools[i].link)'
    BY <1>2
  <2>1. PICK l : l = tools[i].link
    OBVIOUS
  <2>2. LeadsToView(l)
    BY <2>1 DEF RegistryInv
  <2>3. LeadsToView(l)'
    BY <1>6, <2>2
  <2>4. l = tools'[i].link
    BY <1>2, <2>1
  <2> QED BY <2>3, <2>4 DEF LeadsToView, FirstView, SomeView, Concrete, Templates
<1>9. /\ (tools \in Seq(Forms) /\ prompts \in Seq(PromptDecls))'
      /\ (\A i, j \in DOMAIN tools : i < j => tools[i].name # tools[j].name)'
      /\ (\A i, j \in DOMAIN prompts : i < j => prompts[i].name # prompts[j].name)'
  BY <1>2 DEF RegistryInv
<1> QED BY <1>4, <1>5, <1>7, <1>8, <1>9 DEF RegistryInv

\* What leaves the tools and the resources as they are, and what one more prompt brings.
LEMMA PromptsKeep ==
  ASSUME RegistryInv, PromptsGrow
  PROVE  RegistryInv'
<1>1. PICK b \in PromptDecls : /\ prompts' = Append(prompts, b)
                               /\ \A i \in DOMAIN prompts : prompts[i].name # b.name
  BY DEF PromptsGrow
<1>2. UNCHANGED <<setting, tools, resources>>
  BY DEF PromptsGrow
<1>3. prompts \in Seq(PromptDecls)
  BY DEF RegistryInv
<1>4. /\ prompts' \in Seq(PromptDecls)
      /\ DOMAIN prompts' = DOMAIN prompts \cup {Len(prompts) + 1}
      /\ \A i \in DOMAIN prompts : prompts'[i] = prompts[i]
      /\ prompts'[Len(prompts) + 1] = b
      /\ \A i \in DOMAIN prompts : ~(Len(prompts) + 1 < i)
      /\ ~(Len(prompts) + 1 < Len(prompts) + 1)
  BY <1>1, <1>3, AppendHolds
<1>5. (\A i, j \in DOMAIN prompts : i < j => prompts[i].name # prompts[j].name)'
  <2>1. \A i, j \in DOMAIN prompts : i < j => prompts[i].name # prompts[j].name
    BY DEF RegistryInv
  <2> QED BY <1>1, <1>4, <2>1
<1>6. (\A i \in DOMAIN tools : ~Unresolvable(tools[i]))'
  BY <1>2 DEF RegistryInv, Unresolvable, AdvertisesSchema, EmitsContent, Effective
<1>7. (\A i \in DOMAIN tools : tools[i].link # NoLink => LeadsToView(tools[i].link))'
  BY <1>2 DEF RegistryInv, LeadsToView, Concrete, Templates
<1>8. /\ (tools \in Seq(Forms) /\ resources \in Seq(ResourceDecls))'
      /\ (\A i, j \in DOMAIN tools : i < j => tools[i].name # tools[j].name)'
      /\ (\A i, j \in DOMAIN resources : i < j => resources[i].uri # resources[j].uri)'
  BY <1>2 DEF RegistryInv
<1> QED BY <1>4, <1>5, <1>6, <1>7, <1>8 DEF RegistryInv

\* What touches no registry.
LEMMA RegistryRests ==
  ASSUME RegistryInv, UNCHANGED registryVars
  PROVE  RegistryInv'
<1>1. UNCHANGED <<setting, tools, resources, prompts>>
  BY DEF registryVars
<1>2. (\A i \in DOMAIN tools : ~Unresolvable(tools[i]))'
  BY <1>1 DEF RegistryInv, Unresolvable, AdvertisesSchema, EmitsContent, Effective
<1>3. (\A i \in DOMAIN tools : tools[i].link # NoLink => LeadsToView(tools[i].link))'
  BY <1>1 DEF RegistryInv, LeadsToView, Concrete, Templates
<1> QED BY <1>1, <1>2, <1>3 DEF RegistryInv

\* A step registers something or touches no registry.
LEMMA CatalogueSteps ==
  ASSUME RegistryInv, [CatalogueNext]_catalogueVars
  PROVE  \/ (ToolsGrow \/ ResourcesGrow \/ PromptsGrow) /\ UNCHANGED <<lets, met, walk, called, flips>>
         \/ UNCHANGED registryVars
<1>1. CASE Register
  BY <1>1, RegistryGrows DEF Register, RegistryInv
<1>2. ASSUME NEW of, NEW p, NEW unavailable, StartWalk(of, p, unavailable)
      PROVE  UNCHANGED registryVars
  BY <1>2 DEF StartWalk
<1>3. CASE FollowCursor
  BY <1>3 DEF FollowCursor
<1>4. CASE Flip
  BY <1>4 DEF Flip
<1>5. CASE UNCHANGED catalogueVars
  BY <1>5 DEF catalogueVars
<1> QED BY <1>1, <1>2, <1>3, <1>4, <1>5 DEF CatalogueNext

\* The registries keep what registration checked, whatever registers later.
LEMMA RegistriesHold == CatalogueSpec => []RegistryInv
<1>1. CatalogueInit => RegistryInv
  BY DEF CatalogueInit, RegistryInit, RegistryInv
<1>2. RegistryInv /\ [CatalogueNext]_catalogueVars => RegistryInv'
  BY CatalogueSteps, ToolsKeep, ResourcesKeep, PromptsKeep, RegistryRests
<1> QED BY <1>1, <1>2, PTL DEF CatalogueSpec

\* RegistrationHolds, for any declarations, registered one by one or in bulk: no listing
\* raises, and the link of a tool is answered with a view or goes over a template that is one.
THEOREM RegistrationKeeps == CatalogueSpec => []RegistrationHolds
<1>1. RegistryInv => ListingNeverRaises
  BY DEF RegistryInv, ListingNeverRaises, TheTools
<1>2. RegistryInv => LinksResolve
  <2> SUFFICES ASSUME RegistryInv, NEW t \in TheTools, t.link # NoLink
               PROVE  /\ Resolved(t.link) # <<>>
                      /\ \/ Head(Resolved(t.link)).mime = "view"
                         \/ \E i \in DOMAIN Templates :
                              Templates[i].mime = "view" /\ t.link \in Templates[i].matches
    BY DEF LinksResolve
  <2>1. LeadsToView(t.link)
    BY DEF RegistryInv, TheTools
  <2>2. resources \in Seq(ResourceDecls)
    BY DEF RegistryInv
  <2> QED BY <2>1, <2>2, LinkLeads
<1> QED BY <1>1, <1>2, RegistriesHold, PTL DEF RegistrationHolds

-----------------------------------------------------------------------------
(* Listings.                                                               *)

Offers == Forms \cup ResourceDecls \cup PromptDecls

\* What a listing is made from, and the listing.
LEMMA ListingIs ==
  ASSUME RegistryInv, NEW of \in {"tools", "resources", "templates", "prompts"}, NEW p,
         NEW unavailable
  PROVE  /\ Bindings(of) \in Seq(Offers) /\ Visible(of, p) \in Seq(Offers)
         /\ Listing(of, p, unavailable) \in Seq(Offers)
         /\ ToSet(Visible(of, p))
              = {b \in ToSet(Bindings(of)) : setting.filter => Listable(p, b)}
         /\ ToSet(Listing(of, p, unavailable))
              = {b \in ToSet(Visible(of, p)) : of = "tools" /\ ~unavailable => ~Unmet(p, b)}
<1>1. Bindings(of) \in Seq(Offers)
  <2>1. tools \in Seq(Offers) /\ prompts \in Seq(Offers) /\ resources \in Seq(Offers)
    BY DEF RegistryInv, Offers
  <2>2. Concrete \in Seq(Offers) /\ Templates \in Seq(Offers)
    BY <2>1, PartsAre
  <2> QED BY <2>1, <2>2 DEF Bindings
<1> DEFINE all == Bindings(of)
           K == {b \in ToSet(all) : setting.filter => Listable(p, b)}
           v == Visible(of, p)
           L == {b \in ToSet(v) : of = "tools" /\ ~unavailable => ~Unmet(p, b)}
<1>2. v = Selected(all, K) /\ Listing(of, p, unavailable) = Selected(v, L)
  BY DEF Visible, Listing
<1>3. K \subseteq ToSet(all) /\ L \subseteq ToSet(v)
  OBVIOUS
<1> HIDE DEF all, K, v, L
<1>4. ToSet(all) \cap K = K /\ ToSet(v) \cap L = L
  BY <1>3
<1>5. v \in Seq(Offers) /\ ToSet(v) = K
  <2>1. all \in Seq(Offers)
    BY <1>1 DEF all
  <2>2. v \in Seq(Offers) /\ ToSet(v) = ToSet(all) \cap K
    BY <1>2, <2>1, SelectedHolds
  <2> QED BY <1>4, <2>2
<1>6. Selected(v, L) \in Seq(Offers) /\ ToSet(Selected(v, L)) = L
  <2>1. Selected(v, L) \in Seq(Offers) /\ ToSet(Selected(v, L)) = ToSet(v) \cap L
    BY <1>5, SelectedHolds
  <2> QED BY <1>4, <2>1
<1> QED BY <1>1, <1>2, <1>5, <1>6 DEF all, K, v, L

\* A listing that is public for one caller is the whole registry, for everyone.
LEMMA PublicIsAll ==
  ASSUME RegistryInv, NEW of \in {"tools", "resources", "templates", "prompts"},
         NEW unavailable \in BOOLEAN, NEW p, ~IsPrivate(of, p, unavailable), NEW q
  PROVE  LET v == Selected(Bindings(of), ToSet(Bindings(of)))
         IN  Listing(of, q, unavailable) = Selected(v, ToSet(v))
<1>1. ~setting.filter
  BY DEF IsPrivate
<1> DEFINE all == Bindings(of)
           v == Selected(all, ToSet(all))
<1>2. Visible(of, p) = v /\ Visible(of, q) = v
  <2>1. \A r : {b \in ToSet(all) : setting.filter => Listable(r, b)} = ToSet(all)
    BY <1>1
  <2> HIDE DEF all
  <2> QED BY <2>1 DEF Visible, all
<1>3. of = "tools" /\ ~unavailable => \A t \in ToSet(v) : ~Unmet(q, t)
  BY <1>2 DEF IsPrivate, Unmet
<1>4. Listing(of, q, unavailable) = Selected(v, ToSet(v))
  <2>1. {b \in ToSet(v) : of = "tools" /\ ~unavailable => ~Unmet(q, b)} = ToSet(v)
    BY <1>3
  <2>2. Listing(of, q, unavailable)
          = Selected(v, {b \in ToSet(v) : of = "tools" /\ ~unavailable => ~Unmet(q, b)})
    BY <1>2 DEF Listing
  <2> QED BY <2>1, <2>2
<1> QED BY <1>4

\* What OfferedIsListed says of one caller.
LEMMA OfferedOnce ==
  ASSUME RegistryInv, NEW p
  PROVE  /\ ToSet(Listing("tools", p, TRUE)) \ Unavailable(p) = ToSet(Listing("tools", p, FALSE))
         /\ AsyncUnavailable(p) = Unavailable(p)
<1>1. "tools" \in {"tools", "resources", "templates", "prompts"}
  OBVIOUS
<1>2. \A u : ToSet(Listing("tools", p, u))
               = {b \in ToSet(Visible("tools", p)) : "tools" = "tools" /\ ~u => ~Unmet(p, b)}
  BY <1>1, ListingIs
<1>3. ToSet(Listing("tools", p, TRUE)) = ToSet(Visible("tools", p))
  BY <1>2
<1>4. ToSet(Listing("tools", p, FALSE)) = {b \in ToSet(Visible("tools", p)) : ~Unmet(p, b)}
  BY <1>2
<1>5. ToSet(Visible("tools", p)) \subseteq TheTools
  <2>1. ToSet(Visible("tools", p)) \subseteq ToSet(Bindings("tools"))
    BY <1>1, ListingIs
  <2> QED BY <2>1 DEF Bindings, ToSet, TheTools
<1>6. ASSUME \A t \in TheTools : Gates(t) = {} PROVE Unavailable(p) = {}
  BY <1>5, <1>6 DEF Unavailable, Unmet
<1> QED BY <1>3, <1>4, <1>6 DEF Unavailable, AsyncUnavailable

\* ListedAsIs, for any declarations, grants and conditions: a listing marked public is the
\* same for every caller, and what is taken from a full one leaves a plain one.
THEOREM ListingsSayForWhom == CatalogueSpec => []ListedAsIs
<1>1. RegistryInv => PublicIsForEveryone
  BY PublicIsAll DEF PublicIsForEveryone
<1>2. RegistryInv => OfferedIsListed
  BY OfferedOnce DEF OfferedIsListed
<1> QED BY <1>1, <1>2, RegistriesHold, PTL DEF ListedAsIs

-----------------------------------------------------------------------------
(* Keys in their places.                                                   *)

\* Those of N that come before k, and how many they are.
Ahead(pos, N, k) == {x \in N : pos[x] < pos[k]}
Rank(pos, N, k) == Cardinality(Ahead(pos, N, k))

\* In a sequence that keeps the places, what comes before a key is what is ahead of it.
LEMMA RankIs ==
  ASSUME NEW K, NEW pos \in [K -> Nat], NEW ks \in Seq(K),
         \A i, j \in DOMAIN ks : i < j => pos[ks[i]] < pos[ks[j]], NEW i \in DOMAIN ks
  PROVE  Rank(pos, ToSet(ks), ks[i]) = i - 1
<1> DEFINE A == Ahead(pos, ToSet(ks), ks[i])
           f == [j \in 1..i - 1 |-> ks[j]]
<1>1. DOMAIN ks = 1..Len(ks) /\ Len(ks) \in Nat /\ i \in 1..Len(ks)
  OBVIOUS
<1>2. \A j \in 1..i - 1 : j \in DOMAIN ks /\ j < i
  BY <1>1
<1>3. \A j \in DOMAIN ks : ks[j] \in K /\ pos[ks[j]] \in Nat
  OBVIOUS
<1>4. \A j \in DOMAIN ks : j \in 1..i - 1 \/ j = i \/ i < j
  BY <1>1
<1>5. f \in [1..i - 1 -> A]
  BY <1>2 DEF ToSet, Ahead
<1>6. \A a, b \in 1..i - 1 : f[a] = f[b] => a = b
  <2> SUFFICES ASSUME NEW a \in 1..i - 1, NEW b \in 1..i - 1, ks[a] = ks[b] PROVE a = b
    OBVIOUS
  <2>1. ~(a < b) /\ ~(b < a)
    BY <1>2, <1>3
  <2> QED BY <2>1
<1>7. \A x \in A : \E j \in 1..i - 1 : f[j] = x
  <2> SUFFICES ASSUME NEW x \in A PROVE \E j \in 1..i - 1 : ks[j] = x
    OBVIOUS
  <2>1. PICK j \in DOMAIN ks : x = ks[j]
    BY DEF Ahead, ToSet
  <2>2. pos[ks[j]] < pos[ks[i]]
    BY <2>1 DEF Ahead
  <2>3. j # i /\ ~(i < j)
    BY <1>3, <2>2
  <2> QED BY <1>4, <2>1, <2>3
<1> HIDE DEF A, f
<1>8. f \in Bijection(1..i - 1, A)
  BY <1>5, <1>6, <1>7 DEF Bijection, Injection, IsInjective, Surjection
<1>9. ExistsBijection(1..i - 1, A)
  BY <1>8 DEF ExistsBijection
<1>10. i - 1 \in Int /\ i - 1 \in Nat
  BY <1>1
<1>11. IsFiniteSet(1..i - 1) /\ Cardinality(1..i - 1) = i - 1
  <2> DEFINE n == i - 1
  <2>1. IsFiniteSet(1..n) /\ Cardinality(1..n) = IF 1 > n THEN 0 ELSE n - 1 + 1
    <3>1. n \in Int /\ 1 \in Int
      BY <1>10
    <3> HIDE DEF n
    <3> QED BY <3>1, FS_Interval
  <2>2. (IF 1 > n THEN 0 ELSE n - 1 + 1) = n
    BY <1>10
  <2> QED BY <2>1, <2>2
<1>12. Cardinality(A) = i - 1
  BY <1>9, <1>11, FS_Bijection
<1> QED BY <1>12 DEF A, Rank

\* Where no key ahead of it is missing, a key's rank is no less.
LEMMA RankGrows ==
  ASSUME NEW K, IsFiniteSet(K), NEW pos \in [K -> Nat], NEW M \in SUBSET K, NEW N \in SUBSET K,
         NEW k, \A x \in M : pos[x] < pos[k] => x \in N
  PROVE  Rank(pos, M, k) \in Nat /\ Rank(pos, N, k) \in Nat /\ Rank(pos, M, k) <= Rank(pos, N, k)
<1>1. Ahead(pos, M, k) \subseteq Ahead(pos, N, k) /\ Ahead(pos, N, k) \subseteq K
  BY DEF Ahead
<1>2. IsFiniteSet(Ahead(pos, N, k))
  BY <1>1, FS_Subset
<1>3. /\ IsFiniteSet(Ahead(pos, M, k))
      /\ Cardinality(Ahead(pos, M, k)) <= Cardinality(Ahead(pos, N, k))
  BY <1>1, <1>2, FS_Subset
<1> QED BY <1>2, <1>3, FS_CardinalityType DEF Rank

-----------------------------------------------------------------------------
(* A walk, page by page.                                                   *)

\* Of the keys listed all along, those not delivered yet are still ahead of the cursor, and
\* those delivered are behind it, but for what went or came before them.
Goes(pos, cursor, got, last, constant, dropped, back) ==
  /\ \A k \in constant \ ToSet(got) :
       \/ \E d \in dropped : pos[d] < pos[k]
       \/ cursor # Done /\ cursor <= Rank(pos, last, k)
  /\ \A k \in ToSet(got) :
       \/ \E b \in back : pos[b] < pos[k]
       \/ cursor = Done \/ Rank(pos, last, k) < cursor
  /\ \A i, j \in DOMAIN got : i < j /\ got[i] = got[j] => \E b \in back : pos[b] < pos[got[i]]

\* A place past the first of two sequences is a place in the second.
LEMMA PastTheEnd ==
  ASSUME NEW g \in Nat, NEW l \in Nat, NEW i \in 1..g + l, ~(i <= g)
  PROVE  i - g \in 1..l
OBVIOUS

\* One page more, of the listing as it is now.
LEMMA PageKeeps ==
  ASSUME NEW K, IsFiniteSet(K), NEW pos \in [K -> Nat],
         NEW ks \in Seq(K), \A i, j \in DOMAIN ks : i < j => pos[ks[i]] < pos[ks[j]],
         NEW got \in Seq(K), NEW more \in Seq(K), NEW last \in SUBSET K,
         NEW constant \in SUBSET K, NEW dropped \in SUBSET K, NEW back \in SUBSET K,
         NEW c \in Nat, Goes(pos, c, got, last, constant, dropped, back),
         NEW l \in Nat, Len(more) = l,
         \A j \in 1..l : c + j \in 1..Len(ks) /\ more[j] = ks[c + j],
         NEW next, next = IF c + l < Len(ks) THEN c + l ELSE Done
  PROVE  LET N == ToSet(ks)
         IN  Goes(pos, next, got \o more, N, constant \cap N, dropped \cup (last \ N),
                  back \cup (N \ last))
<1> DEFINE N == ToSet(ks)
           n == Len(ks)
           all == got \o more
           gone == dropped \cup (last \ N)
           come == back \cup (N \ last)
<1>1. DOMAIN ks = 1..n /\ n \in Nat /\ \A i \in 1..n : ks[i] \in K
  OBVIOUS
<1>2. N = {ks[i] : i \in 1..n} /\ N \subseteq K
  BY <1>1 DEF ToSet
<1>3. \A i \in 1..n : Rank(pos, N, ks[i]) = i - 1
  BY <1>1, RankIs
<1>4. /\ \A k \in constant \ ToSet(got) :
           (\E d \in dropped : pos[d] < pos[k]) \/ (c # Done /\ c <= Rank(pos, last, k))
      /\ \A k \in ToSet(got) :
           (\E b \in back : pos[b] < pos[k]) \/ c = Done \/ Rank(pos, last, k) < c
      /\ \A i, j \in DOMAIN got : i < j /\ got[i] = got[j] => \E b \in back : pos[b] < pos[got[i]]
  BY DEF Goes
<1>5. c # Done
  BY DEF Done
<1>6. /\ all \in Seq(K) /\ Len(all) = Len(got) + l
      /\ \A i \in 1..Len(got) + l : all[i] = IF i <= Len(got) THEN got[i] ELSE more[i - Len(got)]
  BY ConcatProperties
<1>7. /\ Len(got) \in Nat /\ DOMAIN got = 1..Len(got) /\ DOMAIN all = 1..Len(got) + l
      /\ DOMAIN more = 1..l
  BY <1>6
<1> HIDE DEF N, n, all
<1>8. ASSUME NEW i \in DOMAIN all
      PROVE  \/ i \in DOMAIN got /\ all[i] = got[i]
             \/ /\ ~(i <= Len(got)) /\ i - Len(got) \in 1..l /\ all[i] = more[i - Len(got)]
  <2>1. i \in 1..Len(got) + l
    BY <1>7
  <2>2. i <= Len(got) => i \in DOMAIN got
    BY <1>7, <2>1
  <2>3. ~(i <= Len(got)) => i - Len(got) \in 1..l
    <3>1. PICK g \in Nat : g = Len(got)
      BY <1>7
    <3>2. i \in 1..g + l
      BY <2>1, <3>1
    <3>3. ~(i <= g) => i - g \in 1..l
      BY <3>2, PastTheEnd
    <3> QED BY <3>1, <3>3
  <2>4. all[i] = IF i <= Len(got) THEN got[i] ELSE more[i - Len(got)]
    BY <1>6, <2>1
  <2>5. CASE i <= Len(got)
    BY <2>2, <2>4, <2>5
  <2>6. CASE ~(i <= Len(got))
    BY <2>3, <2>4, <2>6
  <2> QED BY <2>5, <2>6
<1>9. ToSet(got) \subseteq ToSet(all) /\ \A j \in 1..l : more[j] \in ToSet(all)
  <2>1. ASSUME NEW i \in DOMAIN got PROVE got[i] \in ToSet(all)
    <3>1. i \in 1..Len(got) + l /\ i <= Len(got)
      BY <1>7
    <3> QED BY <1>6, <1>7, <3>1 DEF ToSet
  <2>2. ASSUME NEW j \in 1..l PROVE more[j] \in ToSet(all)
    <3> DEFINE i == j + Len(got)
    <3>1. i \in 1..Len(got) + l /\ ~(i <= Len(got)) /\ i - Len(got) = j
      BY <1>7
    <3> HIDE DEF i
    <3>2. all[i] = more[j] /\ i \in DOMAIN all
      BY <1>6, <1>7, <3>1
    <3> QED BY <3>2 DEF ToSet
  <2> QED BY <2>1, <2>2 DEF ToSet

\* What was behind the cursor is, unless something came back ahead of it.
<1>10. ASSUME NEW k \in ToSet(got), ~(\E b \in come : pos[b] < pos[k])
       PROVE  Rank(pos, N, k) \in Nat /\ Rank(pos, N, k) < c
  <2>1. \A x \in N : pos[x] < pos[k] => x \in last
    BY <1>10
  <2>2. /\ Rank(pos, N, k) \in Nat /\ Rank(pos, last, k) \in Nat
        /\ Rank(pos, N, k) <= Rank(pos, last, k)
    BY <1>2, <2>1, RankGrows
  <2>3. Rank(pos, last, k) < c
    BY <1>4, <1>5, <1>10
  <2> QED BY <2>2, <2>3

\* What is on this page is where it says.
<1>11. ASSUME NEW j \in 1..l PROVE Rank(pos, N, more[j]) = c + j - 1
  <2> DEFINE i == c + j
  <2>1. i \in 1..n /\ more[j] = ks[i]
    BY DEF n
  <2> HIDE DEF i
  <2>2. Rank(pos, N, more[j]) = i - 1
    BY <1>3, <2>1
  <2> QED BY <2>2 DEF i
<1>12. ASSUME NEW k \in (constant \cap N) \ ToSet(all), ~(\E d \in gone : pos[d] < pos[k])
       PROVE  next # Done /\ next <= Rank(pos, N, k)
  <2>1. k \in constant \ ToSet(got)
    BY <1>9, <1>12
  <2>2. c <= Rank(pos, last, k)
    BY <1>4, <1>12, <2>1
  <2>3. \A x \in last : pos[x] < pos[k] => x \in N
    BY <1>12
  <2>4. /\ Rank(pos, N, k) \in Nat /\ Rank(pos, last, k) \in Nat
        /\ Rank(pos, last, k) <= Rank(pos, N, k)
    BY <1>2, <2>3, RankGrows
  <2>5. PICK i \in 1..n : k = ks[i]
    BY <1>2
  <2>6. Rank(pos, N, k) = i - 1
    BY <1>3, <2>5
  <2>7. c <= i - 1
    BY <2>2, <2>4, <2>6
  <2>8. ~(i <= c + l)
    <3> SUFFICES ASSUME i <= c + l PROVE FALSE
      OBVIOUS
    <3> DEFINE j == i - c
    <3>1. j \in 1..l /\ c + j = i
      BY <1>1, <2>7 DEF n
    <3> HIDE DEF j
    <3>2. more[j] = k
      BY <2>5, <3>1
    <3> QED BY <1>9, <1>12, <3>1, <3>2
  <2>9. c + l < n /\ c + l <= i - 1
    BY <1>1, <2>8
  <2>10. next = c + l
    BY <2>9 DEF n
  <2> QED BY <2>6, <2>9, <2>10 DEF Done
<1>13. ASSUME NEW k \in ToSet(all), ~(\E b \in come : pos[b] < pos[k]), next # Done
       PROVE  Rank(pos, N, k) < next
  <2>1. next = c + l
    BY <1>13
  <2>2. PICK i \in DOMAIN all : k = all[i]
    BY DEF ToSet
  <2>3. CASE i \in DOMAIN got /\ all[i] = got[i]
    <3>1. k \in ToSet(got)
      BY <2>2, <2>3 DEF ToSet
    <3> QED BY <1>10, <1>13, <2>1, <3>1
  <2>4. CASE ~(i <= Len(got)) /\ i - Len(got) \in 1..l /\ all[i] = more[i - Len(got)]
    <3> DEFINE j == i - Len(got)
    <3>1. j \in 1..l /\ k = more[j]
      BY <2>2, <2>4
    <3> HIDE DEF j
    <3>2. Rank(pos, N, k) = c + j - 1
      BY <1>11, <3>1
    <3>3. c + j - 1 < c + l
      BY <3>1
    <3> QED BY <2>1, <3>2, <3>3
  <2> QED BY <1>8, <2>3, <2>4
<1>14. ASSUME NEW i \in DOMAIN all, NEW j \in DOMAIN all, i < j, all[i] = all[j],
              ~(\E b \in come : pos[b] < pos[all[i]])
       PROVE  FALSE
  <2>1. CASE i \in DOMAIN got /\ all[i] = got[i]
    <3>1. all[i] \in ToSet(got)
      BY <2>1 DEF ToSet
    <3>2. Rank(pos, N, all[i]) \in Nat /\ Rank(pos, N, all[i]) < c
      BY <1>10, <1>14, <3>1
    <3>3. CASE j \in DOMAIN got /\ all[j] = got[j]
      BY <1>4, <1>14, <2>1, <3>3
    <3>4. CASE ~(j <= Len(got)) /\ j - Len(got) \in 1..l /\ all[j] = more[j - Len(got)]
      <4> DEFINE m == j - Len(got)
      <4>1. m \in 1..l /\ all[j] = more[m]
        BY <3>4
      <4> HIDE DEF m
      <4>2. Rank(pos, N, all[j]) = c + m - 1
        BY <1>11, <4>1
      <4>3. c + m - 1 < c
        BY <1>14, <3>2, <4>2
      <4> QED BY <4>1, <4>3
    <3> QED BY <1>8, <3>3, <3>4
  <2>2. CASE ~(i <= Len(got)) /\ i - Len(got) \in 1..l /\ all[i] = more[i - Len(got)]
    <3> DEFINE m == i - Len(got)
               q == j - Len(got)
    <3>1. ~(j <= Len(got)) /\ j \in Int /\ i \in Int
      BY <1>7, <1>14, <2>2
    <3>2. j \notin DOMAIN got
      BY <1>7, <3>1
    <3>3. m \in 1..l /\ all[i] = more[m] /\ q \in 1..l /\ all[j] = more[q]
      BY <1>8, <2>2, <3>2
    <3>4. m < q
      BY <1>7, <1>14, <3>1
    <3> HIDE DEF m, q
    <3>5. Rank(pos, N, all[i]) = c + m - 1 /\ Rank(pos, N, all[j]) = c + q - 1
      BY <1>11, <3>3
    <3>6. c + m - 1 = c + q - 1
      BY <1>14, <3>5
    <3> QED BY <3>3, <3>4, <3>6
  <2> QED BY <1>8, <2>1, <2>2
<1>15. Goes(pos, next, all, N, constant \cap N, gone, come)
  <2> HIDE DEF gone, come
  <2> QED BY <1>12, <1>13, <1>14 DEF Goes
<1> QED BY <1>15 DEF N, all

-----------------------------------------------------------------------------
(* The places of the keys.                                                 *)

Listed == {"tools", "resources", "templates", "prompts"}

Distinct(of, B) == \A i, j \in DOMAIN B : Key(of, B[i]) = Key(of, B[j]) => i = j

\* What is picked from distinct ones is distinct.
LEMMA PickedDistinct ==
  ASSUME NEW S, NEW s \in Seq(S), NEW K, NEW of, Distinct(of, s)
  PROVE  Distinct(of, Selected(s, K))
<1> DEFINE r == Selected(s, K)
<1>1. r \in Seq(S) /\ \E f : Picks(f, s, K, r)
  BY SelectedPicks
<1>2. PICK f : Picks(f, s, K, r)
  BY <1>1
<1> HIDE DEF r
<1>3. /\ DOMAIN r = 1..Len(r) /\ f \in [1..Len(r) -> DOMAIN s]
      /\ \A j \in 1..Len(r) : r[j] = s[f[j]]
      /\ \A i, j \in 1..Len(r) : i < j => f[i] < f[j]
  BY <1>1, <1>2 DEF Picks
<1>4. ASSUME NEW i \in DOMAIN r, NEW j \in DOMAIN r, Key(of, r[i]) = Key(of, r[j]) PROVE i = j
  <2>1. f[i] = f[j]
    BY <1>3, <1>4 DEF Distinct
  <2>2. f[i] \in Int /\ f[j] \in Int /\ i \in Int /\ j \in Int
    BY <1>3
  <2>3. ~(i < j) /\ ~(j < i)
    BY <1>3, <2>1, <2>2
  <2> QED BY <2>2, <2>3
<1> QED BY <1>4 DEF Distinct, r

\* No listing has two entries under one key.
UniqueKeys == \A of \in Listed : Bindings(of) \in Seq(Offers) /\ Distinct(of, Bindings(of))

\* Names and URIs are unique in every listing.
LEMMA KeysAreUnique == RegistryInv => UniqueKeys
<1> SUFFICES ASSUME RegistryInv, NEW of \in Listed
             PROVE  Bindings(of) \in Seq(Offers) /\ Distinct(of, Bindings(of))
  BY DEF UniqueKeys
<1>1. Bindings(of) \in Seq(Offers)
  BY ListingIs DEF Listed
<1>2. CASE of = "tools"
  <2>1. \A i, j \in DOMAIN tools : i < j => tools[i].name # tools[j].name
    BY DEF RegistryInv
  <2>2. DOMAIN tools \subseteq Int
    BY DEF RegistryInv
  <2>3. \A i, j \in DOMAIN tools : tools[i].name = tools[j].name => i = j
    BY <2>1, <2>2
  <2>4. Bindings(of) = tools /\ \A x : Key(of, x) = x.name
    BY <1>2 DEF Bindings, Key
  <2> QED BY <1>1, <2>3, <2>4 DEF Distinct
<1>3. CASE of = "prompts"
  <2>1. \A i, j \in DOMAIN prompts : i < j => prompts[i].name # prompts[j].name
    BY DEF RegistryInv
  <2>2. DOMAIN prompts \subseteq Int
    BY DEF RegistryInv
  <2>3. \A i, j \in DOMAIN prompts : prompts[i].name = prompts[j].name => i = j
    BY <2>1, <2>2
  <2>4. Bindings(of) = prompts /\ \A x : Key(of, x) = x.name
    BY <1>3 DEF Bindings, Key
  <2> QED BY <1>1, <2>3, <2>4 DEF Distinct
<1>4. CASE of \in {"resources", "templates"}
  <2>1. \A i, j \in DOMAIN resources : i < j => resources[i].uri # resources[j].uri
    BY DEF RegistryInv
  <2>2. resources \in Seq(ResourceDecls) /\ DOMAIN resources \subseteq Int
    BY DEF RegistryInv
  <2>3. \A i, j \in DOMAIN resources : resources[i].uri = resources[j].uri => i = j
    BY <2>1, <2>2
  <2>4. \A x : Key(of, x) = x.uri
    BY <1>4 DEF Key
  <2>5. Distinct(of, resources)
    BY <2>3, <2>4 DEF Distinct
  <2>6. Distinct(of, Concrete) /\ Distinct(of, Templates)
    BY <2>2, <2>5, PickedDistinct DEF Concrete, Templates
  <2>7. Bindings(of) \in {Concrete, Templates}
    BY <1>4 DEF Bindings
  <2> QED BY <1>1, <2>6, <2>7
<1> QED BY <1>1, <1>2, <1>3, <1>4 DEF Listed

\* The same of the state after a step.
LEMMA KeysStayUnique == RegistryInv' => UniqueKeys'
BY KeysAreUnique, PTL

\* Where each key stands.
PlaceIn(of, B, k) == SelectInSeq(B, LAMBDA b : Key(of, b) = k)
PlacesIn(of, B) == [k \in Keys(of, B) |-> PlaceIn(of, B, k)]

\* A key stands at one place of its listing, and that is its entry's.
LEMMA PlacesAre ==
  ASSUME NEW S, NEW of, NEW B \in Seq(S), Distinct(of, B)
  PROVE  /\ IsFiniteSet(Keys(of, B)) /\ PlacesIn(of, B) \in [Keys(of, B) -> Nat]
         /\ \A i \in DOMAIN B : /\ Key(of, B[i]) \in Keys(of, B)
                                /\ PlaceIn(of, B, Key(of, B[i])) = i
                                /\ PlacesIn(of, B)[Key(of, B[i])] = i
<1> DEFINE K == Keys(of, B)
<1>1. DOMAIN B = 1..Len(B) /\ Len(B) \in Nat
  OBVIOUS
<1>2. \A i \in DOMAIN B : Key(of, B[i]) \in K
  BY DEF Keys
<1>3. ASSUME NEW i \in DOMAIN B PROVE PlaceIn(of, B, Key(of, B[i])) = i
  <2> DEFINE I == {j \in 1..Len(B) : Key(of, B[j]) = Key(of, B[i])}
  <2>1. PlaceIn(of, B, Key(of, B[i])) = IF I # {} THEN Min(I) ELSE 0
    BY DEF PlaceIn, SelectInSeq
  <2>2. I = {i}
    BY <1>1 DEF Distinct
  <2>3. Min({i}) = i
    <3>1. {i} \in SUBSET Nat
      BY <1>1
    <3> QED BY <3>1, LeastExists
  <2> HIDE DEF I
  <2> QED BY <2>1, <2>2, <2>3
<1>4. \A k \in K : \E i \in DOMAIN B : k = Key(of, B[i])
  BY DEF Keys
<1>5. PlacesIn(of, B) \in [K -> Nat]
  BY <1>1, <1>3, <1>4 DEF PlacesIn
<1>6. IsFiniteSet(K)
  <2> DEFINE g == [i \in 1..Len(B) |-> Key(of, B[i])]
  <2>1. g \in Surjection(1..Len(B), K)
    BY <1>1, <1>2, <1>4 DEF Surjection
  <2>2. IsFiniteSet(1..Len(B))
    BY <1>1, FS_Interval
  <2> HIDE DEF g
  <2> QED BY <2>1, <2>2, FS_Surjection
<1> QED BY <1>2, <1>3, <1>5, <1>6 DEF PlacesIn

\* What a listing leaves keeps its order.
LEMMA ListingInOrder ==
  ASSUME RegistryInv, NEW of \in Listed, NEW p, NEW unavailable,
         NEW items, items = Listing(of, p, unavailable),
         NEW B, B = Bindings(of), NEW ks, ks = [i \in DOMAIN items |-> Key(of, items[i])]
  PROVE  /\ items \in Seq(Offers) /\ ks \in Seq(Keys(of, B)) /\ Len(ks) = Len(items)
         /\ ToSet(ks) = Keys(of, items)
         /\ \A i, j \in DOMAIN ks : i < j => PlacesIn(of, B)[ks[i]] < PlacesIn(of, B)[ks[j]]
<1> DEFINE v == Visible(of, p)
           K == {b \in ToSet(B) : setting.filter => Listable(p, b)}
           L == {b \in ToSet(v) : of = "tools" /\ ~unavailable => ~Unmet(p, b)}
<1>1. B \in Seq(Offers) /\ v \in Seq(Offers) /\ items \in Seq(Offers)
  BY ListingIs DEF Listed
<1>2. v = Selected(B, K) /\ items = Selected(v, L)
  BY DEF Visible, Listing
<1>3. Distinct(of, B)
  BY KeysAreUnique DEF UniqueKeys
<1> HIDE DEF v, K, L
<1>4. PICK f : Picks(f, B, K, v)
  BY <1>1, <1>2, SelectedPicks
<1>5. PICK g : Picks(g, v, L, items)
  BY <1>1, <1>2, SelectedPicks
<1>6. /\ DOMAIN items = 1..Len(items) /\ DOMAIN v = 1..Len(v) /\ DOMAIN B = 1..Len(B)
      /\ Len(items) \in Nat
  BY <1>1
<1>7. /\ f \in [DOMAIN v -> DOMAIN B] /\ \A j \in DOMAIN v : v[j] = B[f[j]]
      /\ \A i, j \in DOMAIN v : i < j => f[i] < f[j]
  BY <1>4, <1>6 DEF Picks
<1>8. /\ g \in [DOMAIN items -> DOMAIN v] /\ \A j \in DOMAIN items : items[j] = v[g[j]]
      /\ \A i, j \in DOMAIN items : i < j => g[i] < g[j]
  BY <1>5, <1>6 DEF Picks
<1>9. \A j \in DOMAIN items : g[j] \in DOMAIN v /\ f[g[j]] \in DOMAIN B /\ items[j] = B[f[g[j]]]
  BY <1>7, <1>8
<1>10. \A j \in DOMAIN items :
         Key(of, items[j]) \in Keys(of, B) /\ PlacesIn(of, B)[Key(of, items[j])] = f[g[j]]
  BY <1>1, <1>3, <1>9, PlacesAre
<1>11. DOMAIN ks = DOMAIN items /\ \A j \in DOMAIN items : ks[j] = Key(of, items[j])
  OBVIOUS
<1>12. ks \in Seq(Keys(of, B)) /\ Len(ks) = Len(items)
  <2>1. ks = [i \in 1..Len(items) |-> Key(of, items[i])]
    BY <1>6
  <2>2. \A i \in 1..Len(items) : Key(of, items[i]) \in Keys(of, B)
    BY <1>6, <1>10
  <2> QED BY <1>6, <2>1, <2>2
<1>13. ToSet(ks) = Keys(of, items)
  BY <1>11 DEF ToSet, Keys
<1>14. \A i, j \in DOMAIN ks : i < j => PlacesIn(of, B)[ks[i]] < PlacesIn(of, B)[ks[j]]
  BY <1>7, <1>8, <1>9, <1>10, <1>11
<1> QED BY <1>1, <1>12, <1>13, <1>14

\* The page pos an offset: what stands there, up to a page's size.
LEMMA PageIs ==
  ASSUME NEW S, NEW items \in Seq(S), NEW c \in Nat
  PROVE  /\ PageAt(items, c) \in Seq(S)
         /\ \A j \in 1..Len(PageAt(items, c)) :
              c + j \in 1..Len(items) /\ PageAt(items, c)[j] = items[c + j]
<1> DEFINE m == Min({c + PageSize, Len(items)})
           q == PageAt(items, c)
<1>1. {c + PageSize, Len(items)} \in SUBSET Nat
  BY PageSizeAssumption
<1>2. m \in Nat /\ m <= Len(items)
  <2>1. m \in {c + PageSize, Len(items)} /\ \A x \in {c + PageSize, Len(items)} : m <= x
    BY <1>1, LeastExists
  <2> HIDE DEF m
  <2> QED BY <1>1, <2>1
<1>3. q = SubSeq(items, c + 1, m)
  BY DEF PageAt
<1> HIDE DEF m, q
<1>4. \A i \in c + 1..m : i \in 1..Len(items) /\ items[i] \in S
  BY <1>2
<1>5. /\ q \in Seq(S) /\ Len(q) = IF c + 1 <= m THEN m - (c + 1) + 1 ELSE 0
      /\ \A i \in 1..m - (c + 1) + 1 : q[i] = items[c + 1 + i - 1]
  BY <1>2, <1>3, <1>4, SubSeqProperties
<1>6. ASSUME NEW j \in 1..Len(q) PROVE c + j \in 1..Len(items) /\ q[j] = items[c + j]
  <2>1. /\ j \in 1..m - (c + 1) + 1 /\ c + j \in c + 1..m /\ c + 1 + j - 1 = c + j
    BY <1>2, <1>5
  <2> QED BY <1>4, <1>5, <2>1
<1> QED BY <1>5, <1>6 DEF q

-----------------------------------------------------------------------------
(* The walk.                                                               *)

WalkForm(of, B) ==
  [of : {of}, caller : Callers, unavailable : BOOLEAN, cursor : Nat \cup {Done},
   got : Seq(Keys(of, B)), last : SUBSET Keys(of, B), constant : SUBSET Keys(of, B),
   dropped : SUBSET Keys(of, B), back : SUBSET Keys(of, B)]

\* A walk through the bindings B.
Walks(w, of, B) ==
  /\ w \in WalkForm(of, B)
  /\ Goes(PlacesIn(of, B), w.cursor, w.got, w.last, w.constant, w.dropped, w.back)

\* A page more.
LEMMA TurnKeeps ==
  ASSUME RegistryInv, NEW of \in Listed, NEW p, NEW unavailable,
         NEW w, Walks(w, of, Bindings(of)), w.cursor # Done
  PROVE  Walks(Turn(w, Listing(of, p, unavailable), w.cursor), of, Bindings(of))
<1> DEFINE items == Listing(of, p, unavailable)
           B == Bindings(of)
           K == Keys(of, B)
           pos == PlacesIn(of, B)
           ks == [i \in DOMAIN items |-> Key(of, items[i])]
           c == w.cursor
           page == PageAt(items, c)
           more == [i \in DOMAIN page |-> Key(of, page[i])]
           N == ToSet(ks)
           next == NextCursor(items, c)
           x == Turn(w, items, c)
<1>1. /\ items \in Seq(Offers) /\ ks \in Seq(K) /\ Len(ks) = Len(items) /\ N = Keys(of, items)
      /\ \A i, j \in DOMAIN ks : i < j => pos[ks[i]] < pos[ks[j]]
  BY ListingInOrder
<1>2. IsFiniteSet(K) /\ pos \in [K -> Nat]
  BY KeysAreUnique, PlacesAre DEF UniqueKeys
<1>3. /\ w \in WalkForm(of, B) /\ c \in Nat /\ w.of = of
      /\ Goes(pos, c, w.got, w.last, w.constant, w.dropped, w.back)
  BY DEF Walks, WalkForm, Done
<1>4. /\ w.got \in Seq(K) /\ w.last \in SUBSET K /\ w.constant \in SUBSET K
      /\ w.dropped \in SUBSET K /\ w.back \in SUBSET K
  BY <1>3 DEF WalkForm
<1>5. next = IF c + Len(page) < Len(items) THEN c + Len(page) ELSE Done
  BY DEF NextCursor
<1>6. x = [w EXCEPT !.cursor = next, !.got = w.got \o more, !.last = N,
                    !.constant = w.constant \cap N, !.dropped = w.dropped \cup (w.last \ N),
                    !.back = w.back \cup (N \ w.last)]
  BY <1>1, <1>3 DEF Turn
<1>k. \A i \in DOMAIN items : ks[i] = Key(of, items[i])
  OBVIOUS
<1> HIDE DEF items, B, K, pos, ks, c, N, next, x
<1>7. /\ page \in Seq(Offers)
      /\ \A j \in 1..Len(page) : c + j \in 1..Len(items) /\ page[j] = items[c + j]
  BY <1>1, <1>3, PageIs
<1> HIDE DEF page
<1>8. DOMAIN page = 1..Len(page) /\ Len(page) \in Nat /\ DOMAIN items = 1..Len(items)
  BY <1>1, <1>7
<1>9. /\ DOMAIN more = 1..Len(page)
      /\ \A j \in 1..Len(page) : c + j \in 1..Len(ks) /\ more[j] = ks[c + j] /\ more[j] \in K
  <2>1. ASSUME NEW j \in 1..Len(page)
        PROVE  c + j \in 1..Len(ks) /\ more[j] = ks[c + j] /\ more[j] \in K
    <3>1. PICK i \in 1..Len(items) : i = c + j
      BY <1>7
    <3>2. more[j] = Key(of, items[i])
      BY <1>7, <1>8, <3>1
    <3>3. i \in 1..Len(ks) /\ more[j] = ks[i]
      BY <1>1, <1>8, <1>k, <3>1, <3>2
    <3>4. ks[i] \in K
      BY <1>1, <3>3
    <3> QED BY <3>1, <3>3, <3>4
  <2> QED BY <1>8, <2>1
<1>10. more \in Seq(K) /\ Len(more) = Len(page)
  <2>1. more = [i \in 1..Len(page) |-> more[i]]
    BY <1>8
  <2> HIDE DEF more
  <2> QED BY <1>8, <1>9, <2>1
<1> HIDE DEF more
<1>11. next = IF c + Len(page) < Len(ks) THEN c + Len(page) ELSE Done
  BY <1>1, <1>5
<1>12. PICK l \in Nat : l = Len(page)
  BY <1>8
<1>13. Goes(pos, next, w.got \o more, N, w.constant \cap N, w.dropped \cup (w.last \ N),
            w.back \cup (N \ w.last))
  <2>1. \A j \in 1..l : c + j \in 1..Len(ks) /\ more[j] = ks[c + j]
    BY <1>9, <1>12
  <2>2. next = IF c + l < Len(ks) THEN c + l ELSE Done
    BY <1>11, <1>12
  <2>3. Len(more) = l
    BY <1>10, <1>12
  <2> QED BY <1>1, <1>2, <1>3, <1>4, <1>10, <2>1, <2>2, <2>3, PageKeeps DEF N
<1>14. N \in SUBSET K
  BY <1>1 DEF N, ToSet
<1>15. next \in Nat \cup {Done} /\ w.got \o more \in Seq(K)
  BY <1>3, <1>4, <1>10, <1>11, <1>12
<1>16. /\ w.constant \cap N \in SUBSET K /\ w.dropped \cup (w.last \ N) \in SUBSET K
       /\ w.back \cup (N \ w.last) \in SUBSET K
  BY <1>4, <1>14
<1>17. /\ x \in WalkForm(of, B) /\ x.cursor = next /\ x.got = w.got \o more /\ x.last = N
       /\ x.constant = w.constant \cap N /\ x.dropped = w.dropped \cup (w.last \ N)
       /\ x.back = w.back \cup (N \ w.last)
  <2> DEFINE g == w.got \o more
             a == w.constant \cap N
             d == w.dropped \cup (w.last \ N)
             b == w.back \cup (N \ w.last)
  <2>1. g \in Seq(K) /\ a \in SUBSET K /\ d \in SUBSET K /\ b \in SUBSET K
    BY <1>15, <1>16
  <2>2. x = [w EXCEPT !.cursor = next, !.got = g, !.last = N, !.constant = a, !.dropped = d,
                      !.back = b]
    BY <1>6
  <2> HIDE DEF g, a, d, b
  <2>3. w \in [of : {of}, caller : Callers, unavailable : BOOLEAN, cursor : Nat \cup {Done},
               got : Seq(K), last : SUBSET K, constant : SUBSET K, dropped : SUBSET K,
               back : SUBSET K]
    BY <1>3 DEF WalkForm, K
  <2>4. /\ x \in [of : {of}, caller : Callers, unavailable : BOOLEAN, cursor : Nat \cup {Done},
                  got : Seq(K), last : SUBSET K, constant : SUBSET K, dropped : SUBSET K,
                  back : SUBSET K]
        /\ x.cursor = next /\ x.got = g /\ x.last = N /\ x.constant = a /\ x.dropped = d
        /\ x.back = b
    BY <1>14, <1>15, <2>1, <2>2, <2>3
  <2> QED BY <2>4 DEF WalkForm, K, g, a, d, b
<1>18. Walks(x, of, B)
  BY <1>13, <1>17 DEF Walks, pos
<1> QED BY <1>18 DEF x, items, c, B

\* A walk begins.
LEMMA StartKeeps ==
  ASSUME RegistryInv, NEW of \in Listed, NEW p \in Callers, NEW unavailable \in BOOLEAN,
         NEW w,
         w = [of |-> of, caller |-> p, unavailable |-> unavailable, cursor |-> 0, got |-> <<>>,
              last |-> Keys(of, Listing(of, p, unavailable)),
              constant |-> Keys(of, Listing(of, p, unavailable)),
              dropped |-> {}, back |-> {}]
  PROVE  Walks(w, of, Bindings(of)) /\ w.cursor # Done
<1> DEFINE items == Listing(of, p, unavailable)
           B == Bindings(of)
           K == Keys(of, B)
           pos == PlacesIn(of, B)
           ks == [i \in DOMAIN items |-> Key(of, items[i])]
           N == Keys(of, items)
<1>1. ks \in Seq(K) /\ N = ToSet(ks)
  BY ListingInOrder
<1>2. IsFiniteSet(K) /\ pos \in [K -> Nat]
  BY KeysAreUnique, PlacesAre DEF UniqueKeys
<1>3. w = [of |-> of, caller |-> p, unavailable |-> unavailable, cursor |-> 0, got |-> <<>>,
           last |-> N, constant |-> N, dropped |-> {}, back |-> {}]
  OBVIOUS
<1> HIDE DEF items, B, K, pos, ks, N
<1>4. N \in SUBSET K
  BY <1>1 DEF ToSet
<1>5. \A k : Rank(pos, N, k) \in Nat
  BY <1>2, <1>4, RankGrows
<1>6. ToSet(<<>>) = {} /\ DOMAIN <<>> = {}
  BY DEF ToSet
<1>7. Goes(pos, 0, <<>>, N, N, {}, {})
  BY <1>5, <1>6 DEF Goes, Done
<1>8. w \in WalkForm(of, B)
  BY <1>3, <1>4 DEF WalkForm, K
<1>9. /\ w.cursor = 0 /\ w.got = <<>> /\ w.last = N /\ w.constant = N /\ w.dropped = {}
      /\ w.back = {}
  BY <1>3
<1> QED BY <1>7, <1>8, <1>9 DEF Walks, pos, B, Done

\* What is registered comes after what a walk knows.
LEMMA WalkGoesOn ==
  ASSUME NEW S, NEW of, NEW B \in Seq(S), NEW C \in Seq(S), Distinct(of, C),
         Len(B) <= Len(C), \A i \in 1..Len(B) : C[i] = B[i], NEW w, Walks(w, of, B)
  PROVE  Walks(w, of, C)
<1> DEFINE K == Keys(of, B)
           L == Keys(of, C)
           pos == PlacesIn(of, B)
           to == PlacesIn(of, C)
<1>1. DOMAIN B = 1..Len(B) /\ DOMAIN C = 1..Len(C) /\ Len(B) \in Nat /\ Len(C) \in Nat
  OBVIOUS
<1>2. \A i \in DOMAIN B : i \in DOMAIN C /\ C[i] = B[i]
  BY <1>1
<1>3. Distinct(of, B)
  BY <1>2 DEF Distinct
<1>4. \A k \in K : k \in L /\ pos[k] = to[k]
  <2> SUFFICES ASSUME NEW k \in K PROVE k \in L /\ pos[k] = to[k]
    OBVIOUS
  <2>1. PICK i \in DOMAIN B : k = Key(of, B[i])
    BY DEF Keys
  <2>2. pos[k] = i
    BY <1>3, <2>1, PlacesAre
  <2>3. k \in L /\ to[k] = i
    BY <1>2, <2>1, PlacesAre
  <2> QED BY <2>2, <2>3
<1>5. K \subseteq L
  BY <1>4
<1>6. /\ w.got \in Seq(K) /\ w.last \in SUBSET K /\ w.constant \in SUBSET K
      /\ w.dropped \in SUBSET K /\ w.back \in SUBSET K
  BY DEF Walks, WalkForm
<1>7. w \in WalkForm(of, C)
  <2>1. w \in [of : {of}, caller : Callers, unavailable : BOOLEAN, cursor : Nat \cup {Done},
               got : Seq(K), last : SUBSET K, constant : SUBSET K, dropped : SUBSET K,
               back : SUBSET K]
    BY DEF Walks, WalkForm
  <2> HIDE DEF K, L
  <2>2. w.got \in Seq(L)
    BY <1>5, <1>6
  <2>3. w \in [of : {of}, caller : Callers, unavailable : BOOLEAN, cursor : Nat \cup {Done},
               got : Seq(L), last : SUBSET L, constant : SUBSET L, dropped : SUBSET L,
               back : SUBSET L]
    BY <1>5, <2>1, <2>2
  <2> QED BY <2>3 DEF WalkForm, L
<1>8. Goes(pos, w.cursor, w.got, w.last, w.constant, w.dropped, w.back)
  BY DEF Walks
<1> HIDE DEF K, L, pos, to
<1>9. \A k \in K : Rank(pos, w.last, k) = Rank(to, w.last, k)
  <2>1. \A k \in K : Ahead(pos, w.last, k) = Ahead(to, w.last, k)
    BY <1>4, <1>6 DEF Ahead
  <2> QED BY <2>1 DEF Rank
<1>10. /\ ToSet(w.got) \subseteq K /\ \A i \in DOMAIN w.got : w.got[i] \in K
  BY <1>6 DEF ToSet
<1>11. \A k \in w.constant \ ToSet(w.got) :
         (\E d \in w.dropped : to[d] < to[k]) \/ (w.cursor # Done /\ w.cursor <= Rank(to, w.last, k))
  <2> SUFFICES ASSUME NEW k \in w.constant \ ToSet(w.got)
               PROVE  \/ \E d \in w.dropped : to[d] < to[k]
                      \/ w.cursor # Done /\ w.cursor <= Rank(to, w.last, k)
    OBVIOUS
  <2>1. \/ \E d \in w.dropped : pos[d] < pos[k]
        \/ w.cursor # Done /\ w.cursor <= Rank(pos, w.last, k)
    BY <1>8 DEF Goes
  <2> QED BY <1>4, <1>6, <1>9, <2>1
<1>12. \A k \in ToSet(w.got) :
         (\E b \in w.back : to[b] < to[k]) \/ w.cursor = Done \/ Rank(to, w.last, k) < w.cursor
  <2> SUFFICES ASSUME NEW k \in ToSet(w.got)
               PROVE  \/ \E b \in w.back : to[b] < to[k]
                      \/ w.cursor = Done \/ Rank(to, w.last, k) < w.cursor
    OBVIOUS
  <2>1. \/ \E b \in w.back : pos[b] < pos[k]
        \/ w.cursor = Done \/ Rank(pos, w.last, k) < w.cursor
    BY <1>8 DEF Goes
  <2> QED BY <1>4, <1>6, <1>9, <1>10, <2>1
<1>13. \A i, j \in DOMAIN w.got :
         i < j /\ w.got[i] = w.got[j] => \E b \in w.back : to[b] < to[w.got[i]]
  <2> SUFFICES ASSUME NEW i \in DOMAIN w.got, NEW j \in DOMAIN w.got, i < j, w.got[i] = w.got[j]
               PROVE  \E b \in w.back : to[b] < to[w.got[i]]
    OBVIOUS
  <2>1. \E b \in w.back : pos[b] < pos[w.got[i]]
    BY <1>8 DEF Goes
  <2> QED BY <1>4, <1>6, <1>10, <2>1
<1>14. Goes(to, w.cursor, w.got, w.last, w.constant, w.dropped, w.back)
  BY <1>11, <1>12, <1>13 DEF Goes
<1> QED BY <1>7, <1>14 DEF Walks, to

\* Every registry only grows pos its end.
LEMMA BindingsGrow ==
  ASSUME RegistryInv, RegistryInv', ToolsGrow \/ ResourcesGrow \/ PromptsGrow, NEW of \in Listed
  PROVE  /\ Len(Bindings(of)) <= Len(Bindings(of)')
         /\ \A i \in 1..Len(Bindings(of)) : Bindings(of)'[i] = Bindings(of)[i]
<1> DEFINE Onward(B, C) == Len(B) <= Len(C) /\ \A i \in 1..Len(B) : C[i] = B[i]
<1>1. /\ tools \in Seq(Forms) /\ prompts \in Seq(PromptDecls) /\ resources \in Seq(ResourceDecls)
      /\ Concrete \in Seq(ResourceDecls) /\ Templates \in Seq(ResourceDecls)
  BY PartsAre DEF RegistryInv
<1>2. \A S : \A B \in Seq(S) : Onward(B, B) /\ \A b \in S : Onward(B, Append(B, b))
  OBVIOUS
<1>3. Onward(tools, tools')
  <2>1. CASE ToolsGrow
    <3>1. PICK new \in Seq(Forms) : tools' = tools \o new
      BY <2>1 DEF ToolsGrow
    <3>2. /\ Len(tools \o new) = Len(tools) + Len(new)
          /\ \A i \in 1..Len(tools) + Len(new) :
               (tools \o new)[i] = IF i <= Len(tools) THEN tools[i] ELSE new[i - Len(tools)]
      BY <1>1, ConcatProperties
    <3>3. Len(tools) \in Nat /\ Len(new) \in Nat
      BY <1>1
    <3> QED BY <3>1, <3>2, <3>3
  <2>2. CASE ResourcesGrow \/ PromptsGrow
    BY <1>1, <1>2, <2>2 DEF ResourcesGrow, PromptsGrow
  <2> QED BY <2>1, <2>2
<1>4. Onward(prompts, prompts')
  <2> HIDE DEF Onward
  <2> QED BY <1>1, <1>2 DEF ToolsGrow, ResourcesGrow, PromptsGrow
<1>5. Onward(Concrete, Concrete') /\ Onward(Templates, Templates')
  <2>1. CASE ToolsGrow \/ PromptsGrow
    <3>1. Concrete' = Concrete /\ Templates' = Templates
      BY <2>1 DEF ToolsGrow, PromptsGrow, Concrete, Templates
    <3> HIDE DEF Onward
    <3> QED BY <1>1, <1>2, <3>1
  <2>2. CASE ResourcesGrow
    <3>1. PICK b \in ResourceDecls : resources' = Append(resources, b)
      BY <2>2 DEF ResourcesGrow
    <3> DEFINE d == ConcreteIn(Append(resources, b))
               u == TemplatesIn(Append(resources, b))
    <3>2. Concrete = ConcreteIn(resources) /\ Templates = TemplatesIn(resources)
      BY DEF Concrete, Templates, ConcreteIn, TemplatesIn
    <3>3. Concrete' = d /\ Templates' = u
      BY <3>1 DEF Concrete, Templates, ConcreteIn, TemplatesIn
    <3> HIDE DEF d, u, Onward
    <3>4. \/ d = Append(Concrete, b) /\ u = Templates
          \/ d = Concrete /\ u = Append(Templates, b)
      BY <1>1, <3>2, ResourceComesLast DEF d, u
    <3> QED BY <1>1, <1>2, <3>3, <3>4
  <2> QED BY <2>1, <2>2
<1>6. Onward(Bindings(of), Bindings(of)')
  <2> HIDE DEF Onward
  <2> QED BY <1>3, <1>4, <1>5 DEF Bindings, Listed
<1> QED BY <1>6

\* The walk, whatever it goes through.
WalkInv == walk # NotWalking => \E of \in Listed : walk.of = of /\ Walks(walk, of, Bindings(of))

\* Every state of a walk is one its page turns lead to.
LEMMA WalkHolds == CatalogueSpec => [](RegistryInv /\ WalkInv)
<1>1. CatalogueInit => WalkInv
  BY DEF CatalogueInit, WalkInv
<1>2. ASSUME RegistryInv, RegistryInv', WalkInv, [CatalogueNext]_catalogueVars PROVE WalkInv'
  <2>1. ASSUME ToolsGrow \/ ResourcesGrow \/ PromptsGrow, walk' = walk PROVE WalkInv'
    <3> SUFFICES ASSUME walk # NotWalking
                 PROVE  (\E of \in Listed : walk.of = of /\ Walks(walk, of, Bindings(of)))'
      BY <2>1 DEF WalkInv
    <3>1. PICK of \in Listed : walk.of = of /\ Walks(walk, of, Bindings(of))
      BY <1>2 DEF WalkInv
    <3>2. PICK B : B = Bindings(of)
      OBVIOUS
    <3>3. PICK C : C = Bindings(of)'
      OBVIOUS
    <3>4. B \in Seq(Offers)
      BY <1>2, <3>2, KeysAreUnique DEF UniqueKeys
    <3>5. C \in Seq(Offers) /\ Distinct(of, C)
      <4>1. UniqueKeys'
        BY <1>2, KeysStayUnique
      <4> QED BY <3>3, <4>1 DEF UniqueKeys, Distinct
    <3>6. Len(B) <= Len(C) /\ \A i \in 1..Len(B) : C[i] = B[i]
      BY <1>2, <2>1, <3>2, <3>3, BindingsGrow
    <3>7. PICK w : w = walk
      OBVIOUS
    <3>8. Walks(w, of, C)
      BY <3>1, <3>2, <3>4, <3>5, <3>6, <3>7, WalkGoesOn
    <3>9. Walks(walk, of, Bindings(of))'
      <4>1. walk' = w /\ C = Bindings(of)'
        BY <2>1, <3>3, <3>7
      <4> QED BY <3>8, <4>1 DEF Walks, WalkForm, Goes, PlacesIn
    <3>10. walk'.of = of
      BY <2>1, <3>1
    <3> QED BY <3>9, <3>10
  <2>2. ASSUME UNCHANGED registryVars, NEW of \in Listed, NEW w, walk' = w, w.of = of,
               Walks(w, of, Bindings(of))
        PROVE  WalkInv'
    <3>1. UNCHANGED <<tools, resources, prompts>>
      BY <2>2 DEF registryVars
    <3>2. Bindings(of)' = Bindings(of)
      BY <3>1 DEF Bindings, Concrete, Templates
    <3>3. Walks(walk, of, Bindings(of))'
      BY <2>2, <3>2, ZenonT(60) DEF Walks, WalkForm, Goes, PlacesIn
    <3> QED BY <2>2, <3>3 DEF WalkInv
  <2>3. ASSUME UNCHANGED registryVars, walk' = walk PROVE WalkInv'
    <3>1. CASE walk = NotWalking
      BY <2>3, <3>1 DEF WalkInv
    <3>2. CASE walk # NotWalking
      <4>1. PICK of \in Listed : walk.of = of /\ Walks(walk, of, Bindings(of))
        BY <1>2, <3>2 DEF WalkInv
      <4>2. PICK w : w = walk
        OBVIOUS
      <4> QED BY <2>2, <2>3, <4>1, <4>2
    <3> QED BY <3>1, <3>2
  <2>4. ASSUME NEW of \in Listed, NEW p \in Callers, NEW unavailable \in BOOLEAN,
               StartWalk(of, p, unavailable)
        PROVE  WalkInv'
    <3> DEFINE items == Listing(of, p, unavailable)
               w == [of |-> of, caller |-> p, unavailable |-> unavailable, cursor |-> 0,
                     got |-> <<>>, last |-> Keys(of, items), constant |-> Keys(of, items),
                     dropped |-> {}, back |-> {}]
               x == Turn(w, items, 0)
    <3>1. walk' = x /\ UNCHANGED registryVars
      BY <2>4 DEF StartWalk
    <3>2. w.cursor = 0
      OBVIOUS
    <3>3. Walks(w, of, Bindings(of)) /\ w.cursor # Done
      BY <1>2, StartKeeps
    <3> HIDE DEF w, items
    <3>4. Walks(Turn(w, items, w.cursor), of, Bindings(of))
      BY <1>2, <3>3, TurnKeeps DEF items
    <3>5. Walks(x, of, Bindings(of))
      BY <3>2, <3>4
    <3>6. x.of = of
      BY <3>5 DEF Walks, WalkForm
    <3> HIDE DEF x
    <3> QED BY <2>2, <3>1, <3>5, <3>6
  <2>5. CASE FollowCursor
    <3>1. /\ walk # NotWalking /\ walk.cursor # Done /\ UNCHANGED registryVars
          /\ walk' = Turn(walk, Listing(walk.of, walk.caller, walk.unavailable), walk.cursor)
      BY <2>5 DEF FollowCursor
    <3>2. PICK of \in Listed : walk.of = of /\ Walks(walk, of, Bindings(of))
      BY <1>2, <3>1 DEF WalkInv
    <3>3. PICK w : w = walk
      OBVIOUS
    <3>4. PICK p : p = w.caller
      OBVIOUS
    <3>5. PICK u : u = w.unavailable
      OBVIOUS
    <3> DEFINE x == Turn(w, Listing(of, p, u), w.cursor)
    <3>6. walk' = x
      BY <3>1, <3>2, <3>3, <3>4, <3>5
    <3>7. Walks(x, of, Bindings(of))
      BY <1>2, <3>1, <3>2, <3>3, TurnKeeps
    <3>8. x.of = of
      BY <3>7 DEF Walks, WalkForm
    <3> HIDE DEF x
    <3> QED BY <2>2, <3>1, <3>6, <3>7, <3>8
  <2>6. CASE Flip
    BY <2>3, <2>6 DEF Flip
  <2>7. CASE Register
    <3>1. ToolsGrow \/ ResourcesGrow \/ PromptsGrow
      BY <1>2, <2>7, RegistryGrows DEF Register, RegistryInv
    <3> QED BY <2>1, <2>7, <3>1 DEF Register
  <2>8. CASE UNCHANGED catalogueVars
    BY <2>3, <2>8 DEF catalogueVars
  <2> QED BY <1>2, <2>4, <2>5, <2>6, <2>7, <2>8 DEF CatalogueNext, Listed
<1>3. RegistryInv /\ RegistryInv' /\ WalkInv /\ [CatalogueNext]_catalogueVars => WalkInv'
  BY <1>2
<1> QED BY <1>1, <1>3, RegistriesHold, PTL DEF CatalogueSpec

\* WalkFaithful, for any declarations, page size and changes between two pages: a walk
\* misses or repeats nothing but behind what went away or came back ahead of it.
THEOREM WalksAreFaithful == CatalogueSpec => []WalkFaithful
<1>1. ASSUME RegistryInv, WalkInv, walk # NotWalking
      PROVE  /\ walk.cursor = Done =>
                  \A k \in walk.constant \ ToSet(walk.got) :
                    \E d \in walk.dropped : Position(walk.of, d) < Position(walk.of, k)
             /\ \A i, j \in DOMAIN walk.got : i < j /\ walk.got[i] = walk.got[j] =>
                  \E b \in walk.back : Position(walk.of, b) < Position(walk.of, walk.got[i])
  <2>1. PICK of \in Listed : walk.of = of /\ Walks(walk, of, Bindings(of))
    BY <1>1 DEF WalkInv
  <2> DEFINE K == Keys(of, Bindings(of))
             pos == PlacesIn(of, Bindings(of))
  <2>2. \A k \in K : pos[k] = Position(of, k)
    BY DEF PlacesIn, PlaceIn, Position
  <2>3. Goes(pos, walk.cursor, walk.got, walk.last, walk.constant, walk.dropped, walk.back)
    BY <2>1 DEF Walks
  <2>4. /\ walk.got \in Seq(K) /\ walk.constant \subseteq K /\ walk.dropped \subseteq K
        /\ walk.back \subseteq K
    BY <2>1 DEF Walks, WalkForm
  <2> HIDE DEF K, pos
  <2>5. \A i \in DOMAIN walk.got : walk.got[i] \in K
    BY <2>4
  <2>6. walk.cursor = Done =>
          \A k \in walk.constant \ ToSet(walk.got) : \E d \in walk.dropped : pos[d] < pos[k]
    BY <2>3 DEF Goes
  <2>7. \A i, j \in DOMAIN walk.got : i < j /\ walk.got[i] = walk.got[j] =>
          \E b \in walk.back : pos[b] < pos[walk.got[i]]
    BY <2>3 DEF Goes
  <2> QED BY <2>1, <2>2, <2>4, <2>5, <2>6, <2>7
<1>2. RegistryInv /\ WalkInv => WalkFaithful
  BY <1>1 DEF WalkFaithful
<1> QED BY <1>2, WalkHolds, PTL
=============================================================================
