--------------------------- MODULE ToolCallProofs ---------------------------
(* What a service runs on was judged for this call, has an author and was      *)
(* paid for; a denial is free; what is announced was written: for any tools,   *)
(* principals, arguments, policies and transports, and any number of calls.    *)
EXTENDS ToolCall, TLAPS

Gated == {"preflight", "gate"}
Judging == {"judge", "rejudge"}
Tasking == {"taskcharge", "create"}
After == {"render", "deliver", "announce"}
Running == {"run", "working"} \cup After
Places == Gated \cup Judging \cup Tasking \cup Running \cup {"idle", "charge", "done"}

Replies == {"none", "forbidden", "misconfigured", "missing", "limited", "task", "declined",
            "error", "form", "large", "ok", "timeout", "gone"}

State == [who : Principals \cup {"nobody"}, tool : Tools \cup {"none"}, args : Arguments,
          answers : Arguments, round : Nat]
Answer == [action : {"none", "accept", "refuse"}, content : Arguments]
Request == [who : Principals \cup {"nobody"}, tool : Tools \cup {"none"}, raw : Arguments,
            tasks : BOOLEAN, forms : BOOLEAN, answer : Answer, state : State,
            stream : BOOLEAN, origin : Calls \cup {NoCall}]
Prior == [carried : Arguments, round : Nat, declined : BOOLEAN]

Types ==
  /\ call \in [Calls -> Request] /\ prior \in [Calls -> Prior]
  /\ pc \in [Calls -> Places] /\ reply \in [Calls -> Replies]
  /\ granted \in [Principals -> SUBSET (Values \cup {Unset})]
  /\ quota \in [Principals -> Nat] /\ tokens \subseteq State
  /\ judged \in [Calls -> SUBSET Arguments] /\ charged \in [Calls -> Nat]
  /\ written \in [Calls -> SUBSET Arguments] /\ announced \in [Calls -> SUBSET Arguments]

\* A slot nobody used yet is blank; every other call has a caller.
Fresh(c) ==
  IF pc[c] = "idle" THEN call[c] = Blank /\ prior[c] = NoPrior /\ reply[c] = "none"
  ELSE call[c].who \in Principals

\* From the first check on, what the call goes on with has been judged, under grants the
\* caller began with.
Judged(c) ==
  /\ pc[c] = "rejudge" => Sent(c) \in judged[c]
  /\ pc[c] \in {"charge"} \cup Running \/ written[c] # {} => Args(c) \in judged[c]
  /\ pc[c] = "idle" => judged[c] = {}
  /\ \A a \in judged[c] : a[Route] \in Grants[call[c].who]

\* Where the one unit is paid; a replay is the origin's, and cannot become a task.
Paid(c) ==
  /\ charged[c] \in {0, 1}
  /\ pc[c] \in {"idle", "taskcharge", "charge"} \cup Gated \cup Judging => charged[c] = 0
  /\ IF IsReplay(c)
     THEN /\ charged[c] = 0 /\ call[c].origin \in Calls /\ charged[call[c].origin] = 1
          /\ ~call[c].tasks
     ELSE pc[c] \in {"create"} \cup Running \/ written[c] # {} => charged[c] = 1
  /\ pc[c] \in Tasking => call[c].tasks

\* The service writes once, and what is announced afterwards is that.
Written(c) ==
  /\ pc[c] \notin After \cup {"done"} => written[c] = {}
  /\ pc[c] \in After => written[c] = {Args(c)}
  /\ pc[c] # "done" => announced[c] = {} /\ reply[c] \notin {"ok", "forbidden"}
  /\ announced[c] # {} => announced[c] = written[c]
  /\ reply[c] = "ok" => announced[c] # {}

\* A grant is withdrawn whole and for good; before that a denial comes before the charge.
Denied(c) ==
  reply[c] = "forbidden" /\ charged[c] > 0 => granted[call[c].who] # Grants[call[c].who]

Withdrawn == \A p \in Principals : granted[p] \in {Grants[p], {}}

CallInv(c) == Fresh(c) /\ Judged(c) /\ Paid(c) /\ Written(c) /\ Denied(c)

\* Some call of this caller, for this tool and these arguments, answered v for n.
Gave(who, tool, args, n, v) ==
  \E d \in Calls :
    /\ call[d].who = who /\ call[d].tool = tool /\ Sent(d) = args
    /\ call[d].answer.action = "accept" /\ call[d].answer.content[n] = v

\* What a state carries on, and what a call merged, was an answer to the same request;
\* only an accepted form has content.
Authored ==
  /\ \A c \in Calls : call[c].answer.action # "accept" => call[c].answer.content = None
  /\ \A s \in tokens, n \in Names :
       s.answers[n] # Unset => Gave(s.who, s.tool, s.args, n, s.answers[n])
  /\ \A c \in Calls, n \in Names :
       prior[c].carried[n] # Unset =>
         Gave(call[c].who, call[c].tool, Sent(c), n, prior[c].carried[n])

Inv == Types /\ Withdrawn /\ Authored /\ \A c \in Calls : CallInv(c)

-----------------------------------------------------------------------------
(* Types.                                                                  *)

\* Arguments laid over others are arguments.
LEMMA ArgumentsTyped ==
  /\ None \in Arguments
  /\ \A args \in Arguments : Applied(args) \in Arguments
  /\ \A top, base \in Arguments : Over(top, base) \in Arguments
BY ToolCallAssumption DEF None, Arguments, Applied, Over

\* So are the requests, forms and states a call begins with.
LEMMA BlanksTyped ==
  /\ Blank \in Request /\ NoPrior \in Prior /\ NoState \in State /\ NoAnswer \in Answer
  /\ Offered \subseteq Answer
<1>1. NoAnswer \in Answer /\ NoState \in State /\ NoPrior \in Prior
  BY ArgumentsTyped DEF NoAnswer, NoState, NoPrior, Answer, State, Prior
<1>2. Blank \in Request
  BY <1>1, ArgumentsTyped DEF Blank, Request
<1>3. Offered \subseteq Answer
  BY <1>1, ArgumentsTyped DEF Offered, Answer
<1> QED BY <1>1, <1>2, <1>3

\* What a call sends, runs with and merges has the type of arguments.
LEMMA CallTyped ==
  ASSUME Types, NEW c \in Calls
  PROVE  /\ Sent(c) \in Arguments /\ Args(c) \in Arguments /\ Resolved(c) \in Prior
         /\ Verified(c) \in tokens \cup {NoState}
<1>1. /\ call[c].raw \in Arguments /\ prior[c].carried \in Arguments
      /\ call[c].answer.content \in Arguments /\ Verified(c) \in tokens \cup {NoState}
      /\ Verified(c) \in State
  BY BlanksTyped DEF Types, Request, Prior, Answer, Verified
<1>2. Sent(c) \in Arguments
  BY <1>1, ArgumentsTyped DEF Sent
<1>3. Args(c) \in Arguments
  BY <1>1, <1>2, ArgumentsTyped DEF Args
<1>4. Resolved(c) \in Prior
  <2>1. Verified(c).round \in Nat /\ Verified(c).answers \in Arguments
    BY <1>1 DEF State
  <2> QED BY <1>1, <2>1, ArgumentsTyped DEF Resolved, Prior
<1> QED BY <1>1, <1>2, <1>3, <1>4

\* A call and what it merged settle what it sends and runs with.
LEMMA SameArgs ==
  ASSUME NEW c \in Calls, call'[c] = call[c]
  PROVE  /\ Sent(c)' = Sent(c) /\ IsReplay(c)' = IsReplay(c)
         /\ prior'[c] = prior[c] => Args(c)' = Args(c)
BY DEF Sent, Args, Applied, Over, IsReplay

\* Going on and replying keep the types.
LEMMA MovesTyped ==
  ASSUME Types, NEW c \in Calls
  PROVE  /\ \A l \in Places : Goto(c, l) => pc' \in [Calls -> Places] /\ reply' = reply
         /\ \A r \in Replies : Reply(c, r) => /\ pc' \in [Calls -> Places]
                                             /\ reply' \in [Calls -> Replies]
BY DEF Types, Goto, Reply, Places

\* Every step keeps the types.
LEMMA TypesKept == Types /\ [Next]_vars => Types'
<1> SUFFICES ASSUME Types, [Next]_vars PROVE Types'
  OBVIOUS
<1> USE ToolCallAssumption
<1>p. /\ "preflight" \in Places /\ "gate" \in Places /\ "judge" \in Places
      /\ "rejudge" \in Places /\ "taskcharge" \in Places /\ "create" \in Places
      /\ "run" \in Places /\ "working" \in Places /\ "render" \in Places
      /\ "deliver" \in Places /\ "announce" \in Places /\ "charge" \in Places
      /\ "done" \in Places
  BY DEF Places, Gated, Judging, Tasking, Running, After
<1>r. /\ "none" \in Replies /\ "forbidden" \in Replies /\ "misconfigured" \in Replies
      /\ "missing" \in Replies /\ "limited" \in Replies /\ "task" \in Replies
      /\ "declined" \in Replies /\ "error" \in Replies /\ "form" \in Replies
      /\ "large" \in Replies /\ "ok" \in Replies /\ "timeout" \in Replies
      /\ "gone" \in Replies
  BY DEF Replies
<1>1. ASSUME NEW c \in Calls, Arrive(c) PROVE Types'
  <2>1. PICK request \in [who : Principals, tool : Tools, raw : Arguments, tasks : TaskFlags,
                     forms : FormFlags, answer : Offered, state : tokens \cup {NoState},
                     stream : StreamFlags, origin : {NoCall}] :
          /\ call' = [call EXCEPT ![c] = request]
          /\ Goto(c, IF request.stream THEN "preflight" ELSE "gate")
    BY <1>1 DEF Arrive
  <2>2. request \in Request
    BY <2>1, BlanksTyped DEF Types, Request
  <2>3. call' \in [Calls -> Request]
    BY <2>1, <2>2 DEF Types
  <2>4. pc' \in [Calls -> Places] /\ reply' = reply
    BY <2>1, <1>p, MovesTyped
  <2> QED BY <1>1, <2>3, <2>4 DEF Arrive, ended, Types
<1>2. ASSUME NEW c \in Calls,
             Preflight(c) \/ GateInline(c) \/ GateRefused(c) \/ TaskJudge(c) \/ Run(c)
               \/ Render(c) \/ Bounded(c)
      PROVE  Types'
  <2>1. \/ \E l \in Places : Goto(c, l)
        \/ \E r \in Replies : Reply(c, r)
    BY <1>2, <1>p, <1>r DEF Preflight, GateInline, GateRefused, TaskJudge, Run, Render, Bounded
  <2>3. pc' \in [Calls -> Places] /\ reply' \in [Calls -> Replies]
    BY <2>1, MovesTyped DEF Types
  <2>2. UNCHANGED <<call, ended>>
    BY <1>2 DEF Preflight, GateInline, GateRefused, TaskJudge, Run, Render, Bounded
  <2> QED BY <2>2, <2>3 DEF ended, Types
<1>3. ASSUME NEW c \in Calls, TaskCharge(c) \/ Charge(c) PROVE Types'
  <2>m. \/ \E l \in Places : Goto(c, l)
        \/ \E r \in Replies : Reply(c, r)
    BY <1>3, <1>p, <1>r DEF TaskCharge, Charge
  <2>1. pc' \in [Calls -> Places] /\ reply' \in [Calls -> Replies]
    BY <2>m, MovesTyped DEF Types
  <2>2. quota' \in [Principals -> Nat] /\ charged' \in [Calls -> Nat]
    BY <1>3 DEF TaskCharge, Charge, Pay, Types
  <2> QED BY <1>3, <2>1, <2>2 DEF TaskCharge, Charge, Types
<1>4. ASSUME NEW c \in Calls, NEW d \in Calls, TaskCreate(c, d) PROVE Types'
  <2>1. Replay(c) \in Request
    BY BlanksTyped, CallTyped DEF Replay, Types, Request
  <2>2. call' \in [Calls -> Request]
    BY <1>4, <2>1 DEF TaskCreate, Types
  <2>3. pc' \in [Calls -> Places] /\ reply' \in [Calls -> Replies]
    BY <1>4, <1>p, <1>r DEF TaskCreate, Types
  <2> QED BY <1>4, <2>2, <2>3 DEF TaskCreate, ended, Types
<1>5. ASSUME NEW c \in Calls, Judge(c) \/ Rejudge(c) PROVE Types'
  <2>m. \/ \E l \in Places : Goto(c, l)
        \/ \E r \in Replies : Reply(c, r)
    BY <1>5, <1>p, <1>r DEF Judge, Rejudge
  <2>1. pc' \in [Calls -> Places] /\ reply' \in [Calls -> Replies]
    BY <2>m, MovesTyped DEF Types
  <2>2. judged' \in [Calls -> SUBSET Arguments]
    BY <1>5, CallTyped DEF Judge, Rejudge, Types
  <2>3. prior' \in [Calls -> Prior]
    BY <1>5, CallTyped DEF Judge, Rejudge, Types
  <2> QED BY <1>5, <2>1, <2>2, <2>3 DEF Judge, Rejudge, Types
<1>6. ASSUME NEW c \in Calls, ServiceCommits(c) \/ ServiceFails(c) \/ Announce(c) PROVE Types'
  <2>m. \/ \E l \in Places : Goto(c, l)
        \/ \E r \in Replies : Reply(c, r)
    BY <1>6, <1>p, <1>r DEF ServiceCommits, ServiceFails, Announce
  <2>1. pc' \in [Calls -> Places] /\ reply' \in [Calls -> Replies]
    BY <2>m, MovesTyped DEF Types
  <2>2. \A done \in {Nothing, {Args(c)}} : done \in SUBSET Arguments
    BY CallTyped DEF Nothing
  <2>3. written' \in [Calls -> SUBSET Arguments] /\ announced' \in [Calls -> SUBSET Arguments]
    BY <1>6, <2>2 DEF ServiceCommits, ServiceFails, Announce, Types
  <2> QED BY <1>6, <2>1, <2>3 DEF ServiceCommits, ServiceFails, Announce, Types
<1>7. ASSUME NEW c \in Calls, ServiceAsks(c) PROVE Types'
  <2> DEFINE s == [who |-> call[c].who, tool |-> call[c].tool, args |-> Sent(c),
                   answers |-> prior[c].carried, round |-> prior[c].round + 1]
  <2>m. \/ \E l \in Places : Goto(c, l)
        \/ \E r \in Replies : Reply(c, r)
    BY <1>7, <1>p, <1>r DEF ServiceAsks
  <2>1. pc' \in [Calls -> Places] /\ reply' \in [Calls -> Replies]
    BY <2>m, MovesTyped DEF Types
  <2>2. s \in State
    BY CallTyped DEF State, Types, Request, Prior
  <2>3. tokens' \subseteq State
    BY <1>7, <2>2 DEF ServiceAsks, Types
  <2> QED BY <1>7, <2>1, <2>3 DEF ServiceAsks, Types
<1>8. ASSUME NEW c \in Calls, Timeout(c) \/ Disconnect(c) PROVE Types'
  <2>1. pc' \in [Calls -> Places] /\ reply' \in [Calls -> Replies]
    BY <1>8, <1>p, <1>r DEF Timeout, Disconnect, Abandon, Types
  <2> QED BY <1>8, <2>1 DEF Timeout, Disconnect, Abandon, ended, Types
<1>9. ASSUME NEW p \in Principals, Revoke(p) PROVE Types'
  BY <1>9 DEF Revoke, Types
<1>10. ASSUME NEW s \in tokens, Expire(s) PROVE Types'
  BY <1>10 DEF Expire, Types
<1>11. CASE UNCHANGED vars
  BY <1>11 DEF vars, Types
<1> QED BY <1>1, <1>2, <1>3, <1>4, <1>5, <1>6, <1>7, <1>8, <1>9, <1>10, <1>11
        DEF Next, Gate, Dispatch, Service

-----------------------------------------------------------------------------
(* What holds of each call.                                                *)

\* What a step keeps of a call it is not about.
Kept(d) ==
  /\ call'[d] = call[d] /\ prior'[d] = prior[d] /\ pc'[d] = pc[d] /\ reply'[d] = reply[d]
  /\ judged'[d] = judged[d] /\ charged'[d] = charged[d] /\ written'[d] = written[d]
  /\ announced'[d] = announced[d]

\* A call is disturbed by others' steps only through a payment its replay rests on and
\* through the grants.
LEMMA OthersKept ==
  ASSUME NEW d \in Calls, CallInv(d), Kept(d), granted' = granted,
         IsReplay(d) => charged'[call[d].origin] = charged[call[d].origin]
  PROVE  CallInv(d)'
<1>1. Sent(d)' = Sent(d) /\ Args(d)' = Args(d) /\ IsReplay(d)' = IsReplay(d)
  BY SameArgs DEF Kept
<1> QED BY <1>1 DEF CallInv, Fresh, Judged, Paid, Written, Denied, Kept

\* It is enough to look at the call a step is about.
LEMMA OneCall ==
  ASSUME Types, \A d \in Calls : CallInv(d), NEW c \in Calls, CallInv(c)',
         granted' = granted, charged' = charged \/ charged[c] = 0,
         \A d \in Calls \ {c} : Kept(d)
  PROVE  \A d \in Calls : CallInv(d)'
<1> SUFFICES ASSUME NEW d \in Calls, d # c PROVE CallInv(d)'
  OBVIOUS
<1>1. CallInv(d) /\ Kept(d)
  OBVIOUS
<1>2. ASSUME IsReplay(d) PROVE charged'[call[d].origin] = charged[call[d].origin]
  <2>1. call[d].origin \in Calls /\ charged[call[d].origin] = 1
    BY <1>1, <1>2 DEF CallInv, Paid
  <2> QED BY <2>1 DEF Kept
<1> QED BY <1>1, <1>2, OthersKept

\* The step of one call, by where the call stands.
LEMMA CallStep ==
  ASSUME Types, Withdrawn, \A d \in Calls : CallInv(d), NEW c \in Calls,
         \/ Preflight(c) \/ GateInline(c) \/ GateRefused(c) \/ TaskJudge(c) \/ TaskCharge(c)
         \/ Dispatch(c) \/ Service(c) \/ Timeout(c) \/ Disconnect(c)
  PROVE  \A d \in Calls : CallInv(d)'
<1> USE ToolCallAssumption
<1>c. CallInv(c) /\ call[c] \in Request /\ pc[c] \in Places /\ charged[c] \in Nat
  BY DEF Types
<1>s. call' = call /\ granted' = granted /\ Sent(c)' = Sent(c) /\ IsReplay(c)' = IsReplay(c)
  <2>1. call' = call /\ granted' = granted
    BY DEF Preflight, GateInline, GateRefused, TaskJudge, TaskCharge, Dispatch, Judge, Rejudge,
           Charge, Run, Render, Bounded, Announce, Service, ServiceCommits, ServiceFails,
           ServiceAsks, Timeout, Disconnect, Abandon, ended
  <2> QED BY <2>1, SameArgs
<1>g. call[c].who \in Principals => granted[call[c].who] \subseteq Grants[call[c].who]
  BY DEF Withdrawn
<1> USE DEF Gated, Judging, Tasking, Running, After
<1>1. ASSUME Preflight(c) \/ GateInline(c) \/ GateRefused(c) \/ TaskJudge(c) PROVE CallInv(c)'
  <2>1. Args(c)' = Args(c)
    BY <1>1, <1>s, SameArgs DEF Preflight, GateInline, GateRefused, TaskJudge, ended
  <2>2. pc[c] \in {"preflight", "gate"}
    BY <1>1 DEF Preflight, GateInline, GateRefused, TaskJudge
  <2>3. pc'[c] \in {"gate", "done", "judge", "taskcharge"} /\ (pc'[c] = "taskcharge" => call[c].tasks)
    BY <1>1 DEF Preflight, GateInline, GateRefused, TaskJudge, Goto, Reply, Types
  <2>4. /\ reply'[c] \in {reply[c], "forbidden", "misconfigured", "missing"}
        /\ pc'[c] # "done" => reply'[c] = reply[c]
    BY <1>1 DEF Preflight, GateInline, GateRefused, TaskJudge, Goto, Reply, Types
  <2>5. UNCHANGED <<call, ended>>
    BY <1>1 DEF Preflight, GateInline, GateRefused, TaskJudge
  <2>6. /\ charged[c] = 0 /\ written[c] = {} /\ announced[c] = {}
        /\ reply[c] \notin {"ok", "forbidden"}
    BY <1>c, <2>2 DEF CallInv, Paid, Written
  <2>7. /\ judged'[c] = judged[c] /\ charged'[c] = 0 /\ written'[c] = {} /\ announced'[c] = {}
        /\ charged' = charged
    BY <2>5, <2>6 DEF ended
  <2>8. Fresh(c)'
    BY <1>c, <1>s, <2>2, <2>3 DEF CallInv, Fresh
  <2>9. Judged(c)'
    BY <1>c, <1>s, <2>2, <2>3, <2>7 DEF CallInv, Judged
  <2>10. Paid(c)'
    BY <1>c, <1>s, <2>2, <2>3, <2>7 DEF CallInv, Paid
  <2>11. Written(c)'
    BY <1>c, <2>2, <2>3, <2>4, <2>6, <2>7 DEF CallInv, Written
  <2>12. Denied(c)'
    BY <2>7 DEF Denied
  <2> QED BY <2>8, <2>9, <2>10, <2>11, <2>12 DEF CallInv
<1>2. ASSUME TaskCharge(c) PROVE CallInv(c)'
  <2>1. /\ pc[c] = "taskcharge" /\ judged' = judged /\ written' = written
        /\ announced' = announced /\ prior' = prior
    BY <1>2 DEF TaskCharge
  <2>2. \/ pc'[c] = "create" /\ reply'[c] = reply[c] /\ charged'[c] = charged[c] + 1
        \/ pc'[c] = "done" /\ reply'[c] \in {reply[c], "limited"} /\ charged'[c] = charged[c]
    BY <1>2 DEF TaskCharge, Pay, Goto, Reply, Types
  <2>3. charged[c] = 0 /\ written[c] = {} /\ announced[c] = {} /\ ~IsReplay(c) /\ call[c].tasks
    BY <1>c, <2>1 DEF CallInv, Paid, Written
  <2>4. Fresh(c)' /\ Judged(c)'
    BY <1>c, <1>s, <2>1, <2>2, <2>3 DEF CallInv, Fresh, Judged
  <2>5. Paid(c)'
    BY <1>c, <1>s, <2>1, <2>2, <2>3 DEF CallInv, Paid
  <2>6. Written(c)' /\ Denied(c)'
    BY <1>c, <2>1, <2>2, <2>3 DEF CallInv, Written, Denied
  <2> QED BY <2>4, <2>5, <2>6 DEF CallInv
<1>3. ASSUME Judge(c) PROVE CallInv(c)'
  <2>1. /\ pc[c] = "judge" /\ charged' = charged /\ written' = written /\ announced' = announced
    BY <1>3 DEF Judge
  <2>2. \/ /\ pc'[c] = "rejudge" /\ reply'[c] = reply[c]
           /\ judged'[c] = judged[c] \cup {Sent(c)} /\ Admitted(c, Sent(c))
        \/ /\ pc'[c] = "done" /\ reply'[c] \in {reply[c], "forbidden"} /\ judged'[c] = judged[c]
    BY <1>3 DEF Judge, Goto, Reply, Types
  <2>3. /\ charged[c] = 0 /\ written[c] = {} /\ announced[c] = {} /\ reply[c] # "ok"
        /\ call[c].who \in Principals
    BY <1>c, <2>1 DEF CallInv, Paid, Written, Fresh
  <2>4. Fresh(c)' /\ Paid(c)'
    BY <1>c, <1>s, <2>1, <2>2, <2>3 DEF CallInv, Fresh, Paid
  <2>5. Judged(c)'
    BY <1>c, <1>s, <1>g, <2>1, <2>2, <2>3 DEF CallInv, Judged, Admitted
  <2>6. Written(c)' /\ Denied(c)'
    BY <1>c, <2>1, <2>2, <2>3 DEF CallInv, Written, Denied
  <2> QED BY <2>4, <2>5, <2>6 DEF CallInv
<1>4. ASSUME Rejudge(c) PROVE CallInv(c)'
  <2>1. /\ pc[c] = "rejudge" /\ charged' = charged /\ written' = written
        /\ announced' = announced /\ prior' = prior /\ Args(c)' = Args(c)
    BY <1>4, <1>s, SameArgs DEF Rejudge
  <2>2. \/ /\ pc'[c] = "charge" /\ reply'[c] = reply[c]
           /\ \/ judged'[c] = judged[c] /\ Args(c) = Sent(c)
              \/ judged'[c] = judged[c] \cup {Args(c)} /\ Admitted(c, Args(c))
        \/ /\ pc'[c] = "done" /\ reply'[c] \in {reply[c], "forbidden"} /\ judged'[c] = judged[c]
    BY <1>4 DEF Rejudge, Goto, Reply, Types
  <2>3. /\ charged[c] = 0 /\ written[c] = {} /\ announced[c] = {} /\ reply[c] # "ok"
        /\ call[c].who \in Principals /\ Sent(c) \in judged[c]
    BY <1>c, <2>1 DEF CallInv, Paid, Written, Fresh, Judged
  <2>4. Fresh(c)' /\ Paid(c)'
    BY <1>c, <1>s, <2>1, <2>2, <2>3 DEF CallInv, Fresh, Paid
  <2>5. Judged(c)'
    BY <1>c, <1>s, <1>g, <2>1, <2>2, <2>3 DEF CallInv, Judged, Admitted
  <2>6. Written(c)' /\ Denied(c)'
    BY <1>c, <2>1, <2>2, <2>3 DEF CallInv, Written, Denied
  <2> QED BY <2>4, <2>5, <2>6 DEF CallInv
<1>5. ASSUME Charge(c) PROVE CallInv(c)'
  <2>1. /\ pc[c] = "charge" /\ judged' = judged /\ written' = written
        /\ announced' = announced /\ prior' = prior /\ Args(c)' = Args(c)
    BY <1>5, <1>s, SameArgs DEF Charge
  <2>2. /\ pc'[c] \in {"run", "done"} /\ reply'[c] \in {reply[c], "declined", "limited"}
        /\ pc'[c] = "run" => reply'[c] = reply[c]
        /\ \/ charged'[c] = charged[c] /\ (pc'[c] = "done" \/ IsReplay(c))
           \/ charged'[c] = charged[c] + 1 /\ ~IsReplay(c)
    BY <1>5 DEF Charge, Pay, Goto, Reply, Types
  <2>3. /\ charged[c] = 0 /\ written[c] = {} /\ announced[c] = {}
        /\ reply[c] \notin {"ok", "forbidden"} /\ Args(c) \in judged[c]
    BY <1>c, <2>1 DEF CallInv, Paid, Written, Judged
  <2>4. Fresh(c)' /\ Judged(c)'
    BY <1>c, <1>s, <2>1, <2>2, <2>3 DEF CallInv, Fresh, Judged
  <2>o. IsReplay(c) => charged'[call[c].origin] = 1
    <3>1. ASSUME IsReplay(c) PROVE charged' = charged
      BY <1>5, <3>1 DEF Charge
    <3> QED BY <1>c, <3>1 DEF CallInv, Paid
  <2>5. Paid(c)'
    BY <1>c, <1>s, <2>1, <2>2, <2>3, <2>o DEF CallInv, Paid
  <2>6. Written(c)' /\ Denied(c)'
    BY <1>c, <2>1, <2>2, <2>3 DEF CallInv, Written, Denied
  <2> QED BY <2>4, <2>5, <2>6 DEF CallInv
<1>6. ASSUME Run(c) \/ Render(c) \/ Bounded(c) PROVE CallInv(c)'
  <2>1. /\ judged' = judged /\ charged' = charged /\ written' = written
        /\ announced' = announced /\ prior' = prior /\ Args(c)' = Args(c)
    BY <1>6, <1>s, SameArgs DEF Run, Render, Bounded, ended
  <2>2. \/ /\ pc[c] = "run" /\ pc'[c] = "working" /\ reply'[c] = reply[c]
        \/ /\ pc[c] = "run" /\ pc'[c] = "done" /\ reply'[c] \in {reply[c], "forbidden"}
           /\ ~Admitted(c, Args(c))
        \/ /\ pc[c] \in {"render", "deliver"} /\ reply'[c] \in {reply[c], "error", "large"}
           /\ pc'[c] \in {"deliver", "announce", "done"}
           /\ pc'[c] # "done" => reply'[c] = reply[c]
    BY <1>6 DEF Run, Render, Bounded, Goto, Reply, Types
  <2>3. /\ announced[c] = {} /\ reply[c] \notin {"ok", "forbidden"} /\ Args(c) \in judged[c]
        /\ pc[c] = "run" => written[c] = {}
        /\ pc[c] \in {"render", "deliver"} => written[c] = {Args(c)}
        /\ call[c].who \in Principals
        /\ IF IsReplay(c) THEN charged[c] = 0 ELSE charged[c] = 1
    BY <1>c, <2>2 DEF CallInv, Paid, Written, Judged, Fresh
  <2>4. Fresh(c)' /\ Judged(c)'
    BY <1>c, <1>s, <2>1, <2>2, <2>3 DEF CallInv, Fresh, Judged
  <2>5. Paid(c)'
    BY <1>c, <1>s, <2>1, <2>2, <2>3 DEF CallInv, Paid
  <2>6. Written(c)'
    BY <1>c, <2>1, <2>2, <2>3 DEF CallInv, Written
  <2>7. Denied(c)'
    <3>1. Args(c)[Route] \in Grants[call[c].who]
      BY <1>c, <2>3 DEF CallInv, Judged
    <3>2. ~Admitted(c, Args(c)) => granted[call[c].who] # Grants[call[c].who]
      BY <3>1 DEF Admitted
    <3>3. reply'[c] = "forbidden" => ~Admitted(c, Args(c))
      BY <2>2, <2>3
    <3> QED BY <1>s, <3>2, <3>3 DEF Denied
  <2> QED BY <2>4, <2>5, <2>6, <2>7 DEF CallInv
<1>7. ASSUME Service(c) PROVE CallInv(c)'
  <2>1. /\ judged' = judged /\ charged' = charged /\ announced' = announced /\ prior' = prior
        /\ Args(c)' = Args(c) /\ pc[c] = "working"
    BY <1>7, <1>s, SameArgs DEF Service, ServiceCommits, ServiceFails, ServiceAsks
  <2>2. \/ /\ pc'[c] = "render" /\ written'[c] = {Args(c)} /\ reply'[c] = reply[c]
        \/ /\ pc'[c] = "done" /\ reply'[c] \in {reply[c], "error", "form"}
           /\ written'[c] \in {written[c], {}, {Args(c)}}
    BY <1>7 DEF Service, ServiceCommits, ServiceFails, ServiceAsks, Goto, Reply, Types, Nothing
  <2>3. /\ announced[c] = {} /\ reply[c] \notin {"ok", "forbidden"} /\ Args(c) \in judged[c]
        /\ written[c] = {} /\ call[c].who \in Principals
        /\ IF IsReplay(c) THEN charged[c] = 0 ELSE charged[c] = 1
    BY <1>c, <2>1 DEF CallInv, Paid, Written, Judged, Fresh
  <2>4. Fresh(c)' /\ Judged(c)'
    BY <1>c, <1>s, <2>1, <2>2, <2>3 DEF CallInv, Fresh, Judged
  <2>5. Paid(c)'
    BY <1>c, <1>s, <2>1, <2>2, <2>3 DEF CallInv, Paid
  <2>6. Written(c)' /\ Denied(c)'
    BY <1>c, <2>1, <2>2, <2>3 DEF CallInv, Written, Denied
  <2> QED BY <2>4, <2>5, <2>6 DEF CallInv
<1>8. ASSUME Announce(c) PROVE CallInv(c)'
  <2>1. /\ judged' = judged /\ charged' = charged /\ written' = written /\ prior' = prior
        /\ Args(c)' = Args(c) /\ pc[c] = "announce"
    BY <1>8, <1>s, SameArgs DEF Announce
  <2>2. /\ pc'[c] = "done" /\ reply'[c] \in {reply[c], "ok"} /\ announced'[c] = {Args(c)}
    BY <1>8 DEF Announce, Reply, Types
  <2>3. /\ announced[c] = {} /\ reply[c] \notin {"ok", "forbidden"} /\ Args(c) \in judged[c]
        /\ written[c] = {Args(c)} /\ call[c].who \in Principals
    BY <1>c, <2>1 DEF CallInv, Paid, Written, Judged, Fresh
  <2>4. Fresh(c)' /\ Judged(c)'
    BY <1>c, <1>s, <2>1, <2>2, <2>3 DEF CallInv, Fresh, Judged
  <2>5. Paid(c)'
    BY <1>c, <1>s, <2>1, <2>2, <2>3 DEF CallInv, Paid
  <2>6. Written(c)' /\ Denied(c)'
    BY <1>c, <2>1, <2>2, <2>3 DEF CallInv, Written, Denied
  <2> QED BY <2>4, <2>5, <2>6 DEF CallInv
<1>9. ASSUME Timeout(c) \/ Disconnect(c) PROVE CallInv(c)'
  <2>1. /\ judged' = judged /\ charged' = charged /\ written' = written /\ prior' = prior
        /\ announced' = announced /\ Args(c)' = Args(c) /\ reply[c] = "none"
        /\ pc[c] \notin {"idle", "done"} /\ ~IsReplay(c)
    BY <1>9, <1>s, SameArgs DEF Timeout, Disconnect, Abandon, ended, Answered
  <2>2. pc'[c] \in {pc[c], "done"} /\ reply'[c] \in {"timeout", "gone"}
    BY <1>9 DEF Timeout, Disconnect, Abandon, Types
  <2>4. Fresh(c)' /\ Judged(c)'
    BY <1>c, <1>s, <2>1, <2>2 DEF CallInv, Fresh, Judged
  <2>5. Paid(c)'
    BY <1>c, <1>s, <2>1, <2>2 DEF CallInv, Paid
  <2>6. Written(c)' /\ Denied(c)'
    BY <1>c, <2>1, <2>2 DEF CallInv, Written, Denied
  <2> QED BY <2>4, <2>5, <2>6 DEF CallInv
<1>10. CallInv(c)'
  BY <1>1, <1>2, <1>3, <1>4, <1>5, <1>6, <1>7, <1>8, <1>9 DEF Dispatch
<1>11. charged' = charged \/ charged[c] = 0
  <2>1. (TaskCharge(c) \/ Charge(c)) \/ charged' = charged
    BY DEF Preflight, GateInline, GateRefused, TaskJudge, Dispatch, Judge, Rejudge, Run, Render,
           Bounded, Announce, Service, ServiceCommits, ServiceFails, ServiceAsks, Timeout,
           Disconnect, Abandon, ended
  <2>2. TaskCharge(c) \/ Charge(c) => charged[c] = 0
    BY <1>c DEF TaskCharge, Charge, CallInv, Paid
  <2> QED BY <2>1, <2>2
<1>12. \A d \in Calls \ {c} : Kept(d)
  <2> SUFFICES ASSUME NEW d \in Calls, d # c PROVE Kept(d)
    OBVIOUS
  <2> USE <1>s DEF Kept
  <2>1. CASE Preflight(c) \/ GateInline(c) \/ GateRefused(c) \/ TaskJudge(c)
    BY <2>1 DEF Preflight, GateInline, GateRefused, TaskJudge, ended, Goto, Reply, Types
  <2>2. CASE TaskCharge(c) \/ Charge(c)
    BY <2>2 DEF TaskCharge, Charge, Pay, Goto, Reply, Types
  <2>3. CASE Judge(c) \/ Rejudge(c)
    BY <2>3 DEF Judge, Rejudge, Goto, Reply, Types
  <2>4. CASE Run(c) \/ Render(c) \/ Bounded(c) \/ Announce(c)
    BY <2>4 DEF Run, Render, Bounded, Announce, ended, Goto, Reply, Types
  <2>5. CASE Service(c)
    BY <2>5 DEF Service, ServiceCommits, ServiceFails, ServiceAsks, Goto, Reply, Types
  <2>6. CASE Timeout(c) \/ Disconnect(c)
    BY <2>6 DEF Timeout, Disconnect, Abandon, ended, Types
  <2> QED BY <2>1, <2>2, <2>3, <2>4, <2>5, <2>6 DEF Dispatch
<1> QED BY <1>s, <1>10, <1>11, <1>12, OneCall

\* What holds of each call is kept by every step.
LEMMA CallsKept ==
  Types /\ Withdrawn /\ (\A c \in Calls : CallInv(c)) /\ [Next]_vars
    => Withdrawn' /\ \A c \in Calls : CallInv(c)'
<1> SUFFICES ASSUME Types, Withdrawn, \A c \in Calls : CallInv(c), [Next]_vars
             PROVE  Withdrawn' /\ \A c \in Calls : CallInv(c)'
  OBVIOUS
<1> USE ToolCallAssumption
<1>1. ASSUME NEW c \in Calls, Arrive(c) PROVE Withdrawn' /\ \A d \in Calls : CallInv(d)'
  <2>1. PICK request \in [who : Principals, tool : Tools, raw : Arguments, tasks : TaskFlags,
                     forms : FormFlags, answer : Offered, state : tokens \cup {NoState},
                     stream : StreamFlags, origin : {NoCall}] :
          /\ call' = [call EXCEPT ![c] = request]
          /\ Goto(c, IF request.stream THEN "preflight" ELSE "gate")
    BY <1>1 DEF Arrive
  <2>2. request.who \in Principals /\ request.origin = NoCall
    BY <2>1
  <2>3. /\ call'[c] = request /\ pc'[c] \in {"preflight", "gate"} /\ reply' = reply
        /\ pc[c] = "idle" /\ UNCHANGED ended
    BY <1>1, <2>1 DEF Arrive, Goto, Types
  <2>4. /\ reply[c] = "none" /\ judged[c] = {} /\ charged[c] = 0 /\ written[c] = {}
        /\ announced[c] = {}
    BY <2>3 DEF CallInv, Fresh, Judged, Paid, Written, Gated, Judging, After
  <2>5. CallInv(c)'
    BY <2>2, <2>3, <2>4 DEF CallInv, Fresh, Judged, Paid, Written, Denied, IsReplay, ended,
                            Gated, Judging, Tasking, Running, After
  <2>6. \A d \in Calls \ {c} : Kept(d)
    BY <2>1, <2>3 DEF Kept, Types, Goto, ended
  <2>7. \A d \in Calls : CallInv(d)'
    BY <2>3, <2>5, <2>6, OneCall DEF ended
  <2> QED BY <2>3, <2>7 DEF Withdrawn, ended
<1>2. ASSUME NEW c \in Calls, NEW d \in Calls, TaskCreate(c, d)
      PROVE  Withdrawn' /\ \A e \in Calls : CallInv(e)'
  <2>1. /\ pc[c] = "create" /\ pc[d] = "idle" /\ c # d /\ UNCHANGED ended
        /\ call'[d] = Replay(c) /\ call'[c] = call[c]
        /\ pc'[c] = "done" /\ pc'[d] = "gate"
        /\ reply'[c] \in {reply[c], "task"} /\ reply'[d] = reply[d]
    BY <1>2 DEF TaskCreate, Types
  <2>2. /\ call[c].tasks /\ ~IsReplay(c) /\ charged[c] = 1 /\ call[c].who \in Principals
        /\ written[c] = {} /\ announced[c] = {} /\ reply[c] \notin {"ok", "forbidden"}
    BY <2>1 DEF CallInv, Fresh, Paid, Written, Tasking, After
  <2>3. Sent(c)' = Sent(c) /\ IsReplay(c)' = IsReplay(c) /\ Args(c)' = Args(c)
    BY <2>1, SameArgs DEF ended
  <2>4. CallInv(c)'
    <3>1. Fresh(c)' /\ Judged(c)'
      BY <2>1, <2>2, <2>3 DEF CallInv, Fresh, Judged, ended, Running, After
    <3>2. Paid(c)'
      BY <2>1, <2>2, <2>3 DEF Paid, ended, Running, After, Gated, Judging, Tasking
    <3>3. Written(c)' /\ Denied(c)'
      BY <2>1, <2>2, <2>3 DEF Written, Denied, ended, After
    <3> QED BY <3>1, <3>2, <3>3 DEF CallInv
  <2>5. /\ call'[d].who \in Principals /\ call'[d].origin = c /\ ~call'[d].tasks
    BY <2>1, <2>2 DEF Replay, Blank
  <2>6. /\ reply[d] = "none" /\ judged[d] = {} /\ charged[d] = 0 /\ written[d] = {}
        /\ announced[d] = {}
    BY <2>1 DEF CallInv, Fresh, Judged, Paid, Written, Gated, Judging, After
  <2>7. CallInv(d)'
    <3>1. Fresh(d)' /\ Judged(d)'
      BY <2>1, <2>5, <2>6 DEF Fresh, Judged, ended, Running, After
    <3>2. Paid(d)'
      BY <2>1, <2>2, <2>5, <2>6 DEF Paid, IsReplay, ended, Running, After, Gated, Judging, Tasking
    <3>3. Written(d)' /\ Denied(d)'
      BY <2>1, <2>6 DEF Written, Denied, ended, After
    <3> QED BY <3>1, <3>2, <3>3 DEF CallInv
  <2>8. ASSUME NEW e \in Calls \ {c, d} PROVE CallInv(e)'
    <3>1. Kept(e) /\ granted' = granted /\ charged' = charged
      BY <1>2, <2>1 DEF Kept, TaskCreate, Types, ended
    <3> QED BY <3>1, OthersKept
  <2> QED BY <2>1, <2>4, <2>7, <2>8 DEF Withdrawn, ended
<1>3. ASSUME NEW c \in Calls,
             \/ Preflight(c) \/ GateInline(c) \/ GateRefused(c) \/ TaskJudge(c) \/ TaskCharge(c)
             \/ Dispatch(c) \/ Service(c) \/ Timeout(c) \/ Disconnect(c)
      PROVE  Withdrawn' /\ \A d \in Calls : CallInv(d)'
  <2>1. granted' = granted
    BY <1>3 DEF Preflight, GateInline, GateRefused, TaskJudge, TaskCharge, Dispatch, Judge,
           Rejudge, Charge, Run, Render, Bounded, Announce, Service, ServiceCommits,
           ServiceFails, ServiceAsks, Timeout, Disconnect, Abandon, ended
  <2> QED BY <1>3, <2>1, CallStep DEF Withdrawn
<1>4. ASSUME NEW p \in Principals, Revoke(p) PROVE Withdrawn' /\ \A c \in Calls : CallInv(c)'
  <2>1. Withdrawn'
    BY <1>4 DEF Revoke, Withdrawn, Types
  <2>2. ASSUME NEW q \in Principals, granted[q] # Grants[q] PROVE granted'[q] # Grants[q]
    BY <1>4, <2>2 DEF Revoke, Withdrawn, Types
  <2>3. ASSUME NEW c \in Calls PROVE CallInv(c)'
    <3>1. Kept(c) /\ charged' = charged
      BY <1>4 DEF Revoke, Kept
    <3>2. Sent(c)' = Sent(c) /\ Args(c)' = Args(c) /\ IsReplay(c)' = IsReplay(c)
      BY <3>1, SameArgs DEF Kept
    <3>3. Fresh(c)' /\ Judged(c)' /\ Paid(c)' /\ Written(c)'
      BY <3>1, <3>2 DEF CallInv, Fresh, Judged, Paid, Written, Kept
    <3>4. Denied(c)'
      <4>1. pc[c] # "idle" => call[c].who \in Principals
        BY DEF CallInv, Fresh
      <4>2. pc[c] = "idle" => reply[c] = "none"
        BY DEF CallInv, Fresh
      <4> QED BY <2>2, <3>1, <4>1, <4>2 DEF CallInv, Denied, Kept
    <3> QED BY <3>3, <3>4 DEF CallInv
  <2> QED BY <2>1, <2>3
<1>5. ASSUME (\E s \in tokens : Expire(s)) \/ UNCHANGED vars
      PROVE  Withdrawn' /\ \A c \in Calls : CallInv(c)'
  <2>1. granted' = granted /\ charged' = charged /\ \A c \in Calls : Kept(c)
    BY <1>5 DEF Expire, Kept, vars
  <2> QED BY <2>1, OthersKept DEF Withdrawn
<1> QED BY <1>1, <1>2, <1>3, <1>4, <1>5 DEF Next, Gate

-----------------------------------------------------------------------------
(* Who gave the answers.                                                   *)

\* A call that arrived stays what it was, so what it gave stays given.
LEMMA GaveStays ==
  ASSUME Types, \A c \in Calls : Fresh(c),
         \A c \in Calls : pc[c] # "idle" => call'[c] = call[c],
         NEW who, NEW tool, NEW args, NEW n, NEW v, Gave(who, tool, args, n, v)
  PROVE  Gave(who, tool, args, n, v)'
<1>1. PICK d \in Calls :
        /\ call[d].who = who /\ call[d].tool = tool /\ Sent(d) = args
        /\ call[d].answer.action = "accept" /\ call[d].answer.content[n] = v
  BY DEF Gave
<1>2. pc[d] # "idle"
  BY <1>1 DEF Fresh, Blank, NoAnswer
<1>3. call'[d] = call[d] /\ Sent(d)' = Sent(d)
  BY <1>2, SameArgs
<1> QED BY <1>1, <1>3 DEF Gave

\* Every step keeps what a state or a form carries to what its client gave.
LEMMA AuthoredKept ==
  Types /\ Authored /\ (\A c \in Calls : CallInv(c)) /\ [Next]_vars => Authored'
<1> SUFFICES ASSUME Types, Authored, \A c \in Calls : CallInv(c), [Next]_vars
             PROVE  Authored'
  OBVIOUS
<1> USE ToolCallAssumption
<1>f. \A c \in Calls : Fresh(c)
  BY DEF CallInv
<1>1. ASSUME NEW c \in Calls, Arrive(c) \/ \E d \in Calls : TaskCreate(d, c) PROVE Authored'
  <2>1. /\ tokens' = tokens /\ prior' = prior /\ pc[c] = "idle"
        /\ \A d \in Calls : d # c => call'[d] = call[d]
        /\ call'[c].answer \in Offered \cup {NoAnswer}
    <3>1. CASE Arrive(c)
      BY <3>1 DEF Arrive, ended, Types
    <3>2. CASE \E d \in Calls : TaskCreate(d, c)
      BY <3>2 DEF TaskCreate, ended, Types, Replay, Blank
    <3> QED BY <1>1, <3>1, <3>2
  <2>2. call'[c].answer.action # "accept" => call'[c].answer.content = None
    <3>1. CASE call'[c].answer = NoAnswer
      BY <3>1 DEF NoAnswer
    <3>2. CASE call'[c].answer \in [action : {"accept"}, content : Arguments]
      BY <3>2
    <3>3. CASE call'[c].answer \in [action : {"refuse"}, content : {None}]
      BY <3>3
    <3> QED BY <2>1, <3>1, <3>2, <3>3 DEF Offered
  <2>3. \A d \in Calls : pc[d] # "idle" => call'[d] = call[d]
    BY <2>1
  <2>4. ASSUME NEW d \in Calls, NEW n \in Names, prior'[d].carried[n] # Unset
        PROVE  Gave(call[d].who, call[d].tool, Sent(d), n, prior[d].carried[n])' /\ d # c
    <3>1. Gave(call[d].who, call[d].tool, Sent(d), n, prior[d].carried[n])
      BY <2>1, <2>4 DEF Authored
    <3>2. d # c
      BY <1>f, <2>1, <2>4 DEF Fresh, NoPrior, None
    <3>3. call'[d] = call[d] /\ Sent(d)' = Sent(d) /\ prior'[d] = prior[d]
      BY <2>1, <3>2, SameArgs
    <3>4. \A who, tool, args, v :
            Gave(who, tool, args, n, v) => Gave(who, tool, args, n, v)'
      BY <1>f, <2>3, GaveStays
    <3> QED BY <3>1, <3>2, <3>3, <3>4
  <2>5. ASSUME NEW s \in tokens', NEW n \in Names, s.answers[n] # Unset
        PROVE  Gave(s.who, s.tool, s.args, n, s.answers[n])'
    BY <1>f, <2>1, <2>3, <2>5, GaveStays DEF Authored
  <2> QED BY <2>1, <2>2, <2>4, <2>5 DEF Authored
<1>g. ASSUME call' = call, NEW who, NEW tool, NEW args, NEW n, NEW v, Gave(who, tool, args, n, v)
      PROVE  Gave(who, tool, args, n, v)'
  BY <1>f, <1>g, GaveStays
<1>s. ASSUME call' = call, NEW c \in Calls PROVE Sent(c)' = Sent(c)
  BY <1>s, SameArgs
<1>2. ASSUME call' = call, prior' = prior,
             \A s \in tokens' : s \in tokens \/ \E c \in Calls :
               /\ s.who = call[c].who /\ s.tool = call[c].tool /\ s.args = Sent(c)
               /\ s.answers = prior[c].carried
      PROVE  Authored'
  <2>1. ASSUME NEW s \in tokens', NEW n \in Names, s.answers[n] # Unset
        PROVE  Gave(s.who, s.tool, s.args, n, s.answers[n])'
    <3>1. Gave(s.who, s.tool, s.args, n, s.answers[n])
      <4>1. CASE s \in tokens
        BY <2>1, <4>1 DEF Authored
      <4>2. CASE s \notin tokens
        <5>1. PICK c \in Calls :
                /\ s.who = call[c].who /\ s.tool = call[c].tool /\ s.args = Sent(c)
                /\ s.answers = prior[c].carried
          BY <1>2, <4>2
        <5>2. Gave(call[c].who, call[c].tool, Sent(c), n, prior[c].carried[n])
          BY <2>1, <5>1 DEF Authored
        <5> QED BY <5>1, <5>2
      <4> QED BY <4>1, <4>2
    <3> QED BY <1>2, <1>g, <3>1
  <2>2. ASSUME NEW c \in Calls, NEW n \in Names, prior'[c].carried[n] # Unset
        PROVE  Gave(call[c].who, call[c].tool, Sent(c), n, prior[c].carried[n])'
    <3>1. Gave(call[c].who, call[c].tool, Sent(c), n, prior[c].carried[n])
      BY <1>2, <2>2 DEF Authored
    <3>2. Sent(c)' = Sent(c)
      BY <1>2, <1>s
    <3> QED BY <1>2, <1>g, <3>1, <3>2
  <2> QED BY <1>2, <2>1, <2>2 DEF Authored
<1>3. ASSUME NEW c \in Calls, Judge(c) PROVE Authored'
  <2>1. /\ call' = call /\ tokens' = tokens
        /\ \A d \in Calls : prior'[d] \in {prior[d], Resolved(c)}
        /\ \A d \in Calls : d # c => prior'[d] = prior[d]
    BY <1>3 DEF Judge, Types
  <2>2. ASSUME NEW n \in Names, Resolved(c).carried[n] # Unset
        PROVE  Gave(call[c].who, call[c].tool, Sent(c), n, Resolved(c).carried[n])
    <3> DEFINE s == Verified(c)
    <3> DEFINE a == call[c].answer
    <3>1. Resolved(c).carried = IF a.action = "refuse" THEN None ELSE Over(a.content, s.answers)
      BY DEF Resolved
    <3>2. Resolved(c).carried[n] = IF a.content[n] # Unset THEN a.content[n] ELSE s.answers[n]
      BY <2>2, <3>1 DEF None, Over
    <3>3. CASE a.content[n] # Unset
      <4>1. a.action = "accept"
        BY <3>3 DEF Authored, None
      <4> QED BY <3>2, <3>3, <4>1 DEF Gave
    <3>4. CASE a.content[n] = Unset
      <4>1. s.answers[n] # Unset
        BY <2>2, <3>2, <3>4
      <4>2. s # NoState
        BY <4>1 DEF NoState, None
      <4>3. s \in tokens /\ s.who = call[c].who /\ s.tool = call[c].tool /\ s.args = Sent(c)
        BY <4>2 DEF Verified, Fingerprint
      <4>4. Gave(s.who, s.tool, s.args, n, s.answers[n])
        BY <4>1, <4>3 DEF Authored
      <4> QED BY <3>2, <3>4, <4>3, <4>4
    <3> QED BY <3>3, <3>4
  <2>3. ASSUME NEW d \in Calls, NEW n \in Names, prior'[d].carried[n] # Unset
        PROVE  Gave(call[d].who, call[d].tool, Sent(d), n, prior[d].carried[n])'
    <3>1. Gave(call[d].who, call[d].tool, Sent(d), n, prior'[d].carried[n])
      <4>1. CASE prior'[d] = prior[d]
        BY <2>3, <4>1 DEF Authored
      <4>2. CASE prior'[d] # prior[d]
        BY <2>1, <2>2, <2>3, <4>2
      <4> QED BY <4>1, <4>2
    <3>2. Sent(d)' = Sent(d)
      BY <2>1, <1>s
    <3>3. \A v : Gave(call[d].who, call[d].tool, Sent(d), n, v)
               => Gave(call[d].who, call[d].tool, Sent(d), n, v)'
      <4> SUFFICES ASSUME NEW v, Gave(call[d].who, call[d].tool, Sent(d), n, v)
                   PROVE  Gave(call[d].who, call[d].tool, Sent(d), n, v)'
        OBVIOUS
      <4>1. PICK e \in Calls :
              /\ call[e].who = call[d].who /\ call[e].tool = call[d].tool /\ Sent(e) = Sent(d)
              /\ call[e].answer.action = "accept" /\ call[e].answer.content[n] = v
        BY DEF Gave
      <4>2. Sent(e)' = Sent(e)
        BY <2>1, <1>s
      <4> QED BY <2>1, <3>2, <4>1, <4>2 DEF Gave
    <3> QED BY <3>1, <3>3
  <2>4. ASSUME NEW s \in tokens', NEW n \in Names, s.answers[n] # Unset
        PROVE  Gave(s.who, s.tool, s.args, n, s.answers[n])'
    BY <1>g, <2>1, <2>4 DEF Authored
  <2> QED BY <2>1, <2>3, <2>4 DEF Authored
<1>4. ASSUME NEW c \in Calls,
             \/ Preflight(c) \/ GateInline(c) \/ GateRefused(c) \/ TaskJudge(c) \/ TaskCharge(c)
             \/ Rejudge(c) \/ Charge(c) \/ Run(c) \/ Render(c) \/ Bounded(c) \/ Announce(c)
             \/ Service(c) \/ Timeout(c) \/ Disconnect(c)
      PROVE  Authored'
  <2>1. call' = call /\ prior' = prior
    BY <1>4 DEF Preflight, GateInline, GateRefused, TaskJudge, TaskCharge, Rejudge, Charge, Run,
           Render, Bounded, Announce, Service, ServiceCommits, ServiceFails, ServiceAsks,
           Timeout, Disconnect, Abandon, ended
  <2>2. CASE ServiceAsks(c)
    BY <1>2, <2>1, <2>2 DEF ServiceAsks
  <2>3. CASE ~ServiceAsks(c)
    <3>1. tokens' = tokens
      BY <1>4, <2>3 DEF Preflight, GateInline, GateRefused, TaskJudge, TaskCharge, Rejudge,
             Charge, Run, Render, Bounded, Announce, Service, ServiceCommits, ServiceFails,
             Timeout, Disconnect, Abandon, ended
    <3> QED BY <1>2, <2>1, <3>1
  <2> QED BY <2>2, <2>3
<1>5. CASE (\E p \in Principals : Revoke(p)) \/ (\E s \in tokens : Expire(s)) \/ UNCHANGED vars
  <2>1. call' = call /\ prior' = prior /\ tokens' \subseteq tokens
    BY <1>5 DEF Revoke, Expire, vars
  <2> QED BY <1>2, <2>1
<1> QED BY <1>1, <1>3, <1>4, <1>5 DEF Next, Gate, Dispatch

-----------------------------------------------------------------------------
(* The theorems.                                                           *)

\* The invariant at the start.
LEMMA InvInit == Init => Inv
<1> SUFFICES ASSUME Init PROVE Inv
  OBVIOUS
<1> USE ToolCallAssumption DEF Init
<1>1. Types
  BY BlanksTyped DEF Types, Nothing, Places, Replies
<1>2. Withdrawn
  BY DEF Withdrawn
<1>3. Authored
  BY DEF Authored, Blank, NoAnswer, NoPrior, None
<1>4. ASSUME NEW c \in Calls PROVE CallInv(c)
  <2>1. /\ call[c] = Blank /\ pc[c] = "idle" /\ prior[c] = NoPrior /\ reply[c] = "none"
        /\ judged[c] = {} /\ charged[c] = 0 /\ written[c] = {} /\ announced[c] = {}
    BY DEF Nothing
  <2>2. ~IsReplay(c)
    BY <2>1 DEF IsReplay, Blank
  <2>3. Fresh(c) /\ Judged(c)
    BY <2>1 DEF Fresh, Judged, Running, After
  <2>4. Paid(c)
    BY <2>1, <2>2 DEF Paid, Running, After, Gated, Judging, Tasking
  <2>5. Written(c) /\ Denied(c)
    BY <2>1 DEF Written, Denied, After
  <2> QED BY <2>3, <2>4, <2>5 DEF CallInv
<1> QED BY <1>1, <1>2, <1>3, <1>4 DEF Inv

\* Every step keeps the invariant.
LEMMA InvNext == Inv /\ [Next]_vars => Inv'
BY TypesKept, CallsKept, AuthoredKept DEF Inv

\* The inductive invariant of the gates.
THEOREM GatesHold == Spec => []Inv
BY InvInit, InvNext, PTL DEF Spec

\* What a service runs on was judged for this call, has an author, and was paid for
\* once: by the call, or by the request that asked for the task.
THEOREM RunsAreAllowed == Spec => []RunsAllowed
<1>1. Inv => RunsAllowed
  <2> SUFFICES ASSUME Inv PROVE RunsAllowed
    OBVIOUS
  <2> USE ToolCallAssumption
  <2>1. ASSUME NEW c \in Calls, Ran(c)
        PROVE  pc[c] \in Running \/ written[c] # {}
    BY <2>1 DEF Ran, Running, After, Nothing
  <2>2. RunsJudged
    BY <2>1 DEF RunsJudged, Inv, CallInv, Judged
  <2>3. ASSUME NEW c \in Calls, NEW n \in Names
        PROVE  IF n \in Bound THEN Args(c)[n] = ServerValue[n] ELSE GaveValue(c, n, Args(c)[n])
    <3>1. CASE n \in Bound
      BY <3>1 DEF Args, Applied
    <3>2. CASE n \notin Bound
      <4>1. Args(c)[n] = IF prior[c].carried[n] # Unset THEN prior[c].carried[n] ELSE Sent(c)[n]
        BY <3>2 DEF Args, Applied, Over
      <4>2. CASE prior[c].carried[n] = Unset
        BY <3>2, <4>1, <4>2 DEF GaveValue
      <4>3. CASE prior[c].carried[n] # Unset
        <5>1. Gave(call[c].who, call[c].tool, Sent(c), n, Args(c)[n])
          BY <4>1, <4>3 DEF Inv, Authored
        <5> QED BY <3>2, <5>1 DEF Gave, GaveValue, Fingerprint
      <4> QED BY <4>2, <4>3
    <3> QED BY <3>1, <3>2
  <2>4. ArgumentsAccounted
    BY <2>3 DEF ArgumentsAccounted
  <2>5. PaidOnce
    BY <2>1 DEF PaidOnce, Inv, CallInv, Paid
  <2> QED BY <2>2, <2>4, <2>5 DEF RunsAllowed
<1> QED BY <1>1, GatesHold, PTL

\* A denial costs nothing, unless the grant went while the call ran.
THEOREM DenialsAreFree == Spec => []DenialIsFree
<1>1. Inv => DenialIsFree
  BY DEF Inv, CallInv, Denied, DenialIsFree
<1> QED BY <1>1, GatesHold, PTL

\* Subscribers hear only of what a service wrote, and before the client has its result.
THEOREM AnnouncementsAreWritten == Spec => []AnnouncedIsWritten
<1>1. Inv => AnnouncedIsWritten
  BY DEF Inv, CallInv, Written, AnnouncedIsWritten, Nothing
<1> QED BY <1>1, GatesHold, PTL
=============================================================================
