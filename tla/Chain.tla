------------------------------- MODULE Chain -------------------------------
(***************************************************************************)
(* The calls of chain tools: one permission check for the whole chain, one *)
(* charge, one validation, then the steps in order, inside one transaction *)
(* when the binding is atomic, and the rendering after it has ended.       *)
(*                                                                         *)
(* Calls run side by side in threads.  Between any two steps a grant can   *)
(* be withdrawn, the deadline of the async transport can answer the client *)
(* over the thread's head, and the process can die.                        *)
(***************************************************************************)
EXTENDS Naturals, Sequences, SequencesExt

CONSTANTS
  Calls,       \* calls of chain tools
  Chains,      \* chain bindings: name, atomic, steps, perms (the chain's own)
  Grants,      \* pairs of a permission and the view action it can admit; at first one
               \* may be missing
  MaxChanges,  \* bound: times the grants change
  MaxDeaths    \* bound: processes that die

\* A chain has a step (ChainToolBinding.__post_init__), and each runs a service or a selector.
ASSUME ChainAssumption ==
  \A k \in Chains :
    /\ k.atomic \in BOOLEAN
    /\ Len(k.steps) \in Nat \ {0} /\ DOMAIN k.steps = 1..Len(k.steps)
    /\ k.perms \in Seq(Range(k.perms))
    /\ \A i \in DOMAIN k.steps :
         /\ k.steps[i].kind \in {"service", "retrieve", "list"}
         /\ k.steps[i].perms \in Seq(Range(k.steps[i].perms))

VARIABLES
  grants,   \* the pairs admitted now
  run,      \* the binding of each call, and the step it is at
  at,       \* where each call stands
  work,     \* the steps that wrote inside each call's open transaction
  db,       \* the steps whose writes are committed
  reply,    \* what each client was answered
  heard,    \* the calls whose invalidations were published
  moved,    \* history: the calls judged before the latest change of the grants
  denied,   \* history: the calls a step's class permissions denied
  changes, deaths

chainVars == <<grants, run, at, work, db, reply, heard, moved, denied, changes, deaths>>

binding(c) == run[c].binding
step(c) == binding(c).steps[run[c].step]
ServiceSteps(k) == {i \in DOMAIN k.steps : k.steps[i].kind = "service"}

ChainInit ==
  /\ grants \in {Grants} \cup {Grants \ {g} : g \in Grants}
  /\ run \in [Calls -> [binding : Chains, step : {1}]]
  /\ at = [c \in Calls |-> "judge"]
  /\ work = [c \in Calls |-> {}]
  /\ db = [c \in Calls |-> {}]
  /\ reply = [c \in Calls |-> "none"]
  /\ heard = {} /\ moved = {} /\ denied = {}
  /\ changes = 0 /\ deaths = 0

-----------------------------------------------------------------------------
(* How a call goes on and how it ends.                                     *)

\* A client the deadline already answered hears nothing more.
Reply(c, r) == reply' = [reply EXCEPT ![c] = IF @ = "none" THEN r ELSE @]

Goto(c, l) == at' = [at EXCEPT ![c] = l]

End(c, r) == Reply(c, r) /\ Goto(c, "done")

\* An exception, or a step's error carried by _ChainAbort: the transaction of an
\* atomic chain rolls back, and without one what was written stands.
Abort(c, r) == End(c, r) /\ work' = [work EXCEPT ![c] = {}]

around == <<grants, heard, moved, denied, changes, deaths>>

-----------------------------------------------------------------------------
(* The permissions.  The binding keeps one sequence: each step's classes   *)
(* in order, then the chain's own.                                         *)

Permissions(k) == FlattenSeq([i \in DOMAIN k.steps |-> k.steps[i].perms]) \o k.perms

\* How many permissions come before step i's.
Before(k, i) == Len(FlattenSeq([j \in 1..(i - 1) |-> k.steps[j].perms]))

\* Mutant: every step is judged on the head of the sequence.
SliceFromHead(k, i) == SubSeq(Permissions(k), 1, Len(k.steps[i].perms))

\* The permissions judged against the view of step i.
Slice(k, i) == SubSeq(Permissions(k), Before(k, i) + 1, Before(k, i) + Len(k.steps[i].perms))

\* Each slice under its step's action, the rest under the chain's name.
Admitted(k) ==
  /\ \A i \in DOMAIN k.steps : \A p \in Range(Slice(k, i)) : <<p, k.steps[i].alias>> \in grants
  /\ \A j \in (Before(k, Len(k.steps) + 1) + 1)..Len(Permissions(k)) :
       <<Permissions(k)[j], k.name>> \in grants

Judge(c) ==
  /\ at[c] = "judge"
  /\ IF Admitted(binding(c)) THEN Goto(c, "charge") /\ UNCHANGED reply ELSE End(c, "forbidden")
  /\ moved' = moved \ {c}
  /\ UNCHANGED <<grants, run, work, db, heard, denied, changes, deaths>>

Charge(c) ==
  /\ at[c] = "charge"
  /\ \/ Goto(c, "validate") /\ UNCHANGED reply
     \/ End(c, "limited")
  /\ UNCHANGED <<run, work, db, around>>

Validate(c) ==
  /\ at[c] = "validate"
  /\ \/ Goto(c, "permit") /\ UNCHANGED reply
     \/ End(c, "invalid")
  /\ UNCHANGED <<run, work, db, around>>

-----------------------------------------------------------------------------
(* One step.                                                               *)

\* enforce_permissions, then the step's inputs, which are the consumer's code and
\* run outside the try.
Permit(c) ==
  /\ at[c] = "permit"
  /\ IF \A p \in Range(step(c).perms) : <<p, step(c).alias>> \in grants
     THEN /\ \/ Goto(c, step(c).kind) /\ UNCHANGED <<reply, work>>
             \/ Abort(c, "raised")
          /\ UNCHANGED denied
     ELSE Abort(c, "forbidden") /\ denied' = denied \cup {c}
  /\ UNCHANGED <<run, db, grants, heard, moved, changes, deaths>>

\* The target guard denies, or an affordance, a precondition or the service refuses
\* before it has written: the step's error names it.
Refuse(c) ==
  /\ at[c] \in {"service", "retrieve", "list"}
  /\ Abort(c, "forbidden") \/ Abort(c, "failed")
  /\ UNCHANGED <<run, db, around>>

\* Mutant: each service commits by itself, in an atomic chain too.
ServeCommitting(c) ==
  /\ at[c] = "service"
  /\ db' = [db EXCEPT ![c] = @ \cup {run[c].step}]
  /\ \/ Goto(c, "reread") /\ UNCHANGED <<reply, work>>
     \/ Abort(c, "failed")
     \/ Abort(c, "raised")
  /\ UNCHANGED <<run, around>>

\* run_service, with no transaction of its own: the write is the chain's, or stands.
\* The service can raise after it wrote.
Serve(c) ==
  /\ at[c] = "service"
  /\ db' = IF binding(c).atomic THEN db ELSE [db EXCEPT ![c] = @ \cup {run[c].step}]
  /\ \/ /\ work' = IF binding(c).atomic THEN [work EXCEPT ![c] = @ \cup {run[c].step}]
                  ELSE work
        /\ Goto(c, "reread") /\ UNCHANGED reply
     \/ Abort(c, "failed")
     \/ Abort(c, "raised")
  /\ UNCHANGED <<run, around>>

\* ctx.outputs holds the result; the next step, or the end of the transaction.
StepDone(c) ==
  /\ IF run[c].step < Len(binding(c).steps)
     THEN run' = [run EXCEPT ![c].step = @ + 1] /\ Goto(c, "permit")
     ELSE UNCHANGED run /\ Goto(c, "commit")
  /\ UNCHANGED <<reply, work>>

\* The output of a service: its return, a row re-read, which may be gone, or rows,
\* which may not: an error there is no tool error and leaves the chain raised.
Reread(c) ==
  /\ at[c] = "reread"
  /\ \/ StepDone(c)
     \/ step(c).presents \in {"rows", "reread rows"} /\ Abort(c, "raised") /\ UNCHANGED run
  /\ UNCHANGED <<db, around>>

\* A selector found its row or rows, or found none where none is allowed.
Select(c) ==
  /\ at[c] \in {"retrieve", "list"}
  /\ StepDone(c)
  /\ UNCHANGED <<db, around>>

\* _MissingInstance: no row, or a list that raised Http404.
Miss(c) ==
  /\ at[c] \in {"retrieve", "list"} /\ ~step(c).none
  /\ Abort(c, "failed")
  /\ UNCHANGED <<run, db, around>>

-----------------------------------------------------------------------------
(* The end.                                                                *)

\* Leaving transaction.atomic(); a deferred constraint may still fail.
Commit(c) ==
  /\ at[c] = "commit"
  /\ \/ /\ db' = [db EXCEPT ![c] = @ \cup work[c]]
        /\ work' = [work EXCEPT ![c] = {}]
        /\ Goto(c, "render") /\ UNCHANGED reply
     \/ binding(c).atomic /\ Abort(c, "raised") /\ UNCHANGED db
  /\ UNCHANGED <<run, around>>

\* Rendering comes after the commit: a serializer that raises, or a result over the
\* ceiling, answers an error over writes that stand.
Render(c) ==
  /\ at[c] = "render"
  /\ \/ reply[c] = "none" /\ Goto(c, "announce") /\ UNCHANGED reply
     \/ reply[c] = "timeout" /\ End(c, "timeout")
     \/ End(c, "unrendered")
     \/ End(c, "too large")
  /\ UNCHANGED <<run, work, db, around>>

\* Mutant: a tool error is announced too.
AnnounceAnyway(c) ==
  /\ at[c] \in {"announce", "render"}
  /\ End(c, "result")
  /\ heard' = heard \cup {c}
  /\ UNCHANGED <<grants, run, work, db, moved, denied, changes, deaths>>

\* announce_invalidations: a complete result only; a coroutine the deadline cancelled
\* does not get here.
Announce(c) ==
  /\ at[c] = "announce"
  /\ IF reply[c] = "none" THEN heard' = heard \cup {c} ELSE UNCHANGED heard
  /\ End(c, "result")
  /\ UNCHANGED <<grants, run, work, db, moved, denied, changes, deaths>>

\* The async transport answers; the thread goes on.
Timeout(c) ==
  /\ at[c] # "done" /\ reply[c] = "none"
  /\ reply' = [reply EXCEPT ![c] = "timeout"]
  /\ UNCHANGED <<run, at, work, db, around>>

\* The process dies: the database rolls an open transaction back.
Die(c) ==
  /\ at[c] # "done" /\ deaths < MaxDeaths
  /\ deaths' = deaths + 1
  /\ Goto(c, "done")
  /\ work' = [work EXCEPT ![c] = {}]
  /\ UNCHANGED <<run, db, reply, grants, heard, moved, denied, changes>>

\* A group or a token loses or regains what a permission reads.
Regrant ==
  /\ changes < MaxChanges
  /\ changes' = changes + 1
  /\ \E g \in Grants : grants' = IF g \in grants THEN grants \ {g} ELSE grants \cup {g}
  /\ moved' = Calls
  /\ UNCHANGED <<run, at, work, db, reply, heard, denied, deaths>>

ChainNext ==
  \/ Regrant
  \/ \E c \in Calls :
       \/ Judge(c) \/ Charge(c) \/ Validate(c)
       \/ Permit(c) \/ Refuse(c) \/ Serve(c) \/ Reread(c) \/ Select(c) \/ Miss(c)
       \/ Commit(c) \/ Render(c) \/ Announce(c) \/ Timeout(c) \/ Die(c)

ChainSpec == ChainInit /\ [][ChainNext]_chainVars

-----------------------------------------------------------------------------
(* What makes chains correct.                                              *)

\* The writes of an atomic chain are committed together or not at all, and once the
\* client was told of a denial, a refusal or a failed step, none is.  (A result
\* that fails to render, a timeout and a death say nothing about the writes.)
CommittedWhole ==
  \A c \in Calls : binding(c).atomic =>
    /\ db[c] \in {{}, ServiceSteps(binding(c))}
    /\ reply[c] \in {"forbidden", "limited", "invalid", "failed", "raised"} => db[c] = {}

\* A chain is not begun that its own steps' classes would deny: a step is denied
\* only when the grants changed after judge_tool_permissions read them.
DeniedLateOnlyByChange == denied \subseteq moved

\* Subscribers hear of a chain only when all its writes are committed and its client
\* was given the result.
HeardIsCommitted ==
  \A c \in heard : db[c] = ServiceSteps(binding(c)) /\ reply[c] = "result"

\* Both: what a chain wrote, and what the world hears of it, is all of it or nothing.
AllOrNothing == CommittedWhole /\ HeardIsCommitted

=============================================================================
