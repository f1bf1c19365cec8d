------------------------------ MODULE ToolCall ------------------------------
(***************************************************************************)
(* The gates the calls of service tools pass: the pre-flight of a streamed *)
(* call, the task gate, the permission check on the arguments as sent, the *)
(* fold of a form's answers, the second check on what they produced, the   *)
(* rate limit, the service, the result ceiling and the announcement.       *)
(*                                                                         *)
(* Calls run side by side: client requests on the event loop or in request *)
(* threads, and the replays by which workers run stored tasks.  A grant    *)
(* can be withdrawn, a requestState can expire and a client can leave      *)
(* between any two steps.                                                  *)
(***************************************************************************)
EXTENDS Naturals, FiniteSets

CONSTANTS
  Tools,        \* registered service tools
  Calls,        \* executions of a tool: requests, or replays of stored tasks
  NoCall,       \* the origin of a request
  Principals,   \* who may call
  Names,        \* argument names
  Values,       \* argument values
  Unset,        \* the value of an argument that is not there
  Route,        \* the argument the permissions read
  Bound,        \* the names the bindings' server_arguments supply or withhold
  ServerValue,  \* the value of each of them, Unset for a withheld one
  Grants,       \* the Route values each principal is admitted on at first
  SpecJudges,   \* is the permission a spec class, judged again by the dispatch view?
  Policy,       \* the task_policy of each tool
  CanRunTasks,  \* has the server a task store and an executor?
  TaskFlags,    \* do clients declare the tasks extension?
  FormFlags,    \* do clients declare elicitation?
  StreamFlags,  \* do clients send a progressToken, on the async transport?
  Deadline,     \* has the async transport a dispatch_timeout?
  Quota,        \* rate-limit units of each principal, one limiter for all tools
  MaxRounds     \* max_input_rounds

Arguments == [Names -> Values \cup {Unset}]

ASSUME ToolCallAssumption ==
  /\ NoCall \notin Calls /\ Unset \notin Values
  /\ Route \in Names /\ Bound \subseteq Names
  /\ ServerValue \in [Bound -> Values \cup {Unset}]
  /\ Grants \in [Principals -> SUBSET (Values \cup {Unset})]
  /\ SpecJudges \in BOOLEAN /\ CanRunTasks \in BOOLEAN /\ Deadline \in BOOLEAN
  /\ Policy \in [Tools -> {"forbidden", "optional", "required"}]
  /\ TaskFlags \subseteq BOOLEAN /\ FormFlags \subseteq BOOLEAN /\ StreamFlags \subseteq BOOLEAN
  /\ Quota \in Nat /\ MaxRounds \in Nat

VARIABLES
  call,       \* what each call carries
  pc,         \* where each call stands
  prior,      \* what resolve_prior_input made of its answers
  reply,      \* what it was answered
  granted,    \* the Route values each principal is admitted on now
  quota,      \* the units each principal has left
  tokens,     \* the requestStates signed and not yet expired
  judged,     \* history: the arguments a check of this call admitted
  charged,    \* history: units each call consumed
  written,    \* history: the arguments its service committed a change with
  announced   \* history: the arguments its invalidation was rendered with

vars == <<call, pc, prior, reply, granted, quota, tokens, judged, charged, written, announced>>

None == [n \in Names |-> Unset]
Nothing == {}   \* no arguments: neither a change nor an announcement

NoAnswer == [action |-> "none", content |-> None]
NoState == [who |-> "nobody", tool |-> "none", args |-> None, answers |-> None, round |-> 0]
NoPrior == [carried |-> None, round |-> 0, declined |-> FALSE]
Blank == [who |-> "nobody", tool |-> "none", raw |-> None, tasks |-> FALSE, forms |-> FALSE,
          answer |-> NoAnswer, state |-> NoState, stream |-> FALSE, origin |-> NoCall]

\* Bound: where no client knows forms, none answers one.
Offered ==
  IF TRUE \in FormFlags
  THEN {NoAnswer} \cup [action : {"accept"}, content : Arguments]
         \cup [action : {"refuse"}, content : {None}]
  ELSE {NoAnswer}

Init ==
  /\ call = [c \in Calls |-> Blank]
  /\ pc = [c \in Calls |-> "idle"]
  /\ prior = [c \in Calls |-> NoPrior]
  /\ reply = [c \in Calls |-> "none"]
  /\ granted = Grants
  /\ quota = [p \in Principals |-> Quota]
  /\ tokens = {}
  /\ judged = [c \in Calls |-> {}]
  /\ charged = [c \in Calls |-> 0]
  /\ written = [c \in Calls |-> Nothing]
  /\ announced = [c \in Calls |-> Nothing]

-----------------------------------------------------------------------------
(* The arguments.                                                          *)

\* Mutant: the server's value is only a default.
AppliedDefault(args) ==
  [n \in Names |-> IF n \in Bound /\ args[n] = Unset THEN ServerValue[n] ELSE args[n]]

\* apply_tool_server_arguments: the caller's value of a bound name is dropped.
Applied(args) == [n \in Names |-> IF n \in Bound THEN ServerValue[n] ELSE args[n]]

Over(top, base) == [n \in Names |-> IF top[n] # Unset THEN top[n] ELSE base[n]]

Sent(c) == Applied(call[c].raw)

\* What the call runs with: the answers over the arguments, the server's values
\* over both.
Args(c) == Applied(Over(prior[c].carried, Sent(c)))

Admitted(c, args) == args[Route] \in granted[call[c].who]

IsReplay(c) == call[c].origin # NoCall

\* The request a state is bound to: the method, the tool and the arguments as sent.
Fingerprint(c) == <<call[c].tool, Sent(c)>>

\* Mutant: a state minted for another request is honoured.
VerifiedAnyRequest(c) ==
  LET s == call[c].state IN IF s \in tokens /\ s.who = call[c].who THEN s ELSE NoState

\* verify_request_state: signed and young, minted for this principal and this
\* request; every failure is the same as sending none.
Verified(c) ==
  LET s == call[c].state
  IN IF s \in tokens /\ s.who = call[c].who /\ <<s.tool, s.args>> = Fingerprint(c)
     THEN s ELSE NoState

\* A refusal merges nothing, what earlier rounds carried included.
Resolved(c) ==
  LET s == Verified(c)
      a == call[c].answer
  IN IF a.action = "refuse"
     THEN [carried |-> None, round |-> s.round, declined |-> TRUE]
     ELSE [carried |-> Over(a.content, s.answers), round |-> s.round, declined |-> FALSE]

-----------------------------------------------------------------------------
(* A reply ends the call.  A call whose client has gone, or whose deadline *)
(* has passed, keeps the reply it has.                                     *)

Reply(c, r) ==
  /\ reply' = [reply EXCEPT ![c] = IF @ = "none" THEN r ELSE @]
  /\ pc' = [pc EXCEPT ![c] = "done"]

Goto(c, l) ==
  /\ pc' = [pc EXCEPT ![c] = l]
  /\ UNCHANGED reply

ended == <<prior, granted, quota, tokens, judged, charged, written, announced>>

\* A request arrives: any arguments and capabilities, an answer to a form that need
\* not have been asked, and any requestState ever handed out.
Arrive(c) ==
  /\ pc[c] = "idle"
  /\ \E request \in [who : Principals, tool : Tools, raw : Arguments, tasks : TaskFlags,
                     forms : FormFlags, answer : Offered, state : tokens \cup {NoState},
                     stream : StreamFlags, origin : {NoCall}] :
       /\ call' = [call EXCEPT ![c] = request]
       /\ Goto(c, IF request.stream THEN "preflight" ELSE "gate")
  /\ UNCHANGED ended

\* The pre-flight judges the arguments as the client sent them.
Preflight(c) ==
  /\ pc[c] = "preflight"
  /\ IF Admitted(c, call[c].raw) THEN Goto(c, "gate") ELSE Reply(c, "forbidden")
  /\ UNCHANGED <<call, ended>>

-----------------------------------------------------------------------------
(* maybe_create_task.                                                      *)

PolicyOf(c) == Policy[call[c].tool]

Answered(c) == reply[c] # "none"

\* Forbidden, or optional and either side cannot: the call runs inline.  The gate
\* runs in a thread, so a client that left meanwhile is noticed after it.
GateInline(c) ==
  /\ pc[c] = "gate"
  /\ \/ PolicyOf(c) = "forbidden"
     \/ PolicyOf(c) = "optional" /\ ~(CanRunTasks /\ call[c].tasks)
  /\ Goto(c, IF Answered(c) THEN "done" ELSE "judge")
  /\ UNCHANGED <<call, ended>>

GateRefused(c) ==
  /\ pc[c] = "gate" /\ PolicyOf(c) = "required"
  /\ \/ ~CanRunTasks /\ Reply(c, "misconfigured")
     \/ CanRunTasks /\ ~call[c].tasks /\ Reply(c, "missing")
  /\ UNCHANGED <<call, ended>>

\* Mutant: the request that asks for a task pays nothing.
TaskJudgeOnly(c) ==
  /\ pc[c] = "gate" /\ PolicyOf(c) # "forbidden" /\ CanRunTasks /\ call[c].tasks
  /\ IF Admitted(c, Sent(c)) THEN Goto(c, "create") ELSE Reply(c, "forbidden")
  /\ UNCHANGED <<call, ended>>

TaskJudge(c) ==
  /\ pc[c] = "gate" /\ PolicyOf(c) # "forbidden" /\ CanRunTasks /\ call[c].tasks
  /\ IF Admitted(c, Sent(c)) THEN Goto(c, "taskcharge") ELSE Reply(c, "forbidden")
  /\ UNCHANGED <<call, ended>>

Pay(c) ==
  /\ quota[call[c].who] > 0
  /\ quota' = [quota EXCEPT ![call[c].who] = @ - 1]
  /\ charged' = [charged EXCEPT ![c] = @ + 1]

TaskCharge(c) ==
  /\ pc[c] = "taskcharge"
  /\ \/ Pay(c) /\ Goto(c, "create")
     \/ quota[call[c].who] = 0 /\ Reply(c, "limited") /\ UNCHANGED <<quota, charged>>
  /\ UNCHANGED <<call, prior, granted, tokens, judged, written, announced>>

\* _worker_context: the stored principal and arguments, no capabilities, no answers.
Replay(c) ==
  [Blank EXCEPT !.who = call[c].who, !.tool = call[c].tool, !.raw = Sent(c), !.origin = c]

\* The record is stored and queued; a worker will enter handle_tools_call for it.
TaskCreate(c, d) ==
  /\ pc[c] = "create" /\ pc[d] = "idle"
  /\ call' = [call EXCEPT ![d] = Replay(c)]
  /\ pc' = [pc EXCEPT ![c] = "done", ![d] = "gate"]
  /\ reply' = [reply EXCEPT ![c] = IF @ = "none" THEN "task" ELSE @]
  /\ UNCHANGED ended

-----------------------------------------------------------------------------
(* _dispatch_tool_call.                                                    *)

\* Mutants: what an answer changed is not judged again; a replay is trusted, its task
\* having been judged; the charge comes between the two checks.
JudgeOnce(c) ==
  /\ pc[c] = "judge"
  /\ IF Admitted(c, Sent(c))
     THEN /\ judged' = [judged EXCEPT ![c] = @ \cup {Sent(c)}]
          /\ prior' = [prior EXCEPT ![c] = Resolved(c)]
          /\ Goto(c, "charge")
     ELSE Reply(c, "forbidden") /\ UNCHANGED <<judged, prior>>
  /\ UNCHANGED <<call, granted, quota, tokens, charged, written, announced>>

JudgeTrusting(c) ==
  /\ pc[c] = "judge"
  /\ \/ IsReplay(c) /\ Goto(c, "rejudge") /\ UNCHANGED judged
     \/ /\ ~IsReplay(c)
        /\ IF Admitted(c, Sent(c))
           THEN judged' = [judged EXCEPT ![c] = @ \cup {Sent(c)}] /\ Goto(c, "rejudge")
           ELSE Reply(c, "forbidden") /\ UNCHANGED judged
  /\ prior' = [prior EXCEPT ![c] = Resolved(c)]
  /\ UNCHANGED <<call, granted, quota, tokens, charged, written, announced>>

JudgeCharging(c) ==
  /\ pc[c] = "judge"
  /\ IF Admitted(c, Sent(c))
     THEN /\ judged' = [judged EXCEPT ![c] = @ \cup {Sent(c)}]
          /\ prior' = [prior EXCEPT ![c] = Resolved(c)]
          /\ Goto(c, "rejudge")
          /\ Pay(c)
     ELSE Reply(c, "forbidden") /\ UNCHANGED <<judged, prior, quota, charged>>
  /\ UNCHANGED <<call, granted, tokens, written, announced>>

\* The check on the arguments as sent; then, without giving up the thread, the
\* answers are folded in.
Judge(c) ==
  /\ pc[c] = "judge"
  /\ IF Admitted(c, Sent(c))
     THEN /\ judged' = [judged EXCEPT ![c] = @ \cup {Sent(c)}]
          /\ prior' = [prior EXCEPT ![c] = Resolved(c)]
          /\ Goto(c, "rejudge")
     ELSE Reply(c, "forbidden") /\ UNCHANGED <<judged, prior>>
  /\ UNCHANGED <<call, granted, quota, tokens, charged, written, announced>>

\* Arguments the answers left as they were are not judged again.
Rejudge(c) ==
  /\ pc[c] = "rejudge"
  /\ \/ Args(c) = Sent(c) /\ Goto(c, "charge") /\ UNCHANGED judged
     \/ /\ Args(c) # Sent(c)
        /\ IF Admitted(c, Args(c))
           THEN judged' = [judged EXCEPT ![c] = @ \cup {Args(c)}] /\ Goto(c, "charge")
           ELSE Reply(c, "forbidden") /\ UNCHANGED judged
  /\ UNCHANGED <<call, prior, granted, quota, tokens, charged, written, announced>>

\* A replay has paid.  A declined form is answered only now, and costs a unit.
Charge(c) ==
  /\ pc[c] = "charge"
  /\ \/ /\ IF IsReplay(c) THEN UNCHANGED <<quota, charged>> ELSE Pay(c)
        /\ \/ prior[c].declined /\ Reply(c, "declined")
           \/ ~prior[c].declined /\ Goto(c, IF Answered(c) THEN "done" ELSE "run")
     \/ ~IsReplay(c) /\ quota[call[c].who] = 0 /\ Reply(c, "limited")
        /\ UNCHANGED <<quota, charged>>
  /\ UNCHANGED <<call, prior, granted, tokens, judged, written, announced>>

\* The dispatch view's own check, then the service starts.
Run(c) ==
  /\ pc[c] = "run"
  /\ IF SpecJudges /\ ~Admitted(c, Args(c)) THEN Reply(c, "forbidden") ELSE Goto(c, "working")
  /\ UNCHANGED <<call, ended>>

-----------------------------------------------------------------------------
(* The service ends.  Abandoned, it runs on, and nothing follows it.       *)

ServiceCommits(c) ==
  /\ pc[c] = "working"
  /\ written' = [written EXCEPT ![c] = {Args(c)}]
  /\ Goto(c, IF Answered(c) THEN "done" ELSE "render")
  /\ UNCHANGED <<call, prior, granted, quota, tokens, judged, charged, announced>>

\* A service that is not atomic may have committed before it raised.
ServiceFails(c) ==
  /\ pc[c] = "working"
  /\ \E done \in {Nothing, {Args(c)}} : written' = [written EXCEPT ![c] = done]
  /\ Reply(c, "error")
  /\ UNCHANGED <<call, prior, granted, quota, tokens, judged, charged, announced>>

MayAsk(c) == call[c].forms /\ prior[c].round < MaxRounds

\* The service wants more input: a form with a signed state, or an ordinary error
\* for a client that cannot be asked (again).
ServiceAsks(c) ==
  /\ pc[c] = "working"
  /\ IF MayAsk(c) /\ ~Answered(c)
     THEN /\ tokens' = tokens \cup {[who |-> call[c].who, tool |-> call[c].tool, args |-> Sent(c),
                                     answers |-> prior[c].carried, round |-> prior[c].round + 1]}
          /\ Reply(c, "form")
     ELSE Reply(c, "error") /\ UNCHANGED tokens
  /\ UNCHANGED <<call, prior, granted, quota, judged, charged, written, announced>>

\* Rendering may refuse what the service returned.
Render(c) ==
  /\ pc[c] = "render"
  /\ Goto(c, "deliver") \/ Reply(c, "error")
  /\ UNCHANGED <<call, ended>>

\* The ceiling: a result too large is replaced by an error.
Bounded(c) ==
  /\ pc[c] = "deliver"
  /\ Reply(c, "large") \/ Goto(c, "announce")
  /\ UNCHANGED <<call, ended>>

\* Mutant: announced with the arguments as sent.
AnnounceSent(c) ==
  /\ pc[c] = "announce"
  /\ announced' = [announced EXCEPT ![c] = {Sent(c)}]
  /\ Reply(c, "ok")
  /\ UNCHANGED <<call, prior, granted, quota, tokens, judged, charged, written>>

\* Announced, in a thread, with what the tool ran with; then the client has its result.
Announce(c) ==
  /\ pc[c] = "announce"
  /\ announced' = [announced EXCEPT ![c] = {Args(c)}]
  /\ Reply(c, "ok")
  /\ UNCHANGED <<call, prior, granted, quota, tokens, judged, charged, written>>

-----------------------------------------------------------------------------
(* What the call does not control.                                         *)

\* Cancelling the coroutine does not stop a thread: what runs in one goes on.  (The
\* checks and the rendering are in threads too, but leave nothing behind.)
InThread == {"gate", "taskcharge", "create", "charge", "working", "announce"}

Abandon(c, r) ==
  /\ ~IsReplay(c) /\ ~Answered(c)
  /\ reply' = [reply EXCEPT ![c] = r]
  /\ pc' = [pc EXCEPT ![c] = IF @ \in InThread THEN @ ELSE "done"]
  /\ UNCHANGED <<call, ended>>

\* Mutant: the deadline waits for the thread.
TimeoutAwaited(c) ==
  /\ Deadline /\ pc[c] \in {"judge", "rejudge", "charge", "run", "render"}
  /\ Abandon(c, "timeout")

\* The deadline covers the dispatch, not the task gate nor the delivery.
Timeout(c) ==
  /\ Deadline /\ pc[c] \in {"judge", "rejudge", "charge", "run", "working", "render"}
  /\ Abandon(c, "timeout")

\* The client of a streamed call closes the connection.
Disconnect(c) ==
  /\ call[c].stream /\ pc[c] \notin {"idle", "preflight", "done"}
  /\ Abandon(c, "gone")

Revoke(p) ==
  /\ granted[p] # {}
  /\ granted' = [granted EXCEPT ![p] = {}]
  /\ UNCHANGED <<call, pc, prior, reply, quota, tokens, judged, charged, written, announced>>

\* The client's window to answer the form has passed.
Expire(s) ==
  /\ tokens' = tokens \ {s}
  /\ UNCHANGED <<call, pc, prior, reply, granted, quota, judged, charged, written, announced>>

-----------------------------------------------------------------------------
Gate(c) ==
  \/ GateInline(c) \/ GateRefused(c) \/ TaskJudge(c) \/ TaskCharge(c)
  \/ \E d \in Calls : TaskCreate(c, d)

Dispatch(c) == Judge(c) \/ Rejudge(c) \/ Charge(c) \/ Run(c) \/ Render(c)
                 \/ Bounded(c) \/ Announce(c)

Service(c) == ServiceCommits(c) \/ ServiceFails(c) \/ ServiceAsks(c)

Next ==
  \/ \E c \in Calls :
       \/ Arrive(c) \/ Preflight(c) \/ Gate(c) \/ Dispatch(c) \/ Service(c)
       \/ Timeout(c) \/ Disconnect(c)
  \/ \E p \in Principals : Revoke(p)
  \/ \E s \in tokens : Expire(s)

Spec == Init /\ [][Next]_vars

\* The server's own steps go on and an armed deadline fires.  A service need not end.
FairSpec ==
  /\ Spec
  /\ \A c \in Calls : WF_vars(Preflight(c) \/ Gate(c) \/ Dispatch(c)) /\ WF_vars(Timeout(c))

-----------------------------------------------------------------------------
(* Properties.                                                             *)

Ran(c) == pc[c] \in {"working", "render", "deliver", "announce"} \/ written[c] # Nothing

\* A service never runs on arguments that no permission check of the same call has
\* admitted: not on what an answer changed, and not in a worker on the strength of
\* the check made when the task was created (judge_tool_permissions, run_task).
RunsJudged == \A c \in Calls : Ran(c) => Args(c) \in judged[c]

\* Who gave call c the value v for argument n: the caller itself in this call, or in
\* an answer to the same tool and arguments in this or an earlier round.
GaveValue(c, n, v) ==
  \/ Sent(c)[n] = v
  \/ \E d \in Calls :
       /\ call[d].who = call[c].who /\ Fingerprint(d) = Fingerprint(c)
       /\ call[d].answer.action = "accept" /\ call[d].answer.content[n] = v

\* Every argument a service runs with is the server's own value of a bound name, or
\* one its caller gave for this very call: no answer crosses to another principal or
\* to another request (verify_request_state), and none replaces a bound value.
ArgumentsAccounted ==
  \A c \in Calls : Ran(c) =>
    \A n \in Names :
      IF n \in Bound THEN Args(c)[n] = ServerValue[n] ELSE GaveValue(c, n, Args(c)[n])

\* Every run of the service was paid for exactly once: by the call itself, or by the
\* request that had asked for the task; no replay pays and none runs for nothing
\* (maybe_create_task, effective_rate_limits).
PaidOnce ==
  \A c \in Calls :
    /\ charged[c] <= 1
    /\ IsReplay(c) => charged[c] = 0
    /\ Ran(c) => charged[IF IsReplay(c) THEN call[c].origin ELSE c] = 1

\* All three: what a service runs on was judged for this call, has an author, and was
\* paid for.
RunsAllowed == RunsJudged /\ ArgumentsAccounted /\ PaidOnce

\* A caller refused for what its arguments or its answers name has not been charged,
\* unless its grant was withdrawn while the call ran (_dispatch_tool_call).
DenialIsFree ==
  \A c \in Calls : reply[c] = "forbidden" /\ charged[c] > 0
                   => granted[call[c].who] # Grants[call[c].who]

\* Subscribers hear only of changes a service committed, with the arguments it ran
\* with, and before the client is told of a completed result (announce_invalidations).
AnnouncedIsWritten ==
  \A c \in Calls :
    /\ announced[c] # Nothing => announced[c] = written[c]
    /\ reply[c] = "ok" => announced[c] # Nothing

\* With a deadline, every request is answered, however long its service hangs: it
\* ends "the client's wait, not the work" (run_with_deadline).  A task for which Calls
\* has no replay left is the bound's doing and excused.
NoRoom(c) == pc[c] = "create" /\ \A d \in Calls : pc[d] # "idle"

EveryRequestAnswered ==
  \A c \in Calls : (pc[c] # "idle" /\ ~IsReplay(c)) ~> (Answered(c) \/ NoRoom(c))

=============================================================================
