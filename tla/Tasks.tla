------------------------------- MODULE Tasks -------------------------------
(***************************************************************************)
(* Durable tasks: the record a web process creates, the queue that carries *)
(* its id, the workers that run it and the client requests that read,      *)
(* cancel and answer it (rest_framework_mcp/tasks and the tasks/ handlers).*)
(*                                                                         *)
(* The store has no locking: every writer reads a record, computes a new   *)
(* one and writes it back whole.  A read and its write are two steps here, *)
(* and seen[p] is the copy process p holds between them.                   *)
(***************************************************************************)
EXTENDS Naturals, FiniteSets

CONSTANTS
  Tasks,          \* task ids; each names the one create_task call that mints it
  Workers,        \* queue consumers, each inside at most one run_task at a time
  Requests,       \* client requests, one tasks/ call each
  Principals,     \* what principal_for_token can return
  Owner,          \* the principal each task is created for
  Keys,           \* ids of the inputs a task may ask its client for
  Kinds,          \* the tasks/ methods the clients call
  Serial,         \* does a client await each reply before its next tasks/ call?
  NoTask,         \* the job of a process that works on nothing
  EarlyDelivery,  \* may the queue deliver before create_task's last save?
  Expiry,         \* may the store drop a record by itself?
  MaxProgress,    \* bound: largest progress number a service reports
  MaxRedeliver,   \* bound: duplicate messages over all tasks
  MaxCrashes,     \* bound: web or worker processes that die
  MaxRaises       \* bound: context_factory calls that raise

ASSUME TasksAssumption ==
  /\ NoTask \notin Tasks
  /\ Workers \cap Requests = {}
  /\ Owner \in [Tasks -> Principals]
  /\ Serial \in BOOLEAN /\ EarlyDelivery \in BOOLEAN /\ Expiry \in BOOLEAN
  /\ MaxProgress \in Nat /\ MaxRedeliver \in Nat
  /\ MaxCrashes \in Nat /\ MaxRaises \in Nat

VARIABLES
  rec,        \* the store: the record under each task id
  web,        \* where each task's create_task call stands
  queue,      \* messages waiting in the queue, per task id
  pc,         \* where each worker and each request stands
  job,        \* the task each of them works on
  seen,       \* the record it read and has not written back yet
  want,       \* what it means to write: a status with outcome and keys, or answers
  resp,       \* what each request was answered
  claims,     \* history: run_task calls that claimed the task
  announced,  \* history: the statuses notifications/tasks carried
  faults      \* how often each kind of fault has happened

vars == <<rec, web, queue, pc, job, seen, want, resp, claims, announced, faults>>

Procs == Workers \cup Requests

Terminal == {"completed", "failed", "cancelled"}
Live == {"working", "input_required"}
Statuses == Terminal \cup Live \cup {"absent"}
Outcomes == {"none", "result", "error"}

TaskRecord == [status: Statuses, enqueued: BOOLEAN, progress: 0..MaxProgress,
               asks: SUBSET Keys, answers: SUBSET Keys, outcome: Outcomes]

Fresh(status, enqueued) ==
  [status |-> status, enqueued |-> enqueued, progress |-> 0,
   asks |-> {}, answers |-> {}, outcome |-> "none"]

Seed == Fresh("working", FALSE)

\* What store.get answers for an id with no record.
Absent == Fresh("absent", FALSE)

Wants == [status: Statuses, outcome: Outcomes, keys: SUBSET Keys]
NoWant == [status |-> "absent", outcome |-> "none", keys |-> {}]

Init ==
  /\ rec = [t \in Tasks |-> Absent]
  /\ web = [t \in Tasks |-> "idle"]
  /\ queue = [t \in Tasks |-> 0]
  /\ pc = [p \in Procs |-> "idle"]
  /\ job = [p \in Procs |-> NoTask]
  /\ seen = [p \in Procs |-> Absent]
  /\ want = [p \in Procs |-> NoWant]
  /\ resp = [r \in Requests |-> "none"]
  /\ claims = [t \in Tasks |-> 0]
  /\ announced = [t \in Tasks |-> {}]
  /\ faults = [redeliver |-> 0, crash |-> 0, raise |-> 0]

-----------------------------------------------------------------------------
(* create_task, on the request path.  The client holds the id only once    *)
(* the call has returned.                                                  *)

CreateSeed(t) ==
  /\ web[t] = "idle"
  /\ rec' = [rec EXCEPT ![t] = Seed]
  /\ web' = [web EXCEPT ![t] = "seeded"]
  /\ UNCHANGED <<queue, pc, job, seen, want, resp, claims, announced, faults>>

\* Mutant: the message leaves before the record is written.
CreateEnqueueFirst(t) ==
  /\ web[t] \in {"idle", "seeded"}
  /\ queue' = [queue EXCEPT ![t] = @ + 1]
  /\ web' = [web EXCEPT ![t] = "queued"]
  /\ UNCHANGED <<rec, pc, job, seen, want, resp, claims, announced, faults>>

CreateEnqueue(t) ==
  /\ web[t] = "seeded"
  /\ queue' = [queue EXCEPT ![t] = @ + 1]
  /\ web' = [web EXCEPT ![t] = "queued"]
  /\ UNCHANGED <<rec, pc, job, seen, want, resp, claims, announced, faults>>

\* enqueue raises.  The broker may have taken the message all the same.
CreateEnqueueFails(t) ==
  /\ web[t] = "seeded"
  /\ \E taken \in {0, 1} : queue' = [queue EXCEPT ![t] = @ + taken]
  /\ web' = [web EXCEPT ![t] = "refused"]
  /\ UNCHANGED <<rec, pc, job, seen, want, resp, claims, announced, faults>>

\* Mutant: the failed hand-off is saved as claimable work.
CreateSaveFailedClaimable(t) ==
  /\ web[t] = "refused"
  /\ rec' = [rec EXCEPT ![t] = Fresh("working", TRUE)]
  /\ web' = [web EXCEPT ![t] = "failed"]
  /\ UNCHANGED <<queue, pc, job, seen, want, resp, claims, announced, faults>>

CreateSaveFailed(t) ==
  /\ web[t] = "refused"
  /\ rec' = [rec EXCEPT ![t] = Fresh("failed", FALSE)]
  /\ web' = [web EXCEPT ![t] = "failed"]
  /\ UNCHANGED <<queue, pc, job, seen, want, resp, claims, announced, faults>>

\* The record built before the enqueue is written back blindly, then returned.
CreateMark(t) ==
  /\ web[t] = "queued"
  /\ rec' = [rec EXCEPT ![t] = Fresh("working", TRUE)]
  /\ web' = [web EXCEPT ![t] = "returned"]
  /\ UNCHANGED <<queue, pc, job, seen, want, resp, claims, announced, faults>>

HandleOut(t) == web[t] \in {"returned", "failed"}

-----------------------------------------------------------------------------
(* run_task, in a worker.                                                  *)

\* Mutant: a claimed task can be claimed again.
ClaimableWhileLive(r) == r.status \in Live

Claimable(r) == r.enqueued /\ r.status \in Live

Delivered(t) ==
  /\ queue[t] > 0
  /\ EarlyDelivery \/ web[t] # "queued"
  /\ queue' = [queue EXCEPT ![t] = @ - 1]

\* Unknown, already claimed or already finished: the message is consumed.
DeliverRefused(w, t) ==
  /\ pc[w] = "idle"
  /\ Delivered(t)
  /\ ~Claimable(rec[t])
  /\ UNCHANGED <<rec, web, pc, job, seen, want, resp, claims, announced, faults>>

DeliverClaimable(w, t) ==
  /\ pc[w] = "idle"
  /\ Delivered(t)
  /\ Claimable(rec[t])
  /\ pc' = [pc EXCEPT ![w] = "claim"]
  /\ job' = [job EXCEPT ![w] = t]
  /\ seen' = [seen EXCEPT ![w] = rec[t]]
  /\ UNCHANGED <<rec, web, want, resp, claims, announced, faults>>

\* Back to the state between two calls.
Leave(p, at) ==
  /\ pc' = [pc EXCEPT ![p] = at]
  /\ job' = [job EXCEPT ![p] = NoTask]
  /\ seen' = [seen EXCEPT ![p] = Absent]
  /\ want' = [want EXCEPT ![p] = NoWant]

\* Mutant: the claim does not clear the flag.
SaveClaimKeepingFlag(w) ==
  /\ pc[w] = "claim"
  /\ rec' = [rec EXCEPT ![job[w]] = seen[w]]

SaveClaim(w) ==
  /\ pc[w] = "claim"
  /\ rec' = [rec EXCEPT ![job[w]] = [seen[w] EXCEPT !.enqueued = FALSE]]

\* Claimed, the context rebuilt, and handle_tools_call entered.
WorkerClaim(w) ==
  /\ SaveClaim(w)
  /\ claims' = [claims EXCEPT ![job[w]] = @ + 1]
  /\ pc' = [pc EXCEPT ![w] = "run"]
  /\ seen' = [seen EXCEPT ![w] = Absent]
  /\ UNCHANGED <<web, queue, job, want, resp, announced, faults>>

\* context_factory is called outside the try: what it raises (the user lookup
\* failing, say) leaves the claim saved and reaches the queue consumer.
ContextRaises(w) ==
  /\ faults.raise < MaxRaises
  /\ SaveClaim(w)
  /\ claims' = [claims EXCEPT ![job[w]] = @ + 1]
  /\ Leave(w, "idle")
  /\ faults' = [faults EXCEPT !.raise = @ + 1]
  /\ UNCHANGED <<web, queue, resp, announced>>

\* report_task_progress: read, then write the copy back with the number on it.
ReportGet(w) ==
  /\ pc[w] = "run"
  /\ rec[job[w]].status \in Live
  /\ pc' = [pc EXCEPT ![w] = "report"]
  /\ seen' = [seen EXCEPT ![w] = rec[job[w]]]
  /\ UNCHANGED <<rec, web, queue, job, want, resp, claims, announced, faults>>

ReportSave(w) ==
  /\ pc[w] = "report"
  /\ \E n \in 0..MaxProgress :
       rec' = [rec EXCEPT ![job[w]] = [seen[w] EXCEPT !.progress = n]]
  /\ pc' = [pc EXCEPT ![w] = "run"]
  /\ seen' = [seen EXCEPT ![w] = Absent]
  /\ UNCHANGED <<web, queue, job, want, resp, claims, announced, faults>>

\* The service asks its client for inputs under keys not used before.
Park(w) ==
  /\ pc[w] = "run"
  /\ \E ks \in (SUBSET (Keys \ rec[job[w]].answers)) \ {{}} :
       want' = [want EXCEPT ![w] =
                  [status |-> "input_required", outcome |-> "none", keys |-> ks]]
  /\ pc' = [pc EXCEPT ![w] = "get"]
  /\ UNCHANGED <<rec, web, queue, job, seen, resp, claims, announced, faults>>

\* A parked service polls its record and goes on when nothing is asked any more.
Resume(w) ==
  /\ pc[w] = "wait"
  /\ rec[job[w]].status # "input_required"
  /\ pc' = [pc EXCEPT ![w] = "run"]
  /\ UNCHANGED <<rec, web, queue, job, seen, want, resp, claims, announced, faults>>

\* handle_tools_call ends: a result, a JSON-RPC error, or an exception.
Endings == {[status |-> "completed", outcome |-> "result", keys |-> {}],
            [status |-> "failed", outcome |-> "error", keys |-> {}],
            [status |-> "failed", outcome |-> "none", keys |-> {}]}

\* Mutant: an exception reaches the queue consumer before the task is failed.
FinishUncaught(w) ==
  /\ pc[w] = "run"
  /\ Leave(w, "idle")
  /\ UNCHANGED <<rec, web, queue, resp, claims, announced, faults>>

Finish(w) ==
  /\ pc[w] = "run"
  /\ \E e \in Endings : want' = [want EXCEPT ![w] = e]
  /\ pc' = [pc EXCEPT ![w] = "get"]
  /\ UNCHANGED <<rec, web, queue, job, seen, resp, claims, announced, faults>>

-----------------------------------------------------------------------------
(* transition_task, called by a worker and by tasks/cancel.                *)

Ack(p) == IF p \in Requests THEN [resp EXCEPT ![p] = "ack"] ELSE resp

\* The call returns: a parked worker waits, any other worker is free, a
\* request has its answer.
Return(p) ==
  IF p \in Workers /\ want[p].status = "input_required"
  THEN /\ pc' = [pc EXCEPT ![p] = "wait"]
       /\ seen' = [seen EXCEPT ![p] = Absent]
       /\ want' = [want EXCEPT ![p] = NoWant]
       /\ UNCHANGED <<job, resp>>
  ELSE /\ Leave(p, IF p \in Requests THEN "done" ELSE "idle")
       /\ resp' = Ack(p)

TransitionRefused(p) ==
  /\ pc[p] = "get"
  /\ rec[job[p]].status \in Terminal \cup {"absent"}
  /\ Return(p)
  /\ UNCHANGED <<rec, web, queue, claims, announced, faults>>

\* Mutant: a finished task may be moved again.
TransitionGetAny(p) ==
  /\ pc[p] = "get"
  /\ rec[job[p]].status # "absent"
  /\ pc' = [pc EXCEPT ![p] = "save"]
  /\ seen' = [seen EXCEPT ![p] = rec[job[p]]]
  /\ UNCHANGED <<rec, web, queue, job, want, resp, claims, announced, faults>>

TransitionGet(p) ==
  /\ pc[p] = "get"
  /\ rec[job[p]].status \in Live
  /\ pc' = [pc EXCEPT ![p] = "save"]
  /\ seen' = [seen EXCEPT ![p] = rec[job[p]]]
  /\ UNCHANGED <<rec, web, queue, job, want, resp, claims, announced, faults>>

Transitioned(r, w) == [r EXCEPT !.status = w.status, !.outcome = w.outcome, !.asks = w.keys]

TransitionSave(p) ==
  /\ pc[p] = "save"
  /\ rec' = [rec EXCEPT ![job[p]] = Transitioned(seen[p], want[p])]
  /\ pc' = [pc EXCEPT ![p] = "publish"]
  /\ UNCHANGED <<web, queue, job, seen, want, resp, claims, announced, faults>>

\* Mutant: only a client's own call is announced.
PublishForRequestsOnly(p) ==
  /\ pc[p] = "publish"
  /\ announced' = IF p \in Requests
                  THEN [announced EXCEPT ![job[p]] = @ \cup {want[p].status}] ELSE announced
  /\ Return(p)
  /\ UNCHANGED <<rec, web, queue, claims, faults>>

Publish(p) ==
  /\ pc[p] = "publish"
  /\ announced' = [announced EXCEPT ![job[p]] = @ \cup {want[p].status}]
  /\ Return(p)
  /\ UNCHANGED <<rec, web, queue, claims, faults>>

-----------------------------------------------------------------------------
(* The tasks/ methods.  A client names any task whose handle is out.       *)

\* No other call changes a task meanwhile, if clients send one at a time.
MaySend == Serial => \A r \in Requests : pc[r] \in {"idle", "done"}

Known(t, c) == rec[t].status # "absent" /\ c = Owner[t]

Answer(r, a) ==
  /\ resp' = [resp EXCEPT ![r] = a]
  /\ Leave(r, "done")
  /\ UNCHANGED <<rec, web, queue, claims, announced, faults>>

\* The extension is not declared or the parameters are malformed; or the record is
\* gone or another principal's, which are told apart by nothing the client sees.
RequestRefused(r) ==
  /\ pc[r] = "idle"
  /\ \/ Answer(r, "refused")
     \/ \E t \in Tasks, c \in Principals :
          HandleOut(t) /\ ~Known(t, c) /\ Answer(r, "unknown")

TasksGet(r) ==
  /\ pc[r] = "idle" /\ "get" \in Kinds
  /\ \E t \in Tasks, c \in Principals :
       HandleOut(t) /\ Known(t, c) /\ Answer(r, rec[t].status)

\* handle_tasks_cancel checks ownership on one read; transition_task reads again.
TasksCancel(r) ==
  /\ pc[r] = "idle" /\ "cancel" \in Kinds /\ MaySend
  /\ \E t \in Tasks, c \in Principals :
       /\ HandleOut(t) /\ Known(t, c)
       /\ job' = [job EXCEPT ![r] = t]
  /\ want' = [want EXCEPT ![r] = [status |-> "cancelled", outcome |-> "none", keys |-> {}]]
  /\ pc' = [pc EXCEPT ![r] = "get"]
  /\ UNCHANGED <<rec, web, queue, seen, resp, claims, announced, faults>>

TasksUpdateNotAwaiting(r) ==
  /\ pc[r] = "idle" /\ "update" \in Kinds
  /\ \E t \in Tasks, c \in Principals :
       /\ HandleOut(t) /\ Known(t, c)
       /\ rec[t].status # "input_required"
       /\ Answer(r, "refused")

\* Mutant: tasks/update does not ask whether the task waits for input.
AwaitingInputUnchecked(s) == s # "absent"

AwaitingInput(s) == s = "input_required"

TasksUpdate(r) ==
  /\ pc[r] = "idle" /\ "update" \in Kinds /\ MaySend
  /\ \E t \in Tasks, c \in Principals :
       /\ HandleOut(t) /\ Known(t, c)
       /\ AwaitingInput(rec[t].status)
       /\ job' = [job EXCEPT ![r] = t]
       /\ seen' = [seen EXCEPT ![r] = rec[t]]
  /\ \E ks \in SUBSET Keys :
       want' = [want EXCEPT ![r] = [NoWant EXCEPT !.keys = ks]]
  /\ pc' = [pc EXCEPT ![r] = "answer"]
  /\ UNCHANGED <<rec, web, queue, resp, claims, announced, faults>>

\* Mutant: new answers replace the earlier ones.
AnsweredReplacing(r, ks) ==
  LET merged == ks \cap r.asks
      remaining == r.asks \ merged
  IN [r EXCEPT !.answers = merged, !.asks = remaining,
               !.status = IF remaining = {} THEN "working" ELSE "input_required"]

\* Unknown keys are dropped, answers accumulate, and the task goes back to
\* working when nothing is left outstanding.
Answered(r, ks) ==
  LET merged == r.answers \cup (ks \cap r.asks)
      remaining == r.asks \ merged
  IN [r EXCEPT !.answers = merged, !.asks = remaining,
               !.status = IF remaining = {} THEN "working" ELSE "input_required"]

TasksUpdateSave(r) ==
  /\ pc[r] = "answer"
  /\ rec' = [rec EXCEPT ![job[r]] = Answered(seen[r], want[r].keys)]
  /\ want' = [want EXCEPT ![r].status = Answered(seen[r], want[r].keys).status]
  /\ pc' = [pc EXCEPT ![r] = "publish"]
  /\ UNCHANGED <<web, queue, job, seen, resp, claims, announced, faults>>

-----------------------------------------------------------------------------
(* What the processes do not control.                                      *)

Redeliver(t) ==
  /\ queue[t] > 0 /\ faults.redeliver < MaxRedeliver
  /\ queue' = [queue EXCEPT ![t] = @ + 1]
  /\ faults' = [faults EXCEPT !.redeliver = @ + 1]
  /\ UNCHANGED <<rec, web, pc, job, seen, want, resp, claims, announced>>

\* An unacknowledged message goes back to the queue.
WorkerCrash(w) ==
  /\ pc[w] # "idle" /\ faults.crash < MaxCrashes
  /\ queue' = [queue EXCEPT ![job[w]] = @ + 1]
  /\ Leave(w, "idle")
  /\ faults' = [faults EXCEPT !.crash = @ + 1]
  /\ UNCHANGED <<rec, web, resp, claims, announced>>

WebCrash(t) ==
  /\ web[t] \in {"seeded", "queued", "refused"} /\ faults.crash < MaxCrashes
  /\ web' = [web EXCEPT ![t] = "dead"]
  /\ faults' = [faults EXCEPT !.crash = @ + 1]
  /\ UNCHANGED <<rec, queue, pc, job, seen, want, resp, claims, announced>>

Expire(t) ==
  /\ Expiry /\ rec[t].status # "absent"
  /\ rec' = [rec EXCEPT ![t] = Absent]
  /\ UNCHANGED <<web, queue, pc, job, seen, want, resp, claims, announced, faults>>

-----------------------------------------------------------------------------
WebStep(t) ==
  CreateEnqueue(t) \/ CreateEnqueueFails(t) \/ CreateSaveFailed(t) \/ CreateMark(t)

Deliver(w, t) == DeliverRefused(w, t) \/ DeliverClaimable(w, t)

Transition(p) == TransitionRefused(p) \/ TransitionGet(p) \/ TransitionSave(p) \/ Publish(p)

Request(r) ==
  RequestRefused(r) \/ TasksGet(r) \/ TasksCancel(r)
    \/ TasksUpdateNotAwaiting(r) \/ TasksUpdate(r)

Next ==
  \/ \E t \in Tasks : CreateSeed(t) \/ WebStep(t) \/ Redeliver(t) \/ WebCrash(t) \/ Expire(t)
  \/ \E w \in Workers, t \in Tasks : Deliver(w, t)
  \/ \E w \in Workers : WorkerClaim(w) \/ ContextRaises(w) \/ ReportGet(w) \/ ReportSave(w)
                          \/ Park(w) \/ Resume(w) \/ Finish(w) \/ WorkerCrash(w)
  \/ \E r \in Requests : Request(r) \/ TasksUpdateSave(r)
  \/ \E p \in Procs : Transition(p)

Spec == Init /\ [][Next]_vars

(* Fairness: a web process, a worker and a started request that can move   *)
(* do move; workers go on consuming the queue; a service that keeps        *)
(* getting the chance to end does end.                                     *)
Fairness ==
  /\ \A t \in Tasks : WF_vars(WebStep(t))
  /\ \A w \in Workers :
       /\ \A t \in Tasks : SF_vars(Deliver(w, t))
       /\ WF_vars(WorkerClaim(w)) /\ WF_vars(ReportSave(w)) /\ WF_vars(Resume(w))
       /\ SF_vars(Finish(w))
  /\ \A p \in Procs : WF_vars(Transition(p))
  /\ \A r \in Requests : WF_vars(TasksUpdateSave(r))

FairSpec == Spec /\ Fairness

-----------------------------------------------------------------------------
(* Properties.                                                             *)

WorkerPCs == {"idle", "claim", "run", "report", "wait", "get", "save", "publish"}
RequestPCs == {"idle", "get", "save", "answer", "publish", "done"}
WebStates == {"idle", "seeded", "queued", "refused", "returned", "failed", "dead"}

TypeOK ==
  /\ rec \in [Tasks -> TaskRecord]
  /\ web \in [Tasks -> WebStates]
  /\ queue \in [Tasks -> Nat]
  /\ pc \in [Procs -> WorkerPCs \cup RequestPCs]
  /\ \A w \in Workers : pc[w] \in WorkerPCs
  /\ \A r \in Requests : pc[r] \in RequestPCs
  /\ job \in [Procs -> Tasks \cup {NoTask}]
  /\ \A p \in Procs : job[p] = NoTask <=> pc[p] \in {"idle", "done"}
  /\ seen \in [Procs -> TaskRecord]
  /\ want \in [Procs -> Wants]
  /\ resp \in [Requests -> Statuses \cup {"none", "ack", "refused", "unknown"}]
  /\ claims \in [Tasks -> Nat]
  /\ announced \in [Tasks -> SUBSET Statuses]
  /\ faults \in [redeliver: 0..MaxRedeliver, crash: 0..MaxCrashes, raise: 0..MaxRaises]

\* A task's record is in the store before its id is in the queue or with the
\* client, and stays there unless the store drops it by itself: create_task's
\* "order matters and is normative".
DurableBeforeHandle ==
  ~Expiry => \A t \in Tasks : queue[t] > 0 \/ HandleOut(t) => rec[t].status # "absent"

\* create_task's two later saves write back the record it built before the
\* enqueue.  They overwrite no work: whatever order the queue and the workers
\* take, the store still holds that record (or dropped it) when they run.
BlindSavesLoseNothing ==
  \A t \in Tasks : web[t] \in {"queued", "refused"} => rec[t] \in {Seed, Absent}

\* A task whose hand-off failed, or whose create_task died before its last save,
\* is never run, even when the broker had taken the message.
RunsOnlyHandedOff ==
  \A t \in Tasks : claims[t] > 0 => web[t] = "returned"

\* Once one worker has saved its claim, no delivery finds the task claimable
\* again, although cancels, progress reports and answers write whole records
\* back: run_task runs a redelivered task once.
ClaimedOnce ==
  \A t \in Tasks : claims[t] > 0 => ~Claimable(rec[t])

\* Process p read task t while it was live and will write that copy back.
HoldsLiveCopy(p, t) ==
  /\ pc[p] \in {"claim", "report", "save", "answer"}
  /\ job[p] = t
  /\ seen[p].status \in Live

\* A finished task changes status only by a write whose read came before it
\* finished (or by expiring): every read-then-write checks for a terminal status
\* on its read, so the window in which a task can be reopened closes with the
\* copies held at that moment.
ReopenedOnlyByStaleCopy ==
  [][\A t \in Tasks :
       rec[t].status \in Terminal /\ rec'[t].status # rec[t].status
         => \/ Expiry /\ rec'[t].status = "absent"
            \/ \E p \in Procs : HoldsLiveCopy(p, t)]_vars

\* TaskRecord: a key in input_responses is answered for good.
AnsweredForGood ==
  [][\A t \in Tasks : rec[t].answers \subseteq rec'[t].answers]_vars

\* A task whose handle is out does not stay in working: it finishes, asks its
\* client for input, or expires.  No handle "never resolves" (TaskExecutor).
EventuallyResolved ==
  \A t \in Tasks : HandleOut(t) ~> rec[t].status # "working"

\* When a worker or a cancel finishes a task, a subscriber hears of a terminal
\* status.  A failed hand-off is not announced: the client reads it in the reply.
FinishAnnounced ==
  \A t \in Tasks :
    web[t] = "returned" /\ rec[t].status \in Terminal ~> announced[t] \cap Terminal # {}

-----------------------------------------------------------------------------
(* The inductive invariant behind the safety properties, in parts.         *)

\* What each process holds: a copy that is about to be written back was live
\* when it was read, and what is to be written is a status its caller may ask for.
CopyInv ==
  /\ \A p \in Procs : pc[p] \in {"claim", "report", "save", "answer"} => seen[p].status \in Live
  /\ \A w \in Workers :
       pc[w] \in {"get", "save"} => want[w].status \in Terminal \cup {"input_required"}
  /\ \A r \in Requests : pc[r] \in {"get", "save"} => want[r].status = "cancelled"

\* Until create_task has returned, nobody but it writes the record.
HandoffInv ==
  \A t \in Tasks :
    /\ web[t] = "idle" => queue[t] = 0
    /\ web[t] # "returned" => claims[t] = 0
    /\ web[t] \notin {"returned", "failed"} =>
         rec[t] \in {Seed, Absent} /\ \A p \in Procs : job[p] # t
    /\ web[t] = "failed" =>
         /\ rec[t] \in {Fresh("failed", FALSE), Absent}
         /\ \A p \in Procs : job[p] = t => p \in Requests /\ pc[p] = "get"

\* Unless the store drops records, a task that was created is there.
PresentInv ==
  ~Expiry => \A t \in Tasks : web[t] # "idle" => rec[t].status # "absent"

\* After a claim, neither the store nor any copy that can be written back without
\* finishing the task is claimable.
ClaimInv ==
  /\ \A w \in Workers :
       pc[w] \in {"run", "report", "wait", "get", "save", "publish"} => claims[job[w]] > 0
  /\ \A r \in Requests : pc[r] = "answer" => claims[job[r]] > 0
  /\ \A t \in Tasks : rec[t].status = "input_required" => claims[t] > 0
  /\ \A t \in Tasks : claims[t] > 0 => ~Claimable(rec[t])
  /\ \A w \in Workers : pc[w] \in {"report", "save"} => ~seen[w].enqueued
  /\ \A r \in Requests : pc[r] = "answer" => ~seen[r].enqueued

(* What the refinement needs besides: that writers do not overlap.         *)

\* One writer at a time.  Clients await each reply, nobody cancels, the store drops
\* nothing, and a message reaches one worker: there is one copy of it, or one worker.
OneWriter ==
  /\ Serial /\ ~Expiry /\ "cancel" \notin Kinds
  /\ MaxRedeliver = 0 \/ \A v, w \in Workers : v = w

\* A task has one message, or one worker that took it.
MessageInv ==
  \A t \in Tasks :
    /\ queue[t] \in {0, 1}
    /\ web[t] \in {"idle", "seeded"} => queue[t] = 0
    /\ queue[t] = 1 => \A w \in Workers : job[w] # t

SoleWorkerInv ==
  \A v, w \in Workers : job[v] = job[w] /\ job[v] # NoTask => v = w

\* One request changes a task at a time, and only while its worker waits for it.
AwaitInv ==
  /\ \A r \in Requests : pc[r] \in {"idle", "answer", "publish", "done"}
  /\ \A q, r \in Requests :
       pc[q] \notin {"idle", "done"} /\ pc[r] \notin {"idle", "done"} => q = r
  /\ \A r \in Requests : pc[r] = "answer" => seen[r].status = "input_required"
  /\ \A w \in Workers :
       job[w] # NoTask /\ rec[job[w]].status = "input_required" => pc[w] \in {"publish", "wait"}

\* So a copy that will be written back is what the store still holds.
CurrentInv ==
  \A p \in Procs : pc[p] \in {"claim", "report", "save", "answer"} => seen[p] = rec[job[p]]

O == INSTANCE OneWayTask WITH status <- [t \in Tasks |-> rec[t].status]

\* The status a client polls moves only along the one-way state machine.
ImplementsOneWayTask == O!Spec
=============================================================================
