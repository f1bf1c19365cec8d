---------------------------- MODULE TasksProofs ----------------------------
(* Type correctness of Tasks and the safety properties that hold for every   *)
(* set of tasks, workers and requests and every bound on the faults.         *)
EXTENDS Tasks, TLAPS

\* The records the code builds, and the updates it makes to them, are task records.
LEMMA RecordTypes ==
  /\ Seed \in TaskRecord /\ Absent \in TaskRecord /\ NoWant \in Wants
  /\ Fresh("working", TRUE) \in TaskRecord /\ Fresh("failed", FALSE) \in TaskRecord
BY TasksAssumption
DEF Fresh, Seed, Absent, NoWant, TaskRecord, Wants, Statuses, Terminal, Live, Outcomes

\* What a record is updated to is a record.
LEMMA RecordUpdates ==
  ASSUME NEW r \in TaskRecord
  PROVE  /\ r.status \in Statuses
         /\ r.enqueued \in BOOLEAN
         /\ \A b \in BOOLEAN : [r EXCEPT !.enqueued = b] \in TaskRecord
         /\ \A n \in 0..MaxProgress : [r EXCEPT !.progress = n] \in TaskRecord
         /\ \A ks \in SUBSET Keys : Answered(r, ks) \in TaskRecord
         /\ \A w \in Wants : Transitioned(r, w) \in TaskRecord
<1>1. \A b \in BOOLEAN : [r EXCEPT !.enqueued = b] \in TaskRecord
  BY DEF TaskRecord
<1>2. \A n \in 0..MaxProgress : [r EXCEPT !.progress = n] \in TaskRecord
  BY DEF TaskRecord
<1>3. \A ks \in SUBSET Keys : Answered(r, ks) \in TaskRecord
  BY DEF TaskRecord, Answered, Statuses, Live
<1>4. \A w \in Wants : Transitioned(r, w) \in TaskRecord
  BY DEF TaskRecord, Transitioned, Wants
<1> QED BY <1>1, <1>2, <1>3, <1>4 DEF TaskRecord

\* What each update leaves of the two fields run_task looks at.
LEMMA UpdatedFields ==
  ASSUME NEW r \in TaskRecord
  PROVE  /\ \A b \in BOOLEAN : LET u == [r EXCEPT !.enqueued = b]
                               IN u.status = r.status /\ u.enqueued = b
         /\ \A n \in 0..MaxProgress : LET u == [r EXCEPT !.progress = n]
                                      IN u.status = r.status /\ u.enqueued = r.enqueued
         /\ \A ks \in SUBSET Keys : LET u == Answered(r, ks)
                                    IN u.status \in Live /\ u.enqueued = r.enqueued
         /\ \A w \in Wants : LET u == Transitioned(r, w)
                              IN u.status = w.status /\ u.enqueued = r.enqueued
BY DEF TaskRecord, Answered, Transitioned, Live

\* A process inside a read-then-write holds a task, a record and what it will write.
LEMMA InFlight ==
  ASSUME TypeOK, NEW p \in Procs, pc[p] \in {"report", "get", "save", "answer"}
  PROVE  /\ job[p] \in Tasks /\ seen[p] \in TaskRecord
         /\ want[p] \in Wants /\ want[p].keys \in SUBSET Keys
<1>1. job[p] \in Tasks \cup {NoTask} /\ job[p] # NoTask
  BY DEF TypeOK
<1>2. seen[p] \in TaskRecord /\ want[p] \in Wants
  BY DEF TypeOK
<1> QED BY <1>1, <1>2 DEF Wants

\* The type invariant holds of the initial state and is kept by every action.
THEOREM TypeCorrect == Spec => []TypeOK
<1>1. Init => TypeOK
  <2> SUFFICES ASSUME Init PROVE TypeOK
    OBVIOUS
  <2>1. faults \in [redeliver: 0..MaxRedeliver, crash: 0..MaxCrashes, raise: 0..MaxRaises]
    BY TasksAssumption DEF Init
  <2>2. /\ rec \in [Tasks -> TaskRecord] /\ seen \in [Procs -> TaskRecord]
        /\ want \in [Procs -> Wants]
    BY RecordTypes DEF Init
  <2> QED
    BY <2>1, <2>2, TasksAssumption
    DEF Init, TypeOK, Procs, WorkerPCs, RequestPCs, WebStates, Statuses
<1>2. TypeOK /\ [Next]_vars => TypeOK'
  <2> SUFFICES ASSUME TypeOK, [Next]_vars PROVE TypeOK'
    OBVIOUS
  <2> USE TasksAssumption
      DEF TypeOK, Procs, WorkerPCs, RequestPCs, WebStates, Statuses, Terminal, Live, Outcomes
  <2>1. ASSUME NEW t \in Tasks, CreateSeed(t) PROVE TypeOK'
    BY RecordTypes, <2>1 DEF CreateSeed
  <2>2. ASSUME NEW t \in Tasks, CreateEnqueue(t) PROVE TypeOK'
    BY <2>2 DEF CreateEnqueue
  <2>3. ASSUME NEW t \in Tasks, CreateEnqueueFails(t) PROVE TypeOK'
    BY <2>3 DEF CreateEnqueueFails
  <2>4. ASSUME NEW t \in Tasks, CreateSaveFailed(t) PROVE TypeOK'
    BY RecordTypes, <2>4 DEF CreateSaveFailed
  <2>5. ASSUME NEW t \in Tasks, CreateMark(t) PROVE TypeOK'
    BY RecordTypes, <2>5 DEF CreateMark
  <2>6. ASSUME NEW t \in Tasks, Redeliver(t) PROVE TypeOK'
    BY <2>6 DEF Redeliver
  <2>7. ASSUME NEW t \in Tasks, WebCrash(t) PROVE TypeOK'
    BY <2>7 DEF WebCrash
  <2>8. ASSUME NEW t \in Tasks, Expire(t) PROVE TypeOK'
    BY RecordTypes, <2>8 DEF Expire
  <2>9. ASSUME NEW w \in Workers, NEW t \in Tasks, Deliver(w, t) PROVE TypeOK'
    BY <2>9 DEF Deliver, DeliverRefused, DeliverClaimable, Delivered
  <2>10. ASSUME NEW w \in Workers, WorkerClaim(w) PROVE TypeOK'
    <3>1. job[w] \in Tasks
      BY <2>10 DEF WorkerClaim, SaveClaim
    <3>2. [seen[w] EXCEPT !.enqueued = FALSE] \in TaskRecord
      BY RecordUpdates
    <3> QED BY RecordTypes, <2>10, <3>1, <3>2 DEF WorkerClaim, SaveClaim
  <2>11. ASSUME NEW w \in Workers, ContextRaises(w) PROVE TypeOK'
    <3>1. job[w] \in Tasks
      BY <2>11 DEF ContextRaises, SaveClaim
    <3>2. [seen[w] EXCEPT !.enqueued = FALSE] \in TaskRecord
      BY RecordUpdates
    <3> QED BY RecordTypes, <2>11, <3>1, <3>2 DEF ContextRaises, SaveClaim, Leave
  <2>12. ASSUME NEW w \in Workers, ReportGet(w) PROVE TypeOK'
    BY <2>12 DEF ReportGet
  <2>13. ASSUME NEW w \in Workers, ReportSave(w) PROVE TypeOK'
    <3>1. \A n \in 0..MaxProgress : [seen[w] EXCEPT !.progress = n] \in TaskRecord
      BY RecordUpdates
    <3> QED BY RecordTypes, <2>13, <3>1 DEF ReportSave
  <2>14. ASSUME NEW w \in Workers, Park(w) PROVE TypeOK'
    BY <2>14, SMTT(60) DEF Park, Wants, TaskRecord
  <2>15. ASSUME NEW w \in Workers, Resume(w) PROVE TypeOK'
    BY <2>15 DEF Resume
  <2>16. ASSUME NEW w \in Workers, Finish(w) PROVE TypeOK'
    BY <2>16 DEF Finish, Endings, Wants
  <2>17. ASSUME NEW w \in Workers, WorkerCrash(w) PROVE TypeOK'
    BY RecordTypes, <2>17 DEF WorkerCrash, Leave
  <2>18. ASSUME NEW r \in Requests, Request(r) PROVE TypeOK'
    <3>1. ASSUME NEW a \in Statuses \cup {"refused", "unknown"}, pc[r] = "idle", Answer(r, a)
          PROVE TypeOK'
      BY RecordTypes, <3>1 DEF Answer, Leave
    <3>2. CASE RequestRefused(r)
      BY <3>1, <3>2 DEF RequestRefused
    <3>3. CASE TasksGet(r)
      <4>1. \A t \in Tasks : rec[t].status \in Statuses
        BY DEF TaskRecord
      <4> QED BY <3>1, <3>3, <4>1 DEF TasksGet
    <3>4. CASE TasksCancel(r)
      BY <3>4 DEF TasksCancel, Wants
    <3>5. CASE TasksUpdateNotAwaiting(r)
      BY <3>1, <3>5 DEF TasksUpdateNotAwaiting
    <3>6. CASE TasksUpdate(r)
      <4>1. \A ks \in SUBSET Keys : [NoWant EXCEPT !.keys = ks] \in Wants
        BY RecordTypes DEF Wants
      <4>2. PICK t \in Tasks : job' = [job EXCEPT ![r] = t] /\ seen' = [seen EXCEPT ![r] = rec[t]]
        BY <3>6 DEF TasksUpdate
      <4>3. PICK ks \in SUBSET Keys : want' = [want EXCEPT ![r] = [NoWant EXCEPT !.keys = ks]]
        BY <3>6 DEF TasksUpdate
      <4>4. job' \in [Procs -> Tasks \cup {NoTask}] /\ pc' = [pc EXCEPT ![r] = "answer"]
        BY <3>6, <4>2 DEF TasksUpdate
      <4>5. seen' \in [Procs -> TaskRecord] /\ want' \in [Procs -> Wants]
        BY <4>1, <4>2, <4>3
      <4>6. \A p \in Procs : job'[p] = NoTask <=> pc'[p] \in {"idle", "done"}
        BY <4>2, <4>4
      <4> QED BY <3>6, <4>4, <4>5, <4>6 DEF TasksUpdate
    <3> QED BY <2>18, <3>2, <3>3, <3>4, <3>5, <3>6 DEF Request
  <2>19. ASSUME NEW r \in Requests, TasksUpdateSave(r) PROVE TypeOK'
    <3>1. job[r] \in Tasks
      BY <2>19 DEF TasksUpdateSave
    <3>2. Answered(seen[r], want[r].keys) \in TaskRecord
      BY RecordUpdates DEF Wants
    <3>3. ASSUME NEW s \in Statuses PROVE [want[r] EXCEPT !.status = s] \in Wants
      BY DEF Wants
    <3>4. Answered(seen[r], want[r].keys).status \in Statuses
      BY <3>2, RecordUpdates
    <3> QED BY <2>19, <3>1, <3>2, <3>3, <3>4 DEF TasksUpdateSave
  <2>20. ASSUME NEW p \in Procs, Transition(p) PROVE TypeOK'
    <3>1. CASE TransitionGet(p)
      BY <2>20, <3>1 DEF TransitionGet
    <3>2. CASE TransitionSave(p)
      <4>1. Transitioned(seen[p], want[p]) \in TaskRecord
        BY RecordUpdates
      <4> QED BY <2>20, <3>2, <4>1 DEF TransitionSave
    <3>3. CASE TransitionRefused(p)
      BY RecordTypes, <2>20, <3>3 DEF TransitionRefused, Return, Leave, Ack
    <3>4. CASE Publish(p)
      <4>1. want[p].status \in Statuses
        BY DEF Wants
      <4> QED BY RecordTypes, <2>20, <3>4, <4>1 DEF Publish, Return, Leave, Ack
    <3> QED BY <2>20, <3>1, <3>2, <3>3, <3>4 DEF Transition
  <2>21. CASE UNCHANGED vars
    BY <2>21 DEF vars
  <2> QED
    BY <2>1, <2>2, <2>3, <2>4, <2>5, <2>6, <2>7, <2>8, <2>9, <2>10, <2>11, <2>12, <2>13, <2>14,
       <2>15, <2>16, <2>17, <2>18, <2>19, <2>20, <2>21 DEF Next, WebStep
<1> QED BY <1>1, <1>2, PTL DEF Spec

\* What a process holds was live when it was read.
THEOREM CopiesLive == Spec => []CopyInv
<1>1. Init => CopyInv
  BY DEF Init, CopyInv, Procs
<1>2. TypeOK /\ CopyInv /\ [Next]_vars => CopyInv'
  <2> SUFFICES ASSUME TypeOK, CopyInv, [Next]_vars PROVE CopyInv'
    OBVIOUS
  <2> USE DEF TypeOK, CopyInv, Procs, Live, Terminal, WorkerPCs, RequestPCs
  <2>1. ASSUME NEW t \in Tasks, CreateSeed(t) PROVE CopyInv'
    BY <2>1 DEF CreateSeed
  <2>2. ASSUME NEW t \in Tasks, CreateEnqueue(t) PROVE CopyInv'
    BY <2>2 DEF CreateEnqueue
  <2>3. ASSUME NEW t \in Tasks, CreateEnqueueFails(t) PROVE CopyInv'
    BY <2>3 DEF CreateEnqueueFails
  <2>4. ASSUME NEW t \in Tasks, CreateSaveFailed(t) PROVE CopyInv'
    BY <2>4 DEF CreateSaveFailed
  <2>5. ASSUME NEW t \in Tasks, CreateMark(t) PROVE CopyInv'
    BY <2>5 DEF CreateMark
  <2>6. ASSUME NEW t \in Tasks, Redeliver(t) PROVE CopyInv'
    BY <2>6 DEF Redeliver
  <2>7. ASSUME NEW t \in Tasks, WebCrash(t) PROVE CopyInv'
    BY <2>7 DEF WebCrash
  <2>8. ASSUME NEW t \in Tasks, Expire(t) PROVE CopyInv'
    BY <2>8 DEF Expire
  <2>9. ASSUME NEW w \in Workers, NEW t \in Tasks, DeliverRefused(w, t) PROVE CopyInv'
    BY <2>9 DEF DeliverRefused, Delivered
  <2>10. ASSUME NEW w \in Workers, NEW t \in Tasks, DeliverClaimable(w, t) PROVE CopyInv'
    BY <2>10 DEF DeliverClaimable, Delivered, Claimable
  <2>11. ASSUME NEW w \in Workers, WorkerClaim(w) PROVE CopyInv'
    BY <2>11 DEF WorkerClaim, SaveClaim
  <2>12. ASSUME NEW w \in Workers, ContextRaises(w) PROVE CopyInv'
    BY <2>12 DEF ContextRaises, SaveClaim, Leave
  <2>13. ASSUME NEW w \in Workers, ReportGet(w) PROVE CopyInv'
    BY <2>13 DEF ReportGet
  <2>14. ASSUME NEW w \in Workers, ReportSave(w) PROVE CopyInv'
    BY <2>14 DEF ReportSave
  <2>15. ASSUME NEW w \in Workers, Park(w) PROVE CopyInv'
    BY <2>15 DEF Park
  <2>16. ASSUME NEW w \in Workers, Resume(w) PROVE CopyInv'
    BY <2>16 DEF Resume
  <2>17. ASSUME NEW w \in Workers, Finish(w) PROVE CopyInv'
    BY <2>17 DEF Finish, Endings
  <2>18. ASSUME NEW w \in Workers, WorkerCrash(w) PROVE CopyInv'
    BY <2>18 DEF WorkerCrash, Leave
  <2>19. ASSUME NEW r \in Requests, RequestRefused(r) PROVE CopyInv'
    BY <2>19 DEF RequestRefused, Answer, Leave
  <2>20. ASSUME NEW r \in Requests, TasksGet(r) PROVE CopyInv'
    BY <2>20 DEF TasksGet, Answer, Leave
  <2>21. ASSUME NEW r \in Requests, TasksCancel(r) PROVE CopyInv'
    BY <2>21 DEF TasksCancel
  <2>22. ASSUME NEW r \in Requests, TasksUpdateNotAwaiting(r) PROVE CopyInv'
    BY <2>22 DEF TasksUpdateNotAwaiting, Answer, Leave
  <2>23. ASSUME NEW r \in Requests, TasksUpdate(r) PROVE CopyInv'
    BY <2>23 DEF TasksUpdate, AwaitingInput
  <2>24. ASSUME NEW r \in Requests, TasksUpdateSave(r) PROVE CopyInv'
    BY <2>24 DEF TasksUpdateSave
  <2>25. ASSUME NEW p \in Procs, TransitionRefused(p) PROVE CopyInv'
    BY <2>25 DEF TransitionRefused, Return, Leave
  <2>26. ASSUME NEW p \in Procs, TransitionGet(p) PROVE CopyInv'
    BY <2>26 DEF TransitionGet
  <2>27. ASSUME NEW p \in Procs, TransitionSave(p) PROVE CopyInv'
    BY <2>27 DEF TransitionSave
  <2>28. ASSUME NEW p \in Procs, Publish(p) PROVE CopyInv'
    BY <2>28 DEF Publish, Return, Leave
  <2>29. CASE UNCHANGED vars
    BY <2>29 DEF vars
  <2> QED
    BY <2>1, <2>2, <2>3, <2>4, <2>5, <2>6, <2>7, <2>8, <2>9, <2>10, <2>11, <2>12, <2>13, <2>14,
       <2>15, <2>16, <2>17, <2>18, <2>19, <2>20, <2>21, <2>22, <2>23, <2>24, <2>25, <2>26,
       <2>27, <2>28, <2>29
    DEF Next, WebStep, Deliver, Request, Transition
<1> QED BY <1>1, <1>2, TypeCorrect, PTL DEF Spec

\* Until create_task has returned, nobody but it writes the record.
THEOREM HandoffExclusive == Spec => []HandoffInv
<1>1. Init => HandoffInv
  BY TasksAssumption DEF Init, HandoffInv
<1>2. TypeOK /\ CopyInv /\ HandoffInv /\ [Next]_vars => HandoffInv'
  <2> SUFFICES ASSUME TypeOK, CopyInv, HandoffInv, [Next]_vars PROVE HandoffInv'
    OBVIOUS
  <2> USE DEF TypeOK, CopyInv, HandoffInv, Procs, Live, Terminal, Fresh, Seed, Absent, WebStates,
              WorkerPCs, RequestPCs, HandleOut, Known
  <2>1. ASSUME NEW t \in Tasks, CreateSeed(t) PROVE HandoffInv'
    BY TasksAssumption, <2>1 DEF CreateSeed
  <2>2. ASSUME NEW t \in Tasks, CreateEnqueue(t) PROVE HandoffInv'
    BY TasksAssumption, <2>2 DEF CreateEnqueue
  <2>3. ASSUME NEW t \in Tasks, CreateEnqueueFails(t) PROVE HandoffInv'
    BY TasksAssumption, <2>3 DEF CreateEnqueueFails
  <2>4. ASSUME NEW t \in Tasks, CreateSaveFailed(t) PROVE HandoffInv'
    BY TasksAssumption, <2>4 DEF CreateSaveFailed
  <2>5. ASSUME NEW t \in Tasks, CreateMark(t) PROVE HandoffInv'
    BY TasksAssumption, <2>5 DEF CreateMark
  <2>6. ASSUME NEW t \in Tasks, Redeliver(t) PROVE HandoffInv'
    BY TasksAssumption, <2>6 DEF Redeliver
  <2>7. ASSUME NEW t \in Tasks, WebCrash(t) PROVE HandoffInv'
    BY TasksAssumption, <2>7 DEF WebCrash
  <2>8. ASSUME NEW t \in Tasks, Expire(t) PROVE HandoffInv'
    BY TasksAssumption, <2>8 DEF Expire
  <2>9. ASSUME NEW w \in Workers, NEW t \in Tasks, DeliverRefused(w, t) PROVE HandoffInv'
    BY TasksAssumption, <2>9 DEF DeliverRefused, Delivered
  <2>10. ASSUME NEW w \in Workers, NEW t \in Tasks, DeliverClaimable(w, t) PROVE HandoffInv'
    BY TasksAssumption, <2>10 DEF DeliverClaimable, Delivered, Claimable
  <2>11. ASSUME NEW w \in Workers, WorkerClaim(w) PROVE HandoffInv'
    BY TasksAssumption, <2>11 DEF WorkerClaim, SaveClaim
  <2>12. ASSUME NEW w \in Workers, ContextRaises(w) PROVE HandoffInv'
    BY TasksAssumption, <2>12 DEF ContextRaises, SaveClaim, Leave
  <2>13. ASSUME NEW w \in Workers, ReportGet(w) PROVE HandoffInv'
    BY TasksAssumption, <2>13 DEF ReportGet
  <2>14. ASSUME NEW w \in Workers, ReportSave(w) PROVE HandoffInv'
    BY TasksAssumption, <2>14 DEF ReportSave
  <2>15. ASSUME NEW w \in Workers, Park(w) PROVE HandoffInv'
    BY TasksAssumption, <2>15 DEF Park
  <2>16. ASSUME NEW w \in Workers, Resume(w) PROVE HandoffInv'
    BY TasksAssumption, <2>16 DEF Resume
  <2>17. ASSUME NEW w \in Workers, Finish(w) PROVE HandoffInv'
    BY TasksAssumption, <2>17 DEF Finish, Endings
  <2>18. ASSUME NEW w \in Workers, WorkerCrash(w) PROVE HandoffInv'
    BY TasksAssumption, <2>18 DEF WorkerCrash, Leave
  <2>19. ASSUME NEW r \in Requests, RequestRefused(r) PROVE HandoffInv'
    BY TasksAssumption, <2>19 DEF RequestRefused, Answer, Leave
  <2>20. ASSUME NEW r \in Requests, TasksGet(r) PROVE HandoffInv'
    BY TasksAssumption, <2>20 DEF TasksGet, Answer, Leave
  <2>21. ASSUME NEW r \in Requests, TasksCancel(r) PROVE HandoffInv'
    BY TasksAssumption, <2>21 DEF TasksCancel
  <2>22. ASSUME NEW r \in Requests, TasksUpdateNotAwaiting(r) PROVE HandoffInv'
    BY TasksAssumption, <2>22 DEF TasksUpdateNotAwaiting, Answer, Leave
  <2>23. ASSUME NEW r \in Requests, TasksUpdate(r) PROVE HandoffInv'
    BY TasksAssumption, <2>23 DEF TasksUpdate, AwaitingInput
  <2>24. ASSUME NEW r \in Requests, TasksUpdateSave(r) PROVE HandoffInv'
    BY TasksAssumption, <2>24 DEF TasksUpdateSave
  <2>25. ASSUME NEW p \in Procs, TransitionRefused(p) PROVE HandoffInv'
    BY TasksAssumption, <2>25 DEF TransitionRefused, Return, Leave
  <2>26. ASSUME NEW p \in Procs, TransitionGet(p) PROVE HandoffInv'
    BY TasksAssumption, <2>26 DEF TransitionGet
  <2>27. ASSUME NEW p \in Procs, TransitionSave(p) PROVE HandoffInv'
    BY TasksAssumption, <2>27 DEF TransitionSave
  <2>28. ASSUME NEW p \in Procs, Publish(p) PROVE HandoffInv'
    BY TasksAssumption, <2>28 DEF Publish, Return, Leave
  <2>29. CASE UNCHANGED vars
    BY <2>29 DEF vars
  <2> QED
    BY <2>1, <2>2, <2>3, <2>4, <2>5, <2>6, <2>7, <2>8, <2>9, <2>10, <2>11, <2>12, <2>13, <2>14,
       <2>15, <2>16, <2>17, <2>18, <2>19, <2>20, <2>21, <2>22, <2>23, <2>24, <2>25, <2>26,
       <2>27, <2>28, <2>29
    DEF Next, WebStep, Deliver, Request, Transition
<1> QED BY <1>1, <1>2, TypeCorrect, CopiesLive, PTL DEF Spec

\* Unless the store drops records, a created task is there.
THEOREM Present == Spec => []PresentInv
<1>1. Init => PresentInv
  BY DEF Init, PresentInv
<1>2. TypeOK /\ CopyInv /\ PresentInv /\ [Next]_vars => PresentInv'
  <2> SUFFICES ASSUME TypeOK, CopyInv, PresentInv, [Next]_vars PROVE PresentInv'
    OBVIOUS
  <2> USE DEF TypeOK, CopyInv, PresentInv, Procs, Live, Terminal, Fresh, Seed, Absent
  <2>1. ASSUME NEW t \in Tasks, CreateSeed(t) PROVE PresentInv'
    BY TasksAssumption, UpdatedFields, <2>1 DEF CreateSeed
  <2>2. ASSUME NEW t \in Tasks, CreateEnqueue(t) PROVE PresentInv'
    BY TasksAssumption, UpdatedFields, <2>2 DEF CreateEnqueue
  <2>3. ASSUME NEW t \in Tasks, CreateEnqueueFails(t) PROVE PresentInv'
    BY TasksAssumption, UpdatedFields, <2>3 DEF CreateEnqueueFails
  <2>4. ASSUME NEW t \in Tasks, CreateSaveFailed(t) PROVE PresentInv'
    BY TasksAssumption, UpdatedFields, <2>4 DEF CreateSaveFailed
  <2>5. ASSUME NEW t \in Tasks, CreateMark(t) PROVE PresentInv'
    BY TasksAssumption, UpdatedFields, <2>5 DEF CreateMark
  <2>6. ASSUME NEW t \in Tasks, Redeliver(t) PROVE PresentInv'
    BY TasksAssumption, UpdatedFields, <2>6 DEF Redeliver
  <2>7. ASSUME NEW t \in Tasks, WebCrash(t) PROVE PresentInv'
    BY TasksAssumption, UpdatedFields, <2>7 DEF WebCrash
  <2>8. ASSUME NEW t \in Tasks, Expire(t) PROVE PresentInv'
    BY TasksAssumption, UpdatedFields, <2>8 DEF Expire
  <2>9. ASSUME NEW w \in Workers, NEW t \in Tasks, DeliverRefused(w, t) PROVE PresentInv'
    BY TasksAssumption, UpdatedFields, <2>9 DEF DeliverRefused, Delivered
  <2>10. ASSUME NEW w \in Workers, NEW t \in Tasks, DeliverClaimable(w, t) PROVE PresentInv'
    BY TasksAssumption, UpdatedFields, <2>10 DEF DeliverClaimable, Delivered, Claimable
  <2>11. ASSUME NEW w \in Workers, WorkerClaim(w) PROVE PresentInv'
    <3>1. job[w] \in Tasks /\ seen[w] \in TaskRecord /\ seen[w].status \in Live
      BY <2>11 DEF WorkerClaim, SaveClaim
    <3>2. [seen[w] EXCEPT !.enqueued = FALSE].status = seen[w].status
      BY <3>1, UpdatedFields
    <3> QED BY <2>11, <3>1, <3>2 DEF WorkerClaim, SaveClaim
  <2>12. ASSUME NEW w \in Workers, ContextRaises(w) PROVE PresentInv'
    <3>1. job[w] \in Tasks /\ seen[w] \in TaskRecord /\ seen[w].status \in Live
      BY <2>12 DEF ContextRaises, SaveClaim
    <3>2. [seen[w] EXCEPT !.enqueued = FALSE].status = seen[w].status
      BY <3>1, UpdatedFields
    <3> QED BY <2>12, <3>1, <3>2 DEF ContextRaises, SaveClaim
  <2>13. ASSUME NEW w \in Workers, ReportGet(w) PROVE PresentInv'
    BY TasksAssumption, UpdatedFields, <2>13 DEF ReportGet
  <2>14. ASSUME NEW w \in Workers, ReportSave(w) PROVE PresentInv'
    <3>1. PICK n \in 0..MaxProgress :
            rec' = [rec EXCEPT ![job[w]] = [seen[w] EXCEPT !.progress = n]]
      BY <2>14 DEF ReportSave
    <3>2. job[w] \in Tasks /\ seen[w] \in TaskRecord /\ seen[w].status \in Live
      BY <2>14 DEF ReportSave
    <3>3. [seen[w] EXCEPT !.progress = n].status = seen[w].status
      BY <3>2, UpdatedFields
    <3> QED BY <2>14, <3>1, <3>2, <3>3 DEF ReportSave
  <2>15. ASSUME NEW w \in Workers, Park(w) PROVE PresentInv'
    BY TasksAssumption, UpdatedFields, <2>15 DEF Park
  <2>16. ASSUME NEW w \in Workers, Resume(w) PROVE PresentInv'
    BY TasksAssumption, UpdatedFields, <2>16 DEF Resume
  <2>17. ASSUME NEW w \in Workers, Finish(w) PROVE PresentInv'
    BY TasksAssumption, UpdatedFields, <2>17 DEF Finish, Endings
  <2>18. ASSUME NEW w \in Workers, WorkerCrash(w) PROVE PresentInv'
    BY TasksAssumption, UpdatedFields, <2>18 DEF WorkerCrash, Leave
  <2>19. ASSUME NEW r \in Requests, RequestRefused(r) PROVE PresentInv'
    BY TasksAssumption, UpdatedFields, <2>19 DEF RequestRefused, Answer, Leave
  <2>20. ASSUME NEW r \in Requests, TasksGet(r) PROVE PresentInv'
    BY TasksAssumption, UpdatedFields, <2>20 DEF TasksGet, Answer, Leave
  <2>21. ASSUME NEW r \in Requests, TasksCancel(r) PROVE PresentInv'
    BY TasksAssumption, UpdatedFields, <2>21 DEF TasksCancel
  <2>22. ASSUME NEW r \in Requests, TasksUpdateNotAwaiting(r) PROVE PresentInv'
    BY TasksAssumption, UpdatedFields, <2>22 DEF TasksUpdateNotAwaiting, Answer, Leave
  <2>23. ASSUME NEW r \in Requests, TasksUpdate(r) PROVE PresentInv'
    BY TasksAssumption, UpdatedFields, <2>23 DEF TasksUpdate, AwaitingInput
  <2>24. ASSUME NEW r \in Requests, TasksUpdateSave(r) PROVE PresentInv'
    <3> r \in Procs /\ pc[r] = "answer"
      BY <2>24 DEF TasksUpdateSave
    <3>1. job[r] \in Tasks /\ seen[r] \in TaskRecord /\ want[r].keys \in SUBSET Keys
      BY InFlight
    <3>2. Answered(seen[r], want[r].keys).status \in Live
      BY <3>1, UpdatedFields
    <3> QED BY <2>24, <3>1, <3>2 DEF TasksUpdateSave
  <2>25. ASSUME NEW p \in Procs, TransitionRefused(p) PROVE PresentInv'
    BY TasksAssumption, UpdatedFields, <2>25 DEF TransitionRefused, Return, Leave
  <2>26. ASSUME NEW p \in Procs, TransitionGet(p) PROVE PresentInv'
    BY TasksAssumption, UpdatedFields, <2>26 DEF TransitionGet
  <2>27. ASSUME NEW p \in Procs, TransitionSave(p) PROVE PresentInv'
    <3>0. pc[p] = "save"
      BY <2>27 DEF TransitionSave
    <3>1. job[p] \in Tasks /\ seen[p] \in TaskRecord /\ want[p] \in Wants
      BY <3>0, InFlight
    <3>2. want[p].status \in Terminal \cup Live
      BY <2>27 DEF TransitionSave
    <3>3. Transitioned(seen[p], want[p]).status = want[p].status
      BY <3>1, UpdatedFields
    <3> QED BY <2>27, <3>1, <3>2, <3>3 DEF TransitionSave
  <2>28. ASSUME NEW p \in Procs, Publish(p) PROVE PresentInv'
    BY TasksAssumption, UpdatedFields, <2>28 DEF Publish, Return, Leave
  <2>29. CASE UNCHANGED vars
    BY <2>29 DEF vars
  <2> QED
    BY <2>1, <2>2, <2>3, <2>4, <2>5, <2>6, <2>7, <2>8, <2>9, <2>10, <2>11, <2>12, <2>13, <2>14,
       <2>15, <2>16, <2>17, <2>18, <2>19, <2>20, <2>21, <2>22, <2>23, <2>24, <2>25, <2>26,
       <2>27, <2>28, <2>29
    DEF Next, WebStep, Deliver, Request, Transition
<1> QED BY <1>1, <1>2, TypeCorrect, CopiesLive, PTL DEF Spec

\* The end of transition_task, with or without a change, disturbs no claim.
LEMMA ReturnKeepsClaims ==
  ASSUME TypeOK, ClaimInv, NEW p \in Procs, pc[p] \in {"get", "publish"},
         Return(p), UNCHANGED <<rec, claims>>
  PROVE  ClaimInv'
<1> USE DEF TypeOK, ClaimInv, Procs
<1>1. /\ pc'[p] \in {"wait", "done", "idle"}
      /\ p \in Workers /\ pc'[p] = "wait" => job'[p] = job[p]
  BY DEF Return, Leave
<1>2. \A q \in Procs : q # p => pc'[q] = pc[q] /\ job'[q] = job[q] /\ seen'[q] = seen[q]
  BY DEF Return, Leave
<1>3. \A w \in Workers : pc'[w] \in {"run", "report", "wait", "get", "save", "publish"}
                         => claims'[job'[w]] > 0
  BY <1>1, <1>2
<1>4. \A r \in Requests : pc'[r] = "answer" => claims'[job'[r]] > 0 /\ ~seen'[r].enqueued
  BY <1>1, <1>2
<1>5. \A w \in Workers : pc'[w] \in {"report", "save"} => ~seen'[w].enqueued
  BY <1>1, <1>2
<1>6. \A t \in Tasks : /\ rec'[t].status = "input_required" => claims'[t] > 0
                       /\ claims'[t] > 0 => ~Claimable(rec'[t])
  OBVIOUS
<1> QED BY ONLY <1>3, <1>4, <1>5, <1>6 DEF ClaimInv, Claimable

\* After a claim nothing that can be read or written back is claimable.
THEOREM ClaimsStick == Spec => []ClaimInv
<1>1. Init => ClaimInv
  BY TasksAssumption DEF Init, ClaimInv, Absent, Fresh, Procs
<1>2. TypeOK /\ CopyInv /\ HandoffInv /\ ClaimInv /\ [Next]_vars => ClaimInv'
  <2> SUFFICES ASSUME TypeOK, CopyInv, HandoffInv, ClaimInv, [Next]_vars PROVE ClaimInv'
    OBVIOUS
  <2> USE DEF TypeOK, CopyInv, HandoffInv, ClaimInv, Claimable, Procs, Live, Terminal, Fresh, Seed,
              Absent, WorkerPCs, RequestPCs
  <2>1. ASSUME NEW t \in Tasks, CreateSeed(t) PROVE ClaimInv'
    BY TasksAssumption, <2>1 DEF CreateSeed
  <2>2. ASSUME NEW t \in Tasks, CreateEnqueue(t) PROVE ClaimInv'
    BY TasksAssumption, <2>2 DEF CreateEnqueue
  <2>3. ASSUME NEW t \in Tasks, CreateEnqueueFails(t) PROVE ClaimInv'
    BY TasksAssumption, <2>3 DEF CreateEnqueueFails
  <2>4. ASSUME NEW t \in Tasks, CreateSaveFailed(t) PROVE ClaimInv'
    BY TasksAssumption, <2>4 DEF CreateSaveFailed
  <2>5. ASSUME NEW t \in Tasks, CreateMark(t) PROVE ClaimInv'
    BY TasksAssumption, <2>5 DEF CreateMark
  <2>6. ASSUME NEW t \in Tasks, Redeliver(t) PROVE ClaimInv'
    BY TasksAssumption, <2>6 DEF Redeliver
  <2>7. ASSUME NEW t \in Tasks, WebCrash(t) PROVE ClaimInv'
    BY TasksAssumption, <2>7 DEF WebCrash
  <2>8. ASSUME NEW t \in Tasks, Expire(t) PROVE ClaimInv'
    BY TasksAssumption, <2>8 DEF Expire
  <2>9. ASSUME NEW w \in Workers, NEW t \in Tasks, DeliverRefused(w, t) PROVE ClaimInv'
    BY TasksAssumption, <2>9 DEF DeliverRefused, Delivered
  <2>10. ASSUME NEW w \in Workers, NEW t \in Tasks, DeliverClaimable(w, t) PROVE ClaimInv'
    BY TasksAssumption, <2>10 DEF DeliverClaimable, Delivered, Claimable
  <2>11. ASSUME NEW w \in Workers, WorkerClaim(w) PROVE ClaimInv'
    <3>1. job[w] \in Tasks /\ seen[w] \in TaskRecord
      BY <2>11 DEF WorkerClaim, SaveClaim
    <3>2. [seen[w] EXCEPT !.enqueued = FALSE].enqueued = FALSE
      BY <3>1, UpdatedFields
    <3>3. claims'[job[w]] > 0 /\ \A t \in Tasks : claims[t] > 0 => claims'[t] > 0
      BY <2>11, <3>1 DEF WorkerClaim
    <3>4. \A t \in Tasks : t # job[w] => rec'[t] = rec[t] /\ claims'[t] = claims[t]
      BY <2>11, <3>1 DEF WorkerClaim, SaveClaim
    <3>5. rec'[job[w]].enqueued = FALSE
      BY <2>11, <3>1, <3>2 DEF WorkerClaim, SaveClaim
    <3> QED BY <2>11, <3>1, <3>3, <3>4, <3>5, TasksAssumption DEF WorkerClaim, SaveClaim
  <2>12. ASSUME NEW w \in Workers, ContextRaises(w) PROVE ClaimInv'
    <3>1. job[w] \in Tasks /\ seen[w] \in TaskRecord
      BY <2>12 DEF ContextRaises, SaveClaim, Leave
    <3>2. [seen[w] EXCEPT !.enqueued = FALSE].enqueued = FALSE
      BY <3>1, UpdatedFields
    <3>3. claims'[job[w]] > 0 /\ \A t \in Tasks : claims[t] > 0 => claims'[t] > 0
      BY <2>12, <3>1 DEF ContextRaises
    <3>4. \A t \in Tasks : t # job[w] => rec'[t] = rec[t] /\ claims'[t] = claims[t]
      BY <2>12, <3>1 DEF ContextRaises, SaveClaim, Leave
    <3>5. rec'[job[w]].enqueued = FALSE
      BY <2>12, <3>1, <3>2 DEF ContextRaises, SaveClaim, Leave
    <3> QED BY <2>12, <3>1, <3>3, <3>4, <3>5, TasksAssumption DEF ContextRaises, SaveClaim, Leave
  <2>13. ASSUME NEW w \in Workers, ReportGet(w) PROVE ClaimInv'
    BY TasksAssumption, <2>13 DEF ReportGet
  <2>14. ASSUME NEW w \in Workers, ReportSave(w) PROVE ClaimInv'
    <3>1. PICK n \in 0..MaxProgress :
            rec' = [rec EXCEPT ![job[w]] = [seen[w] EXCEPT !.progress = n]]
      BY <2>14 DEF ReportSave
    <3>2. job[w] \in Tasks /\ seen[w] \in TaskRecord /\ claims[job[w]] > 0
      BY <2>14 DEF ReportSave
    <3>3. [seen[w] EXCEPT !.progress = n].enqueued = seen[w].enqueued
      BY <3>2, UpdatedFields
    <3> QED BY <2>14, <3>1, <3>2, <3>3, TasksAssumption DEF ReportSave
  <2>15. ASSUME NEW w \in Workers, Park(w) PROVE ClaimInv'
    BY TasksAssumption, <2>15 DEF Park
  <2>16. ASSUME NEW w \in Workers, Resume(w) PROVE ClaimInv'
    BY TasksAssumption, <2>16 DEF Resume
  <2>17. ASSUME NEW w \in Workers, Finish(w) PROVE ClaimInv'
    BY TasksAssumption, <2>17 DEF Finish, Endings
  <2>18. ASSUME NEW w \in Workers, WorkerCrash(w) PROVE ClaimInv'
    BY TasksAssumption, <2>18 DEF WorkerCrash, Leave
  <2>19. ASSUME NEW r \in Requests, RequestRefused(r) PROVE ClaimInv'
    BY TasksAssumption, <2>19 DEF RequestRefused, Answer, Leave
  <2>20. ASSUME NEW r \in Requests, TasksGet(r) PROVE ClaimInv'
    BY TasksAssumption, <2>20 DEF TasksGet, Answer, Leave
  <2>21. ASSUME NEW r \in Requests, TasksCancel(r) PROVE ClaimInv'
    BY TasksAssumption, <2>21 DEF TasksCancel
  <2>22. ASSUME NEW r \in Requests, TasksUpdateNotAwaiting(r) PROVE ClaimInv'
    BY TasksAssumption, <2>22 DEF TasksUpdateNotAwaiting, Answer, Leave
  <2>23. ASSUME NEW r \in Requests, TasksUpdate(r) PROVE ClaimInv'
    BY TasksAssumption, <2>23 DEF TasksUpdate, AwaitingInput
  <2>24. ASSUME NEW r \in Requests, TasksUpdateSave(r) PROVE ClaimInv'
    <3> r \in Procs /\ pc[r] = "answer"
      BY <2>24 DEF TasksUpdateSave
    <3>1. job[r] \in Tasks /\ seen[r] \in TaskRecord /\ want[r].keys \in SUBSET Keys
      BY InFlight
    <3>2. Answered(seen[r], want[r].keys).enqueued = seen[r].enqueued
      BY <3>1, UpdatedFields
    <3> QED BY <2>24, <3>1, <3>2, TasksAssumption DEF TasksUpdateSave
  <2>25. ASSUME NEW p \in Procs, TransitionRefused(p) PROVE ClaimInv'
    BY ReturnKeepsClaims, <2>25 DEF TransitionRefused
  <2>26. ASSUME NEW p \in Procs, TransitionGet(p) PROVE ClaimInv'
    BY TasksAssumption, <2>26 DEF TransitionGet
  <2>27. ASSUME NEW p \in Procs, TransitionSave(p) PROVE ClaimInv'
    <3>0. pc[p] = "save"
      BY <2>27 DEF TransitionSave
    <3>1. job[p] \in Tasks /\ seen[p] \in TaskRecord /\ want[p] \in Wants
      BY <3>0, InFlight
    <3>2. LET u == Transitioned(seen[p], want[p])
          IN u.status = want[p].status /\ u.enqueued = seen[p].enqueued
      BY <3>1, UpdatedFields
    <3>3. pc' = [pc EXCEPT ![p] = "publish"] /\ UNCHANGED <<job, seen, claims>>
      BY <2>27 DEF TransitionSave
    <3>4. rec' = [rec EXCEPT ![job[p]] = Transitioned(seen[p], want[p])]
      BY <2>27 DEF TransitionSave
    <3>5. /\ rec'[job[p]].status = "input_required" => claims[job[p]] > 0
          /\ claims[job[p]] > 0 => ~Claimable(rec'[job[p]])
      <4>1. CASE p \in Workers
        BY <3>0, <3>1, <3>2, <3>4, <4>1
      <4>2. CASE p \in Requests
        BY <3>0, <3>1, <3>2, <3>4, <4>2, TasksAssumption
      <4> QED BY <4>1, <4>2
    <3>6. \A t \in Tasks : t # job[p] => rec'[t] = rec[t]
      BY <3>4
    <3>7. \A t \in Tasks : /\ rec'[t].status = "input_required" => claims'[t] > 0
                           /\ claims'[t] > 0 => ~Claimable(rec'[t])
      BY <3>3, <3>5, <3>6
    <3>8. \A w \in Workers :
            /\ pc'[w] \in {"run", "report", "wait", "get", "save", "publish"}
               => claims'[job'[w]] > 0
            /\ pc'[w] \in {"report", "save"} => ~seen'[w].enqueued
      BY <3>0, <3>3
    <3>9. \A r \in Requests : pc'[r] = "answer" => claims'[job'[r]] > 0 /\ ~seen'[r].enqueued
      BY <3>0, <3>3
    <3> QED BY ONLY <3>7, <3>8, <3>9 DEF ClaimInv, Procs
  <2>28. ASSUME NEW p \in Procs, Publish(p) PROVE ClaimInv'
    BY ReturnKeepsClaims, <2>28 DEF Publish
  <2>29. CASE UNCHANGED vars
    BY <2>29 DEF vars
  <2> QED
    BY <2>1, <2>2, <2>3, <2>4, <2>5, <2>6, <2>7, <2>8, <2>9, <2>10, <2>11, <2>12, <2>13, <2>14,
       <2>15, <2>16, <2>17, <2>18, <2>19, <2>20, <2>21, <2>22, <2>23, <2>24, <2>25, <2>26,
       <2>27, <2>28, <2>29
    DEF Next, WebStep, Deliver, Request, Transition
<1> QED BY <1>1, <1>2, TypeCorrect, CopiesLive, HandoffExclusive, PTL DEF Spec

\* create_task: the record is durable before the id leaves the process.
THEOREM Durable == Spec => []DurableBeforeHandle
<1>1. HandoffInv /\ PresentInv => DurableBeforeHandle
  <2> SUFFICES ASSUME HandoffInv, PresentInv, ~Expiry, NEW t \in Tasks,
                      queue[t] > 0 \/ HandleOut(t)
               PROVE  rec[t].status # "absent"
    BY DEF DurableBeforeHandle
  <2>1. web[t] # "idle"
    <3>1. CASE queue[t] > 0
      <4>1. queue[t] # 0
        BY <3>1
      <4> QED BY <4>1 DEF HandoffInv
    <3>2. CASE HandleOut(t)
      BY <3>2 DEF HandleOut
    <3> QED BY <3>1, <3>2
  <2> QED BY <2>1 DEF PresentInv
<1> QED BY <1>1, HandoffExclusive, Present, PTL

\* create_task: its blind saves overwrite nothing.
THEOREM BlindSavesSafe == Spec => []BlindSavesLoseNothing
<1>1. HandoffInv => BlindSavesLoseNothing
  BY DEF HandoffInv, BlindSavesLoseNothing
<1> QED BY <1>1, HandoffExclusive, PTL

\* run_task runs only what create_task handed off.
THEOREM HandedOffOnly == Spec => []RunsOnlyHandedOff
<1>1. HandoffInv => RunsOnlyHandedOff
  <2> SUFFICES ASSUME HandoffInv, NEW t \in Tasks, claims[t] > 0
               PROVE  web[t] = "returned"
    BY DEF RunsOnlyHandedOff
  <2>1. claims[t] # 0
    OBVIOUS
  <2> QED BY <2>1 DEF HandoffInv
<1> QED BY <1>1, HandoffExclusive, PTL

\* run_task: a claimed task is not claimable again.
THEOREM RedeliveryRefused == Spec => []ClaimedOnce
<1>1. ClaimInv => ClaimedOnce
  BY DEF ClaimInv, ClaimedOnce
<1> QED BY <1>1, ClaimsStick, PTL

\* transition_task and its siblings: a finished task is reopened only through a
\* copy read before it finished.
THEOREM OneWayButForStaleCopies == Spec => ReopenedOnlyByStaleCopy
<1> DEFINE OneWay ==
      \A t \in Tasks :
        rec[t].status \in Terminal /\ rec'[t].status # rec[t].status
          => \/ Expiry /\ rec'[t].status = "absent"
             \/ \E p \in Procs : HoldsLiveCopy(p, t)
<1>1. TypeOK /\ CopyInv /\ HandoffInv /\ [Next]_vars => OneWay
  <2> SUFFICES ASSUME TypeOK, CopyInv, HandoffInv, [Next]_vars PROVE OneWay
    OBVIOUS
  <2> USE DEF TypeOK, CopyInv, HandoffInv, HoldsLiveCopy, Procs, Live, Terminal, Fresh, Seed, Absent
  <2>1. ASSUME NEW t \in Tasks, CreateSeed(t) PROVE OneWay
    BY <2>1 DEF CreateSeed
  <2>2. ASSUME NEW t \in Tasks, CreateEnqueue(t) PROVE OneWay
    BY <2>2 DEF CreateEnqueue
  <2>3. ASSUME NEW t \in Tasks, CreateEnqueueFails(t) PROVE OneWay
    BY <2>3 DEF CreateEnqueueFails
  <2>4. ASSUME NEW t \in Tasks, CreateSaveFailed(t) PROVE OneWay
    BY <2>4 DEF CreateSaveFailed
  <2>5. ASSUME NEW t \in Tasks, CreateMark(t) PROVE OneWay
    BY <2>5 DEF CreateMark
  <2>6. ASSUME NEW t \in Tasks, Redeliver(t) PROVE OneWay
    BY <2>6 DEF Redeliver
  <2>7. ASSUME NEW t \in Tasks, WebCrash(t) PROVE OneWay
    BY <2>7 DEF WebCrash
  <2>8. ASSUME NEW t \in Tasks, Expire(t) PROVE OneWay
    BY <2>8 DEF Expire
  <2>9. ASSUME NEW w \in Workers, NEW t \in Tasks, DeliverRefused(w, t) PROVE OneWay
    BY <2>9 DEF DeliverRefused, Delivered
  <2>10. ASSUME NEW w \in Workers, NEW t \in Tasks, DeliverClaimable(w, t) PROVE OneWay
    BY <2>10 DEF DeliverClaimable, Delivered, Claimable
  <2>11. ASSUME NEW w \in Workers, WorkerClaim(w) PROVE OneWay
    BY <2>11 DEF WorkerClaim, SaveClaim
  <2>12. ASSUME NEW w \in Workers, ContextRaises(w) PROVE OneWay
    BY <2>12 DEF ContextRaises, SaveClaim, Leave
  <2>13. ASSUME NEW w \in Workers, ReportGet(w) PROVE OneWay
    BY <2>13 DEF ReportGet
  <2>14. ASSUME NEW w \in Workers, ReportSave(w) PROVE OneWay
    BY <2>14 DEF ReportSave
  <2>15. ASSUME NEW w \in Workers, Park(w) PROVE OneWay
    BY <2>15 DEF Park
  <2>16. ASSUME NEW w \in Workers, Resume(w) PROVE OneWay
    BY <2>16 DEF Resume
  <2>17. ASSUME NEW w \in Workers, Finish(w) PROVE OneWay
    BY <2>17 DEF Finish, Endings
  <2>18. ASSUME NEW w \in Workers, WorkerCrash(w) PROVE OneWay
    BY <2>18 DEF WorkerCrash, Leave
  <2>19. ASSUME NEW r \in Requests, RequestRefused(r) PROVE OneWay
    BY <2>19 DEF RequestRefused, Answer, Leave
  <2>20. ASSUME NEW r \in Requests, TasksGet(r) PROVE OneWay
    BY <2>20 DEF TasksGet, Answer, Leave
  <2>21. ASSUME NEW r \in Requests, TasksCancel(r) PROVE OneWay
    BY <2>21 DEF TasksCancel
  <2>22. ASSUME NEW r \in Requests, TasksUpdateNotAwaiting(r) PROVE OneWay
    BY <2>22 DEF TasksUpdateNotAwaiting, Answer, Leave
  <2>23. ASSUME NEW r \in Requests, TasksUpdate(r) PROVE OneWay
    BY <2>23 DEF TasksUpdate, AwaitingInput
  <2>24. ASSUME NEW r \in Requests, TasksUpdateSave(r) PROVE OneWay
    BY <2>24 DEF TasksUpdateSave
  <2>25. ASSUME NEW p \in Procs, TransitionRefused(p) PROVE OneWay
    BY <2>25 DEF TransitionRefused, Return, Leave
  <2>26. ASSUME NEW p \in Procs, TransitionGet(p) PROVE OneWay
    BY <2>26 DEF TransitionGet
  <2>27. ASSUME NEW p \in Procs, TransitionSave(p) PROVE OneWay
    BY <2>27 DEF TransitionSave
  <2>28. ASSUME NEW p \in Procs, Publish(p) PROVE OneWay
    BY <2>28 DEF Publish, Return, Leave
  <2>29. CASE UNCHANGED vars
    BY <2>29 DEF vars
  <2> QED
    BY <2>1, <2>2, <2>3, <2>4, <2>5, <2>6, <2>7, <2>8, <2>9, <2>10, <2>11, <2>12, <2>13, <2>14,
       <2>15, <2>16, <2>17, <2>18, <2>19, <2>20, <2>21, <2>22, <2>23, <2>24, <2>25, <2>26,
       <2>27, <2>28, <2>29
    DEF Next, WebStep, Deliver, Request, Transition
<1> QED BY <1>1, TypeCorrect, CopiesLive, HandoffExclusive, PTL DEF Spec, ReopenedOnlyByStaleCopy

\* A message is taken by one worker, and no second one works on its task.
THEOREM SoleWorker ==
  ASSUME OneWriter
  PROVE  Spec => []SoleWorkerInv
<1>1. Init => MessageInv /\ SoleWorkerInv
  BY DEF Init, MessageInv, SoleWorkerInv, Procs
<1>2. CASE \A v, w \in Workers : v = w
  <2>1. SoleWorkerInv
    BY <1>2 DEF SoleWorkerInv
  <2> QED BY <2>1, PTL
<1>3. CASE MaxRedeliver = 0
  <2>1. TypeOK /\ HandoffInv /\ MessageInv /\ SoleWorkerInv /\ [Next]_vars
        => MessageInv' /\ SoleWorkerInv'
    <3> SUFFICES ASSUME TypeOK, HandoffInv, MessageInv, SoleWorkerInv, [Next]_vars
                 PROVE  MessageInv' /\ SoleWorkerInv'
      OBVIOUS
    <3> USE TasksAssumption DEF TypeOK, MessageInv, SoleWorkerInv, Procs, WorkerPCs, RequestPCs
    <3>1. ASSUME NEW t \in Tasks, CreateSeed(t) PROVE MessageInv' /\ SoleWorkerInv'
      BY <3>1 DEF CreateSeed
    <3>2. ASSUME NEW t \in Tasks, CreateEnqueue(t) PROVE MessageInv' /\ SoleWorkerInv'
      <4>1. queue[t] = 0 /\ \A w \in Workers : job[w] # t
        BY <3>2 DEF CreateEnqueue, HandoffInv
      <4> QED BY <3>2, <4>1 DEF CreateEnqueue
    <3>3. ASSUME NEW t \in Tasks, CreateEnqueueFails(t) PROVE MessageInv' /\ SoleWorkerInv'
      <4>1. queue[t] = 0 /\ \A w \in Workers : job[w] # t
        BY <3>3 DEF CreateEnqueueFails, HandoffInv
      <4> QED BY <3>3, <4>1 DEF CreateEnqueueFails
    <3>4. ASSUME NEW t \in Tasks, CreateSaveFailed(t) PROVE MessageInv' /\ SoleWorkerInv'
      BY <3>4 DEF CreateSaveFailed
    <3>5. ASSUME NEW t \in Tasks, CreateMark(t) PROVE MessageInv' /\ SoleWorkerInv'
      BY <3>5 DEF CreateMark
    <3>6. ASSUME NEW t \in Tasks, Redeliver(t) PROVE MessageInv' /\ SoleWorkerInv'
      BY <1>3, <3>6 DEF Redeliver
    <3>7. ASSUME NEW t \in Tasks, WebCrash(t) PROVE MessageInv' /\ SoleWorkerInv'
      BY <3>7 DEF WebCrash
    <3>8. ASSUME NEW t \in Tasks, Expire(t) PROVE MessageInv' /\ SoleWorkerInv'
      BY <3>8 DEF Expire
    <3>9. ASSUME NEW w \in Workers, NEW t \in Tasks, DeliverRefused(w, t)
          PROVE  MessageInv' /\ SoleWorkerInv'
      BY <3>9 DEF DeliverRefused, Delivered
    <3>10. ASSUME NEW w \in Workers, NEW t \in Tasks, DeliverClaimable(w, t)
           PROVE  MessageInv' /\ SoleWorkerInv'
      BY <3>10 DEF DeliverClaimable, Delivered, Claimable
    <3>11. ASSUME NEW w \in Workers, WorkerClaim(w) PROVE MessageInv' /\ SoleWorkerInv'
      BY <3>11 DEF WorkerClaim, SaveClaim
    <3>12. ASSUME NEW w \in Workers, ContextRaises(w) PROVE MessageInv' /\ SoleWorkerInv'
      BY <3>12 DEF ContextRaises, SaveClaim, Leave
    <3>13. ASSUME NEW w \in Workers, ReportGet(w) PROVE MessageInv' /\ SoleWorkerInv'
      BY <3>13 DEF ReportGet
    <3>14. ASSUME NEW w \in Workers, ReportSave(w) PROVE MessageInv' /\ SoleWorkerInv'
      BY <3>14 DEF ReportSave
    <3>15. ASSUME NEW w \in Workers, Park(w) PROVE MessageInv' /\ SoleWorkerInv'
      BY <3>15 DEF Park
    <3>16. ASSUME NEW w \in Workers, Resume(w) PROVE MessageInv' /\ SoleWorkerInv'
      BY <3>16 DEF Resume
    <3>17. ASSUME NEW w \in Workers, Finish(w) PROVE MessageInv' /\ SoleWorkerInv'
      BY <3>17 DEF Finish, Endings
    <3>18. ASSUME NEW w \in Workers, WorkerCrash(w) PROVE MessageInv' /\ SoleWorkerInv'
      <4>1. job[w] \in Tasks /\ queue[job[w]] = 0 /\ web[job[w]] \notin {"idle", "seeded"}
        <5>1. job[w] \in Tasks /\ job[w] # NoTask
          BY <3>18 DEF WorkerCrash
        <5>2. queue[job[w]] = 0
          BY <5>1
        <5>3. web[job[w]] \notin {"idle", "seeded"}
          BY <5>1 DEF HandoffInv
        <5> QED BY <5>1, <5>2, <5>3
      <4>2. /\ queue' = [queue EXCEPT ![job[w]] = @ + 1] /\ web' = web
            /\ job' = [job EXCEPT ![w] = NoTask]
        BY <3>18 DEF WorkerCrash, Leave
      <4>3. queue'[job[w]] = 1 /\ \A t \in Tasks : t # job[w] => queue'[t] = queue[t]
        BY <4>1, <4>2
      <4>4. \A v \in Workers : job'[v] # job[w] /\ (v # w => job'[v] = job[v])
        BY <4>1, <4>2
      <4> QED BY <4>1, <4>2, <4>3, <4>4
    <3>19. ASSUME NEW r \in Requests, RequestRefused(r) PROVE MessageInv' /\ SoleWorkerInv'
      BY <3>19 DEF RequestRefused, Answer, Leave
    <3>20. ASSUME NEW r \in Requests, TasksGet(r) PROVE MessageInv' /\ SoleWorkerInv'
      BY <3>20 DEF TasksGet, Answer, Leave
    <3>21. ASSUME NEW r \in Requests, TasksCancel(r) PROVE MessageInv' /\ SoleWorkerInv'
      BY <3>21 DEF TasksCancel
    <3>22. ASSUME NEW r \in Requests, TasksUpdateNotAwaiting(r) PROVE MessageInv' /\ SoleWorkerInv'
      BY <3>22 DEF TasksUpdateNotAwaiting, Answer, Leave
    <3>23. ASSUME NEW r \in Requests, TasksUpdate(r) PROVE MessageInv' /\ SoleWorkerInv'
      BY <3>23 DEF TasksUpdate, AwaitingInput, MaySend
    <3>24. ASSUME NEW r \in Requests, TasksUpdateSave(r) PROVE MessageInv' /\ SoleWorkerInv'
      BY <3>24 DEF TasksUpdateSave
    <3>25. ASSUME NEW p \in Procs, TransitionRefused(p) PROVE MessageInv' /\ SoleWorkerInv'
      BY <3>25 DEF TransitionRefused, Return, Leave
    <3>26. ASSUME NEW p \in Procs, TransitionGet(p) PROVE MessageInv' /\ SoleWorkerInv'
      BY <3>26 DEF TransitionGet
    <3>27. ASSUME NEW p \in Procs, TransitionSave(p) PROVE MessageInv' /\ SoleWorkerInv'
      BY <3>27 DEF TransitionSave
    <3>28. ASSUME NEW p \in Procs, Publish(p) PROVE MessageInv' /\ SoleWorkerInv'
      BY <3>28 DEF Publish, Return, Leave
    <3>29. CASE UNCHANGED vars
      BY <3>29 DEF vars
    <3> QED
      BY <3>1, <3>2, <3>3, <3>4, <3>5, <3>6, <3>7, <3>8, <3>9, <3>10, <3>11, <3>12, <3>13, <3>14,
         <3>15, <3>16, <3>17, <3>18, <3>19, <3>20, <3>21, <3>22, <3>23, <3>24, <3>25, <3>26, <3>27, <3>28,
         <3>29
      DEF Next, WebStep, Deliver, Request, Transition
  <2> QED BY <1>1, <2>1, TypeCorrect, HandoffExclusive, PTL DEF Spec
<1> QED BY <1>2, <1>3 DEF OneWriter

\* A request answers only while the worker waits, and every copy is what the store holds.
THEOREM CopiesCurrent ==
  ASSUME OneWriter
  PROVE  Spec => [](AwaitInv /\ CurrentInv)
<1>1. Init => AwaitInv /\ CurrentInv
  BY DEF Init, AwaitInv, CurrentInv, Procs, Absent, Fresh
<1>2. TypeOK /\ CopyInv /\ HandoffInv /\ ClaimInv /\ SoleWorkerInv /\ AwaitInv /\ CurrentInv
      /\ [Next]_vars => AwaitInv' /\ CurrentInv'
  <2> SUFFICES ASSUME TypeOK, CopyInv, HandoffInv, ClaimInv, SoleWorkerInv, AwaitInv, CurrentInv,
                      [Next]_vars
               PROVE  AwaitInv' /\ CurrentInv'
    OBVIOUS
  <2> USE TasksAssumption
      DEF TypeOK, SoleWorkerInv, AwaitInv, CurrentInv, Procs, WorkerPCs, RequestPCs
  <2>1. ASSUME NEW t \in Tasks, CreateSeed(t) PROVE AwaitInv' /\ CurrentInv'
    <3>1. \A p \in Procs : job[p] # t
      BY <2>1 DEF CreateSeed, HandoffInv
    <3> QED BY <2>1, <3>1 DEF CreateSeed
  <2>2. ASSUME NEW t \in Tasks, CreateEnqueue(t) PROVE AwaitInv' /\ CurrentInv'
    BY <2>2 DEF CreateEnqueue
  <2>3. ASSUME NEW t \in Tasks, CreateEnqueueFails(t) PROVE AwaitInv' /\ CurrentInv'
    BY <2>3 DEF CreateEnqueueFails
  <2>4. ASSUME NEW t \in Tasks, CreateSaveFailed(t) PROVE AwaitInv' /\ CurrentInv'
    <3>1. \A p \in Procs : job[p] # t
      BY <2>4 DEF CreateSaveFailed, HandoffInv
    <3>2. \A u \in Tasks : u # t => rec'[u] = rec[u]
      BY <2>4 DEF CreateSaveFailed
    <3>3. UNCHANGED <<pc, job, seen>>
      BY <2>4 DEF CreateSaveFailed
    <3> HIDE DEF TypeOK
    <3>4. \A p \in Procs : job[p] \in Tasks => rec'[job[p]] = rec[job[p]]
      BY <3>1, <3>2
    <3>5. \A p \in Procs : /\ (pc[p] \notin {"idle", "done"}) <=> (job[p] \in Tasks)
                           /\ (job[p] # NoTask) <=> (job[p] \in Tasks)
      BY DEF TypeOK
    <3>6. CurrentInv'
      BY <3>3, <3>4, <3>5
    <3>7. AwaitInv'
      BY <3>3, <3>4, <3>5
    <3> QED BY <3>6, <3>7
  <2>5. ASSUME NEW t \in Tasks, CreateMark(t) PROVE AwaitInv' /\ CurrentInv'
    <3>1. \A p \in Procs : job[p] # t
      BY <2>5 DEF CreateMark, HandoffInv
    <3>2. \A u \in Tasks : u # t => rec'[u] = rec[u]
      BY <2>5 DEF CreateMark
    <3>3. UNCHANGED <<pc, job, seen>>
      BY <2>5 DEF CreateMark
    <3> HIDE DEF TypeOK
    <3>4. \A p \in Procs : job[p] \in Tasks => rec'[job[p]] = rec[job[p]]
      BY <3>1, <3>2
    <3>5. \A p \in Procs : /\ (pc[p] \notin {"idle", "done"}) <=> (job[p] \in Tasks)
                           /\ (job[p] # NoTask) <=> (job[p] \in Tasks)
      BY DEF TypeOK
    <3>6. CurrentInv'
      BY <3>3, <3>4, <3>5
    <3>7. AwaitInv'
      BY <3>3, <3>4, <3>5
    <3> QED BY <3>6, <3>7
  <2>6. ASSUME NEW t \in Tasks, Redeliver(t) PROVE AwaitInv' /\ CurrentInv'
    BY <2>6 DEF Redeliver
  <2>7. ASSUME NEW t \in Tasks, WebCrash(t) PROVE AwaitInv' /\ CurrentInv'
    BY <2>7 DEF WebCrash
  <2>8. ASSUME NEW t \in Tasks, Expire(t) PROVE AwaitInv' /\ CurrentInv'
    BY <2>8 DEF Expire, OneWriter
  <2>9. ASSUME NEW w \in Workers, NEW t \in Tasks, DeliverRefused(w, t)
        PROVE  AwaitInv' /\ CurrentInv'
    BY <2>9 DEF DeliverRefused, Delivered
  <2>10. ASSUME NEW w \in Workers, NEW t \in Tasks, DeliverClaimable(w, t)
         PROVE  AwaitInv' /\ CurrentInv'
    <3>1. rec[t].status # "input_required"
      BY <2>10 DEF DeliverClaimable, Claimable, ClaimInv
    <3> QED BY <2>10, <3>1 DEF DeliverClaimable, Delivered
  <2>11. ASSUME NEW w \in Workers, WorkerClaim(w) PROVE AwaitInv' /\ CurrentInv'
    BY <2>11 DEF WorkerClaim, SaveClaim
  <2>12. ASSUME NEW w \in Workers, ContextRaises(w) PROVE AwaitInv' /\ CurrentInv'
    BY <2>12 DEF ContextRaises, SaveClaim, Leave
  <2>13. ASSUME NEW w \in Workers, ReportGet(w) PROVE AwaitInv' /\ CurrentInv'
    BY <2>13 DEF ReportGet
  <2>14. ASSUME NEW w \in Workers, ReportSave(w) PROVE AwaitInv' /\ CurrentInv'
    BY <2>14 DEF ReportSave
  <2>15. ASSUME NEW w \in Workers, Park(w) PROVE AwaitInv' /\ CurrentInv'
    BY <2>15 DEF Park
  <2>16. ASSUME NEW w \in Workers, Resume(w) PROVE AwaitInv' /\ CurrentInv'
    BY <2>16 DEF Resume
  <2>17. ASSUME NEW w \in Workers, Finish(w) PROVE AwaitInv' /\ CurrentInv'
    BY <2>17 DEF Finish, Endings
  <2>18. ASSUME NEW w \in Workers, WorkerCrash(w) PROVE AwaitInv' /\ CurrentInv'
    BY <2>18 DEF WorkerCrash, Leave
  <2>19. ASSUME NEW r \in Requests, RequestRefused(r) PROVE AwaitInv' /\ CurrentInv'
    BY <2>19, SMTT(60) DEF RequestRefused, Answer, Leave
  <2>20. ASSUME NEW r \in Requests, TasksGet(r) PROVE AwaitInv' /\ CurrentInv'
    BY <2>20 DEF TasksGet, Answer, Leave
  <2>21. ASSUME NEW r \in Requests, TasksCancel(r) PROVE AwaitInv' /\ CurrentInv'
    BY <2>21 DEF TasksCancel, OneWriter
  <2>22. ASSUME NEW r \in Requests, TasksUpdateNotAwaiting(r) PROVE AwaitInv' /\ CurrentInv'
    BY <2>22 DEF TasksUpdateNotAwaiting, Answer, Leave
  <2>23. ASSUME NEW r \in Requests, TasksUpdate(r) PROVE AwaitInv' /\ CurrentInv'
    <3>1. PICK t \in Tasks : /\ rec[t].status = "input_required"
                            /\ job' = [job EXCEPT ![r] = t]
                            /\ seen' = [seen EXCEPT ![r] = rec[t]]
      BY <2>23 DEF TasksUpdate, AwaitingInput
    <3>2. pc' = [pc EXCEPT ![r] = "answer"] /\ rec' = rec /\ r \notin Workers
      BY <2>23 DEF TasksUpdate
    <3>3. \A q \in Requests : pc[q] \in {"idle", "done"}
      BY <2>23 DEF TasksUpdate, MaySend, OneWriter
    <3>4. CurrentInv'
      BY <3>1, <3>2
    <3>5. AwaitInv'
      BY <3>1, <3>2, <3>3
    <3> QED BY <3>4, <3>5
  <2>24. ASSUME NEW r \in Requests, TasksUpdateSave(r) PROVE AwaitInv' /\ CurrentInv'
    BY <2>24 DEF TasksUpdateSave
  <2>25. ASSUME NEW p \in Procs, TransitionRefused(p) PROVE AwaitInv' /\ CurrentInv'
    BY <2>25 DEF TransitionRefused, Return, Leave
  <2>26. ASSUME NEW p \in Procs, TransitionGet(p) PROVE AwaitInv' /\ CurrentInv'
    BY <2>26 DEF TransitionGet
  <2>27. ASSUME NEW p \in Procs, TransitionSave(p) PROVE AwaitInv' /\ CurrentInv'
    BY <2>27 DEF TransitionSave
  <2>28. ASSUME NEW p \in Procs, Publish(p) PROVE AwaitInv' /\ CurrentInv'
    BY <2>28 DEF Publish, Return, Leave
  <2>29. CASE UNCHANGED vars
    BY <2>29 DEF vars
  <2> QED
    BY <2>1, <2>2, <2>3, <2>4, <2>5, <2>6, <2>7, <2>8, <2>9, <2>10, <2>11, <2>12, <2>13, <2>14,
       <2>15, <2>16, <2>17, <2>18, <2>19, <2>20, <2>21, <2>22, <2>23, <2>24, <2>25, <2>26, <2>27, <2>28,
       <2>29
    DEF Next, WebStep, Deliver, Request, Transition
<1> QED
  BY <1>1, <1>2, TypeCorrect, CopiesLive, HandoffExclusive, ClaimsStick, SoleWorker, PTL DEF Spec

\* What OneWayTask lets a step do to the statuses, and no answer taken back.
MovesOneWay ==
  /\ [O!Next]_([t \in Tasks |-> rec[t].status])
  /\ \A t \in Tasks : rec[t].answers \subseteq rec'[t].answers

\* Where writers do not overlap, the status moves as OneWayTask says and the answers a
\* task has stay: each step of any process, for one task and for the others.
LEMMA StepsOneWay ==
  ASSUME OneWriter, TypeOK, CopyInv, HandoffInv, PresentInv, AwaitInv, CurrentInv, [Next]_vars
  PROVE  MovesOneWay
<1> DEFINE Status == [t \in Tasks |-> rec[t].status]
<1>1. ASSUME rec' = rec PROVE MovesOneWay
  BY <1>1 DEF MovesOneWay
<1>2. ASSUME NEW t \in Tasks, NEW r \in TaskRecord, rec' = [rec EXCEPT ![t] = r],
             rec[t].answers \subseteq r.answers,
             \/ r.status = rec[t].status
             \/ rec[t].status = "absent" /\ r.status = "working"
             \/ rec[t].status = "working" /\ r.status = "input_required"
             \/ rec[t].status = "input_required" /\ r.status = "working"
             \/ rec[t].status \in Live /\ r.status \in Terminal
      PROVE  MovesOneWay
  <2>1. rec \in [Tasks -> TaskRecord]
    BY DEF TypeOK
  <2>2. rec'[t] = r /\ \A u \in Tasks : u # t => rec'[u] = rec[u]
    BY <1>2, <2>1
  <2>3. Status' = [Status EXCEPT ![t] = r.status] /\ Status[t] = rec[t].status
    BY <2>1, <2>2
  <2>4. CASE r.status = rec[t].status
    BY <2>3, <2>4, <2>2, <1>2 DEF MovesOneWay
  <2>5. CASE r.status # rec[t].status
    <3>1. O!Create(t) \/ O!AskForInput(t) \/ O!Answer(t) \/ O!Finish(t)
      BY <1>2, <2>3, <2>5
      DEF O!Create, O!AskForInput, O!Answer, O!Finish, O!Move, O!Terminal, Terminal, Live
    <3> QED BY <3>1, <2>2, <1>2 DEF O!Next, MovesOneWay
  <2> QED BY <2>4, <2>5
<1>3. ASSUME NEW w \in Workers, WorkerClaim(w) \/ ContextRaises(w) PROVE MovesOneWay
  <2>0. SaveClaim(w)
    BY <1>3 DEF WorkerClaim, ContextRaises
  <2>1. job[w] \in Tasks /\ seen[w] \in TaskRecord /\ seen[w] = rec[job[w]]
    BY <2>0 DEF SaveClaim, TypeOK, CurrentInv, Procs
  <2> DEFINE r == [seen[w] EXCEPT !.enqueued = FALSE]
  <2>2. r \in TaskRecord /\ r.status = rec[job[w]].status /\ r.answers = rec[job[w]].answers
    BY <2>1 DEF TaskRecord
  <2>3. rec' = [rec EXCEPT ![job[w]] = r]
    BY <2>0 DEF SaveClaim
  <2> QED BY <2>1, <2>2, <2>3, <1>2
<1>4. ASSUME NEW t \in Tasks, CreateSeed(t) PROVE MovesOneWay
  <2>1. rec[t] \in {Seed, Absent} /\ rec' = [rec EXCEPT ![t] = Seed]
    BY <1>4 DEF CreateSeed, HandoffInv
  <2>2. /\ Seed.status = "working" /\ Seed.answers = {}
        /\ Absent.status = "absent" /\ Absent.answers = {}
    BY DEF Seed, Absent, Fresh
  <2> QED BY <2>1, <2>2, <1>2, RecordTypes
<1>5. ASSUME NEW t \in Tasks, CreateSaveFailed(t) PROVE MovesOneWay
  <2>1. rec[t] = Seed /\ rec' = [rec EXCEPT ![t] = Fresh("failed", FALSE)]
    BY <1>5 DEF CreateSaveFailed, HandoffInv, PresentInv, OneWriter, Absent, Fresh
  <2> DEFINE r == Fresh("failed", FALSE)
  <2>2. /\ rec[t].status \in Live /\ rec[t].answers = {}
        /\ r.status \in Terminal /\ r.answers = {}
    BY <2>1 DEF Seed, Fresh, Live, Terminal
  <2>3. r \in TaskRecord
    BY RecordTypes
  <2> HIDE DEF r
  <2>4. rec' = [rec EXCEPT ![t] = r]
    BY <2>1 DEF r
  <2> QED BY <2>2, <2>3, <2>4, <1>2
<1>6. ASSUME NEW t \in Tasks, CreateMark(t) PROVE MovesOneWay
  <2>1. rec[t] = Seed /\ rec' = [rec EXCEPT ![t] = Fresh("working", TRUE)]
    BY <1>6 DEF CreateMark, HandoffInv, PresentInv, OneWriter, Absent, Fresh
  <2> DEFINE r == Fresh("working", TRUE)
  <2>2. r.status = rec[t].status /\ rec[t].answers = {} /\ r.answers = {}
    BY <2>1 DEF Seed, Fresh
  <2>3. r \in TaskRecord
    BY RecordTypes
  <2> HIDE DEF r
  <2>4. rec' = [rec EXCEPT ![t] = r]
    BY <2>1 DEF r
  <2> QED BY <2>2, <2>3, <2>4, <1>2
<1>7. ASSUME NEW w \in Workers, ReportSave(w) PROVE MovesOneWay
  <2>1. PICK n \in 0..MaxProgress :
          rec' = [rec EXCEPT ![job[w]] = [seen[w] EXCEPT !.progress = n]]
    BY <1>7 DEF ReportSave
  <2>2. job[w] \in Tasks /\ seen[w] \in TaskRecord /\ seen[w] = rec[job[w]]
    BY <1>7 DEF ReportSave, TypeOK, CurrentInv, Procs
  <2> DEFINE r == [seen[w] EXCEPT !.progress = n]
  <2>3. r \in TaskRecord /\ r.status = rec[job[w]].status /\ r.answers = rec[job[w]].answers
    BY <2>2 DEF TaskRecord
  <2> QED BY <2>1, <2>2, <2>3, <1>2
<1>8. ASSUME NEW p \in Procs, TransitionSave(p) PROVE MovesOneWay
  <2>1. pc[p] = "save" /\ rec' = [rec EXCEPT ![job[p]] = Transitioned(seen[p], want[p])]
    BY <1>8 DEF TransitionSave
  <2>2. p \in Workers /\ seen[p] = rec[job[p]] /\ job[p] # NoTask
    BY <2>1 DEF AwaitInv, CurrentInv, TypeOK, Procs
  <2>3. job[p] \in Tasks /\ seen[p] \in TaskRecord /\ want[p] \in Wants
    BY <2>1, InFlight
  <2>4. want[p].status \in Terminal \cup {"input_required"} /\ seen[p].status \in Live
    BY <2>1, <2>2 DEF CopyInv
  <2>5. rec[job[p]].status # "input_required"
    BY <2>1, <2>2 DEF AwaitInv
  <2> DEFINE r == Transitioned(seen[p], want[p])
  <2>6. r \in TaskRecord
    BY <2>3, RecordUpdates
  <2>7. r.status = want[p].status /\ r.answers = rec[job[p]].answers
    BY <2>2, <2>3 DEF TaskRecord, Transitioned
  <2>8. rec[job[p]].status = "working"
    BY <2>2, <2>4, <2>5 DEF Live
  <2> HIDE DEF r
  <2>9. \/ rec[job[p]].status = "working" /\ r.status = "input_required"
        \/ rec[job[p]].status \in Live /\ r.status \in Terminal
    BY <2>4, <2>7, <2>8 DEF Live
  <2>10. rec' = [rec EXCEPT ![job[p]] = r]
    BY <2>1 DEF r
  <2> QED BY <2>3, <2>6, <2>7, <2>9, <2>10, <1>2
<1>9. ASSUME NEW q \in Requests, TasksUpdateSave(q) PROVE MovesOneWay
  <2>1. /\ pc[q] = "answer" /\ q \in Procs
        /\ rec' = [rec EXCEPT ![job[q]] = Answered(seen[q], want[q].keys)]
    BY <1>9 DEF TasksUpdateSave, Procs
  <2>2. seen[q] = rec[job[q]] /\ seen[q].status = "input_required"
    BY <2>1 DEF AwaitInv, CurrentInv
  <2>3. job[q] \in Tasks /\ seen[q] \in TaskRecord /\ want[q].keys \in SUBSET Keys
    BY <2>1, InFlight
  <2> DEFINE r == Answered(seen[q], want[q].keys)
  <2>4. r \in TaskRecord
    BY <2>3, RecordUpdates
  <2>5. r.status \in {"working", "input_required"} /\ rec[job[q]].answers \subseteq r.answers
    BY <2>2, <2>3 DEF TaskRecord, Answered
  <2> HIDE DEF r
  <2>6. rec' = [rec EXCEPT ![job[q]] = r]
    BY <2>1 DEF r
  <2> QED BY <2>2, <2>3, <2>4, <2>5, <2>6, <1>2
<1>10. ASSUME NEW t \in Tasks, Expire(t) PROVE MovesOneWay
  BY <1>10 DEF Expire, OneWriter
<1>11. ASSUME NEW t \in Tasks,
              CreateEnqueue(t) \/ CreateEnqueueFails(t) \/ Redeliver(t) \/ WebCrash(t)
       PROVE  MovesOneWay
  BY <1>1, <1>11 DEF CreateEnqueue, CreateEnqueueFails, Redeliver, WebCrash
<1>12. ASSUME NEW w \in Workers, NEW t \in Tasks, Deliver(w, t) PROVE MovesOneWay
  BY <1>1, <1>12 DEF Deliver, DeliverRefused, DeliverClaimable
<1>13. ASSUME NEW w \in Workers,
              ReportGet(w) \/ Park(w) \/ Resume(w) \/ Finish(w) \/ WorkerCrash(w)
       PROVE  MovesOneWay
  BY <1>1, <1>13 DEF ReportGet, Park, Resume, Finish, WorkerCrash
<1>14. ASSUME NEW q \in Requests, Request(q) PROVE MovesOneWay
  BY <1>1, <1>14
  DEF Request, RequestRefused, TasksGet, TasksCancel, TasksUpdateNotAwaiting, TasksUpdate, Answer
<1>15. ASSUME NEW p \in Procs, TransitionRefused(p) \/ TransitionGet(p) \/ Publish(p)
       PROVE  MovesOneWay
  BY <1>1, <1>15 DEF TransitionRefused, TransitionGet, Publish
<1>16. CASE UNCHANGED vars
  BY <1>1, <1>16 DEF vars
<1>17. CASE Next
  BY <1>17, <1>3, <1>4, <1>5, <1>6, <1>7, <1>8, <1>9, <1>10, <1>11, <1>12, <1>13, <1>14, <1>15
  DEF Next, WebStep, Transition
<1> QED BY <1>16, <1>17

\* The task machine implements OneWayTask step by step, where writers do not overlap: the
\* status a client polls appears once, asks and goes on, and ends at most once.
THEOREM StatusIsOneWay ==
  ASSUME OneWriter
  PROVE  Spec => ImplementsOneWayTask
<1>1. Init => O!Init
  BY DEF Init, O!Init, Absent, Fresh
<1>2. TypeOK /\ CopyInv /\ HandoffInv /\ PresentInv /\ AwaitInv /\ CurrentInv /\ [Next]_vars
      => [O!Next]_([t \in Tasks |-> rec[t].status])
  BY StepsOneWay DEF MovesOneWay
<1> QED
  BY <1>1, <1>2, TypeCorrect, CopiesLive, HandoffExclusive, Present, CopiesCurrent, PTL
  DEF Spec, ImplementsOneWayTask, O!Spec

\* tasks/update: where writers do not overlap, a key once answered stays answered.
THEOREM AnswersStay ==
  ASSUME OneWriter
  PROVE  Spec => AnsweredForGood
<1> DEFINE Kept == \A t \in Tasks : rec[t].answers \subseteq rec'[t].answers
<1>1. TypeOK /\ CopyInv /\ HandoffInv /\ PresentInv /\ AwaitInv /\ CurrentInv /\ [Next]_vars
      => Kept
  BY StepsOneWay DEF MovesOneWay
<1>2. Kept => [Kept]_vars
  OBVIOUS
<1> QED
  BY <1>1, <1>2, TypeCorrect, CopiesLive, HandoffExclusive, Present, CopiesCurrent, PTL
  DEF Spec, AnsweredForGood
=============================================================================
