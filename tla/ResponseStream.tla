--------------------------- MODULE ResponseStream ---------------------------
(***************************************************************************)
(* One POST answered with an SSE stream: the dispatch runs as a task of    *)
(* the event loop, the service reports progress from worker threads, and   *)
(* the generator writes what it takes from its queue until the final       *)
(* response.  Everything bound for the queue passes through the loop's     *)
(* ready queue: call_soon_threadsafe from a thread, call_soon from the     *)
(* dispatch.                                                               *)
(***************************************************************************)
EXTENDS Integers, Sequences, FiniteSets, SequencesExt

CONSTANTS
  Threads,      \* worker threads that report progress
  NoValue,      \* held by a thread outside the reporter
  Finished,     \* the sentinel that carries the response
  Cap,          \* max_notifications
  MaxProgress,  \* bound: the largest progress value reported
  Detached      \* the dispatch may end while threads still report: its deadline
                \* passed, or the service left them running

ASSUME ResponseStreamAssumption ==
  /\ Cap \in Nat /\ MaxProgress \in Nat
  /\ NoValue \notin Nat /\ Finished \notin Nat /\ Detached \in BOOLEAN

VARIABLES
  remaining,  \* frames the reporter may still admit
  lastValue,  \* the last value admitted, 0 before the first
  holding,    \* the value each thread has admitted and not yet scheduled
  dispatch,   \* "running", "result", "error" or "cancelled"
  ready,      \* the loop's ready queue, oldest first
  frames,     \* the stream's asyncio queue
  written,    \* what the generator wrote
  stream,     \* "open", "done" or "gone" (the client left)
  loop,       \* whether the event loop still runs
  admitted    \* history: the values admitted while the dispatch ran

responseVars ==
  <<remaining, lastValue, holding, dispatch, ready, frames, written, stream, loop, admitted>>

ResponseInit ==
  /\ remaining = Cap /\ lastValue = 0
  /\ holding = [t \in Threads |-> NoValue]
  /\ dispatch = "running" /\ stream = "open" /\ loop = TRUE
  /\ ready = <<>> /\ frames = <<>> /\ written = <<>> /\ admitted = {}

-----------------------------------------------------------------------------
(* The reporter, in a worker thread.                                       *)

\* Mutant: one report too many.
AdmitsOneMore(v) == remaining >= 0 /\ v > lastValue

Admits(v) == remaining > 0 /\ v > lastValue

\* Both decisions and both writes happen under the reporter's lock.  A report over
\* the cap or not above the last returns and changes nothing.
Report(t, v) ==
  /\ dispatch \in {"running", "cancelled"} \/ Detached
  /\ holding[t] = NoValue /\ Admits(v)
  /\ holding' = [holding EXCEPT ![t] = v]
  /\ lastValue' = v
  /\ remaining' = remaining - 1
  /\ admitted' = IF dispatch = "running" THEN admitted \cup {v} ELSE admitted
  /\ UNCHANGED <<dispatch, ready, frames, written, stream, loop>>

\* After the lock: call_soon_threadsafe, whose RuntimeError is swallowed when the
\* loop is gone.
Schedule(t) ==
  /\ holding[t] # NoValue
  /\ ready' = IF loop THEN Append(ready, holding[t]) ELSE ready
  /\ holding' = [holding EXCEPT ![t] = NoValue]
  /\ UNCHANGED <<remaining, lastValue, dispatch, frames, written, stream, loop, admitted>>

-----------------------------------------------------------------------------
(* _run and the generator, on the event loop.                              *)

\* Mutant: the response goes straight onto the queue.
RespondDirectly ==
  /\ frames' = Append(frames, Finished)
  /\ UNCHANGED ready

\* The response goes behind every frame already scheduled.
Respond ==
  /\ ready' = Append(ready, Finished)
  /\ UNCHANGED frames

\* Mutant: an exception truncates the stream.
DispatchEndsUncaught ==
  /\ loop /\ dispatch = "running"
  /\ Detached \/ \A t \in Threads : holding[t] = NoValue
  /\ \/ dispatch' = "result" /\ Respond
     \/ dispatch' = "error" /\ UNCHANGED <<ready, frames>>
  /\ UNCHANGED <<remaining, lastValue, holding, written, stream, loop, admitted>>

\* The dispatch returns a result or an error, or raises: each is a response.  The
\* bridged service has returned, and with it the threads it joined.
DispatchEnds ==
  /\ loop /\ dispatch = "running"
  /\ Detached \/ \A t \in Threads : holding[t] = NoValue
  /\ dispatch' \in {"result", "error"}
  /\ Respond
  /\ UNCHANGED <<remaining, lastValue, holding, written, stream, loop, admitted>>

\* The loop runs the oldest callback: put_nowait.
RunReady ==
  /\ loop /\ ready # <<>>
  /\ frames' = Append(frames, Head(ready))
  /\ ready' = Tail(ready)
  /\ UNCHANGED <<remaining, lastValue, holding, dispatch, written, stream, loop, admitted>>

\* The generator writes the head of its queue, and returns after the response.
Send ==
  /\ loop /\ stream = "open" /\ frames # <<>>
  /\ written' = Append(written, Head(frames))
  /\ frames' = Tail(frames)
  /\ stream' = IF Head(frames) = Finished THEN "done" ELSE stream
  /\ UNCHANGED <<remaining, lastValue, holding, dispatch, ready, loop, admitted>>

\* The client leaves: the generator's finally cancels a dispatch not yet done.  Its
\* worker threads run on.
ClientLeaves ==
  /\ loop /\ stream = "open"
  /\ stream' = "gone"
  /\ dispatch' = IF dispatch = "running" THEN "cancelled" ELSE dispatch
  /\ UNCHANGED <<remaining, lastValue, holding, ready, frames, written, loop, admitted>>

\* The server goes down under a working service.
LoopCloses ==
  /\ loop
  /\ loop' = FALSE
  /\ UNCHANGED <<remaining, lastValue, holding, dispatch, ready, frames, written, stream, admitted>>

-----------------------------------------------------------------------------
ResponseNext ==
  \/ \E t \in Threads : Schedule(t) \/ \E v \in 1..MaxProgress : Report(t, v)
  \/ DispatchEnds \/ RunReady \/ Send \/ ClientLeaves \/ LoopCloses

ResponseSpec == ResponseInit /\ [][ResponseNext]_responseVars

\* The loop runs what is ready and the generator; the service comes to an end and
\* its threads leave the reporter.
ResponseFairSpec ==
  /\ ResponseSpec
  /\ WF_responseVars(RunReady) /\ WF_responseVars(Send) /\ WF_responseVars(DispatchEnds)
  /\ \A t \in Threads : WF_responseVars(Schedule(t))

-----------------------------------------------------------------------------
\* Everything bound for the client, in the order it gets it.
Flow == written \o frames \o ready

\* Where the progress frames stand in it.
Progress == {i \in DOMAIN Flow : Flow[i] # Finished}

Holders == {t \in Threads : holding[t] # NoValue}

\* However many threads report, no more than max_notifications frames leave (the
\* lock makes the check and the decrement one step).
CapKept == Cardinality(Progress) + Cardinality(Holders) <= Cap

\* Every report the service made before it returned precedes the response: none is
\* overtaken by it (_run goes through call_soon for this).
ReportsBeforeResponse == Finished \in Range(written) => admitted \subseteq Range(written)

\* Both: what the service reports reaches the client bounded, and before the response.
ReportsKept == CapKept /\ ReportsBeforeResponse

\* A dispatch that ends, with an exception too, reaches the client as a response,
\* unless the client leaves or the server goes down.
ResponseArrives == (stream = "open") ~> (stream \in {"done", "gone"} \/ ~loop)
=============================================================================
