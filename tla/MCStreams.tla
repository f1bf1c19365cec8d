----------------------------- MODULE MCStreams -----------------------------
(* Instances of SsePush and ResponseStream for TLC.  The two kinds of SSE    *)
(* response share nothing, so a behaviour moves one of them and leaves the   *)
(* other as it begins.                                                       *)
EXTENDS SsePush, ResponseStream

CONSTANTS g1, g2, h1, h2

VARIABLE subject

streamVars == <<subject, vars, responseVars>>

OneHost == [s \in Streams |-> h1]
TwoHosts == [s \in Streams |-> IF s = g1 THEN h1 ELSE h2]

\* One process with the in-memory pair, or two behind Redis, the first serving g1.
InMemory == [remote |-> FALSE, host |-> OneHost, ring |-> 2, notify |-> 3, forget |-> 0]
Redis == [remote |-> TRUE, host |-> TwoHosts, ring |-> 1, notify |-> 1, forget |-> 1]

MCSites == {InMemory, Redis}
MCRedis == {[Redis EXCEPT !.host = OneHost, !.ring = 2, !.notify = 3, !.forget = 0]}

\* A response that was sent.
ResponseOver ==
  /\ remaining = Cap /\ lastValue = 0 /\ holding = [t \in Threads |-> NoValue]
  /\ dispatch = "result" /\ stream = "done" /\ loop = TRUE
  /\ ready = <<>> /\ frames = <<>> /\ written = <<Finished>> /\ admitted = {}

StreamsInit ==
  \/ subject = "push" /\ Init /\ ResponseOver
  \/ subject = "response" /\ site = InMemory /\ Init /\ ResponseInit

Of(what) == subject = what /\ UNCHANGED subject

StreamsNext ==
  \/ Of("push") /\ Next /\ UNCHANGED responseVars
  \/ Of("response") /\ ResponseNext /\ UNCHANGED vars

StreamsSpec == StreamsInit /\ [][StreamsNext]_streamVars

Pushing(s) == Of("push") /\ Generator(s) /\ UNCHANGED responseVars
Responding(action) == Of("response") /\ action /\ UNCHANGED vars

\* FairSpec and ResponseFairSpec, each where it is the subject.
StreamsFairSpec ==
  /\ StreamsSpec
  /\ \A s \in Streams : WF_streamVars(Pushing(s))
  /\ WF_streamVars(Responding(RunReady)) /\ WF_streamVars(Responding(Send))
  /\ WF_streamVars(Responding(DispatchEnds))
  /\ \A t \in Threads : WF_streamVars(Responding(Schedule(t)))
=============================================================================
