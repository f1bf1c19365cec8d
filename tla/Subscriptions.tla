--------------------------- MODULE Subscriptions ----------------------------
(***************************************************************************)
(* subscriptions/listen: what a subscription is granted, the stream that   *)
(* acknowledges it and carries its notifications, the two brokers, and the *)
(* publishing of a mutation's invalidations when its transaction commits.  *)
(*                                                                         *)
(* A notification is its position in the order of publication.  Whether    *)
(* the broker is Redis is chosen once.  Time is in ticks.                  *)
(***************************************************************************)
EXTENDS Integers, FiniteSets, SequencesExt

CONSTANTS
  Streams,        \* subscription requests
  ListKinds,      \* list-changed topics
  Uris,           \* resource topics
  TaskIds,        \* task topics
  Listed,         \* the kinds whose registry holds something
  Resolvable,     \* the URIs some resource answers to
  Owned,          \* the caller's own tasks
  Asked,          \* the sets of topics a client may ask for
  Transactions,   \* mutations that invalidate resources
  Invalidates,    \* the URIs each of them invalidates, in order
  StreamWindow,   \* subscription_max_seconds, in ticks
  Cap,            \* max_concurrent_subscriptions
  MaxStreamTime,  \* bound: the last tick
  MaxLog          \* bound: notifications

Topics == ListKinds \cup Uris \cup TaskIds

ASSUME SubscriptionsAssumption ==
  /\ IsFiniteSet(Streams)
  /\ Listed \subseteq ListKinds /\ Resolvable \subseteq Uris /\ Owned \subseteq TaskIds
  /\ Asked \subseteq SUBSET Topics
  /\ Invalidates \in [Transactions -> Seq(Uris)]
  /\ StreamWindow \in Nat \ {0} /\ Cap \in Nat /\ MaxStreamTime \in Nat /\ MaxLog \in Nat

VARIABLES
  remote,      \* whether the broker is the Redis one
  time,        \* the clock
  permitted,   \* the URIs whose permissions admit the caller at present
  stream,      \* the subscriptions
  registered,  \* the broker's registry: the topics a queue is fed from
  queue,       \* the queues
  wire,        \* what Redis sent and no pump has read yet
  tx,          \* the transactions, and what each has left to publish
  log,         \* the topics of what was published
  source,      \* history: the transaction each notification comes from, or 0
  entitled,    \* history: the topics the caller was entitled to when it was granted them
  heard        \* history: what each stream sent

subscriptionVars == <<remote, time, permitted, stream, registered, queue, wire, tx, log, source,
          entitled, heard>>

Fresh == [pc |-> "idle", asked |-> {}, granted |-> {}, until |-> 0, late |-> 0, since |-> 0,
          rivals |-> 0]

SubscriptionsInit ==
  /\ remote \in BOOLEAN
  /\ time = 0
  /\ permitted = Uris
  /\ stream = [s \in Streams |-> Fresh]
  /\ registered = [s \in Streams |-> {}]
  /\ queue = [s \in Streams |-> <<>>]
  /\ wire = [s \in Streams |-> <<>>]
  /\ tx = [t \in Transactions |-> [phase |-> "open", left |-> <<>>]]
  /\ log = <<>>
  /\ source = <<>>
  /\ entitled = [s \in Streams |-> {}]
  /\ heard = [s \in Streams |-> <<>>]

Update(s, r) == stream' = [stream EXCEPT ![s] = r]
Close(s) ==
  /\ stream' = [stream EXCEPT ![s] = [Fresh EXCEPT !.pc = "closed"]]
  /\ heard' = [heard EXCEPT ![s] = <<>>]
  /\ entitled' = [entitled EXCEPT ![s] = {}]
Move(s, where) == stream' = [stream EXCEPT ![s].pc = where]
broker == <<registered, queue, wire>>
publishers == <<tx, log, source>>

-----------------------------------------------------------------------------
(* The request.                                                            *)

\* active_subscriptions: the queues in memory, the pumps' tasks with Redis.
Active == {s \in Streams : registered[s] # {}}

\* Mutant: one more.
OverCapLate == Cardinality(Active) > Cap

OverCap == Cardinality(Active) >= Cap

\* The subscriptions let in that no broker feeds yet.
Coming == {s \in Streams : stream[s].pc \in {"admitted", "granted", "subscribing"}}

\* _maybe_subscribe: a listen beyond the cap is refused, and one for tasks from a client
\* that does not declare the extension.
Listen(s) ==
  /\ stream[s].pc = "idle"
  /\ \E asked \in Asked, declares \in BOOLEAN :
       IF OverCap \/ (asked \cap TaskIds # {} /\ ~declares) THEN Move(s, "closed")
       ELSE Update(s, [stream[s] EXCEPT !.pc = "admitted", !.asked = asked,
                                        !.rivals = Cardinality(Coming)])
  /\ UNCHANGED <<remote, time, permitted, broker, publishers, entitled, heard>>

HasRegistry(t) == t \in Listed
MayWatchResource(t) == t \in Resolvable /\ t \in permitted
MayWatchTask(t) == t \in Owned

Grantable == {t \in Topics : HasRegistry(t) \/ MayWatchResource(t) \/ MayWatchTask(t)}

\* Mutant: topics come from the request.
GrantedAsked(asked) == asked

Granted(asked) == asked \cap Grantable

\* grant_subscription: the filter acknowledged and the topics listened to.  The
\* response is returned; nobody has read its body yet.
Grant(s) ==
  /\ stream[s].pc = "admitted"
  /\ Update(s, [stream[s] EXCEPT !.pc = "granted", !.asked = {},
                                 !.granted = Granted(stream[s].asked)])
  /\ entitled' = [entitled EXCEPT ![s] = Grantable]
  /\ UNCHANGED <<remote, time, permitted, broker, publishers, heard>>

-----------------------------------------------------------------------------
(* The brokers.                                                            *)

\* InMemorySubscriptionBroker.subscribe, and the local half of Redis's.
Register(s) ==
  /\ registered' = [registered EXCEPT ![s] = stream[s].granted]
  /\ UNCHANGED <<queue, wire>>

\* A subscription Redis has confirmed, whether registered here or not yet.
Channels(s) == IF stream[s].pc = "subscribing" THEN stream[s].granted ELSE registered[s]

\* unsubscribe: the pump is cancelled and what it had not read is dropped.
Unregister(s) ==
  /\ registered' = [registered EXCEPT ![s] = {}]
  /\ queue' = [queue EXCEPT ![s] = <<>>]
  /\ wire' = [wire EXCEPT ![s] = <<>>]

\* publish: every queue of the topic, or every channel of it, gets the payload.
Publish(t, from) ==
  LET n == Len(log) + 1
      Put(boxes, to) == [s \in Streams |-> IF s \in to THEN Append(boxes[s], n) ELSE boxes[s]]
      fed == {s \in Streams : t \in Channels(s)}
  IN /\ Len(log) < MaxLog
     /\ log' = Append(log, t)
     /\ source' = Append(source, from)
     /\ queue' = Put(queue, IF remote THEN {} ELSE fed)
     /\ wire' = Put(wire, IF remote THEN fed ELSE {})
     /\ UNCHANGED registered

\* _pump: one message from the channels to the queue.
Pump(s) ==
  /\ registered[s] # {} /\ wire[s] # <<>>
  /\ queue' = [queue EXCEPT ![s] = Append(@, Head(wire[s]))]
  /\ wire' = [wire EXCEPT ![s] = Tail(@)]
  /\ UNCHANGED <<remote, time, permitted, stream, registered, publishers, entitled, heard>>

-----------------------------------------------------------------------------
(* The stream: _stream.                                                    *)

\* Granted nothing: acknowledged and closed.
StartEmpty(s) ==
  /\ stream[s].pc = "granted" /\ stream[s].granted = {}
  /\ Close(s)
  /\ UNCHANGED <<remote, time, permitted, broker, publishers>>

\* The window opens and the acknowledgement goes out.
Acknowledged(s) ==
  Update(s, [stream[s] EXCEPT !.pc = "loop", !.until = time + StreamWindow, !.since = Len(log)])

\* The broker in memory subscribes without giving up the loop.
StartInMemory(s) ==
  /\ stream[s].pc = "granted" /\ stream[s].granted # {} /\ ~remote
  /\ Register(s)
  /\ Acknowledged(s)
  /\ UNCHANGED <<remote, time, permitted, publishers, entitled, heard>>

\* Mutant: the acknowledgement does not wait for Redis.
StartRemoteAcknowledging(s) ==
  /\ stream[s].pc = "granted" /\ stream[s].granted # {} /\ remote
  /\ Acknowledged(s)
  /\ UNCHANGED <<remote, time, permitted, broker, publishers, entitled, heard>>

\* Redis confirms the channels and messages begin to arrive.
StartRemote(s) ==
  /\ stream[s].pc = "granted" /\ stream[s].granted # {} /\ remote
  /\ Move(s, "subscribing")
  /\ UNCHANGED <<remote, time, permitted, broker, publishers, entitled, heard>>

\* The await returns: the pump starts, and the acknowledgement goes out.
Confirmed(s) ==
  /\ stream[s].pc = "subscribing"
  /\ Register(s)
  /\ Acknowledged(s)
  /\ UNCHANGED <<remote, time, permitted, publishers, entitled, heard>>

\* Mutant: the window is looked at when nothing arrives only.
LoopTopIdle(s) ==
  /\ stream[s].pc = "loop" /\ (time >= stream[s].until => queue[s] # <<>>)
  /\ Move(s, "waiting")
  /\ UNCHANGED <<remote, time, permitted, broker, publishers, entitled, heard>>

LoopTop(s) ==
  /\ stream[s].pc = "loop" /\ time < stream[s].until
  /\ Move(s, "waiting")
  /\ UNCHANGED <<remote, time, permitted, broker, publishers, entitled, heard>>

\* Mutant: the closing frame is sent and the queue left in the broker.
WindowOverKeeping(s) ==
  /\ stream[s].pc = "loop" /\ time >= stream[s].until
  /\ Close(s)
  /\ UNCHANGED <<remote, time, permitted, broker, publishers>>

\* The window is over: the closing frame, and the finally clause.
WindowOver(s) ==
  /\ stream[s].pc = "loop" /\ time >= stream[s].until
  /\ Close(s)
  /\ Unregister(s)
  /\ UNCHANGED <<remote, time, permitted, publishers>>

\* The oldest notification, stamped and sent.
Deliver(s) ==
  /\ stream[s].pc = "waiting" /\ queue[s] # <<>>
  /\ heard' = [heard EXCEPT ![s] = Append(@, Head(queue[s]))]
  /\ queue' = [queue EXCEPT ![s] = Tail(@)]
  /\ Update(s, [stream[s] EXCEPT !.pc = "loop",
                                 !.late = @ + IF time >= stream[s].until THEN 1 ELSE 0])
  /\ UNCHANGED <<remote, time, permitted, registered, wire, publishers, entitled>>

\* Nothing for a while: a comment goes out.
KeepAlive(s) ==
  /\ stream[s].pc = "waiting" /\ queue[s] = <<>>
  /\ Move(s, "loop")
  /\ UNCHANGED <<remote, time, permitted, broker, publishers, entitled, heard>>

\* The client goes away: the finally clause, if the stream had got that far.
Disconnect(s) ==
  /\ stream[s].pc \in {"granted", "loop", "waiting"}
  /\ Close(s)
  /\ Unregister(s)
  /\ UNCHANGED <<remote, time, permitted, publishers>>

\* The generator is closed while subscribe is still awaited: nothing was registered here.
Abandon(s) ==
  /\ stream[s].pc = "subscribing"
  /\ Close(s)
  /\ wire' = [wire EXCEPT ![s] = <<>>]
  /\ UNCHANGED <<remote, time, permitted, registered, queue, publishers>>

-----------------------------------------------------------------------------
(* The publishers.                                                         *)

\* Mutant: announced at once.
MutateAnnouncing(t) ==
  /\ tx[t] = [phase |-> "open", left |-> <<>>] /\ Invalidates[t] # <<>>
  /\ Publish(Head(Invalidates[t]), t)
  /\ tx' = [tx EXCEPT ![t] = [phase |-> "written", left |-> Tail(Invalidates[t])]]
  /\ UNCHANGED <<remote, time, permitted, stream, entitled, heard>>

\* publish_invalidations: what to announce is left with the transaction.
Mutate(t) ==
  /\ tx[t] = [phase |-> "open", left |-> <<>>] /\ Invalidates[t] # <<>>
  /\ tx' = [tx EXCEPT ![t] = [phase |-> "written", left |-> Invalidates[t]]]
  /\ UNCHANGED <<remote, time, permitted, stream, broker, log, source, entitled, heard>>

Commit(t) ==
  /\ tx[t].phase = "written"
  /\ tx' = [tx EXCEPT ![t].phase = "committed"]
  /\ UNCHANGED <<remote, time, permitted, stream, broker, log, source, entitled, heard>>

\* The hooks of a transaction that rolls back are dropped.
RollBack(t) ==
  /\ tx[t].phase = "written"
  /\ tx' = [tx EXCEPT ![t] = [phase |-> "rolled back", left |-> <<>>]]
  /\ UNCHANGED <<remote, time, permitted, stream, broker, log, source, entitled, heard>>

\* _publish_all: one URI after the other.
PublishNext(t) ==
  /\ tx[t].phase = "committed" /\ tx[t].left # <<>>
  /\ Publish(Head(tx[t].left), t)
  /\ tx' = [tx EXCEPT ![t].left = Tail(@)]
  /\ UNCHANGED <<remote, time, permitted, stream, entitled, heard>>

\* MCPServer.publish, publish_task_status outside a transaction.
Announce(t) ==
  /\ Publish(t, 0)
  /\ UNCHANGED <<remote, time, permitted, stream, tx, entitled, heard>>

\* The caller's rights change.
Revoke ==
  /\ permitted # {}
  /\ permitted' = {}
  /\ UNCHANGED <<remote, time, stream, broker, publishers, entitled, heard>>

SubscriptionsTick ==
  /\ time < MaxStreamTime
  /\ time' = time + 1
  /\ UNCHANGED <<remote, permitted, stream, broker, publishers, entitled, heard>>

StreamStep(s) ==
  \/ Listen(s) \/ Grant(s) \/ StartEmpty(s) \/ StartInMemory(s) \/ StartRemote(s)
  \/ Confirmed(s) \/ LoopTop(s) \/ WindowOver(s) \/ Deliver(s) \/ KeepAlive(s) \/ Pump(s)

TransactionStep(t) == Mutate(t) \/ Commit(t) \/ RollBack(t) \/ PublishNext(t)

SubscriptionsNext ==
  \/ SubscriptionsTick \/ Revoke
  \/ \E s \in Streams : StreamStep(s) \/ Disconnect(s) \/ Abandon(s)
  \/ \E t \in Transactions : TransactionStep(t)
  \/ \E t \in ListKinds \cup TaskIds : Announce(t)

SubscriptionsSpec == SubscriptionsInit /\ [][SubscriptionsNext]_subscriptionVars

-----------------------------------------------------------------------------
Acked(s) == stream[s].pc \in {"loop", "waiting"}

\* Once acknowledged, a subscription misses nothing: whatever is published on its topics
\* has been sent, or waits in its queue, or is on its way to a pump that runs, in the
\* order of publication and once (the order of subscribe and acknowledgement in _stream).
AckMeansLive ==
  \A s \in Streams :
    Acked(s) =>
      LET kept == heard[s] \o queue[s] \o wire[s]
          due == {n \in stream[s].since + 1 .. Len(log) : log[n] \in stream[s].granted}
      IN /\ due \subseteq ToSet(kept)
         /\ \A i, j \in DOMAIN kept : i < j => kept[i] < kept[j]

\* A stream carries topics the caller was entitled to when the request was handled, and
\* that its acknowledgement names (grant_subscription's two results agree).
HearsOnlyGranted ==
  \A s \in Streams :
    \A n \in ToSet(heard[s]) : log[n] \in stream[s].granted /\ log[n] \in entitled[s]

\* Nobody hears of a write that did not commit (publish_invalidations's on_commit).
NothingUncommitted ==
  \A n \in DOMAIN source : source[n] # 0 => tx[source[n]].phase = "committed"

\* A stream outlives its window by one notification at most, however busy its topics:
\* the one that arrived while it waited.
WindowKept == \A s \in Streams : stream[s].late <= 1

\* What the broker still feeds belongs to a stream that runs: no way to leave _stream
\* keeps a place under the cap.
PlacesGivenBack == \A s \in Streams : registered[s] # {} => Acked(s)

\* More subscriptions are fed than the cap allows only when their requests were handled
\* before the bodies of others had been read.
CapPassedOnlyByBurst ==
  Active # {} => \E s \in Active : Cardinality(Active) <= Cap + stream[s].rivals

\* All three: every stream gives its place back in time, and only those that run hold one.
PlacesKept == WindowKept /\ PlacesGivenBack /\ CapPassedOnlyByBurst

=============================================================================
