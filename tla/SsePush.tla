------------------------------ MODULE SsePush ------------------------------
(***************************************************************************)
(* The push channel of one legacy session: MCPServer.notify records an     *)
(* event in the replay buffer and publishes it to the SSE broker; each GET *)
(* opens a stream_events generator that subscribes, replays what follows   *)
(* Last-Event-ID and then drains its queue.  One client reconnects with    *)
(* the last id it saw.                                                     *)
(*                                                                         *)
(* With the in-memory broker and buffer a notify runs without giving up    *)
(* the event loop; with Redis (site.remote) its two halves are separate, each   *)
(* worker process keeps a registry of its own, and a subscriber hears the  *)
(* channel only once its listener task has attached.                       *)
(***************************************************************************)
EXTENDS Naturals, Sequences, FiniteSets, SequencesExt

CONSTANTS
  Streams,    \* the GET requests of the session, one generator each
  NoStream,   \* no generator
  Sites,      \* deployments: remote (Redis broker and buffer, or the in-memory pair), host
              \* (the worker process that serves each GET), ring (max_events of the replay
              \* buffer) and the bounds notify (events) and forget (sessions lost)
  QueueSize,  \* max_queued_events
  MaxNotify   \* bound: events notified, at any site

ASSUME SsePushAssumption ==
  /\ NoStream \notin Streams
  /\ QueueSize \in Nat \ {0} /\ MaxNotify \in Nat
  /\ \A d \in Sites :
       /\ d.remote \in BOOLEAN /\ DOMAIN d.host = Streams
       /\ d.remote \/ \A s, r \in Streams : d.host[s] = d.host[r]
       /\ d.ring \in Nat \ {0} /\ d.notify \in 0..MaxNotify /\ d.forget \in Nat

VARIABLES
  site,      \* the deployment
  count,     \* events recorded so far: they are numbered 1, 2, ...
  counter,   \* the buffer's own numbering, from which it takes the event id
  ring,      \* the replay buffer's events, oldest first
  inflight,  \* events recorded and not yet published
  live,      \* each worker's registered subscriber
  attached,  \* subscribers that hear the channel
  queue,     \* each subscriber's queue
  at,        \* where each generator stands
  after,     \* the last event the client had seen when it sent each GET
  snap,      \* what is left of each generator's replay
  cur,       \* the connection the client reads from
  last,      \* the last event the client saw
  got,       \* history: the events the client received
  first,     \* history: the first of them, 0 if none
  aged,      \* history: events the replay buffer gave up
  dropped,   \* history: events a full queue gave up
  lost,      \* times the buffer lost the session
  newest,    \* history: the generator that subscribed last, on each worker
  sent       \* history: the event ids each generator wrote, in order

bufferVars == <<count, counter, ring, aged, inflight, lost>>
brokerVars == <<live, attached, newest>>
clientVars == <<last, got, first>>

vars == <<site, bufferVars, brokerVars, clientVars, queue, dropped, at, after, snap, cur, sent>>

NoEvent == [n |-> 0, id |-> 0]

Open == {"open", "replay", "live"}

Hosts == Range(site.host)

Init ==
  /\ site \in Sites
  /\ count = 0 /\ counter = 0 /\ ring = <<>> /\ aged = {} /\ inflight = {} /\ lost = 0
  /\ live = [h \in Hosts |-> NoStream] /\ newest = live /\ attached = {}
  /\ queue = [s \in Streams |-> <<>>] /\ snap = queue /\ sent = queue /\ dropped = {}
  /\ at = [s \in Streams |-> "new"] /\ after = [s \in Streams |-> NoEvent]
  /\ cur = NoStream /\ last = NoEvent /\ got = {} /\ first = 0

-----------------------------------------------------------------------------
(* The replay buffer and the broker.                                       *)

Numbers(s) == {e.n : e \in Range(s)}

\* The next event, with the id the buffer gives it.
Event == [n |-> count + 1, id |-> counter + 1]

\* Mutant: the ring keeps one event too few.
RecordShort ==
  LET grown == Append(ring, Event) IN
  /\ count' = count + 1 /\ counter' = counter + 1
  /\ ring' = IF Len(grown) >= site.ring THEN Tail(grown) ELSE grown
  /\ aged' = IF Len(grown) > site.ring THEN aged \cup {Head(grown).n} ELSE aged

\* Redis trims approximately: it may keep more than max_events, never fewer.
Record ==
  LET grown == Append(ring, Event)
      excess == IF Len(grown) > site.ring THEN Len(grown) - site.ring ELSE 0
  IN
  /\ count' = count + 1 /\ counter' = counter + 1
  /\ \E cut \in IF site.remote THEN 0..excess ELSE {excess} :
       /\ ring' = SubSeq(grown, cut + 1, Len(grown))
       /\ aged' = aged \cup Numbers(SubSeq(grown, 1, cut))

\* The oldest payload gives way when the queue is full.
Offered(q, e) == IF Len(q) = QueueSize THEN Append(Tail(q), e) ELSE Append(q, e)

Publish(e) ==
  /\ queue' = [s \in Streams |-> IF s \in attached THEN Offered(queue[s], e) ELSE queue[s]]
  /\ dropped' = dropped \cup
       {Head(queue[s]).n : s \in {x \in attached : Len(queue[x]) = QueueSize}}

Notify ==
  /\ ~site.remote /\ count < site.notify
  /\ Record
  /\ Publish(Event)
  /\ UNCHANGED <<site, inflight, lost, brokerVars, clientVars, at, after, snap, cur, sent>>

NotifyRecord ==
  /\ site.remote /\ count < site.notify
  /\ Record
  /\ inflight' = inflight \cup {Event}
  /\ UNCHANGED <<site, lost, brokerVars, clientVars, queue, dropped, at, after, snap, cur, sent>>

\* Each notify publishes on its own: two of them may pass each other.
NotifyPublish ==
  /\ \E e \in inflight : Publish(e) /\ inflight' = inflight \ {e}
  /\ UNCHANGED <<site, count, counter, ring, aged, lost, brokerVars, clientVars,
                 at, after, snap, cur, sent>>

\* The buffer drops the session: max_sessions newer ones in memory, the TTL of a
\* quiet stream in Redis, forget() in either.  In memory the numbering goes with
\* it; Redis numbers by its clock.
Forget ==
  /\ ring # <<>> /\ lost < site.forget
  /\ lost' = lost + 1
  /\ ring' = <<>>
  /\ aged' = aged \cup Numbers(ring)
  /\ counter' = IF site.remote THEN counter ELSE 0
  /\ UNCHANGED <<site, count, inflight, brokerVars, clientVars, queue, dropped, at, after, snap,
                 cur, sent>>

\* Mutant: whoever leaves unregisters the session.
UnsubscribeAny(s) ==
  /\ live' = [live EXCEPT ![site.host[s]] = NoStream]
  /\ attached' = attached \ {s}

\* unsubscribe compares by identity: a replaced subscriber unregisters nobody.
Unsubscribe(s) ==
  /\ live' = [live EXCEPT ![site.host[s]] = IF @ = s THEN NoStream ELSE @]
  /\ attached' = attached \ {s}

-----------------------------------------------------------------------------
(* stream_events.                                                          *)

\* The client sends its GET with the last id it saw, having given up the
\* connection before.
Request(s) ==
  /\ cur = NoStream /\ at[s] = "new"
  /\ cur' = s
  /\ after' = [after EXCEPT ![s] = last]
  /\ at' = [at EXCEPT ![s] = "requested"]
  /\ UNCHANGED <<site, bufferVars, brokerVars, clientVars, queue, dropped, snap, sent>>

\* Mutant: the replaced subscriber's listener task is not cancelled.
SubscribeBeside(s) ==
  /\ at[s] = "requested"
  /\ live' = [live EXCEPT ![site.host[s]] = s]
  /\ newest' = [newest EXCEPT ![site.host[s]] = s]
  /\ attached' = IF site.remote THEN attached ELSE attached \cup {s}
  /\ at' = [at EXCEPT ![s] = "open"]
  /\ UNCHANGED <<site, bufferVars, clientVars, queue, dropped, after, snap, cur, sent>>

\* The response body starts: subscribe, replacing whoever was registered on this
\* worker, then the opening comment.  In memory the new queue hears notify at once;
\* the Redis broker cancels the replaced listener and starts a new one.
Subscribe(s) ==
  /\ at[s] = "requested"
  /\ live' = [live EXCEPT ![site.host[s]] = s]
  /\ newest' = [newest EXCEPT ![site.host[s]] = s]
  /\ attached' = (attached \ {live[site.host[s]]}) \cup (IF site.remote THEN {} ELSE {s})
  /\ at' = [at EXCEPT ![s] = "open"]
  /\ UNCHANGED <<site, bufferVars, clientVars, queue, dropped, after, snap, cur, sent>>

\* The Redis listener task has subscribed to the channel.
Attach(s) ==
  /\ site.remote /\ live[site.host[s]] = s /\ s \notin attached
  /\ attached' = attached \cup {s}
  /\ UNCHANGED <<site, bufferVars, live, newest, clientVars, queue, dropped,
                 at, after, snap, cur, sent>>

\* The recorded events with a later id; the ring's ids ascend, so they are its end.
LaterThan(id) ==
  LET cut == CHOOSE k \in 0..Len(ring) : \A i \in 1..Len(ring) : ring[i].id > id <=> i > k
  IN SubSeq(ring, cut + 1, Len(ring))

\* Mutant: replay begins one event late.
ReplayedLate(id) == IF id = 0 THEN <<>> ELSE LaterThan(id + 1)

\* Without a Last-Event-ID nothing is replayed.
Replayed(id) == IF id = 0 THEN <<>> ELSE LaterThan(id)

StartReplay(s) ==
  /\ at[s] = "open"
  /\ snap' = [snap EXCEPT ![s] = Replayed(after[s].id)]
  /\ at' = [at EXCEPT ![s] = "replay"]
  /\ UNCHANGED <<site, bufferVars, brokerVars, clientVars, queue, dropped, after, cur, sent>>

\* A frame reaches the client if it still reads this connection.
Write(s, e) ==
  /\ sent' = [sent EXCEPT ![s] = Append(@, e.id)]
  /\ IF s = cur
     THEN /\ last' = e
          /\ got' = got \cup {e.n}
          /\ first' = IF first = 0 THEN e.n ELSE first
     ELSE UNCHANGED clientVars
  /\ UNCHANGED site

SendReplay(s) ==
  /\ at[s] = "replay" /\ snap[s] # <<>>
  /\ Write(s, Head(snap[s]))
  /\ snap' = [snap EXCEPT ![s] = Tail(@)]
  /\ UNCHANGED <<bufferVars, brokerVars, queue, dropped, at, after, cur>>

EndReplay(s) ==
  /\ at[s] = "replay" /\ snap[s] = <<>>
  /\ at' = [at EXCEPT ![s] = "live"]
  /\ UNCHANGED <<site, bufferVars, brokerVars, clientVars, queue, dropped, after, snap, cur, sent>>

\* Mutant: the queue is drained while the replay still runs.
SendLiveEarly(s) ==
  /\ at[s] \in {"replay", "live"} /\ queue[s] # <<>>
  /\ Write(s, Head(queue[s]))
  /\ queue' = [queue EXCEPT ![s] = Tail(@)]
  /\ UNCHANGED <<bufferVars, brokerVars, dropped, at, after, snap, cur>>

SendLive(s) ==
  /\ at[s] = "live" /\ queue[s] # <<>>
  /\ Write(s, Head(queue[s]))
  /\ queue' = [queue EXCEPT ![s] = Tail(@)]
  /\ UNCHANGED <<bufferVars, brokerVars, dropped, at, after, snap, cur>>

\* The generator ends: at its deadline, seen between two waits, or because the
\* server notices that the client has gone.
Close(s) ==
  /\ at[s] = "live" \/ (at[s] \in Open /\ s # cur)
  /\ at' = [at EXCEPT ![s] = "closed"]
  /\ cur' = IF cur = s THEN NoStream ELSE cur
  /\ Unsubscribe(s)
  /\ snap' = [snap EXCEPT ![s] = <<>>]
  /\ UNCHANGED <<site, bufferVars, newest, clientVars, queue, dropped, after, sent>>

\* The connection breaks; the server does not know yet.  A response whose body
\* never started is thrown away.
Disconnect ==
  /\ cur # NoStream
  /\ cur' = NoStream
  /\ at' = [at EXCEPT ![cur] = IF @ = "requested" THEN "closed" ELSE @]
  /\ UNCHANGED <<site, bufferVars, brokerVars, clientVars, queue, dropped, after, snap, sent>>

-----------------------------------------------------------------------------
Generator(s) ==
  \/ Subscribe(s) \/ Attach(s)
  \/ StartReplay(s) \/ SendReplay(s) \/ EndReplay(s) \/ SendLive(s)

Next ==
  \/ Notify \/ NotifyRecord \/ NotifyPublish \/ Forget \/ Disconnect
  \/ \E s \in Streams : Request(s) \/ Generator(s) \/ Close(s)

Spec == Init /\ [][Next]_vars

\* The event loop runs every generator that can go on.  Nothing obliges the client
\* to connect or a stream to end.
FairSpec == Spec /\ \A s \in Streams : WF_vars(Generator(s))

-----------------------------------------------------------------------------
\* A worker's registered subscriber is the generator that subscribed there last, for
\* as long as it is open: no older generator's shutdown unregisters it, and no
\* ended one stays registered (identity comparison in unsubscribe).
RegisteredIsNewest ==
  \A h \in Hosts :
    live[h] = IF newest[h] # NoStream /\ at[newest[h]] \in Open THEN newest[h] ELSE NoStream

\* Only the registered subscriber of a worker hears the channel: a replaced or ended
\* one gets nothing more into its queue (subscribe replaces, unsubscribe cancels).
HeardOnlyRegistered == \A s \in attached : live[site.host[s]] = s

\* Both: on each worker the newest stream of the session, and no other, is registered
\* and hears what is published.
OnlyNewestHears == RegisteredIsNewest /\ HeardOnlyRegistered

\* What the client can still get: on the stream it reads (where an event not yet
\* published may yet arrive), or by reconnecting with the id it saw last.
Replayable(id) == {e.n : e \in {x \in Range(ring) : id # 0 /\ x.id > id}}
Coming ==
  IF cur = NoStream THEN Replayable(last.id)
  ELSE (IF at[cur] \in {"requested", "open"} THEN Replayable(after[cur].id) ELSE Numbers(snap[cur]))
       \cup Numbers(queue[cur])
       \cup {e.n : e \in inflight}

Accounted == got \cup dropped \cup aged

\* With a replay buffer the reconnect is gapless (stream_events): once the client has
\* an id to reconnect with, each later event reached it or still can, unless a full
\* queue or the full buffer gave the event up.
GaplessOnceStarted ==
  ~site.remote /\ site.forget = 0 /\ first # 0
  => (first + 1)..count \subseteq Accounted \cup Coming

\* The same for a client that has just reconnected with a Last-Event-ID: nothing after
\* that id falls between the replay and the live queue (stream_events).
GaplessResume ==
  cur # NoStream /\ after[cur] # NoEvent
  => (after[cur].n + 1)..count \subseteq Accounted \cup Coming

\* A stream steps back in event ids at most once, where its replay ends and the
\* live queue begins: live frames never overtake the replay (stream_events replays
\* "before live mode begins").  A session lost meanwhile is numbered anew.
OneStepBack ==
  ~site.remote /\ site.forget = 0 => \A s \in Streams :
    Cardinality({i \in 1..(Len(sent[s]) - 1) : sent[s][i] >= sent[s][i + 1]}) <= 1

\* Every event after the first one the client saw is eventually received, unless it
\* is given up or the client stays away: a reconnecting client catches up.
EventuallyReceived ==
  \A n \in 1..MaxNotify :
    (~site.remote /\ first # 0 /\ first < n /\ n <= count) ~> (n \in Accounted \/ cur = NoStream)

=============================================================================
