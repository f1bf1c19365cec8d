----------------------------- MODULE StreamsProofs -----------------------------
(* What holds of the two kinds of SSE response for any number of connections,  *)
(* worker threads and events: the session push channel, then the streamed      *)
(* response.                                                                   *)
EXTENDS SsePush, ResponseStream, SequenceLemmas, FiniteSetTheorems

-----------------------------------------------------------------------------
(* The push channel: the invariant.                                        *)

Events == [n : Nat, id : Nat]

\* The shape of the state.
PushTypes ==
  /\ site \in Sites
  /\ count \in Nat /\ counter \in Nat /\ first \in Nat /\ lost \in Nat
  /\ ring \in Seq(Events) /\ inflight \subseteq Events /\ last \in Events
  /\ live \in [Hosts -> Streams \cup {NoStream}] /\ newest \in [Hosts -> Streams \cup {NoStream}]
  /\ attached \subseteq Streams /\ cur \in Streams \cup {NoStream}
  /\ queue \in [Streams -> Seq(Events)] /\ snap \in [Streams -> Seq(Events)]
  /\ sent \in [Streams -> Seq(Nat)] /\ after \in [Streams -> Events]
  /\ at \in [Streams -> {"new", "requested", "open", "replay", "live", "closed"}]
  /\ got \subseteq Nat /\ aged \subseteq Nat /\ dropped \subseteq Nat

\* The ids in the ring ascend, up to the last one given.
Ascends ==
  /\ \A i, j \in 1..Len(ring) : i < j => ring[i].id < ring[j].id
  /\ \A i \in 1..Len(ring) : ring[i].id <= counter

\* Who subscribed last on a worker is a generator of that worker, and did subscribe.
Newest == \A h \in Hosts :
  newest[h] # NoStream => site.host[newest[h]] = h /\ at[newest[h]] \in Open \cup {"closed"}

\* The client reads one connection, the only one still waiting for its response; on one
\* process its generator hears what is published from the moment it subscribes.
Reading ==
  /\ cur # NoStream => at[cur] \in Open \cup {"requested"}
  /\ \A s \in Streams : at[s] = "requested" => s = cur
  /\ cur # NoStream /\ at[cur] \in Open /\ ~site.remote => cur \in attached
  /\ cur # NoStream /\ at[cur] \in {"requested", "open"} => after[cur] = last

\* A deployment whose events keep their numbers: one process whose buffer loses no session.
Exact == ~site.remote /\ site.forget = 0

\* A run of events numbered k + 1, k + 2, ...
Run(q, k) == \A i \in 1..Len(q) : q[i].n = k + i /\ q[i].id = k + i

\* The ring holds the latest events, and those before them aged.
Ledger ==
  /\ counter = count /\ inflight = {} /\ Len(ring) <= count
  /\ Run(ring, count - Len(ring))
  /\ 1..(count - Len(ring)) \subseteq aged

\* A queue is a run, up to the latest event where the generator still hears them.
Queued(s) ==
  /\ at[s] \in {"new", "requested"} => queue[s] = <<>>
  /\ \E k \in Nat :
       /\ Run(queue[s], k) /\ k + Len(queue[s]) <= count
       /\ s \in attached => k + Len(queue[s]) = count

\* So is a replay; between what the client saw and its first event only aged ones are
\* missing.
Snapped(s) ==
  /\ at[s] \in {"new", "requested", "open", "live"} \/ after[s].id = 0 => snap[s] = <<>>
  /\ \E k \in Nat :
       /\ Run(snap[s], k) /\ k + Len(snap[s]) <= count
       /\ at[s] = "replay" /\ s = cur /\ first # 0 /\ snap[s] # <<>> =>
            (last.n + 1)..k \subseteq aged

\* What a generator wrote ascends, but for one step back after its b-th frame.
OneTurn(z, b) == \A i \in 1..(Len(z) - 1) : z[i] >= z[i + 1] => i = b

\* That is where its replay ended; what it writes next is later than what it wrote last.
Turned(s) ==
  LET z == sent[s] IN
  /\ at[s] \in {"new", "requested", "open"} => z = <<>>
  /\ at[s] = "replay" => /\ \A i \in 1..(Len(z) - 1) : z[i] < z[i + 1]
                         /\ z # <<>> /\ snap[s] # <<>> => z[Len(z)] < snap[s][1].id
  /\ \E b \in 0..Len(z) :
       /\ OneTurn(z, b)
       /\ at[s] = "live" /\ b < Len(z) =>
            /\ z[Len(z)] <= count
            /\ queue[s] # <<>> => z[Len(z)] < queue[s][1].id

\* What the client saw has a number, and what it saw not has no connection to resume.
Seen ==
  /\ first = 0 => last.id = 0 /\ \A s \in Streams : after[s].id = 0
  /\ first # 0 => last.id = last.n /\ last.n # 0 /\ last.n <= count

\* No event up to what it saw last is missing, and what follows is on its way.
Past == first # 0 => (first + 1)..last.n \subseteq Accounted
Ahead ==
  first # 0 /\ cur # NoStream /\ at[cur] \in {"replay", "live"} =>
    (first + 1)..count \subseteq Accounted \cup Numbers(snap[cur]) \cup Numbers(queue[cur])

Connected == RegisteredIsNewest /\ Newest /\ HeardOnlyRegistered /\ Reading

StreamInv(s) == Queued(s) /\ Snapped(s) /\ Turned(s)
ExactInv == Ledger /\ Seen /\ Past /\ Ahead /\ \A s \in Streams : StreamInv(s)

PushInv == PushTypes /\ Ascends /\ Connected /\ (Exact => ExactInv)

-----------------------------------------------------------------------------
(* Runs of events.                                                         *)

\* A run put longer by the next event is a run.
LEMMA RunAppend ==
  ASSUME NEW q \in Seq(Events), NEW k \in Nat, Run(q, k), NEW e \in Events,
         e.n = k + Len(q) + 1, e.id = e.n
  PROVE  /\ Append(q, e) \in Seq(Events) /\ Len(Append(q, e)) = Len(q) + 1
         /\ Run(Append(q, e), k)
<1>1. Append(q, e) \in Seq(Events) /\ Len(Append(q, e)) = Len(q) + 1
  OBVIOUS
<1>2. ASSUME NEW i \in 1..Len(Append(q, e))
      PROVE  Append(q, e)[i].n = k + i /\ Append(q, e)[i].id = k + i
  <2>1. CASE i \in 1..Len(q)
    BY <2>1 DEF Run
  <2>2. CASE i = Len(q) + 1
    BY <2>2
  <2> QED BY <1>1, <2>1, <2>2
<1> QED BY <1>1, <1>2 DEF Run

\* So is what remains when its first is taken.
LEMMA RunTail ==
  ASSUME NEW q \in Seq(Events), NEW k \in Nat, Run(q, k), q # <<>>
  PROVE  /\ Tail(q) \in Seq(Events) /\ Len(Tail(q)) = Len(q) - 1 /\ Len(q) \in Nat \ {0}
         /\ Run(Tail(q), k + 1)
         /\ Head(q) = q[1] /\ Head(q) \in Events /\ Head(q).n = k + 1 /\ Head(q).id = k + 1
<1>1. /\ Head(q) \in Events /\ Tail(q) \in Seq(Events) /\ Len(Tail(q)) = Len(q) - 1
      /\ \A i \in 1..Len(Tail(q)) : Tail(q)[i] = q[i + 1]
      /\ Len(q) \in Nat \ {0} /\ Head(q) = q[1]
  BY HeadTailProperties
<1>2. Run(Tail(q), k + 1)
  BY <1>1 DEF Run
<1>3. q[1].n = k + 1 /\ q[1].id = k + 1
  BY <1>1 DEF Run
<1> QED BY <1>1, <1>2, <1>3

\* Or its first few.
LEMMA RunCut ==
  ASSUME NEW q \in Seq(Events), NEW k \in Nat, Run(q, k), NEW c \in 0..Len(q)
  PROVE  /\ SubSeq(q, c + 1, Len(q)) \in Seq(Events)
         /\ Len(SubSeq(q, c + 1, Len(q))) = Len(q) - c
         /\ Run(SubSeq(q, c + 1, Len(q)), k + c)
<1> DEFINE r == SubSeq(q, c + 1, Len(q))
<1>1. /\ r \in Seq(Events) /\ Len(r) = Len(q) - c
      /\ \A i \in 1..Len(r) : r[i] = q[c + i]
  BY SubSeqProperties
<1> HIDE DEF r
<1>2. Run(r, k + c)
  <2> SUFFICES ASSUME NEW i \in 1..Len(r) PROVE r[i].n = k + c + i /\ r[i].id = k + c + i
    BY DEF Run
  <2>1. c + i \in 1..Len(q) /\ k + (c + i) = k + c + i
    BY <1>1
  <2>2. q[c + i].n = k + (c + i) /\ q[c + i].id = k + (c + i)
    BY <2>1 DEF Run
  <2> QED BY <1>1, <2>1, <2>2
<1> QED BY <1>1, <1>2 DEF r

\* The numbers of a run.
LEMMA RunNumbers ==
  ASSUME NEW q \in Seq(Events), NEW k \in Nat, Run(q, k)
  PROVE  Numbers(q) = (k + 1)..(k + Len(q))
<1>1. ASSUME NEW x \in Numbers(q) PROVE x \in (k + 1)..(k + Len(q))
  BY DEF Numbers, Range, Run
<1>2. ASSUME NEW x \in (k + 1)..(k + Len(q)) PROVE x \in Numbers(q)
  <2>1. x - k \in 1..Len(q)
    OBVIOUS
  <2>2. q[x - k].n = x /\ x - k \in DOMAIN q
    BY <2>1 DEF Run
  <2> QED BY <2>2 DEF Numbers, Range
<1> QED BY <1>1, <1>2

\* What a full queue gives up is its first.
LEMMA OfferedRun ==
  ASSUME PushTypes, NEW q \in Seq(Events), NEW k \in Nat, Run(q, k), NEW e \in Events,
         e.n = k + Len(q) + 1, e.id = e.n
  PROVE  \E l \in Nat :
           /\ Offered(q, e) \in Seq(Events) /\ Run(Offered(q, e), l)
           /\ l + Len(Offered(q, e)) = e.n /\ Len(Offered(q, e)) >= 1
           /\ \/ l = k
              \/ l = k + 1 /\ Len(q) = QueueSize /\ q # <<>> /\ Head(q).n = l
<1>0. QueueSize \in Nat \ {0} /\ Len(q) \in Nat
  BY SsePushAssumption
<1>1. CASE Len(q) = QueueSize
  <2>1. q # <<>>
    BY <1>0, <1>1
  <2>2. /\ Tail(q) \in Seq(Events) /\ Len(Tail(q)) = Len(q) - 1 /\ Run(Tail(q), k + 1)
        /\ Head(q).n = k + 1
    BY <2>1, RunTail
  <2>3. e.n = (k + 1) + Len(Tail(q)) + 1 /\ k + 1 \in Nat
    BY <1>0, <2>2
  <2> DEFINE r == Append(Tail(q), e)
  <2>4. /\ r \in Seq(Events) /\ Len(r) = Len(Tail(q)) + 1 /\ Run(r, k + 1)
    <3> DEFINE t == Tail(q)
               l == k + 1
    <3>1. t \in Seq(Events) /\ l \in Nat /\ Run(t, l) /\ e.n = l + Len(t) + 1
      BY <2>2, <2>3
    <3> HIDE DEF t, l
    <3>2. Append(t, e) \in Seq(Events) /\ Len(Append(t, e)) = Len(t) + 1 /\ Run(Append(t, e), l)
      BY <3>1, RunAppend
    <3> QED BY <3>2 DEF t, l
  <2>5. Offered(q, e) = r
    BY <1>1 DEF Offered
  <2> HIDE DEF r
  <2>6. k + 1 + Len(r) = e.n /\ Len(r) >= 1
    BY <1>0, <2>2, <2>4
  <2> QED BY <1>1, <2>1, <2>2, <2>3, <2>4, <2>5, <2>6
<1>2. CASE Len(q) # QueueSize
  <2> DEFINE r == Append(q, e)
  <2>1. r \in Seq(Events) /\ Len(r) = Len(q) + 1 /\ Run(r, k)
    BY RunAppend
  <2>2. Offered(q, e) = r
    BY <1>2 DEF Offered
  <2> HIDE DEF r
  <2>3. k + Len(r) = e.n /\ Len(r) >= 1
    BY <1>0, <2>1
  <2> QED BY <2>1, <2>2, <2>3
<1> QED BY <1>1, <1>2

-----------------------------------------------------------------------------
(* The push channel: the shape of its state.                               *)

\* What a deployment is.
LEMMA SiteIs ==
  ASSUME site \in Sites
  PROVE  /\ site.remote \in BOOLEAN /\ site.ring \in Nat \ {0} /\ site.forget \in Nat
         /\ site.notify \in Nat /\ \A s \in Streams : site.host[s] \in Hosts
         /\ ~site.remote => \A s, r \in Streams : site.host[s] = site.host[r]
<1>1. /\ site.remote \in BOOLEAN /\ DOMAIN site.host = Streams
      /\ site.ring \in Nat \ {0} /\ site.notify \in 0..MaxNotify /\ site.forget \in Nat
      /\ ~site.remote => \A s, r \in Streams : site.host[s] = site.host[r]
      /\ MaxNotify \in Nat
  BY SsePushAssumption
<1>2. \A s \in Streams : site.host[s] \in Hosts
  BY <1>1 DEF Hosts, Range
<1>3. site.notify \in Nat
  BY <1>1
<1> QED BY <1>1, <1>2, <1>3

\* The initial state has the shape.
LEMMA PushTypesHoldInitially == Init => PushTypes
<1> SUFFICES ASSUME Init PROVE PushTypes
  OBVIOUS
<1>1. NoEvent \in Events /\ <<>> \in Seq(Events) /\ <<>> \in Seq(Nat)
  BY DEF NoEvent, Events
<1> QED BY <1>1 DEF Init, PushTypes

\* Numbers of events are numbers.
LEMMA NumbersAreNat ==
  ASSUME NEW q \in Seq(Events)
  PROVE  Numbers(q) \subseteq Nat
<1>1. \A i \in DOMAIN q : q[i].n \in Nat
  <2>1. \A i \in DOMAIN q : q[i] \in Events
    OBVIOUS
  <2> QED BY <2>1 DEF Events
<1> QED BY <1>1 DEF Numbers, Range

\* What a recorded event does to the buffer, of whichever kind.
LEMMA RecordTyped ==
  ASSUME PushTypes, Record
  PROVE  /\ Event \in Events /\ count' \in Nat /\ counter' \in Nat
         /\ ring' \in Seq(Events) /\ aged' \subseteq Nat
<1>1. /\ count \in Nat /\ counter \in Nat /\ ring \in Seq(Events) /\ site.ring \in Nat \ {0}
      /\ aged \subseteq Nat
  BY SiteIs DEF PushTypes
<1>2. Event \in Events /\ Event.n = count + 1 /\ Event.id = counter + 1
  BY <1>1 DEF Event, Events
<1> DEFINE grown == Append(ring, Event)
           excess == IF Len(grown) > site.ring THEN Len(grown) - site.ring ELSE 0
<1>3. grown \in Seq(Events) /\ Len(grown) \in Nat
  BY <1>1, <1>2
<1>4. PICK cut \in IF site.remote THEN 0..excess ELSE {excess} :
        /\ ring' = SubSeq(grown, cut + 1, Len(grown))
        /\ aged' = aged \cup Numbers(SubSeq(grown, 1, cut))
  BY DEF Record
<1>5. excess \in 0..Len(grown)
  <2> HIDE DEF grown
  <2> QED BY <1>1, <1>3
<1>6. cut \in 0..Len(grown)
  <2> HIDE DEF grown, excess
  <2> QED BY <1>3, <1>4, <1>5
<1>7. ring' \in Seq(Events)
  <2> HIDE DEF grown
  <2> QED BY <1>3, <1>4, <1>6, SubSeqProperties
<1>8. SubSeq(grown, 1, cut) \in Seq(Events)
  <2> HIDE DEF grown
  <2> QED BY <1>3, <1>6, SubSeqProperties
<1>9. aged' \subseteq Nat
  <2> HIDE DEF grown
  <2> QED BY <1>1, <1>4, <1>8, NumbersAreNat
<1>10. count' \in Nat /\ counter' \in Nat
  BY <1>1 DEF Record
<1> QED BY <1>2, <1>7, <1>9, <1>10

\* And publishing one to the queues.
LEMMA PublishTyped ==
  ASSUME PushTypes, NEW e \in Events, Publish(e)
  PROVE  queue' \in [Streams -> Seq(Events)] /\ dropped' \subseteq Nat
<1>1. /\ queue \in [Streams -> Seq(Events)] /\ attached \subseteq Streams /\ dropped \subseteq Nat
      /\ QueueSize \in Nat \ {0}
  BY SsePushAssumption DEF PushTypes
<1>2. ASSUME NEW q \in Seq(Events)
      PROVE  /\ Offered(q, e) \in Seq(Events)
             /\ Len(q) = QueueSize => Head(q) \in Events
  <2>1. q # <<>> => Head(q) \in Events /\ Tail(q) \in Seq(Events)
    BY HeadTailProperties
  <2>2. Len(q) = QueueSize => q # <<>>
    BY <1>1
  <2> QED BY <2>1, <2>2 DEF Offered
<1>3. queue' \in [Streams -> Seq(Events)]
  BY <1>1, <1>2 DEF Publish
<1>4. ASSUME NEW s \in attached, Len(queue[s]) = QueueSize PROVE Head(queue[s]).n \in Nat
  BY <1>1, <1>2, <1>4 DEF Events
<1>5. dropped' \subseteq Nat
  BY <1>1, <1>4 DEF Publish
<1> QED BY <1>3, <1>5

\* Where the later ids begin: there is such a place, for they ascend.
LEMMA CutExists ==
  ASSUME PushTypes, Ascends, NEW id \in Nat
  PROVE  \E k \in 0..Len(ring) : \A i \in 1..Len(ring) : ring[i].id > id <=> i > k
<1>0. /\ ring \in Seq(Events) /\ Len(ring) \in Nat
      /\ \A i \in 1..Len(ring) : ring[i].id \in Nat
  <2>1. ring \in Seq(Events)
    BY DEF PushTypes
  <2>2. \A i \in 1..Len(ring) : ring[i] \in Events
    BY <2>1
  <2> QED BY <2>1, <2>2 DEF Events
<1> DEFINE Cuts(n) == \E k \in 0..n : \A i \in 1..n : ring[i].id > id <=> i > k
           S == {n \in Nat : n <= Len(ring) => Cuts(n)}
<1>1. 0 \in S
  OBVIOUS
<1>2. ASSUME NEW n \in Nat, n \in S PROVE n + 1 \in S
  <2> SUFFICES ASSUME n + 1 <= Len(ring) PROVE Cuts(n + 1)
    OBVIOUS
  <2>1. PICK k \in 0..n : \A i \in 1..n : ring[i].id > id <=> i > k
    BY <1>0, <1>2
  <2>2. n + 1 \in 1..Len(ring) /\ \A i \in 1..n : i \in 1..Len(ring) /\ i < n + 1
    BY <1>0
  <2>3. CASE ring[n + 1].id > id
    <3>1. \A i \in 1..n + 1 : ring[i].id > id <=> i > k
      BY <2>1, <2>3
    <3>2. k \in 0..n + 1
      OBVIOUS
    <3> QED BY <3>1, <3>2
  <2>4. CASE ~(ring[n + 1].id > id)
    <3>1. ring[n + 1].id <= id
      BY <1>0, <2>2, <2>4
    <3>2. \A i \in 1..n : ring[i].id < ring[n + 1].id
      BY <2>2 DEF Ascends
    <3>3. \A i \in 1..n + 1 : ring[i].id > id <=> i > n + 1
      BY <1>0, <2>2, <3>1, <3>2
    <3> QED BY <3>3
  <2> QED BY <2>3, <2>4
<1>3. Nat \subseteq S
  <2> HIDE DEF S
  <2> QED BY <1>1, <1>2, SetInduction
<1>4. Len(ring) \in S
  <2> HIDE DEF S
  <2> QED BY <1>0, <1>3
<1>5. Cuts(Len(ring))
  <2> HIDE DEF Cuts
  <2> QED BY <1>0, <1>4
<1> QED BY <1>5

\* What is replayed is the part of the ring that is later.
LEMMA ReplayedIs ==
  ASSUME PushTypes, Ascends, NEW id \in Nat \ {0}
  PROVE  \E k \in 0..Len(ring) :
           /\ \A i \in 1..Len(ring) : ring[i].id > id <=> i > k
           /\ Replayed(id) = SubSeq(ring, k + 1, Len(ring))
<1> DEFINE Cut(k) == \A i \in 1..Len(ring) : ring[i].id > id <=> i > k
           c == CHOOSE k \in 0..Len(ring) : Cut(k)
<1>1. c \in 0..Len(ring) /\ Cut(c)
  <2>1. \E k \in 0..Len(ring) : Cut(k)
    BY CutExists
  <2> HIDE DEF Cut
  <2> QED BY <2>1
<1>2. Replayed(id) = SubSeq(ring, c + 1, Len(ring))
  BY DEF Replayed, LaterThan
<1> HIDE DEF c
<1> QED BY <1>1, <1>2

\* And it was recorded.
LEMMA ReplayedTyped ==
  ASSUME PushTypes, Ascends, NEW id \in Nat
  PROVE  Replayed(id) \in Seq(Events)
<1>1. CASE id = 0
  BY <1>1 DEF Replayed
<1>2. CASE id # 0
  <2>1. ring \in Seq(Events) /\ Len(ring) \in Nat
    BY DEF PushTypes
  <2>2. PICK k \in 0..Len(ring) : Replayed(id) = SubSeq(ring, k + 1, Len(ring))
    BY <1>2, ReplayedIs
  <2>3. SubSeq(ring, k + 1, Len(ring)) \in Seq(Events)
    BY <2>1, SubSeqProperties
  <2> QED BY <2>2, <2>3
<1> QED BY <1>1, <1>2

\* Every step keeps the shape.
LEMMA PushTypesKept == PushTypes /\ Ascends /\ [Next]_vars => PushTypes'
<1> SUFFICES ASSUME PushTypes, Ascends, [Next]_vars PROVE PushTypes'
  OBVIOUS
<1>0. /\ site \in Sites /\ live \in [Hosts -> Streams \cup {NoStream}]
      /\ newest \in [Hosts -> Streams \cup {NoStream}] /\ ring \in Seq(Events)
      /\ queue \in [Streams -> Seq(Events)] /\ snap \in [Streams -> Seq(Events)]
      /\ sent \in [Streams -> Seq(Nat)] /\ after \in [Streams -> Events] /\ last \in Events
      /\ at \in [Streams -> {"new", "requested", "open", "replay", "live", "closed"}]
      /\ got \subseteq Nat /\ aged \subseteq Nat /\ dropped \subseteq Nat
      /\ attached \subseteq Streams /\ cur \in Streams \cup {NoStream}
      /\ NoStream \notin Streams /\ \A s \in Streams : site.host[s] \in Hosts
  BY SsePushAssumption, SiteIs DEF PushTypes
<1>1. CASE Notify
  <2>1. Event \in Events
    BY <1>1, RecordTyped DEF Notify
  <2> QED BY <1>1, <2>1, RecordTyped, PublishTyped
      DEF Notify, PushTypes, Hosts, brokerVars, clientVars
<1>2. CASE NotifyRecord
  BY <1>2, RecordTyped DEF NotifyRecord, PushTypes, Hosts, brokerVars, clientVars
<1>3. CASE NotifyPublish
  <2>1. PICK e \in inflight : Publish(e) /\ inflight' = inflight \ {e}
    BY <1>3 DEF NotifyPublish
  <2>2. e \in Events
    BY DEF PushTypes
  <2> QED BY <1>3, <2>1, <2>2, PublishTyped
      DEF NotifyPublish, PushTypes, Hosts, brokerVars, clientVars
<1>4. CASE Forget
  <2>1. aged' \subseteq Nat
    BY <1>0, <1>4, NumbersAreNat DEF Forget
  <2>2. ring' \in Seq(Events) /\ counter' \in Nat /\ lost' \in Nat
    BY <1>4 DEF Forget, PushTypes
  <2> QED BY <1>4, <2>1, <2>2 DEF Forget, PushTypes, Hosts, brokerVars, clientVars
<1>5. CASE Disconnect
  BY <1>0, <1>5 DEF Disconnect, PushTypes, Hosts, bufferVars, brokerVars, clientVars
<1>6. ASSUME NEW s \in Streams, Request(s) PROVE PushTypes'
  BY <1>0, <1>6 DEF Request, PushTypes, Hosts, bufferVars, brokerVars, clientVars
<1>7. ASSUME NEW s \in Streams, Subscribe(s) PROVE PushTypes'
  BY <1>0, <1>7 DEF Subscribe, PushTypes, Hosts, bufferVars, clientVars
<1>8. ASSUME NEW s \in Streams, Attach(s) PROVE PushTypes'
  BY <1>0, <1>8 DEF Attach, PushTypes, Hosts, bufferVars, clientVars
<1>9. ASSUME NEW s \in Streams, StartReplay(s) PROVE PushTypes'
  <2>1. Replayed(after[s].id) \in Seq(Events)
    <3>1. after[s].id \in Nat
      BY <1>0 DEF Events
    <3> QED BY <3>1, ReplayedTyped
  <2> QED BY <1>0, <1>9, <2>1
      DEF StartReplay, PushTypes, Hosts, bufferVars, brokerVars, clientVars
<1>10. ASSUME NEW s \in Streams, NEW e \in Events, Write(s, e)
       PROVE  /\ sent' \in [Streams -> Seq(Nat)] /\ last' \in Events /\ got' \subseteq Nat
              /\ first' \in Nat /\ site' = site
  <2>1. e.id \in Nat /\ e.n \in Nat /\ first \in Nat
    BY DEF Events, PushTypes
  <2>2. sent' \in [Streams -> Seq(Nat)]
    <3>1. sent' = [sent EXCEPT ![s] = Append(@, e.id)] /\ sent[s] \in Seq(Nat)
      BY <1>0, <1>10 DEF Write
    <3>2. Append(sent[s], e.id) \in Seq(Nat)
      BY <2>1, <3>1
    <3> QED BY <1>0, <3>1, <3>2
  <2> QED BY <1>0, <1>10, <2>1, <2>2 DEF Write, clientVars
<1>11. ASSUME NEW s \in Streams, SendReplay(s) PROVE PushTypes'
  <2>1. Head(snap[s]) \in Events /\ Tail(snap[s]) \in Seq(Events)
    BY <1>0, <1>11, HeadTailProperties DEF SendReplay
  <2>2. Write(s, Head(snap[s])) /\ snap' = [snap EXCEPT ![s] = Tail(snap[s])]
        /\ UNCHANGED <<bufferVars, brokerVars, queue, dropped, at, after, cur>>
    BY <1>11 DEF SendReplay
  <2>3. /\ sent' \in [Streams -> Seq(Nat)] /\ last' \in Events /\ got' \subseteq Nat
        /\ first' \in Nat /\ site' = site
    BY <1>10, <2>1, <2>2
  <2> QED BY <1>0, <2>1, <2>2, <2>3 DEF PushTypes, Hosts, bufferVars, brokerVars
<1>12. ASSUME NEW s \in Streams, EndReplay(s) PROVE PushTypes'
  BY <1>0, <1>12 DEF EndReplay, PushTypes, Hosts, bufferVars, brokerVars, clientVars
<1>13. ASSUME NEW s \in Streams, SendLive(s) PROVE PushTypes'
  <2>1. Head(queue[s]) \in Events /\ Tail(queue[s]) \in Seq(Events)
    BY <1>0, <1>13, HeadTailProperties DEF SendLive
  <2>2. Write(s, Head(queue[s])) /\ queue' = [queue EXCEPT ![s] = Tail(queue[s])]
        /\ UNCHANGED <<bufferVars, brokerVars, dropped, at, after, snap, cur>>
    BY <1>13 DEF SendLive
  <2>3. /\ sent' \in [Streams -> Seq(Nat)] /\ last' \in Events /\ got' \subseteq Nat
        /\ first' \in Nat /\ site' = site
    BY <1>10, <2>1, <2>2
  <2> QED BY <1>0, <2>1, <2>2, <2>3 DEF PushTypes, Hosts, bufferVars, brokerVars
<1>14. ASSUME NEW s \in Streams, Close(s) PROVE PushTypes'
  <2>1. <<>> \in Seq(Events)
    OBVIOUS
  <2> QED BY <1>0, <1>14, <2>1 DEF Close, Unsubscribe, PushTypes, Hosts, bufferVars, clientVars
<1>15. CASE UNCHANGED vars
  BY <1>15 DEF vars, PushTypes, Hosts, bufferVars, brokerVars, clientVars
<1> QED BY <1>1, <1>2, <1>3, <1>4, <1>5, <1>6, <1>7, <1>8, <1>9, <1>11, <1>12, <1>13, <1>14, <1>15
    DEF Next, Generator

\* The ids in the ring go on ascending: each event is numbered after the last, and a
\* numbering that begins anew begins with an empty ring.
LEMMA AscendsKept == PushTypes /\ Ascends /\ [Next]_vars => Ascends'
<1> SUFFICES ASSUME PushTypes, Ascends, [Next]_vars PROVE Ascends'
  OBVIOUS
<1>0. /\ ring \in Seq(Events) /\ Len(ring) \in Nat /\ counter \in Nat /\ count \in Nat
      /\ site.ring \in Nat \ {0} /\ \A i \in 1..Len(ring) : ring[i].id \in Nat
  <2>1. ring \in Seq(Events) /\ site \in Sites
    BY DEF PushTypes
  <2>2. \A i \in 1..Len(ring) : ring[i] \in Events
    BY <2>1
  <2> QED BY <2>1, <2>2, SiteIs DEF PushTypes, Events
<1>1. ASSUME Record PROVE Ascends'
  <2> DEFINE grown == Append(ring, Event)
             excess == IF Len(grown) > site.ring THEN Len(grown) - site.ring ELSE 0
  <2>1. Event \in Events /\ Event.id = counter + 1 /\ counter' = counter + 1
    BY <1>0, <1>1 DEF Event, Events, Record
  <2>2. /\ grown \in Seq(Events) /\ Len(grown) = Len(ring) + 1
        /\ \A i \in 1..Len(ring) : grown[i] = ring[i]
        /\ grown[Len(ring) + 1] = Event
    BY <1>0, <2>1
  <2>3. /\ \A i, j \in 1..Len(grown) : i < j => grown[i].id < grown[j].id
        /\ \A i \in 1..Len(grown) : grown[i].id <= counter + 1
    <3> HIDE DEF grown
    <3>1. \A i \in 1..Len(grown) : i \in 1..Len(ring) \/ i = Len(ring) + 1
      BY <1>0, <2>2
    <3>2. \A i \in 1..Len(ring) : ring[i].id < counter + 1
      BY <1>0 DEF Ascends
    <3>3. \A i, j \in 1..Len(ring) : i < j => ring[i].id < ring[j].id
      BY DEF Ascends
    <3>4. \A i, j \in 1..Len(grown) : i < j => i \in 1..Len(ring)
      BY <1>0, <2>2
    <3>5. ASSUME NEW i \in 1..Len(ring), NEW j \in 1..Len(grown), i < j
          PROVE  grown[i].id < grown[j].id
      <4>1. CASE j \in 1..Len(ring)
        BY <2>2, <3>3, <3>5, <4>1
      <4>2. CASE j = Len(ring) + 1
        BY <2>1, <2>2, <3>2, <4>2
      <4> QED BY <3>1, <4>1, <4>2
    <3>6. ASSUME NEW i \in 1..Len(grown) PROVE grown[i].id <= counter + 1
      <4>1. CASE i \in 1..Len(ring)
        BY <1>0, <2>2, <3>2, <4>1
      <4>2. CASE i = Len(ring) + 1
        BY <1>0, <2>1, <2>2, <4>2
      <4> QED BY <3>1, <4>1, <4>2
    <3> QED BY <3>4, <3>5, <3>6
  <2>4. PICK cut \in IF site.remote THEN 0..excess ELSE {excess} :
          ring' = SubSeq(grown, cut + 1, Len(grown))
    BY <1>1 DEF Record
  <2>5. cut \in 0..Len(grown)
    <3> HIDE DEF grown
    <3> QED BY <1>0, <2>2, <2>4
  <2>6. /\ Len(ring') = Len(grown) - cut
        /\ \A i \in 1..Len(ring') : ring'[i] = grown[cut + i]
    <3> HIDE DEF grown, excess
    <3> QED BY <2>2, <2>4, <2>5, SubSeqProperties
  <2> HIDE DEF grown, excess
  <2>7. \A i \in 1..Len(ring') : cut + i \in 1..Len(grown)
    BY <1>0, <2>2, <2>5, <2>6
  <2>8. \A i, j \in 1..Len(ring') : i < j => cut + i < cut + j
    BY <1>0, <2>2, <2>5, <2>6
  <2> QED BY <2>1, <2>3, <2>6, <2>7, <2>8 DEF Ascends
<1>2. CASE UNCHANGED <<ring, counter>>
  BY <1>2 DEF Ascends
<1>3. CASE Forget
  <2>1. ring' = <<>>
    BY <1>3 DEF Forget
  <2> QED BY <2>1 DEF Ascends
<1>4. CASE Notify \/ NotifyRecord
  BY <1>1, <1>4 DEF Notify, NotifyRecord
<1> QED BY <1>2, <1>3, <1>4
    DEF Next, Generator, NotifyPublish, Disconnect, Request, Subscribe, Attach, StartReplay,
        SendReplay, EndReplay, SendLive, Close, bufferVars, vars

-----------------------------------------------------------------------------
(* The push channel: its connections.                                      *)

\* The step leaves the connections alone.
LEMMA ConnectionsRest ==
  ASSUME Connected, UNCHANGED <<site, brokerVars, at, cur, after>>,
         last' = last \/ cur = NoStream \/ at[cur] \notin {"requested", "open"}
  PROVE  Connected'
<1>1. Hosts' = Hosts /\ live' = live /\ newest' = newest /\ attached' = attached
  BY DEF Hosts, brokerVars
<1>2. Reading'
  BY <1>1 DEF Connected, Reading
<1>3. RegisteredIsNewest' /\ Newest' /\ HeardOnlyRegistered'
  BY <1>1 DEF Connected, RegisteredIsNewest, Newest, HeardOnlyRegistered
<1> QED BY <1>2, <1>3 DEF Connected

\* On each worker the newest generator and no other stays registered and hears, and the
\* client goes on reading one connection.
LEMMA ConnectedKept == PushTypes /\ Connected /\ [Next]_vars => Connected'
<1> SUFFICES ASSUME PushTypes, Connected, [Next]_vars PROVE Connected'
  OBVIOUS
<1>0. /\ live \in [Hosts -> Streams \cup {NoStream}] /\ newest \in [Hosts -> Streams \cup {NoStream}]
      /\ at \in [Streams -> {"new", "requested", "open", "replay", "live", "closed"}]
      /\ attached \subseteq Streams /\ cur \in Streams \cup {NoStream}
      /\ after \in [Streams -> Events]
      /\ NoStream \notin Streams /\ \A s \in Streams : site.host[s] \in Hosts
      /\ ~site.remote => \A s, r \in Streams : site.host[s] = site.host[r]
      /\ site.remote \in BOOLEAN
  BY SsePushAssumption, SiteIs DEF PushTypes
<1>1. ASSUME NEW s \in Streams, Request(s) PROVE Connected'
  <2>1. /\ cur = NoStream /\ at[s] = "new" /\ cur' = s
        /\ at' = [at EXCEPT ![s] = "requested"] /\ after' = [after EXCEPT ![s] = last]
        /\ UNCHANGED <<site, live, newest, attached, last>> /\ Hosts' = Hosts
    BY <1>1 DEF Request, brokerVars, clientVars, Hosts
  <2>2. \A h \in Hosts : newest[h] # s
    BY <1>0, <2>1 DEF Connected, Newest, Open
  <2>3. RegisteredIsNewest'
    BY <1>0, <2>1, <2>2 DEF Connected, RegisteredIsNewest
  <2>4. Newest'
    BY <1>0, <2>1, <2>2 DEF Connected, Newest
  <2>5. Reading'
    BY <1>0, <2>1 DEF Connected, Reading, Open
  <2> QED BY <2>1, <2>3, <2>4, <2>5 DEF Connected, HeardOnlyRegistered
<1>2. ASSUME NEW s \in Streams, Subscribe(s) PROVE Connected'
  <2> DEFINE h == site.host[s]
  <2>1. /\ at[s] = "requested" /\ at' = [at EXCEPT ![s] = "open"]
        /\ live' = [live EXCEPT ![h] = s] /\ newest' = [newest EXCEPT ![h] = s]
        /\ attached' = (attached \ {live[h]}) \cup (IF site.remote THEN {} ELSE {s})
        /\ UNCHANGED <<site, cur, after, last>> /\ Hosts' = Hosts
    BY <1>2 DEF Subscribe, clientVars, Hosts
  <2>2. cur = s /\ h \in Hosts
    BY <1>0, <2>1 DEF Connected, Reading
  <2>3. \A g \in Hosts : newest[g] # s
    BY <1>0, <2>1 DEF Connected, Newest, Open
  <2> HIDE DEF h
  <2>4. RegisteredIsNewest'
    BY <1>0, <2>1, <2>2, <2>3 DEF Connected, RegisteredIsNewest, Open
  <2>5. Newest'
    BY <1>0, <2>1, <2>2, <2>3 DEF Connected, Newest, Open, h
  <2>6. HeardOnlyRegistered'
    <3> SUFFICES ASSUME NEW x \in attached' PROVE live'[site.host[x]] = x
      BY <2>1 DEF HeardOnlyRegistered
    <3>1. CASE x = s
      BY <1>0, <2>1, <2>2, <3>1 DEF h
    <3>2. CASE x # s
      <4>1. x \in attached /\ x # live[h] /\ live[site.host[x]] = x
        BY <2>1, <3>2 DEF Connected, HeardOnlyRegistered
      <4> QED BY <1>0, <2>1, <2>2, <4>1
    <3> QED BY <3>1, <3>2
  <2>7. Reading'
    BY <1>0, <2>1, <2>2 DEF Connected, Reading, Open
  <2> QED BY <2>4, <2>5, <2>6, <2>7 DEF Connected
<1>3. ASSUME NEW s \in Streams, Attach(s) PROVE Connected'
  <2>1. /\ site.remote /\ live[site.host[s]] = s /\ attached' = attached \cup {s}
        /\ UNCHANGED <<site, live, newest, at, cur, after, last>> /\ Hosts' = Hosts
    BY <1>3 DEF Attach, clientVars, Hosts
  <2> QED BY <2>1 DEF Connected, RegisteredIsNewest, Newest, HeardOnlyRegistered, Reading
<1>4. ASSUME NEW s \in Streams, StartReplay(s) \/ EndReplay(s) PROVE Connected'
  <2>1. /\ at[s] \in Open /\ \E x \in {"replay", "live"} : at' = [at EXCEPT ![s] = x]
        /\ UNCHANGED <<site, live, newest, attached, cur, after, last>> /\ Hosts' = Hosts
    BY <1>4 DEF StartReplay, EndReplay, clientVars, brokerVars, Hosts, Open
  <2>2. \A r \in Streams : at'[r] \in Open <=> at[r] \in Open
    BY <1>0, <2>1 DEF Open
  <2>3. \A r \in Streams : at'[r] \in {"requested", "open"} => at'[r] = at[r]
    BY <1>0, <2>1
  <2>4. \A r \in Streams : at[r] = "requested" => at'[r] = "requested"
    BY <1>0, <2>1 DEF Open
  <2>5. \A r \in Streams : at[r] = "closed" => at'[r] = "closed"
    BY <1>0, <2>1 DEF Open
  <2>6. RegisteredIsNewest'
    BY <1>0, <2>1, <2>2 DEF Connected, RegisteredIsNewest
  <2>7. Newest'
    BY <1>0, <2>1, <2>2, <2>5 DEF Connected, Newest
  <2>8. Reading'
    BY <1>0, <2>1, <2>2, <2>3, <2>4 DEF Connected, Reading
  <2> QED BY <2>1, <2>6, <2>7, <2>8 DEF Connected, HeardOnlyRegistered
<1>5. ASSUME NEW s \in Streams, Close(s) PROVE Connected'
  <2> DEFINE h == site.host[s]
  <2>1. /\ at[s] \in Open /\ at' = [at EXCEPT ![s] = "closed"]
        /\ live' = [live EXCEPT ![h] = IF live[h] = s THEN NoStream ELSE live[h]]
        /\ attached' = attached \ {s} /\ cur' = IF cur = s THEN NoStream ELSE cur
        /\ UNCHANGED <<site, newest, after, last>> /\ Hosts' = Hosts /\ h \in Hosts
    BY <1>0, <1>5 DEF Close, Unsubscribe, clientVars, Hosts, Open
  <2>2. \A g \in Hosts : newest[g] = s => g = h
    BY <1>0 DEF Connected, Newest
  <2> HIDE DEF h
  <2>3. RegisteredIsNewest'
    <3> SUFFICES ASSUME NEW g \in Hosts
                 PROVE  live'[g] = IF newest[g] # NoStream /\ at'[newest[g]] \in Open
                                   THEN newest[g] ELSE NoStream
      BY <2>1 DEF RegisteredIsNewest
    <3>1. live[g] = IF newest[g] # NoStream /\ at[newest[g]] \in Open THEN newest[g] ELSE NoStream
      BY DEF Connected, RegisteredIsNewest
    <3>2. CASE newest[g] = s
      <4>1. g = h /\ live[g] = s /\ at'[s] = "closed"
        BY <1>0, <2>1, <2>2, <3>1, <3>2
      <4> QED BY <1>0, <2>1, <3>2, <4>1 DEF Open
    <3>3. CASE newest[g] # s
      <4>1. live[g] # s /\ live'[g] = live[g]
        BY <1>0, <2>1, <3>1, <3>3
      <4>2. newest[g] \in Streams => at'[newest[g]] = at[newest[g]]
        BY <1>0, <2>1, <3>3
      <4> QED BY <1>0, <3>1, <4>1, <4>2
    <3> QED BY <3>2, <3>3
  <2>4. Newest'
    BY <1>0, <2>1 DEF Connected, Newest, Open
  <2>5. HeardOnlyRegistered'
    BY <1>0, <2>1 DEF Connected, HeardOnlyRegistered
  <2>6. Reading'
    BY <1>0, <2>1 DEF Connected, Reading, Open
  <2> QED BY <2>3, <2>4, <2>5, <2>6 DEF Connected
<1>6. CASE Disconnect
  <2>1. /\ cur # NoStream /\ cur' = NoStream /\ cur \in Streams
        /\ at' = [at EXCEPT ![cur] = IF at[cur] = "requested" THEN "closed" ELSE at[cur]]
        /\ UNCHANGED <<site, live, newest, attached, after, last>> /\ Hosts' = Hosts
    BY <1>0, <1>6 DEF Disconnect, brokerVars, clientVars, Hosts
  <2>2. \A g \in Hosts : newest[g] # NoStream => at'[newest[g]] = at[newest[g]]
    BY <1>0, <2>1 DEF Connected, Newest, Open
  <2>3. RegisteredIsNewest'
    BY <1>0, <2>1, <2>2 DEF Connected, RegisteredIsNewest
  <2>4. Newest'
    BY <1>0, <2>1, <2>2 DEF Connected, Newest
  <2>5. Reading'
    BY <1>0, <2>1 DEF Connected, Reading, Open
  <2> QED BY <2>1, <2>3, <2>4, <2>5 DEF Connected, HeardOnlyRegistered
<1>7. ASSUME NEW s \in Streams, SendReplay(s) \/ SendLive(s) PROVE Connected'
  <2>1. /\ at[s] \in {"replay", "live"} /\ UNCHANGED <<brokerVars, at, cur, after, site>>
        /\ last' = last \/ s = cur
    BY <1>7 DEF SendReplay, SendLive, Write, clientVars
  <2> QED BY <2>1, ConnectionsRest
<1>8. CASE Notify \/ NotifyRecord \/ NotifyPublish \/ Forget
  <2>1. UNCHANGED <<site, brokerVars, at, cur, after, last>>
    BY <1>8 DEF Notify, NotifyRecord, NotifyPublish, Forget, clientVars
  <2> QED BY <2>1, ConnectionsRest
<1>9. CASE UNCHANGED vars
  <2>1. UNCHANGED <<site, brokerVars, at, cur, after, last>>
    BY <1>9 DEF vars, clientVars
  <2> QED BY <2>1, ConnectionsRest
<1> QED BY <1>1, <1>2, <1>3, <1>4, <1>5, <1>6, <1>7, <1>8, <1>9 DEF Next, Generator

-----------------------------------------------------------------------------
(* The push channel: what keeps its numbers.                               *)

\* Who hears has subscribed and not ended.
LEMMA AttachedOpen ==
  ASSUME PushTypes, Connected, NEW s \in attached
  PROVE  s \in Streams /\ at[s] \in Open
<1>1. /\ s \in Streams /\ site.host[s] \in Hosts /\ live[site.host[s]] = s /\ NoStream \notin Streams
  BY SsePushAssumption, SiteIs DEF PushTypes, Connected, HeardOnlyRegistered
<1> QED BY <1>1 DEF Connected, RegisteredIsNewest

\* The buffer's account stands when nothing is recorded.
LEMMA LedgerRests == ASSUME Ledger, UNCHANGED <<count, counter, ring, aged, inflight>> PROVE Ledger'
BY DEF Ledger, Run

\* A generator stands when nothing of its own moves and the client read nothing from it.
LEMMA StreamRests ==
  ASSUME PushTypes, NEW r \in Streams, StreamInv(r), count' = count, aged \subseteq aged',
         queue'[r] = queue[r], snap'[r] = snap[r], sent'[r] = sent[r], after'[r] = after[r],
         at'[r] = at[r], r \in attached' => r \in attached,
         r = cur' => r = cur /\ first' = first /\ last' = last
  PROVE  StreamInv(r)'
<1>1. Queued(r)'
  BY DEF StreamInv, Queued, Run
<1>2. Snapped(r)'
  <2>1. PICK k \in Nat :
          /\ Run(snap[r], k) /\ k + Len(snap[r]) <= count
          /\ at[r] = "replay" /\ r = cur /\ first # 0 /\ snap[r] # <<>> => (last.n + 1)..k \subseteq aged
    BY DEF StreamInv, Snapped
  <2>2. Run(snap'[r], k)
    BY <2>1 DEF Run
  <2> QED BY <2>1, <2>2 DEF StreamInv, Snapped, Run
<1>3. Turned(r)'
  BY DEF StreamInv, Turned, OneTurn
<1> QED BY <1>1, <1>2, <1>3 DEF StreamInv

\* Nothing is forgotten that was accounted for.
LEMMA AccountGrows ==
  ASSUME got \subseteq got', dropped \subseteq dropped', aged \subseteq aged'
  PROVE  Accounted \subseteq Accounted'
BY DEF Accounted

\* An event recorded and published: the ring holds it, and every queue that hears.
LEMMA NotifyIs ==
  ASSUME PushTypes, Exact, Ledger, Notify
  PROVE  /\ Ledger' /\ count' = count + 1
         /\ Event \in Events /\ Event.n = count + 1 /\ Event.id = count + 1
         /\ got' = got /\ aged \subseteq aged' /\ dropped \subseteq dropped'
         /\ \A s \in Streams :
              queue'[s] = IF s \in attached THEN Offered(queue[s], Event) ELSE queue[s]
         /\ \A s \in attached : Len(queue[s]) = QueueSize => Head(queue[s]).n \in dropped'
         /\ UNCHANGED <<site, live, newest, attached, last, first, at, after, snap, cur, sent>>
<1>0. /\ ring \in Seq(Events) /\ Len(ring) \in Nat /\ count \in Nat /\ counter = count
      /\ site.ring \in Nat \ {0} /\ ~site.remote /\ Len(ring) <= count
      /\ Run(ring, count - Len(ring)) /\ 1..(count - Len(ring)) \subseteq aged
      /\ Record /\ Publish(Event) /\ inflight' = inflight /\ inflight = {}
  <2>1. site \in Sites /\ ring \in Seq(Events)
    BY DEF PushTypes
  <2> QED BY <2>1, SiteIs DEF PushTypes, Exact, Ledger, Notify
<1>1. Event \in Events /\ Event.n = count + 1 /\ Event.id = count + 1
  BY <1>0 DEF Event, Events
<1> DEFINE grown == Append(ring, Event)
           base == count - Len(ring)
           excess == IF Len(grown) > site.ring THEN Len(grown) - site.ring ELSE 0
<1>2. base \in Nat /\ base + Len(ring) + 1 = count + 1
  BY <1>0
<1>3. grown \in Seq(Events) /\ Len(grown) = Len(ring) + 1 /\ Run(grown, base)
  <2>1. Run(ring, base) /\ Event.n = base + Len(ring) + 1 /\ Event.id = Event.n
    BY <1>0, <1>1, <1>2
  <2> HIDE DEF base
  <2> QED BY <1>0, <1>1, <1>2, <2>1, RunAppend
<1>4. /\ ring' = SubSeq(grown, excess + 1, Len(grown))
      /\ aged' = aged \cup Numbers(SubSeq(grown, 1, excess))
      /\ count' = count + 1 /\ counter' = count + 1
  BY <1>0 DEF Record
<1>5. excess \in 0..Len(grown)
  <2> HIDE DEF grown
  <2> QED BY <1>0, <1>3
<1>6. /\ Len(ring') = Len(grown) - excess /\ Run(ring', base + excess)
  <2> HIDE DEF grown, base, excess
  <2> QED BY <1>2, <1>3, <1>4, <1>5, RunCut
<1>7. base + 1..base + excess \subseteq aged'
  <2> DEFINE r == SubSeq(grown, 1, excess)
  <2>1. r \in Seq(Events) /\ Len(r) = excess /\ \A i \in 1..excess : r[i] = grown[i]
    <3> HIDE DEF grown, excess
    <3> QED BY <1>3, <1>5, SubSeqProperties
  <2>2. Run(r, base)
    <3> HIDE DEF grown, base, excess, r
    <3> QED BY <1>3, <1>5, <2>1 DEF Run
  <2>3. Numbers(r) = base + 1..base + excess
    <3> HIDE DEF base, excess, r
    <3>1. Numbers(r) = (base + 1)..(base + Len(r))
      BY <1>2, <2>1, <2>2, RunNumbers
    <3> QED BY <2>1, <3>1
  <2> HIDE DEF r
  <2>4. aged' = aged \cup Numbers(r)
    BY <1>4 DEF r
  <2> QED BY <2>3, <2>4
<1>8. Ledger'
  <2>1. count' - Len(ring') = base + excess
    <3>1. excess \in Nat /\ Len(ring) \in Nat /\ base \in Nat /\ base + Len(ring) = count
      BY <1>0, <1>3, <1>5
    <3>2. Len(ring') = Len(grown) - excess /\ Len(grown) = Len(ring) + 1 /\ count' = count + 1
      BY <1>3, <1>4, <1>6
    <3> HIDE DEF grown, excess, base
    <3> QED BY <3>1, <3>2
  <2>2. Len(ring') <= count' /\ Len(ring') \in Nat
    <3>1. Len(grown) = Len(ring) + 1 /\ excess \in Nat /\ excess <= Len(grown)
      BY <1>3, <1>5
    <3> HIDE DEF grown, excess, base
    <3> QED BY <1>0, <1>4, <1>6, <3>1
  <2>3. aged \subseteq aged'
    BY <1>4
  <2>4. 1..(base + excess) \subseteq aged'
    <3>1. 1..base \subseteq aged'
      BY <1>0, <2>3
    <3> HIDE DEF grown, excess, base
    <3> QED BY <1>2, <1>3, <1>5, <1>7, <3>1
  <2> HIDE DEF grown, excess, base
  <2> QED BY <1>0, <1>4, <1>6, <2>1, <2>2, <2>4 DEF Ledger
<1>9. /\ dropped \subseteq dropped'
      /\ \A s \in Streams : queue'[s] = IF s \in attached THEN Offered(queue[s], Event) ELSE queue[s]
      /\ \A s \in attached : Len(queue[s]) = QueueSize => Head(queue[s]).n \in dropped'
  BY <1>0 DEF Publish
<1> QED BY <1>1, <1>4, <1>8, <1>9 DEF Notify, brokerVars, clientVars

\* What it does to a queue that hears: it goes on to the new event, and gives up at most
\* its first.
LEMMA HeardIs ==
  ASSUME PushTypes, Connected, Exact, ExactInv, Notify, NEW s \in attached
  PROVE  \E k, l \in Nat :
           /\ Run(queue[s], k) /\ k + Len(queue[s]) = count
           /\ queue'[s] \in Seq(Events) /\ Run(queue'[s], l) /\ l + Len(queue'[s]) = count + 1
           /\ Len(queue'[s]) >= 1
           /\ l = k \/ (l = k + 1 /\ l \in dropped' /\ queue[s] # <<>>)
<1>1. s \in Streams /\ queue[s] \in Seq(Events) /\ Ledger /\ Queued(s)
  BY AttachedOpen DEF PushTypes, ExactInv, StreamInv
<1>2. /\ Event \in Events /\ Event.n = count + 1 /\ Event.id = Event.n
      /\ queue'[s] = Offered(queue[s], Event)
      /\ Len(queue[s]) = QueueSize => Head(queue[s]).n \in dropped'
  BY <1>1, NotifyIs
<1>3. PICK k \in Nat : Run(queue[s], k) /\ k + Len(queue[s]) = count
  BY <1>1 DEF Queued
<1>4. Event.n = k + Len(queue[s]) + 1
  BY <1>2, <1>3
<1>5. PICK l \in Nat :
        /\ Offered(queue[s], Event) \in Seq(Events) /\ Run(Offered(queue[s], Event), l)
        /\ l + Len(Offered(queue[s], Event)) = Event.n /\ Len(Offered(queue[s], Event)) >= 1
        /\ \/ l = k
           \/ l = k + 1 /\ Len(queue[s]) = QueueSize /\ queue[s] # <<>> /\ Head(queue[s]).n = l
  BY <1>1, <1>2, <1>3, <1>4, OfferedRun
<1> QED BY <1>2, <1>3, <1>5

\* An event notified keeps it all.
LEMMA NotifyKeeps ==
  ASSUME PushTypes, PushTypes', Connected, Exact, ExactInv, Notify
  PROVE  ExactInv'
<1>0. /\ Ledger' /\ count' = count + 1 /\ count \in Nat
      /\ got' = got /\ aged \subseteq aged' /\ dropped \subseteq dropped'
      /\ \A s \in Streams :
           queue'[s] = IF s \in attached THEN Offered(queue[s], Event) ELSE queue[s]
      /\ UNCHANGED <<site, live, newest, attached, last, first, at, after, snap, cur, sent>>
      /\ first \in Nat /\ last \in Events /\ cur \in Streams \cup {NoStream}
      /\ last.n \in Nat
  BY NotifyIs DEF ExactInv, PushTypes, Events
<1>1. Seen' /\ Past'
  <2>1. Accounted \subseteq Accounted'
    BY <1>0, AccountGrows
  <2>2. Seen'
    BY <1>0 DEF ExactInv, Seen
  <2>3. Past'
    BY <1>0, <2>1 DEF ExactInv, Past
  <2> QED BY <2>2, <2>3
<1>2. ASSUME NEW s \in Streams PROVE StreamInv(s)'
  <2>0. Queued(s) /\ Snapped(s) /\ Turned(s)
    BY DEF ExactInv, StreamInv
  <2>1. Snapped(s)'
    <3>1. PICK k \in Nat :
            /\ Run(snap[s], k) /\ k + Len(snap[s]) <= count
            /\ at[s] = "replay" /\ s = cur /\ first # 0 /\ snap[s] # <<>> =>
                 (last.n + 1)..k \subseteq aged
      BY <2>0 DEF Snapped
    <3>2. snap[s] \in Seq(Events) /\ k + Len(snap[s]) <= count'
      BY <1>0, <3>1 DEF PushTypes
    <3>3. Run(snap'[s], k)
      BY <1>0, <3>1 DEF Run
    <3> QED BY <1>0, <2>0, <3>1, <3>2, <3>3 DEF Snapped
  <2>2. CASE s \notin attached
    <3>1. queue'[s] = queue[s] /\ queue[s] \in Seq(Events) /\ sent[s] \in Seq(Nat)
      BY <1>0, <2>2 DEF PushTypes
    <3>2. Queued(s)'
      <4>1. PICK k \in Nat : Run(queue[s], k) /\ k + Len(queue[s]) <= count
        BY <2>0 DEF Queued
      <4>2. Run(queue'[s], k) /\ k + Len(queue'[s]) <= count'
        BY <1>0, <3>1, <4>1 DEF Run
      <4> QED BY <1>0, <2>0, <2>2, <3>1, <4>2 DEF Queued
    <3>3. Turned(s)'
      <4>1. PICK b \in 0..Len(sent[s]) :
              /\ OneTurn(sent[s], b)
              /\ at[s] = "live" /\ b < Len(sent[s]) =>
                   /\ sent[s][Len(sent[s])] <= count
                   /\ queue[s] # <<>> => sent[s][Len(sent[s])] < queue[s][1].id
        BY <2>0 DEF Turned
      <4>2. at[s] = "live" /\ b < Len(sent[s]) => sent[s][Len(sent[s])] <= count'
        <5>1. b < Len(sent[s]) => sent[s][Len(sent[s])] \in Nat
          BY <3>1
        <5> QED BY <1>0, <4>1, <5>1
      <4> QED BY <1>0, <2>0, <3>1, <4>1, <4>2 DEF Turned, OneTurn
    <3> QED BY <2>1, <3>2, <3>3 DEF StreamInv
  <2>3. CASE s \in attached
    <3>0. queue[s] \in Seq(Events) /\ sent[s] \in Seq(Nat) /\ at[s] \in Open
      BY <2>3, AttachedOpen DEF PushTypes
    <3>1. PICK k, l \in Nat :
            /\ Run(queue[s], k) /\ k + Len(queue[s]) = count
            /\ queue'[s] \in Seq(Events) /\ Run(queue'[s], l) /\ l + Len(queue'[s]) = count + 1
            /\ Len(queue'[s]) >= 1
            /\ l = k \/ (l = k + 1 /\ l \in dropped' /\ queue[s] # <<>>)
      BY <2>3, HeardIs
    <3>2. Queued(s)'
      <4>1. Run(queue'[s], l) /\ l + Len(queue'[s]) = count'
        BY <1>0, <3>1
      <4> QED BY <1>0, <3>0, <3>1, <4>1, SMTT(60) DEF Queued, Open
    <3>3. Turned(s)'
      <4>1. PICK b \in 0..Len(sent[s]) :
              /\ OneTurn(sent[s], b)
              /\ at[s] = "live" /\ b < Len(sent[s]) =>
                   /\ sent[s][Len(sent[s])] <= count
                   /\ queue[s] # <<>> => sent[s][Len(sent[s])] < queue[s][1].id
        BY <2>0 DEF Turned
      <4>2. queue'[s][1].id = l + 1
        BY <3>1 DEF Run
      <4>3. queue[s] # <<>> => queue[s][1].id = k + 1
        BY <3>0, <3>1, RunTail
      <4>4. queue[s] = <<>> => k = count
        BY <3>1
      <4>5. ASSUME at[s] = "live", b < Len(sent[s])
            PROVE  /\ sent[s][Len(sent[s])] <= count'
                   /\ sent[s][Len(sent[s])] < queue'[s][1].id
        <5>1. sent[s][Len(sent[s])] \in Nat /\ sent[s][Len(sent[s])] <= count
          BY <3>0, <4>1, <4>5
        <5>2. CASE queue[s] = <<>>
          BY <1>0, <3>1, <4>2, <4>4, <5>1, <5>2
        <5>3. CASE queue[s] # <<>>
          <6>1. sent[s][Len(sent[s])] < k + 1
            BY <4>1, <4>3, <4>5, <5>3
          <6> QED BY <1>0, <3>1, <4>2, <5>1, <6>1, SMTT(60)
        <5> QED BY <5>2, <5>3
      <4> QED BY <1>0, <2>0, <4>1, <4>5 DEF Turned, OneTurn
    <3> QED BY <2>1, <3>2, <3>3 DEF StreamInv
  <2> QED BY <2>2, <2>3
<1>3. Ahead'
  <2> SUFFICES ASSUME first # 0, cur # NoStream, at[cur] \in {"replay", "live"},
                      NEW n \in (first + 1)..(count + 1)
               PROVE  n \in Accounted' \cup Numbers(snap[cur]) \cup Numbers(queue'[cur])
    <3>1. Numbers(snap[cur])' = Numbers(snap[cur]) /\ Numbers(queue[cur])' = Numbers(queue'[cur])
      BY <1>0 DEF Numbers
    <3> QED BY <1>0, <3>1 DEF Ahead
  <2>1. cur \in attached /\ cur \in Streams
    BY <1>0 DEF Connected, Reading, Open, Exact
  <2>2. PICK k, l \in Nat :
          /\ Run(queue[cur], k) /\ k + Len(queue[cur]) = count
          /\ queue'[cur] \in Seq(Events) /\ Run(queue'[cur], l) /\ l + Len(queue'[cur]) = count + 1
          /\ Len(queue'[cur]) >= 1
          /\ l = k \/ (l = k + 1 /\ l \in dropped' /\ queue[cur] # <<>>)
    BY <2>1, HeardIs
  <2>3. /\ Numbers(queue[cur]) = (k + 1)..(k + Len(queue[cur]))
        /\ Numbers(queue'[cur]) = (l + 1)..(l + Len(queue'[cur]))
    <3>1. queue[cur] \in Seq(Events)
      BY <2>1 DEF PushTypes
    <3> QED BY <2>2, <3>1, RunNumbers
  <2>4. Accounted \subseteq Accounted'
    BY <1>0, AccountGrows
  <2>5. CASE n > l
    <3>1. n \in (l + 1)..(count + 1)
      BY <1>0, <2>5
    <3> QED BY <2>2, <2>3, <3>1
  <2>6. CASE n <= l
    <3>1. Len(queue'[cur]) \in Nat /\ l <= count
      BY <1>0, <2>2
    <3>2. n \in (first + 1)..count
      BY <1>0, <2>6, <3>1
    <3>3. n \in Accounted \cup Numbers(snap[cur]) \cup Numbers(queue[cur])
      BY <3>2 DEF ExactInv, Ahead
    <3>4. CASE n \in Numbers(queue[cur])
      <4>1. n = l /\ l = k + 1
        BY <1>0, <2>2, <2>3, <2>6, <3>4
      <4>2. n \in dropped'
        BY <2>2, <4>1
      <4> QED BY <4>2 DEF Accounted
    <3> QED BY <2>4, <3>3, <3>4
  <2> QED BY <1>0, <2>2, <2>5, <2>6
<1> QED BY <1>0, <1>1, <1>2, <1>3 DEF ExactInv

\* What is fixed by the exact numbering while nothing is recorded.
LEMMA CountRests ==
  ASSUME ExactInv, UNCHANGED <<count, counter, ring, aged, inflight, dropped>>, got \subseteq got'
  PROVE  Ledger' /\ Accounted \subseteq Accounted'
BY LedgerRests, AccountGrows DEF ExactInv

\* A request for a stream keeps it all.
LEMMA RequestKeeps ==
  ASSUME PushTypes, PushTypes', Connected, Exact, ExactInv, NEW s \in Streams, Request(s)
  PROVE  ExactInv'
<1>0. /\ cur = NoStream /\ at[s] = "new" /\ cur' = s /\ after' = [after EXCEPT ![s] = last]
      /\ at' = [at EXCEPT ![s] = "requested"]
      /\ UNCHANGED <<site, count, counter, ring, aged, inflight, lost, live, attached, newest>>
      /\ UNCHANGED <<last, got, first, queue, dropped, snap, sent>>
      /\ count \in Nat /\ NoStream \notin Streams
      /\ at \in [Streams -> {"new", "requested", "open", "replay", "live", "closed"}]
      /\ after \in [Streams -> Events]
  BY SsePushAssumption DEF Request, bufferVars, brokerVars, clientVars, PushTypes
<1>1. Ledger' /\ Accounted' = Accounted
  BY <1>0, CountRests DEF Accounted
<1>2. Seen' /\ Past' /\ Ahead'
  <2>1. at'[s] = "requested" /\ after'[s] = last /\ \A r \in Streams \ {s} : after'[r] = after[r]
    BY <1>0
  <2> QED BY <1>0, <1>1, <2>1 DEF ExactInv, Seen, Past, Ahead
<1>3. ASSUME NEW r \in Streams PROVE StreamInv(r)'
  <2>1. CASE r # s
    <3>1. StreamInv(r) /\ aged \subseteq aged' /\ at'[r] = at[r] /\ after'[r] = after[r]
      BY <1>0, <2>1 DEF ExactInv
    <3>2. r # cur'
      BY <1>0, <2>1
    <3> QED BY <1>0, <3>1, <3>2, StreamRests
  <2>2. CASE r = s
    <3>1. StreamInv(s) /\ at'[s] = "requested"
      BY <1>0 DEF ExactInv
    <3>2. Queued(s)'
      BY <1>0, <3>1 DEF StreamInv, Queued, Run
    <3>3. snap'[s] = <<>> /\ sent'[s] = <<>>
      BY <1>0, <3>1 DEF StreamInv, Snapped, Turned
    <3>4. Snapped(s)'
      BY <1>0, <3>1, <3>3 DEF Snapped, Run
    <3>5. Turned(s)'
      BY <1>0, <3>1, <3>3 DEF Turned, OneTurn
    <3> QED BY <2>2, <3>2, <3>4, <3>5 DEF StreamInv
  <2> QED BY <2>1, <2>2
<1> QED BY <1>1, <1>2, <1>3 DEF ExactInv

\* So does the start of its body.
LEMMA SubscribeKeeps ==
  ASSUME PushTypes, PushTypes', Connected, Exact, ExactInv, NEW s \in Streams, Subscribe(s)
  PROVE  ExactInv'
<1>0. /\ at[s] = "requested" /\ at' = [at EXCEPT ![s] = "open"] /\ attached' \subseteq attached \cup {s}
      /\ UNCHANGED <<site, count, counter, ring, aged, inflight, lost, cur, after>>
      /\ UNCHANGED <<last, got, first, queue, dropped, snap, sent>>
      /\ count \in Nat /\ cur = s
      /\ at \in [Streams -> {"new", "requested", "open", "replay", "live", "closed"}]
  BY DEF Subscribe, bufferVars, clientVars, PushTypes, Connected, Reading
<1>1. Ledger' /\ Accounted' = Accounted
  BY <1>0, CountRests DEF Accounted
<1>2. Seen' /\ Past' /\ Ahead'
  <2>1. at'[cur] = "open"
    BY <1>0
  <2> QED BY <1>0, <1>1, <2>1 DEF ExactInv, Seen, Past, Ahead
<1>3. ASSUME NEW r \in Streams PROVE StreamInv(r)'
  <2>1. CASE r # s
    <3>1. StreamInv(r) /\ aged \subseteq aged' /\ at'[r] = at[r] /\ (r \in attached' => r \in attached)
      BY <1>0, <2>1 DEF ExactInv
    <3> QED BY <1>0, <3>1, StreamRests
  <2>2. CASE r = s
    <3>1. StreamInv(s) /\ at'[s] = "open"
      BY <1>0 DEF ExactInv
    <3>2. queue'[s] = <<>> /\ snap'[s] = <<>> /\ sent'[s] = <<>>
      BY <1>0, <3>1 DEF StreamInv, Queued, Snapped, Turned
    <3>3. Queued(s)'
      <4>1. Run(queue'[s], count) /\ count + Len(queue'[s]) = count
        BY <1>0, <3>2 DEF Run
      <4> QED BY <1>0, <3>1, <4>1 DEF Queued
    <3>4. Snapped(s)'
      BY <1>0, <3>1, <3>2 DEF Snapped, Run
    <3>5. Turned(s)'
      BY <1>0, <3>1, <3>2 DEF Turned, OneTurn
    <3> QED BY <2>2, <3>3, <3>4, <3>5 DEF StreamInv
  <2> QED BY <2>1, <2>2
<1> QED BY <1>1, <1>2, <1>3 DEF ExactInv

\* A replay takes from the ring all that is later than what the client saw.
LEMMA StartReplayKeeps ==
  ASSUME PushTypes, PushTypes', Ascends, Connected, Exact, ExactInv,
         NEW s \in Streams, StartReplay(s)
  PROVE  ExactInv'
<1>0. /\ at[s] = "open" /\ at' = [at EXCEPT ![s] = "replay"]
      /\ snap' = [snap EXCEPT ![s] = Replayed(after[s].id)]
      /\ UNCHANGED <<site, count, counter, ring, aged, inflight, lost, live, attached, newest>>
      /\ UNCHANGED <<last, got, first, queue, dropped, cur, after, sent>>
      /\ count \in Nat /\ snap \in [Streams -> Seq(Events)]
      /\ at \in [Streams -> {"new", "requested", "open", "replay", "live", "closed"}]
      /\ after[s].id \in Nat /\ last.n \in Nat /\ first \in Nat
      /\ cur \in Streams \cup {NoStream} /\ NoStream \notin Streams
  BY SsePushAssumption DEF StartReplay, bufferVars, brokerVars, clientVars, PushTypes, Events
<1>1. Ledger' /\ Accounted' = Accounted
  BY <1>0, CountRests DEF Accounted
<1>2. Seen' /\ Past'
  BY <1>0, <1>1 DEF ExactInv, Seen, Past
<1> DEFINE base == count - Len(ring)
<1>3. /\ ring \in Seq(Events) /\ Len(ring) \in Nat /\ base \in Nat /\ base + Len(ring) = count
      /\ Run(ring, base) /\ 1..base \subseteq aged
  <2>1. ring \in Seq(Events)
    BY DEF PushTypes
  <2> QED BY <1>0, <2>1 DEF ExactInv, Ledger
<1> HIDE DEF base
<1>4. \/ after[s].id = 0 /\ snap'[s] = <<>>
      \/ /\ after[s].id # 0
         /\ \E k \in 0..Len(ring) :
              /\ \A i \in 1..Len(ring) : ring[i].id > after[s].id <=> i > k
              /\ snap'[s] \in Seq(Events) /\ Len(snap'[s]) = Len(ring) - k
              /\ Run(snap'[s], base + k)
  <2>1. CASE after[s].id = 0
    BY <1>0, <2>1 DEF Replayed
  <2>2. CASE after[s].id # 0
    <3>1. PICK k \in 0..Len(ring) :
            /\ \A i \in 1..Len(ring) : ring[i].id > after[s].id <=> i > k
            /\ Replayed(after[s].id) = SubSeq(ring, k + 1, Len(ring))
      BY <1>0, <2>2, ReplayedIs
    <3>2. /\ SubSeq(ring, k + 1, Len(ring)) \in Seq(Events)
          /\ Len(SubSeq(ring, k + 1, Len(ring))) = Len(ring) - k
          /\ Run(SubSeq(ring, k + 1, Len(ring)), base + k)
      BY <1>3, RunCut
    <3>3. snap'[s] = SubSeq(ring, k + 1, Len(ring))
      BY <1>0, <3>1
    <3> QED BY <2>2, <3>1, <3>2, <3>3
  <2> QED BY <2>1, <2>2
<1>5. ASSUME NEW k \in 0..Len(ring), \A i \in 1..Len(ring) : ring[i].id > after[s].id <=> i > k,
             s = cur, first # 0
      PROVE  /\ (last.n + 1)..(base + k) \subseteq aged
             /\ \A n \in (last.n + 1)..count : n \in aged \/ n \in (base + k + 1)..count
  <2>1. after[s].id = last.n
    BY <1>0, <1>5 DEF ExactInv, Seen, Connected, Reading, Open
  <2>2. \A i \in 1..Len(ring) : base + i > last.n <=> i > k
    BY <1>3, <1>5, <2>1 DEF Run
  <2>3. \A n \in (last.n + 1)..(base + k) : n <= base
    <3> SUFFICES ASSUME NEW n \in (last.n + 1)..(base + k), n > base PROVE FALSE
      BY <1>0, <1>3
    <3>1. n - base \in 1..Len(ring) /\ base + (n - base) = n /\ n - base <= k /\ n > last.n
      BY <1>0, <1>3
    <3> QED BY <1>3, <2>2, <3>1
  <2>4. \A n \in (last.n + 1)..(base + k) : n \in 1..base
    BY <1>0, <1>3, <2>3
  <2> QED BY <1>0, <1>3, <2>4, SMTT(60)
<1>6. Ahead'
  <2> SUFFICES ASSUME first # 0, cur # NoStream, at'[cur] \in {"replay", "live"},
                      NEW n \in (first + 1)..count
               PROVE  n \in Accounted \cup Numbers(snap'[cur]) \cup Numbers(queue[cur])
    <3>1. Numbers(snap[cur])' = Numbers(snap'[cur]) /\ Numbers(queue[cur])' = Numbers(queue[cur])
      BY <1>0 DEF Numbers
    <3> QED BY <1>0, <1>1, <3>1 DEF Ahead
  <2>1. CASE cur # s
    BY <1>0, <2>1 DEF ExactInv, Ahead
  <2>2. CASE cur = s /\ n <= last.n
    <3>1. n \in (first + 1)..last.n
      BY <1>0, <2>2
    <3> QED BY <3>1 DEF ExactInv, Past
  <2>3. CASE cur = s /\ n > last.n
    <3>1. after[s].id # 0
      <4>1. after[s] = last /\ last.id = last.n /\ last.n # 0
        BY <1>0, <2>3 DEF ExactInv, Seen, Connected, Reading, Open
      <4> QED BY <4>1
    <3>2. PICK k \in 0..Len(ring) :
              /\ \A i \in 1..Len(ring) : ring[i].id > after[s].id <=> i > k
              /\ snap'[s] \in Seq(Events) /\ Len(snap'[s]) = Len(ring) - k
              /\ Run(snap'[s], base + k)
      BY <1>4, <3>1
    <3>3. n \in (last.n + 1)..count
      BY <1>0, <2>3
    <3>4. n \in aged \/ n \in (base + k + 1)..count
      BY <1>5, <2>3, <3>2, <3>3
    <3>5. Numbers(snap'[s]) = (base + k + 1)..(base + k + Len(snap'[s]))
      <4>1. base + k \in Nat
        BY <1>3
      <4> QED BY <3>2, <4>1, RunNumbers
    <3>6. base + k + Len(snap'[s]) = count
      <4>1. k \in Int /\ Len(snap'[s]) = Len(ring) - k
        BY <3>2
      <4> QED BY <1>3, <4>1
    <3> QED BY <2>3, <3>4, <3>5, <3>6 DEF Accounted
  <2> QED BY <1>0, <2>1, <2>2, <2>3
<1>7. ASSUME NEW r \in Streams PROVE StreamInv(r)'
  <2>1. CASE r # s
    <3>1. StreamInv(r) /\ aged \subseteq aged' /\ at'[r] = at[r] /\ snap'[r] = snap[r]
      BY <1>0, <2>1 DEF ExactInv
    <3> QED BY <1>0, <3>1, StreamRests
  <2>2. CASE r = s
    <3>1. StreamInv(s) /\ at'[s] = "replay"
      BY <1>0 DEF ExactInv
    <3>2. Queued(s)'
      BY <1>0, <3>1 DEF StreamInv, Queued, Run
    <3>3. sent'[s] = <<>>
      BY <1>0, <3>1 DEF StreamInv, Turned
    <3>4. Turned(s)'
      BY <1>0, <3>1, <3>3 DEF Turned, OneTurn
    <3>5. Snapped(s)'
      <4>1. CASE after[s].id = 0
        <5>1. snap'[s] = <<>>
          BY <1>4, <4>1
        <5>2. Run(snap'[s], 0) /\ 0 + Len(snap'[s]) <= count'
          BY <1>0, <5>1 DEF Run
        <5> QED BY <5>1, <5>2 DEF Snapped, Run
      <4>2. CASE after[s].id # 0
        <5>1. PICK k \in 0..Len(ring) :
                /\ \A i \in 1..Len(ring) : ring[i].id > after[s].id <=> i > k
                /\ snap'[s] \in Seq(Events) /\ Len(snap'[s]) = Len(ring) - k
                /\ Run(snap'[s], base + k)
          BY <1>4, <4>2
        <5>2. base + k \in Nat /\ base + k + Len(snap'[s]) <= count'
          BY <1>0, <1>3, <5>1
        <5>3. s = cur /\ first # 0 => (last.n + 1)..(base + k) \subseteq aged
          BY <1>5, <5>1
        <5>4. /\ Run(snap'[s], base + k)
              /\ at'[s] = "replay" /\ s = cur' /\ first' # 0 /\ snap'[s] # <<>> =>
                   (last'.n + 1)..(base + k) \subseteq aged'
          BY <1>0, <5>1, <5>3
        <5> QED BY <1>0, <3>1, <4>2, <5>2, <5>4 DEF Snapped, Run
      <4> QED BY <4>1, <4>2
    <3> QED BY <2>2, <3>2, <3>4, <3>5 DEF StreamInv
  <2> QED BY <2>1, <2>2
<1> QED BY <1>1, <1>2, <1>6, <1>7 DEF ExactInv

\* The end of the replay, of a generator and of a connection.
LEMMA EndReplayKeeps ==
  ASSUME PushTypes, PushTypes', Connected, Exact, ExactInv, NEW s \in Streams, EndReplay(s)
  PROVE  ExactInv'
<1>0. /\ at[s] = "replay" /\ snap[s] = <<>> /\ at' = [at EXCEPT ![s] = "live"]
      /\ UNCHANGED <<site, count, counter, ring, aged, inflight, lost, live, attached, newest>>
      /\ UNCHANGED <<last, got, first, queue, dropped, snap, cur, after, sent>>
      /\ count \in Nat /\ sent[s] \in Seq(Nat)
      /\ cur \in Streams \cup {NoStream} /\ NoStream \notin Streams
      /\ at \in [Streams -> {"new", "requested", "open", "replay", "live", "closed"}]
  BY SsePushAssumption DEF EndReplay, bufferVars, brokerVars, clientVars, PushTypes
<1>1. Ledger' /\ Accounted' = Accounted
  BY <1>0, CountRests DEF Accounted
<1>2. Seen' /\ Past' /\ Ahead'
  <2>1. cur # NoStream /\ at'[cur] \in {"replay", "live"} => at[cur] \in {"replay", "live"}
    BY <1>0
  <2> QED BY <1>0, <1>1, <2>1 DEF ExactInv, Seen, Past, Ahead, Numbers
<1>3. ASSUME NEW r \in Streams PROVE StreamInv(r)'
  <2>1. CASE r # s
    <3>1. StreamInv(r) /\ aged \subseteq aged' /\ at'[r] = at[r]
      BY <1>0, <2>1 DEF ExactInv
    <3> QED BY <1>0, <3>1, StreamRests
  <2>2. CASE r = s
    <3>1. StreamInv(s) /\ at'[s] = "live"
      BY <1>0 DEF ExactInv
    <3>2. Queued(s)'
      BY <1>0, <3>1 DEF StreamInv, Queued, Run
    <3>3. Snapped(s)'
      BY <1>0, <3>1 DEF StreamInv, Snapped, Run
    <3>4. Turned(s)'
      <4> DEFINE z == sent[s]
      <4>1. \A i \in 1..(Len(z) - 1) : z[i] < z[i + 1]
        BY <1>0, <3>1 DEF StreamInv, Turned
      <4>2. \A i \in 1..(Len(z) - 1) : z[i] \in Nat /\ z[i + 1] \in Nat
        BY <1>0
      <4>3. OneTurn(z, Len(z))
        BY <4>1, <4>2 DEF OneTurn
      <4>4. Len(z) \in 0..Len(z) /\ ~(Len(z) < Len(z))
        BY <1>0
      <4>5. sent'[s] = z
        BY <1>0
      <4> HIDE DEF z
      <4> QED BY <3>1, <4>3, <4>4, <4>5 DEF Turned
    <3> QED BY <2>2, <3>2, <3>3, <3>4 DEF StreamInv
  <2> QED BY <2>1, <2>2
<1> QED BY <1>1, <1>2, <1>3 DEF ExactInv

\* A generator that ends keeps it all.
LEMMA CloseKeeps ==
  ASSUME PushTypes, PushTypes', Connected, Exact, ExactInv, NEW s \in Streams, Close(s)
  PROVE  ExactInv'
<1>0. /\ at[s] \in Open /\ at' = [at EXCEPT ![s] = "closed"] /\ attached' = attached \ {s}
      /\ snap' = [snap EXCEPT ![s] = <<>>] /\ cur' = IF cur = s THEN NoStream ELSE cur
      /\ UNCHANGED <<site, count, counter, ring, aged, inflight, lost, newest>>
      /\ UNCHANGED <<last, got, first, queue, dropped, after, sent>>
      /\ count \in Nat /\ snap \in [Streams -> Seq(Events)]
      /\ cur \in Streams \cup {NoStream} /\ NoStream \notin Streams
      /\ at \in [Streams -> {"new", "requested", "open", "replay", "live", "closed"}]
  BY SsePushAssumption DEF Close, Unsubscribe, Open, bufferVars, clientVars, PushTypes
<1>1. Ledger' /\ Accounted' = Accounted
  BY <1>0, CountRests DEF Accounted
<1>2. Seen' /\ Past' /\ Ahead'
  <2>1. cur' # NoStream => cur' = cur /\ at'[cur] = at[cur] /\ snap'[cur] = snap[cur]
    BY <1>0
  <2>2. Ahead'
    BY <1>0, <1>1, <2>1 DEF ExactInv, Ahead, Numbers
  <2> QED BY <1>0, <1>1, <2>2 DEF ExactInv, Seen, Past
<1>3. ASSUME NEW r \in Streams PROVE StreamInv(r)'
  <2>1. CASE r # s
    <3>1. StreamInv(r) /\ aged \subseteq aged' /\ at'[r] = at[r] /\ snap'[r] = snap[r]
      BY <1>0, <2>1 DEF ExactInv
    <3>2. (r = cur' => r = cur) /\ (r \in attached' => r \in attached)
      BY <1>0
    <3> QED BY <1>0, <3>1, <3>2, StreamRests
  <2>2. CASE r = s
    <3>1. StreamInv(s) /\ at'[s] = "closed" /\ snap'[s] = <<>>
      BY <1>0 DEF ExactInv
    <3>2. Queued(s)'
      BY <1>0, <3>1 DEF StreamInv, Queued, Run
    <3>3. Snapped(s)'
      <4>1. Run(snap'[s], 0) /\ 0 + Len(snap'[s]) <= count'
        BY <1>0, <3>1 DEF Run
      <4> QED BY <3>1, <4>1 DEF Snapped, Run
    <3>4. Turned(s)'
      BY <1>0, <3>1 DEF StreamInv, Turned, OneTurn
    <3> QED BY <2>2, <3>2, <3>3, <3>4 DEF StreamInv
  <2> QED BY <2>1, <2>2
<1> QED BY <1>1, <1>2, <1>3 DEF ExactInv

\* So does a connection that breaks.
LEMMA DisconnectKeeps ==
  ASSUME PushTypes, PushTypes', Connected, Exact, ExactInv, Disconnect
  PROVE  ExactInv'
<1>0. /\ cur # NoStream /\ cur' = NoStream /\ cur \in Streams
      /\ at' = [at EXCEPT ![cur] = IF at[cur] = "requested" THEN "closed" ELSE at[cur]]
      /\ UNCHANGED <<site, count, counter, ring, aged, inflight, lost, live, attached, newest>>
      /\ UNCHANGED <<last, got, first, queue, dropped, snap, after, sent>>
      /\ count \in Nat /\ NoStream \notin Streams
      /\ at \in [Streams -> {"new", "requested", "open", "replay", "live", "closed"}]
  BY SsePushAssumption DEF Disconnect, bufferVars, brokerVars, clientVars, PushTypes
<1>1. Ledger' /\ Accounted' = Accounted
  BY <1>0, CountRests DEF Accounted
<1>2. Seen' /\ Past' /\ Ahead'
  BY <1>0, <1>1 DEF ExactInv, Seen, Past, Ahead
<1>3. ASSUME NEW r \in Streams PROVE StreamInv(r)'
  <2>0. StreamInv(r) /\ aged \subseteq aged' /\ r # cur'
    BY <1>0 DEF ExactInv
  <2>1. CASE at'[r] = at[r]
    BY <1>0, <2>0, <2>1, StreamRests
  <2>2. CASE at'[r] # at[r]
    <3>1. at[r] = "requested" /\ at'[r] = "closed"
      BY <1>0, <2>2
    <3>2. Queued(r)'
      BY <1>0, <2>0, <3>1 DEF StreamInv, Queued, Run
    <3>3. Snapped(r)'
      BY <1>0, <2>0, <3>1 DEF StreamInv, Snapped, Run
    <3>4. Turned(r)'
      BY <1>0, <2>0, <3>1 DEF StreamInv, Turned, OneTurn
    <3> QED BY <3>2, <3>3, <3>4 DEF StreamInv
  <2> QED BY <2>1, <2>2
<1> QED BY <1>1, <1>2, <1>3 DEF ExactInv

\* What a generator writes last is later than what it wrote before, or its one step back.
LEMMA WrittenTurn ==
  ASSUME NEW z \in Seq(Nat), NEW x \in Nat, NEW b \in 0..Len(z), OneTurn(z, b),
         b < Len(z) => z[Len(z)] < x
  PROVE  /\ Append(z, x) \in Seq(Nat) /\ Len(Append(z, x)) = Len(z) + 1
         /\ Append(z, x)[Len(z) + 1] = x /\ OneTurn(Append(z, x), b)
<1> DEFINE y == Append(z, x)
<1>1. /\ y \in Seq(Nat) /\ Len(y) = Len(z) + 1 /\ y[Len(z) + 1] = x
      /\ \A i \in 1..Len(z) : y[i] = z[i]
  OBVIOUS
<1>2. ASSUME NEW i \in 1..(Len(y) - 1), y[i] >= y[i + 1] PROVE i = b
  <2>1. CASE i < Len(z)
    <3>1. i \in 1..(Len(z) - 1) /\ i + 1 \in 1..Len(z) /\ i \in 1..Len(z)
      BY <1>1, <2>1
    <3>2. z[i] >= z[i + 1]
      BY <1>1, <1>2, <3>1
    <3> QED BY <3>1, <3>2 DEF OneTurn
  <2>2. CASE ~(i < Len(z))
    <3>1. i = Len(z) /\ i \in 1..Len(z)
      BY <1>1, <2>2
    <3>2. z[Len(z)] >= x /\ z[Len(z)] \in Nat
      BY <1>1, <1>2, <3>1
    <3>3. ~(b < Len(z))
      BY <3>2
    <3> QED BY <3>1, <3>3
  <2> QED BY <2>1, <2>2
<1> QED BY <1>1, <1>2 DEF OneTurn

\* What a frame does to the client and to the account of what was written.
LEMMA WriteIs ==
  ASSUME PushTypes, NEW s \in Streams, NEW e \in Events, Write(s, e)
  PROVE  /\ sent' = [sent EXCEPT ![s] = Append(sent[s], e.id)] /\ site' = site
         /\ s = cur => /\ last' = e /\ got' = got \cup {e.n}
                       /\ first' = IF first = 0 THEN e.n ELSE first
         /\ s # cur => UNCHANGED <<last, got, first>>
         /\ got \subseteq got'
BY DEF Write, clientVars

\* A replayed frame keeps it all.
LEMMA SendReplayKeeps ==
  ASSUME PushTypes, PushTypes', Connected, Exact, ExactInv, NEW s \in Streams, SendReplay(s)
  PROVE  ExactInv'
<1> DEFINE e == Head(snap[s])
<1>0. /\ at[s] = "replay" /\ snap[s] # <<>> /\ snap' = [snap EXCEPT ![s] = Tail(snap[s])]
      /\ UNCHANGED <<count, counter, ring, aged, inflight, lost, live, attached, newest>>
      /\ UNCHANGED <<queue, dropped, at, cur, after>>
      /\ count \in Nat /\ sent[s] \in Seq(Nat) /\ sent \in [Streams -> Seq(Nat)]
      /\ snap[s] \in Seq(Events) /\ snap \in [Streams -> Seq(Events)]
      /\ cur \in Streams \cup {NoStream} /\ NoStream \notin Streams
      /\ first \in Nat /\ last.n \in Nat /\ Write(s, e) /\ StreamInv(s)
  BY SsePushAssumption DEF SendReplay, bufferVars, brokerVars, PushTypes, Events, ExactInv
<1>1. PICK k \in Nat :
        /\ Run(snap[s], k) /\ k + Len(snap[s]) <= count
        /\ at[s] = "replay" /\ s = cur /\ first # 0 /\ snap[s] # <<>> => (last.n + 1)..k \subseteq aged
  BY <1>0 DEF StreamInv, Snapped
<1>2. /\ Tail(snap[s]) \in Seq(Events) /\ Len(Tail(snap[s])) = Len(snap[s]) - 1
      /\ Len(snap[s]) \in Nat \ {0} /\ Run(Tail(snap[s]), k + 1)
      /\ e = snap[s][1] /\ e \in Events /\ e.n = k + 1 /\ e.id = k + 1
  BY <1>0, <1>1, RunTail
<1> HIDE DEF e
<1>3. /\ sent' = [sent EXCEPT ![s] = Append(sent[s], e.id)]
      /\ s = cur => /\ last' = e /\ got' = got \cup {e.n}
                    /\ first' = IF first = 0 THEN e.n ELSE first
      /\ s # cur => UNCHANGED <<last, got, first>>
      /\ got \subseteq got'
  BY <1>0, <1>2, WriteIs
<1>4. s = cur => first # 0 /\ first' = first
  <2>1. after[s].id # 0
    BY <1>0 DEF StreamInv, Snapped
  <2> QED BY <1>3, <2>1 DEF ExactInv, Seen
<1>5. Ledger' /\ Accounted \subseteq Accounted' /\ (s = cur => k + 1 \in Accounted')
  <2>1. s = cur => k + 1 \in got'
    BY <1>2, <1>3
  <2> QED BY <1>0, <1>3, <2>1, CountRests DEF Accounted
<1>6. Seen'
  BY <1>0, <1>1, <1>2, <1>3, <1>4 DEF ExactInv, Seen
<1>7. Past'
  <2>1. CASE s # cur
    BY <1>3, <1>5, <2>1 DEF ExactInv, Past
  <2>2. CASE s = cur
    <3> SUFFICES ASSUME NEW n \in (first + 1)..(k + 1) PROVE n \in Accounted'
      BY <1>2, <1>3, <1>4, <2>2 DEF Past
    <3>1. CASE n <= last.n
      <4>1. n \in (first + 1)..last.n
        BY <1>0, <3>1
      <4> QED BY <1>4, <1>5, <2>2, <4>1 DEF ExactInv, Past
    <3>2. CASE n > last.n /\ n <= k
      <4>1. n \in (last.n + 1)..k
        BY <1>0, <3>2
      <4> QED BY <1>0, <1>1, <1>4, <1>5, <2>2, <4>1 DEF Accounted
    <3>3. CASE n = k + 1
      BY <1>5, <2>2, <3>3
    <3> QED BY <1>0, <3>1, <3>2, <3>3
  <2> QED BY <2>1, <2>2
<1>8. Ahead'
  <2>1. CASE s # cur
    <3>1. cur # NoStream => snap'[cur] = snap[cur]
      BY <1>0, <2>1
    <3> QED BY <1>0, <1>3, <1>5, <2>1, <3>1 DEF ExactInv, Ahead, Numbers
  <2>2. CASE s = cur
    <3>1. Numbers(snap[s]) = (k + 1)..(k + Len(snap[s]))
      BY <1>0, <1>1, RunNumbers
    <3>2. Numbers(Tail(snap[s])) = (k + 1 + 1)..(k + 1 + Len(Tail(snap[s])))
      <4> DEFINE q == Tail(snap[s])
                 l == k + 1
      <4>1. q \in Seq(Events) /\ l \in Nat /\ Run(q, l)
        BY <1>2
      <4> HIDE DEF q, l
      <4>2. Numbers(q) = (l + 1)..(l + Len(q))
        BY <4>1, RunNumbers
      <4> QED BY <4>2 DEF q, l
    <3>3. Numbers(snap[s]) \subseteq {k + 1} \cup Numbers(Tail(snap[s]))
      <4>1. k + 1 + Len(Tail(snap[s])) = k + Len(snap[s])
        <5> DEFINE m == Len(snap[s])
                   r == Len(Tail(snap[s]))
        <5>1. m \in Nat \ {0} /\ r = m - 1 /\ k \in Nat
          BY <1>1, <1>2
        <5> HIDE DEF m, r
        <5>2. k + 1 + r = k + m
          BY <5>1
        <5> QED BY <5>2 DEF m, r
      <4>2. Numbers(Tail(snap[s])) = (k + 1 + 1)..(k + Len(snap[s]))
        BY <3>2, <4>1
      <4> QED BY <1>1, <1>2, <3>1, <4>2
    <3>4. Numbers(snap[cur])' = Numbers(Tail(snap[s])) /\ Numbers(queue[cur])' = Numbers(queue[cur])
      BY <1>0, <2>2 DEF Numbers
    <3>5. (first + 1)..count \subseteq Accounted \cup Numbers(snap[cur]) \cup Numbers(queue[cur])
      BY <1>0, <1>4, <2>2 DEF ExactInv, Ahead
    <3>6. (first + 1)..count \subseteq
            Accounted' \cup Numbers(snap[cur])' \cup Numbers(queue[cur])'
      BY <1>5, <2>2, <3>3, <3>4, <3>5
    <3> QED BY <1>0, <1>4, <2>2, <3>6 DEF Ahead
  <2> QED BY <2>1, <2>2
<1>9. ASSUME NEW r \in Streams PROVE StreamInv(r)'
  <2>1. CASE r # s
    <3>1. StreamInv(r) /\ aged \subseteq aged' /\ snap'[r] = snap[r] /\ sent'[r] = sent[r]
      BY <1>0, <1>3, <2>1 DEF ExactInv
    <3>2. r = cur' => r = cur /\ first' = first /\ last' = last
      BY <1>0, <1>3, <2>1
    <3> QED BY <1>0, <3>1, <3>2, StreamRests
  <2>2. CASE r = s
    <3>1. snap'[s] = Tail(snap[s]) /\ sent'[s] = Append(sent[s], k + 1) /\ at'[s] = "replay"
      BY <1>0, <1>2, <1>3
    <3>2. Queued(s)'
      BY <1>0, <3>1 DEF StreamInv, Queued, Run
    <3>3. Snapped(s)'
      <4>1. Run(snap'[s], k + 1) /\ k + 1 + Len(snap'[s]) <= count' /\ k + 1 \in Nat
        BY <1>0, <1>1, <1>2, <3>1
      <4>2. s = cur' => (last'.n + 1)..(k + 1) \subseteq aged'
        <5>1. s = cur' => last'.n = k + 1
          BY <1>0, <1>2, <1>3
        <5> QED BY <1>0, <5>1
      <4>3. after'[s].id # 0
        BY <1>0 DEF StreamInv, Snapped
      <4> QED BY <3>1, <4>1, <4>2, <4>3 DEF Snapped, Run
    <3>4. Turned(s)'
      <4> DEFINE z == sent[s]
                 y == Append(z, k + 1)
      <4>1. /\ \A i \in 1..(Len(z) - 1) : z[i] < z[i + 1]
            /\ z # <<>> => z[Len(z)] < k + 1
        BY <1>0, <1>2 DEF StreamInv, Turned
      <4>2. /\ y \in Seq(Nat) /\ Len(y) = Len(z) + 1 /\ y[Len(z) + 1] = k + 1
            /\ \A i \in 1..Len(z) : y[i] = z[i] /\ y[i] \in Nat
            /\ Len(z) \in Nat /\ z \in Seq(Nat)
        BY <1>0, SMTT(60)
      <4> HIDE DEF z, y
      <4>3. \A i \in 1..(Len(y) - 1) : y[i] < y[i + 1]
        <5> SUFFICES ASSUME NEW i \in 1..(Len(y) - 1) PROVE y[i] < y[i + 1]
          OBVIOUS
        <5>1. CASE i = Len(z)
          <6>1. z # <<>> /\ i \in 1..Len(z)
            BY <4>2, <5>1
          <6> QED BY <4>1, <4>2, <5>1, <6>1
        <5>2. CASE i # Len(z)
          <6>1. i \in 1..(Len(z) - 1) /\ i \in 1..Len(z) /\ i + 1 \in 1..Len(z)
            BY <4>2, <5>2
          <6> QED BY <4>1, <4>2, <6>1
        <5> QED BY <5>1, <5>2
      <4>4. OneTurn(y, 0) /\ 0 \in 0..Len(y)
        <5>1. \A i \in 1..(Len(y) - 1) : y[i] \in Nat /\ y[i + 1] \in Nat
          BY <4>2
        <5> QED BY <4>2, <4>3, <5>1 DEF OneTurn
      <4>5. snap'[s] # <<>> => snap'[s][1].id = k + 2
        <5>1. Run(snap'[s], k + 1) /\ snap'[s] \in Seq(Events)
          BY <1>2, <3>1
        <5> QED BY <1>1, <5>1 DEF Run
      <4>6. sent'[s] = y /\ y[Len(y)] = k + 1
        BY <3>1, <4>2 DEF y, z
      <4>7. \A i \in 1..(Len(sent'[s]) - 1) : sent'[s][i] < sent'[s][i + 1]
        BY <4>3, <4>6
      <4>8. snap'[s] # <<>> => sent'[s][Len(sent'[s])] < snap'[s][1].id
        BY <1>1, <4>5, <4>6
      <4>9. OneTurn(sent'[s], 0) /\ 0 \in 0..Len(sent'[s])
        BY <4>4, <4>6
      <4> QED BY <3>1, <4>7, <4>8, <4>9 DEF Turned
    <3> QED BY <2>2, <3>2, <3>3, <3>4 DEF StreamInv
  <2> QED BY <2>1, <2>2
<1> QED BY <1>5, <1>6, <1>7, <1>8, <1>9 DEF ExactInv

\* A live frame keeps it all.
LEMMA SendLiveKeeps ==
  ASSUME PushTypes, PushTypes', Connected, Exact, ExactInv, NEW s \in Streams, SendLive(s)
  PROVE  ExactInv'
<1> DEFINE e == Head(queue[s])
<1>0. /\ at[s] = "live" /\ queue[s] # <<>> /\ queue' = [queue EXCEPT ![s] = Tail(queue[s])]
      /\ UNCHANGED <<count, counter, ring, aged, inflight, lost, live, attached, newest>>
      /\ UNCHANGED <<snap, dropped, at, cur, after>>
      /\ count \in Nat /\ sent[s] \in Seq(Nat) /\ sent \in [Streams -> Seq(Nat)]
      /\ queue[s] \in Seq(Events) /\ queue \in [Streams -> Seq(Events)]
      /\ cur \in Streams \cup {NoStream} /\ NoStream \notin Streams
      /\ first \in Nat /\ last.n \in Nat /\ Write(s, e) /\ StreamInv(s)
  BY SsePushAssumption DEF SendLive, bufferVars, brokerVars, PushTypes, Events, ExactInv
<1>1. PICK k \in Nat :
        /\ Run(queue[s], k) /\ k + Len(queue[s]) <= count
        /\ s \in attached => k + Len(queue[s]) = count
  BY <1>0 DEF StreamInv, Queued
<1>2. /\ Tail(queue[s]) \in Seq(Events) /\ Len(Tail(queue[s])) = Len(queue[s]) - 1
      /\ Len(queue[s]) \in Nat \ {0} /\ Run(Tail(queue[s]), k + 1)
      /\ e = queue[s][1] /\ e \in Events /\ e.n = k + 1 /\ e.id = k + 1
  BY <1>0, <1>1, RunTail
<1> HIDE DEF e
<1>3. /\ sent' = [sent EXCEPT ![s] = Append(sent[s], e.id)]
      /\ s = cur => /\ last' = e /\ got' = got \cup {e.n}
                    /\ first' = IF first = 0 THEN e.n ELSE first
      /\ s # cur => UNCHANGED <<last, got, first>>
      /\ got \subseteq got'
  BY <1>0, <1>2, WriteIs
<1>4. /\ snap[s] = <<>> /\ (s = cur => s \in attached)
  BY <1>0 DEF StreamInv, Snapped, Connected, Reading, Exact, Open
<1>5. Ledger' /\ Accounted \subseteq Accounted' /\ (s = cur => k + 1 \in Accounted')
  <2>1. s = cur => k + 1 \in got'
    BY <1>2, <1>3
  <2> QED BY <1>0, <1>3, <2>1, CountRests DEF Accounted
<1>6. /\ Numbers(queue[s]) = (k + 1)..(k + Len(queue[s]))
      /\ Numbers(Tail(queue[s])) = (k + 1 + 1)..(k + Len(queue[s]))
  <2> DEFINE q == Tail(queue[s])
             l == k + 1
  <2>1. q \in Seq(Events) /\ l \in Nat /\ Run(q, l)
    BY <1>2
  <2> HIDE DEF q, l
  <2>2. Numbers(q) = (l + 1)..(l + Len(q))
    BY <2>1, RunNumbers
  <2>3. l + Len(q) = k + Len(queue[s])
    <3> DEFINE m == Len(queue[s])
               r == Len(q)
    <3>1. m \in Nat \ {0} /\ r = m - 1 /\ k \in Nat /\ l = k + 1
      BY <1>1, <1>2 DEF q, l
    <3> HIDE DEF m, r
    <3>2. l + r = k + m
      BY <3>1
    <3> QED BY <3>2 DEF m, r
  <2> QED BY <1>0, <1>1, <2>2, <2>3, RunNumbers DEF q, l
<1>7. Seen'
  BY <1>0, <1>1, <1>2, <1>3, SMTT(60) DEF ExactInv, Seen
<1>8. s = cur /\ first # 0 =>
        \A n \in (first + 1)..count : n \in Accounted \/ n \in Numbers(queue[s])
  <2>1. Numbers(snap[s]) = {}
    BY <1>4 DEF Numbers, Range
  <2> QED BY <1>0, <2>1 DEF ExactInv, Ahead
<1>9. Past'
  <2>1. CASE s # cur
    BY <1>3, <1>5, <2>1 DEF ExactInv, Past
  <2>2. CASE s = cur
    <3> SUFFICES ASSUME NEW n \in (first' + 1)..(k + 1) PROVE n \in Accounted'
      BY <1>2, <1>3, <2>2 DEF Past
    <3>1. CASE n = k + 1
      BY <1>5, <2>2, <3>1
    <3>2. CASE n # k + 1
      <4>1. first # 0 /\ first' = first
        BY <1>0, <1>1, <1>2, <1>3, <2>2, <3>2
      <4>2. n \in (first + 1)..count /\ n < k + 1
        BY <1>0, <1>1, <1>2, <3>2, <4>1
      <4>3. n \notin Numbers(queue[s])
        BY <1>1, <1>6, <4>2
      <4> QED BY <1>5, <1>8, <2>2, <4>1, <4>2, <4>3
    <3> QED BY <3>1, <3>2
  <2> QED BY <2>1, <2>2
<1>10. Ahead'
  <2>1. CASE s # cur
    <3>1. cur # NoStream => queue'[cur] = queue[cur]
      BY <1>0, <2>1
    <3> QED BY <1>0, <1>3, <1>5, <2>1, <3>1 DEF ExactInv, Ahead, Numbers
  <2>2. CASE s = cur
    <3> SUFFICES ASSUME NEW n \in (first' + 1)..count
                 PROVE  n \in Accounted' \cup Numbers(queue[cur])'
      BY <1>0, <2>2 DEF Ahead
    <3>1. Numbers(queue[cur])' = Numbers(Tail(queue[s]))
      BY <1>0, <2>2 DEF Numbers
    <3>2. k + Len(queue[s]) = count
      BY <1>1, <1>4, <2>2
    <3>3. CASE n > k + 1
      BY <1>0, <1>1, <1>6, <3>1, <3>2, <3>3
    <3>4. CASE n = k + 1
      BY <1>5, <2>2, <3>4
    <3>5. CASE n < k + 1
      <4>1. first # 0 /\ first' = first
        BY <1>0, <1>1, <1>2, <1>3, <2>2, <3>5
      <4>2. n \in (first + 1)..count /\ n \notin Numbers(queue[s])
        BY <1>1, <1>6, <3>5, <4>1
      <4> QED BY <1>5, <1>8, <2>2, <4>1, <4>2
    <3> QED BY <1>0, <1>1, <1>3, <2>2, <3>3, <3>4, <3>5
  <2> QED BY <2>1, <2>2
<1>11. ASSUME NEW r \in Streams PROVE StreamInv(r)'
  <2>1. CASE r # s
    <3>1. StreamInv(r) /\ aged \subseteq aged' /\ queue'[r] = queue[r] /\ sent'[r] = sent[r]
      BY <1>0, <1>3, <2>1 DEF ExactInv
    <3>2. r = cur' => r = cur /\ first' = first /\ last' = last
      BY <1>0, <1>3, <2>1
    <3> QED BY <1>0, <3>1, <3>2, StreamRests
  <2>2. CASE r = s
    <3>1. queue'[s] = Tail(queue[s]) /\ sent'[s] = Append(sent[s], k + 1) /\ at'[s] = "live"
      BY <1>0, <1>2, <1>3
    <3>2. Queued(s)'
      <4>1. Run(queue'[s], k + 1) /\ k + 1 + Len(queue'[s]) = k + Len(queue[s]) /\ k + 1 \in Nat
        <5>1. Run(queue'[s], k + 1)
          BY <1>2, <3>1
        <5>2. Len(queue'[s]) = Len(queue[s]) - 1 /\ Len(queue[s]) \in Nat
          BY <1>2, <3>1
        <5> QED BY <1>1, <5>1, <5>2
      <4> QED BY <1>0, <1>1, <3>1, <4>1 DEF Queued
    <3>3. Snapped(s)'
      BY <1>0, <1>4, <3>1 DEF StreamInv, Snapped, Run
    <3>4. Turned(s)'
      <4> DEFINE z == sent[s]
                 y == Append(z, k + 1)
      <4>1. PICK b \in 0..Len(z) :
              /\ OneTurn(z, b)
              /\ b < Len(z) => z[Len(z)] < k + 1
        BY <1>0, <1>2 DEF StreamInv, Turned
      <4>2. z \in Seq(Nat) /\ k + 1 \in Nat
        BY <1>0
      <4>3. /\ y \in Seq(Nat) /\ Len(y) = Len(z) + 1 /\ y[Len(z) + 1] = k + 1 /\ OneTurn(y, b)
        <5> HIDE DEF z
        <5> QED BY <4>1, <4>2, WrittenTurn
      <4>4. Len(z) \in Nat /\ k + 1 <= count'
        BY <1>0, <1>1, <1>2
      <4>5. sent'[s] = y
        BY <3>1
      <4> HIDE DEF z, y
      <4>6. b \in 0..Len(y) /\ y[Len(y)] = k + 1
        BY <4>1, <4>3, <4>4
      <4>7. queue'[s] # <<>> => queue'[s][1].id = k + 2
        <5>1. Run(queue'[s], k + 1) /\ queue'[s] \in Seq(Events)
          BY <1>2, <3>1
        <5> QED BY <1>1, <5>1 DEF Run
      <4>8. sent'[s][Len(sent'[s])] <= count'
        BY <4>4, <4>5, <4>6
      <4>9. queue'[s] # <<>> => sent'[s][Len(sent'[s])] < queue'[s][1].id
        BY <1>1, <4>5, <4>6, <4>7
      <4>10. OneTurn(sent'[s], b) /\ b \in 0..Len(sent'[s])
        BY <4>3, <4>5, <4>6
      <4> QED BY <3>1, <4>8, <4>9, <4>10 DEF Turned
    <3> QED BY <2>2, <3>2, <3>3, <3>4 DEF StreamInv
  <2> QED BY <2>1, <2>2
<1> QED BY <1>5, <1>7, <1>9, <1>10, <1>11 DEF ExactInv

-----------------------------------------------------------------------------
(* The push channel: the theorems.                                         *)

\* The invariant at the start.
LEMMA PushInvHoldsInitially == Init => PushInv
<1> SUFFICES ASSUME Init PROVE PushInv
  OBVIOUS
<1>0. /\ count = 0 /\ counter = 0 /\ ring = <<>> /\ inflight = {}
      /\ live = [h \in Hosts |-> NoStream] /\ newest = live /\ attached = {}
      /\ cur = NoStream /\ last = NoEvent /\ first = 0
      /\ \A s \in Streams : /\ queue[s] = <<>> /\ snap[s] = <<>> /\ sent[s] = <<>>
                            /\ at[s] = "new" /\ after[s] = NoEvent
      /\ NoEvent.id = 0
  BY DEF Init, NoEvent
<1>1. PushTypes
  BY PushTypesHoldInitially
<1>2. Ascends
  BY <1>0 DEF Ascends
<1>3. Connected
  BY <1>0 DEF Connected, RegisteredIsNewest, Newest, HeardOnlyRegistered, Reading
<1>4. Ledger /\ Seen /\ Past /\ Ahead
  BY <1>0 DEF Ledger, Run, Seen, Past, Ahead
<1>5. ASSUME NEW s \in Streams PROVE StreamInv(s)
  <2>1. Run(<<>>, 0) /\ 0 + Len(<<>>) <= 0 /\ 0 + Len(<<>>) = 0
    BY DEF Run
  <2>2. Queued(s)
    BY <1>0, <2>1 DEF Queued
  <2>3. Snapped(s)
    BY <1>0, <2>1 DEF Snapped
  <2>4. OneTurn(<<>>, 0)
    BY DEF OneTurn
  <2>5. Turned(s)
    BY <1>0, <2>4 DEF Turned
  <2> QED BY <2>2, <2>3, <2>5 DEF StreamInv
<1> QED BY <1>1, <1>2, <1>3, <1>4, <1>5 DEF PushInv, ExactInv

\* Where every event keeps its number, a step keeps account of each.
LEMMA ExactKept ==
  ASSUME PushTypes, PushTypes', Ascends, Connected, Exact, ExactInv, [Next]_vars
  PROVE  ExactInv'
<1>0. ~site.remote /\ inflight = {} /\ site.forget = 0 /\ lost \in Nat
  BY DEF Exact, ExactInv, Ledger, PushTypes
<1>1. CASE Notify
  BY <1>1, NotifyKeeps
<1>2. CASE Disconnect
  BY <1>2, DisconnectKeeps
<1>3. ASSUME NEW s \in Streams, Request(s) PROVE ExactInv'
  BY <1>3, RequestKeeps
<1>4. ASSUME NEW s \in Streams, Subscribe(s) PROVE ExactInv'
  BY <1>4, SubscribeKeeps
<1>5. ASSUME NEW s \in Streams, StartReplay(s) PROVE ExactInv'
  BY <1>5, StartReplayKeeps
<1>6. ASSUME NEW s \in Streams, SendReplay(s) PROVE ExactInv'
  BY <1>6, SendReplayKeeps
<1>7. ASSUME NEW s \in Streams, EndReplay(s) PROVE ExactInv'
  BY <1>7, EndReplayKeeps
<1>8. ASSUME NEW s \in Streams, SendLive(s) PROVE ExactInv'
  BY <1>8, SendLiveKeeps
<1>9. ASSUME NEW s \in Streams, Close(s) PROVE ExactInv'
  BY <1>9, CloseKeeps
<1>10. ~NotifyRecord /\ ~NotifyPublish /\ ~Forget /\ \A s \in Streams : ~Attach(s)
  BY <1>0 DEF NotifyRecord, NotifyPublish, Forget, Attach
<1>11. CASE UNCHANGED vars
  <2>1. /\ UNCHANGED <<count, counter, ring, aged, inflight, first, last, got, cur, dropped>>
        /\ UNCHANGED <<queue, snap, sent, after, at, attached>>
    BY <1>11 DEF vars, bufferVars, brokerVars, clientVars
  <2>2. Ledger' /\ Accounted' = Accounted
    BY <2>1, LedgerRests DEF ExactInv, Accounted
  <2>3. Seen' /\ Past' /\ Ahead'
    BY <2>1, <2>2 DEF ExactInv, Seen, Past, Ahead, Numbers
  <2>4. ASSUME NEW s \in Streams PROVE StreamInv(s)'
    BY <2>1, StreamRests DEF ExactInv
  <2> QED BY <2>2, <2>3, <2>4 DEF ExactInv
<1> QED BY <1>1, <1>2, <1>3, <1>4, <1>5, <1>6, <1>7, <1>8, <1>9, <1>10, <1>11 DEF Next, Generator

\* Every step of the channel keeps the invariant.
LEMMA PushInvKept == PushInv /\ [Next]_vars => PushInv'
<1> SUFFICES ASSUME PushInv, [Next]_vars PROVE PushInv'
  OBVIOUS
<1>1. PushTypes' /\ Ascends' /\ Connected'
  BY PushTypesKept, AscendsKept, ConnectedKept DEF PushInv
<1>2. site' = site
  BY DEF Next, Generator, Notify, NotifyRecord, NotifyPublish, Forget, Disconnect, Request,
         Subscribe, Attach, StartReplay, SendReplay, EndReplay, SendLive, Write, Close, vars
<1>3. Exact' => ExactInv'
  BY <1>1, <1>2, ExactKept DEF PushInv, Exact
<1> QED BY <1>1, <1>3 DEF PushInv

\* Every deployment keeps the shape, the order of the ring and who is connected; one that
\* keeps its numbers keeps account of every event.
THEOREM ChannelHolds == Spec => []PushInv
<1>1. Init => PushInv
  BY PushInvHoldsInitially
<1>2. PushInv /\ [Next]_vars => PushInv'
  BY PushInvKept
<1> QED BY <1>1, <1>2, PTL DEF Spec

\* On every worker of every deployment the newest stream, and no other, is registered and
\* hears what is published: however many connections, replacements and late shutdowns.
THEOREM NewestIsHeard == Spec => []OnlyNewestHears
<1>1. PushInv => OnlyNewestHears
  BY DEF PushInv, Connected, OnlyNewestHears
<1> QED BY <1>1, ChannelHolds, PTL

\* What is in the ring and later than an event is what a reconnect with its id replays.
LEMMA ReplayableIs ==
  ASSUME PushTypes, Ledger, NEW n \in Nat, n # 0
  PROVE  (n + 1)..count \subseteq aged \cup Replayable(n)
<1>1. /\ ring \in Seq(Events) /\ count \in Nat /\ Len(ring) \in Nat
      /\ Run(ring, count - Len(ring)) /\ Len(ring) <= count
      /\ 1..(count - Len(ring)) \subseteq aged
  BY DEF PushTypes, Ledger
<1> SUFFICES ASSUME NEW m \in (n + 1)..count, m \notin aged PROVE m \in Replayable(n)
  OBVIOUS
<1>2. m \in Nat /\ m > n /\ m - (count - Len(ring)) \in 1..Len(ring)
  <2> DEFINE l == Len(ring)
  <2>1. l \in Nat /\ l <= count /\ m \notin 1..(count - l)
    BY <1>1
  <2> HIDE DEF l
  <2>2. m \in Nat /\ m > n /\ m - (count - l) \in 1..l
    BY <1>1, <2>1
  <2> QED BY <2>2 DEF l
<1> DEFINE i == m - (count - Len(ring))
<1>3. ring[i].n = m /\ ring[i].id = m /\ ring[i] \in Range(ring)
  <2>1. i \in 1..Len(ring) /\ (count - Len(ring)) + i = m
    BY <1>1, <1>2
  <2>2. ring[i].n = (count - Len(ring)) + i /\ ring[i].id = (count - Len(ring)) + i
    BY <1>1, <2>1 DEF Run
  <2> QED BY <1>1, <2>1, <2>2 DEF Range
<1> HIDE DEF i
<1> QED BY <1>2, <1>3 DEF Replayable

\* On one process whose buffer loses no session, no event falls between a connection and
\* the next: once the client has an id, each later event reached it, or still can, or was
\* given up, whatever the sizes of ring and queue and however often it reconnects.
THEOREM NothingFallsBetween == Spec => []GaplessOnceStarted
<1>1. ASSUME PushInv, Exact, first # 0 PROVE (first + 1)..count \subseteq Accounted \cup Coming
  <2>0. /\ PushTypes /\ Ledger /\ Reading /\ count \in Nat /\ first \in Nat
        /\ last.id = last.n /\ last.n # 0 /\ last.n <= count /\ last.n \in Nat
        /\ (first + 1)..last.n \subseteq Accounted
        /\ cur # NoStream => at[cur] \in {"requested", "open", "replay", "live"}
    BY <1>1 DEF PushInv, PushTypes, Events, ExactInv, Seen, Past, Connected, Reading, Open
  <2>1. (last.n + 1)..count \subseteq Accounted \cup Replayable(last.id)
    BY <2>0, ReplayableIs DEF Accounted
  <2>2. (first + 1)..count \subseteq Accounted \cup Replayable(last.id)
    <3> SUFFICES ASSUME NEW n \in (first + 1)..count PROVE n \in Accounted \cup Replayable(last.id)
      OBVIOUS
    <3>1. n \in (first + 1)..last.n \/ n \in (last.n + 1)..count
      BY <2>0
    <3> QED BY <2>0, <2>1, <3>1
  <2>3. CASE cur = NoStream
    BY <2>2, <2>3 DEF Coming
  <2>4. CASE cur # NoStream /\ at[cur] \in {"requested", "open"}
    <3>1. after[cur] = last
      BY <2>0, <2>4 DEF Reading
    <3> QED BY <2>2, <2>4, <3>1 DEF Coming
  <2>5. CASE cur # NoStream /\ at[cur] \in {"replay", "live"}
    <3>1. (first + 1)..count \subseteq Accounted \cup Numbers(snap[cur]) \cup Numbers(queue[cur])
      BY <1>1, <2>5 DEF PushInv, ExactInv, Ahead
    <3> QED BY <2>5, <3>1 DEF Coming
  <2> QED BY <2>0, <2>3, <2>4, <2>5
<1>2. PushInv => GaplessOnceStarted
  BY <1>1 DEF GaplessOnceStarted, Exact
<1> QED BY <1>2, ChannelHolds, PTL

\* On such a process what a stream writes ascends, but for one step back at most: no live
\* frame overtakes the replay, however much is published meanwhile.
THEOREM OneTurnAtMost == Spec => []OneStepBack
<1>1. ASSUME PushInv, Exact, NEW s \in Streams
      PROVE  Cardinality({i \in 1..(Len(sent[s]) - 1) : sent[s][i] >= sent[s][i + 1]}) <= 1
  <2> DEFINE T == {i \in 1..(Len(sent[s]) - 1) : sent[s][i] >= sent[s][i + 1]}
  <2>1. PICK b \in 0..Len(sent[s]) : OneTurn(sent[s], b)
    BY <1>1 DEF PushInv, ExactInv, StreamInv, Turned
  <2>2. T \subseteq {b}
    BY <2>1 DEF OneTurn
  <2> HIDE DEF T
  <2>3. IsFiniteSet({b}) /\ Cardinality({b}) = 1
    BY FS_Singleton
  <2>4. Cardinality(T) <= Cardinality({b})
    BY <2>2, <2>3, FS_Subset
  <2> QED BY <2>3, <2>4 DEF T
<1>2. PushInv => OneStepBack
  BY <1>1 DEF OneStepBack, Exact
<1> QED BY <1>2, ChannelHolds, PTL

-----------------------------------------------------------------------------
(* The streamed response: the invariant.                                   *)

Frames == Nat \cup {Finished}

\* The shape of the state.
ResponseTypes ==
  /\ remaining \in Nat /\ lastValue \in Nat /\ holding \in [Threads -> Nat \cup {NoValue}]
  /\ dispatch \in {"running", "result", "error", "cancelled"} /\ stream \in {"open", "done", "gone"}
  /\ loop \in BOOLEAN /\ admitted \subseteq Nat
  /\ ready \in Seq(Frames) /\ frames \in Seq(Frames) /\ written \in Seq(Frames)

\* What the cap still allows, what threads hold and what is on its way: one budget.
Budget ==
  /\ IsFiniteSet(Holders) /\ IsFiniteSet(Progress)
  /\ Cardinality(Progress) + Cardinality(Holders) + remaining <= Cap

\* No response before the dispatch ends; until then each report is on its way or held.
Pending ==
  /\ dispatch \in {"running", "cancelled"} => Finished \notin Range(Flow)
  /\ dispatch = "running" /\ loop =>
       \A v \in admitted : v \in Range(Flow) \/ \E t \in Threads : holding[t] = v

\* Where the response stands, every report stands before it.
Before ==
  \A i \in DOMAIN Flow : Flow[i] = Finished =>
    \A v \in admitted : \E j \in 1..i : Flow[j] = v

FlowInv == ResponseTypes /\ Budget /\ (~Detached => Pending /\ Before)

\* A frame at the end of what is on its way.
LEMMA FlowGrows ==
  ASSUME ResponseTypes, NEW x \in Frames, ready' = Append(ready, x), UNCHANGED <<frames, written>>
  PROVE  /\ Flow \in Seq(Frames) /\ Flow' \in Seq(Frames) /\ Len(Flow') = Len(Flow) + 1
         /\ \A i \in 1..Len(Flow) : Flow'[i] = Flow[i]
         /\ Flow'[Len(Flow) + 1] = x
<1>1. /\ written \in Seq(Frames) /\ frames \in Seq(Frames) /\ ready \in Seq(Frames)
  BY DEF ResponseTypes
<1>2. written \o frames \in Seq(Frames)
  BY <1>1
<1>3. Flow \in Seq(Frames)
  BY <1>1, <1>2 DEF Flow
<1>4. Flow' = Append(Flow, x)
  <2>1. Flow' = (written \o frames) \o Append(ready, x)
    BY DEF Flow
  <2>2. PutLast(written \o frames, ready, x)
    BY <1>1, <1>2, AppendLast
  <2> QED BY <2>1, <2>2, Zenon DEF PutLast, Flow
<1> HIDE DEF Flow
<1> QED BY <1>3, <1>4

\* A frame handed on stays where it is.
LEMMA FlowStays ==
  ASSUME ResponseTypes
  PROVE  /\ RunReady => Flow' = Flow /\ ready' \in Seq(Frames) /\ frames' \in Seq(Frames)
         /\ Send => Flow' = Flow /\ frames' \in Seq(Frames) /\ written' \in Seq(Frames)
<1>1. /\ written \in Seq(Frames) /\ frames \in Seq(Frames) /\ ready \in Seq(Frames)
  BY DEF ResponseTypes
<1>2. ASSUME RunReady PROVE Flow' = Flow /\ ready' \in Seq(Frames) /\ frames' \in Seq(Frames)
  <2>1. /\ ready # <<>> /\ frames' = Append(frames, Head(ready)) /\ ready' = Tail(ready)
        /\ written' = written
    BY <1>2 DEF RunReady
  <2>2. Handover(written, frames, ready)
    BY <1>1, <2>1, MoveBehind
  <2>3. Append(frames, Head(ready)) \in Seq(Frames) /\ Tail(ready) \in Seq(Frames)
    BY <1>1, <2>1, MoveHead
  <2>4. Flow' = Flow
    BY <2>1, <2>2, Zenon DEF Handover, Flow
  <2> QED BY <2>1, <2>3, <2>4
<1>3. ASSUME Send PROVE Flow' = Flow /\ frames' \in Seq(Frames) /\ written' \in Seq(Frames)
  <2>1. /\ frames # <<>> /\ written' = Append(written, Head(frames)) /\ frames' = Tail(frames)
        /\ ready' = ready
    BY <1>3 DEF Send
  <2>2. /\ Append(written, Head(frames)) \in Seq(Frames) /\ Tail(frames) \in Seq(Frames)
        /\ Append(written, Head(frames)) \o Tail(frames) = written \o frames
    BY <1>1, <2>1, MoveHead
  <2>3. Flow' = Flow
    BY <2>1, <2>2, Zenon DEF Flow
  <2> QED BY <2>1, <2>2, <2>3
<1> QED BY <1>2, <1>3

\* Where nothing is put in, and nothing admitted or dropped, the invariant stands.
LEMMA FlowRests ==
  ASSUME FlowInv, ResponseTypes', Flow' = Flow, UNCHANGED <<holding, remaining, admitted>>,
         dispatch' \in {"running", "cancelled"} => dispatch \in {"running", "cancelled"},
         dispatch' = "running" /\ loop' => dispatch = "running" /\ loop
  PROVE  FlowInv'
<1>1. Budget'
  BY DEF FlowInv, Budget, Holders, Progress
<1>2. ~Detached => Pending' /\ Before'
  BY DEF FlowInv, Pending, Before
<1> QED BY <1>1, <1>2 DEF FlowInv

\* A report admitted: what the cap gave up, the thread holds.
LEMMA ReportKeeps ==
  ASSUME FlowInv, NEW t \in Threads, NEW v \in 1..MaxProgress, Report(t, v)
  PROVE  FlowInv'
<1>1. /\ holding[t] = NoValue /\ remaining > 0 /\ v > lastValue
      /\ dispatch \in {"running", "cancelled"} \/ Detached
      /\ holding' = [holding EXCEPT ![t] = v] /\ lastValue' = v /\ remaining' = remaining - 1
      /\ admitted' = IF dispatch = "running" THEN admitted \cup {v} ELSE admitted
      /\ UNCHANGED <<dispatch, ready, frames, written, stream, loop>>
      /\ v \in Nat /\ v # NoValue
  BY ResponseStreamAssumption DEF Report, Admits
<1>2. holding \in [Threads -> Nat \cup {NoValue}] /\ remaining \in Nat
  BY DEF FlowInv, ResponseTypes
<1>3. ResponseTypes'
  BY <1>1, <1>2 DEF FlowInv, ResponseTypes
<1>4. Flow' = Flow /\ Progress' = Progress
  BY <1>1 DEF Flow, Progress
<1>5. Budget'
  <2>1. Holders' = Holders \cup {t} /\ t \notin Holders
    BY <1>1, <1>2 DEF Holders
  <2>2. IsFiniteSet(Holders) /\ IsFiniteSet(Progress)
        /\ Cardinality(Progress) + Cardinality(Holders) + remaining <= Cap
    BY DEF FlowInv, Budget
  <2>3. IsFiniteSet(Holders') /\ Cardinality(Holders') = Cardinality(Holders) + 1
    BY <2>1, <2>2, FS_AddElement
  <2>4. Cardinality(Progress) \in Nat /\ Cardinality(Holders) \in Nat /\ Cap \in Nat
    BY <2>2, FS_CardinalityType, ResponseStreamAssumption
  <2>5. Cardinality(Progress) + (Cardinality(Holders) + 1) + (remaining - 1) <= Cap
    BY <1>2, <2>2, <2>4
  <2> QED BY <1>1, <1>4, <2>2, <2>3, <2>5 DEF Budget
<1>6. ASSUME ~Detached PROVE Pending' /\ Before'
  <2>1. Pending /\ Before /\ Finished \notin Range(Flow)
    BY <1>1, <1>6 DEF FlowInv, Pending
  <2>2. Before'
    BY <1>4, <2>1 DEF Before, Range
  <2>3. ASSUME dispatch' = "running", loop', NEW w \in admitted'
        PROVE  w \in Range(Flow') \/ \E u \in Threads : holding'[u] = w
    <3>1. CASE w = v
      BY <1>1, <1>2, <3>1
    <3>2. CASE w \in admitted
      <4>1. w \in Range(Flow) \/ \E u \in Threads : holding[u] = w
        BY <1>1, <2>1, <2>3, <3>2 DEF Pending
      <4>2. w # NoValue
        BY <3>2, ResponseStreamAssumption DEF FlowInv, ResponseTypes
      <4> QED BY <1>1, <1>2, <1>4, <4>1, <4>2
    <3> QED BY <1>1, <2>3, <3>1, <3>2
  <2> QED BY <1>4, <2>1, <2>2, <2>3 DEF Pending
<1> QED BY <1>3, <1>5, <1>6 DEF FlowInv

\* A frame scheduled: what the thread held is on its way, unless the loop is gone.
LEMMA ScheduleKeeps ==
  ASSUME FlowInv, NEW t \in Threads, Schedule(t)
  PROVE  FlowInv'
<1>1. /\ holding[t] # NoValue /\ ready' = IF loop THEN Append(ready, holding[t]) ELSE ready
      /\ holding' = [holding EXCEPT ![t] = NoValue]
      /\ UNCHANGED <<remaining, lastValue, dispatch, frames, written, stream, loop, admitted>>
  BY DEF Schedule
<1>2. /\ holding \in [Threads -> Nat \cup {NoValue}] /\ remaining \in Nat /\ loop \in BOOLEAN
      /\ ResponseTypes
  BY DEF FlowInv, ResponseTypes
<1> DEFINE x == holding[t]
<1>3. x \in Nat /\ x \in Frames /\ x # Finished
  BY <1>1, <1>2, ResponseStreamAssumption DEF Frames
<1>4. ResponseTypes'
  <2>1. ready' \in Seq(Frames)
    BY <1>1, <1>2, <1>3 DEF ResponseTypes
  <2> QED BY <1>1, <1>2, <2>1 DEF ResponseTypes
<1>5. Holders' = Holders \ {t} /\ t \in Holders
  BY <1>1, <1>2 DEF Holders
<1>6. /\ IsFiniteSet(Holders) /\ IsFiniteSet(Progress)
      /\ Cardinality(Progress) + Cardinality(Holders) + remaining <= Cap
  BY DEF FlowInv, Budget
<1>7. /\ IsFiniteSet(Holders') /\ Cardinality(Holders') = Cardinality(Holders) - 1
      /\ Cardinality(Holders) \in Nat /\ Cardinality(Progress) \in Nat /\ Cap \in Nat
  BY <1>5, <1>6, FS_RemoveElement, FS_CardinalityType, ResponseStreamAssumption
<1>8. CASE ~loop
  <2>1. Flow' = Flow /\ Progress' = Progress
    BY <1>1, <1>8 DEF Flow, Progress
  <2>2. Cardinality(Progress) + (Cardinality(Holders) - 1) + remaining <= Cap
    BY <1>2, <1>6, <1>7
  <2>3. Budget'
    BY <1>1, <1>6, <1>7, <2>1, <2>2 DEF Budget
  <2>4. ~Detached => Pending' /\ Before'
    BY <1>1, <1>8, <2>1 DEF FlowInv, Pending, Before
  <2> QED BY <1>4, <2>3, <2>4 DEF FlowInv
<1>9. CASE loop
  <2>0. ready' = Append(ready, x)
    BY <1>1, <1>9
  <2>1. /\ Flow \in Seq(Frames) /\ Flow' \in Seq(Frames) /\ Len(Flow') = Len(Flow) + 1
        /\ \A i \in 1..Len(Flow) : Flow'[i] = Flow[i]
        /\ Flow'[Len(Flow) + 1] = x
    <3> HIDE DEF x
    <3> QED BY <1>1, <1>2, <1>3, <2>0, FlowGrows
  <2>2. Len(Flow) \in Nat /\ DOMAIN Flow = 1..Len(Flow) /\ DOMAIN Flow' = 1..(Len(Flow) + 1)
    BY <2>1
  <2> HIDE DEF x
  <2>3. Progress' = Progress \cup {Len(Flow) + 1} /\ Len(Flow) + 1 \notin Progress
    <3>1. \A i \in 1..(Len(Flow) + 1) : i \in Progress' <=> i \in Progress \/ i = Len(Flow) + 1
      BY <1>3, <2>1, <2>2 DEF Progress
    <3> QED BY <2>2, <3>1 DEF Progress
  <2>4. IsFiniteSet(Progress') /\ Cardinality(Progress') = Cardinality(Progress) + 1
    BY <1>6, <2>3, FS_AddElement
  <2>5. Budget'
    <3>1. (Cardinality(Progress) + 1) + (Cardinality(Holders) - 1) + remaining <= Cap
      BY <1>2, <1>6, <1>7
    <3> QED BY <1>1, <1>7, <2>4, <3>1 DEF Budget
  <2>6. /\ Range(Flow') = Range(Flow) \cup {x}
    BY <2>1, <2>2 DEF Range
  <2>7. ASSUME ~Detached PROVE Pending' /\ Before'
    <3>1. Pending /\ Before
      BY <2>7 DEF FlowInv
    <3>2. dispatch' \in {"running", "cancelled"} => Finished \notin Range(Flow')
      BY <1>1, <1>3, <2>6, <3>1 DEF Pending
    <3>3. ASSUME dispatch' = "running", loop', NEW w \in admitted'
          PROVE  w \in Range(Flow') \/ \E u \in Threads : holding'[u] = w
      <4>1. w \in Range(Flow) \/ \E u \in Threads : holding[u] = w
        BY <1>1, <3>1, <3>3 DEF Pending
      <4> QED BY <1>1, <1>2, <2>6, <4>1 DEF x
    <3>4. Before'
      <4> SUFFICES ASSUME NEW i \in DOMAIN Flow', Flow'[i] = Finished, NEW w \in admitted'
                   PROVE  \E j \in 1..i : Flow'[j] = w
        BY DEF Before
      <4>1. i \in 1..Len(Flow) /\ Flow[i] = Finished
        BY <1>3, <2>1, <2>2
      <4>2. PICK j \in 1..i : Flow[j] = w
        BY <1>1, <2>2, <3>1, <4>1 DEF Before
      <4> QED BY <2>1, <2>2, <4>1, <4>2
    <3> QED BY <3>2, <3>3, <3>4 DEF Pending
  <2> QED BY <1>4, <2>5, <2>7 DEF FlowInv
<1> QED BY <1>2, <1>8, <1>9

\* The response put behind what is scheduled: with no thread in the reporter, behind all.
LEMMA DispatchEndsKeeps ==
  ASSUME FlowInv, DispatchEnds
  PROVE  FlowInv'
<1>1. /\ loop /\ dispatch = "running" /\ dispatch' \in {"result", "error"}
      /\ Detached \/ \A t \in Threads : holding[t] = NoValue
      /\ ready' = Append(ready, Finished)
      /\ UNCHANGED <<remaining, lastValue, holding, frames, written, stream, loop, admitted>>
  BY DEF DispatchEnds, Respond
<1>2. ResponseTypes /\ Finished \in Frames
  BY DEF FlowInv, Frames
<1>3. /\ Flow \in Seq(Frames) /\ Flow' \in Seq(Frames) /\ Len(Flow') = Len(Flow) + 1
      /\ \A i \in 1..Len(Flow) : Flow'[i] = Flow[i]
      /\ Flow'[Len(Flow) + 1] = Finished
  BY <1>1, <1>2, FlowGrows
<1>4. Len(Flow) \in Nat /\ DOMAIN Flow = 1..Len(Flow) /\ DOMAIN Flow' = 1..(Len(Flow) + 1)
  BY <1>3
<1>5. ResponseTypes'
  <2>1. ready' \in Seq(Frames)
    BY <1>1, <1>2 DEF ResponseTypes
  <2> QED BY <1>1, <1>2, <2>1 DEF ResponseTypes
<1>6. Budget'
  <2>1. Progress' = Progress
    <3>1. \A i \in 1..(Len(Flow) + 1) : i \in Progress' <=> i \in Progress
      BY <1>3, <1>4 DEF Progress
    <3> QED BY <1>4, <3>1 DEF Progress
  <2> QED BY <1>1, <2>1 DEF FlowInv, Budget, Holders
<1>7. ASSUME ~Detached PROVE Pending' /\ Before'
  <2>1. /\ Finished \notin Range(Flow)
        /\ \A v \in admitted : v \in Range(Flow) \/ \E t \in Threads : holding[t] = v
        /\ \A t \in Threads : holding[t] = NoValue
    BY <1>1, <1>7 DEF FlowInv, Pending
  <2>2. NoValue \notin admitted
    BY <1>2, ResponseStreamAssumption DEF ResponseTypes
  <2>3. admitted \subseteq Range(Flow)
    BY <2>1, <2>2
  <2>4. Before'
    <3> SUFFICES ASSUME NEW i \in DOMAIN Flow', Flow'[i] = Finished, NEW w \in admitted
                 PROVE  \E j \in 1..i : Flow'[j] = w
      BY <1>1 DEF Before
    <3>1. i = Len(Flow) + 1
      BY <1>3, <1>4, <2>1 DEF Range
    <3>2. PICK j \in 1..Len(Flow) : Flow[j] = w
      BY <1>4, <2>3 DEF Range
    <3> QED BY <1>3, <1>4, <3>1, <3>2
  <2> QED BY <1>1, <2>4 DEF Pending
<1> QED BY <1>5, <1>6, <1>7 DEF FlowInv

\* Every step of a streamed response keeps the invariant.
LEMMA FlowInvKept == FlowInv /\ [ResponseNext]_responseVars => FlowInv'
<1> SUFFICES ASSUME FlowInv, [ResponseNext]_responseVars PROVE FlowInv'
  OBVIOUS
<1>0. ResponseTypes
  BY DEF FlowInv
<1>1. ASSUME NEW t \in Threads, Schedule(t) PROVE FlowInv'
  BY <1>1, ScheduleKeeps
<1>2. ASSUME NEW t \in Threads, NEW v \in 1..MaxProgress, Report(t, v) PROVE FlowInv'
  BY <1>2, ReportKeeps
<1>3. CASE DispatchEnds
  BY <1>3, DispatchEndsKeeps
<1>4. CASE RunReady
  <2>1. Flow' = Flow /\ ready' \in Seq(Frames) /\ frames' \in Seq(Frames)
    BY <1>0, <1>4, FlowStays
  <2>2. UNCHANGED <<remaining, lastValue, holding, dispatch, written, stream, loop, admitted>>
    BY <1>4 DEF RunReady
  <2>3. ResponseTypes'
    BY <1>0, <2>1, <2>2 DEF ResponseTypes
  <2> QED BY <2>1, <2>2, <2>3, FlowRests
<1>5. CASE Send
  <2>1. Flow' = Flow /\ frames' \in Seq(Frames) /\ written' \in Seq(Frames)
    BY <1>0, <1>5, FlowStays
  <2>2. /\ UNCHANGED <<remaining, lastValue, holding, dispatch, ready, loop, admitted>>
        /\ stream' \in {"done", stream}
    BY <1>5 DEF Send
  <2>3. ResponseTypes'
    BY <1>0, <2>1, <2>2 DEF ResponseTypes
  <2> QED BY <2>1, <2>2, <2>3, FlowRests
<1>6. CASE ClientLeaves
  <2>1. /\ UNCHANGED <<remaining, lastValue, holding, ready, frames, written, loop, admitted>>
        /\ stream' = "gone"
        /\ dispatch' = IF dispatch = "running" THEN "cancelled" ELSE dispatch
    BY <1>6 DEF ClientLeaves
  <2>2. ResponseTypes' /\ Flow' = Flow
    BY <1>0, <2>1 DEF ResponseTypes, Flow
  <2> QED BY <2>1, <2>2, FlowRests
<1>7. CASE LoopCloses
  <2>1. /\ UNCHANGED <<remaining, lastValue, holding, dispatch, ready, frames, written, stream>>
        /\ admitted' = admitted /\ loop' = FALSE
    BY <1>7 DEF LoopCloses
  <2>2. ResponseTypes' /\ Flow' = Flow
    BY <1>0, <2>1 DEF ResponseTypes, Flow
  <2> QED BY <2>1, <2>2, FlowRests
<1>8. CASE UNCHANGED responseVars
  <2>1. /\ UNCHANGED <<remaining, lastValue, holding, dispatch, ready, frames, written, stream>>
        /\ admitted' = admitted /\ loop' = loop
    BY <1>8 DEF responseVars
  <2>2. ResponseTypes' /\ Flow' = Flow
    BY <1>0, <2>1 DEF ResponseTypes, Flow
  <2> QED BY <2>1, <2>2, FlowRests
<1> QED BY <1>1, <1>2, <1>3, <1>4, <1>5, <1>6, <1>7, <1>8 DEF ResponseNext

\* A response begins with nothing on its way and the whole cap.
LEMMA FlowInvHoldsInitially == ResponseInit => FlowInv
<1> SUFFICES ASSUME ResponseInit PROVE FlowInv
  OBVIOUS
<1>1. ResponseTypes
  BY ResponseStreamAssumption DEF ResponseInit, ResponseTypes, Frames
<1>2. Flow = <<>> /\ Holders = {}
  BY DEF ResponseInit, Flow, Holders
<1>3. Progress = {}
  BY <1>2 DEF Progress
<1>4. Budget
  BY <1>2, <1>3, FS_EmptySet, ResponseStreamAssumption DEF Budget, ResponseInit
<1>5. Pending /\ Before
  BY <1>2 DEF Pending, Before, Range, ResponseInit
<1> QED BY <1>1, <1>4, <1>5 DEF FlowInv

\* Of any number of threads, and whether or not the dispatch may end before them, one
\* budget is kept: what is left of the cap, what threads hold and what is on its way.
THEOREM FlowHolds == ResponseSpec => []FlowInv
<1>1. ResponseInit => FlowInv
  BY FlowInvHoldsInitially
<1>2. FlowInv /\ [ResponseNext]_responseVars => FlowInv'
  BY FlowInvKept
<1> QED BY <1>1, <1>2, PTL DEF ResponseSpec

\* No more progress frames leave than max_notifications, and where the dispatch ends after
\* the threads it joined, the response comes after every report.
THEOREM ReportsComeFirst ==
  ASSUME ~Detached
  PROVE  ResponseSpec => []ReportsKept
<1>1. FlowInv => CapKept
  <2> SUFFICES ASSUME FlowInv PROVE CapKept
    OBVIOUS
  <2>1. /\ Cardinality(Progress) + Cardinality(Holders) + remaining <= Cap /\ remaining \in Nat
        /\ IsFiniteSet(Progress) /\ IsFiniteSet(Holders) /\ Cap \in Nat
    BY ResponseStreamAssumption DEF FlowInv, Budget, ResponseTypes
  <2>2. Cardinality(Progress) \in Nat /\ Cardinality(Holders) \in Nat
    BY <2>1, FS_CardinalityType
  <2> QED BY <2>1, <2>2 DEF CapKept
<1>2. ASSUME FlowInv PROVE ReportsBeforeResponse
  <2> SUFFICES ASSUME Finished \in Range(written), NEW v \in admitted PROVE v \in Range(written)
    BY DEF ReportsBeforeResponse
  <2>1. /\ written \in Seq(Frames) /\ frames \in Seq(Frames) /\ ready \in Seq(Frames)
        /\ Before
    BY <1>2 DEF FlowInv, ResponseTypes
  <2>2. /\ \A i \in 1..Len(written) : i \in DOMAIN Flow /\ Flow[i] = written[i]
        /\ DOMAIN written = 1..Len(written) /\ Len(written) \in Nat
    BY <2>1 DEF Flow
  <2>3. PICK i \in 1..Len(written) : written[i] = Finished
    BY <2>2 DEF Range
  <2>4. PICK j \in 1..i : Flow[j] = v
    BY <2>1, <2>2, <2>3 DEF Before
  <2> QED BY <2>2, <2>3, <2>4 DEF Range
<1>3. FlowInv => ReportsKept
  BY <1>1, <1>2 DEF ReportsKept
<1> QED BY <1>3, FlowHolds, PTL
=============================================================================
