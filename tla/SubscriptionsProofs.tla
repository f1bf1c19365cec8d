-------------------------- MODULE SubscriptionsProofs ------------------------
(* What holds of the subscriptions for any number of streams, topics, tasks    *)
(* and transactions, any cap and any window: the inductive invariant, and what *)
(* follows from it.                                                            *)
EXTENDS Subscriptions, SequenceLemmas, FiniteSetTheorems

-----------------------------------------------------------------------------
(* The invariant.                                                          *)

Phases == {"open", "written", "committed", "rolled back"}
Places == {"idle", "closed", "admitted", "granted", "subscribing", "loop", "waiting"}

\* What a subscription's record may hold.
StreamRecord ==
  [pc : Places, asked : SUBSET Topics, granted : SUBSET Topics, until : Nat, late : Nat,
   since : Nat, rivals : Nat]

\* The shape of the state.
Types ==
  /\ remote \in BOOLEAN
  /\ time \in Nat
  /\ stream \in [Streams -> StreamRecord]
  /\ registered \in [Streams -> SUBSET Topics]
  /\ queue \in [Streams -> Seq(Nat)]
  /\ wire \in [Streams -> Seq(Nat)]
  /\ heard \in [Streams -> Seq(Nat)]
  /\ tx \in [Transactions -> [phase : Phases, left : Seq(Uris)]]
  /\ log \in Seq(Topics)
  /\ source \in Seq(Transactions \cup {0})
  /\ Len(source) = Len(log)
  /\ entitled \in [Streams -> SUBSET Topics]

\* What the stream has sent, will take next, and waits for, in that order.
Kept(s) == (heard[s] \o queue[s]) \o wire[s]

Rising(k) == \A i, j \in DOMAIN k : i < j => k[i] < k[j]

\* A subscription is fed from what it was granted, while it runs and no longer.
Fed(s) ==
  /\ registered[s] = IF Acked(s) THEN stream[s].granted ELSE {}
  /\ Acked(s) \/ stream[s].pc = "subscribing" => stream[s].granted # {}

\* Nothing waits for a subscription no broker feeds, nor on a wire there is none of.
Quiet(s) ==
  /\ ~Acked(s) => heard[s] = <<>> /\ queue[s] = <<>>
  /\ ~Acked(s) /\ stream[s].pc # "subscribing" => wire[s] = <<>>
  /\ ~remote => wire[s] = <<>> /\ stream[s].pc # "subscribing"

\* What it keeps was published on its topics, and nothing twice.
Carried(s) ==
  /\ \A i \in DOMAIN Kept(s) :
       Kept(s)[i] \in 1..Len(log) /\ log[Kept(s)[i]] \in stream[s].granted
  /\ Rising(Kept(s))

\* What was published on its topics since the acknowledgement.
Due(s) == {n \in stream[s].since + 1 .. Len(log) : log[n] \in stream[s].granted}

Live(s) == Acked(s) => Due(s) \subseteq ToSet(Kept(s))

\* One notification is late at most, and then the loop is back at its top.
Timely(s) ==
  /\ stream[s].late <= 1
  /\ stream[s].late = 1 => stream[s].pc = "loop" /\ time >= stream[s].until

StreamInv(s) ==
  Fed(s) /\ Quiet(s) /\ stream[s].granted \subseteq entitled[s] /\ Carried(s) /\ Live(s) /\ Timely(s)

\* The requests let in whose streams have not ended.
Open == {s \in Streams : stream[s].pc \notin {"idle", "closed"}}

\* Of any of them, one came when the others were under the cap or among its rivals.
Admitted ==
  \A X \in SUBSET Open :
    X # {} => \E s \in X : Cardinality(X) <= Cap + stream[s].rivals

Inv == Types /\ NothingUncommitted /\ Admitted /\ \A s \in Streams : StreamInv(s)

-----------------------------------------------------------------------------
(* One subscription.                                                       *)

\* What a subscription keeps is a sequence of positions.
LEMMA KeptTyped ==
  ASSUME Types, NEW s \in Streams
  PROVE  Kept(s) \in Seq(Nat) /\ heard[s] \in Seq(Nat) /\ queue[s] \in Seq(Nat) /\ wire[s] \in Seq(Nat)
BY DEF Types, Kept

\* Nothing is expected of a subscription that nothing is kept for.
LEMMA Silent ==
  ASSUME Types', NEW s \in Streams, ~Acked(s)', registered'[s] = {},
         stream'[s].pc = "subscribing" => remote' /\ stream'[s].granted # {},
         heard'[s] = <<>>, queue'[s] = <<>>, wire'[s] = <<>>,
         stream'[s].granted \subseteq entitled'[s], stream'[s].late = 0
  PROVE  StreamInv(s)'
<1>1. Kept(s)' = <<>>
  BY ConcatEmptySeq DEF Kept, Types
<1>2. Carried(s)'
  BY <1>1 DEF Carried, Rising
<1> QED BY <1>2 DEF StreamInv, Fed, Quiet, Live, Timely

\* A step of something else leaves a subscription as it was.
LEMMA Untouched ==
  ASSUME Types, NEW s \in Streams, StreamInv(s), time' \in Nat, time <= time',
         stream'[s] = stream[s], registered'[s] = registered[s], queue'[s] = queue[s],
         wire'[s] = wire[s], heard'[s] = heard[s], entitled'[s] = entitled[s],
         UNCHANGED <<log, remote>>
  PROVE  StreamInv(s)'
<1>1. Kept(s)' = Kept(s) /\ (Acked(s)' <=> Acked(s)) /\ Due(s)' = Due(s)
  BY DEF Kept, Acked, Due
<1>2. Carried(s)' /\ Live(s)'
  BY <1>1 DEF StreamInv, Carried, Live
<1>3. Fed(s)' /\ Quiet(s)'
  BY <1>1 DEF StreamInv, Fed, Quiet
<1>4. Timely(s)'
  <2>1. stream[s].until \in Nat /\ time \in Nat
    BY DEF Types, StreamRecord
  <2> QED BY <2>1 DEF StreamInv, Timely
<1> QED BY <1>2, <1>3, <1>4 DEF StreamInv

\* What is kept may move from box to box, and the acknowledgement owes nothing yet.
LEMMA Handed ==
  ASSUME NEW s \in Streams, Carried(s), Live(s), Types,
         Kept(s)' = Kept(s), stream'[s].granted = stream[s].granted, UNCHANGED log,
         Acked(s)' => \/ stream'[s].since = Len(log)
                      \/ Acked(s) /\ stream'[s].since = stream[s].since
  PROVE  Carried(s)' /\ Live(s)'
<1>1. Carried(s)'
  BY DEF Carried
<1>2. CASE stream'[s].since = Len(log)
  <2>1. Due(s)' = {}
    <3>1. Len(log) \in Nat
      BY DEF Types
    <3> QED BY <1>2, <3>1 DEF Due
  <2> QED BY <1>1, <2>1 DEF Live
<1>3. CASE Acked(s) /\ stream'[s].since = stream[s].since
  <2>1. Due(s)' = Due(s)
    BY <1>3 DEF Due
  <2> QED BY <1>1, <1>3, <2>1 DEF Live
<1>4. CASE ~Acked(s)'
  BY <1>1, <1>4 DEF Live
<1> QED BY <1>2, <1>3, <1>4

\* A notification published on one of its topics is kept last; another is not kept.
LEMMA Published ==
  ASSUME NEW s \in Streams, NEW t \in Topics, Types, Carried(s), Live(s), Fed(s), Quiet(s),
         Len(log)' = Len(log) + 1, log' = Append(log, t), UNCHANGED stream,
         Kept(s)' = IF t \in Channels(s) THEN Append(Kept(s), Len(log) + 1) ELSE Kept(s)
  PROVE  Carried(s)' /\ Live(s)'
<1> DEFINE n == Len(log) + 1
           G == stream[s].granted
<1>1. /\ Kept(s) \in Seq(Nat) /\ log \in Seq(Topics) /\ n \in Nat /\ n \notin DOMAIN log
      /\ DOMAIN log = 1..Len(log)
  BY KeptTyped DEF Types
<1>2. \A m \in 1..Len(log) : log'[m] = log[m]
  BY <1>1, AppendHolds
<1>3. log'[n] = t
  BY <1>1, AppendHolds
<1>4. \A i \in DOMAIN Kept(s) :
        Kept(s)[i] \in 1..Len(log) /\ Kept(s)[i] \in 1..Len(log)' /\ log'[Kept(s)[i]] \in G
  BY <1>1, <1>2 DEF Carried
<1>5. CASE t \in Channels(s)
  <2>1. t \in G
    BY <1>5 DEF Channels, Fed
  <2>2. /\ DOMAIN Kept(s)' = DOMAIN Kept(s) \cup {Len(Kept(s)) + 1}
        /\ \A i \in DOMAIN Kept(s) : Kept(s)'[i] = Kept(s)[i]
        /\ Kept(s)'[Len(Kept(s)) + 1] = n
        /\ ToSet(Kept(s))' = ToSet(Kept(s)) \cup {n}
    <3>1. Kept(s)' = Append(Kept(s), n)
      BY <1>5
    <3>2. Kept(s) \in Seq(Nat) /\ n \in Nat
      BY <1>1
    <3>3. ASSUME NEW k \in Seq(Nat), NEW m \in Nat
          PROVE  /\ ToSet(Append(k, m)) = ToSet(k) \cup {m}
                 /\ DOMAIN Append(k, m) = DOMAIN k \cup {Len(k) + 1}
                 /\ \A i \in DOMAIN k : Append(k, m)[i] = k[i]
                 /\ Append(k, m)[Len(k) + 1] = m
      BY AppendHolds, SMTT(60)
    <3>4. ToSet(Kept(s))' = ToSet(Append(Kept(s), n))
      BY <3>1 DEF ToSet
    <3> QED BY <3>1, <3>2, <3>3, <3>4
  <2>3. Len(Kept(s)) \in Nat /\ DOMAIN Kept(s) = 1..Len(Kept(s))
    BY <1>1
  <2>4. n \in 1..Len(log)'
    BY <1>1
  <2>5. ASSUME NEW i \in (DOMAIN Kept(s))' PROVE Kept(s)'[i] \in 1..Len(log)' /\ log'[Kept(s)'[i]] \in G
    BY <1>3, <1>4, <2>1, <2>2, <2>4
  <2>6. Rising(Kept(s))'
    <3> SUFFICES ASSUME NEW i \in (DOMAIN Kept(s))', NEW j \in (DOMAIN Kept(s))', i < j
                 PROVE  Kept(s)'[i] < Kept(s)'[j]
      BY DEF Rising
    <3>1. i \in DOMAIN Kept(s)
      BY <2>2, <2>3
    <3>2. CASE j \in DOMAIN Kept(s)
      <4>1. Kept(s)[i] < Kept(s)[j]
        BY <3>1, <3>2 DEF Carried, Rising
      <4> QED BY <2>2, <3>1, <3>2, <4>1
    <3>3. CASE j = Len(Kept(s)) + 1
      <4>1. Kept(s)[i] \in 1..Len(log)
        BY <1>4, <3>1
      <4>2. Kept(s)[i] < n
        BY <1>1, <4>1
      <4> QED BY <2>2, <3>1, <3>3, <4>2
    <3> QED BY <2>2, <3>2, <3>3
  <2>7. Live(s)'
    <3>1. Due(s)' \subseteq Due(s) \cup {n}
      <4>1. \A m \in 1..Len(log)' : m = n \/ m \in 1..Len(log)
        BY <1>1
      <4>2. stream[s].since \in Nat
        BY DEF Types, StreamRecord
      <4> QED BY <1>1, <1>2, <4>1, <4>2 DEF Due
    <3> QED BY <2>2, <3>1 DEF Live, Acked
  <2> QED BY <2>5, <2>6, <2>7 DEF Carried
<1>6. CASE t \notin Channels(s)
  <2>1. Carried(s)'
    BY <1>4, <1>6 DEF Carried
  <2>2. Live(s)'
    <3> SUFFICES ASSUME Acked(s) PROVE Due(s)' \subseteq ToSet(Kept(s))
      BY <1>6 DEF Live, Acked
    <3>1. t \notin G
      BY <1>6 DEF Channels, Fed, Acked
    <3>2. Due(s)' \subseteq Due(s)
      <4>1. \A m \in 1..Len(log)' : m = n \/ m \in 1..Len(log)
        BY <1>1
      <4>2. stream[s].since \in Nat
        BY DEF Types, StreamRecord
      <4> QED BY <1>1, <1>2, <1>3, <3>1, <4>1, <4>2 DEF Due
    <3> QED BY <3>2 DEF Live
  <2> QED BY <2>1, <2>2
<1> QED BY <1>5, <1>6

-----------------------------------------------------------------------------
(* Its steps.                                                              *)

\* Only a stream back at the top of its loop, past its window, is a notification late.
LEMMA OnTime ==
  ASSUME NEW s \in Streams, stream[s] \in StreamRecord, time \in Nat, Timely(s),
         stream[s].pc # "loop" \/ time < stream[s].until
  PROVE  stream[s].late = 0
<1>1. stream[s].late \in Nat /\ stream[s].until \in Nat
  BY DEF StreamRecord
<1> QED BY <1>1 DEF Timely

\* A stream's own step keeps its invariant.
LEMMA OwnStep ==
  ASSUME Types, Types', NEW s \in Streams, StreamInv(s),
         StreamStep(s) \/ Disconnect(s) \/ Abandon(s)
  PROVE  StreamInv(s)'
<1> USE DEF StreamInv
<1>0. /\ stream[s] \in StreamRecord /\ time \in Nat /\ Kept(s) \in Seq(Nat)
      /\ heard[s] \in Seq(Nat) /\ queue[s] \in Seq(Nat) /\ wire[s] \in Seq(Nat)
      /\ registered \in [Streams -> SUBSET Topics] /\ entitled \in [Streams -> SUBSET Topics]
      /\ stream \in [Streams -> StreamRecord]
      /\ heard \in [Streams -> Seq(Nat)] /\ queue \in [Streams -> Seq(Nat)]
      /\ wire \in [Streams -> Seq(Nat)]
  BY KeptTyped DEF Types
<1>1. CASE Listen(s)
  <2>1. /\ stream'[s].pc \in {"closed", "admitted"} /\ stream'[s].granted = stream[s].granted
        /\ stream'[s].late = stream[s].late
    <3>1. CASE Move(s, "closed")
      BY <1>0, <3>1 DEF Move, StreamRecord
    <3>2. CASE \E asked, rivals : Update(s, [stream[s] EXCEPT !.pc = "admitted", !.asked = asked,
                                                              !.rivals = rivals])
      BY <1>0, <3>2 DEF Update, StreamRecord
    <3> QED BY <1>1, <3>1, <3>2 DEF Listen
  <2>2. stream[s].late = 0 /\ ~Acked(s) /\ ~Acked(s)' /\ stream[s].pc # "subscribing"
    <3>1. stream[s].pc = "idle"
      BY <1>1 DEF Listen
    <3>2. stream[s].late = 0
      BY <1>0, <3>1, OnTime
    <3> QED BY <2>1, <3>1, <3>2 DEF Acked
  <2> QED BY <1>1, <2>1, <2>2, Silent DEF Listen, broker, Fed, Quiet
<1>2. CASE Grant(s)
  <2>1. /\ stream'[s].pc = "granted" /\ stream'[s].granted \subseteq Grantable
        /\ stream'[s].late = stream[s].late /\ entitled'[s] = Grantable
    BY <1>0, <1>2 DEF Grant, Update, StreamRecord, Granted
  <2>2. stream[s].late = 0 /\ ~Acked(s) /\ ~Acked(s)' /\ stream[s].pc # "subscribing"
    <3>1. stream[s].pc = "admitted"
      BY <1>2 DEF Grant
    <3>2. stream[s].late = 0
      BY <1>0, <3>1, OnTime
    <3> QED BY <2>1, <3>1, <3>2 DEF Acked
  <2> QED BY <1>2, <2>1, <2>2, Silent DEF Grant, broker, Fed, Quiet
<1>3. CASE StartEmpty(s) \/ WindowOver(s) \/ Disconnect(s) \/ Abandon(s)
  <2>1. Close(s)
    BY <1>3 DEF StartEmpty, WindowOver, Disconnect, Abandon
  <2>2. /\ stream'[s] = [Fresh EXCEPT !.pc = "closed"] /\ heard'[s] = <<>> /\ entitled'[s] = {}
    BY <1>0, <2>1 DEF Close
  <2>3. /\ ~Acked(s)' /\ stream'[s].granted \subseteq entitled'[s] /\ stream'[s].late = 0
        /\ stream'[s].pc # "subscribing"
    BY <2>2 DEF Fresh, Acked
  <2>4. registered'[s] = {} /\ queue'[s] = <<>> /\ wire'[s] = <<>>
    BY <1>0, <1>3 DEF StartEmpty, WindowOver, Disconnect, Abandon, Unregister, broker, Fed, Quiet, Acked
  <2> QED BY <2>2, <2>3, <2>4, Silent
<1>4. CASE StartRemote(s)
  <2>1. /\ stream'[s].pc = "subscribing" /\ stream'[s].granted = stream[s].granted
        /\ stream'[s].late = stream[s].late
    BY <1>0, <1>4 DEF StartRemote, Move, StreamRecord
  <2>2. stream[s].late = 0 /\ ~Acked(s) /\ ~Acked(s)' /\ stream[s].pc # "subscribing"
    <3>1. stream[s].pc = "granted"
      BY <1>4 DEF StartRemote
    <3>2. stream[s].late = 0
      BY <1>0, <3>1, OnTime
    <3> QED BY <2>1, <3>1, <3>2 DEF Acked
  <2> QED BY <1>4, <2>1, <2>2, Silent DEF StartRemote, broker, Fed, Quiet
<1>5. CASE StartInMemory(s) \/ Confirmed(s)
  <2>1. /\ Register(s) /\ Acknowledged(s) /\ UNCHANGED <<remote, time, log, entitled, heard>>
    BY <1>5 DEF StartInMemory, Confirmed, publishers
  <2>2. /\ stream'[s].pc = "loop" /\ stream'[s].granted = stream[s].granted
        /\ stream'[s].late = stream[s].late /\ stream'[s].since = Len(log)
    BY <1>0, <2>1 DEF Acknowledged, Update, StreamRecord
  <2>3. registered'[s] = stream[s].granted /\ UNCHANGED <<queue, wire>>
    BY <1>0, <2>1 DEF Register
  <2>4. stream[s].late = 0 /\ Acked(s)'
    <3>1. stream[s].pc \in {"granted", "subscribing"}
      BY <1>5 DEF StartInMemory, Confirmed
    <3>2. stream[s].late = 0
      BY <1>0, <3>1, OnTime
    <3> QED BY <2>2, <3>2 DEF Acked
  <2>5. Kept(s)' = Kept(s)
    BY <2>1, <2>3 DEF Kept
  <2>6. Carried(s)' /\ Live(s)'
    BY <2>1, <2>2, <2>5, Handed
  <2>7. Quiet(s)' /\ Timely(s)'
    BY <2>1, <2>2, <2>3, <2>4 DEF Quiet, Timely
  <2>8. stream[s].granted # {}
    BY <1>5 DEF StartInMemory, Confirmed, Fed
  <2> QED BY <2>1, <2>2, <2>3, <2>4, <2>6, <2>7, <2>8 DEF Fed
<1>6. CASE LoopTop(s) \/ KeepAlive(s)
  <2>1. /\ stream'[s].pc \in {"loop", "waiting"} /\ stream'[s].granted = stream[s].granted
        /\ stream'[s].late = stream[s].late /\ stream'[s].since = stream[s].since
        /\ stream'[s].until = stream[s].until
        /\ UNCHANGED <<remote, time, registered, queue, wire, log, entitled, heard>>
    BY <1>0, <1>6 DEF LoopTop, KeepAlive, Move, StreamRecord, broker, publishers
  <2>2. stream[s].late = 0 /\ Acked(s) /\ Acked(s)'
    <3>1. \/ stream[s].pc = "loop" /\ time < stream[s].until
          \/ stream[s].pc = "waiting"
      BY <1>6 DEF LoopTop, KeepAlive
    <3>2. stream[s].late = 0
      BY <1>0, <3>1, OnTime
    <3> QED BY <2>1, <3>1, <3>2 DEF Acked
  <2>3. Kept(s)' = Kept(s)
    BY <2>1 DEF Kept
  <2>4. Carried(s)' /\ Live(s)'
    BY <2>1, <2>2, <2>3, Handed
  <2> QED BY <2>1, <2>2, <2>4 DEF Fed, Quiet, Timely
<1>7. CASE Deliver(s)
  <2>1. /\ stream'[s].pc = "loop" /\ stream'[s].granted = stream[s].granted
        /\ stream'[s].late = stream[s].late + (IF time >= stream[s].until THEN 1 ELSE 0)
        /\ stream'[s].since = stream[s].since /\ stream'[s].until = stream[s].until
        /\ UNCHANGED <<remote, time, registered, wire, log, entitled>>
    BY <1>0, <1>7 DEF Deliver, Update, StreamRecord, publishers
  <2>2. stream[s].late = 0 /\ Acked(s) /\ Acked(s)'
    <3>1. stream[s].pc = "waiting"
      BY <1>7 DEF Deliver
    <3>2. stream[s].late = 0
      BY <1>0, <3>1, OnTime
    <3> QED BY <2>1, <3>1, <3>2 DEF Acked
  <2>3. Kept(s)' = Kept(s)
    <3>1. heard'[s] = Append(heard[s], Head(queue[s])) /\ queue'[s] = Tail(queue[s]) /\ queue[s] # <<>>
      BY <1>0, <1>7 DEF Deliver
    <3>2. Append(heard[s], Head(queue[s])) \o Tail(queue[s]) = heard[s] \o queue[s]
      <4>1. heard[s] \in Seq(Nat) /\ queue[s] \in Seq(Nat) /\ queue[s] # <<>>
        BY <1>0, <3>1
      <4> QED BY <4>1, MoveHead, Zenon
    <3>3. heard'[s] \o queue'[s] = heard[s] \o queue[s]
      BY <3>1, <3>2
    <3> QED BY <2>1, <3>3 DEF Kept
  <2>4. Carried(s)' /\ Live(s)'
    BY <2>1, <2>2, <2>3, Handed
  <2>5. stream[s].until \in Nat
    BY <1>0 DEF StreamRecord
  <2> QED BY <1>0, <2>1, <2>2, <2>4, <2>5 DEF Fed, Quiet, Timely
<1>8. CASE Pump(s)
  <2>1. UNCHANGED <<remote, time, stream, registered, log, entitled, heard>>
    BY <1>8 DEF Pump, publishers
  <2>2. Acked(s) /\ Acked(s)'
    BY <1>8, <2>1 DEF Pump, Fed, Acked
  <2>3. /\ queue'[s] = Append(queue[s], Head(wire[s])) /\ wire'[s] = Tail(wire[s])
        /\ wire[s] # <<>>
    BY <1>0, <1>8 DEF Pump
  <2>4. Kept(s)' = Kept(s)
    <3>1. Handover(heard[s], queue[s], wire[s])
      <4>1. /\ heard[s] \in Seq(Nat) /\ queue[s] \in Seq(Nat) /\ wire[s] \in Seq(Nat)
            /\ wire[s] # <<>>
        BY <1>0, <2>3
      <4> QED BY <4>1, MoveBehind, Zenon
    <3> QED BY <2>1, <2>3, <3>1 DEF Kept, Handover
  <2>5. Carried(s)' /\ Live(s)'
    BY <2>1, <2>2, <2>4, Handed
  <2>6. remote
    BY <2>3 DEF Quiet
  <2> QED BY <2>1, <2>2, <2>5, <2>6 DEF Fed, Quiet, Timely
<1> QED BY <1>1, <1>2, <1>3, <1>4, <1>5, <1>6, <1>7, <1>8 DEF StreamStep

\* Publishing keeps the invariant of every subscription.
LEMMA PublishKeeps ==
  ASSUME Types, NEW t \in Topics, NEW from, Publish(t, from),
         UNCHANGED <<remote, time, stream, entitled, heard>>,
         NEW s \in Streams, StreamInv(s)
  PROVE  StreamInv(s)'
<1> DEFINE n == Len(log) + 1
           fed == t \in Channels(s)
<1> USE DEF StreamInv
<1>1. /\ heard[s] \in Seq(Nat) /\ queue[s] \in Seq(Nat) /\ wire[s] \in Seq(Nat)
      /\ n \in Nat /\ log \in Seq(Topics) /\ remote \in BOOLEAN
  BY KeptTyped DEF Types
<1>2. /\ log' = Append(log, t) /\ registered' = registered
      /\ queue'[s] = IF fed /\ ~remote THEN Append(queue[s], n) ELSE queue[s]
      /\ wire'[s] = IF fed /\ remote THEN Append(wire[s], n) ELSE wire[s]
  BY <1>1 DEF Publish
<1>3. Len(log)' = n
  BY <1>1, <1>2
<1>4. fed => Acked(s) \/ (remote /\ stream[s].pc = "subscribing")
  <2>1. CASE stream[s].pc = "subscribing"
    BY <1>1, <2>1 DEF Quiet
  <2>2. CASE stream[s].pc # "subscribing"
    <3>1. registered[s] = IF Acked(s) THEN stream[s].granted ELSE {}
      BY DEF Fed
    <3>2. Channels(s) = registered[s]
      BY <2>2 DEF Channels
    <3> QED BY <3>1, <3>2 DEF Acked
  <2> QED BY <2>1, <2>2
<1>5. Kept(s)' = IF fed THEN Append(Kept(s), n) ELSE Kept(s)
  <2>1. CASE ~fed
    BY <1>2, <2>1 DEF Kept
  <2>2. CASE fed /\ remote
    <3>1. heard[s] \o queue[s] \in Seq(Nat)
      BY <1>1, ConcatProperties
    <3>2. PutLast(heard[s] \o queue[s], wire[s], n)
      <4> HIDE DEF n
      <4> QED BY <1>1, <3>1, AppendLast, Zenon
    <3> QED BY <1>2, <2>2, <3>2 DEF Kept, PutLast
  <2>3. CASE fed /\ ~remote
    <3>1. wire[s] = <<>> /\ wire'[s] = <<>>
      BY <1>2, <2>3 DEF Quiet
    <3>2. queue'[s] = Append(queue[s], n)
      BY <1>2, <2>3
    <3>3. /\ heard[s] \o queue[s] \in Seq(Nat)
          /\ heard[s] \o Append(queue[s], n) = Append(heard[s] \o queue[s], n)
      <4>1. heard[s] \o queue[s] \in Seq(Nat) /\ PutLast(heard[s], queue[s], n)
        <5> HIDE DEF n
        <5> QED BY <1>1, AppendLast, Zenon
      <4> QED BY <4>1 DEF PutLast
    <3>4. Append(heard[s] \o queue[s], n) \in Seq(Nat)
      BY <1>1, <3>3
    <3>5. Kept(s) = heard[s] \o queue[s]
      BY <3>1, <3>3, ConcatEmptySeq DEF Kept
    <3>6. Kept(s)' = heard[s] \o queue'[s]
      BY <3>1, <3>2, <3>3, <3>4, ConcatEmptySeq DEF Kept
    <3> QED BY <2>3, <3>2, <3>3, <3>5, <3>6
  <2> QED BY <1>1, <2>1, <2>2, <2>3
<1>6. Carried(s)' /\ Live(s)'
  <2> HIDE DEF fed
  <2>1. Kept(s)' = IF t \in Channels(s) THEN Append(Kept(s), Len(log) + 1) ELSE Kept(s)
    BY <1>5 DEF fed
  <2>2. Len(log)' = Len(log) + 1
    BY <1>3
  <2> QED BY <1>2, <2>1, <2>2, Published
<1>7. Fed(s)'
  BY <1>2 DEF Fed, Acked
<1>8. Quiet(s)'
  BY <1>1, <1>2, <1>4 DEF Quiet, Acked
<1>9. Timely(s)'
  BY DEF Timely
<1> QED BY <1>6, <1>7, <1>8, <1>9

-----------------------------------------------------------------------------
(* The shape of the state.                                                 *)

\* What a publication leaves of the boxes and of the log.
LEMMA PublishTyped ==
  ASSUME Types, NEW t \in Topics, NEW from \in Transactions \cup {0}, Publish(t, from)
  PROVE  /\ registered' \in [Streams -> SUBSET Topics]
         /\ queue' \in [Streams -> Seq(Nat)] /\ wire' \in [Streams -> Seq(Nat)]
         /\ log' \in Seq(Topics) /\ source' \in Seq(Transactions \cup {0})
         /\ Len(source)' = Len(log)'
<1>1. Len(log) + 1 \in Nat /\ log \in Seq(Topics) /\ source \in Seq(Transactions \cup {0})
  BY DEF Types
<1>2. /\ log' \in Seq(Topics) /\ source' \in Seq(Transactions \cup {0})
      /\ Len(source)' = Len(log)'
  BY <1>1 DEF Publish, Types
<1>3. queue' \in [Streams -> Seq(Nat)] /\ wire' \in [Streams -> Seq(Nat)]
  BY <1>1 DEF Publish, Types
<1> QED BY <1>2, <1>3 DEF Publish, Types

\* The initial state has the shape.
LEMMA TypesHoldInitially == SubscriptionsInit => Types
<1> SUFFICES ASSUME SubscriptionsInit PROVE Types
  OBVIOUS
<1>1. Fresh \in StreamRecord
  BY DEF Fresh, StreamRecord, Places
<1> QED BY <1>1 DEF SubscriptionsInit, Types, Phases

\* Every step keeps it.
LEMMA TypesKept == Types /\ [SubscriptionsNext]_subscriptionVars => Types'
<1> SUFFICES ASSUME Types, [SubscriptionsNext]_subscriptionVars PROVE Types'
  OBVIOUS
<1>1. CASE UNCHANGED subscriptionVars
  BY <1>1 DEF Types, subscriptionVars
<1>2. CASE SubscriptionsTick \/ Revoke
  BY <1>2 DEF SubscriptionsTick, Revoke, Types, broker, publishers
<1>3. ASSUME NEW s \in Streams, StreamStep(s) \/ Disconnect(s) \/ Abandon(s) PROVE Types'
  <2>0. /\ stream \in [Streams -> StreamRecord] /\ stream[s] \in StreamRecord
        /\ entitled \in [Streams -> SUBSET Topics] /\ registered \in [Streams -> SUBSET Topics]
        /\ heard \in [Streams -> Seq(Nat)] /\ queue \in [Streams -> Seq(Nat)]
        /\ wire \in [Streams -> Seq(Nat)] /\ Len(log) \in Nat /\ time \in Nat
    BY <1>3 DEF Types
  <2>1. stream' \in [Streams -> StreamRecord]
    <3>1. stream'[s] \in StreamRecord /\ stream' = [stream EXCEPT ![s] = stream'[s]]
      <4>1. CASE Listen(s)
        <5>1. Cardinality(Coming) \in Nat
          <6>1. Coming \subseteq Streams /\ IsFiniteSet(Streams)
            BY SubscriptionsAssumption DEF Coming
          <6> QED BY <6>1, FS_Subset, FS_CardinalityType
        <5>2. CASE Move(s, "closed")
          BY <2>0, <5>2 DEF Move, StreamRecord, Places
        <5>3. CASE \E asked \in Asked : Update(s, [stream[s] EXCEPT !.pc = "admitted", !.asked = asked,
                                                   !.rivals = Cardinality(Coming)])
          <6>1. PICK asked \in SUBSET Topics :
                  stream' = [stream EXCEPT ![s] = [stream[s] EXCEPT !.pc = "admitted", !.asked = asked,
                                                                    !.rivals = Cardinality(Coming)]]
            BY <5>3, SubscriptionsAssumption DEF Update
          <6>2. [stream[s] EXCEPT !.pc = "admitted", !.asked = asked, !.rivals = Cardinality(Coming)]
                  \in StreamRecord
            BY <2>0, <5>1, <6>1 DEF StreamRecord, Places
          <6> QED BY <2>0, <6>1, <6>2
        <5> QED BY <4>1, <5>2, <5>3 DEF Listen
      <4>2. CASE Grant(s)
        BY <2>0, <4>2 DEF Grant, Update, StreamRecord, Places, Granted, Grantable
      <4>3. CASE StartEmpty(s) \/ WindowOver(s) \/ Disconnect(s) \/ Abandon(s)
        <5>1. Close(s)
          BY <4>3 DEF StartEmpty, WindowOver, Disconnect, Abandon
        <5> QED BY <2>0, <5>1 DEF Close, Fresh, StreamRecord, Places
      <4>4. CASE StartRemote(s) \/ LoopTop(s) \/ KeepAlive(s)
        <5>1. PICK where \in Places : stream' = [stream EXCEPT ![s].pc = where]
          BY <4>4 DEF StartRemote, LoopTop, KeepAlive, Move, Places
        <5>2. [stream[s] EXCEPT !.pc = where] \in StreamRecord
          BY <2>0, <5>1 DEF StreamRecord
        <5> QED BY <2>0, <5>1, <5>2
      <4>5. CASE StartInMemory(s) \/ Confirmed(s)
        <5> DEFINE r == [stream[s] EXCEPT !.pc = "loop", !.until = time + StreamWindow, !.since = Len(log)]
        <5>1. stream' = [stream EXCEPT ![s] = r]
          BY <4>5 DEF StartInMemory, Confirmed, Acknowledged, Update
        <5>2. time + StreamWindow \in Nat /\ Len(log) \in Nat
          BY <2>0, SubscriptionsAssumption
        <5>3. r \in StreamRecord
          BY <2>0, <5>2 DEF StreamRecord, Places
        <5> QED BY <2>0, <5>1, <5>3
      <4>6. CASE Deliver(s)
        <5> DEFINE l == stream[s].late + IF time >= stream[s].until THEN 1 ELSE 0
                   r == [stream[s] EXCEPT !.pc = "loop", !.late = l]
        <5>1. stream' = [stream EXCEPT ![s] = r]
          BY <4>6 DEF Deliver, Update
        <5>2. l \in Nat
          BY <2>0 DEF StreamRecord
        <5>3. r \in StreamRecord
          <6> HIDE DEF l
          <6> QED BY <2>0, <5>2 DEF StreamRecord, Places
        <5> QED BY <2>0, <5>1, <5>3
      <4>7. CASE Pump(s)
        BY <2>0, <4>7 DEF Pump
      <4> QED BY <1>3, <4>1, <4>2, <4>3, <4>4, <4>5, <4>6, <4>7 DEF StreamStep
    <3> QED BY <2>0, <3>1
  <2>2. /\ registered' \in [Streams -> SUBSET Topics] /\ entitled' \in [Streams -> SUBSET Topics]
        /\ heard' \in [Streams -> Seq(Nat)] /\ queue' \in [Streams -> Seq(Nat)]
        /\ wire' \in [Streams -> Seq(Nat)] /\ UNCHANGED <<remote, time, tx, log, source>>
    <3>1. CASE Listen(s)
      BY <2>0, <3>1 DEF Listen, broker, publishers
    <3>2. CASE Grant(s)
      BY <2>0, <3>2 DEF Grant, Grantable, broker, publishers
    <3>3. CASE StartEmpty(s) \/ WindowOver(s) \/ Disconnect(s) \/ Abandon(s)
      <4>1. /\ heard' = [heard EXCEPT ![s] = <<>>] /\ entitled' = [entitled EXCEPT ![s] = {}]
            /\ UNCHANGED <<remote, time, tx, log, source>>
        BY <3>3 DEF StartEmpty, WindowOver, Disconnect, Abandon, Close, publishers
      <4>2. /\ registered' = registered \/ registered' = [registered EXCEPT ![s] = {}]
            /\ queue' = queue \/ queue' = [queue EXCEPT ![s] = <<>>]
            /\ wire' = wire \/ wire' = [wire EXCEPT ![s] = <<>>]
        BY <3>3 DEF StartEmpty, WindowOver, Disconnect, Abandon, Unregister, broker
      <4>3. <<>> \in Seq(Nat) /\ {} \in SUBSET Topics
        OBVIOUS
      <4> QED BY <2>0, <4>1, <4>2, <4>3
    <3>4. CASE StartRemote(s) \/ LoopTop(s) \/ KeepAlive(s)
      BY <2>0, <3>4 DEF StartRemote, LoopTop, KeepAlive, broker, publishers
    <3>5. CASE StartInMemory(s) \/ Confirmed(s)
      BY <2>0, <3>5 DEF StartInMemory, Confirmed, Register, StreamRecord, publishers
    <3>6. CASE Deliver(s)
      <4>1. /\ Append(heard[s], Head(queue[s])) \in Seq(Nat) /\ Tail(queue[s]) \in Seq(Nat)
        BY <2>0, <3>6, MoveHead DEF Deliver
      <4> QED BY <2>0, <3>6, <4>1 DEF Deliver, publishers
    <3>7. CASE Pump(s)
      <4>1. /\ Append(queue[s], Head(wire[s])) \in Seq(Nat) /\ Tail(wire[s]) \in Seq(Nat)
        BY <2>0, <3>7, MoveHead DEF Pump
      <4> QED BY <2>0, <3>7, <4>1 DEF Pump, publishers
    <3> QED BY <1>3, <3>1, <3>2, <3>3, <3>4, <3>5, <3>6, <3>7 DEF StreamStep
  <2> QED BY <2>1, <2>2 DEF Types
<1>4. ASSUME NEW t \in Transactions, TransactionStep(t) PROVE Types'
  <2>1. CASE Mutate(t) \/ Commit(t) \/ RollBack(t)
    <3>1. Invalidates[t] \in Seq(Uris) /\ tx[t] \in [phase : Phases, left : Seq(Uris)]
      BY <1>4, SubscriptionsAssumption DEF Types
    <3>2. tx' \in [Transactions -> [phase : Phases, left : Seq(Uris)]]
      <4>1. tx \in [Transactions -> [phase : Phases, left : Seq(Uris)]]
        BY DEF Types
      <4>2. CASE Mutate(t)
        BY <3>1, <4>1, <4>2 DEF Mutate, Phases
      <4>3. CASE Commit(t)
        BY <3>1, <4>1, <4>3 DEF Commit, Phases
      <4>4. CASE RollBack(t)
        <5>1. [phase |-> "rolled back", left |-> <<>>] \in [phase : Phases, left : Seq(Uris)]
          BY DEF Phases
        <5> QED BY <4>1, <4>4, <5>1 DEF RollBack
      <4> QED BY <2>1, <4>2, <4>3, <4>4
    <3> QED BY <2>1, <3>2 DEF Mutate, Commit, RollBack, Types, broker
  <2>2. CASE PublishNext(t)
    <3>1. /\ tx[t].left \in Seq(Uris) /\ tx[t].left # <<>>
          /\ Publish(Head(tx[t].left), t)
      BY <1>4, <2>2 DEF PublishNext, Types
    <3>2. Head(tx[t].left) \in Uris /\ Tail(tx[t].left) \in Seq(Uris)
      BY <3>1, HeadTailProperties
    <3>3. tx' \in [Transactions -> [phase : Phases, left : Seq(Uris)]]
      BY <2>2, <3>2 DEF PublishNext, Types
    <3>4. Head(tx[t].left) \in Topics /\ t \in Transactions \cup {0}
      BY <1>4, <3>2 DEF Topics
    <3> QED BY <2>2, <3>1, <3>3, <3>4, PublishTyped DEF PublishNext, Types
  <2> QED BY <1>4, <2>1, <2>2 DEF TransactionStep
<1>5. ASSUME NEW t \in ListKinds \cup TaskIds, Announce(t) PROVE Types'
  <2>1. t \in Topics /\ 0 \in Transactions \cup {0} /\ Publish(t, 0)
    BY <1>5 DEF Topics, Announce
  <2> QED BY <1>5, <2>1, PublishTyped DEF Announce, Types
<1> QED BY <1>1, <1>2, <1>3, <1>4, <1>5 DEF SubscriptionsNext

-----------------------------------------------------------------------------
(* The cap.                                                                *)

\* Those who are let in hold a place in the broker or are on their way to it.
LEMMA OpenIs ==
  ASSUME Types, \A s \in Streams : StreamInv(s)
  PROVE  Open = Active \cup Coming /\ Active \subseteq Open
<1>1. ASSUME NEW s \in Streams
      PROVE  (s \in Active) <=> stream[s].pc \in {"loop", "waiting"}
  <2>1. registered[s] = (IF Acked(s) THEN stream[s].granted ELSE {}) /\ (Acked(s) => stream[s].granted # {})
    BY DEF StreamInv, Fed
  <2> QED BY <2>1 DEF Active, Acked
<1>2. \A s \in Streams : stream[s].pc \in Places
  BY DEF Types, StreamRecord
<1>3. ASSUME NEW s \in Streams
      PROVE  (s \in Open) <=> (s \in Active \/ s \in Coming)
  BY <1>1, <1>2 DEF Open, Coming, Places
<1> QED BY <1>3 DEF Open, Active, Coming

\* A step that lets nobody in keeps the bound.
LEMMA FewerKeeps ==
  ASSUME Admitted, Open' \subseteq Open, \A s \in Open' : stream'[s].rivals = stream[s].rivals
  PROVE  Admitted'
<1> SUFFICES ASSUME NEW X \in SUBSET Open', X # {}
             PROVE  \E s \in X : Cardinality(X) <= Cap + stream'[s].rivals
  BY DEF Admitted
<1>1. PICK s \in X : Cardinality(X) <= Cap + stream[s].rivals
  BY DEF Admitted
<1> QED BY <1>1

\* Whoever is let in finds the cap free and counts those who were let in and are not yet fed.
LEMMA ListenKeeps ==
  ASSUME Types, Types', Admitted, \A s \in Streams : StreamInv(s),
         NEW s \in Streams, Listen(s)
  PROVE  Admitted'
<1>0. stream \in [Streams -> StreamRecord]
  BY DEF Types
<1>1. CASE Move(s, "closed")
  <2>1. /\ stream'[s].pc = "closed"
        /\ \A z \in Streams \ {s} : stream'[z] = stream[z]
    BY <1>0, <1>1 DEF Move, StreamRecord
  <2>2. Open' \subseteq Open /\ \A z \in Open' : stream'[z].rivals = stream[z].rivals
    BY <2>1 DEF Open
  <2> QED BY <2>2, FewerKeeps
<1>2. CASE ~Move(s, "closed")
  <2>1. /\ ~(Cardinality(Active) >= Cap) /\ stream'[s].rivals = Cardinality(Coming)
        /\ \A z \in Streams \ {s} : stream'[z] = stream[z]
    <3>1. ~OverCap
      BY <1>2 DEF Listen
    <3>2. PICK asked \in Asked : stream' = [stream EXCEPT ![s] =
            [stream[s] EXCEPT !.pc = "admitted", !.asked = asked, !.rivals = Cardinality(Coming)]]
      BY <1>2 DEF Listen, Update
    <3>3. stream'[s].rivals = Cardinality(Coming)
      BY <1>0, <3>2 DEF StreamRecord
    <3> QED BY <1>0, <3>1, <3>2, <3>3 DEF OverCap
  <2>2. /\ IsFiniteSet(Active) /\ IsFiniteSet(Coming)
        /\ Cardinality(Active) \in Nat /\ Cardinality(Coming) \in Nat /\ Cap \in Nat
    <3>1. IsFiniteSet(Streams) /\ Active \in SUBSET Streams /\ Coming \in SUBSET Streams
      BY SubscriptionsAssumption DEF Active, Coming
    <3>2. IsFiniteSet(Active) /\ IsFiniteSet(Coming)
      BY <3>1, FS_Subset
    <3> QED BY <3>2, FS_CardinalityType, SubscriptionsAssumption
  <2> SUFFICES ASSUME NEW X \in SUBSET Open', X # {}
               PROVE  \E z \in X : Cardinality(X) <= Cap + stream'[z].rivals
    BY DEF Admitted
  <2>3. X \ {s} \subseteq Open
    BY <2>1 DEF Open
  <2>4. CASE s \in X
    <3> DEFINE Y == (Active \cup Coming) \cup {s}
    <3>1. X \in SUBSET Y
      BY <2>3, OpenIs
    <3>2. /\ IsFiniteSet(Active \cup Coming)
          /\ Cardinality(Active \cup Coming)
               = Cardinality(Active) + Cardinality(Coming) - Cardinality(Active \cap Coming)
      BY <2>2, FS_Union
    <3>3. IsFiniteSet(Active \cap Coming) /\ Cardinality(Active \cap Coming) \in Nat
      BY <2>2, FS_Intersection, FS_CardinalityType
    <3>4. /\ IsFiniteSet(Y)
          /\ Cardinality(Y) <= Cardinality(Active \cup Coming) + 1
      <4>1. /\ IsFiniteSet(Y)
            /\ Cardinality(Y) = IF s \in Active \cup Coming THEN Cardinality(Active \cup Coming)
                                ELSE Cardinality(Active \cup Coming) + 1
        BY <3>2, FS_AddElement
      <4>2. Cardinality(Active \cup Coming) \in Nat
        BY <3>2, FS_CardinalityType
      <4> HIDE DEF Y
      <4> QED BY <4>1, <4>2
    <3>5. Cardinality(X) <= Cardinality(Y) /\ Cardinality(X) \in Nat /\ Cardinality(Y) \in Nat
      <4> HIDE DEF Y
      <4> QED BY <3>1, <3>4, FS_Subset, FS_CardinalityType
    <3>6. Cardinality(X) <= Cap + stream'[s].rivals
      <4> HIDE DEF Y
      <4> QED BY <2>1, <2>2, <3>2, <3>3, <3>4, <3>5
    <3> QED BY <2>4, <3>6
  <2>5. CASE s \notin X
    <3>1. PICK z \in X : Cardinality(X) <= Cap + stream[z].rivals
      BY <2>3, <2>5 DEF Admitted
    <3>2. stream'[z] = stream[z]
      BY <2>1, <2>5, <3>1 DEF Open
    <3> QED BY <3>1, <3>2
  <2> QED BY <2>4, <2>5
<1> QED BY <1>1, <1>2

\* No other step of a stream lets anybody in.
LEMMA AdmittedKept ==
  ASSUME Types, Types', Admitted, \A s \in Streams : StreamInv(s),
         NEW s \in Streams, StreamStep(s) \/ Disconnect(s) \/ Abandon(s)
  PROVE  Admitted'
<1>0. stream \in [Streams -> StreamRecord] /\ stream[s] \in StreamRecord
  BY DEF Types
<1>1. CASE Listen(s)
  BY <1>1, ListenKeeps
<1>2. CASE ~Listen(s)
  <2>1. \A z \in Streams \ {s} : stream'[z] = stream[z]
    BY <1>0, <1>2
    DEF StreamStep, Grant, StartEmpty, StartInMemory, StartRemote, Confirmed, LoopTop, WindowOver,
        Deliver, KeepAlive, Pump, Disconnect, Abandon, Close, Move, Update, Acknowledged
  <2>2. s \in Open' => s \in Open /\ stream'[s].rivals = stream[s].rivals
    <3>1. CASE StartEmpty(s) \/ WindowOver(s) \/ Disconnect(s) \/ Abandon(s)
      <4>1. stream'[s] = [Fresh EXCEPT !.pc = "closed"]
        BY <1>0, <3>1 DEF StartEmpty, WindowOver, Disconnect, Abandon, Close
      <4>2. stream'[s].pc = "closed"
        BY <4>1 DEF Fresh
      <4> QED BY <4>2 DEF Open
    <3>2. CASE Grant(s)
      BY <1>0, <3>2 DEF Grant, Update, Open, StreamRecord
    <3>3. CASE StartInMemory(s) \/ Confirmed(s)
      <4>1. stream[s].pc \in {"granted", "subscribing"} /\ Acknowledged(s)
        BY <3>3 DEF StartInMemory, Confirmed
      <4>2. stream'[s].rivals = stream[s].rivals
        BY <1>0, <4>1 DEF Acknowledged, Update, StreamRecord
      <4> QED BY <4>1, <4>2 DEF Open
    <3>4. CASE StartRemote(s) \/ LoopTop(s) \/ KeepAlive(s)
      BY <1>0, <3>4 DEF StartRemote, LoopTop, KeepAlive, Move, Open, StreamRecord
    <3>5. CASE Deliver(s)
      BY <1>0, <3>5 DEF Deliver, Update, Open, StreamRecord
    <3>6. CASE Pump(s)
      BY <3>6 DEF Pump, Open
    <3> QED BY <1>2, <3>1, <3>2, <3>3, <3>4, <3>5, <3>6 DEF StreamStep
  <2>3. Open' \subseteq Open /\ \A z \in Open' : stream'[z].rivals = stream[z].rivals
    BY <2>1, <2>2 DEF Open
  <2> QED BY <2>3, FewerKeeps
<1> QED BY <1>1, <1>2

-----------------------------------------------------------------------------
(* What is announced.                                                      *)

\* Publishing on behalf of whom has committed, or of nobody, announces no other write.
LEMMA SourcesCommitted ==
  ASSUME Types, NothingUncommitted, NEW t, NEW from \in Transactions \cup {0}, Publish(t, from),
         from # 0 => tx[from].phase = "committed",
         \A x \in Transactions : tx[x].phase = "committed" => tx'[x].phase = "committed"
  PROVE  NothingUncommitted'
<1>1. source \in Seq(Transactions \cup {0}) /\ source' = Append(source, from)
  BY DEF Types, Publish
<1>2. /\ DOMAIN source' = DOMAIN source \cup {Len(source) + 1}
      /\ \A i \in DOMAIN source : source'[i] = source[i]
      /\ source'[Len(source) + 1] = from
  BY <1>1, AppendHolds
<1>3. \A i \in DOMAIN source : source[i] \in Transactions \cup {0}
  BY <1>1
<1> QED BY <1>2, <1>3 DEF NothingUncommitted

\* A committed transaction stays so, and only such a one publishes.
LEMMA CommittedKept ==
  ASSUME Types, NothingUncommitted, [SubscriptionsNext]_subscriptionVars
  PROVE  NothingUncommitted'
<1>0. \A i \in DOMAIN source : source[i] \in Transactions \cup {0}
  BY DEF Types
<1>1. CASE UNCHANGED <<tx, source>>
  BY <1>1 DEF NothingUncommitted
<1>2. ASSUME NEW t \in Transactions, TransactionStep(t) PROVE NothingUncommitted'
  <2>1. tx \in [Transactions -> [phase : Phases, left : Seq(Uris)]]
    BY DEF Types
  <2>2. CASE Mutate(t) \/ Commit(t) \/ RollBack(t)
    <3>1. source' = source /\ tx[t].phase # "committed"
      <4>1. CASE Mutate(t)
        <5>1. tx[t] = [phase |-> "open", left |-> <<>>]
          BY <4>1 DEF Mutate
        <5>2. tx[t].phase = "open"
          BY <5>1
        <5> QED BY <4>1, <5>2 DEF Mutate
      <4>2. CASE Commit(t) \/ RollBack(t)
        BY <4>2 DEF Commit, RollBack
      <4> QED BY <2>2, <4>1, <4>2
    <3>2. \A x \in Transactions \ {t} : tx'[x] = tx[x]
      BY <2>1, <2>2 DEF Mutate, Commit, RollBack
    <3> QED BY <1>0, <3>1, <3>2 DEF NothingUncommitted
  <2>3. CASE PublishNext(t)
    <3>1. tx[t].phase = "committed" /\ Publish(Head(tx[t].left), t)
      BY <2>3 DEF PublishNext
    <3>2. \A x \in Transactions : tx'[x].phase = tx[x].phase
      BY <2>1, <2>3 DEF PublishNext
    <3> QED BY <1>2, <3>1, <3>2, SourcesCommitted
  <2> QED BY <1>2, <2>2, <2>3 DEF TransactionStep
<1>3. ASSUME NEW t \in ListKinds \cup TaskIds, Announce(t) PROVE NothingUncommitted'
  <2>1. Publish(t, 0) /\ UNCHANGED tx
    BY <1>3 DEF Announce
  <2> QED BY <2>1, SourcesCommitted
<1>4. ASSUME NEW s \in Streams, StreamStep(s) \/ Disconnect(s) \/ Abandon(s)
      PROVE  UNCHANGED <<tx, source>>
  BY <1>4
  DEF StreamStep, Listen, Grant, StartEmpty, StartInMemory, StartRemote, Confirmed, LoopTop,
      WindowOver, Deliver, KeepAlive, Pump, Disconnect, Abandon, publishers
<1>5. CASE SubscriptionsTick \/ Revoke \/ UNCHANGED subscriptionVars
  BY <1>1, <1>5 DEF SubscriptionsTick, Revoke, subscriptionVars, publishers
<1> QED BY <1>1, <1>2, <1>3, <1>4, <1>5 DEF SubscriptionsNext

-----------------------------------------------------------------------------
(* The invariant holds.                                                    *)

\* It holds at first.
LEMMA InvHoldsInitially == SubscriptionsInit => Inv
<1> SUFFICES ASSUME SubscriptionsInit PROVE Inv
  OBVIOUS
<1>1. Types
  BY TypesHoldInitially
<1>2. NothingUncommitted
  BY DEF SubscriptionsInit, NothingUncommitted
<1>3. Open = {}
  BY DEF SubscriptionsInit, Open, Fresh
<1>4. Admitted
  BY <1>3 DEF Admitted
<1>5. ASSUME NEW s \in Streams PROVE StreamInv(s)
  <2>1. /\ stream[s] = Fresh /\ registered[s] = {} /\ entitled[s] = {}
        /\ heard[s] = <<>> /\ queue[s] = <<>> /\ wire[s] = <<>>
    BY DEF SubscriptionsInit
  <2>2. Kept(s) = <<>>
    BY <2>1, ConcatEmptySeq DEF Kept
  <2>3. ~Acked(s) /\ stream[s].pc = "idle" /\ stream[s].late = 0 /\ stream[s].granted = {}
    BY <2>1 DEF Acked, Fresh
  <2>4. Carried(s)
    BY <2>2 DEF Carried, Rising
  <2> QED BY <2>1, <2>3, <2>4 DEF StreamInv, Fed, Quiet, Live, Timely
<1> QED BY <1>1, <1>2, <1>4, <1>5 DEF Inv

\* Every step keeps it.
LEMMA InvKept == Inv /\ [SubscriptionsNext]_subscriptionVars => Inv'
<1> SUFFICES ASSUME Inv, [SubscriptionsNext]_subscriptionVars PROVE Inv'
  OBVIOUS
<1>1. Types /\ NothingUncommitted /\ Admitted /\ \A s \in Streams : StreamInv(s)
  BY DEF Inv
<1>2. Types' /\ NothingUncommitted'
  BY <1>1, TypesKept, CommittedKept
<1>3. CASE UNCHANGED subscriptionVars
  <2>1. time' \in Nat /\ time <= time'
    BY <1>1, <1>3 DEF Types, subscriptionVars
  <2>2. \A s \in Streams : StreamInv(s)'
    BY <1>1, <1>3, <2>1, Untouched DEF subscriptionVars
  <2>3. Admitted'
    BY <1>1, <1>3 DEF Admitted, Open, subscriptionVars
  <2> QED BY <1>2, <2>2, <2>3 DEF Inv
<1>4. CASE \E s \in Streams : StreamStep(s) \/ Disconnect(s) \/ Abandon(s)
  <2>1. PICK s \in Streams : StreamStep(s) \/ Disconnect(s) \/ Abandon(s)
    BY <1>4
  <2>2. Admitted'
    BY <1>1, <1>2, <2>1, AdmittedKept
  <2>3. ASSUME NEW z \in Streams, z # s PROVE StreamInv(z)'
    <3>1. /\ stream'[z] = stream[z] /\ registered'[z] = registered[z] /\ queue'[z] = queue[z]
          /\ wire'[z] = wire[z] /\ heard'[z] = heard[z] /\ entitled'[z] = entitled[z]
          /\ UNCHANGED <<time, log, remote>>
      <4>1. /\ stream \in [Streams -> StreamRecord] /\ registered \in [Streams -> SUBSET Topics]
            /\ queue \in [Streams -> Seq(Nat)] /\ wire \in [Streams -> Seq(Nat)]
            /\ heard \in [Streams -> Seq(Nat)] /\ entitled \in [Streams -> SUBSET Topics]
        BY <1>1 DEF Types
      <4>2. CASE StartEmpty(s) \/ WindowOver(s) \/ Disconnect(s) \/ Abandon(s)
        BY <2>3, <4>1, <4>2
        DEF StartEmpty, WindowOver, Disconnect, Abandon, Close, Unregister, broker, publishers
      <4>3. CASE Listen(s) \/ Grant(s) \/ StartRemote(s) \/ LoopTop(s) \/ KeepAlive(s)
        BY <2>3, <4>1, <4>3
        DEF Listen, Grant, StartRemote, LoopTop, KeepAlive, Move, Update, broker, publishers
      <4>4. CASE StartInMemory(s) \/ Confirmed(s) \/ Deliver(s) \/ Pump(s)
        BY <2>3, <4>1, <4>4
        DEF StartInMemory, Confirmed, Deliver, Pump, Acknowledged, Register, Update, publishers
      <4> QED BY <2>1, <4>2, <4>3, <4>4 DEF StreamStep
    <3>2. time' \in Nat /\ time <= time'
      BY <1>1, <3>1 DEF Types
    <3> QED BY <1>1, <3>1, <3>2, Untouched
  <2>4. StreamInv(s)'
    BY <1>1, <1>2, <2>1, OwnStep
  <2> QED BY <1>2, <2>2, <2>3, <2>4 DEF Inv
<1>5. CASE SubscriptionsTick \/ Revoke \/ \E t \in Transactions : Mutate(t) \/ Commit(t) \/ RollBack(t)
  <2>1. /\ UNCHANGED <<stream, registered, queue, wire, heard, entitled, log, remote>>
        /\ time' = time \/ time' = time + 1
    BY <1>5 DEF SubscriptionsTick, Revoke, Mutate, Commit, RollBack, broker, publishers
  <2>2. time' \in Nat /\ time <= time'
    BY <1>1, <2>1 DEF Types
  <2>3. \A s \in Streams : StreamInv(s)'
    BY <1>1, <2>1, <2>2, Untouched
  <2>4. Admitted'
    BY <1>1, <2>1 DEF Admitted, Open
  <2> QED BY <1>2, <2>3, <2>4 DEF Inv
<1>6. ASSUME NEW t \in Topics, NEW from, Publish(t, from),
             UNCHANGED <<remote, time, stream, entitled, heard>>
      PROVE  Inv'
  <2>1. \A s \in Streams : StreamInv(s)'
    BY <1>1, <1>6, PublishKeeps
  <2>2. Admitted'
    BY <1>1, <1>6 DEF Admitted, Open
  <2> QED BY <1>2, <2>1, <2>2 DEF Inv
<1>7. ASSUME NEW t \in Transactions, PublishNext(t) PROVE Inv'
  <2>1. tx[t].left \in Seq(Uris) /\ tx[t].left # <<>>
    BY <1>1, <1>7 DEF PublishNext, Types
  <2>2. Head(tx[t].left) \in Topics
    BY <2>1, HeadTailProperties DEF Topics
  <2> QED BY <1>6, <1>7, <2>2 DEF PublishNext
<1>8. ASSUME NEW t \in ListKinds \cup TaskIds, Announce(t) PROVE Inv'
  BY <1>6, <1>8 DEF Announce, Topics
<1> QED BY <1>3, <1>4, <1>5, <1>7, <1>8 DEF SubscriptionsNext, TransactionStep

\* The invariant of the subscriptions, for any streams, topics, transactions and cap.
THEOREM StreamsHold == SubscriptionsSpec => []Inv
<1>1. SubscriptionsInit => Inv
  BY InvHoldsInitially
<1>2. Inv /\ [SubscriptionsNext]_subscriptionVars => Inv'
  BY InvKept
<1> QED BY <1>1, <1>2, PTL DEF SubscriptionsSpec

\* From its acknowledgement on a subscription misses nothing on its topics: what is due
\* is among what it keeps, in order and once, whichever the broker.
THEOREM AckedMissNothing == SubscriptionsSpec => []AckMeansLive
<1>1. Inv => AckMeansLive
  BY DEF Inv, StreamInv, AckMeansLive, Carried, Rising, Live, Due, Kept
<1> QED BY <1>1, StreamsHold, PTL

\* No stream carries a topic its caller was not entitled to when it was granted.
THEOREM OnlyTheEntitledHear == SubscriptionsSpec => []HearsOnlyGranted
<1>1. Inv => HearsOnlyGranted
  <2> SUFFICES ASSUME Inv, NEW s \in Streams, NEW n \in ToSet(heard[s])
               PROVE  log[n] \in stream[s].granted /\ log[n] \in entitled[s]
    BY DEF HearsOnlyGranted
  <2>1. Types /\ StreamInv(s)
    BY DEF Inv
  <2>2. heard[s] \in Seq(Nat) /\ queue[s] \in Seq(Nat) /\ wire[s] \in Seq(Nat)
    BY <2>1, KeptTyped
  <2>3. PICK i \in DOMAIN heard[s] : heard[s][i] = n
    BY DEF ToSet
  <2>4. i \in DOMAIN Kept(s) /\ Kept(s)[i] = n
    <3>1. /\ heard[s] \o queue[s] \in Seq(Nat) /\ i \in 1..Len(heard[s] \o queue[s])
          /\ (heard[s] \o queue[s])[i] = n
      <4> DEFINE a == heard[s]
                 b == queue[s]
      <4>1. a \in Seq(Nat) /\ b \in Seq(Nat) /\ i \in DOMAIN a /\ a[i] = n
        BY <2>2, <2>3
      <4> HIDE DEF a, b
      <4>2. a \o b \in Seq(Nat) /\ i \in 1..Len(a \o b) /\ (a \o b)[i] = n
        BY <4>1
      <4> QED BY <4>2 DEF a, b
    <3> DEFINE h == heard[s] \o queue[s]
    <3> HIDE DEF h
    <3>2. h \in Seq(Nat) /\ i \in 1..Len(h) /\ h[i] = n
      BY <3>1 DEF h
    <3>3. i \in DOMAIN (h \o wire[s]) /\ (h \o wire[s])[i] = n
      BY <2>2, <3>2
    <3> QED BY <3>3 DEF Kept, h
  <2> QED BY <2>1, <2>4 DEF StreamInv, Carried
<1> QED BY <1>1, StreamsHold, PTL

\* Nobody hears of a write that did not commit, however many transactions write at once.
THEOREM OnlyCommitsAreHeard == SubscriptionsSpec => []NothingUncommitted
<1>1. Inv => NothingUncommitted
  BY DEF Inv
<1> QED BY <1>1, StreamsHold, PTL

\* Every stream ends soon after its window and gives its place back, and the cap is passed
\* by those who came together only.
THEOREM PlacesAreKept == SubscriptionsSpec => []PlacesKept
<1>1. Inv => PlacesKept
  <2> SUFFICES ASSUME Inv PROVE PlacesKept
    OBVIOUS
  <2>1. WindowKept
    BY DEF Inv, StreamInv, Timely, WindowKept
  <2>2. PlacesGivenBack
    BY DEF Inv, StreamInv, Fed, PlacesGivenBack
  <2>3. CapPassedOnlyByBurst
    <3>1. Active \subseteq Open
      BY OpenIs DEF Inv
    <3> QED BY <3>1 DEF Inv, Admitted, CapPassedOnlyByBurst
  <2> QED BY <2>1, <2>2, <2>3 DEF PlacesKept
<1> QED BY <1>1, StreamsHold, PTL
=============================================================================
