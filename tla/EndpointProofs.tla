---------------------------- MODULE EndpointProofs ---------------------------
(* What holds of the endpoint for any number of requests, principals and       *)
(* sessions, any servers and any requests of the types: the inductive          *)
(* invariant, and what follows from it.                                        *)
EXTENDS Endpoint, FiniteSetTheorems, SequenceTheorems, WellFoundedInduction, TLAPS

-----------------------------------------------------------------------------
(* The invariant.                                                          *)

Owners == Principals \cup {Nobody}

\* What the store may hold for a session, what a request may hold, what is remembered.
EntryRecord == [owner : Owners, created : Int, until : Int]
RequestRecord ==
  [pc : {"idle", "owner", "refresh", "serve", "opened", "streaming"},
   m : Message \cup {NoMessage}, seen : EntryRecord, left : Int, at : Int, rivals : Nat]
BirthRecord == [owner : Owners, at : Int]

\* The shape of the state.
Types ==
  /\ config \in Config
  /\ now \in Nat
  /\ entry \in [Sessions -> EntryRecord]
  /\ live \in [Sessions -> Requests \cup {NoStream}]
  /\ req \in [Requests -> RequestRecord]
  /\ birth \in [Sessions -> BirthRecord]
  /\ used \in [Sessions -> Nat]
  /\ gone \subseteq Sessions /\ revived \subseteq Sessions

\* A request under way passed the checks of its method, and an owner is asked for where
\* one is needed.
Vetted(r) ==
  req[r].pc # "idle" =>
    /\ req[r].m \in Message
    /\ req[r].m.origin /\ req[r].m.caller # Nobody
    /\ Modern(req[r].m) /\ req[r].m.body # "notification" =>
         req[r].m.version = "modern" /\ req[r].m.headers
    /\ req[r].pc \in {"owner", "refresh", "opened", "streaming"} => NeedsOwner(req[r].m)

\* What is served on the strength of a session is served to whom it was born to.
OwnerServed(r) ==
  Served(r) => req[r].m.session \in Sessions /\ birth[req[r].m.session].owner = req[r].m.caller

\* Before a date that is not known there is none.
Since(created, s) == created # Unstamped => birth[s].at # Unstamped /\ birth[s].at <= created

\* What was read of a session is what it was born with, and what is left of it is less
\* than its age allows by a second at most, and never more.
ReadTruly(r) ==
  req[r].pc = "refresh" =>
    LET s == req[r].m.session
        e == req[r].seen
    IN /\ s \in Sessions /\ config.cached
       /\ e.owner = birth[s].owner /\ e.owner # Nobody
       /\ e.created # Unstamped /\ Since(e.created, s)
       /\ s \notin OldSessions => e.created = birth[s].at
       /\ 0 <= req[r].at /\ req[r].at <= now
       /\ \/ req[r].left = Ttl /\ req[r].at + Ttl <= e.created + MaxAge
          \/ /\ req[r].at + req[r].left + Hz > e.created + MaxAge
             /\ req[r].left > 0 => req[r].at + Hz <= e.created + MaxAge

\* What is stored is what the session was born with, and it is stored for as long as the
\* idle window or the age allows; what nobody was born to is not stored.
StoredTruly(s) ==
  /\ entry[s] # Absent =>
       /\ entry[s].owner = birth[s].owner /\ birth[s].owner # Nobody
       /\ Since(entry[s].created, s)
       /\ s \notin OldSessions => entry[s].created = birth[s].at /\ birth[s].at # Unstamped
  /\ birth[s].at <= now
  /\ s \in gone => birth[s].owner # Nobody
  /\ s \in gone \ revived => entry[s] = Absent

\* How long a session is kept: for an idle window after its last use, unless it is too
\* old or a DELETE ended it.
Aged(s) == birth[s].at # Unstamped /\ now + Hz > birth[s].at + MaxAge
KeptLong(s) ==
  birth[s].owner # Nobody /\ s \notin gone =>
    \/ Aged(s)
    \/ now >= used[s] + Ttl
    \/ /\ entry[s] # Absent
       /\ \/ ~config.cached
          \/ entry[s].until >= used[s] + Ttl
          \/ birth[s].at # Unstamped /\ entry[s].until + Hz > birth[s].at + MaxAge

\* A server whose sessions are in memory has no clock they could lapse by.
Timeless ==
  ~config.cached => now = 0 /\ \A s \in Sessions : entry[s] # Absent => entry[s].until > 0

\* The streams the broker feeds, each under the session it asked for.
Feeds == \A s \in Sessions :
  live[s] # NoStream => /\ live[s] \in Requests
                        /\ req[live[s]].pc = "streaming" /\ req[live[s]].m.session = s

\* Those the broker feeds and those it is about to; of any of them, one was let in when
\* the others were under the cap or among its rivals.
Fed == {r \in Requests : \E s \in Sessions : live[s] = r} \cup Opened
Admitted ==
  \A X \in SUBSET Fed : X # {} => \E r \in X : Cardinality(X) <= Cap + req[r].rivals

Inv ==
  /\ Types /\ Timeless /\ Feeds /\ Admitted
  /\ \A r \in Requests : Vetted(r) /\ OwnerServed(r) /\ ReadTruly(r)
  /\ \A s \in Sessions : StoredTruly(s) /\ KeptLong(s)

-----------------------------------------------------------------------------
(* What passes the checks.                                                 *)

\* None of the conditions holds, and none of the answers is to let the request pass.
Refusing(checks) == \A i \in DOMAIN checks : checks[i][2] # Pass
Clear(checks) == \A i \in DOMAIN checks : ~checks[i][1]

\* A set of naturals that is not empty has a least one.
LEMMA LeastExists ==
  ASSUME NEW S \in SUBSET Nat, S # {}
  PROVE  Min(S) \in S
<1>1. IsWellFoundedOn(OpToRel(<, Nat), Nat)
  BY NatLessThanWellFounded
<1>2. \E x \in S : \A y \in S : ~ (<<y, x>> \in OpToRel(<, Nat))
  BY <1>1, WFMin
<1>3. \A x, y \in Nat : y < x => <<y, x>> \in OpToRel(<, Nat)
  BY DEF OpToRel
<1>4. \E x \in S : \A y \in S : ~ (y < x)
  BY <1>2, <1>3
<1>5. \E x \in S : \A y \in S : x <= y
  BY <1>4
<1> QED BY <1>5 DEF Min

\* What passes a sequence of refusals meets none of their conditions.
LEMMA PassedAll ==
  ASSUME NEW S, NEW checks \in Seq(S), Refusing(checks), Verdict(checks, Pass) = Pass
  PROVE  Clear(checks)
<1> DEFINE failing == {i \in DOMAIN checks : checks[i][1]}
<1>1. failing \in SUBSET Nat
  OBVIOUS
<1>2. Verdict(checks, Pass) = IF failing = {} THEN Pass ELSE checks[Min(failing)][2]
  BY DEF Verdict
<1>3. failing # {} => Min(failing) \in DOMAIN checks
  <2>1. failing # {} => Min(failing) \in failing
    <3> HIDE DEF failing
    <3> QED BY <1>1, LeastExists
  <2> QED BY <2>1
<1>4. failing = {}
  <2> HIDE DEF failing
  <2> QED BY <1>2, <1>3 DEF Refusing
<1> QED BY <1>4 DEF Clear

\* Checks made one after the other are all passed.
LEMMA PassedBoth ==
  ASSUME NEW S, NEW a \in Seq(S), NEW b \in Seq(S), Clear(a \o b)
  PROVE  Clear(a) /\ Clear(b)
<1>1. /\ a \o b \in Seq(S) /\ Len(a \o b) = Len(a) + Len(b)
      /\ \A i \in 1..Len(a) + Len(b) : (a \o b)[i] = IF i <= Len(a) THEN a[i] ELSE b[i - Len(a)]
  BY ConcatProperties
<1>2. Len(a) \in Nat /\ Len(b) \in Nat
  OBVIOUS
<1>3. DOMAIN a = 1..Len(a) /\ DOMAIN b = 1..Len(b) /\ DOMAIN (a \o b) = 1..Len(a) + Len(b)
  BY <1>1
<1>4. ASSUME NEW i \in DOMAIN a PROVE ~a[i][1]
  <2>1. i \in 1..Len(a) + Len(b) /\ i <= Len(a)
    BY <1>2, <1>3
  <2>2. (a \o b)[i] = a[i]
    BY <1>1, <2>1
  <2> QED BY <1>3, <2>1, <2>2 DEF Clear
<1>5. ASSUME NEW i \in DOMAIN b PROVE ~b[i][1]
  <2> DEFINE k == i + Len(a)
  <2>1. k \in 1..Len(a) + Len(b) /\ ~(k <= Len(a)) /\ k - Len(a) = i
    BY <1>2, <1>3
  <2> HIDE DEF k
  <2>2. (a \o b)[k] = b[i]
    BY <1>1, <2>1
  <2> QED BY <1>3, <2>1, <2>2 DEF Clear
<1> QED BY <1>4, <1>5 DEF Clear

\* And refusals made one after the other are refusals.
LEMMA RefusingBoth ==
  ASSUME NEW S, NEW a \in Seq(S), NEW b \in Seq(S), Refusing(a), Refusing(b)
  PROVE  Refusing(a \o b)
<1>1. /\ a \o b \in Seq(S) /\ Len(a \o b) = Len(a) + Len(b)
      /\ \A i \in 1..Len(a) + Len(b) : (a \o b)[i] = IF i <= Len(a) THEN a[i] ELSE b[i - Len(a)]
  BY ConcatProperties
<1>2. Len(a) \in Nat /\ Len(b) \in Nat
  OBVIOUS
<1>3. DOMAIN a = 1..Len(a) /\ DOMAIN b = 1..Len(b) /\ DOMAIN (a \o b) = 1..Len(a) + Len(b)
  BY <1>1
<1>4. ASSUME NEW i \in DOMAIN (a \o b) PROVE (a \o b)[i][2] # Pass
  <2>1. CASE i <= Len(a)
    <3>1. i \in DOMAIN a /\ (a \o b)[i] = a[i]
      BY <1>1, <1>2, <1>3, <2>1
    <3> QED BY <3>1 DEF Refusing
  <2>2. CASE ~(i <= Len(a))
    <3>1. i - Len(a) \in DOMAIN b /\ (a \o b)[i] = b[i - Len(a)]
      BY <1>1, <1>2, <1>3, <2>2
    <3> QED BY <3>1 DEF Refusing
  <2> QED BY <2>1, <2>2
<1> QED BY <1>4 DEF Refusing

\* The checks of a POST, whichever its era.
LEMMA PostPassed ==
  ASSUME NEW m \in Message, Verdict(PostChecks(m), Pass) = Pass
  PROVE  /\ m.origin /\ m.caller # Nobody
         /\ Modern(m) /\ m.body # "notification" => m.version = "modern" /\ m.headers
<1>0. m.origin \in BOOLEAN /\ m.headers \in BOOLEAN
  BY DEF Message
<1> DEFINE b1 == <<~m.origin, 403>>
           b2 == <<m.body = "oversized", 413>>
           b3 == <<m.body = "garbage", 400>>
           b4 == <<m.body = "malformed", 400>>
           l1 == <<Negotiated(m.version, Sessionless(m)) = "none", 400>>
           l2 == <<m.caller = Nobody, 401>>
           l3 == <<GateApplies(m) /\ m.session = NoSession, 400>>
           m1 == <<m.body # "notification" /\ m.meta # "modern", 400>>
           m2 == <<m.body # "notification" /\ m.version # m.meta, 400>>
           m3 == <<m.body # "notification" /\ ~m.headers, 400>>
           S == {b1, b2, b3, b4, l1, l2, l3, m1, m2, m3}
<1>1. BodyChecks(m) \in Seq(S) /\ Refusing(BodyChecks(m))
  <2>1. BodyChecks(m) \in Seq(S)
    <3>1. BodyChecks(m) = <<b1, b2, b3, b4>>
      BY DEF BodyChecks
    <3> HIDE DEF b1, b2, b3, b4, l1, l2, l3, m1, m2, m3
    <3> QED BY <3>1
  <2>2. Refusing(BodyChecks(m))
    BY DEF BodyChecks, Refusing, Pass
  <2> QED BY <2>1, <2>2
<1>2. LegacyChecks(m) \in Seq(S) /\ Refusing(LegacyChecks(m))
  <2>1. LegacyChecks(m) \in Seq(S)
    <3>1. LegacyChecks(m) = <<l1, l2, l3>>
      BY DEF LegacyChecks
    <3> HIDE DEF b1, b2, b3, b4, l1, l2, l3, m1, m2, m3
    <3> QED BY <3>1
  <2>2. Refusing(LegacyChecks(m))
    BY DEF LegacyChecks, Refusing, Pass
  <2> QED BY <2>1, <2>2
<1>3. ModernChecks(m) \in Seq(S) /\ Refusing(ModernChecks(m))
  <2>1. ModernChecks(m) \in Seq(S)
    <3>1. ModernChecks(m) = <<m1, m2, m3, l2>>
      BY DEF ModernChecks
    <3> HIDE DEF b1, b2, b3, b4, l1, l2, l3, m1, m2, m3
    <3> QED BY <3>1
  <2>2. Refusing(ModernChecks(m))
    BY DEF ModernChecks, Refusing, Pass
  <2> QED BY <2>1, <2>2
<1> DEFINE era == IF Modern(m) THEN ModernChecks(m) ELSE LegacyChecks(m)
<1>4. era \in Seq(S) /\ Refusing(era) /\ PostChecks(m) = BodyChecks(m) \o era
  <2> HIDE DEF S
  <2> QED BY <1>2, <1>3 DEF PostChecks
<1>5. Clear(BodyChecks(m)) /\ Clear(era)
  <2> HIDE DEF S, era
  <2>1. BodyChecks(m) \o era \in Seq(S) /\ Refusing(BodyChecks(m) \o era)
    BY <1>1, <1>4, RefusingBoth, ConcatProperties, Zenon
  <2>2. Clear(BodyChecks(m) \o era)
    BY <1>4, <2>1, PassedAll
  <2> QED BY <1>1, <1>4, <2>2, PassedBoth, Zenon
<1>6. m.origin
  <2>1. 1 \in DOMAIN BodyChecks(m)
    BY DEF BodyChecks
  <2>2. ~BodyChecks(m)[1][1]
    BY <1>5, <2>1 DEF Clear
  <2> QED BY <1>0, <2>2 DEF BodyChecks
<1>7. CASE Modern(m)
  <2>1. Clear(ModernChecks(m))
    BY <1>5, <1>7
  <2>2. \A i \in 1..4 : ~ModernChecks(m)[i][1]
    <3>1. DOMAIN ModernChecks(m) = 1..4
      BY DEF ModernChecks
    <3> QED BY <2>1, <3>1 DEF Clear
  <2>3. /\ ~ModernChecks(m)[1][1] /\ ~ModernChecks(m)[2][1]
        /\ ~ModernChecks(m)[3][1] /\ ~ModernChecks(m)[4][1]
    BY <2>2
  <2> QED BY <1>0, <1>6, <2>3 DEF ModernChecks
<1>8. CASE ~Modern(m)
  <2>1. Clear(LegacyChecks(m))
    BY <1>5, <1>8
  <2>2. 2 \in DOMAIN LegacyChecks(m)
    BY DEF LegacyChecks
  <2>3. ~LegacyChecks(m)[2][1]
    BY <2>1, <2>2 DEF Clear
  <2> QED BY <1>6, <1>8, <2>3 DEF LegacyChecks
<1> QED BY <1>7, <1>8

\* Those of a GET on the async transport, and of a DELETE.
LEMMA GetOrDeletePassed ==
  ASSUME NEW m \in Message,
         \/ Verdict(GetChecks(m), Pass) = Pass
         \/ Verdict(DeleteChecks(m), Pass) = Pass
  PROVE  m.origin /\ m.caller # Nobody
<1>0. m.origin \in BOOLEAN
  BY DEF Message
<1>1. CASE Verdict(GetChecks(m), Pass) = Pass
  <2> DEFINE g1 == <<~m.origin, 403>>
             g2 == <<m.version = "modern", 405>>
             g3 == <<~config.push \/ ~config.sessions, 405>>
             g4 == <<m.caller = Nobody, 401>>
             g5 == <<Negotiated(m.version, FALSE) = "none", 400>>
             g6 == <<m.session = NoSession, 404>>
             S == {g1, g2, g3, g4, g5, g6}
  <2>1. GetChecks(m) \in Seq(S)
    <3>1. GetChecks(m) = <<g1, g2, g3, g4, g5, g6>>
      BY DEF GetChecks
    <3> HIDE DEF g1, g2, g3, g4, g5, g6
    <3> QED BY <3>1
  <2>2. Refusing(GetChecks(m))
    BY DEF GetChecks, Refusing, Pass
  <2>3. Clear(GetChecks(m))
    <3> HIDE DEF S
    <3> QED BY <1>1, <2>1, <2>2, PassedAll, Zenon
  <2>4. 1 \in DOMAIN GetChecks(m) /\ 4 \in DOMAIN GetChecks(m)
    BY DEF GetChecks
  <2>5. ~GetChecks(m)[1][1] /\ ~GetChecks(m)[4][1]
    BY <2>3, <2>4 DEF Clear
  <2> QED BY <1>0, <2>5 DEF GetChecks
<1>2. CASE Verdict(DeleteChecks(m), Pass) = Pass
  <2> DEFINE d1 == <<~m.origin, 403>>
             d2 == <<m.version = "modern" \/ ~config.sessions, 405>>
             d3 == <<m.caller = Nobody, 401>>
             d4 == <<m.session = NoSession, 204>>
             S == {d1, d2, d3, d4}
  <2>1. DeleteChecks(m) \in Seq(S)
    <3>1. DeleteChecks(m) = <<d1, d2, d3, d4>>
      BY DEF DeleteChecks
    <3> HIDE DEF d1, d2, d3, d4
    <3> QED BY <3>1
  <2>2. Refusing(DeleteChecks(m))
    BY DEF DeleteChecks, Refusing, Pass
  <2>3. Clear(DeleteChecks(m))
    <3> HIDE DEF S
    <3> QED BY <1>2, <2>1, <2>2, PassedAll, Zenon
  <2>4. 1 \in DOMAIN DeleteChecks(m) /\ 3 \in DOMAIN DeleteChecks(m)
    BY DEF DeleteChecks
  <2>5. ~DeleteChecks(m)[1][1] /\ ~DeleteChecks(m)[3][1]
    BY <2>3, <2>4 DEF Clear
  <2> QED BY <1>0, <2>5 DEF DeleteChecks
<1> QED BY <1>1, <1>2

\* The sync viewset opens no stream.
LEMMA SyncGetRefused ==
  ASSUME NEW m PROVE Verdict(SyncGetChecks(m), Pass) # Pass
<1> SUFFICES ASSUME Verdict(SyncGetChecks(m), Pass) = Pass PROVE FALSE
  OBVIOUS
<1> DEFINE g1 == <<~m.origin, 403>>
           g2 == <<TRUE, 405>>
           S == {g1, g2}
<1>1. SyncGetChecks(m) \in Seq(S)
  <2>1. SyncGetChecks(m) = <<g1, g2>>
    BY DEF SyncGetChecks
  <2> HIDE DEF g1, g2
  <2> QED BY <2>1
<1>2. Refusing(SyncGetChecks(m))
  BY DEF SyncGetChecks, Refusing, Pass
<1>3. Clear(SyncGetChecks(m))
  <2> HIDE DEF S
  <2> QED BY <1>1, <1>2, PassedAll, Zenon
<1>4. 2 \in DOMAIN SyncGetChecks(m)
  BY DEF SyncGetChecks
<1>5. ~SyncGetChecks(m)[2][1]
  BY <1>3, <1>4 DEF Clear
<1> QED BY <1>5 DEF SyncGetChecks

\* What nothing refuses comes from an allowed origin and an authenticated caller, and a
\* modern body says what its headers say.
LEMMA PassIsVetted ==
  ASSUME NEW m \in Message, Refusal(m) = Pass
  PROVE  /\ m.origin /\ m.caller # Nobody
         /\ Modern(m) /\ m.body # "notification" => m.version = "modern" /\ m.headers
<1>1. m.verb \in {"POST", "GET", "DELETE"}
  BY DEF Message
<1>2. CASE m.verb = "POST"
  <2>1. SyncPostChecks(m) = PostChecks(m)
    BY DEF SyncPostChecks, PostChecks, SyncBodyChecks, SyncLegacyChecks, SyncModernChecks
  <2>2. Verdict(PostChecks(m), Pass) = Pass
    BY <1>2, <2>1 DEF Refusal, ChecksOf, SyncChecksOf
  <2> QED BY <2>2, PostPassed
<1>3. CASE m.verb = "GET"
  <2>1. Verdict(GetChecks(m), Pass) = Pass
    BY <1>3, SyncGetRefused DEF Refusal, ChecksOf, SyncChecksOf
  <2> QED BY <1>3, <2>1, GetOrDeletePassed DEF Modern
<1>4. CASE m.verb = "DELETE"
  <2>1. Verdict(DeleteChecks(m), Pass) = Pass
    BY <1>4 DEF Refusal, ChecksOf, SyncChecksOf, SyncDeleteChecks
  <2> QED BY <1>4, <2>1, GetOrDeletePassed DEF Modern
<1> QED BY <1>1, <1>2, <1>3, <1>4

-----------------------------------------------------------------------------
(* What a step leaves alone.                                               *)

RequestInv(r) == Vetted(r) /\ OwnerServed(r) /\ ReadTruly(r)
SessionInv(s) == StoredTruly(s) /\ KeptLong(s)

\* A session once born keeps its owner, and its date once that is known.
BirthsStay ==
  \A s \in Sessions : birth[s].owner # Nobody =>
    /\ birth'[s].owner = birth[s].owner
    /\ birth[s].at # Unstamped => birth'[s].at = birth[s].at

\* A request that does not move is served as before.
LEMMA RequestRests ==
  ASSUME Types, NEW r \in Requests, RequestInv(r), req'[r] = req[r],
         config' = config, now' \in Nat, now <= now', BirthsStay
  PROVE  RequestInv(r)'
<1> USE DEF RequestInv
<1>0. req[r] \in RequestRecord /\ now \in Nat
  BY DEF Types
<1>1. Vetted(r)'
  BY DEF Vetted, Modern, NeedsOwner, GateApplies, Sessionless
<1>2. OwnerServed(r)'
  <2> SUFFICES ASSUME Served(r)'
               PROVE  /\ req[r].m.session \in Sessions
                      /\ birth'[req[r].m.session].owner = req[r].m.caller
    BY DEF OwnerServed
  <2>1. Served(r)
    BY DEF Served, Modern, NeedsOwner, GateApplies, Sessionless
  <2>2. req[r].m.caller # Nobody
    BY <2>1 DEF Served, Vetted
  <2> QED BY <2>1, <2>2 DEF OwnerServed, BirthsStay
<1>3. ReadTruly(r)'
  <2> SUFFICES ASSUME req[r].pc = "refresh" PROVE ReadTruly(r)'
    BY DEF ReadTruly
  <2>1. /\ req[r].m.session \in Sessions
        /\ birth'[req[r].m.session].owner = birth[req[r].m.session].owner
        /\ birth'[req[r].m.session].at = birth[req[r].m.session].at
    BY DEF ReadTruly, BirthsStay, Since
  <2> QED BY <1>0, <2>1 DEF ReadTruly, Since, RequestRecord
<1> QED BY <1>1, <1>2, <1>3

\* A request that is through holds nothing.
LEMMA IdleHolds ==
  ASSUME NEW r \in Requests, req'[r].pc = "idle"
  PROVE  RequestInv(r)'
BY DEF RequestInv, Vetted, OwnerServed, Served, ReadTruly

\* A session nobody touches stays as it was.
LEMMA SessionRests ==
  ASSUME Types, NEW s \in Sessions, SessionInv(s), config' = config, now' \in Nat, now <= now',
         entry'[s] = entry[s], birth'[s] = birth[s], used'[s] = used[s],
         s \in gone' <=> s \in gone, s \in revived' <=> s \in revived
  PROVE  SessionInv(s)'
<1>0. entry[s] \in EntryRecord /\ birth[s] \in BirthRecord /\ used[s] \in Nat /\ now \in Nat
  BY DEF Types
<1>1. StoredTruly(s)'
  <2>1. birth[s].at <= now /\ birth[s].at \in Int
    BY <1>0 DEF SessionInv, StoredTruly, BirthRecord
  <2>2. birth[s].at <= now'
    BY <1>0, <2>1
  <2> QED BY <2>2 DEF SessionInv, StoredTruly, Since
<1>2. KeptLong(s)'
  <2>1. Hz \in Nat /\ MaxAge \in Nat /\ Ttl \in Nat
    BY EndpointAssumption
  <2> QED BY <1>0, <2>1 DEF SessionInv, KeptLong, Aged, BirthRecord
<1> QED BY <1>1, <1>2 DEF SessionInv

-----------------------------------------------------------------------------
(* The shape of the state.                                                 *)

\* Absent is an entry, Idle a request.
LEMMA Literals == Absent \in EntryRecord /\ Idle \in RequestRecord
<1>1. Absent \in EntryRecord
  BY DEF Absent, EntryRecord, Owners
<1> QED BY <1>1 DEF Idle, RequestRecord

\* The initial state has the shape.
LEMMA TypesHoldInitially == Init => Types
<1> SUFFICES ASSUME Init PROVE Types
  OBVIOUS
<1>1. config \in Config /\ Ttl \in Nat /\ OldOwner \in Owners
  BY EndpointAssumption DEF Init, Owners
<1>2. entry \in [Sessions -> EntryRecord]
  <2>1. [owner |-> OldOwner, created |-> Unstamped, until |-> Ttl] \in EntryRecord
    BY <1>1 DEF EntryRecord, Unstamped
  <2> QED BY <2>1, Literals DEF Init
<1>3. birth \in [Sessions -> BirthRecord]
  <2>1. \A s \in Sessions : [owner |-> entry[s].owner, at |-> entry[s].created] \in BirthRecord
    BY <1>2 DEF EntryRecord, BirthRecord
  <2> QED BY <2>1 DEF Init
<1>4. /\ live \in [Sessions -> Requests \cup {NoStream}] /\ req \in [Requests -> RequestRecord]
      /\ used \in [Sessions -> Nat] /\ gone \subseteq Sessions /\ revived \subseteq Sessions
      /\ now \in Nat
  BY Literals DEF Init
<1> QED BY <1>1, <1>2, <1>3, <1>4 DEF Types

\* What a finished POST leaves in the store.
LEMMA FinishTyped ==
  ASSUME Types, NEW r \in Requests, Vetted(r), Finish(r)
  PROVE  /\ entry' \in [Sessions -> EntryRecord] /\ birth' \in [Sessions -> BirthRecord]
         /\ used' \in [Sessions -> Nat]
<1> DEFINE m == req[r].m
<1>1. m.caller \in Owners
  BY DEF Vetted, Finish, Message, Owners
<1>2. CASE UNCHANGED <<entry, birth, used>>
  BY <1>2 DEF Types
<1>3. CASE Create(m)
  <2>1. PICK s \in Sessions :
          /\ entry' = [entry EXCEPT ![s] = [owner |-> m.caller, created |-> now,
                         until |-> IF config.cached THEN now + Ttl ELSE MaxTime + 1]]
          /\ birth' = [birth EXCEPT ![s] = [owner |-> m.caller, at |-> now]]
          /\ used' = [used EXCEPT ![s] = now]
    BY <1>3 DEF Create
  <2> HIDE DEF m
  <2>2. now \in Nat /\ Ttl \in Nat /\ MaxTime \in Nat
    BY EndpointAssumption DEF Types
  <2>3. /\ [owner |-> m.caller, created |-> now,
            until |-> IF config.cached THEN now + Ttl ELSE MaxTime + 1] \in EntryRecord
        /\ [owner |-> m.caller, at |-> now] \in BirthRecord
    BY <1>1, <2>2 DEF EntryRecord, BirthRecord
  <2> QED BY <2>1, <2>2, <2>3 DEF Types
<1> QED BY <1>2, <1>3 DEF Finish

\* What a request may do next, on either transport.
RequestStep(r) ==
  \/ Receive(r) \/ OwnerRead(r) \/ Refresh(r) \/ Retire(r) \/ OwnerMiss(r) \/ OwnerInMemory(r)
  \/ Finish(r) \/ Listen(r) \/ OpenStream(r) \/ StartStream(r) \/ CloseStream(r) \/ Terminated(r)

\* A step is the clock's or a request's.
LEMMA StepIs == Next => Tick \/ \E r \in Requests : RequestStep(r)
BY DEF Next, RequestStep, Dispatch, DispatchModern, SyncDispatch, SyncDispatchModern, Destroy,
       SyncDestroy

\* A request's step keeps the shape.
LEMMA StepTyped ==
  ASSUME Inv, NEW r \in Requests, RequestStep(r)
  PROVE  Types' /\ config' = config /\ now' = now
<1>0. /\ Types /\ Vetted(r) /\ OwnerServed(r) /\ ReadTruly(r)
      /\ req \in [Requests -> RequestRecord] /\ req[r] \in RequestRecord
      /\ entry \in [Sessions -> EntryRecord] /\ now \in Nat /\ Idle \in RequestRecord
      /\ live \in [Sessions -> Requests \cup {NoStream}]
  BY Literals DEF Inv, Types
<1>1. CASE Receive(r)
  <2>1. PICK m \in Messages :
          req' = [req EXCEPT ![r] = [Idle EXCEPT !.m = m,
                                       !.pc = IF NeedsOwner(m) THEN "owner" ELSE "serve"]]
    BY <1>1 DEF Receive
  <2>2. [Idle EXCEPT !.m = m, !.pc = IF NeedsOwner(m) THEN "owner" ELSE "serve"] \in RequestRecord
    BY <1>0, EndpointAssumption DEF RequestRecord
  <2> QED BY <1>0, <1>1, <2>1, <2>2 DEF Receive, Types, history
<1>2. CASE OwnerRead(r)
  <2> DEFINE s == req[r].m.session
             e == Stored(s)
             created == IF e.created = Unstamped THEN now ELSE e.created
  <2>1. e \in EntryRecord /\ s \in Sessions
    BY <1>0, <1>2, Literals DEF Stored, OwnerRead
  <2>2. created \in Int
    BY <1>0, <2>1 DEF EntryRecord
  <2>3. Remaining(created) \in Int
    <3>1. /\ Ttl \in Int /\ MaxAge \in Int /\ Hz \in Nat \ {0}
      BY EndpointAssumption
    <3> HIDE DEF created
    <3>2. created + MaxAge - now \in Int
      BY <1>0, <2>2, <3>1
    <3>3. ((created + MaxAge - now) \div Hz) * Hz \in Int
      BY <3>1, <3>2
    <3> QED BY <3>1, <3>3 DEF Remaining
  <2>4. [e EXCEPT !.created = created, !.until = 0] \in EntryRecord
    <3>1. \A x \in EntryRecord, c, u \in Int : [x EXCEPT !.created = c, !.until = u] \in EntryRecord
      BY DEF EntryRecord
    <3>2. 0 \in Int
      OBVIOUS
    <3> HIDE DEF e, created
    <3> QED BY <2>1, <2>2, <3>1, <3>2, Zenon
  <2>5. req' \in [Requests -> RequestRecord]
    <3>1. req' = [req EXCEPT ![r].pc = "refresh", ![r].at = now, ![r].left = Remaining(created),
                             ![r].seen = [e EXCEPT !.created = created, !.until = 0]]
      BY <1>2 DEF OwnerRead
    <3>2. \A p \in {"refresh"}, a, l \in Int, x \in EntryRecord :
            [req[r] EXCEPT !.pc = p, !.at = a, !.left = l, !.seen = x] \in RequestRecord
      BY <1>0 DEF RequestRecord
    <3>3. req' = [req EXCEPT ![r] = [req[r] EXCEPT !.pc = "refresh", !.at = now,
                     !.left = Remaining(created), !.seen = [e EXCEPT !.created = created, !.until = 0]]]
      <4> HIDE DEF e, created
      <4> QED BY <1>0, <3>1
    <3>4. now \in Int
      BY <1>0
    <3> HIDE DEF e, created
    <3>5. [req[r] EXCEPT !.pc = "refresh", !.at = now, !.left = Remaining(created),
                         !.seen = [e EXCEPT !.created = created, !.until = 0]] \in RequestRecord
      BY <2>3, <2>4, <3>2, <3>4, Zenon
    <3> QED BY <1>0, <3>3, <3>5
  <2>6. birth' \in [Sessions -> BirthRecord]
    <3>1. birth' = birth \/ birth' = [birth EXCEPT ![s].at = now]
      BY <1>2 DEF OwnerRead
    <3> QED BY <1>0, <2>1, <3>1 DEF Types, BirthRecord
  <2> QED BY <1>0, <1>2, <2>5, <2>6 DEF OwnerRead, Types
<1>3. CASE Refresh(r)
  <2>1. [req[r].seen EXCEPT !.until = now + req[r].left] \in EntryRecord
    BY <1>0 DEF EntryRecord, RequestRecord
  <2>2. req' \in [Requests -> RequestRecord]
    <3>1. [Idle EXCEPT !.pc = "serve", !.m = req[r].m] \in RequestRecord
      BY <1>0 DEF RequestRecord
    <3> QED BY <1>0, <1>3, <3>1 DEF Refresh, Gate, Answered
  <2>3. req[r].m.session \in Sessions
    BY <1>0, <1>3 DEF Refresh, ReadTruly
  <2> QED BY <1>0, <1>3, <2>1, <2>2, <2>3 DEF Refresh, Types
<1>4. CASE Retire(r)
  BY <1>0, <1>4, Literals DEF Retire, Answered, Types, history
<1>5. CASE OwnerMiss(r) \/ Listen(r)
  BY <1>0, <1>5 DEF OwnerMiss, Listen, Answered, Types, history
<1>6. CASE OwnerInMemory(r)
  <2>1. [Idle EXCEPT !.pc = "serve", !.m = req[r].m] \in RequestRecord
    BY <1>0 DEF RequestRecord
  <2> QED BY <1>0, <1>6, <2>1 DEF OwnerInMemory, Gate, Answered, Types, history
<1>7. CASE Finish(r)
  <2>1. req' \in [Requests -> RequestRecord] /\ UNCHANGED <<config, now, live, gone, revived>>
    BY <1>0, <1>7 DEF Finish, Answered
  <2> QED BY <1>0, <1>7, <2>1, FinishTyped DEF Types
<1>8. CASE OpenStream(r)
  <2>1. Cardinality(Opened) \in Nat
    <3>1. IsFiniteSet(Requests) /\ Opened \subseteq Requests
      BY EndpointAssumption DEF Opened
    <3> QED BY <3>1, FS_Subset, FS_CardinalityType
  <2>2. [req[r] EXCEPT !.pc = "opened", !.rivals = Cardinality(Opened)] \in RequestRecord
    BY <1>0, <2>1 DEF RequestRecord
  <2>3. req' \in [Requests -> RequestRecord]
    BY <1>0, <1>8, <2>2 DEF OpenStream, Answered
  <2> QED BY <1>0, <1>8, <2>3 DEF OpenStream, Types, history
<1>9. CASE StartStream(r)
  <2>1. req' \in [Requests -> RequestRecord]
    BY <1>0, <1>9 DEF StartStream, Goto, RequestRecord
  <2> QED BY <1>0, <1>9, <2>1 DEF StartStream, Types, history
<1>10. CASE CloseStream(r)
  BY <1>0, <1>10 DEF CloseStream, Answered, Types, history
<1>11. CASE Terminated(r)
  <2>1. req[r].m.session \in Sessions
    BY <1>0, <1>11 DEF Terminated, OwnerServed, Served, NeedsOwner
  <2> QED BY <1>0, <1>11, <2>1, Literals DEF Terminated, Answered, Types
<1> QED BY <1>1, <1>2, <1>3, <1>4, <1>5, <1>6, <1>7, <1>8, <1>9, <1>10, <1>11 DEF RequestStep

-----------------------------------------------------------------------------
(* A request's own step.                                                   *)

\* It moves no other request.
LEMMA OthersRest ==
  ASSUME Types, NEW r \in Requests, RequestStep(r)
  PROVE  \A q \in Requests \ {r} : req'[q] = req[q]
BY DEF Types, RequestStep, Receive, OwnerRead, Refresh, Retire, OwnerMiss, OwnerInMemory, Finish,
       Listen, OpenStream, StartStream, CloseStream, Terminated, Gate, Answered, Goto

\* It keeps the owner and the date of every session that is born.
LEMMA BirthsAreKept ==
  ASSUME Types, NEW r \in Requests, RequestStep(r)
  PROVE  BirthsStay
<1>0. birth \in [Sessions -> BirthRecord]
  BY DEF Types
<1>1. CASE birth' = birth
  BY <1>1 DEF BirthsStay
<1>2. CASE OwnerRead(r)
  BY <1>0, <1>2 DEF OwnerRead, BirthsStay, BirthRecord
<1>3. CASE Finish(r)
  <2>1. birth' = birth \/ \E s \in Sessions : \E b :
          birth[s].owner = Nobody /\ birth' = [birth EXCEPT ![s] = b]
    BY <1>3 DEF Finish, Create
  <2> QED BY <1>0, <1>1, <2>1 DEF BirthsStay
<1> QED BY <1>1, <1>2, <1>3
    DEF RequestStep, Receive, Refresh, Retire, OwnerMiss, OwnerInMemory, Listen, OpenStream,
        StartStream, CloseStream, Terminated, history

\* Cut to seconds, what is left is less than a second short, and no more than there is.
LEMMA CutToSeconds ==
  ASSUME NEW a \in Int, NEW h \in Nat \ {0}
  PROVE  LET cut == (a \div h) * h
         IN cut \in Int /\ cut <= a /\ a < cut + h /\ (cut > 0 => cut >= h)
<1>1. a \div h \in Int /\ (a \div h) * h <= a /\ a < (a \div h) * h + h
  OBVIOUS
<1>2. \A q \in Int : q * h \in Int /\ (q * h > 0 => q * h >= h)
  OBVIOUS
<1> QED BY <1>1, <1>2

\* _remaining_lifetime: a whole idle window when the age leaves one, else the seconds the
\* age leaves.
LEMMA RemainingIs ==
  ASSUME Types, NEW created \in Int
  PROVE  \/ Remaining(created) = Ttl /\ now + Ttl <= created + MaxAge
         \/ /\ now + Remaining(created) + Hz > created + MaxAge
            /\ Remaining(created) > 0 => now + Hz <= created + MaxAge
<1>1. now \in Nat /\ Ttl \in Nat /\ MaxAge \in Nat /\ Hz \in Nat \ {0}
  BY EndpointAssumption DEF Types
<1> DEFINE a == created + MaxAge - now
           cut == (a \div Hz) * Hz
<1>2. a \in Int
  BY <1>1
<1>3. cut \in Int /\ cut <= a /\ a < cut + Hz /\ (cut > 0 => cut >= Hz)
  <2> HIDE DEF a
  <2> QED BY <1>1, <1>2, CutToSeconds
<1>4. Remaining(created) = IF a < Ttl THEN cut ELSE Ttl
  BY DEF Remaining
<1>5. CASE a < Ttl
  <2>1. Remaining(created) = cut
    BY <1>4, <1>5
  <2> HIDE DEF cut
  <2> QED BY <1>1, <1>3, <2>1
<1>6. CASE ~(a < Ttl)
  <2>1. Remaining(created) = Ttl
    BY <1>4, <1>6
  <2> QED BY <1>1, <1>6, <2>1
<1> QED BY <1>5, <1>6

\* What a request that matched its session's owner goes on with.
LEMMA GateOpens ==
  ASSUME Types, Types', NEW r \in Requests, Vetted(r), config' = config, birth' = birth,
         req[r].pc \in {"owner", "refresh"}, NEW owner, Gate(r, owner),
         req[r].m.session \in Sessions, owner = birth[req[r].m.session].owner
  PROVE  RequestInv(r)'
<1>0. req \in [Requests -> RequestRecord]
  BY DEF Types
<1>1. CASE Matches(r, owner)
  <2>1. req'[r].pc = "serve" /\ req'[r].m = req[r].m
    BY <1>0, <1>1 DEF Gate, Idle
  <2>2. Vetted(r)'
    BY <2>1 DEF Vetted, Modern
  <2>3. OwnerServed(r)'
    BY <1>1, <2>1 DEF OwnerServed, Matches
  <2> QED BY <2>1, <2>2, <2>3 DEF RequestInv, ReadTruly
<1>2. CASE ~Matches(r, owner)
  <2>1. req'[r].pc = "idle"
    BY <1>0, <1>2 DEF Gate, Answered, Idle
  <2> QED BY <2>1, IdleHolds
<1> QED BY <1>1, <1>2

\* A request's own step keeps its invariant.
LEMMA OwnStep ==
  ASSUME Inv, Types', NEW r \in Requests, RequestStep(r)
  PROVE  RequestInv(r)'
<1>0. /\ Types /\ Vetted(r) /\ OwnerServed(r) /\ ReadTruly(r)
      /\ \A s \in Sessions : StoredTruly(s)
      /\ req \in [Requests -> RequestRecord] /\ req[r] \in RequestRecord
      /\ entry \in [Sessions -> EntryRecord] /\ birth \in [Sessions -> BirthRecord] /\ now \in Nat
      /\ config' = config /\ now' = now
  BY StepTyped DEF Inv, Types
<1>1. CASE Receive(r)
  <2>1. PICK m \in Messages :
          /\ Refusal(m) = Pass
          /\ req' = [req EXCEPT ![r] = [Idle EXCEPT !.m = m,
                                          !.pc = IF NeedsOwner(m) THEN "owner" ELSE "serve"]]
    BY <1>1 DEF Receive
  <2>2. m \in Message
    BY EndpointAssumption
  <2>3. req'[r].m = m /\ req'[r].pc = IF NeedsOwner(m) THEN "owner" ELSE "serve"
    BY <1>0, <2>1 DEF Idle
  <2>4. NeedsOwner(m)' = NeedsOwner(m)
    BY <1>0 DEF NeedsOwner, GateApplies, Modern, Sessionless
  <2>5. Vetted(r)'
    BY <2>1, <2>2, <2>3, <2>4, PassIsVetted DEF Vetted, Modern, NeedsOwner, GateApplies, Sessionless
  <2>6. ~Served(r)'
    BY <1>0, <2>3 DEF Served, NeedsOwner, GateApplies, Modern, Sessionless
  <2> QED BY <2>3, <2>5, <2>6 DEF RequestInv, OwnerServed, ReadTruly
<1>2. CASE OwnerRead(r)
  <2> DEFINE s == req[r].m.session
             e == Stored(s)
             created == IF e.created = Unstamped THEN now ELSE e.created
  <2>1. e = entry[s] /\ entry[s] # Absent /\ s \in Sessions /\ config.cached /\ req[r].pc = "owner"
    BY <1>2 DEF OwnerRead, Stored
  <2>2. created \in Int /\ entry[s].created \in Int /\ birth[s].at \in Int
    BY <1>0, <2>1 DEF EntryRecord, BirthRecord
  <2>3. /\ req'[r].pc = "refresh" /\ req'[r].m = req[r].m /\ req'[r].at = now
        /\ req'[r].left = Remaining(created)
        /\ req'[r].seen.owner = e.owner /\ req'[r].seen.created = created
    <3>1. req' = [req EXCEPT ![r].pc = "refresh", ![r].at = now, ![r].left = Remaining(created),
                             ![r].seen = [e EXCEPT !.created = created, !.until = 0]]
      BY <1>2 DEF OwnerRead
    <3>2. e \in EntryRecord
      BY <1>0, <2>1
    <3> HIDE DEF e, created
    <3> QED BY <1>0, <3>1, <3>2 DEF RequestRecord, EntryRecord
  <2>4. birth' = IF birth[s].at = Unstamped THEN [birth EXCEPT ![s].at = now] ELSE birth
    BY <1>2 DEF OwnerRead
  <2>5. /\ birth'[s].owner = birth[s].owner
        /\ birth'[s].at = IF birth[s].at = Unstamped THEN now ELSE birth[s].at
    BY <1>0, <2>1, <2>4 DEF BirthRecord
  <2>6. Vetted(r)'
    BY <1>0, <2>1, <2>3 DEF Vetted, Modern, NeedsOwner, GateApplies, Sessionless
  <2>7. ~Served(r)'
    BY <2>3 DEF Served
  <2>8. /\ entry[s].owner = birth[s].owner /\ birth[s].owner # Nobody
        /\ entry[s].created # Unstamped => birth[s].at # Unstamped /\ birth[s].at <= entry[s].created
        /\ s \notin OldSessions => entry[s].created = birth[s].at /\ birth[s].at # Unstamped
    BY <1>0, <2>1 DEF StoredTruly, Since
  <2>9. /\ created # Unstamped /\ birth'[s].at # Unstamped /\ birth'[s].at <= created
        /\ s \notin OldSessions => created = birth'[s].at
    <3>1. now # Unstamped
      BY <1>0 DEF Unstamped
    <3>2. CASE entry[s].created = Unstamped
      <4>1. created = now /\ s \in OldSessions
        BY <2>1, <2>8, <3>2
      <4>2. birth[s].at # Unstamped => birth[s].at <= now
        BY <1>0, <2>1 DEF StoredTruly
      <4> QED BY <1>0, <2>5, <3>1, <4>1, <4>2
    <3>3. CASE entry[s].created # Unstamped
      <4>1. created = entry[s].created
        BY <2>1, <3>3
      <4> HIDE DEF created
      <4> QED BY <2>5, <2>8, <3>3, <4>1
    <3> QED BY <3>2, <3>3
  <2>10. \/ Remaining(created) = Ttl /\ now + Ttl <= created + MaxAge
         \/ /\ now + Remaining(created) + Hz > created + MaxAge
            /\ Remaining(created) > 0 => now + Hz <= created + MaxAge
    <3> HIDE DEF created
    <3> QED BY <1>0, <2>2, RemainingIs
  <2>11. ReadTruly(r)'
    <3> HIDE DEF created
    <3> QED BY <1>0, <2>1, <2>3, <2>5, <2>8, <2>9, <2>10, SMTT(60) DEF ReadTruly, Since
  <2> QED BY <2>6, <2>7, <2>11 DEF RequestInv, OwnerServed
<1>3. CASE Refresh(r)
  <2>1. /\ req[r].pc = "refresh" /\ Gate(r, req[r].seen.owner) /\ birth' = birth
        /\ req[r].m.session \in Sessions /\ req[r].seen.owner = birth[req[r].m.session].owner
    BY <1>0, <1>3 DEF Refresh, ReadTruly
  <2> QED BY <1>0, <2>1, GateOpens
<1>4. CASE OwnerInMemory(r)
  <2>1. /\ req[r].pc = "owner" /\ Gate(r, entry[req[r].m.session].owner) /\ birth' = birth
        /\ req[r].m.session \in Sessions /\ entry[req[r].m.session] # Absent
    BY <1>4 DEF OwnerInMemory, Stored, history
  <2>2. entry[req[r].m.session].owner = birth[req[r].m.session].owner
    BY <1>0, <2>1 DEF StoredTruly
  <2> QED BY <1>0, <2>1, <2>2, GateOpens
<1>5. CASE Retire(r) \/ OwnerMiss(r) \/ Finish(r) \/ Listen(r) \/ CloseStream(r) \/ Terminated(r)
  <2>1. req'[r] = Idle
    BY <1>0, <1>5 DEF Retire, OwnerMiss, Finish, Listen, CloseStream, Terminated, Answered
  <2> QED BY <2>1, IdleHolds DEF Idle
<1>6. CASE OpenStream(r) \/ StartStream(r)
  <2>1. /\ req[r].pc \in {"serve", "opened"} /\ NeedsOwner(req[r].m) /\ birth' = birth
        /\ req'[r].pc = "idle" \/ (req'[r].pc \in {"opened", "streaming"} /\ req'[r].m = req[r].m)
    <3>1. CASE OpenStream(r)
      BY <1>0, <3>1 DEF OpenStream, Answered, Idle, NeedsOwner, history, RequestRecord
    <3>2. CASE StartStream(r)
      BY <1>0, <3>2 DEF StartStream, Goto, Vetted, history, RequestRecord
    <3> QED BY <1>6, <3>1, <3>2
  <2>2. CASE req'[r].pc = "idle"
    BY <2>2, IdleHolds
  <2>3. CASE req'[r].pc \in {"opened", "streaming"} /\ req'[r].m = req[r].m
    <3>1. Vetted(r)'
      BY <1>0, <2>1, <2>3 DEF Vetted, Modern, NeedsOwner, GateApplies, Sessionless
    <3>2. OwnerServed(r)'
      BY <1>0, <2>1, <2>3 DEF OwnerServed, Served
    <3> QED BY <2>3, <3>1, <3>2 DEF RequestInv, ReadTruly
  <2> QED BY <2>1, <2>2, <2>3
<1> QED BY <1>1, <1>2, <1>3, <1>4, <1>5, <1>6 DEF RequestStep

-----------------------------------------------------------------------------
(* What it does to the sessions.                                           *)

\* A request's step keeps what the sessions hold and how long they are kept.
LEMMA SessionsKept ==
  ASSUME Inv, Types', NEW r \in Requests, RequestStep(r), NEW s \in Sessions
  PROVE  SessionInv(s)'
<1>0. /\ Types /\ Vetted(r) /\ OwnerServed(r) /\ ReadTruly(r)
      /\ SessionInv(s) /\ StoredTruly(s) /\ KeptLong(s)
      /\ req[r] \in RequestRecord
      /\ entry \in [Sessions -> EntryRecord] /\ birth \in [Sessions -> BirthRecord]
      /\ used \in [Sessions -> Nat] /\ now \in Nat /\ now <= now' /\ now' \in Nat
      /\ config' = config /\ now' = now /\ config.cached \in BOOLEAN
  <2>1. now \in Nat /\ now' = now /\ config' = config
    BY StepTyped DEF Inv, Types
  <2> QED BY <2>1 DEF Inv, Types, SessionInv, Config
<1>n. Hz \in Nat \ {0} /\ MaxAge \in Nat /\ Ttl \in Nat \ {0} /\ MaxTime \in Nat
  BY EndpointAssumption
<1>t. birth[s].at \in Int /\ entry[s].until \in Int /\ entry[s].created \in Int /\ used[s] \in Nat
  BY <1>0 DEF EntryRecord, BirthRecord
<1>1. CASE /\ entry'[s] = entry[s] /\ birth'[s] = birth[s] /\ used'[s] = used[s]
           /\ s \in gone' <=> s \in gone
           /\ s \in revived' <=> s \in revived
  BY <1>0, <1>1, SessionRests
<1>2. CASE OwnerRead(r)
  <2>1. /\ UNCHANGED <<entry, used, gone, revived>>
        /\ birth' = IF birth[req[r].m.session].at = Unstamped
                    THEN [birth EXCEPT ![req[r].m.session].at = now] ELSE birth
    BY <1>2 DEF OwnerRead
  <2>2. CASE birth'[s] = birth[s]
    BY <1>1, <2>1, <2>2
  <2>3. CASE birth'[s] # birth[s]
    <3>1. /\ birth[s].at = Unstamped /\ birth'[s].at = now /\ birth'[s].owner = birth[s].owner
      BY <1>0, <2>1, <2>3 DEF BirthRecord
    <3>2. StoredTruly(s)'
      BY <1>0, <2>1, <3>1 DEF StoredTruly, Since
    <3>3. KeptLong(s)'
      BY <1>0, <2>1, <3>1 DEF KeptLong, Aged
    <3> QED BY <3>2, <3>3 DEF SessionInv
  <2> QED BY <2>2, <2>3
<1>3. CASE Refresh(r)
  <2> DEFINE z == req[r].m.session
             e == [req[r].seen EXCEPT !.until = now + req[r].left]
  <2>1. /\ entry' = [entry EXCEPT ![z] = e] /\ used' = [used EXCEPT ![z] = now]
        /\ revived' = IF z \in gone THEN revived \cup {z} ELSE revived
        /\ UNCHANGED <<birth, gone>> /\ req[r].left > 0
    BY <1>3 DEF Refresh
  <2>2. CASE s # z
    BY <1>1, <2>1, <2>2
  <2>3. CASE s = z
    <3>1. /\ req[r].seen \in EntryRecord /\ req[r].left \in Int /\ req[r].at \in Int
      BY <1>0 DEF RequestRecord
    <3>2. /\ entry'[s].owner = req[r].seen.owner /\ entry'[s].created = req[r].seen.created
          /\ entry'[s].until = now + req[r].left /\ used'[s] = now
      BY <1>0, <2>1, <2>3, <3>1 DEF EntryRecord
    <3>3. /\ req[r].seen.owner = birth[s].owner /\ birth[s].owner # Nobody
          /\ req[r].seen.created # Unstamped /\ birth[s].at # Unstamped
          /\ birth[s].at <= req[r].seen.created /\ req[r].seen.created \in Int
          /\ s \notin OldSessions => req[r].seen.created = birth[s].at
          /\ req[r].at <= now
          /\ \/ req[r].left = Ttl
             \/ req[r].at + req[r].left + Hz > req[r].seen.created + MaxAge
      BY <1>0, <1>3, <2>3, <3>1 DEF Refresh, ReadTruly, Since, EntryRecord
    <3>4. entry'[s] # Absent
      BY <3>2, <3>3 DEF Absent
    <3>5. StoredTruly(s)'
      BY <1>0, <2>1, <2>3, <3>2, <3>3 DEF StoredTruly, Since
    <3>6. \/ entry'[s].until >= used'[s] + Ttl
          \/ entry'[s].until + Hz > birth[s].at + MaxAge
      BY <1>0, <1>n, <1>t, <3>1, <3>2, <3>3
    <3>7. KeptLong(s)'
      BY <2>1, <3>3, <3>4, <3>6 DEF KeptLong
    <3> QED BY <3>5, <3>7 DEF SessionInv
  <2> QED BY <2>2, <2>3
<1>4. CASE Retire(r)
  <2> DEFINE z == req[r].m.session
  <2>1. entry' = [entry EXCEPT ![z] = Absent] /\ UNCHANGED <<used, birth, gone, revived>>
    BY <1>4 DEF Retire, history
  <2>2. CASE s # z
    BY <1>1, <2>1, <2>2
  <2>3. CASE s = z
    <3>1. entry'[s] = Absent
      BY <1>0, <2>1, <2>3
    <3>2. StoredTruly(s)'
      BY <1>0, <2>1, <3>1 DEF StoredTruly
    <3>3. /\ req[r].left \in Int /\ req[r].at \in Int /\ req[r].seen.created \in Int
          /\ req[r].left <= 0
      BY <1>0, <1>4 DEF RequestRecord, EntryRecord, Retire
    <3>4. /\ birth[s].at # Unstamped /\ birth[s].at <= req[r].seen.created /\ req[r].at <= now
          /\ \/ req[r].left = Ttl
             \/ req[r].at + req[r].left + Hz > req[r].seen.created + MaxAge
      BY <1>0, <1>4, <2>3 DEF Retire, ReadTruly, Since
    <3>5. now + Hz > birth[s].at + MaxAge
      BY <1>0, <1>n, <1>t, <3>3, <3>4
    <3>6. KeptLong(s)'
      BY <1>0, <2>1, <3>4, <3>5 DEF KeptLong, Aged
    <3> QED BY <3>2, <3>6 DEF SessionInv
  <2> QED BY <2>2, <2>3
<1>5. CASE Finish(r)
  <2> DEFINE m == req[r].m
  <2>1. UNCHANGED <<gone, revived>> /\ m.caller # Nobody
    BY <1>0, <1>5 DEF Finish, Vetted
  <2>2. CASE UNCHANGED <<entry, birth, used>>
    BY <1>1, <2>1, <2>2
  <2>3. CASE Create(m)
    <3>1. PICK z \in Sessions :
            /\ birth[z].owner = Nobody
            /\ entry' = [entry EXCEPT ![z] = [owner |-> m.caller, created |-> now,
                           until |-> IF config.cached THEN now + Ttl ELSE MaxTime + 1]]
            /\ birth' = [birth EXCEPT ![z] = [owner |-> m.caller, at |-> now]]
            /\ used' = [used EXCEPT ![z] = now]
      BY <2>3 DEF Create
    <3> HIDE DEF m
    <3>2. CASE s # z
      BY <1>1, <2>1, <3>1, <3>2
    <3>3. CASE s = z
      <4>1. /\ entry'[s].owner = m.caller /\ entry'[s].created = now
            /\ entry'[s].until = (IF config.cached THEN now + Ttl ELSE MaxTime + 1)
            /\ birth'[s].owner = m.caller /\ birth'[s].at = now /\ used'[s] = now
        BY <1>0, <3>1, <3>3
      <4>2. entry'[s] # Absent
        BY <2>1, <4>1 DEF Absent
      <4>3. now # Unstamped /\ s \notin gone
        BY <1>0, <3>1, <3>3 DEF Unstamped, StoredTruly
      <4>4. StoredTruly(s)'
        BY <1>0, <2>1, <4>1, <4>3 DEF StoredTruly, Since
      <4>5. KeptLong(s)'
        <5>1. ~config'.cached \/ entry'[s].until >= used'[s] + Ttl
          BY <1>0, <1>n, <4>1
        <5> QED BY <4>2, <5>1 DEF KeptLong
      <4> QED BY <4>4, <4>5 DEF SessionInv
    <3> QED BY <3>2, <3>3
  <2> QED BY <1>5, <2>2, <2>3 DEF Finish
<1>6. CASE Terminated(r)
  <2> DEFINE z == req[r].m.session
  <2>1. /\ entry' = [entry EXCEPT ![z] = Absent] /\ gone' = gone \cup {z}
        /\ UNCHANGED <<used, birth, revived>>
    BY <1>6 DEF Terminated
  <2>2. CASE s # z
    BY <1>1, <2>1, <2>2
  <2>3. CASE s = z
    <3>1. entry'[s] = Absent
      BY <1>0, <2>1, <2>3
    <3>2. birth[s].owner # Nobody
      BY <1>0, <1>6, <2>3 DEF Terminated, OwnerServed, Served, NeedsOwner, Vetted
    <3>3. StoredTruly(s)'
      BY <1>0, <2>1, <3>1, <3>2 DEF StoredTruly
    <3> QED BY <2>1, <2>3, <3>3 DEF SessionInv, KeptLong
  <2> QED BY <2>2, <2>3
<1>7. CASE Receive(r) \/ OwnerMiss(r) \/ OwnerInMemory(r) \/ Listen(r) \/ OpenStream(r)
           \/ StartStream(r) \/ CloseStream(r)
  <2>1. UNCHANGED <<entry, birth, used, gone, revived>>
    BY <1>7 DEF Receive, OwnerMiss, OwnerInMemory, Listen, OpenStream, StartStream, CloseStream,
                history
  <2> QED BY <1>1, <2>1
<1> QED BY <1>2, <1>3, <1>4, <1>5, <1>6, <1>7 DEF RequestStep

\* In memory nothing lapses: there is no clock.
LEMMA TimelessKept ==
  ASSUME Inv, Types', NEW r \in Requests, RequestStep(r)
  PROVE  Timeless'
<1>1. config' = config /\ now' = now
  BY StepTyped
<1> SUFFICES ASSUME ~config.cached
             PROVE  \A s \in Sessions : entry'[s] # Absent => entry'[s].until > 0
  BY <1>1 DEF Inv, Timeless
<1>2. /\ \A s \in Sessions : entry[s] # Absent => entry[s].until > 0
      /\ entry \in [Sessions -> EntryRecord] /\ MaxTime \in Nat
  BY EndpointAssumption DEF Inv, Types, Timeless
<1>3. req[r].pc # "refresh"
  BY DEF Inv, ReadTruly
<1>4. CASE Finish(r)
  <2>1. entry' = entry \/ \E s \in Sessions : entry' = [entry EXCEPT ![s] =
          [owner |-> req[r].m.caller, created |-> now, until |-> MaxTime + 1]]
    BY <1>4 DEF Finish, Create
  <2>2. [owner |-> req[r].m.caller, created |-> now, until |-> MaxTime + 1].until > 0
    BY <1>2
  <2> QED BY <1>2, <2>1, <2>2
<1>5. CASE Terminated(r)
  BY <1>2, <1>5 DEF Terminated
<1>6. CASE entry' = entry
  BY <1>2, <1>6
<1> QED BY <1>3, <1>4, <1>5, <1>6
    DEF RequestStep, Receive, OwnerRead, Refresh, Retire, OwnerMiss, OwnerInMemory, Listen,
        OpenStream, StartStream, CloseStream

-----------------------------------------------------------------------------
(* The streams.                                                            *)

\* What the broker feeds is what asked for it.
LEMMA FeedsKept ==
  ASSUME Inv, Types', NEW r \in Requests, RequestStep(r)
  PROVE  Feeds'
<1>0. /\ Types /\ Feeds /\ OwnerServed(r) /\ Vetted(r) /\ NoStream \notin Requests
      /\ req \in [Requests -> RequestRecord] /\ req[r] \in RequestRecord
      /\ live \in [Sessions -> Requests \cup {NoStream}]
      /\ \A q \in Requests \ {r} : req'[q] = req[q]
  BY EndpointAssumption, OthersRest DEF Inv, Types
<1>1. CASE StartStream(r)
  <2>1. /\ live' = [live EXCEPT ![req[r].m.session] = r] /\ req[r].pc = "opened"
        /\ req'[r].pc = "streaming" /\ req'[r].m = req[r].m
    BY <1>0, <1>1 DEF StartStream, Goto, RequestRecord
  <2> QED BY <1>0, <2>1 DEF Feeds
<1>2. CASE CloseStream(r)
  <2>1. live' = [s \in Sessions |-> IF live[s] = r THEN NoStream ELSE live[s]]
    BY <1>2 DEF CloseStream
  <2>2. ASSUME NEW s \in Sessions, live'[s] # NoStream
        PROVE  /\ live'[s] \in Requests
               /\ req'[live'[s]].pc = "streaming" /\ req'[live'[s]].m.session = s
    <3>1. live'[s] = live[s] /\ live[s] # r /\ live[s] # NoStream
      BY <2>1, <2>2
    <3> QED BY <1>0, <3>1 DEF Feeds
  <2> QED BY <2>2 DEF Feeds
<1>3. CASE live' = live /\ req[r].pc # "streaming"
  <2>1. \A s \in Sessions : live[s] # r \/ live[s] = NoStream
    BY <1>3, <1>0 DEF Feeds
  <2> QED BY <1>0, <1>3, <2>1 DEF Feeds
<1>4. CASE ~StartStream(r) /\ ~CloseStream(r)
  <2>1. live' = live /\ req[r].pc # "streaming"
    BY <1>4
    DEF RequestStep, Receive, OwnerRead, Refresh, Retire, OwnerMiss, OwnerInMemory, Finish,
        Listen, OpenStream, Terminated
  <2> QED BY <1>3, <2>1
<1> QED BY <1>1, <1>2, <1>4

\* Those the broker feeds are as many as the sessions it feeds them under.
LEMMA FedOnce ==
  ASSUME Types, Feeds
  PROVE  LET holders == {live[s] : s \in Active}
         IN /\ IsFiniteSet(Active) /\ IsFiniteSet(holders)
            /\ Cardinality(Active) \in Nat /\ Cardinality(holders) = Cardinality(Active)
            /\ holders = {r \in Requests : \E s \in Sessions : live[s] = r}
<1> DEFINE holders == {live[s] : s \in Active}
           f == [s \in Active |-> live[s]]
<1>1. IsFiniteSet(Active)
  <2>1. Active \in SUBSET Sessions /\ IsFiniteSet(Sessions)
    BY EndpointAssumption DEF Active
  <2> QED BY <2>1, FS_Subset
<1>2. f \in Surjection(Active, holders)
  BY DEF Surjection
<1>3. f \in Injection(Active, holders)
  BY DEF Injection, IsInjective, Feeds, Active
<1>4. /\ IsFiniteSet(holders)
      /\ Cardinality(holders) = Cardinality(Active) <=> f \in Injection(Active, holders)
  BY <1>1, <1>2, FS_Surjection
<1>5. holders = {r \in Requests : \E s \in Sessions : live[s] = r}
  BY EndpointAssumption DEF Feeds, Active, Types
<1> QED BY <1>1, <1>3, <1>4, <1>5, FS_CardinalityType

\* A step that opens no stream keeps the bound.
LEMMA FewerKeeps ==
  ASSUME Admitted, Fed' \subseteq Fed, \A r \in Fed' : req'[r].rivals = req[r].rivals
  PROVE  Admitted'
<1> SUFFICES ASSUME NEW X \in SUBSET Fed', X # {}
             PROVE  \E r \in X : Cardinality(X) <= Cap + req'[r].rivals
  BY DEF Admitted
<1>1. PICK r \in X : Cardinality(X) <= Cap + req[r].rivals
  BY DEF Admitted
<1> QED BY <1>1

\* A stream opened finds the cap free and counts those opened and not yet fed.
LEMMA OpenKeeps ==
  ASSUME Inv, Types', NEW r \in Requests, OpenStream(r)
  PROVE  Admitted'
<1>0. /\ Types /\ Feeds /\ Admitted /\ req \in [Requests -> RequestRecord]
      /\ \A q \in Requests \ {r} : req'[q] = req[q]
      /\ live' = live /\ req[r].pc = "serve"
  <2>1. RequestStep(r)
    BY DEF RequestStep
  <2> QED BY <2>1, OthersRest DEF Inv, Types, OpenStream
<1> DEFINE holders == {live[s] : s \in Active}
<1>1. /\ IsFiniteSet(Active) /\ IsFiniteSet(holders)
      /\ Cardinality(Active) \in Nat /\ Cardinality(holders) = Cardinality(Active)
      /\ holders = {q \in Requests : \E s \in Sessions : live[s] = q}
  BY <1>0, FedOnce
<1>2. Fed = holders \cup Opened
  BY <1>1 DEF Fed
<1>3. r \notin Fed
  <2>1. r \notin Opened
    BY <1>0 DEF Opened
  <2>2. \A s \in Sessions : live[s] # r
    BY <1>0, EndpointAssumption DEF Feeds
  <2> QED BY <2>1, <2>2 DEF Fed
<1>4. CASE Full
  <2>1. req'[r].pc = "idle"
    BY <1>0, <1>4 DEF OpenStream, Answered, Idle
  <2>2. Fed' \subseteq Fed
    BY <1>0, <2>1 DEF Fed, Opened
  <2> QED BY <1>0, <1>3, <2>2, FewerKeeps DEF Fed, Opened
<1>5. CASE ~Full
  <2>1. req'[r].rivals = Cardinality(Opened) /\ ~(Cardinality(Active) >= Cap)
    BY <1>0, <1>5 DEF OpenStream, Full, RequestRecord
  <2>2. IsFiniteSet(Opened) /\ Cardinality(Opened) \in Nat /\ Cap \in Nat
    <3>1. IsFiniteSet(Requests) /\ Opened \in SUBSET Requests
      BY EndpointAssumption DEF Opened
    <3> QED BY <3>1, FS_Subset, FS_CardinalityType, EndpointAssumption
  <2>3. Fed' \subseteq Fed \cup {r}
    BY <1>0 DEF Fed, Opened
  <2> SUFFICES ASSUME NEW X \in SUBSET Fed', X # {}
               PROVE  \E z \in X : Cardinality(X) <= Cap + req'[z].rivals
    BY DEF Admitted
  <2>4. CASE r \in X
    <3> DEFINE Y == (holders \cup Opened) \cup {r}
    <3> HIDE DEF holders
    <3>1. X \in SUBSET Y
      BY <1>2, <2>3
    <3>2. /\ IsFiniteSet(holders \cup Opened)
          /\ Cardinality(holders \cup Opened)
               = Cardinality(holders) + Cardinality(Opened) - Cardinality(holders \cap Opened)
      BY <1>1, <2>2, FS_Union
    <3>3. IsFiniteSet(holders \cap Opened) /\ Cardinality(holders \cap Opened) \in Nat
      BY <2>2, FS_Intersection, FS_CardinalityType
    <3>4. IsFiniteSet(Y) /\ Cardinality(Y) <= Cardinality(holders \cup Opened) + 1
      <4>1. /\ IsFiniteSet(Y)
            /\ Cardinality(Y) = IF r \in holders \cup Opened THEN Cardinality(holders \cup Opened)
                                ELSE Cardinality(holders \cup Opened) + 1
        BY <3>2, FS_AddElement
      <4>2. Cardinality(holders \cup Opened) \in Nat
        BY <3>2, FS_CardinalityType
      <4> HIDE DEF Y
      <4> QED BY <4>1, <4>2
    <3>5. Cardinality(X) <= Cardinality(Y) /\ Cardinality(X) \in Nat /\ Cardinality(Y) \in Nat
      <4> HIDE DEF Y
      <4> QED BY <3>1, <3>4, FS_Subset, FS_CardinalityType
    <3>6. Cardinality(X) <= Cap + req'[r].rivals
      <4> HIDE DEF Y
      <4> QED BY <1>1, <2>1, <2>2, <3>2, <3>3, <3>4, <3>5
    <3> QED BY <2>4, <3>6
  <2>5. CASE r \notin X
    <3>1. X \subseteq Fed
      BY <2>3, <2>5
    <3>2. PICK z \in X : Cardinality(X) <= Cap + req[z].rivals
      BY <1>0, <3>1 DEF Admitted
    <3>3. req'[z] = req[z]
      BY <1>0, <2>5, <3>1, <3>2 DEF Fed, Opened
    <3> QED BY <3>2, <3>3
  <2> QED BY <2>4, <2>5
<1> QED BY <1>4, <1>5

\* No other step of a request adds to those fed or about to be.
LEMMA AdmittedKept ==
  ASSUME Inv, Types', NEW r \in Requests, RequestStep(r)
  PROVE  Admitted'
<1>0. /\ Types /\ Feeds /\ Admitted /\ NoStream \notin Requests
      /\ req \in [Requests -> RequestRecord] /\ req[r] \in RequestRecord
      /\ live \in [Sessions -> Requests \cup {NoStream}]
      /\ \A q \in Requests \ {r} : req'[q] = req[q]
  BY EndpointAssumption, OthersRest DEF Inv, Types
<1>1. CASE OpenStream(r)
  BY <1>1, OpenKeeps
<1>2. CASE StartStream(r)
  <2>1. /\ live' = [live EXCEPT ![req[r].m.session] = r] /\ req[r].pc = "opened"
        /\ req'[r].pc = "streaming" /\ req'[r].rivals = req[r].rivals
    BY <1>0, <1>2 DEF StartStream, Goto, RequestRecord
  <2>2. Fed' \subseteq Fed
    BY <1>0, <2>1 DEF Fed, Opened
  <2>3. \A q \in Fed' : req'[q].rivals = req[q].rivals
    BY <1>0, <2>1 DEF Fed, Opened
  <2> QED BY <1>0, <2>2, <2>3, FewerKeeps
<1>3. CASE CloseStream(r)
  <2>1. /\ live' = [s \in Sessions |-> IF live[s] = r THEN NoStream ELSE live[s]]
        /\ req'[r].pc = "idle"
    BY <1>0, <1>3 DEF CloseStream, Answered, Idle
  <2>2. r \notin Fed' /\ Fed' \subseteq Fed
    BY <1>0, <2>1 DEF Fed, Opened
  <2> QED BY <1>0, <2>2, FewerKeeps DEF Fed, Opened
<1>4. CASE ~OpenStream(r) /\ ~StartStream(r) /\ ~CloseStream(r)
  <2>1. /\ live' = live /\ req[r].pc \notin {"opened", "streaming"}
        /\ req'[r].pc \notin {"opened", "streaming"}
    <3>1. CASE Receive(r)
      BY <1>0, <3>1 DEF Receive, Idle
    <3>2. CASE OwnerRead(r)
      <4>1. live' = live /\ req[r].pc = "owner"
        BY <3>2 DEF OwnerRead
      <4>2. req'[r].pc = "refresh"
        BY <1>0, <3>2 DEF OwnerRead, RequestRecord
      <4> QED BY <4>1, <4>2
    <3>3. CASE Refresh(r) \/ OwnerInMemory(r)
      <4>1. live' = live /\ req[r].pc \in {"owner", "refresh"}
        BY <3>3 DEF Refresh, OwnerInMemory
      <4>2. req'[r] = [Idle EXCEPT !.pc = "serve", !.m = req[r].m] \/ req'[r] = Idle
        BY <1>0, <3>3 DEF Refresh, OwnerInMemory, Gate, Answered
      <4>3. [Idle EXCEPT !.pc = "serve", !.m = req[r].m].pc = "serve" /\ Idle.pc = "idle"
        BY DEF Idle
      <4>4. req'[r].pc \in {"serve", "idle"}
        BY <4>2, <4>3
      <4> QED BY <4>1, <4>4
    <3>4. CASE Retire(r) \/ OwnerMiss(r) \/ Finish(r) \/ Listen(r) \/ Terminated(r)
      <4>1. live' = live /\ req[r].pc \in {"owner", "refresh", "serve"}
        BY <3>4 DEF Retire, OwnerMiss, Finish, Listen, Terminated
      <4>2. req'[r] = Idle
        BY <1>0, <3>4 DEF Retire, OwnerMiss, Finish, Listen, Terminated, Answered
      <4> QED BY <4>1, <4>2 DEF Idle
    <3> QED BY <1>4, <3>1, <3>2, <3>3, <3>4 DEF RequestStep
  <2>2. \A s \in Sessions : live[s] # r
    BY <1>0, <2>1 DEF Feeds
  <2>3. r \notin Fed' /\ Fed' \subseteq Fed
    BY <1>0, <2>1, <2>2 DEF Fed, Opened
  <2> QED BY <1>0, <2>3, FewerKeeps DEF Fed, Opened
<1> QED BY <1>1, <1>2, <1>3, <1>4

-----------------------------------------------------------------------------
(* The invariant holds.                                                    *)

\* Initially the store holds at most what an earlier version wrote, and nothing is served.
LEMMA InvHoldsInitially == Init => Inv
<1> SUFFICES ASSUME Init PROVE Inv
  OBVIOUS
<1>0. /\ Types /\ now = 0 /\ gone = {} /\ revived = {} /\ config.cached \in BOOLEAN
      /\ Ttl \in Nat /\ Hz \in Nat \ {0} /\ Hz <= Ttl
  <2>1. config \in Config
    BY EndpointAssumption DEF Init
  <2> QED BY <2>1, TypesHoldInitially, EndpointAssumption DEF Init, Config
<1>1. ASSUME NEW s \in Sessions
      PROVE  /\ entry[s] # Absent =>
                  /\ s \in OldSessions /\ config.cached /\ entry[s].owner = OldOwner
                  /\ entry[s].created = Unstamped /\ entry[s].until = Ttl
             /\ birth[s].owner = entry[s].owner /\ birth[s].at = entry[s].created
             /\ used[s] = 0 /\ live[s] = NoStream
  BY DEF Init
<1>2. OldOwner # Nobody
  BY EndpointAssumption
<1>3. ASSUME NEW s \in Sessions PROVE StoredTruly(s) /\ KeptLong(s)
  <2>1. CASE entry[s] = Absent
    <3>1. birth[s].owner = Nobody /\ birth[s].at = 0
      BY <1>1, <2>1 DEF Absent
    <3> QED BY <1>0, <2>1, <3>1 DEF StoredTruly, KeptLong
  <2>2. CASE entry[s] # Absent
    <3>1. StoredTruly(s)
      BY <1>0, <1>1, <1>2, <2>2 DEF StoredTruly, Since, Unstamped
    <3>2. entry[s].until >= used[s] + Ttl
      BY <1>0, <1>1, <2>2
    <3> QED BY <2>2, <3>1, <3>2 DEF KeptLong
  <2> QED BY <2>1, <2>2
<1>4. Timeless
  BY <1>0, <1>1 DEF Timeless
<1>5. \A r \in Requests : req[r].pc = "idle"
  BY DEF Init, Idle
<1>6. \A r \in Requests : Vetted(r) /\ OwnerServed(r) /\ ReadTruly(r)
  BY <1>5 DEF Vetted, OwnerServed, Served, ReadTruly
<1>7. Feeds /\ Fed = {}
  BY <1>1, <1>5, EndpointAssumption DEF Feeds, Fed, Opened
<1>8. Admitted
  BY <1>7 DEF Admitted
<1> QED BY <1>0, <1>3, <1>4, <1>6, <1>7, <1>8 DEF Inv

\* The clock keeps it.
LEMMA TickKeeps ==
  ASSUME Inv, Tick
  PROVE  Inv'
<1>0. /\ Types /\ now \in Nat /\ now' = now + 1 /\ config.cached
      /\ UNCHANGED <<config, entry, live, req, birth, used, gone, revived>>
  BY DEF Inv, Types, Tick, history
<1>1. Types' /\ BirthsStay /\ now' \in Nat /\ now <= now'
  BY <1>0 DEF Types, BirthsStay
<1>2. Timeless' /\ Feeds' /\ Admitted'
  BY <1>0 DEF Inv, Timeless, Feeds, Admitted, Fed, Opened
<1>3. ASSUME NEW r \in Requests PROVE RequestInv(r)'
  <2>1. RequestInv(r)
    BY DEF Inv, RequestInv
  <2> QED BY <1>0, <1>1, <2>1, RequestRests
<1>4. ASSUME NEW s \in Sessions PROVE SessionInv(s)'
  <2>1. SessionInv(s)
    BY DEF Inv, SessionInv
  <2> QED BY <1>0, <1>1, <2>1, SessionRests
<1> QED BY <1>1, <1>2, <1>3, <1>4 DEF Inv, RequestInv, SessionInv

\* A request's step keeps it.
LEMMA RequestKeeps ==
  ASSUME Inv, NEW r \in Requests, RequestStep(r)
  PROVE  Inv'
<1>1. Types' /\ config' = config /\ now' = now /\ now \in Nat
  BY StepTyped DEF Inv, Types
<1>2. BirthsStay /\ \A q \in Requests \ {r} : req'[q] = req[q]
  BY BirthsAreKept, OthersRest DEF Inv
<1>3. Timeless' /\ Feeds' /\ Admitted'
  BY <1>1, TimelessKept, FeedsKept, AdmittedKept
<1>4. ASSUME NEW q \in Requests PROVE RequestInv(q)'
  <2>1. CASE q = r
    BY <1>1, <2>1, OwnStep
  <2>2. CASE q # r
    <3>1. RequestInv(q) /\ Types /\ req'[q] = req[q] /\ now' \in Nat /\ now <= now'
      BY <1>1, <1>2, <2>2 DEF Inv, RequestInv
    <3> QED BY <1>1, <1>2, <3>1, RequestRests
  <2> QED BY <2>1, <2>2
<1>5. ASSUME NEW s \in Sessions PROVE SessionInv(s)'
  BY <1>1, SessionsKept
<1> QED BY <1>1, <1>3, <1>4, <1>5 DEF Inv, RequestInv, SessionInv

\* So does every step.
LEMMA InvKept == Inv /\ [Next]_vars => Inv'
<1> SUFFICES ASSUME Inv, [Next]_vars PROVE Inv'
  OBVIOUS
<1>1. CASE Tick
  BY <1>1, TickKeeps
<1>2. CASE \E r \in Requests : RequestStep(r)
  BY <1>2, RequestKeeps
<1>3. CASE UNCHANGED vars
  <2>1. /\ config' = config /\ now' = now /\ entry' = entry /\ live' = live /\ req' = req
        /\ birth' = birth /\ used' = used /\ gone' = gone /\ revived' = revived
    BY <1>3 DEF vars
  <2>2. Types' /\ Timeless' /\ Feeds'
    BY <2>1 DEF Inv, Types, Timeless, Feeds
  <2>3. Admitted'
    BY <2>1 DEF Inv, Admitted, Fed, Opened
  <2>4. ASSUME NEW r \in Requests PROVE Vetted(r)' /\ OwnerServed(r)'
    BY <2>1 DEF Inv, Vetted, OwnerServed, Served, Modern, NeedsOwner, GateApplies, Sessionless
  <2>5. ASSUME NEW r \in Requests PROVE ReadTruly(r)'
    BY <2>1 DEF Inv, ReadTruly, Since, Served, Modern, NeedsOwner, GateApplies, Sessionless
  <2>6. ASSUME NEW s \in Sessions PROVE StoredTruly(s)' /\ KeptLong(s)'
    BY <2>1 DEF Inv, StoredTruly, KeptLong, Aged, Since
  <2> QED BY <2>2, <2>3, <2>4, <2>5, <2>6 DEF Inv
<1> QED BY <1>1, <1>2, <1>3, StepIs

\* In every state reached, what is under way was let in, what is stored is what was born,
\* and the broker feeds no more than the cap and a burst of rivals (the endpoint's handlers
\* on either transport, and the session stores).
THEOREM EndpointHolds == Spec => []Inv
BY InvHoldsInitially, InvKept, PTL DEF Spec

-----------------------------------------------------------------------------
(* What follows from it.                                                   *)

\* What is served was allowed by the checks, its caller by the session, and what a DELETE
\* destroyed stays destroyed unless a refresh under way stored it again.
THEOREM OnlyAllowedAreServed == Spec => []ServedAsAllowed
<1>1. Inv => ServedAsAllowed
  <2> SUFFICES ASSUME Inv PROVE ServedAsAllowed
    OBVIOUS
  <2>1. ServedOnlyVetted
    BY DEF Inv, Vetted, ServedOnlyVetted
  <2>2. ServedToOwner
    BY DEF Inv, OwnerServed, StoredTruly, Types, ServedToOwner
  <2> QED BY <2>1, <2>2 DEF ServedAsAllowed
<1> QED BY <1>1, EndpointHolds, PTL

\* However many streams are asked for at once, the cap is passed only by those whose
\* bodies had not been read when the last of them was let in.
THEOREM BurstsPassTheCap == Spec => []CapExceededOnlyByBurst
<1>1. Inv => CapExceededOnlyByBurst
  <2> SUFFICES ASSUME Inv, Active # {}
               PROVE  \E r \in Requests : /\ r \in {live[s] : s \in Active}
                                          /\ Cardinality(Active) <= Cap + req[r].rivals
    BY DEF CapExceededOnlyByBurst
  <2> DEFINE holders == {live[s] : s \in Active}
  <2>1. /\ Cardinality(holders) = Cardinality(Active)
        /\ holders = {r \in Requests : \E s \in Sessions : live[s] = r}
    BY FedOnce DEF Inv
  <2>2. holders \in SUBSET Fed /\ holders # {} /\ holders \subseteq Requests
    BY <2>1 DEF Fed
  <2> HIDE DEF holders
  <2>3. PICK r \in holders : Cardinality(holders) <= Cap + req[r].rivals
    BY <2>2 DEF Inv, Admitted
  <2> QED BY <2>1, <2>2, <2>3 DEF holders
<1> QED BY <1>1, EndpointHolds, PTL

\* No session serves past its absolute age, however it is used.
LEMMA AgeIsKept ==
  ASSUME Inv, [Next]_vars, NEW r \in Requests,
         req[r].pc = "refresh", req'[r].pc = "serve", req[r].m.session \notin OldSessions
  PROVE  req[r].at + Hz <= birth[req[r].m.session].at + MaxAge
<1>0. req \in [Requests -> RequestRecord] /\ req[r] \in RequestRecord /\ ReadTruly(r)
  BY DEF Inv, Types
<1>n. Hz \in Nat /\ Ttl \in Nat /\ MaxAge \in Nat /\ Hz <= Ttl
  BY EndpointAssumption
<1>1. Refresh(r)
  <2>1. PICK q \in Requests : RequestStep(q)
    BY StepIs DEF Tick, vars
  <2>2. q = r
    BY <2>1, OthersRest DEF Inv
  <2>3. RequestStep(r)
    BY <2>1, <2>2
  <2>4. ~Retire(r)
    BY <1>0 DEF Retire, Answered, Idle
  <2> QED BY <2>3, <2>4
    DEF RequestStep, Receive, OwnerRead, OwnerMiss, OwnerInMemory, Finish, Listen, OpenStream,
        StartStream, CloseStream, Terminated
<1>2. req[r].left > 0
  BY <1>1 DEF Refresh
<1>3. /\ req[r].seen.created = birth[req[r].m.session].at
      /\ req[r].at + Hz <= req[r].seen.created + MaxAge
  <2>1. /\ req[r].seen.created \in Int /\ req[r].at \in Int /\ req[r].left \in Int
    BY <1>0 DEF RequestRecord, EntryRecord
  <2>2. /\ req[r].seen.created = birth[req[r].m.session].at
        /\ \/ req[r].left = Ttl /\ req[r].at + Ttl <= req[r].seen.created + MaxAge
           \/ req[r].at + Hz <= req[r].seen.created + MaxAge
    BY <1>0, <1>2 DEF ReadTruly
  <2> QED BY <1>n, <2>1, <2>2
<1> QED BY <1>3

\* A session in use is turned away only when an idle window went by, or its age, or a
\* DELETE.
LEMMA UseIsKept ==
  ASSUME Inv, [Next]_vars, NEW r \in Requests,
         req[r].pc \in {"owner", "refresh"}, req'[r].pc = "idle",
         req[r].m.session \in Sessions,
         birth[req[r].m.session].owner = req[r].m.caller
  PROVE  LET s == req[r].m.session
         IN \/ s \in gone
            \/ now >= used[s] + Ttl
            \/ birth[s].at # Unstamped /\ now + Hz > birth[s].at + MaxAge
<1> DEFINE s == req[r].m.session
<1>0. /\ req \in [Requests -> RequestRecord] /\ req[r] \in RequestRecord
      /\ ReadTruly(r) /\ Vetted(r) /\ StoredTruly(s) /\ KeptLong(s) /\ Timeless
      /\ entry[s] \in EntryRecord /\ birth[s] \in BirthRecord /\ used[s] \in Nat /\ now \in Nat
  BY DEF Inv, Types
<1>n. Hz \in Nat /\ Ttl \in Nat /\ MaxAge \in Nat
  BY EndpointAssumption
<1>1. birth[s].owner # Nobody
  BY <1>0 DEF Vetted
<1>2. RequestStep(r)
  <2>1. PICK q \in Requests : RequestStep(q)
    BY StepIs DEF Tick, vars
  <2>2. q = r
    BY <2>1, OthersRest DEF Inv
  <2> QED BY <2>1, <2>2
<1>3. CASE Retire(r)
  <2>1. req[r].left <= 0 /\ req[r].pc = "refresh"
    BY <1>3 DEF Retire
  <2>2. /\ req[r].at \in Int /\ req[r].left \in Int /\ req[r].seen.created \in Int
        /\ birth[s].at \in Int
    BY <1>0 DEF RequestRecord, EntryRecord, BirthRecord
  <2>3. /\ birth[s].at # Unstamped /\ birth[s].at <= req[r].seen.created
        /\ req[r].at <= now /\ 0 <= req[r].at
        /\ \/ req[r].left = Ttl
           \/ req[r].at + req[r].left + Hz > req[r].seen.created + MaxAge
    BY <1>0, <2>1 DEF ReadTruly, Since
  <2>4. Ttl > 0
    BY EndpointAssumption
  <2> HIDE DEF s
  <2>5. now + Hz > birth[s].at + MaxAge
    BY <1>0, <1>n, <2>1, <2>2, <2>3, <2>4
  <2> QED BY <2>3, <2>5 DEF s
<1>4. CASE OwnerMiss(r)
  <2>1. Stored(s) = Absent
    BY <1>4 DEF OwnerMiss
  <2>2. entry[s] = Absent \/ ~(now < entry[s].until)
    BY <2>1 DEF Stored
  <2>3. entry[s].until \in Int /\ birth[s].at \in Int
    BY <1>0 DEF EntryRecord, BirthRecord
  <2> SUFFICES ASSUME s \notin gone, ~Aged(s), ~(now >= used[s] + Ttl) PROVE FALSE
    BY DEF Aged
  <2>4. /\ entry[s] # Absent
        /\ \/ ~config.cached
           \/ entry[s].until >= used[s] + Ttl
           \/ birth[s].at # Unstamped /\ entry[s].until + Hz > birth[s].at + MaxAge
    BY <1>0, <1>1 DEF KeptLong
  <2>5. CASE ~config.cached
    BY <1>0, <2>2, <2>3, <2>4, <2>5 DEF Timeless
  <2>6. CASE \/ entry[s].until >= used[s] + Ttl
             \/ birth[s].at # Unstamped /\ entry[s].until + Hz > birth[s].at + MaxAge
    <3>1. now >= entry[s].until
      BY <1>0, <2>2, <2>3, <2>4
    <3> HIDE DEF s
    <3> QED BY <1>0, <1>n, <2>3, <2>6, <3>1 DEF Aged
  <2> QED BY <2>4, <2>5, <2>6
<1>5. CASE Refresh(r)
  <2>1. req[r].seen.owner = birth[s].owner
    BY <1>0, <1>5 DEF ReadTruly, Refresh
  <2>2. req'[r].pc = "serve"
    BY <1>0, <1>5, <2>1 DEF Refresh, Gate, Matches, Idle
  <2> QED BY <2>2
<1>6. CASE OwnerInMemory(r)
  <2>1. entry[s] # Absent
    BY <1>6 DEF OwnerInMemory, Stored
  <2>2. entry[s].owner = birth[s].owner
    BY <1>0, <2>1 DEF StoredTruly
  <2>3. req'[r].pc = "serve"
    BY <1>0, <1>6, <2>2 DEF OwnerInMemory, Gate, Matches, Idle
  <2> QED BY <2>3
<1>7. CASE OwnerRead(r)
  <2>1. req'[r].pc = "refresh"
    BY <1>0, <1>7 DEF OwnerRead, RequestRecord
  <2> QED BY <2>1
<1> QED BY <1>2, <1>3, <1>4, <1>5, <1>6, <1>7
    DEF RequestStep, Receive, Finish, Listen, OpenStream, StartStream, CloseStream, Terminated

\* A session lives as long as its two settings say: no longer for being used, and no
\* shorter while it is (owner and _remaining_lifetime, against every other request).
THEOREM SessionsLiveTheirTime == Spec => SessionLifetime
<1>1. Inv /\ [Next]_vars =>
        [\A r \in Requests :
           LET s == req[r].m.session
           IN req[r].pc = "refresh" /\ req'[r].pc = "serve" /\ s \notin OldSessions =>
                req[r].at + Hz <= birth[s].at + MaxAge]_vars
  BY AgeIsKept
<1>2. Inv /\ [Next]_vars =>
        [\A r \in Requests :
           LET s == req[r].m.session
           IN /\ req[r].pc \in {"owner", "refresh"} /\ req'[r].pc = "idle"
              /\ s \in Sessions /\ birth[s].owner = req[r].m.caller
              => \/ s \in gone
                 \/ now >= used[s] + Ttl
                 \/ birth[s].at # Unstamped /\ now + Hz > birth[s].at + MaxAge]_vars
  BY UseIsKept
<1> QED BY <1>1, <1>2, EndpointHolds, PTL DEF Spec, SessionLifetime, AgeLimit, KeptWhileUsed
=============================================================================
