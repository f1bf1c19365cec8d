----------------------------- MODULE CacheProofs -----------------------------
(* What lives in the Django cache: a cached task lives for the lifetime it was *)
(* created with and no longer than its writes give it, and the rate limiters   *)
(* keep their quotas, but for what the interleaving of their reads and writes  *)
(* costs, and their retry_after; for any writers and requests, whatever the    *)
(* lifetimes and sizes and whatever the cache drops.                           *)
EXTENDS TaskCache, RateLimits, SequenceLemmas, FiniteSetTheorems

-----------------------------------------------------------------------------
(* The task store.                                                         *)

Expiries == Int \cup {NoExpiry}

\* Until the expiry, the entry and every save in flight carry it and the cache holds
\* the entry that long.  Without this a save that found nothing could write early.
UntilExpiry ==
  stamp \in Nat /\ cacheTime < stamp =>
    /\ Created => entry.expiresAt = stamp /\ entry.dropAt >= stamp
    /\ \A p \in Writers : saver[p] \in {"writes", "sets"} => raw[p] = stamp

\* Nobody saves what was not written, and nobody writes before create stamps.
NothingYet ==
  /\ ~Created => entry.dropAt = 0 /\ \A p \in Writers : saver[p] # "holds"
  /\ stamp = -1 => ~Created /\ \A p \in Writers : saver[p] = "idle"

\* A timeout is computed before it is set.
InOrder ==
  /\ \A p \in Writers : took[p] <= cacheTime
  /\ wrote.took <= wrote.at /\ wrote.at <= cacheTime

\* What NoLongerThanWritten says of the entry, alive or not.
DroppedInTime ==
  Created => \/ stamp \in Nat /\ entry.dropAt <= stamp + (wrote.at - wrote.took)
             \/ entry.dropAt <= wrote.at + Floor
             \/ (stamp = NoExpiry \/ orphaned) /\ entry.dropAt <= wrote.at + Fallback

LifetimeTypes ==
  /\ cacheTime \in Nat /\ stamp \in Nat \cup {-1, NoExpiry} /\ orphaned \in BOOLEAN
  /\ entry \in [expiresAt : Expiries, dropAt : Int] /\ wrote \in [took : Int, at : Int]
  /\ saver \in [Writers -> {"idle", "holds", "writes", "sets"}]
  /\ raw \in [Writers -> Expiries] /\ took \in [Writers -> Nat]

LifetimeInv ==
  LifetimeTypes /\ NothingYet /\ InOrder /\ StampNeverMoves /\ UntilExpiry /\ DroppedInTime

\* What a write sets: no less than what remains, and no more than that and a floor.
LEMMA TimeoutIs ==
  ASSUME NEW e \in Expiries, NEW t \in Nat
  PROVE  /\ Timeout(e, t) \in Nat
         /\ e = NoExpiry => Timeout(e, t) = Fallback
         /\ e \in Int => /\ Timeout(e, t) >= e - t
                         /\ Timeout(e, t) = e - t \/ Timeout(e, t) = Floor
BY TaskCacheAssumption DEF Timeout, Expiries, Max2

\* A write keeps the invariant: it takes its timeout from the time it asked for, and
\* sets it from the time it has come to.
LEMMA WriteSetKeeps == \A p \in Writers : LifetimeInv /\ WriteSet(p) => LifetimeInv'
<1> SUFFICES ASSUME NEW p \in Writers, LifetimeInv, WriteSet(p) PROVE LifetimeInv'
  OBVIOUS
<1> USE TaskCacheAssumption
<1>1. /\ saver[p] = "sets" /\ stamp # -1 /\ raw[p] \in Expiries
      /\ took[p] \in Nat /\ took[p] <= cacheTime
      /\ cacheTime \in Nat /\ stamp \in Nat \cup {NoExpiry}
      /\ raw[p] = stamp \/ (orphaned /\ raw[p] = NoExpiry)
  BY DEF WriteSet, LifetimeInv, LifetimeTypes, NothingYet, StampNeverMoves, Stamped, InOrder
<1>2. PICK lasts \in Nat :
        /\ lasts = Timeout(raw[p], took[p])
        /\ raw[p] = NoExpiry => lasts = Fallback
        /\ raw[p] \in Int => lasts >= raw[p] - took[p] /\ (lasts = raw[p] - took[p] \/ lasts = Floor)
  BY <1>1, TimeoutIs
<1>3. /\ entry' = [expiresAt |-> raw[p], dropAt |-> cacheTime + lasts]
      /\ saver' = [saver EXCEPT ![p] = "idle"]
      /\ raw' = [raw EXCEPT ![p] = NoExpiry] /\ took' = [took EXCEPT ![p] = 0]
      /\ wrote' = [took |-> took[p], at |-> cacheTime]
      /\ UNCHANGED <<cacheTime, stamp, orphaned>>
  BY <1>2 DEF WriteSet
<1>4. LifetimeTypes'
  BY <1>1, <1>3 DEF LifetimeInv, LifetimeTypes, Expiries
<1>5. NothingYet'
  BY <1>1, <1>3 DEF LifetimeInv, LifetimeTypes, NothingYet, Created
<1>6. InOrder'
  BY <1>1, <1>3 DEF LifetimeInv, LifetimeTypes, InOrder
<1>7. StampNeverMoves'
  BY <1>1, <1>3 DEF LifetimeInv, LifetimeTypes, StampNeverMoves, Stamped
<1>8. UntilExpiry'
  BY <1>1, <1>2, <1>3 DEF LifetimeInv, LifetimeTypes, UntilExpiry
<1>9. DroppedInTime'
  BY <1>1, <1>2, <1>3 DEF DroppedInTime
<1> QED BY <1>4, <1>5, <1>6, <1>7, <1>8, <1>9 DEF LifetimeInv

\* The strengthened invariant is inductive.
LEMMA LifetimeInductive == LifetimeInv /\ [TaskCacheNext]_taskCacheVars => LifetimeInv'
<1> SUFFICES ASSUME LifetimeInv, [TaskCacheNext]_taskCacheVars PROVE LifetimeInv'
  OBVIOUS
<1> USE TaskCacheAssumption
<1> USE DEF LifetimeInv, LifetimeTypes, Expiries, NothingYet, InOrder, StampNeverMoves, Stamped,
            UntilExpiry, DroppedInTime, Created
<1>1. ASSUME NEW p \in Writers, Create(p) PROVE LifetimeInv'
  <2>1. PICK expiresAt \in Nat \cup {NoExpiry} :
          stamp' = expiresAt /\ raw' = [raw EXCEPT ![p] = expiresAt]
    <3>1. PICK ttl \in Ttls \cup {NoExpiry} :
            LET expiresAt == IF ttl = NoExpiry THEN NoExpiry ELSE cacheTime + ttl
            IN stamp' = expiresAt /\ raw' = [raw EXCEPT ![p] = expiresAt]
      BY <1>1 DEF Create
    <3>2. CASE ttl = NoExpiry
      BY <3>1, <3>2
    <3>3. CASE ttl # NoExpiry
      <4>1. cacheTime + ttl \in Nat
        BY <3>3
      <4> QED BY <3>1, <3>3, <4>1
    <3> QED BY <3>2, <3>3
  <2>2. /\ saver' = [saver EXCEPT ![p] = "writes"]
        /\ UNCHANGED <<cacheTime, entry, took, wrote, orphaned>>
        /\ ~Created /\ \A q \in Writers : saver[q] = "idle"
    BY <1>1 DEF Create
  <2>3. saver' = [q \in Writers |-> IF q = p THEN "writes" ELSE "idle"]
    BY <2>2
  <2>4. LifetimeTypes'
    BY <2>1, <2>2
  <2>5. NothingYet' /\ InOrder' /\ DroppedInTime'
    BY <2>1, <2>2, <2>3
  <2>6. StampNeverMoves' /\ UntilExpiry'
    BY <2>1, <2>2, <2>3
  <2> QED BY <2>4, <2>5, <2>6
<1>2. CASE TaskCacheTick
  BY <1>2 DEF TaskCacheTick
<1>3. ASSUME NEW p \in Writers, Get(p) PROVE LifetimeInv'
  BY <1>3 DEF Get, Alive
<1>4. ASSUME NEW p \in Writers, SaveRead(p) PROVE LifetimeInv'
  <2>1. Created /\ stamp # -1
    BY <1>4 DEF SaveRead
  <2>2. PICK e \in Expiries :
          /\ raw' = [raw EXCEPT ![p] = e]
          /\ e = IF Alive THEN entry.expiresAt ELSE NoExpiry
    BY <1>4 DEF SaveRead
  <2>3. /\ orphaned' \in BOOLEAN /\ (orphaned => orphaned')
        /\ e = stamp \/ (orphaned' /\ e = NoExpiry)
    BY <1>4, <2>1, <2>2 DEF SaveRead
  <2>4. stamp \in Nat /\ cacheTime < stamp => e = stamp
    BY <2>1, <2>2 DEF Alive
  <2>5. saver' = [saver EXCEPT ![p] = "writes"] /\ UNCHANGED <<cacheTime, entry, stamp, took, wrote>>
    BY <1>4 DEF SaveRead
  <2>6. StampNeverMoves' /\ UntilExpiry'
    BY <2>1, <2>2, <2>3, <2>4, <2>5
  <2> QED BY <2>1, <2>2, <2>3, <2>5, <2>6
<1>5. ASSUME NEW p \in Writers, WriteTime(p) PROVE LifetimeInv'
  BY <1>5 DEF WriteTime
<1>6. CASE UNCHANGED taskCacheVars
  BY <1>6 DEF taskCacheVars
<1> QED BY <1>1, <1>2, <1>3, <1>4, <1>5, <1>6, WriteSetKeeps DEF TaskCacheNext

\* A task stays readable until the expiry stamped at its creation; its expiry never moves,
\* unless a save found the entry gone; and it is not readable past it for longer than its
\* latest write took, or one floor after that write, or the fallback where it has no expiry
\* (DjangoCacheTaskStore.save and _write).
THEOREM Lifetime == TaskCacheSpec => []LifetimeKept
<1>1. TaskCacheInit => LifetimeInv
  <2> SUFFICES ASSUME TaskCacheInit PROVE LifetimeInv
    OBVIOUS
  <2> USE TaskCacheAssumption DEF TaskCacheInit
  <2>1. LifetimeTypes
    <3>1. saver \in [Writers -> {"idle", "holds", "writes", "sets"}]
      OBVIOUS
    <3>2. raw \in [Writers -> Expiries] /\ took \in [Writers -> Nat]
      BY DEF Expiries
    <3>3. cacheTime \in Nat /\ stamp \in Nat \cup {-1, NoExpiry}
      OBVIOUS
    <3>4. entry \in [expiresAt : Expiries, dropAt : Int] /\ wrote \in [took : Int, at : Int]
      BY DEF Expiries
    <3>5. orphaned \in BOOLEAN
      OBVIOUS
    <3> QED BY <3>1, <3>2, <3>3, <3>4, <3>5 DEF LifetimeTypes
  <2>2. NothingYet /\ InOrder /\ StampNeverMoves /\ UntilExpiry /\ DroppedInTime
    BY DEF NothingYet, InOrder, StampNeverMoves, UntilExpiry, DroppedInTime, Created
  <2> QED BY <2>1, <2>2 DEF LifetimeInv
<1>2. ASSUME LifetimeInv PROVE LifetimeKept
  <2> USE TaskCacheAssumption
  <2>1. KeptUntilExpiry
    BY <1>2 DEF LifetimeInv, LifetimeTypes, KeptUntilExpiry, UntilExpiry, Alive
  <2>2. NoLongerThanWritten
    BY <1>2 DEF LifetimeInv, LifetimeTypes, NothingYet, DroppedInTime, NoLongerThanWritten, Alive
  <2> QED BY <1>2, <2>1, <2>2 DEF LifetimeInv, LifetimeKept
<1> QED BY <1>1, <1>2, LifetimeInductive, PTL DEF TaskCacheSpec

-----------------------------------------------------------------------------
(* The rate limiters: the shape of their state.                            *)

Entries == [level : Nat, last : Nat]
Admission == [at : Nat, turn : Nat]
Stages == {"idle", "next", "timed", "incr", "readd", "sliding", "bucket"}

\* Admissions are numbered by their turns.
Numbered(A) == IsFiniteSet(A) /\ \A a \in A : a.turn <= Cardinality(A)

\* A request under way has limiters left and has read what its limiter stores.
RequestTyped(r) ==
  /\ clock[r] <= now
  /\ pc[r] # "idle" => rest[r] # <<>>
  /\ pc[r] = "sliding" => seen[r] \in Seq(Ticks)
  /\ pc[r] = "bucket" => seen[r] \in Nat

\* The types of the state; nothing was admitted in the future.
LimitTypes ==
  /\ now \in Nat /\ rateLimits \in Bindings
  /\ counter \in [Buckets -> [n : Nat, dropAt : Nat]]
  /\ stamps \in Seq(Ticks)
  /\ tokens \in {Never} \cup Entries
  /\ pc \in [Requests -> Stages] /\ rest \in [Requests -> Seq(Kinds)]
  /\ clock \in [Requests -> Nat] /\ missed \in [Requests -> Nat]
  /\ DOMAIN seen = Requests
  /\ erased \in [Kinds -> Nat] /\ adds \in [Buckets -> Nat]
  /\ admitted \in [Kinds -> SUBSET Admission]
  /\ \A k \in Kinds : Numbered(admitted[k]) /\ \A a \in admitted[k] : a.at <= now
  /\ DOMAIN told = Kinds
  /\ faults \in [calls : Nat, evicted : SUBSET Kinds]
  /\ \A r \in Requests : RequestTyped(r)
  /\ now \in Ticks

\* And those of the timeouts and of what is told of reads out of order.
OrderTypes ==
  /\ dropAt \in [{"sliding", "bucket"} -> Nat] /\ behind \in [Requests -> Nat]
  /\ horizon \in Nat /\ overtaken \in Nat /\ rewound \in Nat

-----------------------------------------------------------------------------
(* Arithmetic.                                                             *)

\* The greater and the lesser of two integers.
LEMMA MaxMin ==
  ASSUME NEW a \in Int, NEW b \in Int
  PROVE  /\ Max({a, b}) = IF a >= b THEN a ELSE b
         /\ Min({a, b}) = IF a <= b THEN a ELSE b
<1>1. CASE a >= b
  <2>1. \A x \in {a, b} : (\A y \in {a, b} : x >= y) <=> x = a
    BY <1>1
  <2>2. \A x \in {a, b} : (\A y \in {a, b} : x =< y) <=> x = b
    BY <1>1
  <2> QED BY <1>1, <2>1, <2>2 DEF Max, Min
<1>2. CASE b > a
  <2>1. \A x \in {a, b} : (\A y \in {a, b} : x >= y) <=> x = b
    BY <1>2
  <2>2. \A x \in {a, b} : (\A y \in {a, b} : x =< y) <=> x = a
    BY <1>2
  <2> QED BY <1>2, <2>1, <2>2 DEF Max, Min
<1> QED BY <1>1, <1>2

\* Division rounds down.
LEMMA DivIs ==
  ASSUME NEW t \in Nat, NEW d \in Nat \ {0}
  PROVE  t \div d \in Nat /\ (t \div d) * d <= t /\ t < (t \div d) * d + d
OBVIOUS

\* Multiplication is monotonic and adds up.
LEMMA Times ==
  ASSUME NEW a \in Int, NEW b \in Int, NEW c \in Nat, a <= b
  PROVE  a * c <= b * c /\ a * c \in Int /\ (a + 1) * c = a * c + c
OBVIOUS

\* Those of naturals are naturals.
LEMMA Products ==
  ASSUME NEW a \in Nat, NEW b \in Nat, NEW c \in Nat, a <= b
  PROVE  a * c \in Nat /\ b * c \in Nat /\ a * c <= b * c
OBVIOUS

\* And strictly so: what a product exceeds, its factor does.
LEMMA TimesLess ==
  ASSUME NEW a \in Int, NEW b \in Int, NEW c \in Nat \ {0}, a * c < b * c
  PROVE  a < b
<1>1. b <= a => b * c <= a * c
  BY Times
<1>2. a * c \in Int /\ b * c \in Int
  OBVIOUS
<1> QED BY <1>1, <1>2

Wide == Window * Hz

\* The sizes of the limiters.
LEMMA Sizes ==
  /\ FixedMax \in Nat \ {0} /\ SlidingMax \in Nat \ {0} /\ Capacity \in Nat \ {0}
  /\ Cost \in Nat \ {0} /\ Hz \in Nat \ {0} /\ Window \in Nat \ {0}
  /\ Wide \in Nat \ {0} /\ Full \in Nat /\ Cost <= Full /\ MaxTime \in Nat /\ MinTtl \in Nat \ {0}
<1>1. /\ FixedMax \in Nat \ {0} /\ SlidingMax \in Nat \ {0} /\ Capacity \in Nat \ {0}
      /\ Cost \in Nat \ {0} /\ Hz \in Nat \ {0} /\ Window \in Nat \ {0} /\ MaxTime \in Nat
      /\ MinTtl \in Nat \ {0}
  BY RateLimitsAssumption
<1>2. 1 * Cost <= Capacity * Cost /\ 1 * Cost = Cost /\ Capacity * Cost \in Nat
  BY <1>1, Times
<1>3. Window * Hz \in Nat \ {0}
  BY <1>1
<1> QED BY <1>1, <1>2, <1>3 DEF Wide, Full

\* A bucket's entry outlasts the bucket's refilling.
LEMMA TtlLong == Ttl \in Nat /\ Full <= Ttl
<1> DEFINE secs == (2 * Full) \div Hz
<1>1. /\ Full \in Nat /\ Hz \in Nat \ {0} /\ MinTtl \in Nat \ {0} /\ 2 * Full \in Nat
      /\ 2 * Full = Full + Full
  BY Sizes
<1>2. secs \in Nat /\ 2 * Full < secs * Hz + Hz
  BY <1>1, DivIs
<1> HIDE DEF secs
<1>3. PICK longest \in Nat : longest = Max({secs, MinTtl}) /\ secs <= longest /\ MinTtl <= longest
  BY <1>1, <1>2, MaxMin
<1>4. Ttl = longest * Hz
  BY <1>3 DEF Ttl, secs
<1>5. secs * Hz <= longest * Hz /\ secs * Hz \in Nat
  BY <1>1, <1>2, <1>3, Times
<1>6. 1 * Hz <= longest * Hz /\ longest * Hz \in Nat
  BY <1>1, <1>3, Times
<1> DEFINE x == secs * Hz
           y == longest * Hz
<1>7. /\ x <= y /\ Hz <= y /\ x \in Nat /\ y \in Nat /\ Full + Full < x + Hz
      /\ Full \in Nat /\ Hz \in Nat
  BY <1>1, <1>2, <1>5, <1>6
<1> HIDE DEF x, y
<1>8. y \in Nat /\ Full <= y
  BY <1>7
<1> QED BY <1>4, <1>8 DEF y

\* The window's bucket of an instant is the one it lies in.
LEMMA BucketIs ==
  ASSUME NEW t \in Nat
  PROVE  /\ BucketOf(t) \in Nat /\ Wide \in Nat \ {0}
         /\ BucketOf(t) * Wide <= t /\ t < (BucketOf(t) + 1) * Wide
         /\ \A b \in Int : b * Wide <= t /\ t <= (b + 1) * Wide - 1 <=> b = BucketOf(t)
<1> DEFINE s == t \div Hz
           b0 == BucketOf(t)
<1>1. Hz \in Nat \ {0} /\ Window \in Nat \ {0}
  BY RateLimitsAssumption
<1>2. s \in Nat /\ s * Hz <= t /\ t < s * Hz + Hz
  BY <1>1, DivIs
<1>3. b0 \in Nat /\ b0 * Window <= s /\ s < b0 * Window + Window
  BY <1>1, <1>2, DivIs DEF BucketOf
<1> HIDE DEF s, b0
<1>4. Wide \in Nat \ {0}
  BY <1>1 DEF Wide
<1>5. b0 * Wide = (b0 * Window) * Hz /\ (b0 + 1) * Wide = (b0 * Window + Window) * Hz
  BY <1>1, <1>3 DEF Wide
<1>6. (b0 * Window) * Hz <= s * Hz
  <2> DEFINE x == b0 * Window
  <2>1. x \in Int
    BY <1>1, <1>3
  <2> HIDE DEF x
  <2> QED BY <1>1, <1>2, <1>3, <2>1, Times DEF x
<1>7. (s + 1) * Hz <= (b0 * Window + Window) * Hz
  <2> DEFINE x == b0 * Window + Window
  <2>1. x \in Int /\ s + 1 \in Int
    BY <1>1, <1>2, <1>3
  <2>2. s + 1 <= x
    BY <1>2, <1>3, <2>1
  <2> HIDE DEF x
  <2> QED BY <1>1, <2>1, <2>2, Times DEF x
<1>8. (s + 1) * Hz = s * Hz + Hz
  BY <1>1, <1>2
<1>9. b0 * Wide \in Int /\ (b0 + 1) * Wide \in Int /\ s * Hz \in Int
  BY <1>1, <1>2, <1>3, <1>4
<1>10. b0 * Wide <= t /\ t < (b0 + 1) * Wide
  <2> DEFINE u == b0 * Wide
             v == (b0 + 1) * Wide
             w == s * Hz
  <2>1. u <= w /\ w + Hz <= v /\ u \in Int /\ v \in Int /\ w \in Int
    BY <1>5, <1>6, <1>7, <1>8, <1>9
  <2>2. w <= t /\ t < w + Hz
    BY <1>2
  <2> HIDE DEF u, v, w
  <2>3. u <= t /\ t < v
    BY <2>1, <2>2, <1>1
  <2> QED BY <2>3 DEF u, v
<1>11. ASSUME NEW b \in Int, b * Wide <= t, t <= (b + 1) * Wide - 1 PROVE b = b0
  <2>1. b * Wide \in Int /\ (b + 1) * Wide \in Int
    BY <1>4
  <2>2. b * Wide < (b0 + 1) * Wide
    BY <1>9, <1>10, <1>11, <2>1
  <2>3. b0 * Wide < (b + 1) * Wide
    BY <1>9, <1>10, <1>11, <2>1
  <2>4. b < b0 + 1
    BY <1>3, <1>4, <2>2, TimesLess
  <2>5. b0 < b + 1
    BY <1>3, <1>4, <2>3, TimesLess
  <2> QED BY <1>3, <2>4, <2>5
<1>12. b0 * Wide <= t /\ t <= (b0 + 1) * Wide - 1
  BY <1>9, <1>10
<1> QED BY <1>3, <1>4, <1>10, <1>11, <1>12 DEF b0

-----------------------------------------------------------------------------
(* Counting admissions.                                                    *)

Count(A, P) == Cardinality({a \in A : a.at \in P})

\* An admission is counted once, where it lies.
LEMMA CountOne ==
  ASSUME NEW A \in SUBSET Admission, Numbered(A), NEW t \in Nat
  PROVE  LET B == A \cup {[at |-> t, turn |-> Cardinality(A) + 1]}
         IN /\ B \in SUBSET Admission /\ Numbered(B)
            /\ \A P : /\ Count(A, P) \in Nat
                      /\ t \in P => Count(B, P) = Count(A, P) + 1
                      /\ t \notin P => Count(B, P) = Count(A, P)
<1> DEFINE e == [at |-> t, turn |-> Cardinality(A) + 1]
           B == A \cup {e}
<1>1. IsFiniteSet(A) /\ Cardinality(A) \in Nat
  BY FS_CardinalityType DEF Numbered
<1>2. e \in Admission /\ e.turn = Cardinality(A) + 1 /\ e.at = t
  BY <1>1 DEF Admission
<1> HIDE DEF e
<1>3. e \notin A
  BY <1>1, <1>2 DEF Numbered
<1>4. IsFiniteSet(B) /\ Cardinality(B) = Cardinality(A) + 1
  BY <1>1, <1>3, FS_AddElement
<1>5. \A a \in B : a.turn <= Cardinality(B)
  <2>1. \A a \in A : a.turn \in Nat /\ a.turn <= Cardinality(A)
    BY DEF Admission, Numbered
  <2> QED BY <1>1, <1>2, <1>4, <2>1
<1>6. ASSUME NEW P
      PROVE  /\ Count(A, P) \in Nat
             /\ t \in P => Count(B, P) = Count(A, P) + 1
             /\ t \notin P => Count(B, P) = Count(A, P)
  <2> DEFINE S == {a \in A : a.at \in P}
             T == {a \in B : a.at \in P}
  <2>1. IsFiniteSet(S) /\ e \notin S
    BY <1>1, <1>3, FS_Subset
  <2>2. Cardinality(S) \in Nat
    BY <2>1, FS_CardinalityType
  <2>3. t \in P => T = S \cup {e}
    BY <1>2
  <2>4. t \notin P => T = S
    BY <1>2
  <2>5. Cardinality(S \cup {e}) = Cardinality(S) + 1
    <3> HIDE DEF S
    <3> QED BY <2>1, FS_AddElement
  <2> QED BY <2>2, <2>3, <2>4, <2>5 DEF Count
<1>7. B \in SUBSET Admission
  BY <1>2
<1> QED BY <1>4, <1>5, <1>6, <1>7 DEF Numbered, e

\* More instants hold no fewer admissions.
LEMMA CountMore ==
  ASSUME NEW A, IsFiniteSet(A), NEW P, NEW Q, \A a \in A : a.at \in P => a.at \in Q
  PROVE  Count(A, P) \in Nat /\ Count(A, Q) \in Nat /\ Count(A, P) <= Count(A, Q)
<1> DEFINE S == {a \in A : a.at \in P}
           T == {a \in A : a.at \in Q}
<1>1. IsFiniteSet(T) /\ S \subseteq T
  BY FS_Subset
<1>2. IsFiniteSet(S)
  BY FS_Subset
<1>3. Cardinality(S) <= Cardinality(T)
  <2> HIDE DEF S, T
  <2> QED BY <1>1, FS_Subset
<1> QED BY <1>1, <1>2, <1>3, FS_CardinalityType DEF Count

\* Where no admission lies, none is counted.
LEMMA CountNone ==
  ASSUME NEW A, NEW P, \A a \in A : a.at \notin P
  PROVE  Count(A, P) = 0
<1>1. {a \in A : a.at \in P} = {}
  OBVIOUS
<1> QED BY <1>1, FS_EmptySet DEF Count

Newer(s, x) == Cardinality({i \in DOMAIN s : s[i] > x})

\* The stamps of a list beyond an instant.
LEMMA NewerIs ==
  ASSUME NEW s \in Seq(Ticks), NEW x \in Int
  PROVE  /\ IsFiniteSet({i \in DOMAIN s : s[i] > x})
         /\ Newer(s, x) \in Nat /\ Newer(s, x) <= Len(s)
<1>1. DOMAIN s = 1..Len(s) /\ Len(s) \in Nat
  OBVIOUS
<1>2. IsFiniteSet(1..Len(s)) /\ Cardinality(1..Len(s)) = Len(s)
  BY <1>1, FS_Interval, SMTT(60)
<1> DEFINE S == {i \in DOMAIN s : s[i] > x}
<1>3. S \subseteq 1..Len(s)
  BY <1>1
<1> HIDE DEF S
<1>4. IsFiniteSet(S) /\ Cardinality(S) <= Len(s)
  BY <1>2, <1>3, FS_Subset
<1> QED BY <1>4, FS_CardinalityType DEF S, Newer

\* The stamps of a list lie no later than an instant.
UpTo(s, t) == \A i \in DOMAIN s : s[i] <= t

\* Pruning keeps what is in the window, and makes no list longer nor later.
LEMMA PrunedKeeps ==
  ASSUME NEW s \in Seq(Ticks), NEW t \in Nat
  PROVE  /\ Pruned(s, t) \in Seq(Ticks) /\ Len(Pruned(s, t)) <= Len(s)
         /\ \A u : UpTo(s, u) => UpTo(Pruned(s, t), u)
         /\ \A x \in Int : x >= t - Wide => Newer(s, x) <= Newer(Pruned(s, t), x)
<1> DEFINE K == {ts \in Ticks : ts > t - Window * Hz}
           q == Pruned(s, t)
<1>1. q = Selected(s, K)
  BY DEF Pruned
<1>2. q \in Seq(Ticks) /\ \E f : Picks(f, s, K, q)
  BY <1>1, SelectedPicks
<1>3. PICK f : Picks(f, s, K, q)
  BY <1>2
<1> HIDE DEF q
<1>4. /\ DOMAIN s = 1..Len(s) /\ Len(s) \in Nat /\ DOMAIN q = 1..Len(q) /\ Len(q) \in Nat
      /\ \A i \in 1..Len(s) : s[i] \in Ticks
  BY <1>2
<1>5. Wide = Window * Hz /\ Wide \in Int
  BY RateLimitsAssumption DEF Wide
<1>6. Len(q) <= Len(s)
  <2>1. \A i, j \in 1..Len(q) : i # j => f[i] # f[j]
    <3>1. \A i \in 1..Len(q) : f[i] \in Int
      BY <1>3, <1>4 DEF Picks
    <3>2. \A i, j \in 1..Len(q) : i < j => f[i] < f[j]
      BY <1>3 DEF Picks
    <3>3. \A i, j \in 1..Len(q) : i < j \/ j < i \/ i = j
      BY <1>4
    <3> QED BY <3>1, <3>2, <3>3
  <2>2. f \in Injection(1..Len(q), 1..Len(s))
    BY <1>3, <1>4, <2>1 DEF Picks, Injection, IsInjective
  <2>3. Cardinality(1..Len(q)) <= Cardinality(1..Len(s))
    BY <1>4, <2>2, FS_Interval, FS_Injection
  <2>4. Cardinality(1..Len(q)) = Len(q) /\ Cardinality(1..Len(s)) = Len(s)
    <3>1. ASSUME NEW n \in Nat PROVE Cardinality(1..n) = n
      BY FS_Interval
    <3> QED BY <1>4, <3>1
  <2> QED BY <1>4, <2>3, <2>4
<1>7. ASSUME NEW x \in Int, x >= t - Wide PROVE Newer(s, x) <= Newer(q, x)
  <2> DEFINE S == {i \in DOMAIN s : s[i] > x}
             T == {j \in DOMAIN q : q[j] > x}
             g == [i \in S |-> CHOOSE j \in 1..Len(q) : f[j] = i]
  <2>1. \A i \in S : i \in DOMAIN s /\ s[i] \in K /\ s[i] > x
    BY <1>4, <1>5, <1>7 DEF Ticks
  <2>2. \A i \in S : \E j \in 1..Len(q) : f[j] = i
    <3>1. \A i \in DOMAIN s : s[i] \in K <=> \E j \in 1..Len(q) : f[j] = i
      BY <1>3 DEF Picks
    <3> QED BY <2>1, <3>1
  <2>3. \A i \in S : g[i] \in 1..Len(q) /\ f[g[i]] = i
    BY <2>2
  <2>4. \A j \in 1..Len(q) : q[j] = s[f[j]]
    BY <1>3 DEF Picks
  <2>5. \A i \in S : g[i] \in T
    BY <1>4, <2>1, <2>3, <2>4
  <2>6. DOMAIN g = S /\ \A i, j \in S : g[i] = g[j] => i = j
    BY <2>3
  <2>7. g \in [S -> T]
    BY <2>5
  <2>8. g \in Injection(S, T)
    <3> HIDE DEF g, S, T
    <3> QED BY <2>6, <2>7 DEF Injection, IsInjective
  <2>9. IsFiniteSet(T)
    BY <1>2, NewerIs
  <2>10. Cardinality(S) <= Cardinality(T)
    <3> HIDE DEF g, S, T
    <3> QED BY <2>8, <2>9, FS_Injection
  <2> QED BY <2>10 DEF Newer
<1>8. ASSUME NEW u, UpTo(s, u) PROVE UpTo(q, u)
  <2>1. \A j \in 1..Len(q) : f[j] \in DOMAIN s /\ q[j] = s[f[j]]
    BY <1>3, <1>4 DEF Picks
  <2> QED BY <1>4, <1>8, <2>1 DEF UpTo
<1> QED BY <1>2, <1>6, <1>7, <1>8 DEF q

\* A stamp at the end of the list is one more, where it lies.
LEMMA NewerAppend ==
  ASSUME NEW s \in Seq(Ticks), NEW t \in Ticks, NEW x \in Int
  PROVE  Newer(Append(s, t), x) = IF t > x THEN Newer(s, x) + 1 ELSE Newer(s, x)
<1> DEFINE a == Append(s, t)
           n == Len(s) + 1
           S == {i \in DOMAIN s : s[i] > x}
           T == {i \in DOMAIN a : a[i] > x}
<1>1. /\ n \in Nat /\ DOMAIN s = 1..n - 1 /\ DOMAIN a = 1..n /\ a[n] = t
      /\ \A i \in 1..n - 1 : a[i] = s[i]
  OBVIOUS
<1>2. n \notin 1..n - 1 /\ \A i : i \in 1..n <=> i \in 1..n - 1 \/ i = n
  BY <1>1
<1> HIDE DEF a, n
<1>3. n \notin S /\ IsFiniteSet(S)
  BY <1>1, <1>2, NewerIs
<1>4. t > x => T = S \cup {n}
  BY <1>1, <1>2
<1>5. ~(t > x) => T = S
  BY <1>1, <1>2
<1>6. Cardinality(S \cup {n}) = Cardinality(S) + 1
  <2> HIDE DEF S
  <2> QED BY <1>3, FS_AddElement
<1> QED BY <1>4, <1>5, <1>6 DEF Newer, a

-----------------------------------------------------------------------------
(* What one step is: of one request, of the clock or of the cache.         *)

LimitAction(r) ==
  \/ Begin(r) \/ AskTime(r)
  \/ FixedAdd(r) \/ FixedIncr(r) \/ FixedGone(r) \/ FixedReadd(r)
  \/ SlidingRead(r) \/ SlidingWrite(r) \/ BucketRead(r) \/ BucketWrite(r)

\* The limiters begin typed.
LEMMA LimitTypesInitially == LimitsInit => LimitTypes
<1> SUFFICES ASSUME LimitsInit PROVE LimitTypes
  OBVIOUS
<1>1. Absent \in [n : Nat, dropAt : Nat] /\ <<>> \in Seq(Ticks) /\ <<>> \in Seq(Kinds)
  BY DEF Absent
<1>2. 0 \in Ticks
  BY RateLimitsAssumption DEF Ticks
<1>3. \A k \in Kinds : Numbered(admitted[k]) /\ \A a \in admitted[k] : a.at <= now
  BY FS_EmptySet DEF LimitsInit, Numbered
<1>4. faults \in [calls : Nat, evicted : SUBSET Kinds]
  BY DEF LimitsInit
<1> QED BY <1>1, <1>2, <1>3, <1>4 DEF LimitsInit, LimitTypes, Stages, RequestTyped

\* What an admission does to the admissions and to the other requests.
LEMMA AdmitIs ==
  ASSUME LimitTypes, NEW r \in Requests, NEW kind \in Kinds, NEW t \in Nat, t <= now,
         Admit(r, kind, t)
  PROVE  /\ admitted' \in [Kinds -> SUBSET Admission]
         /\ \A k \in Kinds : Numbered(admitted'[k]) /\ \A a \in admitted'[k] : a.at <= now
         /\ \A k \in Kinds \ {kind} : admitted'[k] = admitted[k] /\ told'[k] = told[k]
         /\ \A P : /\ Count(admitted[kind], P) \in Nat
                   /\ t \in P => Count(admitted'[kind], P) = Count(admitted[kind], P) + 1
                   /\ t \notin P => Count(admitted'[kind], P) = Count(admitted[kind], P)
         /\ told'[kind] = Never /\ DOMAIN told' = Kinds
<1> DEFINE A == admitted[kind]
           B == A \cup {[at |-> t, turn |-> Cardinality(A) + 1]}
<1>1. A \in SUBSET Admission /\ Numbered(A)
  BY DEF LimitTypes
<1>2. /\ B \in SUBSET Admission /\ Numbered(B)
      /\ \A P : /\ Count(A, P) \in Nat
                /\ t \in P => Count(B, P) = Count(A, P) + 1
                /\ t \notin P => Count(B, P) = Count(A, P)
  BY <1>1, CountOne
<1>3. admitted' = [admitted EXCEPT ![kind] = B]
  BY DEF Admit
<1>4. \A a \in B : a.at <= now
  BY DEF LimitTypes
<1> HIDE DEF B
<1>5. admitted'[kind] = B /\ \A k \in Kinds \ {kind} : admitted'[k] = admitted[k]
  BY <1>3 DEF LimitTypes
<1>6. admitted' \in [Kinds -> SUBSET Admission]
  BY <1>2, <1>3 DEF LimitTypes
<1>7. \A k \in Kinds : Numbered(admitted'[k]) /\ \A a \in admitted'[k] : a.at <= now
  BY <1>2, <1>4, <1>5 DEF LimitTypes
<1>8. told'[kind] = Never /\ DOMAIN told' = Kinds /\ \A k \in Kinds \ {kind} : told'[k] = told[k]
  BY DEF LimitTypes, Admit
<1> QED BY <1>2, <1>5, <1>6, <1>7, <1>8

\* What it does to the requests.
LEMMA AdmitMoves ==
  ASSUME LimitTypes, NEW r \in Requests, NEW kind \in Kinds, NEW t \in Nat,
         rest[r] # <<>>, Admit(r, kind, t)
  PROVE  /\ pc' \in [Requests -> Stages] /\ rest' \in [Requests -> Seq(Kinds)]
         /\ clock' \in [Requests -> Nat] /\ missed' \in [Requests -> Nat] /\ DOMAIN seen' = Requests
         /\ pc'[r] \in {"idle", "next"} /\ (pc'[r] = "next" => rest'[r] # <<>>) /\ clock'[r] = 0
         /\ \A q \in Requests \ {r} :
              /\ pc'[q] = pc[q] /\ rest'[q] = rest[q] /\ clock'[q] = clock[q] /\ seen'[q] = seen[q]
              /\ pc[q] = kind => missed'[q] = missed[q] + 1
              /\ pc[q] # kind => missed'[q] = missed[q]
<1>1. rest[r] \in Seq(Kinds) /\ Tail(rest[r]) \in Seq(Kinds) /\ (Len(rest[r]) # 1 => Tail(rest[r]) # <<>>)
  <2>1. rest[r] \in Seq(Kinds)
    BY DEF LimitTypes
  <2>2. ASSUME NEW s \in Seq(Kinds), s # <<>>
        PROVE  Tail(s) \in Seq(Kinds) /\ (Len(s) # 1 => Tail(s) # <<>>)
    <3>1. Tail(s) \in Seq(Kinds) /\ Len(Tail(s)) = Len(s) - 1 /\ Len(s) \in Nat
      BY <2>2
    <3>2. Len(s) # 1 => Tail(s) # <<>>
      <4>1. Len(<<>>) = 0
        OBVIOUS
      <4>2. Len(s) # 1 => Len(Tail(s)) # Len(<<>>)
        BY <3>1, <4>1
      <4> DEFINE u == Tail(s)
      <4> HIDE DEF u
      <4>3. Len(u) # Len(<<>>) => u # <<>>
        OBVIOUS
      <4> QED BY <4>2, <4>3 DEF u
    <3> QED BY <3>1, <3>2
  <2> QED BY <2>1, <2>2
<1>2. rest' = [rest EXCEPT ![r] = Tail(rest[r])] /\ rest \in [Requests -> Seq(Kinds)]
  BY DEF LimitTypes, Admit
<1>3. rest' \in [Requests -> Seq(Kinds)] /\ rest'[r] = Tail(rest[r])
      /\ \A q \in Requests \ {r} : rest'[q] = rest[q]
  BY <1>1, <1>2
<1>4. /\ pc' \in [Requests -> Stages] /\ pc'[r] \in {"idle", "next"}
      /\ pc'[r] = "next" => Len(rest[r]) # 1
      /\ \A q \in Requests \ {r} : pc'[q] = pc[q]
  BY DEF LimitTypes, Admit, Stages
<1>5. /\ clock' \in [Requests -> Nat] /\ clock'[r] = 0 /\ DOMAIN seen' = Requests
      /\ \A q \in Requests \ {r} : clock'[q] = clock[q] /\ seen'[q] = seen[q]
  BY DEF LimitTypes, Admit
<1>6. /\ missed' \in [Requests -> Nat]
      /\ \A q \in Requests \ {r} : /\ pc[q] = kind => missed'[q] = missed[q] + 1
                                   /\ pc[q] # kind => missed'[q] = missed[q]
  <2>1. missed' = [q \in Requests |-> IF q = r THEN 0
                                      ELSE IF pc[q] = kind THEN missed[q] + 1 ELSE missed[q]]
    BY DEF Admit
  <2>2. \A q \in Requests : missed[q] \in Nat /\ missed[q] + 1 \in Nat
    BY DEF LimitTypes
  <2>3. \A q \in Requests : missed'[q] \in Nat
    BY <2>1, <2>2
  <2>4. missed' \in [Requests -> Nat]
    BY <2>1, <2>2
  <2> QED BY <2>1, <2>4
<1> QED BY <1>1, <1>3, <1>4, <1>5, <1>6

\* What a denial does to the requests.
LEMMA DenyMoves ==
  ASSUME LimitTypes, NEW r \in Requests, NEW kind \in Kinds, NEW comeBack, Deny(r, kind, comeBack)
  PROVE  /\ pc' \in [Requests -> Stages] /\ rest' \in [Requests -> Seq(Kinds)]
         /\ clock' \in [Requests -> Nat] /\ missed' \in [Requests -> Nat] /\ DOMAIN seen' = Requests
         /\ pc'[r] = "idle" /\ clock'[r] = 0 /\ admitted' = admitted
         /\ told'[kind] = comeBack /\ DOMAIN told' = Kinds
         /\ \A k \in Kinds \ {kind} : told'[k] = told[k]
         /\ \A q \in Requests \ {r} :
              /\ pc'[q] = pc[q] /\ rest'[q] = rest[q] /\ clock'[q] = clock[q] /\ seen'[q] = seen[q]
              /\ missed'[q] = missed[q]
<1>1. /\ rest' \in [Requests -> Seq(Kinds)] /\ \A q \in Requests \ {r} : rest'[q] = rest[q]
  BY DEF LimitTypes, Deny
<1>2. /\ pc' \in [Requests -> Stages] /\ pc'[r] = "idle" /\ \A q \in Requests \ {r} : pc'[q] = pc[q]
  BY DEF LimitTypes, Deny, Stages
<1>3. /\ clock' \in [Requests -> Nat] /\ clock'[r] = 0 /\ DOMAIN seen' = Requests
      /\ missed' \in [Requests -> Nat]
      /\ \A q \in Requests \ {r} :
           clock'[q] = clock[q] /\ seen'[q] = seen[q] /\ missed'[q] = missed[q]
  BY DEF LimitTypes, Deny
<1>4. /\ admitted' = admitted /\ told'[kind] = comeBack /\ DOMAIN told' = Kinds
      /\ \A k \in Kinds \ {kind} : told'[k] = told[k]
  BY DEF LimitTypes, Deny
<1> QED BY <1>1, <1>2, <1>3, <1>4

\* An answer of either kind leaves the others as far behind as they were.
LEMMA BehindKept ==
  ASSUME OrderTypes, NEW r \in Requests, NEW kind, NEW t,
         Admit(r, kind, t) \/ \E c : Deny(r, kind, c)
  PROVE  /\ behind' \in [Requests -> Nat]
         /\ \A q \in Requests \ {r} : behind'[q] = behind[q]
<1>1. behind' = [behind EXCEPT ![r] = 0]
  BY DEF Admit, Deny
<1> QED BY <1>1 DEF OrderTypes

\* A limiter's request that has been answered is typed, and so are the others.
LEMMA AnsweredTyped ==
  ASSUME LimitTypes, NEW r \in Requests, now' = now,
         pc' \in [Requests -> Stages], rest' \in [Requests -> Seq(Kinds)],
         clock' \in [Requests -> Nat], missed' \in [Requests -> Nat], DOMAIN seen' = Requests,
         pc'[r] \in {"idle", "next"}, pc'[r] = "next" => rest'[r] # <<>>, clock'[r] = 0,
         \A q \in Requests \ {r} :
           pc'[q] = pc[q] /\ rest'[q] = rest[q] /\ clock'[q] = clock[q] /\ seen'[q] = seen[q]
  PROVE  \A q \in Requests : RequestTyped(q)'
<1>1. ASSUME NEW q \in Requests \ {r} PROVE RequestTyped(q)'
  BY DEF LimitTypes, RequestTyped
<1>2. RequestTyped(r)'
  BY DEF LimitTypes, RequestTyped
<1> QED BY <1>1, <1>2

\* A counter's start is typed.
LEMMA StartTyped ==
  ASSUME LimitTypes, NEW b \in Buckets, Start(b)
  PROVE  /\ counter' \in [Buckets -> [n : Nat, dropAt : Nat]] /\ adds' \in [Buckets -> Nat]
         /\ counter'[b].n = 1 /\ adds'[b] = adds[b] + 1
         /\ \A c \in Buckets \ {b} : counter'[c] = counter[c] /\ adds'[c] = adds[c]
<1>1. now + Window * Hz \in Nat
  <2>1. Window * Hz \in Nat
    BY Sizes DEF Wide
  <2>2. now \in Nat
    BY DEF LimitTypes
  <2> DEFINE w == Window * Hz
  <2> HIDE DEF w
  <2>3. w \in Nat => now + w \in Nat
    BY <2>2
  <2> QED BY <2>1, <2>3 DEF w
<1>2. [n |-> 1, dropAt |-> now + Window * Hz] \in [n : Nat, dropAt : Nat]
  BY <1>1
<1> QED BY <1>2 DEF LimitTypes, Start

\* The instants of the requests lie in buckets.
LEMMA InBuckets ==
  ASSUME LimitTypes
  PROVE  /\ BucketOf(now) \in Buckets
         /\ \A r \in Requests : clock[r] \in Ticks /\ clock[r] <= now /\ BucketOf(clock[r]) \in Buckets
<1>1. ASSUME NEW r \in Requests PROVE clock[r] \in Ticks /\ clock[r] <= now
  BY RateLimitsAssumption, SMTT(60) DEF LimitTypes, RequestTyped, Ticks
<1> QED BY <1>1 DEF LimitTypes, Buckets

\* A request whose turn it is has a limiter left.
LEMMA TurnHas ==
  ASSUME LimitTypes, NEW r \in Requests, NEW kind, Turn(r, kind)
  PROVE  rest[r] # <<>>
BY DEF LimitTypes, RequestTyped, Turn

\* What a request reads and writes of the sliding window's list and of the bucket.
LEMMA RefilledIs ==
  ASSUME LimitTypes, NEW t \in Nat
  PROVE  /\ Refilled(tokens, t) \in Nat /\ Refilled(tokens, t) <= Full
         /\ tokens = Never => Refilled(tokens, t) = Full
         /\ tokens # Never =>
              /\ tokens.level \in Nat /\ tokens.last \in Nat
              /\ Refilled(tokens, t) =
                   LET gain == IF t >= tokens.last THEN t - tokens.last ELSE 0
                   IN IF Full <= tokens.level + gain THEN Full ELSE tokens.level + gain
<1>1. CASE tokens = Never
  BY <1>1, Sizes DEF Refilled
<1>2. CASE tokens # Never
  <2> DEFINE gain == IF t >= tokens.last THEN t - tokens.last ELSE 0
  <2>1. tokens.level \in Nat /\ tokens.last \in Nat
    BY <1>2 DEF LimitTypes, Entries
  <2>2. Max({t - tokens.last, 0}) = gain /\ gain \in Nat
    BY <2>1, MaxMin
  <2> HIDE DEF gain
  <2>3. Min({Full, tokens.level + gain}) =
          IF Full <= tokens.level + gain THEN Full ELSE tokens.level + gain
    <3> DEFINE v == tokens.level + gain
    <3>1. Full \in Int /\ v \in Int
      BY <2>1, <2>2, Sizes
    <3> HIDE DEF v
    <3>2. Min({Full, v}) = IF Full <= v THEN Full ELSE v
      BY <3>1, MaxMin
    <3> QED BY <3>2 DEF v
  <2>4. Refilled(tokens, t) = Min({Full, tokens.level + gain})
    BY <1>2, <2>2 DEF Refilled
  <2> QED BY <1>2, <2>1, <2>2, <2>3, <2>4, Sizes DEF gain
<1> QED BY <1>1, <1>2

\* A request's step keeps the types.
LEMMA ActionTyped ==
  ASSUME LimitTypes, NEW r \in Requests, LimitAction(r)
  PROVE  LimitTypes'
<1>0. now \in Nat /\ now \in Ticks /\ rateLimits \in Bindings /\ now <= now
  BY DEF LimitTypes
<1>1. clock[r] \in Ticks /\ clock[r] \in Nat /\ clock[r] <= now /\ missed[r] \in Nat
  BY InBuckets DEF LimitTypes
<1>2. BucketOf(now) \in Buckets /\ BucketOf(clock[r]) \in Buckets
  BY InBuckets
<1>3. CASE Begin(r)
  <2>1. rateLimits \in Seq(Kinds) /\ rateLimits # <<>>
    BY <1>0, RateLimitsAssumption
  <2>2. /\ rest' \in [Requests -> Seq(Kinds)] /\ rest'[r] = rateLimits
        /\ pc' \in [Requests -> Stages] /\ pc'[r] = "next"
        /\ \A q \in Requests \ {r} : rest'[q] = rest[q] /\ pc'[q] = pc[q]
    BY <1>3, <2>1 DEF LimitTypes, Begin, Stages
  <2>5. faults' \in [calls : Nat, evicted : SUBSET Kinds]
    <3>1. faults \in [calls : Nat, evicted : SUBSET Kinds] /\ faults.calls + 1 \in Nat
      BY DEF LimitTypes
    <3>2. faults' = [faults EXCEPT !.calls = faults.calls + 1]
      BY <1>3 DEF Begin
    <3> QED BY <3>1, <3>2
  <2>3. UNCHANGED <<now, rateLimits, counter, stamps, tokens, clock, seen, missed, erased, admitted, adds, told>>
    BY <1>3 DEF Begin, steady, cache, reads, history
  <2>4. \A q \in Requests : RequestTyped(q)'
    BY <2>1, <2>2, <2>3 DEF LimitTypes, RequestTyped
  <2> QED BY <2>2, <2>3, <2>4, <2>5 DEF LimitTypes
<1>4. CASE FixedAdd(r)
  <2>1. UNCHANGED <<now, rateLimits, stamps, tokens, erased, faults>> /\ rest[r] # <<>>
    BY <1>4, TurnHas DEF FixedAdd, steady
  <2>2. CASE Counting(BucketOf(clock[r]))
    <3>1. /\ UNCHANGED <<counter, adds, rest, clock, seen, missed, admitted, told>>
          /\ pc' = [pc EXCEPT ![r] = "incr"]
      BY <1>4, <2>2 DEF FixedAdd, reads
    <3>2. \A q \in Requests : RequestTyped(q)'
      BY <1>0, <2>1, <3>1 DEF LimitTypes, RequestTyped
    <3> QED BY <1>0, <2>1, <3>1, <3>2 DEF LimitTypes, Stages
  <2>3. CASE ~Counting(BucketOf(clock[r]))
    <3>1. Start(BucketOf(clock[r])) /\ Admit(r, "fixed", clock[r])
      BY <1>4, <2>3 DEF FixedAdd
    <3>2. "fixed" \in Kinds
      BY DEF Kinds
    <3>3. \A q \in Requests : RequestTyped(q)'
      BY <1>1, <2>1, <3>1, <3>2, AdmitMoves, AnsweredTyped
    <3>4. counter' \in [Buckets -> [n : Nat, dropAt : Nat]] /\ adds' \in [Buckets -> Nat]
      BY <1>2, <3>1, StartTyped
    <3>5. /\ pc' \in [Requests -> Stages] /\ rest' \in [Requests -> Seq(Kinds)]
          /\ clock' \in [Requests -> Nat] /\ missed' \in [Requests -> Nat] /\ DOMAIN seen' = Requests
      BY <1>1, <2>1, <3>1, <3>2, AdmitMoves
    <3>6. /\ admitted' \in [Kinds -> SUBSET Admission] /\ DOMAIN told' = Kinds
          /\ \A k \in Kinds : Numbered(admitted'[k]) /\ \A a \in admitted'[k] : a.at <= now
      BY <1>1, <3>1, <3>2, AdmitIs
    <3> QED BY <2>1, <3>3, <3>4, <3>5, <3>6 DEF LimitTypes
  <2> QED BY <2>2, <2>3
<1>5. CASE FixedIncr(r)
  <2> DEFINE b == BucketOf(clock[r])
  <2>1. /\ UNCHANGED <<now, rateLimits, stamps, tokens, erased, adds, faults>> /\ rest[r] # <<>>
        /\ counter' = [counter EXCEPT ![b].n = @ + 1]
    BY <1>5 DEF FixedIncr, steady, LimitTypes, RequestTyped
  <2>2. counter' \in [Buckets -> [n : Nat, dropAt : Nat]]
    <3>1. counter[b].n + 1 \in Nat /\ counter[b] \in [n : Nat, dropAt : Nat]
      BY <1>2 DEF LimitTypes
    <3> QED BY <1>2, <2>1, <3>1 DEF LimitTypes
  <2>3. "fixed" \in Kinds
    BY DEF Kinds
  <2>4. Admit(r, "fixed", clock[r]) \/ \E c : Deny(r, "fixed", c)
    BY <1>5 DEF FixedIncr
  <2>5. CASE Admit(r, "fixed", clock[r])
    <3>3. \A q \in Requests : RequestTyped(q)'
      BY <1>1, <2>1, <2>3, <2>5, AdmitMoves, AnsweredTyped
    <3> QED BY <1>1, <2>1, <2>2, <2>3, <2>5, <3>3, AdmitMoves, AdmitIs DEF LimitTypes
  <2>6. ASSUME NEW c, Deny(r, "fixed", c) PROVE LimitTypes'
    <3>3. \A q \in Requests : RequestTyped(q)'
      BY <1>1, <2>1, <2>3, <2>6, DenyMoves, AnsweredTyped
    <3> QED BY <1>1, <2>1, <2>2, <2>3, <2>6, <3>3, DenyMoves DEF LimitTypes
  <2> QED BY <2>4, <2>5, <2>6
<1>6. CASE FixedGone(r)
  <2>1. /\ UNCHANGED <<now, rateLimits, counter, stamps, tokens, rest, clock, seen, missed, erased, admitted,
                       adds, told, faults>>
        /\ pc' = [pc EXCEPT ![r] = "readd"] /\ pc[r] = "incr"
    BY <1>6 DEF FixedGone, steady, cache, reads, history
  <2>2. \A q \in Requests : RequestTyped(q)'
    BY <2>1 DEF LimitTypes, RequestTyped
  <2> QED BY <2>1, <2>2 DEF LimitTypes, Stages
<1>7. CASE FixedReadd(r)
  <2> DEFINE b == BucketOf(clock[r])
  <2>1. /\ UNCHANGED <<now, rateLimits, stamps, tokens, erased, faults>> /\ rest[r] # <<>>
        /\ Admit(r, "fixed", clock[r]) /\ (UNCHANGED <<counter, adds>> \/ Start(b))
    BY <1>7 DEF FixedReadd, steady, LimitTypes, RequestTyped
  <2>2. counter' \in [Buckets -> [n : Nat, dropAt : Nat]] /\ adds' \in [Buckets -> Nat]
    BY <1>2, <2>1, StartTyped DEF LimitTypes
  <2>3. "fixed" \in Kinds
    BY DEF Kinds
  <2>4. \A q \in Requests : RequestTyped(q)'
    BY <1>1, <2>1, <2>3, AdmitMoves, AnsweredTyped
  <2> QED BY <1>1, <2>1, <2>2, <2>3, <2>4, AdmitMoves, AdmitIs DEF LimitTypes
<1>8. CASE SlidingRead(r)
  <2>1. /\ UNCHANGED <<now, rateLimits, counter, stamps, tokens, rest, clock, missed, erased, admitted, adds, told, faults>>
        /\ pc' = [pc EXCEPT ![r] = "sliding"]
        /\ seen' = [seen EXCEPT ![r] = Pruned(stamps, clock[r])] /\ rest[r] # <<>>
    BY <1>8, TurnHas DEF SlidingRead, steady, cache, history
  <2>2. Pruned(stamps, clock[r]) \in Seq(Ticks)
    BY <1>1, PrunedKeeps DEF LimitTypes
  <2>3. \A q \in Requests : RequestTyped(q)'
    BY <1>0, <2>1, <2>2 DEF LimitTypes, RequestTyped
  <2> QED BY <1>0, <2>1, <2>3 DEF LimitTypes, Stages
<1>9. CASE SlidingWrite(r)
  <2>1. /\ UNCHANGED <<now, rateLimits, counter, tokens, adds, faults>> /\ rest[r] # <<>>
        /\ erased' = [erased EXCEPT !["sliding"] = @ + missed[r]] /\ seen[r] \in Seq(Ticks)
        /\ stamps' = seen[r] \/ stamps' = Append(seen[r], clock[r])
        /\ Admit(r, "sliding", clock[r]) \/ \E c : Deny(r, "sliding", c)
    BY <1>9 DEF SlidingWrite, steady, LimitTypes, RequestTyped, Erase
  <2>2. stamps' \in Seq(Ticks)
    <3>1. \A s \in Seq(Ticks), u \in Ticks : Append(s, u) \in Seq(Ticks)
      OBVIOUS
    <3> QED BY <1>1, <2>1, <3>1
  <2>3. "sliding" \in Kinds
    BY DEF Kinds
  <2>4. erased' \in [Kinds -> Nat]
    BY <1>1, <2>1, <2>3 DEF LimitTypes
  <2>5. CASE Admit(r, "sliding", clock[r])
    <3>3. \A q \in Requests : RequestTyped(q)'
      BY <1>1, <2>1, <2>3, <2>5, AdmitMoves, AnsweredTyped
    <3> QED BY <1>1, <2>1, <2>2, <2>3, <2>4, <2>5, <3>3, AdmitMoves, AdmitIs DEF LimitTypes
  <2>6. ASSUME NEW c, Deny(r, "sliding", c) PROVE LimitTypes'
    <3>3. \A q \in Requests : RequestTyped(q)'
      BY <1>1, <2>1, <2>3, <2>6, DenyMoves, AnsweredTyped
    <3> QED BY <1>1, <2>1, <2>2, <2>3, <2>4, <2>6, <3>3, DenyMoves DEF LimitTypes
  <2> QED BY <2>1, <2>5, <2>6
<1>10. CASE BucketRead(r)
  <2>1. /\ UNCHANGED <<now, rateLimits, counter, stamps, tokens, rest, clock, missed, erased, admitted, adds, told, faults>>
        /\ pc' = [pc EXCEPT ![r] = "bucket"]
        /\ seen' = [seen EXCEPT ![r] = Refilled(tokens, clock[r])] /\ rest[r] # <<>>
    BY <1>10, TurnHas DEF BucketRead, steady, cache, history
  <2>2. Refilled(tokens, clock[r]) \in Nat
    BY <1>1, RefilledIs
  <2>3. \A q \in Requests : RequestTyped(q)'
    BY <1>0, <2>1, <2>2 DEF LimitTypes, RequestTyped
  <2> QED BY <1>0, <2>1, <2>3 DEF LimitTypes, Stages
<1>11. CASE BucketWrite(r)
  <2>1. /\ UNCHANGED <<now, rateLimits, counter, stamps, adds, faults>> /\ rest[r] # <<>>
        /\ erased' = [erased EXCEPT !["bucket"] = @ + missed[r]] /\ seen[r] \in Nat
        /\ \/ seen[r] >= Cost /\ tokens' = [level |-> seen[r] - Cost, last |-> clock[r]]
           \/ tokens' = [level |-> seen[r], last |-> clock[r]]
        /\ Admit(r, "bucket", clock[r]) \/ \E c : Deny(r, "bucket", c)
    BY <1>11 DEF BucketWrite, steady, LimitTypes, RequestTyped, Erase
  <2>2. tokens' \in Entries
    BY <1>1, <2>1, Sizes DEF Entries
  <2>3. "bucket" \in Kinds
    BY DEF Kinds
  <2>4. erased' \in [Kinds -> Nat]
    BY <1>1, <2>1, <2>3 DEF LimitTypes
  <2>5. CASE Admit(r, "bucket", clock[r])
    <3>3. \A q \in Requests : RequestTyped(q)'
      BY <1>1, <2>1, <2>3, <2>5, AdmitMoves, AnsweredTyped
    <3>4. /\ pc' \in [Requests -> Stages] /\ rest' \in [Requests -> Seq(Kinds)]
          /\ clock' \in [Requests -> Nat] /\ missed' \in [Requests -> Nat] /\ DOMAIN seen' = Requests
      BY <1>1, <2>1, <2>3, <2>5, AdmitMoves
    <3>5. /\ admitted' \in [Kinds -> SUBSET Admission] /\ DOMAIN told' = Kinds
          /\ \A k \in Kinds : Numbered(admitted'[k]) /\ \A a \in admitted'[k] : a.at <= now
      BY <1>1, <2>3, <2>5, AdmitIs
    <3> QED BY <1>1, <2>1, <2>2, <2>4, <3>3, <3>4, <3>5 DEF LimitTypes
  <2>6. ASSUME NEW c, Deny(r, "bucket", c) PROVE LimitTypes'
    <3>3. \A q \in Requests : RequestTyped(q)'
      BY <1>1, <2>1, <2>3, <2>6, DenyMoves, AnsweredTyped
    <3> QED BY <1>1, <2>1, <2>2, <2>3, <2>4, <2>6, <3>3, DenyMoves DEF LimitTypes
  <2> QED BY <2>1, <2>5, <2>6
<1>12. CASE AskTime(r)
  <2>1. /\ UNCHANGED <<now, rateLimits, counter, stamps, tokens, rest, seen, missed, erased, admitted, adds, told, faults>>
        /\ pc' = [pc EXCEPT ![r] = "timed"] /\ clock' = [clock EXCEPT ![r] = now] /\ pc[r] = "next"
    BY <1>12 DEF AskTime, steady, cache, history
  <2>2. \A q \in Requests : RequestTyped(q)'
    BY <1>0, <2>1 DEF LimitTypes, RequestTyped
  <2> QED BY <1>0, <2>1, <2>2 DEF LimitTypes, Stages
<1> QED BY <1>3, <1>4, <1>5, <1>6, <1>7, <1>8, <1>9, <1>10, <1>11, <1>12 DEF LimitAction

\* So do the clock and the cache.
LEMMA LimitTypesKept == LimitTypes /\ [LimitsNext]_limitVars => LimitTypes'
<1> SUFFICES ASSUME LimitTypes, [LimitsNext]_limitVars PROVE LimitTypes'
  OBVIOUS
<1>1. CASE Tick
  <2>1. /\ UNCHANGED <<rateLimits, counter, pc, rest, clock, seen, missed, erased, admitted,
                       adds, told, faults>>
        /\ now' = now + 1 /\ now < MaxTime
        /\ stamps' \in {stamps, <<>>} /\ tokens' \in {tokens, Never}
    BY <1>1 DEF Tick, reads
  <2>5. stamps' \in Seq(Ticks) /\ tokens' \in {Never} \cup Entries
    <3>1. <<>> \in Seq(Ticks)
      OBVIOUS
    <3> QED BY <2>1, <3>1 DEF LimitTypes
  <2>2. now' \in Nat /\ now' \in Ticks /\ now < now' /\ now \in Nat
    BY <2>1, Sizes DEF LimitTypes, Ticks
  <2>3. \A q \in Requests : RequestTyped(q)'
    BY <2>1, <2>2 DEF LimitTypes, RequestTyped
  <2>4. \A k \in Kinds : Numbered(admitted[k]) /\ \A a \in admitted[k] : a.at <= now'
    <3>1. \A k \in Kinds : \A a \in admitted[k] : a.at \in Nat /\ a.at <= now
      BY DEF LimitTypes, Admission
    <3> QED BY <2>2, <3>1 DEF LimitTypes
  <2> QED BY <2>1, <2>2, <2>3, <2>4, <2>5 DEF LimitTypes
<1>2. CASE Evict
  <2>1. UNCHANGED <<rateLimits, now, pc, rest, clock, seen, missed, erased, admitted, adds, told>>
    BY <1>2 DEF Evict, steady, reads, history
  <2>2. PICK k \in Range(rateLimits) \ faults.evicted :
          /\ faults' = [faults EXCEPT !.evicted = @ \cup {k}]
          /\ counter' = IF k = "fixed" THEN [b \in Buckets |-> Absent] ELSE counter
          /\ stamps' = IF k = "sliding" THEN <<>> ELSE stamps
          /\ tokens' = IF k = "bucket" THEN Never ELSE tokens
    BY <1>2 DEF Evict
  <2>3. rateLimits \in Seq(Kinds)
    BY RateLimitsAssumption DEF LimitTypes
  <2>4. k \in Kinds
    BY <2>3 DEF Range
  <2>5. counter' \in [Buckets -> [n : Nat, dropAt : Nat]]
    BY <2>2 DEF LimitTypes, Absent
  <2>6. <<>> \in Seq(Ticks)
    OBVIOUS
  <2>7. stamps' \in Seq(Ticks) /\ tokens' \in {Never} \cup Entries
    BY <2>2, <2>6 DEF LimitTypes
  <2>8. faults' \in [calls : Nat, evicted : SUBSET Kinds]
    BY <2>2, <2>4 DEF LimitTypes
  <2>9. \A q \in Requests : RequestTyped(q)'
    BY <2>1 DEF LimitTypes, RequestTyped
  <2> QED BY <2>1, <2>5, <2>7, <2>8, <2>9 DEF LimitTypes
<1>3. CASE UNCHANGED limitVars
  <2>1. \A q \in Requests : RequestTyped(q)'
    BY <1>3 DEF LimitTypes, RequestTyped, limitVars
  <2> QED BY <1>3, <2>1 DEF LimitTypes, limitVars
<1>4. ASSUME NEW r \in Requests, LimitAction(r) PROVE LimitTypes'
  BY <1>4, ActionTyped
<1> QED BY <1>1, <1>2, <1>3, <1>4 DEF LimitsNext, LimitAction

\* The timeouts and what is told of reads out of order keep their types.
LEMMA OrderTypesKept == LimitTypes /\ OrderTypes /\ [LimitsNext]_limitVars => OrderTypes'
<1> SUFFICES ASSUME LimitTypes, OrderTypes, [LimitsNext]_limitVars PROVE OrderTypes'
  OBVIOUS
<1>0. now \in Nat /\ \A r \in Requests : clock[r] \in Nat
  BY DEF LimitTypes
<1>1. CASE Tick
  <2>1. horizon' \in {horizon, now + 1} /\ UNCHANGED <<dropAt, behind, overtaken, rewound>>
    BY <1>1 DEF Tick, reads
  <2> QED BY <1>0, <2>1 DEF OrderTypes
<1>2. CASE Evict
  BY <1>2 DEF Evict, OrderTypes, reads, history
<1>3. CASE UNCHANGED limitVars
  BY <1>3 DEF limitVars, OrderTypes
<1>4. ASSUME NEW r \in Requests, LimitAction(r) PROVE OrderTypes'
  <2>1. CASE Begin(r) \/ AskTime(r) \/ FixedGone(r)
    BY <2>1 DEF Begin, AskTime, FixedGone, OrderTypes, cache, reads, history
  <2>2. CASE FixedAdd(r) \/ FixedIncr(r) \/ FixedReadd(r)
    <3>1. UNCHANGED <<dropAt, horizon, overtaken, rewound>>
      BY <2>2 DEF FixedAdd, FixedIncr, FixedReadd
    <3>2. behind' = behind \/ (\E t : Admit(r, "fixed", t)) \/ \E c : Deny(r, "fixed", c)
      BY <2>2 DEF FixedAdd, FixedIncr, FixedReadd, reads
    <3>3. behind' \in [Requests -> Nat]
      BY <3>2, BehindKept DEF OrderTypes
    <3> QED BY <3>1, <3>3 DEF OrderTypes
  <2>3. CASE SlidingRead(r)
    <3>1. Max({horizon - clock[r], 0}) \in Nat
      BY <1>0, MaxMin DEF OrderTypes
    <3> QED BY <2>3, <3>1 DEF SlidingRead, OrderTypes, cache, history
  <2>4. CASE BucketRead(r)
    <3>1. AsOf \in Nat
      BY DEF AsOf, LimitTypes, OrderTypes, Entries
    <3>2. Max({AsOf - clock[r], 0}) \in Nat
      BY <1>0, <3>1, MaxMin
    <3> QED BY <2>4, <3>2 DEF BucketRead, OrderTypes, cache, history
  <2>5. CASE SlidingWrite(r)
    <3>1. now + Wide \in Nat
      BY <1>0, Sizes
    <3>2. dropAt' = [dropAt EXCEPT !["sliding"] = now + Wide]
      BY <2>5 DEF SlidingWrite, Wide
    <3>3. horizon' \in Nat
      BY <1>0, <2>5, MaxMin, SMTT(30) DEF SlidingWrite, OrderTypes
    <3>4. overtaken' \in Nat /\ rewound' = rewound
      BY <2>5 DEF SlidingWrite, OrderTypes
    <3>5. (\E t : Admit(r, "sliding", t)) \/ \E c : Deny(r, "sliding", c)
      BY <2>5 DEF SlidingWrite
    <3>6. behind' \in [Requests -> Nat]
      BY <3>5, BehindKept
    <3> QED BY <3>1, <3>2, <3>3, <3>4, <3>6 DEF OrderTypes
  <2>6. CASE BucketWrite(r)
    <3>1. now + Ttl \in Nat
      BY <1>0, TtlLong
    <3>2. dropAt' = [dropAt EXCEPT !["bucket"] = now + Ttl]
      BY <2>6 DEF BucketWrite
    <3>3. rewound' \in Nat /\ UNCHANGED <<horizon, overtaken>>
      BY <2>6 DEF BucketWrite, OrderTypes
    <3>5. (\E t : Admit(r, "bucket", t)) \/ \E c : Deny(r, "bucket", c)
      BY <2>6 DEF BucketWrite
    <3>6. behind' \in [Requests -> Nat]
      BY <3>5, BehindKept
    <3> QED BY <3>1, <3>2, <3>3, <3>6 DEF OrderTypes
  <2> QED BY <1>4, <2>1, <2>2, <2>3, <2>4, <2>5, <2>6 DEF LimitAction
<1> QED BY <1>1, <1>2, <1>3, <1>4 DEF LimitsNext, LimitAction

-----------------------------------------------------------------------------
(* What the steps leave alone.                                             *)

\* A step keeps what concerns a kind with a list of its own.
Aside(k) ==
  /\ admitted'[k] = admitted[k] /\ erased'[k] = erased[k] /\ told'[k] = told[k]
  /\ k \in faults.evicted => k \in faults'.evicted
  /\ \A q \in Requests :
       pc'[q] = k => /\ pc[q] = k /\ clock'[q] = clock[q] /\ seen'[q] = seen[q]
                     /\ behind'[q] = behind[q] /\ missed'[q] = missed[q]
SlidingAside == dropAt'["sliding"] = dropAt["sliding"] /\ UNCHANGED <<stamps, horizon, overtaken>>
BucketAside == dropAt'["bucket"] = dropAt["bucket"] /\ UNCHANGED <<tokens, rewound>>

\* The steps of the other kinds do, and the steps of nobody.
LEMMA OthersAside ==
  ASSUME LimitTypes, OrderTypes, NEW k \in {"sliding", "bucket"}, NEW r \in Requests, LimitAction(r),
         k = "sliding" => ~SlidingRead(r) /\ ~SlidingWrite(r),
         k = "bucket" => ~BucketRead(r) /\ ~BucketWrite(r)
  PROVE  Aside(k) /\ now' = now /\ k \in Kinds
         /\ (k = "sliding" => SlidingAside) /\ (k = "bucket" => BucketAside)
<1>0. k \in Kinds /\ "fixed" \in Kinds /\ "sliding" \in Kinds /\ "bucket" \in Kinds
      /\ clock[r] \in Nat /\ now \in Nat /\ clock[r] <= now /\ now <= now
  BY DEF Kinds, LimitTypes, RequestTyped
<1>1. ASSUME NEW kind \in Kinds \ {k}, rest[r] # <<>>, Admit(r, kind, clock[r]),
             erased'[k] = erased[k], faults' = faults
      PROVE  Aside(k)
  <2>1. k \in Kinds \ {kind}
    BY <1>0
  <2>2. admitted'[k] = admitted[k] /\ told'[k] = told[k]
    BY <1>0, <1>1, <2>1, AdmitIs
  <2>3. \A q \in Requests :
          pc'[q] = k => /\ pc[q] = k /\ clock'[q] = clock[q] /\ seen'[q] = seen[q]
                        /\ missed'[q] = missed[q] /\ q # r
    BY <1>0, <1>1, AdmitMoves
  <2>4. \A q \in Requests \ {r} : behind'[q] = behind[q]
    BY <1>1, BehindKept
  <2> QED BY <1>1, <2>2, <2>3, <2>4 DEF Aside
<1>2. ASSUME NEW kind \in Kinds \ {k}, NEW c, Deny(r, kind, c), erased'[k] = erased[k], faults' = faults
      PROVE  Aside(k)
  <2>1. \A q \in Requests \ {r} : behind'[q] = behind[q]
    BY <1>2, BehindKept
  <2> QED BY <1>0, <1>2, <2>1, DenyMoves DEF Aside
<1>3. ASSUME NEW stage, stage # k, pc' = [pc EXCEPT ![r] = stage], faults.evicted \subseteq faults'.evicted,
             \A q \in Requests \ {r} : clock'[q] = clock[q] /\ seen'[q] = seen[q] /\ behind'[q] = behind[q],
             UNCHANGED <<missed, admitted, erased, told>>
      PROVE  Aside(k)
  BY <1>0, <1>3 DEF Aside, LimitTypes
<1>4. CASE Begin(r) \/ AskTime(r) \/ FixedGone(r)
  <2>1. faults.evicted \subseteq faults'.evicted
    BY <1>4 DEF Begin, AskTime, FixedGone, LimitTypes
  <2>2. /\ \E stage \in {"next", "timed", "readd"} : pc' = [pc EXCEPT ![r] = stage]
        /\ \A q \in Requests \ {r} : clock'[q] = clock[q]
        /\ UNCHANGED <<seen, behind, missed, admitted, erased, told, now, cache, horizon, overtaken, rewound>>
    BY <1>4 DEF Begin, AskTime, FixedGone, steady, cache, reads, history, LimitTypes
  <2>3. Aside(k)
    BY <1>0, <1>3, <2>1, <2>2
  <2> QED BY <1>0, <2>2, <2>3 DEF SlidingAside, BucketAside, cache
<1>5. CASE FixedAdd(r) \/ FixedIncr(r) \/ FixedReadd(r)
  <2>1. UNCHANGED <<now, stamps, tokens, dropAt, faults, erased, horizon, overtaken, rewound>> /\ rest[r] # <<>>
    BY <1>5, TurnHas DEF FixedAdd, FixedIncr, FixedReadd, steady, LimitTypes, RequestTyped
  <2>2. \/ Admit(r, "fixed", clock[r])
        \/ \E c : Deny(r, "fixed", c)
        \/ pc' = [pc EXCEPT ![r] = "incr"] /\ UNCHANGED <<clock, seen, behind, missed, admitted, told>>
    BY <1>5 DEF FixedAdd, FixedIncr, FixedReadd, reads
  <2>3. Aside(k)
    <3>1. "fixed" \in Kinds \ {k} /\ erased'[k] = erased[k] /\ faults.evicted \subseteq faults'.evicted
      BY <1>0, <2>1
    <3> QED BY <1>1, <1>2, <1>3, <2>1, <2>2, <3>1
  <2> QED BY <1>0, <2>1, <2>3 DEF SlidingAside, BucketAside
<1>6. CASE SlidingRead(r) \/ BucketRead(r)
  <2>1. PICK stage \in {"sliding", "bucket"} \ {k} :
          /\ pc' = [pc EXCEPT ![r] = stage]
          /\ \A q \in Requests \ {r} : seen'[q] = seen[q] /\ behind'[q] = behind[q]
          /\ UNCHANGED <<clock, missed, admitted, erased, told, now, cache, faults, horizon, overtaken, rewound>>
    BY <1>6 DEF SlidingRead, BucketRead, steady, cache, history, LimitTypes, OrderTypes
  <2>2. Aside(k)
    BY <1>3, <2>1
  <2> QED BY <1>0, <2>1, <2>2 DEF SlidingAside, BucketAside, cache
<1>7. CASE SlidingWrite(r)
  <2>1. /\ UNCHANGED <<now, tokens, faults, rewound>> /\ rest[r] # <<>> /\ k = "bucket"
        /\ Admit(r, "sliding", clock[r]) \/ \E c : Deny(r, "sliding", c)
        /\ erased' = [erased EXCEPT !["sliding"] = @ + missed[r]]
        /\ dropAt' = [dropAt EXCEPT !["sliding"] = now + Window * Hz]
    BY <1>7 DEF SlidingWrite, Erase, steady, LimitTypes, RequestTyped
  <2>2. erased'[k] = erased[k] /\ "sliding" \in Kinds \ {k} /\ dropAt'[k] = dropAt[k]
    BY <1>0, <2>1 DEF LimitTypes, OrderTypes
  <2>3. Aside(k)
    BY <1>0, <1>1, <1>2, <2>1, <2>2
  <2> QED BY <1>0, <2>1, <2>2, <2>3 DEF BucketAside
<1>8. CASE BucketWrite(r)
  <2>1. /\ UNCHANGED <<now, stamps, faults, horizon, overtaken>> /\ rest[r] # <<>> /\ k = "sliding"
        /\ Admit(r, "bucket", clock[r]) \/ \E c : Deny(r, "bucket", c)
        /\ erased' = [erased EXCEPT !["bucket"] = @ + missed[r]]
        /\ dropAt' = [dropAt EXCEPT !["bucket"] = now + Ttl]
    BY <1>8 DEF BucketWrite, Erase, steady, LimitTypes, RequestTyped
  <2>2. erased'[k] = erased[k] /\ "bucket" \in Kinds \ {k} /\ dropAt'[k] = dropAt[k]
    BY <1>0, <2>1 DEF LimitTypes, OrderTypes
  <2>3. Aside(k)
    BY <1>0, <1>1, <1>2, <2>1, <2>2
  <2> QED BY <1>0, <2>1, <2>2, <2>3 DEF SlidingAside
<1> QED BY <1>4, <1>5, <1>6, <1>7, <1>8 DEF LimitAction

\* A write of a kind, seen by the others of that kind.
LEMMA OthersMiss ==
  ASSUME LimitTypes, OrderTypes, NEW k \in {"sliding", "bucket"}, NEW r \in Requests, rest[r] # <<>>,
         Erase(r, k), k \in Kinds, faults' = faults,
         Admit(r, k, clock[r]) \/ \E c : Deny(r, k, c)
  PROVE  /\ erased'[k] = erased[k] + missed[r] /\ erased[k] \in Nat /\ missed[r] \in Nat
         /\ pc'[r] # k /\ (k \in faults.evicted => k \in faults'.evicted)
         /\ \A q \in Requests \ {r} :
              pc'[q] = k => /\ pc[q] = k /\ clock'[q] = clock[q] /\ seen'[q] = seen[q]
                            /\ behind'[q] = behind[q] /\ missed[q] \in Nat /\ missed'[q] \in Nat
                            /\ Admit(r, k, clock[r]) => missed'[q] = missed[q] + 1
                            /\ missed[q] <= missed'[q]
<1>1. erased'[k] = erased[k] + missed[r] /\ erased[k] \in Nat /\ missed \in [Requests -> Nat]
      /\ clock[r] \in Nat
  BY DEF LimitTypes, Erase
<1>2. ASSUME Admit(r, k, clock[r])
      PROVE  /\ pc'[r] # k
             /\ \A q \in Requests \ {r} :
                  pc'[q] = k => /\ pc[q] = k /\ clock'[q] = clock[q] /\ seen'[q] = seen[q]
                                /\ missed[q] \in Nat /\ missed'[q] \in Nat
                                /\ missed'[q] = missed[q] + 1
                                /\ missed[q] <= missed'[q]
  <2>1. /\ pc'[r] \in {"idle", "next"}
        /\ \A q \in Requests \ {r} :
             /\ pc'[q] = pc[q] /\ clock'[q] = clock[q] /\ seen'[q] = seen[q]
             /\ pc[q] = k => missed'[q] = missed[q] + 1
    BY <1>1, <1>2, AdmitMoves
  <2>2. \A q \in Requests : missed[q] \in Nat
    BY <1>1
  <2> QED BY <2>1, <2>2
<1>3. ASSUME NEW c, Deny(r, k, c), ~Admit(r, k, clock[r])
      PROVE  /\ pc'[r] # k
             /\ \A q \in Requests \ {r} :
                  pc'[q] = k => /\ pc[q] = k /\ clock'[q] = clock[q] /\ seen'[q] = seen[q]
                                /\ missed[q] \in Nat /\ missed'[q] \in Nat
                                /\ missed[q] <= missed'[q]
  BY <1>1, <1>3, DenyMoves
<1>4. \A q \in Requests \ {r} : behind'[q] = behind[q]
  BY BehindKept
<1> QED BY <1>1, <1>2, <1>3, <1>4

-----------------------------------------------------------------------------
(* The sliding window.                                                     *)

Beyond(x) == {t \in Nat : t > x}
Trailing(x) == {t \in Nat : x < t /\ t <= x + Wide}
Slid(P) == Count(admitted["sliding"], P)
Lost == erased["sliding"]

SlidingShort == Len(stamps) <= SlidingMax
                /\ \A r \in Requests : pc[r] = "sliding" => Len(seen[r]) <= SlidingMax

\* No stamp is of the future, the list is kept until the last has left the window, and
\* nobody is behind a pruning that was not.
StampsPast ==
  /\ UpTo(stamps, now) /\ UpTo(stamps, dropAt["sliding"] - Wide) /\ horizon <= now
  /\ \A r \in Requests : pc[r] = "sliding" =>
       UpTo(seen[r], now) /\ (behind[r] = 0 \/ clock[r] + behind[r] <= horizon)

\* From the horizon on the list, and from where it was read a request's copy of it, lack
\* no more admissions than concurrent writes erased, the request's own among them.
ListHolds == \A x \in Int : x >= horizon - Wide => Slid(Beyond(x)) <= Newer(stamps, x) + Lost
CopyHolds(r) ==
  \A x \in Int : x >= clock[r] + behind[r] - Wide =>
    Slid(Beyond(x)) <= Newer(seen[r], x) + missed[r] + Lost
WindowHolds == \A x \in Int : Slid(Trailing(x)) <= SlidingMax + Lost + overtaken
SlidingInv ==
  /\ SlidingShort /\ StampsPast
  /\ "sliding" \notin faults.evicted =>
       /\ ListHolds /\ WindowHolds
       /\ \A r \in Requests : pc[r] = "sliding" => CopyHolds(r)

\* The admissions of the list's kind are finitely many, its counts are naturals.
LEMMA SlidIs ==
  ASSUME LimitTypes
  PROVE  /\ IsFiniteSet(admitted["sliding"]) /\ Lost \in Nat /\ "sliding" \in Kinds
         /\ \A P : Slid(P) \in Nat
         /\ \A x \in Int : Slid(Trailing(x)) <= Slid(Beyond(x))
<1>1. IsFiniteSet(admitted["sliding"]) /\ Lost \in Nat /\ "sliding" \in Kinds
  BY DEF LimitTypes, Kinds, Lost, Numbered
<1>2. ASSUME NEW P PROVE Slid(P) \in Nat
  BY <1>1, CountMore DEF Slid
<1>3. ASSUME NEW x \in Int PROVE Slid(Trailing(x)) <= Slid(Beyond(x))
  BY <1>1, CountMore DEF Slid, Trailing, Beyond
<1> QED BY <1>1, <1>2, <1>3

\* Reading prunes what is out of the window.
LEMMA SlidingReadKeeps ==
  ASSUME LimitTypes, OrderTypes, SlidingInv, NEW r \in Requests, SlidingRead(r)
  PROVE  SlidingInv'
<1> PICK c : c = clock[r]
  OBVIOUS
<1> PICK b : b = Max({horizon - c, 0})
  OBVIOUS
<1>1. /\ UNCHANGED <<now, stamps, dropAt, horizon, overtaken, clock, missed, erased, admitted, faults>>
      /\ pc' = [pc EXCEPT ![r] = "sliding"]
      /\ seen' = [seen EXCEPT ![r] = Pruned(stamps, c)]
      /\ behind' = [behind EXCEPT ![r] = b]
  BY DEF SlidingRead, steady, cache, history
<1>2. /\ stamps \in Seq(Ticks) /\ c \in Nat /\ now \in Nat /\ horizon \in Nat
      /\ missed[r] \in Nat /\ Wide \in Nat
  BY Sizes DEF LimitTypes, OrderTypes
<1>3. /\ seen'[r] = Pruned(stamps, c) /\ pc'[r] = "sliding" /\ behind'[r] = b
      /\ \A q \in Requests \ {r} : pc'[q] = pc[q] /\ behind'[q] = behind[q] /\ seen'[q] = seen[q]
  BY <1>1 DEF LimitTypes, OrderTypes
<1>4. /\ seen'[r] \in Seq(Ticks) /\ Len(seen'[r]) <= Len(stamps) /\ UpTo(seen'[r], now)
      /\ \A x \in Int : x >= c - Wide => Newer(stamps, x) <= Newer(seen'[r], x)
  BY <1>2, <1>3, PrunedKeeps DEF SlidingInv, StampsPast
<1>5. b \in Nat /\ c + b >= c /\ c + b >= horizon /\ (b = 0 \/ c + b <= horizon)
  BY <1>2, MaxMin
<1>6. SlidingShort'
  <2>1. Len(seen'[r]) <= SlidingMax
    <3>1. Len(seen'[r]) \in Nat /\ Len(stamps) \in Nat /\ Len(stamps) <= SlidingMax
      BY <1>2, <1>4 DEF SlidingInv, SlidingShort
    <3> QED BY <1>4, <3>1, Sizes
  <2> QED BY <1>1, <1>3, <2>1 DEF SlidingInv, SlidingShort
<1>7. StampsPast'
  <2>1. \A q \in Requests : pc'[q] = "sliding" =>
          UpTo(seen'[q], now) /\ (behind'[q] = 0 \/ clock[q] + behind'[q] <= horizon)
    BY <1>3, <1>4, <1>5 DEF SlidingInv, StampsPast
  <2> QED BY <1>1, <2>1 DEF SlidingInv, StampsPast, UpTo
<1>8. ASSUME "sliding" \notin faults.evicted PROVE CopyHolds(r)'
  <2> SUFFICES ASSUME NEW x \in Int, x >= c + b - Wide
               PROVE  Slid(Beyond(x)) <= Newer(seen'[r], x) + missed[r] + Lost
    BY <1>1, <1>3 DEF CopyHolds, Slid, Lost
  <2>1. x >= c - Wide /\ x >= horizon - Wide
    BY <1>2, <1>5
  <2>2. Slid(Beyond(x)) <= Newer(stamps, x) + Lost
    BY <1>8, <2>1 DEF SlidingInv, ListHolds
  <2>3. /\ Slid(Beyond(x)) \in Nat /\ Newer(stamps, x) \in Nat /\ Newer(seen'[r], x) \in Nat /\ Lost \in Nat
        /\ Newer(stamps, x) <= Newer(seen'[r], x)
    BY <1>2, <1>4, <2>1, SlidIs, NewerIs
  <2> QED BY <1>2, <2>2, <2>3
<1>9. ASSUME NEW q \in Requests \ {r}, CopyHolds(q) PROVE CopyHolds(q)'
  BY <1>1, <1>3, <1>9 DEF CopyHolds, Slid, Lost
<1>10. ListHolds => ListHolds'
  BY <1>1 DEF ListHolds, Slid, Lost
<1>11. WindowHolds => WindowHolds'
  BY <1>1 DEF WindowHolds, Slid, Lost
<1> QED BY <1>1, <1>3, <1>6, <1>7, <1>8, <1>9, <1>10, <1>11 DEF SlidingInv

\* Writing back puts the admission on the list and loses what the request had missed; a
\* request that was not behind finds every admission of its window on its copy or lost.
LEMMA SlidingWriteKeeps ==
  ASSUME LimitTypes, OrderTypes, SlidingInv, NEW r \in Requests, SlidingWrite(r)
  PROVE  SlidingInv'
<1> DEFINE c == clock[r]
           old == seen[r]
           m == missed[r]
<1>1. /\ UNCHANGED <<now, faults>> /\ rest[r] # <<>> /\ Erase(r, "sliding") /\ pc[r] = "sliding"
      /\ old \in Seq(Ticks) /\ c \in Ticks /\ c \in Nat /\ c <= now /\ now \in Nat /\ m \in Nat
      /\ "sliding" \in Kinds
  BY InBuckets DEF SlidingWrite, steady, LimitTypes, RequestTyped, Kinds
<1>2. \/ /\ Len(old) < SlidingMax /\ stamps' = Append(old, c) /\ Admit(r, "sliding", c)
         /\ overtaken' = IF behind[r] > 0 THEN overtaken + 1 ELSE overtaken
      \/ stamps' = old /\ (\E b : Deny(r, "sliding", b)) /\ overtaken' = overtaken
  <2>1. Len(old) \in Nat /\ SlidingMax \in Nat
    BY <1>1, Sizes
  <2> QED BY <2>1 DEF SlidingWrite, Filled
<1>3. /\ Lost' = Lost + m /\ Lost \in Nat /\ pc'[r] # "sliding"
      /\ \A q \in Requests \ {r} :
           pc'[q] = "sliding" =>
             /\ pc[q] = "sliding" /\ clock'[q] = clock[q] /\ seen'[q] = seen[q]
             /\ behind'[q] = behind[q] /\ missed[q] \in Nat /\ missed'[q] \in Nat
             /\ Admit(r, "sliding", c) => missed'[q] = missed[q] + 1
             /\ missed[q] <= missed'[q]
  BY <1>1, <1>2, OthersMiss DEF Lost
<1>4. Len(old) <= SlidingMax /\ Len(old) \in Nat
  BY <1>1 DEF SlidingInv, SlidingShort
<1>5. SlidingShort'
  <2>1. Len(stamps') <= SlidingMax
    <3>1. Len(Append(old, c)) = Len(old) + 1
      BY <1>1
    <3> QED BY <1>2, <1>4, <3>1, Sizes
  <2> QED BY <1>3, <2>1 DEF SlidingInv, SlidingShort
<1>6. ASSUME "sliding" \notin faults.evicted
      PROVE  /\ CopyHolds(r) /\ WindowHolds
             /\ \A q \in Requests : pc[q] = "sliding" => CopyHolds(q)
  BY <1>1, <1>6 DEF SlidingInv
<1>a. /\ horizon \in Nat /\ horizon' \in Nat /\ horizon <= horizon' /\ c <= horizon' /\ horizon' <= now
      /\ behind[r] \in Nat /\ overtaken \in Nat /\ Wide \in Nat
      /\ behind[r] = 0 \/ c + behind[r] <= horizon
  <2>1. /\ horizon \in Nat /\ behind[r] \in Nat /\ overtaken \in Nat /\ Wide \in Nat
        /\ behind[r] = 0 \/ c + behind[r] <= horizon
        /\ horizon <= now
    BY <1>1, Sizes DEF OrderTypes, SlidingInv, StampsPast
  <2>2. horizon' = Max({horizon, c})
    BY DEF SlidingWrite
  <2>3. horizon' = IF horizon >= c THEN horizon ELSE c
    BY <1>1, <2>1, <2>2, MaxMin
  <2> QED BY <1>1, <2>1, <2>3
<1>b. \A x \in Int : x >= horizon' - Wide => x >= c + behind[r] - Wide
  BY <1>1, <1>a
<1>c. StampsPast'
  <2>1. UpTo(old, now)
    BY <1>1 DEF SlidingInv, StampsPast
  <2>2. UpTo(stamps', now)
    <3>1. CASE stamps' = Append(old, c)
      <4>1. /\ DOMAIN Append(old, c) = 1..(Len(old) + 1) /\ DOMAIN old = 1..Len(old)
            /\ \A i \in 1..Len(old) : Append(old, c)[i] = old[i]
            /\ Append(old, c)[Len(old) + 1] = c
        BY <1>1
      <4>2. \A i \in 1..(Len(old) + 1) : i \in 1..Len(old) \/ i = Len(old) + 1
        BY <1>4
      <4> QED BY <1>1, <2>1, <3>1, <4>1, <4>2 DEF UpTo
    <3> QED BY <1>2, <2>1, <3>1
  <2>3. dropAt'["sliding"] = now + Wide
    BY DEF SlidingWrite, OrderTypes, Wide
  <2>4. dropAt'["sliding"] - Wide = now
    BY <1>1, <1>a, <2>3
  <2>5. \A q \in Requests : pc'[q] = "sliding" =>
          UpTo(seen'[q], now) /\ (behind'[q] = 0 \/ clock'[q] + behind'[q] <= horizon')
    <3>1. ASSUME NEW q \in Requests, pc'[q] = "sliding"
          PROVE  UpTo(seen'[q], now) /\ (behind'[q] = 0 \/ clock'[q] + behind'[q] <= horizon')
      <4>1. /\ q # r /\ pc[q] = "sliding" /\ clock'[q] = clock[q] /\ seen'[q] = seen[q]
            /\ behind'[q] = behind[q]
        BY <1>3, <3>1
      <4>2. UpTo(seen[q], now) /\ (behind[q] = 0 \/ clock[q] + behind[q] <= horizon)
        BY <4>1 DEF SlidingInv, StampsPast
      <4>3. clock[q] \in Nat /\ behind[q] \in Nat
        BY DEF LimitTypes, OrderTypes
      <4> QED BY <1>a, <4>1, <4>2, <4>3
    <3> QED BY <3>1
  <2>7. (UpTo(stamps, now))' /\ (UpTo(stamps, dropAt["sliding"] - Wide))'
    BY <1>1, <2>2, <2>4 DEF UpTo
  <2>8. \A q \in Requests : (UpTo(seen[q], now))' <=> UpTo(seen'[q], now)
    BY <1>1 DEF UpTo
  <2> QED BY <1>1, <1>a, <2>5, <2>7, <2>8 DEF StampsPast
<1>7. CASE /\ stamps' = Append(old, c) /\ Admit(r, "sliding", c) /\ Len(old) < SlidingMax
           /\ overtaken' = IF behind[r] > 0 THEN overtaken + 1 ELSE overtaken
  <2>1. \A P : /\ Slid(P) \in Nat
               /\ c \in P => Slid(P)' = Slid(P) + 1
               /\ c \notin P => Slid(P)' = Slid(P)
    BY <1>1, <1>7, AdmitIs, ZenonT(60) DEF Slid
  <2>2. ASSUME "sliding" \notin faults.evicted PROVE ListHolds'
    <3> SUFFICES ASSUME NEW x \in Int, x >= horizon' - Wide
                 PROVE  Slid(Beyond(x))' <= Newer(stamps', x) + Lost'
      BY DEF ListHolds
    <3>1. Slid(Beyond(x)) <= Newer(old, x) + m + Lost
      BY <1>6, <1>b, <2>2 DEF CopyHolds
    <3>2. Newer(old, x) \in Nat /\ Slid(Beyond(x)) \in Nat
      BY <1>1, <2>1, NewerIs
    <3>3. CASE c > x
      <4>1. Slid(Beyond(x))' = Slid(Beyond(x)) + 1
        BY <1>1, <2>1, <3>3 DEF Beyond
      <4>2. Newer(stamps', x) = Newer(old, x) + 1
        BY <1>1, <1>7, <3>3, NewerAppend
      <4> QED BY <1>1, <1>3, <3>1, <3>2, <4>1, <4>2, SMTT(30)
    <3>4. CASE ~(c > x)
      <4>1. Slid(Beyond(x))' = Slid(Beyond(x))
        BY <2>1, <3>4 DEF Beyond
      <4>2. Newer(stamps', x) = Newer(old, x)
        BY <1>1, <1>7, <3>4, NewerAppend
      <4> QED BY <1>1, <1>3, <3>1, <3>2, <4>1, <4>2
    <3> QED BY <3>3, <3>4
  <2>3. ASSUME "sliding" \notin faults.evicted PROVE WindowHolds'
    <3> SUFFICES ASSUME NEW x \in Int PROVE Slid(Trailing(x))' <= SlidingMax + Lost' + overtaken'
      BY DEF WindowHolds
    <3>1. Slid(Trailing(x)) <= SlidingMax + Lost + overtaken /\ Slid(Trailing(x)) \in Nat
      BY <1>6, <2>1, <2>3 DEF WindowHolds
    <3>2. CASE c \in Trailing(x) /\ behind[r] = 0
      <4>1. x >= c + behind[r] - Wide
        BY <1>1, <3>2, Sizes DEF Trailing
      <4>2. Slid(Beyond(x)) <= Newer(old, x) + m + Lost
        BY <1>6, <2>3, <4>1 DEF CopyHolds
      <4>3. Newer(old, x) \in Nat /\ Newer(old, x) <= Len(old)
        BY <1>1, NewerIs
      <4>4. Slid(Trailing(x)) <= Slid(Beyond(x)) /\ Slid(Beyond(x)) \in Nat
        BY SlidIs
      <4>5. Slid(Trailing(x))' = Slid(Trailing(x)) + 1
        BY <2>1, <3>2
      <4>6. Slid(Trailing(x)) <= Len(old) + m + Lost /\ Len(old) < SlidingMax
        BY <1>1, <1>3, <1>4, <1>7, <3>1, <4>2, <4>3, <4>4, SMTT(60)
      <4>7. overtaken' = overtaken
        BY <1>7, <1>a, <3>2
      <4> QED BY <1>1, <1>3, <1>4, <1>a, <3>1, <4>5, <4>6, <4>7, Sizes, SMTT(60)
    <3>3. CASE c \in Trailing(x) /\ behind[r] # 0
      <4>1. Slid(Trailing(x))' = Slid(Trailing(x)) + 1
        BY <2>1, <3>3
      <4>2. overtaken' = overtaken + 1
        BY <1>7, <1>a, <3>3
      <4> QED BY <1>1, <1>3, <1>a, <3>1, <4>1, <4>2, Sizes, SMTT(60)
    <3>4. CASE c \notin Trailing(x)
      <4>1. overtaken' >= overtaken /\ overtaken' \in Nat
        BY <1>7, <1>a
      <4> QED BY <1>1, <1>3, <1>a, <2>1, <3>1, <3>4, <4>1, Sizes, SMTT(60)
    <3> QED BY <3>2, <3>3, <3>4
  <2>4. ASSUME "sliding" \notin faults.evicted, NEW q \in Requests, pc'[q] = "sliding"
        PROVE  CopyHolds(q)'
    <3>1. /\ q # r /\ pc[q] = "sliding" /\ clock'[q] = clock[q] /\ seen'[q] = seen[q]
          /\ behind'[q] = behind[q] /\ missed[q] \in Nat /\ missed'[q] = missed[q] + 1
      BY <1>3, <1>7, <2>4
    <3> SUFFICES ASSUME NEW x \in Int, x >= clock[q] + behind[q] - Wide
                 PROVE  Slid(Beyond(x))' <= Newer(seen[q], x) + missed'[q] + Lost'
      BY <3>1 DEF CopyHolds
    <3>2. Slid(Beyond(x)) <= Newer(seen[q], x) + missed[q] + Lost
      BY <1>6, <2>4, <3>1 DEF CopyHolds
    <3>3. seen[q] \in Seq(Ticks)
      BY <3>1 DEF LimitTypes, RequestTyped
    <3>4. Newer(seen[q], x) \in Nat
      BY <3>3, NewerIs
    <3>5. Slid(Beyond(x)) \in Nat /\ Slid(Beyond(x))' \in Nat /\ Slid(Beyond(x))' <= Slid(Beyond(x)) + 1
      <4>1. c \in Beyond(x) \/ c \notin Beyond(x)
        OBVIOUS
      <4> QED BY <2>1, <4>1
    <3>6. Lost' = Lost + m /\ Lost \in Nat /\ m \in Nat
      BY <1>1, <1>3
    <3> HIDE DEF m
    <3> QED BY <3>1, <3>2, <3>4, <3>5, <3>6
  <2> QED BY <1>1, <1>5, <1>c, <2>2, <2>3, <2>4 DEF SlidingInv
<1>8. CASE stamps' = old /\ (\E b : Deny(r, "sliding", b)) /\ overtaken' = overtaken
  <2>1. admitted' = admitted
    BY <1>8 DEF Deny
  <2>2. \A P : Slid(P)' = Slid(P) /\ Slid(P) \in Nat
    BY <2>1, SlidIs DEF Slid
  <2>3. ASSUME "sliding" \notin faults.evicted PROVE ListHolds'
    <3> SUFFICES ASSUME NEW x \in Int, x >= horizon' - Wide
                 PROVE  Slid(Beyond(x)) <= Newer(old, x) + Lost'
      BY <1>8, <2>2 DEF ListHolds
    <3>1. Slid(Beyond(x)) <= Newer(old, x) + m + Lost
      BY <1>6, <1>b, <2>3 DEF CopyHolds
    <3>2. Newer(old, x) \in Nat
      BY <1>1, NewerIs
    <3> QED BY <1>1, <1>3, <2>2, <3>1, <3>2
  <2>4. ASSUME "sliding" \notin faults.evicted PROVE WindowHolds'
    <3> SUFFICES ASSUME NEW x \in Int PROVE Slid(Trailing(x)) <= SlidingMax + Lost' + overtaken
      BY <1>8, <2>2 DEF WindowHolds
    <3>1. Slid(Trailing(x)) <= SlidingMax + Lost + overtaken
      BY <1>6, <2>4 DEF WindowHolds
    <3> QED BY <1>1, <1>3, <1>a, <2>2, <3>1, Sizes, SMTT(30)
  <2>5. ASSUME "sliding" \notin faults.evicted, NEW q \in Requests, pc'[q] = "sliding"
        PROVE  CopyHolds(q)'
    <3>1. /\ q # r /\ pc[q] = "sliding" /\ clock'[q] = clock[q] /\ seen'[q] = seen[q]
          /\ behind'[q] = behind[q]
          /\ missed[q] \in Nat /\ missed'[q] \in Nat /\ missed[q] <= missed'[q]
      BY <1>3, <2>5
    <3> SUFFICES ASSUME NEW x \in Int, x >= clock[q] + behind[q] - Wide
                 PROVE  Slid(Beyond(x)) <= Newer(seen[q], x) + missed'[q] + Lost'
      BY <2>2, <3>1 DEF CopyHolds
    <3>2. Slid(Beyond(x)) <= Newer(seen[q], x) + missed[q] + Lost
      BY <1>6, <2>5, <3>1 DEF CopyHolds
    <3>3. seen[q] \in Seq(Ticks)
      BY <3>1 DEF LimitTypes, RequestTyped
    <3>4. Newer(seen[q], x) \in Nat
      BY <3>3, NewerIs
    <3> QED BY <1>1, <1>3, <2>2, <3>1, <3>2, <3>4, SMTT(60)
  <2> QED BY <1>1, <1>5, <1>c, <2>3, <2>4, <2>5 DEF SlidingInv
<1> QED BY <1>2, <1>7, <1>8

\* What concerns another kind changes nothing here, an eviction voids the count, and a
\* list whose timeout ended had let all its stamps leave the window.
LEMMA SlidingRests ==
  ASSUME LimitTypes, OrderTypes, SlidingInv, Aside("sliding"), now' \in Nat, now <= now',
         UNCHANGED overtaken, dropAt'["sliding"] = dropAt["sliding"],
         \/ stamps' = stamps /\ horizon' = horizon
         \/ stamps' = <<>> /\ horizon' = horizon /\ "sliding" \in faults'.evicted
         \/ stamps' = <<>> /\ horizon' = now' /\ dropAt["sliding"] <= now'
  PROVE  SlidingInv'
<1>0. /\ now \in Nat /\ horizon \in Nat /\ horizon <= now /\ horizon' \in Nat
      /\ horizon <= horizon' /\ horizon' <= now' /\ Wide \in Nat /\ dropAt["sliding"] \in Nat
  BY Sizes DEF LimitTypes, OrderTypes, SlidingInv, StampsPast
<1>1. SlidingShort'
  <2>1. Len(<<>>) <= SlidingMax
    BY Sizes
  <2> QED BY <2>1 DEF SlidingInv, SlidingShort, Aside
<1>2. StampsPast'
  <2>1. ASSUME NEW s \in Seq(Ticks), UpTo(s, now) PROVE UpTo(s, now')
    <3>1. \A i \in DOMAIN s : s[i] \in Int
      <4>1. \A i \in DOMAIN s : s[i] \in Ticks
        OBVIOUS
      <4> QED BY <4>1 DEF Ticks
    <3> QED BY <1>0, <2>1, <3>1 DEF UpTo
  <2>2. \A t : UpTo(<<>>, t)
    BY DEF UpTo
  <2>3. UpTo(stamps', now') /\ UpTo(stamps', dropAt["sliding"] - Wide)
    <3>1. CASE stamps' = stamps
      <4>1. stamps \in Seq(Ticks) /\ UpTo(stamps, now) /\ UpTo(stamps, dropAt["sliding"] - Wide)
        BY DEF SlidingInv, StampsPast, LimitTypes
      <4>2. UpTo(stamps, now')
        BY <2>1, <4>1
      <4> QED BY <3>1, <4>1, <4>2
    <3> QED BY <2>2, <3>1
  <2>4. ASSUME NEW q \in Requests, pc'[q] = "sliding"
        PROVE  UpTo(seen'[q], now') /\ (behind'[q] = 0 \/ clock'[q] + behind'[q] <= horizon')
    <3>1. /\ pc[q] = "sliding" /\ clock'[q] = clock[q] /\ seen'[q] = seen[q] /\ behind'[q] = behind[q]
      BY <2>4 DEF Aside
    <3>2. seen[q] \in Seq(Ticks) /\ UpTo(seen[q], now) /\ clock[q] \in Nat /\ behind[q] \in Nat
          /\ (behind[q] = 0 \/ clock[q] + behind[q] <= horizon)
      BY <3>1 DEF LimitTypes, OrderTypes, RequestTyped, SlidingInv, StampsPast
    <3> QED BY <1>0, <2>1, <3>1, <3>2
  <2> QED BY <1>0, <2>3, <2>4 DEF StampsPast, UpTo
<1>3. ASSUME "sliding" \notin faults'.evicted
      PROVE ListHolds' /\ WindowHolds' /\ \A r \in Requests : pc'[r] = "sliding" => CopyHolds(r)'
  <2>1. "sliding" \notin faults.evicted
    BY <1>3 DEF Aside
  <2>2. Lost' = Lost /\ \A P : Slid(P)' = Slid(P)
    BY DEF Aside, Slid, Lost
  <2>3. ListHolds'
    <3>1. CASE stamps' = stamps /\ horizon' = horizon
      BY <2>1, <2>2, <3>1 DEF SlidingInv, ListHolds
    <3>2. CASE stamps' = <<>> /\ horizon' = now' /\ dropAt["sliding"] <= now'
      <4> SUFFICES ASSUME NEW x \in Int, x >= now' - Wide
                   PROVE  Slid(Beyond(x)) <= Newer(<<>>, x) + Lost
        BY <2>2, <3>2 DEF ListHolds
      <4>1. x >= horizon - Wide /\ x >= dropAt["sliding"] - Wide
        BY <1>0, <3>2
      <4>2. Slid(Beyond(x)) <= Newer(stamps, x) + Lost
        BY <2>1, <4>1 DEF SlidingInv, ListHolds
      <4>3. {i \in DOMAIN stamps : stamps[i] > x} = {}
        <5>1. \A i \in DOMAIN stamps : stamps[i] \in Int
          <6>1. stamps \in Seq(Ticks)
            BY DEF LimitTypes
          <6>2. \A i \in DOMAIN stamps : stamps[i] \in Ticks
            BY <6>1
          <6> QED BY <6>2 DEF Ticks
        <5>2. \A i \in DOMAIN stamps : stamps[i] <= dropAt["sliding"] - Wide
          BY DEF SlidingInv, StampsPast, UpTo
        <5> QED BY <1>0, <4>1, <5>1, <5>2
      <4>4. {i \in DOMAIN <<>> : <<>>[i] > x} = {}
        OBVIOUS
      <4> QED BY <4>2, <4>3, <4>4 DEF Newer
    <3> QED BY <1>3, <3>1, <3>2
  <2>4. WindowHolds'
    BY <2>1, <2>2 DEF SlidingInv, WindowHolds
  <2>5. ASSUME NEW q \in Requests, pc'[q] = "sliding" PROVE CopyHolds(q)'
    <3>1. CopyHolds(q) /\ clock'[q] = clock[q] /\ seen'[q] = seen[q] /\ behind'[q] = behind[q]
          /\ missed'[q] = missed[q]
      BY <2>1, <2>5 DEF Aside, SlidingInv
    <3> QED BY <2>2, <3>1 DEF CopyHolds
  <2> QED BY <2>3, <2>4, <2>5
<1> QED BY <1>1, <1>2, <1>3 DEF SlidingInv

-----------------------------------------------------------------------------
(* The token bucket.                                                       *)

Since(s) == {t \in Nat : t >= s}
Span(s, t) == {u \in Nat : s <= u /\ u <= t}
Drawn(P) == Count(admitted["bucket"], P)
Wiped == erased["bucket"]
Gap(s, t) == IF s <= t THEN t - s ELSE 0

\* What the admissions A drew since an instant, and what is left, came out of a full
\* bucket, its refill until "at", and what was lost.
Balanced(A, level, at, lost) ==
  /\ Count(A, Beyond(at)) <= lost
  /\ \A s \in Int : Count(A, Since(s)) * Cost + level <= Full + Gap(s, at) + lost * Cost

\* So it is for the level, and for the level a request will write back, the admissions it
\* misses included; a time set back is refilled twice.
Level == IF tokens = Never THEN Full ELSE tokens.level
LevelHolds == Balanced(admitted["bucket"], Level, AsOf + rewound, Wiped)
ShareHolds(r) ==
  Balanced(admitted["bucket"], seen[r], clock[r] + behind[r] + rewound, missed[r] + Wiped)
BurstHolds ==
  \A s, t \in Int : s <= t =>
    Drawn(Span(s, t)) * Cost <= Full + (t - s) + Wiped * Cost + rewound
BucketInv ==
  /\ \A r \in Requests : pc[r] = "bucket" => seen[r] <= Full
  /\ tokens # Never => tokens.last + Full <= dropAt["bucket"]
  /\ "bucket" \notin faults.evicted =>
       /\ LevelHolds /\ BurstHolds
       /\ \A r \in Requests : pc[r] = "bucket" => ShareHolds(r)

\* What is drawn of the bucket is counted in naturals.
LEMMA DrawnIs ==
  ASSUME LimitTypes
  PROVE  /\ Wiped \in Nat /\ "bucket" \in Kinds /\ IsFiniteSet(admitted["bucket"])
         /\ \A P : Drawn(P) \in Nat
         /\ \A s \in Int, t \in Int : Drawn(Span(s, t)) <= Drawn(Since(s))
<1>1. IsFiniteSet(admitted["bucket"]) /\ Wiped \in Nat /\ "bucket" \in Kinds
  BY DEF LimitTypes, Kinds, Wiped, Numbered
<1>2. ASSUME NEW P PROVE Drawn(P) \in Nat
  BY <1>1, CountMore DEF Drawn
<1>3. ASSUME NEW s \in Int, NEW t \in Int PROVE Drawn(Span(s, t)) <= Drawn(Since(s))
  BY <1>1, CountMore DEF Drawn, Span, Since
<1> QED BY <1>1, <1>2, <1>3

\* The balance holds at a later time, of what has refilled since, whatever more is lost.
LEMMA BalancedLater ==
  ASSUME NEW A, IsFiniteSet(A), NEW l \in Nat, NEW at \in Nat, NEW k \in Nat, Balanced(A, l, at, k),
         NEW m \in Nat, NEW to \in Nat, NEW n \in Nat,
         at <= to, k <= n, m <= Full, m <= l + (to - at)
  PROVE  Balanced(A, m, to, n)
<1>0. Full \in Nat /\ Cost \in Nat
  BY Sizes
<1>1. \A P : Count(A, P) \in Nat
  BY CountMore
<1>2. Count(A, Beyond(to)) <= n
  <2>1. Count(A, Beyond(to)) <= Count(A, Beyond(at))
    <3>1. \A t : t \in Beyond(to) => t \in Beyond(at)
      BY DEF Beyond
    <3> QED BY <3>1, CountMore
  <2>2. Count(A, Beyond(at)) <= k
    BY DEF Balanced
  <2> QED BY <1>1, <2>1, <2>2
<1>3. ASSUME NEW s \in Int
      PROVE  Count(A, Since(s)) * Cost + m <= Full + Gap(s, to) + n * Cost
  <2> DEFINE d == Count(A, Since(s))
             x == d * Cost
             y == k * Cost
             z == n * Cost
  <2>1. d \in Nat
    BY <1>1
  <2>2. x \in Nat /\ y \in Nat /\ z \in Nat /\ y <= z
    <3> HIDE DEF d
    <3> QED BY <1>0, <2>1, Times
  <2>3. x + l <= Full + Gap(s, at) + y
    BY DEF Balanced
  <2>4. CASE s <= at
    <3>1. Gap(s, at) = at - s /\ Gap(s, to) = to - s
      BY <2>4 DEF Gap
    <3> HIDE DEF x, y, z
    <3>2. x + m <= Full + Gap(s, to) + z
      BY <1>0, <2>2, <2>3, <3>1
    <3> QED BY <3>2 DEF x, z
  <2>5. CASE at < s
    <3>1. d <= k
      <4>1. \A t : t \in Since(s) => t \in Beyond(at)
        BY <2>5 DEF Since, Beyond
      <4>2. Count(A, Since(s)) <= Count(A, Beyond(at)) /\ Count(A, Beyond(at)) <= k
        BY <4>1, CountMore DEF Balanced
      <4> QED BY <1>1, <4>2
    <3>2. x <= y
      <4> HIDE DEF d
      <4> QED BY <1>0, <2>1, <3>1, Times
    <3>3. Gap(s, to) \in Nat
      BY DEF Gap
    <3> HIDE DEF x, y, z
    <3>4. x + m <= Full + Gap(s, to) + z
      BY <1>0, <2>2, <3>2, <3>3
    <3> QED BY <3>4 DEF x, z
  <2> QED BY <2>4, <2>5
<1> QED BY <1>2, <1>3 DEF Balanced

\* One more admission, at c: paid out of the level, or lost.
LEMMA BalancedDrawn ==
  ASSUME NEW A, NEW B, IsFiniteSet(A), NEW c \in Nat, NEW l \in Nat, NEW at \in Nat, NEW k \in Nat,
         \A P : /\ c \in P => Count(B, P) = Count(A, P) + 1
                /\ c \notin P => Count(B, P) = Count(A, P),
         Balanced(A, l, at, k)
  PROVE  /\ c <= at => Balanced(B, l - Cost, at, k)
         /\ Balanced(B, l, at, k + 1)
<1>0. Full \in Nat /\ Cost \in Nat
  BY Sizes
<1>1. \A P : Count(A, P) \in Nat /\ (Count(B, P) = Count(A, P) \/ Count(B, P) = Count(A, P) + 1)
  <2>1. \A P : c \in P \/ c \notin P
    OBVIOUS
  <2> QED BY <2>1, CountMore
<1>2. Count(A, Beyond(at)) <= k
  BY DEF Balanced
<1>3. /\ c <= at => Count(B, Beyond(at)) <= k
      /\ Count(B, Beyond(at)) <= k + 1
  <2>1. c <= at => c \notin Beyond(at)
    BY DEF Beyond
  <2> QED BY <1>1, <1>2, <2>1
<1>4. ASSUME NEW s \in Int
      PROVE  /\ Count(B, Since(s)) * Cost + (l - Cost) <= Full + Gap(s, at) + k * Cost
             /\ Count(B, Since(s)) * Cost + l <= Full + Gap(s, at) + (k + 1) * Cost
  <2> DEFINE d == Count(A, Since(s))
             e == Count(B, Since(s))
             x == d * Cost
             u == e * Cost
             y == k * Cost
             z == (k + 1) * Cost
  <2>1. d \in Nat /\ (e = d \/ e = d + 1)
    BY <1>1
  <2>2. x \in Nat /\ (u = x \/ u = x + Cost) /\ y \in Nat /\ z = y + Cost
    <3> HIDE DEF d, e
    <3> QED BY <1>0, <2>1, Times
  <2>3. x + l <= Full + Gap(s, at) + y
    BY DEF Balanced
  <2>4. Gap(s, at) \in Nat
    BY DEF Gap
  <2> HIDE DEF x, u, y, z
  <2>5. u + (l - Cost) <= Full + Gap(s, at) + y /\ u + l <= Full + Gap(s, at) + z
    BY <1>0, <2>2, <2>3, <2>4
  <2> QED BY <2>5 DEF u, y, z
<1> QED BY <1>3, <1>4 DEF Balanced

\* The level and its time are naturals, as are those of the requests' copies.
LEMMA LevelIs ==
  ASSUME LimitTypes, OrderTypes
  PROVE  /\ Level \in Nat /\ AsOf \in Nat /\ rewound \in Nat /\ Full \in Nat
         /\ \A r \in Requests : /\ clock[r] \in Nat /\ behind[r] \in Nat /\ missed[r] \in Nat
                                /\ pc[r] = "bucket" => seen[r] \in Nat
  BY Sizes DEF LimitTypes, OrderTypes, RequestTyped, Level, AsOf, Entries

\* What refilling gives, of a level l counted as of a, when the time c taken may be b behind.
LEMMA Refills ==
  ASSUME NEW l \in Nat, NEW a \in Nat, NEW f \in Nat, NEW c \in Nat, NEW b, NEW n \in Nat,
         b = IF a - c >= 0 THEN a - c ELSE 0,
         \/ f <= l /\ n <= f
         \/ n = LET gain == IF c >= a THEN c - a ELSE 0
                IN IF f <= l + gain THEN f ELSE l + gain
  PROVE  b \in Nat /\ a <= c + b /\ n <= l + ((c + b) - a)
<1>1. CASE c >= a
  BY <1>1
<1>2. CASE c < a
  BY <1>2
<1> QED BY <1>1, <1>2

\* Reading refills the bucket.
LEMMA BucketReadKeeps ==
  ASSUME LimitTypes, OrderTypes, BucketInv, NEW r \in Requests, BucketRead(r)
  PROVE  BucketInv'
<1> PICK c : c = clock[r]
  OBVIOUS
<1> PICK b : b = Max({AsOf - c, 0})
  OBVIOUS
<1> PICK new : new = Refilled(tokens, c)
  OBVIOUS
<1>1. /\ UNCHANGED <<now, tokens, dropAt, rewound, clock, missed, erased, admitted, faults>>
      /\ pc' = [pc EXCEPT ![r] = "bucket"] /\ behind' = [behind EXCEPT ![r] = b]
      /\ seen' = [seen EXCEPT ![r] = new]
  BY DEF BucketRead, steady, cache, history
<1>2. /\ seen'[r] = new /\ behind'[r] = b /\ pc'[r] = "bucket"
      /\ \A q \in Requests \ {r} : pc'[q] = pc[q] /\ behind'[q] = behind[q] /\ seen'[q] = seen[q]
  BY <1>1 DEF LimitTypes, OrderTypes
<1>3. /\ c \in Nat /\ missed[r] \in Nat /\ Level \in Nat /\ AsOf \in Nat /\ rewound \in Nat
      /\ Full \in Nat
  BY LevelIs
<1> PICK l \in Nat : l = Level
  BY <1>3
<1> PICK a \in Nat : a = AsOf
  BY <1>3
<1> PICK w \in Nat : w = rewound
  BY <1>3
<1>4. b = IF a - c >= 0 THEN a - c ELSE 0
  <2>1. b = Max({a - c, 0}) /\ a - c \in Int
    BY <1>3
  <2> QED BY <2>1, MaxMin
<1>5. new \in Nat /\ new <= Full /\ new <= l + ((c + b) - a) /\ b \in Nat /\ a <= c + b
  <2>1. new \in Nat /\ new <= Full
    BY <1>3, RefilledIs
  <2> PICK f \in Nat : f = Full
    BY <1>3
  <2> DEFINE more == IF c >= a THEN c - a ELSE 0
             sum == IF f <= l + more THEN f ELSE l + more
  <2>2. (f <= l /\ new <= f) \/ new = sum
    <3>1. CASE tokens = Never
      BY <1>3, <2>1, <3>1 DEF Level
    <3>2. CASE tokens # Never
      <4>1. l = tokens.level /\ a = tokens.last
        BY <3>2 DEF Level, AsOf
      <4>2. new = LET gain == IF c >= tokens.last THEN c - tokens.last ELSE 0
                  IN IF Full <= tokens.level + gain THEN Full ELSE tokens.level + gain
        BY <1>3, <3>2, RefilledIs
      <4> QED BY <4>1, <4>2
    <3> QED BY <3>1, <3>2
  <2>4. c \in Nat
    BY <1>3
  <2>5. b \in Nat /\ a <= c + b /\ new <= l + ((c + b) - a)
    <3>1. new \in Nat
      BY <2>1
    <3>2. \/ f <= l /\ new <= f
          \/ new = LET gain == IF c >= a THEN c - a ELSE 0
                   IN IF f <= l + gain THEN f ELSE l + gain
      BY <2>2
    <3> QED BY ONLY <1>4, <2>4, <3>1, <3>2, Refills
  <2> QED BY <2>1, <2>5
<1>6. ASSUME "bucket" \notin faults.evicted PROVE ShareHolds(r)'
  <2>1. Balanced(admitted["bucket"], l, a + w, Wiped)
    BY <1>6 DEF BucketInv, LevelHolds
  <2>2. /\ IsFiniteSet(admitted["bucket"]) /\ Wiped \in Nat
    BY DrawnIs
  <2>3. PICK at \in Nat : at = a + w
    OBVIOUS
  <2>4. PICK to \in Nat : to = c + b + w
    BY <1>3, <1>5
  <2>5. PICK n \in Nat : n = missed[r] + Wiped /\ Wiped <= n
    BY <1>3, <2>2
  <2>6. at <= to /\ new <= l + (to - at)
    BY <1>3, <1>5, <2>3, <2>4
  <2>7. Balanced(admitted["bucket"], new, to, n)
    BY <1>3, <1>5, <2>1, <2>2, <2>3, <2>5, <2>6, BalancedLater
  <2> QED BY <1>1, <1>2, <2>4, <2>5, <2>7 DEF ShareHolds, Wiped, Balanced
<1>7. ASSUME NEW q \in Requests \ {r}, ShareHolds(q) PROVE ShareHolds(q)'
  BY <1>1, <1>2, <1>7 DEF ShareHolds, Wiped, Balanced
<1>8. (LevelHolds => LevelHolds') /\ (BurstHolds => BurstHolds')
  BY <1>1 DEF LevelHolds, Level, AsOf, BurstHolds, Drawn, Wiped, Balanced
<1>9. \A q \in Requests : pc'[q] = "bucket" => seen'[q] <= Full
  BY <1>2, <1>5 DEF BucketInv
<1> QED BY <1>1, <1>2, <1>6, <1>7, <1>8, <1>9 DEF BucketInv

\* Writing back takes the admission's token and wipes out what the request had missed.
LEMMA BucketWriteKeeps ==
  ASSUME LimitTypes, OrderTypes, BucketInv, NEW r \in Requests, BucketWrite(r)
  PROVE  BucketInv'
<1> DEFINE c == clock[r]
           old == seen[r]
           m == missed[r]
           A == admitted["bucket"]
<1> PICK B : B = admitted'["bucket"]
  OBVIOUS
<1>1. /\ UNCHANGED <<now, faults>> /\ rest[r] # <<>> /\ Erase(r, "bucket") /\ pc[r] = "bucket"
      /\ old \in Nat /\ old <= Full /\ c \in Nat /\ c <= now /\ now \in Nat /\ m \in Nat
      /\ "bucket" \in Kinds /\ Cost \in Nat /\ Full \in Nat /\ behind[r] \in Nat /\ rewound \in Nat
      /\ rewound' = rewound + behind[r]
  BY InBuckets, Sizes
  DEF BucketWrite, steady, LimitTypes, OrderTypes, RequestTyped, Kinds, BucketInv
<1>2. \/ /\ old >= Cost /\ tokens' = [level |-> old - Cost, last |-> c] /\ Admit(r, "bucket", c)
      \/ tokens' = [level |-> old, last |-> c] /\ \E b : Deny(r, "bucket", b)
  BY DEF BucketWrite
<1>3. /\ Wiped' = Wiped + m /\ Wiped \in Nat /\ pc'[r] # "bucket"
      /\ \A q \in Requests \ {r} :
           pc'[q] = "bucket" =>
             /\ pc[q] = "bucket" /\ clock'[q] = clock[q] /\ seen'[q] = seen[q]
             /\ behind'[q] = behind[q] /\ missed[q] \in Nat /\ missed'[q] \in Nat
             /\ Admit(r, "bucket", c) => missed'[q] = missed[q] + 1
             /\ missed[q] <= missed'[q]
  BY <1>1, <1>2, OthersMiss DEF Wiped
<1>4. tokens' # Never /\ tokens'.last = c
  <2>1. tokens' \in Entries /\ tokens'.last = c
    BY <1>1, <1>2 DEF Entries
  <2> QED BY <2>1, RateLimitsAssumption DEF Entries
<1>5. \A q \in Requests : pc'[q] = "bucket" => seen'[q] <= Full
  BY <1>3 DEF BucketInv
<1>6. ASSUME "bucket" \notin faults.evicted
      PROVE  /\ ShareHolds(r) /\ BurstHolds
             /\ \A q \in Requests : pc[q] = "bucket" => ShareHolds(q)
  BY <1>1, <1>6 DEF BucketInv
<1>7. tokens'.last + Full <= dropAt'["bucket"]
  <2>1. dropAt'["bucket"] = now + Ttl
    BY DEF BucketWrite, OrderTypes
  <2> QED BY <1>1, <1>4, <2>1, TtlLong

\* The step draws one admission, at its instant, or none.
<1>8. \/ /\ Admit(r, "bucket", c) /\ old >= Cost /\ tokens' = [level |-> old - Cost, last |-> c]
         /\ \A P : /\ c \in P => Count(B, P) = Count(A, P) + 1
                   /\ c \notin P => Count(B, P) = Count(A, P)
      \/ B = A /\ tokens' = [level |-> old, last |-> c]
  <2>1. ASSUME Admit(r, "bucket", c)
        PROVE  \A P : /\ c \in P => Count(B, P) = Count(A, P) + 1
                      /\ c \notin P => Count(B, P) = Count(A, P)
    BY <1>1, <2>1, AdmitIs
  <2>2. ASSUME NEW b, Deny(r, "bucket", b) PROVE B = A
    BY <2>2 DEF Deny
  <2> QED BY <1>2, <2>1, <2>2
<1>9. IsFiniteSet(A) /\ \A P : Count(A, P) \in Nat
  BY DrawnIs DEF Drawn
<1>10. PICK at \in Nat : at = c + behind[r] + rewound /\ c <= at
  BY <1>1, SMTT(30)
<1>11. PICK k \in Nat : k = m + Wiped /\ k = Wiped' /\ Wiped <= k
  BY <1>1, <1>3, SMTT(30)
<1>12. ASSUME "bucket" \notin faults.evicted PROVE Balanced(A, old, at, k)
  BY <1>6, <1>10, <1>11, <1>12 DEF ShareHolds
<1> HIDE DEF A
<1>13. ASSUME "bucket" \notin faults.evicted PROVE LevelHolds'
  <2>1. Balanced(B, tokens'.level, at, k)
    <3>1. CASE B = A /\ tokens' = [level |-> old, last |-> c]
      BY <1>12, <1>13, <3>1
    <3>2. CASE /\ old >= Cost /\ tokens' = [level |-> old - Cost, last |-> c]
               /\ \A P : /\ c \in P => Count(B, P) = Count(A, P) + 1
                         /\ c \notin P => Count(B, P) = Count(A, P)
      <4>1. Balanced(B, old - Cost, at, k)
        BY <1>1, <1>9, <1>10, <1>12, <1>13, <3>2, BalancedDrawn
      <4> QED BY <3>2, <4>1
    <3> QED BY <1>8, <3>1, <3>2
  <2>2. at = c + rewound'
    BY <1>1, <1>10
  <2> QED BY <1>4, <1>11, <2>1, <2>2 DEF LevelHolds, Level, AsOf, Balanced
<1>14. ASSUME "bucket" \notin faults.evicted PROVE BurstHolds'
  <2> SUFFICES ASSUME NEW s \in Int, NEW t \in Int, s <= t
               PROVE  Count(B, Span(s, t)) * Cost <= Full + (t - s) + k * Cost + rewound'
    BY <1>11 DEF BurstHolds, Drawn
  <2> DEFINE d == Count(A, Span(s, t))
             e == Count(B, Span(s, t))
             h == Count(A, Since(s))
             p == d * Cost
             u == e * Cost
             v == h * Cost
             f == k * Cost
             g == Wiped * Cost
  <2>1. p <= Full + (t - s) + g + rewound /\ d \in Nat /\ h \in Nat /\ d <= h
    <3>1. d \in Nat /\ h \in Nat
      BY <1>9
    <3>2. p <= Full + (t - s) + g + rewound /\ d <= h
      BY <1>6, <1>14, DrawnIs DEF BurstHolds, Drawn, A
    <3> QED BY <3>1, <3>2
  <2>2. p \in Nat /\ v \in Nat /\ p <= v /\ f \in Nat /\ g \in Nat /\ g <= f
    <3>0. Cost \in Nat
      BY <1>1
    <3> PICK lost \in Nat : lost = Wiped /\ lost <= k
      BY <1>3, <1>11
    <3>1. d \in Nat /\ h \in Nat /\ d <= h
      BY <2>1
    <3> HIDE DEF d, h
    <3>2. p \in Nat /\ v \in Nat /\ p <= v
      BY <3>0, <3>1, Products
    <3>3. f \in Nat /\ lost * Cost \in Nat /\ lost * Cost <= f
      BY <3>0, Products
    <3> QED BY <3>2, <3>3
  <2> PICK w \in Nat : w = rewound
    BY <1>1
  <2> PICK z \in Nat : z = behind[r]
    BY <1>1
  <2>6. rewound' = w + z
    BY <1>1
  <2>3. CASE e = d
    <3>1. u = p /\ p <= Full + (t - s) + g + w
      BY <2>1, <2>3
    <3> HIDE DEF p, u, f, g
    <3>2. u <= Full + (t - s) + f + (w + z)
      <4> PICK full \in Nat : full = Full
        BY <1>1
      <4>1. p <= full + (t - s) + g + w
        BY <3>1
      <4> QED BY <2>2, <3>1, <4>1
    <3> QED BY <2>6, <3>2 DEF u, f
  <2>4. CASE e = d + 1 /\ c \in Span(s, t) /\ old >= Cost
    <3>1. v + old <= Full + Gap(s, at) + f
      BY <1>12, <1>14 DEF Balanced
    <3>2. Gap(s, at) = at - s /\ c <= t
      BY <1>1, <1>10, <2>4 DEF Gap, Span
    <3>3. u = p + Cost
      <4> HIDE DEF d
      <4>1. (d + 1) * Cost = p + Cost
        BY <1>1, <2>1, Times
      <4> QED BY <2>4, <4>1
    <3> PICK i \in Nat : i = c
      BY <1>1
    <3> PICK o \in Nat : o = old
      BY <1>1
    <3>4. i <= t /\ o >= Cost /\ at = i + z + w /\ v + o <= Full + (at - s) + f
      BY <1>10, <2>4, <3>1, <3>2
    <3> HIDE DEF p, u, f, g, v
    <3>5. u <= Full + (t - s) + f + (w + z)
      <4> PICK full \in Nat : full = Full
        BY <1>1
      <4> PICK cost \in Nat : cost = Cost
        BY <1>1
      <4>1. i <= t /\ o >= cost /\ at = i + z + w /\ v + o <= full + (at - s) + f
        BY <3>4
      <4> QED BY <2>2, <3>3, <4>1
    <3> QED BY <2>6, <3>5 DEF u, f
  <2>5. e = d \/ (e = d + 1 /\ c \in Span(s, t) /\ old >= Cost)
    <3>1. c \in Span(s, t) \/ c \notin Span(s, t)
      OBVIOUS
    <3> QED BY <1>8, <3>1
  <2> QED BY <2>3, <2>4, <2>5
<1>15. ASSUME "bucket" \notin faults.evicted, NEW q \in Requests, pc'[q] = "bucket"
       PROVE  ShareHolds(q)'
  <2>1. /\ pc[q] = "bucket" /\ clock'[q] = clock[q] /\ seen'[q] = seen[q] /\ behind'[q] = behind[q]
        /\ missed[q] \in Nat /\ missed'[q] \in Nat /\ missed[q] <= missed'[q]
        /\ B = A \/ (missed'[q] = missed[q] + 1
                      /\ \A P : /\ c \in P => Count(B, P) = Count(A, P) + 1
                                /\ c \notin P => Count(B, P) = Count(A, P))
    BY <1>3, <1>8, <1>15
  <2>2. PICK n \in Nat : n = seen[q] /\ n <= Full
    BY <2>1, LevelIs DEF BucketInv
  <2> PICK x \in Nat : x = clock[q] + behind[q]
    BY LevelIs
  <2> PICK w \in Nat : w = rewound
    BY <1>1
  <2> PICK v \in Nat : v = rewound' /\ w <= v
    BY <1>1
  <2>3. PICK from \in Nat : from = x + w
    OBVIOUS
  <2>4. PICK to \in Nat : to = x + v /\ from <= to
    BY <2>3
  <2> PICK i \in Nat : i = missed[q]
    BY <2>1
  <2> PICK j \in Nat : j = missed'[q] /\ i <= j
    BY <2>1
  <2> PICK g \in Nat : g = Wiped
    BY <1>3
  <2>5. PICK lost \in Nat : lost = i + g
    OBVIOUS
  <2> PICK h \in Nat : h = Wiped' /\ g <= h
    BY <1>11
  <2>6. PICK more \in Nat : more = j + h /\ lost <= more /\ (j = i + 1 => lost + 1 <= more)
    BY <2>5
  <2>7. Balanced(A, n, from, lost)
    BY <1>6, <1>15, <2>1, <2>2, <2>3, <2>5 DEF ShareHolds, A
  <2>8. Balanced(B, n, to, more)
    <3>1. n <= n + (to - from)
      BY <2>4
    <3>2. CASE B = A
      BY <1>9, <2>2, <2>4, <2>6, <2>7, <3>1, <3>2, BalancedLater, SMTT(30)
    <3>3. CASE /\ missed'[q] = missed[q] + 1
               /\ \A P : /\ c \in P => Count(B, P) = Count(A, P) + 1
                         /\ c \notin P => Count(B, P) = Count(A, P)
      <4>1. Balanced(B, n, from, lost + 1)
        BY <1>1, <1>9, <2>7, <3>3, BalancedDrawn
      <4>2. IsFiniteSet(B)
        <5>1. admitted' \in [Kinds -> SUBSET Admission] /\ \A K \in Kinds : Numbered(admitted'[K])
          BY <1>1, <1>2, AdmitIs DEF LimitTypes, Deny
        <5> QED BY <1>1, <5>1 DEF Numbered
      <4>3. lost + 1 \in Nat /\ lost + 1 <= more
        BY <2>6, <3>3
      <4> QED BY <2>2, <2>4, <3>1, <4>1, <4>2, <4>3, BalancedLater
    <3> QED BY <2>1, <3>2, <3>3
  <2> QED BY <2>1, <2>2, <2>4, <2>6, <2>8 DEF ShareHolds, Balanced
<1> QED BY <1>1, <1>5, <1>7, <1>13, <1>14, <1>15 DEF BucketInv

\* What concerns another kind changes nothing here, and an entry that is dropped when its
\* timeout ends had refilled by then.
LEMMA BucketRests ==
  ASSUME LimitTypes, OrderTypes, BucketInv, Aside("bucket"), UNCHANGED rewound,
         dropAt'["bucket"] = dropAt["bucket"], tokens' \in {tokens, Never}
  PROVE  BucketInv'
<1>1. /\ \A r \in Requests : pc'[r] = "bucket" => seen'[r] <= Full
      /\ tokens' # Never => tokens'.last + Full <= dropAt'["bucket"]
  BY DEF BucketInv, Aside
<1>2. ASSUME "bucket" \notin faults'.evicted
      PROVE  /\ LevelHolds' /\ BurstHolds'
             /\ \A r \in Requests : pc'[r] = "bucket" => ShareHolds(r)'
  <2>1. "bucket" \notin faults.evicted
    BY <1>2 DEF Aside
  <2>2. Wiped' = Wiped /\ admitted'["bucket"] = admitted["bucket"] /\ \A P : Drawn(P)' = Drawn(P)
    BY DEF Aside, Drawn, Wiped
  <2>3. LevelHolds'
    <3>1. CASE tokens' = tokens
      BY <2>1, <2>2, <3>1 DEF BucketInv, LevelHolds, Level, AsOf, Balanced
    <3>2. CASE tokens' = Never /\ tokens # Never
      <4>1. /\ Level \in Nat /\ AsOf \in Nat /\ rewound \in Nat /\ Full \in Nat /\ Wiped \in Nat
            /\ dropAt["bucket"] \in Nat /\ AsOf + Full <= dropAt["bucket"] /\ IsFiniteSet(admitted["bucket"])
        BY <3>2, LevelIs, DrawnIs DEF OrderTypes, BucketInv, AsOf
      <4>2. PICK at \in Nat : at = AsOf + rewound
        BY <4>1
      <4>3. PICK to \in Nat : to = dropAt["bucket"] + rewound
        BY <4>1
      <4>4. at <= to /\ Full <= Level + (to - at)
        BY <4>1, <4>2, <4>3
      <4>5. Balanced(admitted["bucket"], Level, at, Wiped)
        BY <2>1, <4>2 DEF BucketInv, LevelHolds
      <4>6. Balanced(admitted["bucket"], Full, to, Wiped)
        BY <4>1, <4>4, <4>5, BalancedLater
      <4> QED BY <2>2, <3>2, <4>3, <4>6 DEF LevelHolds, Level, AsOf, Balanced
    <3> QED BY <3>1, <3>2
  <2>4. BurstHolds'
    BY <2>1, <2>2 DEF BucketInv, BurstHolds
  <2>5. ASSUME NEW q \in Requests, pc'[q] = "bucket" PROVE ShareHolds(q)'
    <3>1. /\ ShareHolds(q) /\ clock'[q] = clock[q] /\ seen'[q] = seen[q] /\ behind'[q] = behind[q]
          /\ missed'[q] = missed[q]
      BY <2>1, <2>5 DEF Aside, BucketInv
    <3> QED BY <2>2, <3>1 DEF ShareHolds, Balanced
  <2> QED BY <2>3, <2>4, <2>5
<1> QED BY <1>1, <1>2 DEF BucketInv

-----------------------------------------------------------------------------
(* The fixed window.                                                       *)

InWindow(b) == {t \in Nat : BucketOf(t) = b}
Passed(b) == Count(admitted["fixed"], InWindow(b))

\* A counter that was never started has let nobody pass; one that was started once
\* counts all who passed while it lives, and a request that found it gone has found it
\* gone for good.
NotStarted(b) ==
  /\ Passed(b) = 0 /\ counter[b].n = 0
  /\ \A r \in Requests : pc[r] \in {"incr", "readd"} => BucketOf(clock[r]) # b
StartedOnce(b) ==
  /\ Passed(b) <= FixedMax
  /\ counter[b].n > 0 => Passed(b) <= counter[b].n
  /\ \A r \in Requests : pc[r] = "readd" /\ BucketOf(clock[r]) = b => ~Counting(b)
FixedInv ==
  /\ \A b \in Buckets : /\ adds[b] = 0 => NotStarted(b)
                        /\ adds[b] = 1 => StartedOnce(b)
  /\ \A b \in Buckets : b > BucketOf(now) => counter[b].n = 0

\* The fixed window's retry_after reaches beyond every counter there is; the bucket's
\* is long enough to refill a token.
FixedTold ==
  told["fixed"] # Never =>
    /\ told["fixed"] \in Int
    /\ \E d \in Buckets : /\ told["fixed"] >= (d + 1) * Wide
                          /\ \A b \in Buckets : b > d => counter[b].n = 0
BucketTold ==
  told["bucket"] # Never =>
    /\ told["bucket"] \in Int
    /\ tokens # Never => tokens.level + (told["bucket"] - tokens.last) >= Cost

\* A step that keeps what concerns the fixed window.
FixedAside ==
  /\ UNCHANGED <<counter, adds>>
  /\ admitted'["fixed"] = admitted["fixed"] /\ told'["fixed"] = told["fixed"]
  /\ \A q \in Requests :
       pc'[q] \in {"incr", "readd"} => pc[q] = pc'[q] /\ clock'[q] = clock[q]

\* The steps of the other kinds do.
LEMMA OthersFixedAside ==
  ASSUME LimitTypes, NEW r \in Requests,
         \/ Begin(r) \/ AskTime(r)
         \/ SlidingRead(r) \/ SlidingWrite(r) \/ BucketRead(r) \/ BucketWrite(r)
  PROVE  FixedAside /\ now' = now
<1>0. "fixed" \in Kinds /\ "sliding" \in Kinds /\ "bucket" \in Kinds
      /\ clock[r] \in Nat /\ now \in Nat /\ clock[r] <= now
  BY DEF Kinds, LimitTypes, RequestTyped
<1>1. ASSUME NEW kind \in {"sliding", "bucket"}, rest[r] # <<>>,
             Admit(r, kind, clock[r]) \/ \E c : Deny(r, kind, c), UNCHANGED <<counter, adds>>
      PROVE  FixedAside
  <2>1. CASE Admit(r, kind, clock[r])
    <3>1. kind \in Kinds /\ kind # "fixed"
      BY <1>1 DEF Kinds
    <3>2. admitted'["fixed"] = admitted["fixed"] /\ told'["fixed"] = told["fixed"]
      BY <1>0, <2>1, <3>1, AdmitIs
    <3>3. /\ pc'[r] \in {"idle", "next"}
          /\ \A q \in Requests \ {r} : pc'[q] = pc[q] /\ clock'[q] = clock[q]
      BY <1>0, <1>1, <2>1, <3>1, AdmitMoves
    <3> QED BY <1>1, <3>2, <3>3 DEF FixedAside
  <2>2. ASSUME NEW c, Deny(r, kind, c) PROVE FixedAside
    BY <1>0, <1>1, <2>2, DenyMoves DEF FixedAside
  <2> QED BY <1>1, <2>1, <2>2
<1>2. ASSUME NEW stage \in {"next", "timed", "sliding", "bucket"}, pc' = [pc EXCEPT ![r] = stage],
             \A q \in Requests \ {r} : clock'[q] = clock[q],
             UNCHANGED <<counter, adds, admitted, told>>
      PROVE  FixedAside
  BY <1>2 DEF FixedAside, LimitTypes
<1>3. CASE Begin(r)
  BY <1>2, <1>3 DEF Begin, steady, cache, reads, history
<1>4. CASE AskTime(r)
  <2>1. /\ pc' = [pc EXCEPT ![r] = "timed"] /\ clock' = [clock EXCEPT ![r] = now]
        /\ UNCHANGED <<now, counter, adds, admitted, told>>
    BY <1>4 DEF AskTime, steady, cache, history
  <2>2. \A q \in Requests \ {r} : clock'[q] = clock[q]
    BY <2>1 DEF LimitTypes
  <2> QED BY <1>2, <2>1, <2>2
<1>5. CASE SlidingRead(r) \/ BucketRead(r)
  <2>1. /\ \E stage \in {"sliding", "bucket"} : pc' = [pc EXCEPT ![r] = stage]
        /\ UNCHANGED <<now, counter, clock, adds, admitted, told>>
    BY <1>5 DEF SlidingRead, BucketRead, steady, cache, history
  <2> QED BY <1>2, <2>1
<1>6. CASE SlidingWrite(r)
  <2>1. /\ UNCHANGED <<now, counter, adds>> /\ rest[r] # <<>>
        /\ Admit(r, "sliding", clock[r]) \/ \E c : Deny(r, "sliding", c)
    BY <1>6 DEF SlidingWrite, steady, LimitTypes, RequestTyped
  <2> QED BY <1>1, <2>1
<1>7. CASE BucketWrite(r)
  <2>1. /\ UNCHANGED <<now, counter, adds>> /\ rest[r] # <<>>
        /\ Admit(r, "bucket", clock[r]) \/ \E c : Deny(r, "bucket", c)
    BY <1>7 DEF BucketWrite, steady, LimitTypes, RequestTyped
  <2> QED BY <1>1, <2>1
<1> QED BY <1>3, <1>4, <1>5, <1>6, <1>7

\* They keep the invariant, and so does the clock.
LEMMA FixedRests ==
  ASSUME LimitTypes, FixedInv, FixedTold, FixedAside, now' \in Nat, now <= now'
  PROVE  FixedInv' /\ FixedTold'
<1>1. \A b \in Buckets : Counting(b)' => Counting(b)
  <2>1. now \in Nat /\ \A b \in Buckets : counter[b].dropAt \in Nat
    BY DEF LimitTypes
  <2> QED BY <2>1 DEF Counting, FixedAside
<1>2. \A b : Passed(b)' = Passed(b)
  BY DEF Passed, FixedAside
<1>3. ASSUME NEW b \in Buckets, NotStarted(b) PROVE NotStarted(b)'
  BY <1>2, <1>3 DEF NotStarted, FixedAside
<1>4. ASSUME NEW b \in Buckets, StartedOnce(b) PROVE StartedOnce(b)'
  BY <1>1, <1>2, <1>4 DEF StartedOnce, FixedAside
<1>5. BucketOf(now) <= BucketOf(now') /\ BucketOf(now) \in Nat /\ BucketOf(now') \in Nat
  <2> DEFINE a == BucketOf(now)
             b == BucketOf(now')
  <2>0. now \in Nat /\ Wide \in Nat \ {0}
    BY Sizes DEF LimitTypes
  <2>1. a * Wide <= now /\ now' < (b + 1) * Wide /\ a \in Nat /\ b \in Nat
    BY <2>0, BucketIs
  <2> HIDE DEF a, b
  <2>2. a * Wide \in Int /\ (b + 1) * Wide \in Int
    BY <2>0, <2>1
  <2>3. a * Wide < (b + 1) * Wide
    BY <2>0, <2>1, <2>2
  <2>4. a < b + 1
    BY <2>0, <2>1, <2>3, TimesLess
  <2> QED BY <2>1, <2>4 DEF a, b
<1>6. \A b \in Buckets : b \in Nat
  BY BucketIs DEF Buckets, Ticks
<1>7. \A b \in Buckets : b > BucketOf(now') => counter'[b].n = 0
  <2>1. \A b \in Buckets : b > BucketOf(now') => b > BucketOf(now)
    BY <1>5, <1>6
  <2> QED BY <2>1 DEF FixedInv, FixedAside
<1>8. FixedTold'
  BY DEF FixedTold, FixedAside
<1>9. BucketOf(now)' = BucketOf(now')
  BY DEF BucketOf
<1> QED BY <1>3, <1>4, <1>7, <1>8, <1>9 DEF FixedInv, FixedAside

\* A request's admission at its bucket, by the counts of the buckets.
LEMMA PassedIs ==
  ASSUME LimitTypes, NEW r \in Requests, NEW t \in Nat, t <= now, Admit(r, "fixed", t)
  PROVE  /\ Passed(BucketOf(t))' = Passed(BucketOf(t)) + 1
         /\ \A b : b # BucketOf(t) => Passed(b)' = Passed(b)
<1>1. "fixed" \in Kinds
  BY DEF Kinds
<1>2. \A P : /\ t \in P => Count(admitted'["fixed"], P) = Count(admitted["fixed"], P) + 1
             /\ t \notin P => Count(admitted'["fixed"], P) = Count(admitted["fixed"], P)
  BY <1>1, AdmitIs
<1>3. \A b : t \in InWindow(b) <=> b = BucketOf(t)
  BY DEF InWindow
<1>4. InWindow(BucketOf(t))' = InWindow(BucketOf(t))
  OBVIOUS
<1> QED BY <1>2, <1>3 DEF Passed, InWindow

\* The other buckets see nothing of it.
LEMMA Elsewhere ==
  ASSUME LimitTypes, FixedInv, NEW b \in Buckets, now' = now,
         counter'[b] = counter[b], adds'[b] = adds[b], Passed(b)' = Passed(b),
         \A q \in Requests : pc'[q] \in {"incr", "readd"} =>
           \/ pc[q] = pc'[q] /\ clock'[q] = clock[q]
           \/ BucketOf(clock'[q]) # b
  PROVE  (adds'[b] = 0 => NotStarted(b)') /\ (adds'[b] = 1 => StartedOnce(b)')
<1>1. Counting(b)' = Counting(b)
  BY DEF Counting
<1>2. NotStarted(b) => NotStarted(b)'
  BY DEF NotStarted, BucketOf
<1>3. StartedOnce(b) => StartedOnce(b)'
  BY <1>1 DEF StartedOnce, BucketOf
<1> QED BY <1>2, <1>3 DEF FixedInv

\* Starting a counter admits; the counter is that of the present or of a window past.
LEMMA StartKeeps ==
  ASSUME LimitTypes, FixedInv, NEW r \in Requests, NEW t \in Nat, t <= now, now' = now,
         rest[r] # <<>>, BucketOf(t) \in Buckets, Start(BucketOf(t)), Admit(r, "fixed", t),
         BucketOf(t) <= BucketOf(now)
  PROVE  FixedInv' /\ FixedTold'
<1> DEFINE b0 == BucketOf(t)
<1>0. "fixed" \in Kinds
  BY DEF Kinds
<1>1. /\ counter'[b0].n = 1 /\ adds'[b0] = adds[b0] + 1 /\ adds[b0] \in Nat
      /\ \A b \in Buckets \ {b0} : counter'[b] = counter[b] /\ adds'[b] = adds[b]
  BY StartTyped DEF LimitTypes
<1>2. /\ pc'[r] \in {"idle", "next"}
      /\ \A q \in Requests \ {r} : pc'[q] = pc[q] /\ clock'[q] = clock[q]
  BY <1>0, AdmitMoves
<1>3. /\ Passed(b0)' = Passed(b0) + 1
      /\ \A b \in Buckets \ {b0} : Passed(b)' = Passed(b)
  BY PassedIs
<1>4. \A q \in Requests : pc'[q] \in {"incr", "readd"} => pc[q] = pc'[q] /\ clock'[q] = clock[q]
  BY <1>2
<1>5. ASSUME NEW b \in Buckets \ {b0}
      PROVE  (adds'[b] = 0 => NotStarted(b)') /\ (adds'[b] = 1 => StartedOnce(b)')
  BY <1>1, <1>3, <1>4, Elsewhere
<1>6. adds'[b0] # 0
  BY <1>1
<1>7. ASSUME adds'[b0] = 1 PROVE StartedOnce(b0)'
  <2>1. adds[b0] = 0
    BY <1>1, <1>7
  <2>2. NotStarted(b0)
    BY <2>1 DEF FixedInv
  <2>3. Passed(b0)' = 1
    BY <1>3, <2>2 DEF NotStarted
  <2>4. \A q \in Requests : pc'[q] = "readd" => BucketOf(clock'[q]) # b0
    BY <1>4, <2>2 DEF NotStarted
  <2> QED BY <1>1, <2>3, <2>4, Sizes DEF StartedOnce, BucketOf
<1>8. \A b \in Buckets : b > BucketOf(now) => counter'[b].n = 0
  <2>1. b0 \in Nat /\ BucketOf(now) \in Nat /\ \A b \in Buckets : b \in Nat
    BY BucketIs DEF LimitTypes, Buckets, Ticks
  <2>2. \A b \in Buckets : b > BucketOf(now) => b # b0
    BY <2>1
  <2> QED BY <1>1, <2>2 DEF FixedInv
<1>9. FixedTold'
  BY <1>0, AdmitIs DEF FixedTold
<1>10. BucketOf(now)' = BucketOf(now)
  BY DEF BucketOf
<1> QED BY <1>5, <1>6, <1>7, <1>8, <1>9, <1>10 DEF FixedInv

\* Time orders the windows.
LEMMA BucketOrder ==
  ASSUME NEW s \in Nat, NEW t \in Nat, s <= t
  PROVE  BucketOf(s) <= BucketOf(t)
<1> DEFINE a == BucketOf(s)
           b == BucketOf(t)
<1>0. Wide \in Nat \ {0}
  BY Sizes
<1>1. a * Wide <= s /\ t < (b + 1) * Wide /\ a \in Nat /\ b \in Nat
  BY BucketIs
<1> HIDE DEF a, b
<1>2. a * Wide \in Int /\ (b + 1) * Wide \in Int
  BY <1>0, <1>1
<1>3. a * Wide < (b + 1) * Wide
  BY <1>1, <1>2
<1>4. a < b + 1
  BY <1>0, <1>1, <1>3, TimesLess
<1> QED BY <1>1, <1>4 DEF a, b

\* Adding, or going on to incr.
LEMMA FixedAddKeeps ==
  ASSUME LimitTypes, FixedInv, FixedTold, NEW r \in Requests, FixedAdd(r)
  PROVE  FixedInv' /\ FixedTold'
<1> PICK c : c = clock[r]
  OBVIOUS
<1> DEFINE b0 == BucketOf(c)
<1>0. /\ c \in Nat /\ c <= now /\ now' = now /\ now \in Nat /\ b0 \in Buckets /\ b0 \in Nat
      /\ rest[r] # <<>>
  BY InBuckets, TurnHas, BucketIs DEF FixedAdd, steady, LimitTypes
<1>1. CASE Counting(b0)
  <2>1. pc' = [pc EXCEPT ![r] = "incr"] /\ UNCHANGED <<counter, clock, adds, admitted, told>>
    BY <1>1 DEF FixedAdd, reads
  <2>2. pc'[r] = "incr" /\ \A q \in Requests \ {r} : pc'[q] = pc[q]
    BY <2>1 DEF LimitTypes
  <2>3. adds[b0] # 0
    <3>1. counter[b0].n # 0
      BY <1>1 DEF Counting
    <3> QED BY <1>0, <3>1 DEF FixedInv, NotStarted
  <2>4. \A b \in Buckets : Passed(b)' = Passed(b) /\ Counting(b)' = Counting(b)
    BY <1>0, <2>1 DEF Passed, Counting
  <2>5. ASSUME NEW b \in Buckets, adds'[b] = 0 PROVE NotStarted(b)'
    <3>1. NotStarted(b) /\ b # b0
      BY <2>1, <2>3, <2>5 DEF FixedInv
    <3>2. \A q \in Requests : pc'[q] \in {"incr", "readd"} => BucketOf(clock[q]) # b
      BY <2>2, <3>1 DEF NotStarted
    <3> QED BY <2>1, <2>4, <3>1, <3>2 DEF NotStarted
  <2>6. ASSUME NEW b \in Buckets, adds'[b] = 1 PROVE StartedOnce(b)'
    <3>1. StartedOnce(b)
      BY <2>1, <2>6 DEF FixedInv
    <3>2. \A q \in Requests : pc'[q] = "readd" /\ BucketOf(clock[q]) = b => ~Counting(b)
      BY <2>2, <3>1 DEF StartedOnce
    <3> QED BY <2>1, <2>4, <3>1, <3>2 DEF StartedOnce
  <2>7. BucketOf(now)' = BucketOf(now)
    BY <1>0 DEF BucketOf
  <2> QED BY <2>1, <2>5, <2>6, <2>7 DEF FixedInv, FixedTold
<1>2. CASE ~Counting(b0)
  <2>1. Start(b0) /\ Admit(r, "fixed", c)
    BY <1>2 DEF FixedAdd
  <2>2. BucketOf(c) <= BucketOf(now)
    BY <1>0, BucketOrder
  <2> QED BY <1>0, <2>1, <2>2, StartKeeps
<1> QED BY <1>1, <1>2

\* Counting one more of the window.
LEMMA FixedIncrKeeps ==
  ASSUME LimitTypes, FixedInv, FixedTold, NEW r \in Requests, FixedIncr(r)
  PROVE  FixedInv' /\ FixedTold'
<1> PICK c : c = clock[r]
  OBVIOUS
<1> DEFINE b0 == BucketOf(c)
           n0 == counter[b0].n
<1>0. /\ c \in Nat /\ c <= now /\ now' = now /\ now \in Nat /\ b0 \in Buckets /\ b0 \in Nat
      /\ rest[r] # <<>> /\ "fixed" \in Kinds /\ pc[r] = "incr"
      /\ \A b \in Buckets : b \in Nat
  <2>1. /\ c \in Nat /\ c <= now /\ b0 \in Buckets
    BY InBuckets DEF LimitTypes
  <2>2. now' = now /\ rest[r] # <<>> /\ "fixed" \in Kinds /\ pc[r] = "incr" /\ now \in Nat
    BY DEF FixedIncr, steady, LimitTypes, RequestTyped, Kinds
  <2>3. \A b \in Buckets : b \in Nat
    BY BucketIs DEF Buckets, Ticks
  <2> QED BY <2>1, <2>2, <2>3
<1>1. /\ Counting(b0) /\ counter' = [counter EXCEPT ![b0].n = @ + 1] /\ UNCHANGED adds
      /\ \/ Within(n0 + 1) /\ Admit(r, "fixed", c)
         \/ Deny(r, "fixed", IF BucketOf(now) = b0
                             THEN c + Max({(b0 + 1) * Window - c \div Hz, 1}) * Hz ELSE Never)
  BY DEF FixedIncr
<1>2. /\ n0 \in Nat /\ n0 > 0 /\ counter'[b0].n = n0 + 1 /\ counter'[b0].dropAt = counter[b0].dropAt
      /\ \A b \in Buckets \ {b0} : counter'[b] = counter[b]
  BY <1>0, <1>1 DEF LimitTypes, Counting
<1>3. \A q \in Requests : pc'[q] \in {"incr", "readd"} => pc[q] = pc'[q] /\ clock'[q] = clock[q]
  BY <1>0, <1>1, AdmitMoves, DenyMoves
<1>4. /\ \A b \in Buckets \ {b0} : Passed(b)' = Passed(b)
      /\ Passed(b0)' = Passed(b0) \/ (Passed(b0)' = Passed(b0) + 1 /\ n0 + 1 <= FixedMax)
  <2>1. CASE Within(n0 + 1) /\ Admit(r, "fixed", c)
    BY <1>0, <2>1, PassedIs DEF Within
  <2>2. ASSUME NEW k, Deny(r, "fixed", k) PROVE \A b : Passed(b)' = Passed(b)
    BY <2>2 DEF Deny, Passed
  <2> QED BY <1>1, <2>1, <2>2
<1>5. ASSUME NEW b \in Buckets \ {b0}
      PROVE  (adds'[b] = 0 => NotStarted(b)') /\ (adds'[b] = 1 => StartedOnce(b)')
  BY <1>0, <1>1, <1>2, <1>3, <1>4, Elsewhere
<1>6. adds[b0] # 0
  BY <1>0, <1>2 DEF FixedInv, NotStarted
<1>7. ASSUME adds[b0] = 1 PROVE StartedOnce(b0)'
  <2>1. StartedOnce(b0)
    BY <1>0, <1>7 DEF FixedInv
  <2>2. Passed(b0) <= n0 /\ Passed(b0) \in Nat /\ Passed(b0) <= FixedMax
    <3>1. Passed(b0) \in Nat
      BY <1>0, CountMore DEF Passed, LimitTypes, Numbered
    <3> QED BY <1>2, <2>1, <3>1 DEF StartedOnce
  <2>3. Passed(b0)' <= FixedMax /\ Passed(b0)' <= n0 + 1
    BY <1>2, <1>4, <2>2, Sizes
  <2>4. \A q \in Requests : pc'[q] = "readd" => BucketOf(clock'[q]) # b0
    BY <1>1, <1>3, <2>1 DEF StartedOnce
  <2> QED BY <1>2, <2>3, <2>4 DEF StartedOnce, BucketOf
<1>8. BucketOf(c) <= BucketOf(now) /\ BucketOf(now) \in Nat
  BY <1>0, BucketOrder, BucketIs
<1>9. \A b \in Buckets : b > BucketOf(now) => counter'[b].n = 0
  <2>1. \A b \in Buckets : b > BucketOf(now) => b # b0
    BY <1>0, <1>8
  <2> QED BY <1>2, <2>1 DEF FixedInv
<1>10. BucketOf(now)' = BucketOf(now)
  BY <1>0 DEF BucketOf
<1>11. FixedTold'
  <2>1. CASE Admit(r, "fixed", c)
    BY <1>0, <2>1, AdmitIs DEF FixedTold
  <2>2. ASSUME NEW k, Deny(r, "fixed", k), k # Never => BucketOf(now) = b0
                       /\ k = c + Max({(b0 + 1) * Window - c \div Hz, 1}) * Hz
        PROVE  FixedTold'
    <3>1. told'["fixed"] = k
      BY <1>0, <2>2, DenyMoves
    <3> SUFFICES ASSUME k # Never
                 PROVE  /\ k \in Int /\ k >= (b0 + 1) * Wide
                        /\ \A b \in Buckets : b > b0 => counter'[b].n = 0
      BY <1>0, <3>1 DEF FixedTold
    <3> DEFINE s == c \div Hz
               m == (b0 + 1) * Window
               retry == Max({m - s, 1})
    <3>2. s \in Nat /\ s * Hz <= c /\ Hz \in Nat /\ m \in Int /\ s * Hz \in Int
      <4>1. s \in Nat /\ s * Hz <= c
        BY <1>0, DivIs, Sizes
      <4> HIDE DEF s
      <4> QED BY <1>0, <4>1, Sizes
    <3>3. retry \in Int /\ m - s <= retry
      <4>1. m - s \in Int
        BY <3>2
      <4> DEFINE x == m - s
      <4> HIDE DEF x, m, s
      <4> QED BY <4>1, MaxMin DEF x
    <3>4. k = c + retry * Hz
      BY <2>2
    <3>5. m * Hz = (b0 + 1) * Wide
      BY <1>0, Sizes DEF Wide
    <3> HIDE DEF s, m, retry
    <3>6. (m - s) * Hz <= retry * Hz /\ retry * Hz \in Int
      <4>1. m - s \in Int
        BY <3>2
      <4> QED BY <3>2, <3>3, <4>1, Times
    <3>7. (m - s) * Hz = m * Hz - s * Hz
      BY <3>2
    <3>8. m * Hz \in Int
      BY <3>2
    <3>9. k \in Int /\ k >= m * Hz
      <4> DEFINE y == retry * Hz
                 z == m * Hz
                 w == s * Hz
      <4>1. z - w <= y /\ y \in Int /\ z \in Int /\ w \in Int /\ w <= c /\ k = c + y
        BY <3>2, <3>4, <3>6, <3>7, <3>8
      <4> HIDE DEF y, z, w
      <4>2. k \in Int /\ k >= z
        BY <1>0, <4>1
      <4> QED BY <4>2 DEF z
    <3>10. \A b \in Buckets : b > b0 => counter'[b].n = 0
      BY <1>9, <2>2
    <3> QED BY <3>5, <3>9, <3>10
  <2> QED BY <1>1, <2>1, <2>2
<1> QED BY <1>1, <1>5, <1>6, <1>7, <1>9, <1>10, <1>11 DEF FixedInv

\* Finding the counter gone.
LEMMA FixedGoneKeeps ==
  ASSUME LimitTypes, FixedInv, FixedTold, NEW r \in Requests, FixedGone(r)
  PROVE  FixedInv' /\ FixedTold'
<1>1. /\ pc[r] = "incr" /\ ~Counting(BucketOf(clock[r]))
      /\ pc' = [pc EXCEPT ![r] = "readd"]
      /\ UNCHANGED <<now, counter, clock, admitted, adds, told>>
  BY DEF FixedGone, steady, cache, reads, history
<1>2. pc'[r] = "readd" /\ \A q \in Requests \ {r} : pc'[q] = pc[q]
  BY <1>1 DEF LimitTypes
<1>3. /\ \A b : Passed(b)' = Passed(b) /\ Counting(b)' = Counting(b)
      /\ BucketOf(now)' = BucketOf(now)
  BY <1>1 DEF Passed, Counting, BucketOf
<1>4. ASSUME NEW b \in Buckets, NotStarted(b) PROVE NotStarted(b)'
  <2>1. \A q \in Requests : pc'[q] \in {"incr", "readd"} => BucketOf(clock[q]) # b
    BY <1>1, <1>2, <1>4 DEF NotStarted
  <2> QED BY <1>1, <1>3, <1>4, <2>1 DEF NotStarted
<1>5. ASSUME NEW b \in Buckets, StartedOnce(b) PROVE StartedOnce(b)'
  <2>1. \A q \in Requests : pc'[q] = "readd" /\ BucketOf(clock[q]) = b => ~Counting(b)
    BY <1>1, <1>2, <1>5 DEF StartedOnce
  <2> QED BY <1>1, <1>3, <1>5, <2>1 DEF StartedOnce
<1> QED BY <1>1, <1>3, <1>4, <1>5 DEF FixedInv, FixedTold

\* Adding again.  If another request's counter lives, it was started a second time.
LEMMA FixedReaddKeeps ==
  ASSUME LimitTypes, FixedInv, FixedTold, NEW r \in Requests, FixedReadd(r)
  PROVE  FixedInv' /\ FixedTold'
<1> PICK c : c = clock[r]
  OBVIOUS
<1> DEFINE b0 == BucketOf(c)
<1>0. /\ c \in Nat /\ c <= now /\ now' = now /\ now \in Nat /\ b0 \in Buckets /\ b0 \in Nat
      /\ rest[r] # <<>> /\ "fixed" \in Kinds /\ pc[r] = "readd" /\ Admit(r, "fixed", c)
  BY InBuckets, BucketIs DEF FixedReadd, steady, LimitTypes, RequestTyped, Kinds
<1>1. adds[b0] # 0
  BY <1>0 DEF FixedInv, NotStarted
<1>2. BucketOf(c) <= BucketOf(now)
  BY <1>0, BucketOrder
<1>3. CASE Counting(b0)
  <2>1. UNCHANGED <<counter, adds>>
    BY <1>3 DEF FixedReadd
  <2>2. adds[b0] # 1
    BY <1>0, <1>3 DEF FixedInv, StartedOnce
  <2>3. \A q \in Requests : pc'[q] \in {"incr", "readd"} => pc[q] = pc'[q] /\ clock'[q] = clock[q]
    BY <1>0, AdmitMoves
  <2>4. \A b \in Buckets \ {b0} : Passed(b)' = Passed(b)
    BY <1>0, PassedIs
  <2>5. ASSUME NEW b \in Buckets \ {b0}
        PROVE  (adds'[b] = 0 => NotStarted(b)') /\ (adds'[b] = 1 => StartedOnce(b)')
    BY <1>0, <2>1, <2>3, <2>4, Elsewhere
  <2>6. FixedTold'
    BY <1>0, AdmitIs DEF FixedTold
  <2>7. BucketOf(now)' = BucketOf(now)
    BY <1>0 DEF BucketOf
  <2> QED BY <1>1, <2>1, <2>2, <2>5, <2>6, <2>7 DEF FixedInv
<1>4. CASE ~Counting(b0)
  <2>1. Start(b0)
    BY <1>4 DEF FixedReadd
  <2> QED BY <1>0, <1>1, <1>2, <1>4, <2>1, StartKeeps
<1> QED BY <1>3, <1>4

\* Unless the cache dropped it, a counter outlives its window, and was not started again
\* before the window closed.
FixedOnce ==
  "fixed" \notin faults.evicted =>
    \A b \in Buckets :
      /\ adds[b] # 0 => counter[b].n > 0 /\ (b + 1) * Wide <= counter[b].dropAt
      /\ adds[b] <= 1 \/ (b + 1) * Wide <= now

\* It stays so while nothing is started,
LEMMA FixedOnceRests ==
  ASSUME LimitTypes, FixedOnce, now' \in Nat, now <= now', adds' = adds,
         "fixed" \in faults.evicted => "fixed" \in faults'.evicted,
         \/ "fixed" \in faults'.evicted
         \/ \A b \in Buckets : /\ counter'[b].dropAt = counter[b].dropAt
                               /\ counter[b].n > 0 => counter'[b].n > 0
  PROVE  FixedOnce'
<1>1. \A b \in Buckets : b \in Nat /\ (b + 1) * Wide \in Int
  <2>1. \A b \in Buckets : b \in Nat
    BY BucketIs DEF Buckets, Ticks
  <2> QED BY <2>1, Sizes
<1>2. ASSUME "fixed" \notin faults'.evicted, NEW b \in Buckets
      PROVE  /\ adds'[b] # 0 => counter'[b].n > 0 /\ (b + 1) * Wide <= counter'[b].dropAt
             /\ adds'[b] <= 1 \/ (b + 1) * Wide <= now'
  <2> DEFINE end == (b + 1) * Wide
  <2>1. end \in Int /\ now \in Nat
    BY <1>1 DEF LimitTypes
  <2>2. /\ adds[b] # 0 => counter[b].n > 0 /\ end <= counter[b].dropAt
        /\ adds[b] <= 1 \/ end <= now
    BY <1>2 DEF FixedOnce
  <2> HIDE DEF end
  <2>3. end <= now => end <= now'
    BY <2>1
  <2>4. /\ adds'[b] # 0 => counter'[b].n > 0 /\ end <= counter'[b].dropAt
        /\ adds'[b] <= 1 \/ end <= now'
    BY <1>2, <2>2, <2>3
  <2> QED BY <2>4 DEF end
<1> QED BY <1>2 DEF FixedOnce

\* and when one is that was not counting.
LEMMA FixedOnceStarts ==
  ASSUME LimitTypes, FixedOnce, UNCHANGED <<now, faults>>, NEW t \in Nat, t <= now,
         BucketOf(t) \in Buckets, ~Counting(BucketOf(t)), Start(BucketOf(t))
  PROVE  FixedOnce'
<1> PICK b0 \in Buckets : b0 = BucketOf(t)
  OBVIOUS
<1>1. /\ b0 \in Nat /\ now \in Nat /\ Wide \in Nat /\ (b0 + 1) * Wide \in Int
      /\ (b0 + 1) * Wide <= now + Wide
  <2>1. b0 \in Nat /\ b0 * Wide <= t /\ Wide \in Nat
    BY BucketIs
  <2>2. (b0 + 1) * Wide = b0 * Wide + Wide /\ b0 * Wide \in Int
    BY <2>1, Times
  <2> DEFINE x == b0 * Wide
             y == (b0 + 1) * Wide
  <2>3. x <= t /\ x \in Int /\ y = x + Wide /\ now \in Nat
    BY <2>1, <2>2 DEF LimitTypes
  <2> HIDE DEF x, y
  <2>4. y \in Int /\ y <= now + Wide
    BY <2>1, <2>3
  <2> QED BY <2>1, <2>3, <2>4 DEF y
<1>2. /\ counter'[b0].n = 1 /\ counter'[b0].dropAt = now + Wide
      /\ adds'[b0] = adds[b0] + 1 /\ adds[b0] \in Nat
      /\ \A b \in Buckets \ {b0} : counter'[b] = counter[b] /\ adds'[b] = adds[b]
  <2>1. counter'[b0].dropAt = now + Wide
    BY DEF Start, LimitTypes, Wide
  <2> QED BY <2>1, StartTyped DEF LimitTypes
<1>3. ASSUME "fixed" \notin faults.evicted PROVE adds[b0] = 0 \/ (b0 + 1) * Wide <= now
  <2> DEFINE end == (b0 + 1) * Wide
  <2>1. ASSUME adds[b0] # 0 PROVE end <= now
    <3>1. counter[b0].n > 0 /\ end <= counter[b0].dropAt
      BY <1>3, <2>1 DEF FixedOnce
    <3>2. ~(now < counter[b0].dropAt) /\ counter[b0].dropAt \in Nat
      BY <3>1 DEF Counting, LimitTypes
    <3>3. end \in Int
      BY <1>1
    <3> HIDE DEF end
    <3> QED BY <1>1, <3>1, <3>2, <3>3
  <2> QED BY <2>1
<1>4. ASSUME "fixed" \notin faults.evicted, NEW b \in Buckets
      PROVE  /\ adds'[b] # 0 => counter'[b].n > 0 /\ (b + 1) * Wide <= counter'[b].dropAt
             /\ adds'[b] <= 1 \/ (b + 1) * Wide <= now
  <2>1. CASE b = b0
    <3>1. adds'[b0] <= 1 \/ (b0 + 1) * Wide <= now
      BY <1>2, <1>3, <1>4
    <3>2. counter'[b0].n > 0 /\ (b0 + 1) * Wide <= counter'[b0].dropAt
      BY <1>1, <1>2
    <3> QED BY <2>1, <3>1, <3>2
  <2>2. CASE b # b0
    BY <1>2, <1>4, <2>2 DEF FixedOnce
  <2> QED BY <2>1, <2>2
<1> QED BY <1>4 DEF FixedOnce

\* So every step of a request keeps it.
LEMMA FixedOnceKeeps ==
  ASSUME LimitTypes, FixedOnce, NEW r \in Requests, LimitAction(r)
  PROVE  FixedOnce'
<1> PICK c : c = clock[r]
  OBVIOUS
<1>0. c \in Nat /\ c <= now /\ now \in Nat /\ BucketOf(c) \in Buckets
  BY InBuckets DEF LimitTypes
<1>1. CASE FixedAdd(r) \/ FixedReadd(r)
  <2>1. UNCHANGED <<now, faults>>
    BY <1>1 DEF FixedAdd, FixedReadd, steady
  <2>2. CASE UNCHANGED <<counter, adds>>
    BY <1>0, <2>1, <2>2, FixedOnceRests
  <2>3. CASE ~Counting(BucketOf(c)) /\ Start(BucketOf(c))
    BY <1>0, <2>1, <2>3, FixedOnceStarts
  <2> QED BY <1>1, <2>2, <2>3 DEF FixedAdd, FixedReadd
<1>2. CASE FixedIncr(r)
  <2>1. /\ UNCHANGED <<now, faults, adds>>
        /\ counter' = [counter EXCEPT ![BucketOf(c)].n = @ + 1]
    BY <1>2 DEF FixedIncr, steady
  <2>2. \A b \in Buckets : /\ counter'[b].dropAt = counter[b].dropAt
                           /\ counter[b].n > 0 => counter'[b].n > 0
    BY <1>0, <2>1 DEF LimitTypes
  <2> QED BY <1>0, <2>1, <2>2, FixedOnceRests
<1>3. CASE /\ ~FixedAdd(r) /\ ~FixedReadd(r) /\ ~FixedIncr(r)
  <2>1. UNCHANGED <<now, counter, adds>> /\ faults'.evicted = faults.evicted
    <3>1. CASE Begin(r)
      BY <3>1 DEF Begin, steady, cache, history, LimitTypes
    <3>2. CASE AskTime(r) \/ FixedGone(r) \/ SlidingRead(r) \/ BucketRead(r)
      BY <3>2 DEF AskTime, FixedGone, SlidingRead, BucketRead, steady, cache, history
    <3>3. CASE SlidingWrite(r) \/ BucketWrite(r)
      BY <3>3 DEF SlidingWrite, BucketWrite, steady
    <3> QED BY <1>3, <3>1, <3>2, <3>3 DEF LimitAction
  <2> QED BY <1>0, <2>1, FixedOnceRests
<1> QED BY <1>1, <1>2, <1>3

-----------------------------------------------------------------------------
(* The limiters together.                                                  *)

LimitsInv ==
  /\ LimitTypes /\ OrderTypes
  /\ FixedInv /\ FixedOnce /\ SlidingInv /\ BucketInv
  /\ FixedTold /\ BucketTold

\* They begin with nothing admitted and nothing told.
LEMMA LimitsBegin == LimitsInit => LimitsInv
<1> SUFFICES ASSUME LimitsInit PROVE LimitsInv
  OBVIOUS
<1>1. LimitTypes /\ OrderTypes
  BY LimitTypesInitially DEF LimitsInit, OrderTypes
<1>2. \A k \in Kinds : admitted[k] = {} /\ told[k] = Never /\ erased[k] = 0
  BY DEF LimitsInit
<1>3. "fixed" \in Kinds /\ "sliding" \in Kinds /\ "bucket" \in Kinds
  BY DEF Kinds
<1>4. \A P : Count({}, P) = 0
  BY CountNone
<1>5. \A r \in Requests : pc[r] = "idle"
  BY DEF LimitsInit
<1>6. FixedInv /\ FixedOnce
  BY <1>2, <1>3, <1>4, <1>5 DEF LimitsInit, FixedInv, FixedOnce, NotStarted, Passed, Absent
<1>7. SlidingInv
  <2>1. Len(stamps) <= SlidingMax
    BY Sizes DEF LimitsInit
  <2>2. ListHolds
    <3> SUFFICES ASSUME NEW x \in Int PROVE Slid(Beyond(x)) <= Newer(stamps, x) + Lost
      BY DEF ListHolds
    <3>1. Slid(Beyond(x)) = 0 /\ Lost = 0
      BY <1>2, <1>3, <1>4 DEF Slid, Lost
    <3>2. Newer(stamps, x) \in Nat
      BY <1>1, NewerIs DEF LimitTypes
    <3> QED BY <3>1, <3>2
  <2>3. WindowHolds
    <3> SUFFICES ASSUME NEW x \in Int PROVE Slid(Trailing(x)) <= SlidingMax + Lost + overtaken
      BY DEF WindowHolds
    <3>1. Slid(Trailing(x)) = 0 /\ Lost = 0 /\ overtaken = 0
      BY <1>2, <1>3, <1>4 DEF Slid, Lost, LimitsInit
    <3> QED BY <3>1, Sizes
  <2>4. StampsPast
    <3>1. stamps = <<>> /\ horizon = 0 /\ now = 0
      BY DEF LimitsInit
    <3> QED BY <1>5, <3>1 DEF StampsPast, UpTo
  <2> QED BY <1>5, <2>1, <2>2, <2>3, <2>4 DEF SlidingInv, SlidingShort
<1>8. BucketInv
  <2>1. tokens = Never /\ admitted["bucket"] = {}
    BY <1>2, <1>3 DEF LimitsInit
  <2>2. BurstHolds
    <3> SUFFICES ASSUME NEW s \in Int, NEW t \in Int, s <= t
                 PROVE  Drawn(Span(s, t)) * Cost <= Full + (t - s) + Wiped * Cost + rewound
      BY DEF BurstHolds
    <3>1. Drawn(Span(s, t)) = 0 /\ Wiped = 0 /\ rewound = 0
      BY <1>2, <1>3, <1>4 DEF Drawn, Wiped, LimitsInit
    <3> QED BY <3>1, Sizes
  <2>3. LevelHolds
    <3>1. Level = Full /\ AsOf + rewound = 0 /\ Wiped = 0
      BY <1>2, <1>3, <2>1 DEF Level, AsOf, LimitsInit, Wiped
    <3>2. Balanced({}, Full, 0, 0)
      <4>1. \A s \in Int : Gap(s, 0) \in Nat
        BY DEF Gap
      <4> QED BY <1>4, <4>1, Sizes DEF Balanced
    <3> QED BY <2>1, <3>1, <3>2 DEF LevelHolds
  <2> QED BY <1>5, <2>1, <2>2, <2>3 DEF BucketInv
<1>9. FixedTold /\ BucketTold
  BY <1>2, <1>3 DEF FixedTold, BucketTold
<1> QED BY <1>1, <1>6, <1>7, <1>8, <1>9 DEF LimitsInv

\* A denied request's retry_after refills its token.
LEMMA BucketWriteTells ==
  ASSUME LimitTypes, NEW r \in Requests, BucketWrite(r)
  PROVE  BucketTold'
<1> DEFINE c == clock[r]
           old == seen[r]
           w == WholeSeconds(Cost - old)
           retry == Max({w, 1})
<1>0. /\ "bucket" \in Kinds /\ c \in Nat /\ old \in Nat /\ c <= now /\ rest[r] # <<>>
      /\ Cost \in Nat /\ Hz \in Nat \ {0}
  BY Sizes DEF BucketWrite, LimitTypes, RequestTyped, Kinds
<1>1. CASE Admit(r, "bucket", c)
  BY <1>0, <1>1, AdmitIs DEF BucketTold
<1>2. CASE old < Cost /\ tokens' = [level |-> old, last |-> c] /\ Deny(r, "bucket", c + retry * Hz)
  <2>1. told'["bucket"] = c + retry * Hz
    BY <1>0, <1>2, DenyMoves
  <2> DEFINE d == Cost - old + Hz - 1
  <2>2. d \in Nat /\ w = d \div Hz
    BY <1>0, <1>2 DEF WholeSeconds
  <2>3. w \in Nat /\ d < w * Hz + Hz /\ w * Hz \in Int
    <3> HIDE DEF d, w
    <3>1. w \in Nat /\ d < w * Hz + Hz
      BY <1>0, <2>2, DivIs
    <3> QED BY <1>0, <3>1
  <2>4. retry \in Int /\ w <= retry
    <3> HIDE DEF w
    <3> QED BY <2>3, MaxMin
  <2>5. w * Hz <= retry * Hz /\ retry * Hz \in Int
    <3> HIDE DEF w, retry
    <3> QED BY <1>0, <2>3, <2>4, Times
  <2>6. Cost - old <= retry * Hz
    <3> DEFINE x == w * Hz
               y == retry * Hz
    <3>1. d < x + Hz /\ x <= y /\ x \in Int /\ y \in Int
      BY <2>3, <2>5
    <3> HIDE DEF x, y
    <3>2. Cost - old <= y
      BY <1>0, <3>1
    <3> QED BY <3>2 DEF y
  <2>7. c + retry * Hz \in Int /\ old + ((c + retry * Hz) - c) >= Cost
    <3> DEFINE y == retry * Hz
    <3>1. y \in Int /\ Cost - old <= y
      BY <2>5, <2>6
    <3> HIDE DEF y
    <3>2. c + y \in Int /\ old + ((c + y) - c) >= Cost
      BY <1>0, <3>1
    <3> QED BY <3>2 DEF y
  <2> HIDE DEF retry
  <2> QED BY <1>2, <2>1, <2>7 DEF BucketTold
<1> QED BY <1>1, <1>2 DEF BucketWrite

\* A request's step keeps them.
LEMMA ActionKeeps ==
  ASSUME LimitsInv, NEW r \in Requests, LimitAction(r)
  PROVE  LimitsInv'
<1>0. /\ LimitTypes /\ OrderTypes /\ FixedInv /\ FixedOnce /\ SlidingInv /\ BucketInv
      /\ FixedTold /\ BucketTold /\ now \in Nat /\ now <= now
  BY DEF LimitsInv, LimitTypes
<1>1. LimitTypes' /\ OrderTypes'
  BY <1>0, ActionTyped, OrderTypesKept DEF LimitsNext, LimitAction
<1>2. SlidingInv'
  <2>1. CASE SlidingRead(r)
    BY <1>0, <2>1, SlidingReadKeeps
  <2>2. CASE SlidingWrite(r)
    BY <1>0, <2>2, SlidingWriteKeeps
  <2>3. CASE ~SlidingRead(r) /\ ~SlidingWrite(r)
    <3>1. Aside("sliding") /\ now' = now /\ SlidingAside
      BY <1>0, <2>3, OthersAside
    <3> QED BY <1>0, <3>1, SlidingRests DEF SlidingAside
  <2> QED BY <2>1, <2>2, <2>3
<1>3. BucketInv' /\ BucketTold'
  <2>1. CASE BucketRead(r)
    <3>1. UNCHANGED <<tokens, told>>
      BY <2>1 DEF BucketRead, cache, history
    <3> QED BY <1>0, <2>1, <3>1, BucketReadKeeps DEF BucketTold
  <2>2. CASE BucketWrite(r)
    BY <1>0, <2>2, BucketWriteKeeps, BucketWriteTells
  <2>3. CASE ~BucketRead(r) /\ ~BucketWrite(r)
    <3>1. Aside("bucket") /\ now' = now /\ BucketAside
      BY <1>0, <2>3, OthersAside
    <3>2. BucketTold'
      BY <1>0, <3>1 DEF Aside, BucketAside, BucketTold
    <3> QED BY <1>0, <3>1, <3>2, BucketRests DEF BucketAside
  <2> QED BY <2>1, <2>2, <2>3
<1>4. FixedInv' /\ FixedTold'
  <2>1. CASE FixedAdd(r)
    BY <1>0, <2>1, FixedAddKeeps
  <2>2. CASE FixedIncr(r)
    BY <1>0, <2>2, FixedIncrKeeps
  <2>3. CASE FixedGone(r)
    BY <1>0, <2>3, FixedGoneKeeps
  <2>4. CASE FixedReadd(r)
    BY <1>0, <2>4, FixedReaddKeeps
  <2>5. CASE \/ Begin(r) \/ AskTime(r)
             \/ SlidingRead(r) \/ SlidingWrite(r) \/ BucketRead(r) \/ BucketWrite(r)
    <3>1. FixedAside /\ now' = now
      BY <1>0, <2>5, OthersFixedAside
    <3> QED BY <1>0, <3>1, FixedRests
  <2> QED BY <2>1, <2>2, <2>3, <2>4, <2>5 DEF LimitAction
<1>5. FixedOnce'
  BY <1>0, FixedOnceKeeps
<1> QED BY <1>1, <1>2, <1>3, <1>4, <1>5 DEF LimitsInv

\* A dropped entry voids the list's or the bucket's count, and forgets no admission of
\* the fixed window that a counter would have refused.
LEMMA EvictKeeps ==
  ASSUME LimitsInv, Evict, LimitTypes', OrderTypes'
  PROVE  LimitsInv'
<1>0. /\ LimitTypes /\ OrderTypes /\ FixedInv /\ FixedOnce /\ SlidingInv /\ BucketInv
      /\ FixedTold /\ BucketTold /\ now \in Nat /\ now <= now
  BY DEF LimitsInv, LimitTypes
<1>1. UNCHANGED <<now, dropAt, pc, clock, seen, behind, missed, erased, horizon, overtaken, rewound,
                  admitted, adds, told>>
  BY DEF Evict, steady, reads, history
<1>2. PICK k \in Range(rateLimits) \ faults.evicted :
        /\ faults' = [faults EXCEPT !.evicted = @ \cup {k}]
        /\ counter' = IF k = "fixed" THEN [b \in Buckets |-> Absent] ELSE counter
        /\ stamps' = IF k = "sliding" THEN <<>> ELSE stamps
        /\ tokens' = IF k = "bucket" THEN Never ELSE tokens
  BY DEF Evict
<1>3. faults'.evicted = faults.evicted \cup {k}
  BY <1>0, <1>2 DEF LimitTypes
<1>4. Aside("sliding") /\ Aside("bucket")
  BY <1>1, <1>3 DEF Aside
<1>5. SlidingInv'
  <2>1. stamps' = stamps \/ (stamps' = <<>> /\ "sliding" \in faults'.evicted)
    BY <1>2, <1>3
  <2> QED BY <1>0, <1>1, <1>4, <2>1, SlidingRests
<1>6. BucketInv'
  <2>1. tokens' \in {tokens, Never}
    BY <1>2
  <2> QED BY <1>0, <1>1, <1>4, <2>1, BucketRests
<1>7. BucketTold'
  BY <1>0, <1>1, <1>2 DEF BucketTold
<1>8. FixedInv' /\ FixedTold'
  <2>1. CASE counter' = counter
    <3>1. FixedAside
      BY <1>1, <2>1 DEF FixedAside
    <3> QED BY <1>0, <1>1, <3>1, FixedRests
  <2>2. CASE counter' = [b \in Buckets |-> Absent]
    <3>1. \A b \in Buckets : counter'[b].n = 0
      BY <2>2 DEF Absent
    <3>2. \A b : Passed(b)' = Passed(b)
      BY <1>1 DEF Passed
    <3>3. \A b \in Buckets : ~Counting(b)'
      BY <3>1 DEF Counting
    <3>4. ASSUME NEW b \in Buckets, NotStarted(b) PROVE NotStarted(b)'
      BY <1>1, <3>1, <3>2, <3>4 DEF NotStarted
    <3>5. ASSUME NEW b \in Buckets, StartedOnce(b) PROVE StartedOnce(b)'
      BY <1>1, <3>1, <3>2, <3>3, <3>5 DEF StartedOnce
    <3>6. FixedTold'
      BY <1>0, <1>1, <3>1 DEF FixedTold
    <3> QED BY <1>0, <1>1, <3>1, <3>4, <3>5, <3>6 DEF FixedInv
  <2> QED BY <1>2, <2>1, <2>2
<1>9. FixedOnce'
  <2>1. counter' = counter \/ "fixed" \in faults'.evicted
    BY <1>2, <1>3
  <2> QED BY <1>0, <1>1, <1>3, <2>1, FixedOnceRests
<1> QED BY <1>5, <1>6, <1>7, <1>8, <1>9 DEF LimitsInv

\* Every step of the limiters keeps them.
LEMMA LimitsInductive == LimitsInv /\ [LimitsNext]_limitVars => LimitsInv'
<1> SUFFICES ASSUME LimitsInv, [LimitsNext]_limitVars PROVE LimitsInv'
  OBVIOUS
<1>0. LimitTypes' /\ LimitTypes /\ OrderTypes /\ OrderTypes' /\ now \in Nat /\ now' \in Nat
  BY LimitTypesKept, OrderTypesKept DEF LimitsInv, LimitTypes
<1>1. CASE Tick \/ UNCHANGED limitVars
  <2>1. /\ UNCHANGED <<counter, dropAt, pc, clock, seen, behind, missed, erased, overtaken, rewound,
                       admitted, adds, told, faults>>
        /\ now <= now' /\ tokens' \in {tokens, Never}
        /\ \/ stamps' = stamps /\ horizon' = horizon
           \/ stamps' = <<>> /\ horizon' = now' /\ dropAt["sliding"] <= now'
    <3>1. CASE UNCHANGED limitVars
      BY <1>0, <3>1 DEF limitVars
    <3>2. CASE Tick
      <4>1. /\ UNCHANGED <<counter, dropAt, pc, clock, seen, behind, missed, erased, overtaken,
                           rewound, admitted, adds, told, faults>>
            /\ now' = now + 1 /\ tokens' \in {tokens, Never}
            /\ stamps' = IF now + 1 < dropAt["sliding"] THEN stamps ELSE <<>>
            /\ horizon' = IF stamps' = stamps THEN horizon ELSE now + 1
        BY <3>2 DEF Tick, reads
      <4>2. dropAt["sliding"] \in Nat
        BY <1>0 DEF OrderTypes
      <4> QED BY <1>0, <4>1, <4>2
    <3> QED BY <1>1, <3>1, <3>2
  <2>2. Aside("sliding") /\ Aside("bucket") /\ FixedAside
    BY <2>1 DEF Aside, FixedAside
  <2>3. SlidingInv'
    BY <1>0, <2>1, <2>2, SlidingRests DEF LimitsInv
  <2>4. BucketInv'
    BY <1>0, <2>1, <2>2, BucketRests DEF LimitsInv
  <2>5. FixedInv' /\ FixedTold'
    BY <1>0, <2>1, <2>2, FixedRests DEF LimitsInv
  <2>6. BucketTold'
    BY <2>1 DEF LimitsInv, BucketTold
  <2>7. FixedOnce'
    BY <1>0, <2>1, FixedOnceRests DEF LimitsInv
  <2> QED BY <1>0, <2>3, <2>4, <2>5, <2>6, <2>7 DEF LimitsInv
<1>2. CASE Evict
  BY <1>0, <1>2, EvictKeeps
<1>3. ASSUME NEW r \in Requests, LimitAction(r) PROVE LimitsInv'
  BY <1>3, ActionKeeps
<1> QED BY <1>1, <1>2, <1>3 DEF LimitsNext, LimitAction

\* The invariant is what the limiters promise.
LEMMA LimitsPromise == LimitsInv => LimitsKept
<1> SUFFICES ASSUME LimitsInv PROVE LimitsKept
  OBVIOUS
<1>0. LimitTypes /\ now \in Nat /\ now \in Ticks
  BY DEF LimitsInv, LimitTypes
<1>k. "fixed" \in Kinds /\ "sliding" \in Kinds /\ "bucket" \in Kinds
  BY DEF Kinds
<1>1. \A k \in Kinds : \A a \in admitted[k] : a.at \in Nat /\ a.at <= now
  BY DEF LimitsInv, LimitTypes, Admission
<1>2. FixedQuota
  <2>0. ASSUME "fixed" \notin faults.evicted PROVE adds[BucketOf(now)] <= 1
    <3> PICK d : d = BucketOf(now)
      OBVIOUS
    <3>1. d \in Buckets /\ d \in Nat /\ now < (d + 1) * Wide
      BY <1>0, InBuckets, BucketIs
    <3> DEFINE end == (d + 1) * Wide
    <3>2. end \in Int /\ now < end
      BY <3>1, Sizes
    <3>3. adds[d] <= 1 \/ end <= now
      BY <2>0, <3>1 DEF LimitsInv, FixedOnce
    <3> HIDE DEF end
    <3> QED BY <1>0, <3>2, <3>3
  <2> SUFFICES ASSUME NEW t \in Admissions("fixed"), adds[BucketOf(t)] <= 1
               PROVE  Admitted("fixed", BucketOf(t) * Window * Hz,
                               (BucketOf(t) + 1) * Window * Hz - 1) <= FixedMax
    BY <2>0 DEF FixedQuota
  <2> DEFINE b == BucketOf(t)
  <2>1. t \in Nat /\ t <= now
    BY <1>1, <1>k DEF Admissions
  <2>2. b \in Buckets /\ b \in Nat
    <3>1. t \in Ticks
      BY <1>0, <2>1, Sizes DEF Ticks
    <3> QED BY <2>1, <3>1, BucketIs DEF Buckets
  <2> HIDE DEF b
  <2>3. b * Window * Hz = b * Wide /\ (b + 1) * Window * Hz = (b + 1) * Wide
    BY <2>2, Sizes DEF Wide
  <2>4. {a \in admitted["fixed"] : b * Wide <= a.at /\ a.at <= (b + 1) * Wide - 1}
          = {a \in admitted["fixed"] : a.at \in InWindow(b)}
    <3>1. ASSUME NEW a \in admitted["fixed"]
          PROVE  b * Wide <= a.at /\ a.at <= (b + 1) * Wide - 1 <=> a.at \in InWindow(b)
      <4>1. a.at \in Nat
        BY <1>1, <1>k
      <4>2. b * Wide <= a.at /\ a.at <= (b + 1) * Wide - 1 <=> b = BucketOf(a.at)
        BY <2>2, <4>1, BucketIs
      <4> QED BY <4>1, <4>2 DEF InWindow
    <3> QED BY <3>1
  <2>5. Admitted("fixed", b * Window * Hz, (b + 1) * Window * Hz - 1) = Passed(b)
    BY <2>3, <2>4 DEF Admitted, Passed, Count
  <2>6. Passed(b) <= FixedMax
    <3>1. adds[b] = 0 \/ adds[b] = 1
      <4>1. adds[b] \in Nat /\ adds[b] <= 1
        BY <1>0, <2>2 DEF LimitTypes, b
      <4> QED BY <4>1
    <3> QED BY <2>2, <3>1, Sizes DEF LimitsInv, FixedInv, NotStarted, StartedOnce
  <2> QED BY <2>5, <2>6 DEF b
<1>3. SlidingQuota
  <2>1. Len(stamps) <= SlidingMax
    BY DEF LimitsInv, SlidingInv, SlidingShort
  <2>2. ASSUME "sliding" \notin faults.evicted, NEW t \in Admissions("sliding")
        PROVE  Admitted("sliding", t - Window * Hz + 1, t)
                 <= SlidingMax + erased["sliding"] + overtaken
    <3> DEFINE x == t - Wide
    <3>1. t \in Nat /\ Wide \in Nat /\ Wide = Window * Hz /\ x \in Int
      BY <1>1, <1>k, Sizes DEF Admissions, Wide
    <3>2. {a \in admitted["sliding"] : t - Wide + 1 <= a.at /\ a.at <= t}
            = {a \in admitted["sliding"] : a.at \in Trailing(x)}
      <4>1. ASSUME NEW a \in admitted["sliding"]
            PROVE  t - Wide + 1 <= a.at /\ a.at <= t <=> a.at \in Trailing(x)
        <5>1. a.at \in Nat
          BY <1>1, <1>k
        <5> QED BY <3>1, <5>1 DEF Trailing
      <4> QED BY <4>1
    <3>3. Slid(Trailing(x)) <= SlidingMax + Lost + overtaken
      BY <2>2, <3>1 DEF LimitsInv, SlidingInv, WindowHolds
    <3> QED BY <3>1, <3>2, <3>3 DEF Admitted, Slid, Count, Lost
  <2> QED BY <2>1, <2>2 DEF SlidingQuota
<1>4. BucketQuota
  <2> SUFFICES ASSUME "bucket" \notin faults.evicted,
                      NEW s \in Admissions("bucket"), NEW t \in Admissions("bucket"), s <= t
               PROVE  Admitted("bucket", s, t) * Cost
                        <= Full + (t - s) + erased["bucket"] * Cost + rewound
    BY DEF BucketQuota
  <2>1. s \in Nat /\ t \in Nat
    BY <1>1, <1>k DEF Admissions
  <2>2. {a \in admitted["bucket"] : s <= a.at /\ a.at <= t}
          = {a \in admitted["bucket"] : a.at \in Span(s, t)}
    BY <1>1, <1>k DEF Span
  <2>3. Drawn(Span(s, t)) * Cost <= Full + (t - s) + Wiped * Cost + rewound
    BY <2>1 DEF LimitsInv, BucketInv, BurstHolds
  <2> QED BY <2>2, <2>3 DEF Admitted, Drawn, Count, Wiped
<1>5. RetryAfterSuffices
  <2>1. ASSUME told["fixed"] # Never, now >= told["fixed"]
        PROVE  ~Counting(BucketOf(now)) \/ Within(counter[BucketOf(now)].n + 1)
    <3> DEFINE b == BucketOf(now)
    <3>1. told["fixed"] \in Int
      BY <2>1 DEF LimitsInv, FixedTold
    <3>2. PICK d \in Buckets : /\ told["fixed"] >= (d + 1) * Wide
                               /\ \A c \in Buckets : c > d => counter[c].n = 0
      BY <2>1 DEF LimitsInv, FixedTold
    <3>3. b \in Nat /\ b \in Buckets /\ Wide \in Nat \ {0} /\ d \in Nat /\ now < (b + 1) * Wide
      BY <1>0, InBuckets, BucketIs DEF Buckets, Ticks
    <3> HIDE DEF b
    <3>4. (d + 1) * Wide \in Int /\ (b + 1) * Wide \in Int
      BY <3>3
    <3>5. (d + 1) * Wide < (b + 1) * Wide
      BY <1>0, <2>1, <3>1, <3>2, <3>3, <3>4
    <3>6. d + 1 < b + 1
      BY <3>3, <3>5, TimesLess
    <3>7. counter[b].n = 0
      BY <3>2, <3>3, <3>6
    <3> QED BY <3>7 DEF Counting, b
  <2>2. ASSUME told["bucket"] # Never, now >= told["bucket"]
        PROVE  Refilled(tokens, now) >= Cost
    <3>1. Refilled(tokens, now) \in Nat /\ Full \in Nat /\ Cost \in Nat /\ Cost <= Full
      BY <1>0, RefilledIs, Sizes
    <3>2. CASE tokens = Never
      BY <1>0, <3>1, <3>2, RefilledIs
    <3>3. CASE tokens # Never
      <4>1. told["bucket"] \in Int /\ tokens.level + (told["bucket"] - tokens.last) >= Cost
        BY <2>2, <3>3 DEF LimitsInv, BucketTold
      <4>2. /\ tokens.level \in Nat /\ tokens.last \in Nat
            /\ Refilled(tokens, now) =
                 LET gain == IF now >= tokens.last THEN now - tokens.last ELSE 0
                 IN IF Full <= tokens.level + gain THEN Full ELSE tokens.level + gain
        BY <1>0, <3>3, RefilledIs
      <4> DEFINE l == tokens.level
                 u == tokens.last
                 k == told["bucket"]
                 v == Refilled(tokens, now)
      <4>3. /\ k \in Int /\ l + (k - u) >= Cost /\ now >= k
            /\ l \in Nat /\ u \in Nat
            /\ v = LET gain == IF now >= u THEN now - u ELSE 0
                   IN IF Full <= l + gain THEN Full ELSE l + gain
        BY <2>2, <4>1, <4>2
      <4> HIDE DEF l, u, k, v
      <4>4. v >= Cost
        BY <1>0, <3>1, <4>3
      <4> QED BY <4>4 DEF v
    <3> QED BY <3>2, <3>3
  <2> QED BY <2>1, <2>2 DEF RetryAfterSuffices
<1> QED BY <1>2, <1>3, <1>4, <1>5 DEF LimitsKept

\* consume_rate_limits and the three limiters: however the requests of a caller
\* interleave, time.time() and every access to the cache on its own, the quotas hold but
\* for what concurrent writes erase, what is decided on a list a later call had pruned,
\* what refills twice because the bucket's time was set back, and what the cache drops by
\* itself; and who waits the announced retry_after gets in.
THEOREM LimitsAreKept == LimitsSpec => []LimitsKept
<1>1. LimitsSpec => []LimitsInv
  BY LimitsBegin, LimitsInductive, PTL DEF LimitsSpec
<1> QED BY <1>1, LimitsPromise, PTL
=============================================================================
