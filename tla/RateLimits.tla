----------------------------- MODULE RateLimits -----------------------------
(* The three rate limiters of auth/rate_limits and the loop that consumes a  *)
(* binding's limiters in order (consume_rate_limits).  All state is in one   *)
(* Django cache, read and written by concurrent requests of one caller key.  *)
(* Time is in ticks, Hz to the second.  time.time() and each access to the   *)
(* cache after it are steps of their own.                                    *)
EXTENDS Integers, Selections

CONSTANTS
  Requests,    \* requests of one key that may be under way at once
  Bindings,    \* the rate_limits a tool may have: sequences of Kinds
  FixedMax,    \* max_calls of the fixed window
  SlidingMax,  \* max_calls of the sliding window
  Window,      \* per_seconds of both
  Capacity,    \* capacity of the token bucket
  Cost,        \* ticks the bucket takes to refill one token
  Hz,          \* ticks to the second
  MinTtl,      \* seconds a bucket's entry is kept at least
  Never,       \* no entry, no instant
  MaxTime,     \* bound: ticks
  MaxCalls,    \* bound: requests started
  MaxEvict     \* bound: entries the cache drops by itself

Kinds == {"fixed", "sliding", "bucket"}

ASSUME RateLimitsAssumption ==
  /\ Bindings \subseteq Seq(Kinds) \ {<<>>}
  /\ {FixedMax, SlidingMax, Window, Capacity, Cost, Hz, MinTtl} \subseteq Nat \ {0}
  /\ {MaxTime, MaxCalls, MaxEvict} \subseteq Nat
  /\ Never \notin Int /\ Never \notin [level : Nat, last : Nat]

Ticks == 0..MaxTime
BucketOf(t) == (t \div Hz) \div Window
Buckets == {BucketOf(t) : t \in Ticks}

VARIABLES
  rateLimits,  \* those of the tool being called
  now,
  counter,     \* the fixed window's counter of each bucket: its count and timeout
  stamps,      \* the sliding window's list
  tokens,      \* the bucket: units left (a tick refills one) and when last counted
  dropAt,      \* when the timeouts of the last two end, or ended
  pc,          \* where each request stands
  rest,        \* the limiters it has still to pass
  clock,       \* the time its current limiter took
  seen,        \* what it read and will write back
  behind,      \* history: how far its time was behind what it read
  missed,      \* history: admissions stored since it read
  erased,      \* history: admissions overwritten by such a write, per kind
  horizon,     \* history: the latest time by which the list was pruned
  overtaken,   \* history: admissions decided on a list pruned by a later time
  rewound,     \* history: ticks by which the bucket's time was set back
  admitted,    \* history: the admissions of each kind, by time and turn
  adds,        \* history: how often each counter was started
  told,        \* history: when the last denial of a kind said to come back
  faults       \* requests started, entries dropped

limitVars == <<rateLimits, now, counter, stamps, tokens, dropAt, pc, rest, clock, seen, behind,
               missed, erased, horizon, overtaken, rewound, admitted, adds, told, faults>>
cache == <<counter, stamps, tokens, dropAt>>
reads == <<clock, seen, behind, missed>>
history == <<erased, horizon, overtaken, rewound, admitted, adds, told>>
steady == <<rateLimits, now>>

Absent == [n |-> 0, dropAt |-> 0]
Full == Capacity * Cost
Ttl == Max({(2 * Full) \div Hz, MinTtl}) * Hz   \* of the bucket's entry, in ticks

LimitsInit ==
  /\ rateLimits \in Bindings /\ now = 0
  /\ counter = [b \in Buckets |-> Absent] /\ stamps = <<>> /\ tokens = Never
  /\ dropAt = [k \in {"sliding", "bucket"} |-> 0]
  /\ pc = [r \in Requests |-> "idle"] /\ rest = [r \in Requests |-> <<>>]
  /\ clock = [r \in Requests |-> 0] /\ seen = [r \in Requests |-> Never]
  /\ behind = [r \in Requests |-> 0]
  /\ missed = [r \in Requests |-> 0] /\ erased = [k \in Kinds |-> 0]
  /\ horizon = 0 /\ overtaken = 0 /\ rewound = 0
  /\ admitted = [k \in Kinds |-> {}]
  /\ adds = [b \in Buckets |-> 0] /\ told = [k \in Kinds |-> Never]
  /\ faults = [calls |-> 0, evicted |-> {}]

-----------------------------------------------------------------------------
(* consume_rate_limits.                                                    *)

Begin(r) ==
  /\ pc[r] = "idle" /\ faults.calls < MaxCalls
  /\ rest' = [rest EXCEPT ![r] = rateLimits]
  /\ pc' = [pc EXCEPT ![r] = "next"]
  /\ faults' = [faults EXCEPT !.calls = @ + 1]
  /\ UNCHANGED <<steady, cache, reads, history>>

\* Every consume begins with time.time().
AskTime(r) ==
  /\ pc[r] = "next"
  /\ pc' = [pc EXCEPT ![r] = "timed"] /\ clock' = [clock EXCEPT ![r] = now]
  /\ UNCHANGED <<steady, cache, rest, seen, behind, missed, history, faults>>

Turn(r, kind) == pc[r] = "timed" /\ Head(rest[r]) = kind

\* consume answered None: on to the next limiter, or to the tool.  A request that
\* read the entry before has missed this admission.
Admit(r, kind, t) ==
  /\ rest' = [rest EXCEPT ![r] = Tail(@)]
  /\ pc' = [pc EXCEPT ![r] = IF Len(rest[r]) = 1 THEN "idle" ELSE "next"]
  /\ clock' = [clock EXCEPT ![r] = 0] /\ seen' = [seen EXCEPT ![r] = Never]
  /\ behind' = [behind EXCEPT ![r] = 0]
  /\ missed' = [q \in Requests |-> IF q = r THEN 0
                                   ELSE IF pc[q] = kind THEN missed[q] + 1 ELSE missed[q]]
  /\ admitted' = [admitted EXCEPT ![kind] = @ \cup {[at |-> t, turn |-> Cardinality(@) + 1]}]
  /\ told' = [told EXCEPT ![kind] = Never]

\* The first denial ends the loop; the limiters before it stay charged.
Deny(r, kind, comeBack) ==
  /\ rest' = [rest EXCEPT ![r] = <<>>]
  /\ pc' = [pc EXCEPT ![r] = "idle"]
  /\ clock' = [clock EXCEPT ![r] = 0] /\ seen' = [seen EXCEPT ![r] = Never]
  /\ behind' = [behind EXCEPT ![r] = 0]
  /\ missed' = [missed EXCEPT ![r] = 0]
  /\ told' = [told EXCEPT ![kind] = comeBack]
  /\ UNCHANGED admitted

Erase(r, kind) == erased' = [erased EXCEPT ![kind] = @ + missed[r]]

-----------------------------------------------------------------------------
(* FixedWindowRateLimit: add, then incr.  Both are atomic in the cache.    *)

Counting(b) == counter[b].n > 0 /\ now < counter[b].dropAt

Start(b) ==
  /\ counter' = [counter EXCEPT ![b] = [n |-> 1, dropAt |-> now + Window * Hz]]
  /\ adds' = [adds EXCEPT ![b] = @ + 1]

FixedAdd(r) ==
  LET b == BucketOf(clock[r])
  IN /\ Turn(r, "fixed")
     /\ IF Counting(b)
        THEN /\ pc' = [pc EXCEPT ![r] = "incr"]
             /\ UNCHANGED <<counter, rest, reads, admitted, adds, told>>
        ELSE Start(b) /\ Admit(r, "fixed", clock[r])
     /\ UNCHANGED <<steady, stamps, tokens, dropAt, faults, erased, horizon, overtaken, rewound>>

\* Mutant: the call that fills the window is counted one too late.
WithinLoose(n) == n <= FixedMax + 1

Within(n) == n <= FixedMax

\* A denial counted after its window closed says nothing of the present.
FixedIncr(r) ==
  LET b == BucketOf(clock[r])
      retry == Max({(b + 1) * Window - clock[r] \div Hz, 1})
  IN /\ pc[r] = "incr" /\ Counting(b)
     /\ counter' = [counter EXCEPT ![b].n = @ + 1]
     /\ \/ Within(counter[b].n + 1) /\ Admit(r, "fixed", clock[r])
        \/ /\ ~Within(counter[b].n + 1)
           /\ Deny(r, "fixed", IF BucketOf(now) = b THEN clock[r] + retry * Hz ELSE Never)
     /\ UNCHANGED <<steady, stamps, tokens, dropAt, faults, erased, horizon, overtaken, rewound, adds>>

\* The counter went between add and incr: incr raises ValueError.
FixedGone(r) ==
  /\ pc[r] = "incr" /\ ~Counting(BucketOf(clock[r]))
  /\ pc' = [pc EXCEPT ![r] = "readd"]
  /\ UNCHANGED <<steady, cache, rest, reads, history, faults>>

\* The second add may lose to another request's; the call is admitted all the same.
FixedReadd(r) ==
  /\ pc[r] = "readd"
  /\ IF Counting(BucketOf(clock[r])) THEN UNCHANGED <<counter, adds>>
                                     ELSE Start(BucketOf(clock[r]))
  /\ Admit(r, "fixed", clock[r])
  /\ UNCHANGED <<steady, stamps, tokens, dropAt, faults, erased, horizon, overtaken, rewound>>

-----------------------------------------------------------------------------
(* SlidingWindowRateLimit: get, prune, set.                                *)

\* Mutant: a call leaves the window a tick early.
PrunedEarly(s, t) == Selected(s, {ts \in Ticks : ts > t + 1 - Window * Hz})

Pruned(s, t) == Selected(s, {ts \in Ticks : ts > t - Window * Hz})

\* Mutant: the list may grow one longer than the quota.
FilledLate(s) == Len(s) > SlidingMax

Filled(s) == Len(s) >= SlidingMax

SlidingRead(r) ==
  /\ Turn(r, "sliding")
  /\ pc' = [pc EXCEPT ![r] = "sliding"]
  /\ seen' = [seen EXCEPT ![r] = Pruned(stamps, clock[r])]
  /\ behind' = [behind EXCEPT ![r] = Max({horizon - clock[r], 0})]
  /\ UNCHANGED <<steady, cache, rest, clock, missed, history, faults>>

\* Either way the list that was read is written back, over what others stored since.
\* int() cuts the fraction of the second off retry_after.
SlidingWrite(r) ==
  /\ pc[r] = "sliding"
  /\ \/ /\ Filled(seen[r])
        /\ stamps' = seen[r]
        /\ LET retry == Max({(seen[r][1] + Window * Hz - clock[r]) \div Hz, 1})
           IN Deny(r, "sliding", clock[r] + retry * Hz)
        /\ UNCHANGED overtaken
     \/ /\ ~Filled(seen[r])
        /\ stamps' = Append(seen[r], clock[r])
        /\ Admit(r, "sliding", clock[r])
        /\ overtaken' = IF behind[r] > 0 THEN overtaken + 1 ELSE overtaken
  /\ dropAt' = [dropAt EXCEPT !["sliding"] = now + Window * Hz]
  /\ horizon' = Max({horizon, clock[r]})
  /\ Erase(r, "sliding")
  /\ UNCHANGED <<steady, counter, tokens, rewound, adds, faults>>

-----------------------------------------------------------------------------
(* TokenBucketRateLimit: get, refill, set.                                 *)

\* Mutant: rounds down.
WholeSecondsCut(d) == d \div Hz

WholeSeconds(d) == (d + Hz - 1) \div Hz   \* math.ceil

\* Mutant: the elapsed time is taken in whole seconds, rounded up.
RefilledRounded(b, t) ==
  IF b = Never THEN Full
  ELSE Min({Full, b.level + WholeSeconds(Max({t - b.last, 0})) * Hz})

Refilled(b, t) == IF b = Never THEN Full ELSE Min({Full, b.level + Max({t - b.last, 0})})

\* The time as of which the bucket is counted; a dropped entry had refilled when it went.
AsOf == IF tokens = Never THEN dropAt["bucket"] ELSE tokens.last

BucketRead(r) ==
  /\ Turn(r, "bucket")
  /\ pc' = [pc EXCEPT ![r] = "bucket"]
  /\ seen' = [seen EXCEPT ![r] = Refilled(tokens, clock[r])]
  /\ behind' = [behind EXCEPT ![r] = Max({AsOf - clock[r], 0})]
  /\ UNCHANGED <<steady, cache, rest, clock, missed, history, faults>>

BucketWrite(r) ==
  /\ pc[r] = "bucket"
  /\ \/ /\ seen[r] >= Cost
        /\ tokens' = [level |-> seen[r] - Cost, last |-> clock[r]]
        /\ Admit(r, "bucket", clock[r])
     \/ /\ seen[r] < Cost
        /\ tokens' = [level |-> seen[r], last |-> clock[r]]
        /\ Deny(r, "bucket", clock[r] + Max({WholeSeconds(Cost - seen[r]), 1}) * Hz)
  /\ dropAt' = [dropAt EXCEPT !["bucket"] = now + Ttl]
  /\ rewound' = rewound + behind[r]
  /\ Erase(r, "bucket")
  /\ UNCHANGED <<steady, counter, stamps, horizon, overtaken, adds, faults>>

-----------------------------------------------------------------------------
\* Time passes, and with it the timeouts of the list and the bucket.
Tick ==
  /\ now < MaxTime /\ now' = now + 1
  /\ stamps' = IF now + 1 < dropAt["sliding"] THEN stamps ELSE <<>>
  /\ horizon' = IF stamps' = stamps THEN horizon ELSE now + 1
  /\ tokens' = IF now + 1 < dropAt["bucket"] THEN tokens ELSE Never
  /\ UNCHANGED <<rateLimits, counter, dropAt, pc, rest, reads, erased, overtaken, rewound,
                 admitted, adds, told, faults>>

\* The cache drops an entry before its timeout.
Evict ==
  /\ Cardinality(faults.evicted) < MaxEvict
  /\ \E k \in Range(rateLimits) \ faults.evicted :
       /\ faults' = [faults EXCEPT !.evicted = @ \cup {k}]
       /\ counter' = IF k = "fixed" THEN [b \in Buckets |-> Absent] ELSE counter
       /\ stamps' = IF k = "sliding" THEN <<>> ELSE stamps
       /\ tokens' = IF k = "bucket" THEN Never ELSE tokens
  /\ UNCHANGED <<steady, dropAt, pc, rest, reads, history>>

LimitsNext ==
  \/ Tick \/ Evict
  \/ \E r \in Requests :
       \/ Begin(r) \/ AskTime(r)
       \/ FixedAdd(r) \/ FixedIncr(r) \/ FixedGone(r) \/ FixedReadd(r)
       \/ SlidingRead(r) \/ SlidingWrite(r) \/ BucketRead(r) \/ BucketWrite(r)

LimitsSpec == LimitsInit /\ [][LimitsNext]_limitVars

-----------------------------------------------------------------------------
Admissions(kind) == {a.at : a \in admitted[kind]}

Admitted(kind, from, to) == Cardinality({a \in admitted[kind] : from <= a.at /\ a.at <= to})

\* The fixed window admits no more than max_calls of a window, however its requests
\* interleave and however late they come, as long as its counter was started once; and
\* while its window is open only the cache's dropping it can start it again.
FixedQuota ==
  /\ \A b \in {BucketOf(t) : t \in Admissions("fixed")} : adds[b] <= 1 =>
       Admitted("fixed", b * Window * Hz, (b + 1) * Window * Hz - 1) <= FixedMax
  /\ "fixed" \notin faults.evicted => adds[BucketOf(now)] <= 1

\* Any trailing window of the sliding limiter holds at most max_calls admissions, and
\* beyond them ("admit a few extra requests under contention") only as many as were
\* erased by concurrent writes or decided on a list that a later call, or its timeout,
\* had pruned of stamps the call still counts.  The list never outgrows max_calls.
SlidingQuota ==
  /\ Len(stamps) <= SlidingMax
  /\ "sliding" \notin faults.evicted =>
       \A t \in Admissions("sliding") :
         Admitted("sliding", t - Window * Hz + 1, t) <= SlidingMax + erased["sliding"] + overtaken

\* Between any two instants the bucket admits what it held at most and what has
\* dripped in since, and beyond it ("a few extra tokens can slip through under
\* contention") only what concurrent writes erased and what drips in twice because
\* a call wrote an earlier time than it had read.
BucketQuota ==
  "bucket" \notin faults.evicted =>
    \A s, t \in Admissions("bucket") : s <= t =>
      Admitted("bucket", s, t) * Cost <= Full + (t - s) + erased["bucket"] * Cost + rewound

\* A caller that stays away for the announced retry_after is admitted, if nobody else
\* was meanwhile.  (The sliding window cuts its seconds short and does not promise it.)
RetryAfterSuffices ==
  /\ told["fixed"] # Never /\ now >= told["fixed"] =>
       LET b == BucketOf(now) IN ~Counting(b) \/ Within(counter[b].n + 1)
  /\ told["bucket"] # Never /\ now >= told["bucket"] => Refilled(tokens, now) >= Cost

\* What the limiters promise: their quotas to the server, their retry_after to the caller.
LimitsKept == FixedQuota /\ SlidingQuota /\ BucketQuota /\ RetryAfterSuffices

=============================================================================
