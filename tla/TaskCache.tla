----------------------------- MODULE TaskCache -----------------------------
(***************************************************************************)
(* How long DjangoCacheTaskStore keeps one task.  The cache entry carries  *)
(* the task's absolute expiry next to the record; save reads the expiry    *)
(* back and sets the entry again for the lifetime that remains.  Each      *)
(* reading of the clock and each access of the cache is a step.  Time is   *)
(* counted in ticks of a fraction of a second.                             *)
(***************************************************************************)
EXTENDS Integers

CONSTANTS
  Writers,      \* processes that write the task: its creator, its worker and client requests
  Ttls,         \* the ttlMs a create may be given, in ticks
  NoExpiry,     \* no expiry: ttlMs is None, or no envelope was found
  Floor,        \* the one-second floor of a cache timeout, in ticks
  Fallback,     \* _NO_TTL_FALLBACK_SECONDS, in ticks
  MaxCacheTime  \* bound: the last tick

ASSUME TaskCacheAssumption ==
  /\ Ttls \subseteq Nat /\ NoExpiry \notin Int
  /\ Floor \in Nat \ {0} /\ Fallback \in Nat \ {0} /\ Floor <= Fallback /\ MaxCacheTime \in Nat

VARIABLES
  cacheTime,  \* the clock of the cache
  entry,      \* the cache entry: the expiry in its envelope, and when the cache drops it
  stamp,      \* history: the expiry create stamped
  saver,      \* where each writer stands
  raw,        \* the expiry each writer will write
  took,       \* the instant from which its timeout is computed
  wrote,      \* history: the latest write, when its timeout was computed and when it was set
  orphaned    \* history: some save found no entry

taskCacheVars == <<cacheTime, entry, stamp, saver, raw, took, wrote, orphaned>>

Max2(a, b) == IF a < b THEN b ELSE a

Created == wrote.at # -1
Alive == cacheTime < entry.dropAt

TaskCacheInit ==
  /\ cacheTime = 0
  /\ entry = [expiresAt |-> NoExpiry, dropAt |-> 0]
  /\ stamp = -1
  /\ saver = [p \in Writers |-> "idle"]
  /\ raw = [p \in Writers |-> NoExpiry] /\ took = [p \in Writers |-> 0]
  /\ wrote = [took |-> -1, at |-> -1] /\ orphaned = FALSE

\* create: the expiry is stamped; _write follows.
Create(p) ==
  /\ stamp = -1 /\ saver[p] = "idle"
  /\ \E ttl \in Ttls \cup {NoExpiry} :
       LET expiresAt == IF ttl = NoExpiry THEN NoExpiry ELSE cacheTime + ttl
       IN stamp' = expiresAt /\ raw' = [raw EXCEPT ![p] = expiresAt]
  /\ saver' = [saver EXCEPT ![p] = "writes"]
  /\ UNCHANGED <<cacheTime, entry, took, wrote, orphaned>>

\* get finds the record; the writer will save a record computed from it.
Get(p) ==
  /\ saver[p] = "idle" /\ Alive
  /\ saver' = [saver EXCEPT ![p] = "holds"]
  /\ UNCHANGED <<cacheTime, entry, stamp, raw, took, wrote, orphaned>>

\* Mutant: save stamps a new expiry.
SaveReadRestarting(p) ==
  /\ saver[p] = "holds"
  /\ raw' = [raw EXCEPT ![p] = cacheTime + Floor]
  /\ saver' = [saver EXCEPT ![p] = "writes"] /\ orphaned' = (orphaned \/ ~Alive)
  /\ UNCHANGED <<cacheTime, entry, stamp, took, wrote>>

\* Mutant: save does not look the expiry up.
SaveReadForgetting(p) ==
  /\ saver[p] = "holds"
  /\ raw' = [raw EXCEPT ![p] = NoExpiry]
  /\ saver' = [saver EXCEPT ![p] = "writes"] /\ orphaned' = (orphaned \/ ~Alive)
  /\ UNCHANGED <<cacheTime, entry, stamp, took, wrote>>

\* save looks up the expiry of the entry, if there still is one; _write follows.
SaveRead(p) ==
  /\ saver[p] = "holds"
  /\ raw' = [raw EXCEPT ![p] = IF Alive THEN entry.expiresAt ELSE NoExpiry]
  /\ saver' = [saver EXCEPT ![p] = "writes"] /\ orphaned' = (orphaned \/ ~Alive)
  /\ UNCHANGED <<cacheTime, entry, stamp, took, wrote>>

\* _write asks for the time.
WriteTime(p) ==
  /\ saver[p] = "writes"
  /\ took' = [took EXCEPT ![p] = cacheTime]
  /\ saver' = [saver EXCEPT ![p] = "sets"]
  /\ UNCHANGED <<cacheTime, entry, stamp, raw, wrote, orphaned>>

\* Mutant: the timeout is computed from the whole lifetime less one floor.
TimeoutShort(expiresAt, t) ==
  IF expiresAt = NoExpiry THEN Fallback ELSE Max2(Floor, expiresAt - t - Floor)

\* Mutant: the floor is granted on top of what remains.
TimeoutLong(expiresAt, t) ==
  IF expiresAt = NoExpiry THEN Fallback ELSE Floor + Max2(0, expiresAt - t)

\* The timeout is what remains, at least the floor.
Timeout(expiresAt, t) ==
  IF expiresAt = NoExpiry THEN Fallback ELSE Max2(Floor, expiresAt - t)

\* _write sets the entry.
WriteSet(p) ==
  /\ saver[p] = "sets"
  /\ entry' = [expiresAt |-> raw[p], dropAt |-> cacheTime + Timeout(raw[p], took[p])]
  /\ saver' = [saver EXCEPT ![p] = "idle"]
  /\ raw' = [raw EXCEPT ![p] = NoExpiry] /\ took' = [took EXCEPT ![p] = 0]
  /\ wrote' = [took |-> took[p], at |-> cacheTime]
  /\ UNCHANGED <<cacheTime, stamp, orphaned>>

TaskCacheTick ==
  /\ cacheTime < MaxCacheTime
  /\ cacheTime' = cacheTime + 1
  /\ UNCHANGED <<entry, stamp, saver, raw, took, wrote, orphaned>>

TaskCacheNext ==
  \/ TaskCacheTick
  \/ \E p \in Writers : Create(p) \/ Get(p) \/ SaveRead(p) \/ WriteTime(p) \/ WriteSet(p)

TaskCacheSpec == TaskCacheInit /\ [][TaskCacheNext]_taskCacheVars

-----------------------------------------------------------------------------
\* No shorter: once written, the task stays readable for the lifetime its create
\* promised, whichever writers save it in between and however late they write.
KeptUntilExpiry == Created /\ stamp \in Nat /\ cacheTime < stamp => Alive

\* The expiry is written once: what the envelope and every save in flight carry is the
\* instant create stamped, unless a save came when the entry was gone.
Stamped(e) == e = stamp \/ (orphaned /\ e = NoExpiry)
StampNeverMoves ==
  /\ Created => Stamped(entry.expiresAt)
  /\ \A p \in Writers : saver[p] \in {"writes", "sets"} => Stamped(raw[p])

\* No longer: past its expiry the task lives for as long as its latest write took to set
\* the entry, or for one floor after that write; and for the fallback where there is no
\* expiry, either because create was given none or because a save had found no entry and
\* wrote the task back without one.
NoLongerThanWritten ==
  Alive => \/ stamp \in Nat /\ cacheTime < stamp + (wrote.at - wrote.took)
           \/ cacheTime < wrote.at + Floor
           \/ (stamp = NoExpiry \/ orphaned) /\ cacheTime < wrote.at + Fallback

\* A cached task is kept until its expiry, its expiry never moves, and it outlives it
\* only by what its own writes give it.
LifetimeKept == KeptUntilExpiry /\ StampNeverMoves /\ NoLongerThanWritten

=============================================================================
