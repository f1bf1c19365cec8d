------------------------------ MODULE Endpoint ------------------------------
(***************************************************************************)
(* The MCP endpoint: what the POST, GET and DELETE handlers of the two     *)
(* viewsets refuse and in which order, the sessions of the handshake era   *)
(* in their store, and the cap on session streams.                         *)
(*                                                                         *)
(* Handlers run side by side, on the event loop or in threads; every       *)
(* access to the session store, and to the broker's registry of streams,   *)
(* is a step of its own.  Time is in ticks, Hz to the second.              *)
(***************************************************************************)
EXTENDS Integers, FiniteSets, Checks

CONSTANTS
  Requests,     \* slots for requests being served
  Principals,   \* who may authenticate
  Nobody,       \* a caller whose credentials the backend refuses
  Sessions,     \* ids the store may mint
  OldSessions,  \* those stored by a version that wrote the bare principal
  OldOwner,     \* and whose those are
  NoSession,    \* no MCP-Session-Id header
  Forged,       \* an id no store minted
  NoStream,     \* a session nobody listens on
  Messages,     \* the requests clients send
  Configs,      \* the servers considered
  Ttl,          \* SESSION_TTL_SECONDS, in ticks
  MaxAge,       \* SESSION_MAX_AGE_SECONDS, in ticks
  Hz,           \* ticks of a second
  Cap,          \* max_concurrent_sse_streams
  MaxTime       \* bound: the last tick

Versions == {"none", "legacy", "modern", "unknown"}
Bodies == {"oversized", "garbage", "malformed", "response", "notification", "initialize",
           "discover", "listen", "unknown", "call"}

\* A request: the method, whether its Origin is allowed, its version header, its
\* session header, who it authenticates as, its body, the version _meta names, and
\* whether Mcp-Method and Mcp-Name repeat the body.
Message ==
  [verb : {"POST", "GET", "DELETE"}, origin : BOOLEAN, version : Versions,
   session : Sessions \cup {NoSession, Forged}, caller : Principals \cup {Nobody},
   body : Bodies, meta : Versions, headers : BOOLEAN]

\* A server: on the async transport or not; with a session store in the cache or in
\* memory; with sessions, legacy versions, a mandatory version header and a push
\* broker, or without.
Config == [async : BOOLEAN, cached : BOOLEAN, sessions : BOOLEAN, legacy : BOOLEAN,
           strict : BOOLEAN, push : BOOLEAN]

ASSUME EndpointAssumption ==
  /\ IsFiniteSet(Requests) /\ IsFiniteSet(Sessions)
  /\ Nobody \notin Principals /\ OldOwner \in Principals /\ OldSessions \subseteq Sessions
  /\ NoSession \notin Sessions /\ Forged \notin Sessions /\ NoStream \notin Requests
  /\ Messages \subseteq Message /\ Configs \subseteq Config
  /\ Ttl \in Nat /\ MaxAge \in Nat \ {0} /\ Hz \in Nat \ {0} /\ Hz <= Ttl
  /\ Cap \in Nat /\ MaxTime \in Nat

VARIABLES
  config,   \* the server
  now,      \* the clock
  entry,    \* the session store
  live,     \* the broker: the stream each session's pushes go to
  req,      \* the requests
  birth,    \* history: whose each session is, and since when
  used,     \* history: when each session's owner was last resolved
  gone,     \* history: the sessions a DELETE destroyed
  revived   \* history: those a late refresh stored again

vars == <<config, now, entry, live, req, birth, used, gone, revived>>
history == <<birth, used, gone, revived>>

Pass == 0         \* the status of a request nothing refused yet
Unstamped == -1   \* the age of an entry that is a bare principal
Absent == [owner |-> Nobody, created |-> 0, until |-> 0]
NoMessage == [verb |-> "none", session |-> NoSession]
Idle == [pc |-> "idle", m |-> NoMessage, seen |-> Absent, left |-> 0,
         at |-> 0, rivals |-> 0]

Init ==
  /\ config \in Configs
  /\ now = 0
  /\ entry = [s \in Sessions |->
                IF s \in OldSessions /\ config.cached
                THEN [owner |-> OldOwner, created |-> Unstamped, until |-> Ttl] ELSE Absent]
  /\ birth = [s \in Sessions |-> [owner |-> entry[s].owner, at |-> entry[s].created]]
  /\ live = [s \in Sessions |-> NoStream]
  /\ req = [r \in Requests |-> Idle]
  /\ used = [s \in Sessions |-> 0]
  /\ gone = {}
  /\ revived = {}

-----------------------------------------------------------------------------
(* What is refused before anything is stored or looked up.                 *)

\* negotiate_protocol_version: the version a handshake-era request is served under.
Negotiated(version, sessionless) ==
  Verdict(<< <<version = "legacy" /\ config.legacy, "legacy">>,
             <<version = "unknown" \/ version = "legacy", "none">>,
             <<sessionless /\ ~config.legacy, "modern">>,
             <<sessionless, "legacy">>,
             <<version = "none" /\ ~config.strict /\ config.legacy, "legacy">> >>, "none")

Sessionless(m) == m.body \in {"initialize", "discover"}

\* RequestMetadata.from_params: a body naming any version belongs to the modern era.
Modern(m) == m.verb = "POST" /\ m.meta # "none" /\ m.body # "response"

GateApplies(m) == config.sessions /\ ~Sessionless(m)

\* parse_message and what precedes it.
BodyChecks(m) ==
  << <<~m.origin, 403>>, <<m.body = "oversized", 413>>,
     <<m.body = "garbage", 400>>, <<m.body = "malformed", 400>> >>

\* handle_jsonrpc, up to the session gate.
LegacyChecks(m) ==
  << <<Negotiated(m.version, Sessionless(m)) = "none", 400>>,
     <<m.caller = Nobody, 401>>,
     <<GateApplies(m) /\ m.session = NoSession, 400>> >>

\* Mutant: the name and method headers are compared for handshake-era bodies only.
ModernChecksUnmatched(m) == << <<m.caller = Nobody, 401>> >>

\* _handle_modern, validate_modern_request: a notification's headers are not compared.
ModernChecks(m) ==
  << <<m.body # "notification" /\ m.meta # "modern", 400>>,
     <<m.body # "notification" /\ m.version # m.meta, 400>>,
     <<m.body # "notification" /\ ~m.headers, 400>>,
     <<m.caller = Nobody, 401>> >>

PostChecks(m) == BodyChecks(m) \o IF Modern(m) THEN ModernChecks(m) ELSE LegacyChecks(m)

\* The sync viewset: the same checks, in the same order.
SyncBodyChecks(m) == BodyChecks(m)
SyncLegacyChecks(m) == LegacyChecks(m)
SyncModernChecks(m) == ModernChecks(m)

SyncPostChecks(m) ==
  SyncBodyChecks(m) \o IF Modern(m) THEN SyncModernChecks(m) ELSE SyncLegacyChecks(m)

\* handle_get of the async viewset: what no credential can change comes first.
GetChecks(m) ==
  << <<~m.origin, 403>>,
     <<m.version = "modern", 405>>,
     <<~config.push \/ ~config.sessions, 405>>,
     <<m.caller = Nobody, 401>>,
     <<Negotiated(m.version, FALSE) = "none", 400>>,
     <<m.session = NoSession, 404>> >>

\* handle_get of the sync viewset.
SyncGetChecks(m) == << <<~m.origin, 403>>, <<TRUE, 405>> >>

\* terminate_session, up to the ownership check; without an id there is nothing to end.
DeleteChecks(m) ==
  << <<~m.origin, 403>>,
     <<m.version = "modern" \/ ~config.sessions, 405>>,
     <<m.caller = Nobody, 401>>,
     <<m.session = NoSession, 204>> >>

SyncDeleteChecks(m) == DeleteChecks(m)

ChecksOf(m) ==
  CASE m.verb = "POST" -> PostChecks(m)
    [] m.verb = "GET" -> GetChecks(m)
    [] m.verb = "DELETE" -> DeleteChecks(m)

SyncChecksOf(m) ==
  CASE m.verb = "POST" -> SyncPostChecks(m)
    [] m.verb = "GET" -> SyncGetChecks(m)
    [] m.verb = "DELETE" -> SyncDeleteChecks(m)

Refusal(m) == Verdict(IF config.async THEN ChecksOf(m) ELSE SyncChecksOf(m), Pass)

NeedsOwner(m) == m.verb # "POST" \/ (~Modern(m) /\ GateApplies(m))

Answered(r) == req' = [req EXCEPT ![r] = Idle]

Goto(r, where) == req' = [req EXCEPT ![r].pc = where]

\* A request arrives, with a session id its client was given, or a forged one, and
\* nothing refuses it at once: what is refused at once leaves nothing behind.
Receive(r) ==
  /\ req[r].pc = "idle"
  /\ \E m \in Messages :
       /\ m.session \in Sessions => birth[m.session].owner # Nobody
       /\ Refusal(m) = Pass
       /\ req' = [req EXCEPT ![r] = [Idle EXCEPT !.m = m,
                                      !.pc = IF NeedsOwner(m) THEN "owner" ELSE "serve"]]
  /\ UNCHANGED <<config, now, entry, live, history>>

-----------------------------------------------------------------------------
(* The session gate: SessionStore.owner and the comparison.                *)

\* The cache: an entry past its timeout is a miss.
Stored(s) ==
  IF s \in Sessions /\ now < entry[s].until THEN entry[s] ELSE Absent

\* Mutant: the idle window is not clipped.
RemainingIdle(created) == Ttl

\* _remaining_lifetime: the idle window, clipped by the age; int() cuts to seconds.
Remaining(created) ==
  LET left == created + MaxAge - now
  IN IF left < Ttl THEN (left \div Hz) * Hz ELSE Ttl

\* owner, first half: the entry, stamped if it is a bare principal.
OwnerRead(r) ==
  LET s == req[r].m.session
      e == Stored(s)
      created == IF e.created = Unstamped THEN now ELSE e.created
  IN /\ req[r].pc = "owner" /\ e # Absent /\ config.cached
     /\ req' = [req EXCEPT ![r].pc = "refresh", ![r].at = now, ![r].left = Remaining(created),
                           ![r].seen = [e EXCEPT !.created = created, !.until = 0]]
     /\ birth' = IF birth[s].at = Unstamped THEN [birth EXCEPT ![s].at = now] ELSE birth
     /\ UNCHANGED <<config, now, entry, live, used, gone, revived>>

\* Mutant: whoever holds the id is its owner.
MatchesAny(r, owner) == owner # Nobody

\* session_gate_failure: an unknown and a foreign session look the same.
Matches(r, owner) == owner = req[r].m.caller

Gate(r, owner) ==
  IF Matches(r, owner) THEN req' = [req EXCEPT ![r] = [Idle EXCEPT !.pc = "serve", !.m = req[r].m]]
  ELSE Answered(r)

\* Mutant: the entry keeps the timeout of its creation.
RefreshOnce(r) ==
  /\ req[r].pc = "refresh" /\ req[r].left > 0
  /\ Gate(r, req[r].seen.owner)
  /\ used' = [used EXCEPT ![req[r].m.session] = now]
  /\ UNCHANGED <<config, now, entry, live, birth, gone, revived>>

\* owner, second half: the entry is set again for what remains.
Refresh(r) ==
  LET s == req[r].m.session
  IN /\ req[r].pc = "refresh" /\ req[r].left > 0
     /\ entry' = [entry EXCEPT ![s] = [req[r].seen EXCEPT !.until = now + req[r].left]]
     /\ Gate(r, req[r].seen.owner)
     /\ used' = [used EXCEPT ![s] = now]
     /\ revived' = IF s \in gone THEN revived \cup {s} ELSE revived
     /\ UNCHANGED <<config, now, live, birth, gone>>

\* owner: a session past its age is deleted.
Retire(r) ==
  /\ req[r].pc = "refresh" /\ req[r].left <= 0
  /\ entry' = [entry EXCEPT ![req[r].m.session] = Absent]
  /\ Answered(r)
  /\ UNCHANGED <<config, now, live, history>>

\* owner finds nothing it can read.
OwnerMiss(r) ==
  LET s == req[r].m.session
  IN /\ req[r].pc = "owner" /\ Stored(s) = Absent
     /\ Answered(r)
     /\ UNCHANGED <<config, now, entry, live, history>>

\* InMemorySessionStore.owner: one dictionary lookup, nothing to refresh.
OwnerInMemory(r) ==
  LET s == req[r].m.session
  IN /\ req[r].pc = "owner" /\ Stored(s) # Absent /\ ~config.cached
     /\ Gate(r, entry[s].owner)
     /\ UNCHANGED <<config, now, entry, live, history>>

-----------------------------------------------------------------------------
(* POST.                                                                   *)

\* What the dispatch table answers: a result, an error, a denial, or it raises.
Outcomes(m) ==
  CASE m.body = "discover" -> {"result"}
    [] m.body = "initialize" -> IF config.legacy THEN {"result", "error"} ELSE {"error"}
    [] m.body \in {"unknown", "listen"} -> {"unknown method"}
    [] OTHER -> {"result", "error", "denied", "raised"}

Mints(m, outcome) ==
  m.body = "initialize" /\ ~Modern(m) /\ config.sessions /\ outcome = "result"

\* SessionStore.create for the caller; a session in memory has no timeout.
Create(m) ==
  \E s \in {x \in Sessions : birth[x].owner = Nobody} :
    /\ entry' = [entry EXCEPT ![s] = [owner |-> m.caller, created |-> now,
                   until |-> IF config.cached THEN now + Ttl ELSE MaxTime + 1]]
    /\ birth' = [birth EXCEPT ![s] = [owner |-> m.caller, at |-> now]]
    /\ used' = [used EXCEPT ![s] = now]

\* A notification is accepted, and a response to nothing refused; a request is
\* dispatched, and a successful handshake mints a session.
Finish(r) ==
  LET m == req[r].m
  IN /\ req[r].pc = "serve" /\ m.verb = "POST"
     /\ Answered(r)
     /\ IF m.body \in {"notification", "response"} THEN UNCHANGED <<entry, birth, used>>
        ELSE \E outcome \in Outcomes(m) :
               IF Mints(m, outcome) THEN Create(m) ELSE UNCHANGED <<entry, birth, used>>
     /\ UNCHANGED <<config, now, live, gone, revived>>

\* The rest of handle_jsonrpc and of _handle_modern, on either transport.  A modern
\* listen opens a subscription on the async one (module Subscriptions).
Dispatch(r) == config.async /\ ~Modern(req[r].m) /\ Finish(r)
DispatchModern(r) ==
  config.async /\ Modern(req[r].m) /\ req[r].m.body # "listen" /\ Finish(r)
SyncDispatch(r) == ~config.async /\ ~Modern(req[r].m) /\ Finish(r)
SyncDispatchModern(r) == ~config.async /\ Modern(req[r].m) /\ Finish(r)

\* _maybe_subscribe takes a modern listen elsewhere.
Listen(r) ==
  /\ config.async /\ req[r].pc = "serve" /\ Modern(req[r].m) /\ req[r].m.body = "listen"
  /\ Answered(r)
  /\ UNCHANGED <<config, now, entry, live, history>>

-----------------------------------------------------------------------------
(* GET.                                                                    *)

Active == {s \in Sessions : live[s] # NoStream}

\* Mutant: one more.
FullLate == Cardinality(Active) > Cap

Full == Cardinality(Active) >= Cap

Opened == {r \in Requests : req[r].pc = "opened"}

\* The end of handle_get: the cap, then a response whose body nobody has read yet.
OpenStream(r) ==
  /\ req[r].pc = "serve" /\ req[r].m.verb = "GET"
  /\ IF Full THEN Answered(r)
     ELSE req' = [req EXCEPT ![r].pc = "opened", ![r].rivals = Cardinality(Opened)]
  /\ UNCHANGED <<config, now, entry, live, history>>

\* stream_events begins when the server first reads the body: it subscribes.
StartStream(r) ==
  /\ req[r].pc = "opened"
  /\ live' = [live EXCEPT ![req[r].m.session] = r]
  /\ Goto(r, "streaming")
  /\ UNCHANGED <<config, now, entry, history>>

\* The client leaves, or the stream's time is up; unsubscribe removes only its own.
CloseStream(r) ==
  /\ req[r].pc \in {"opened", "streaming"}
  /\ live' = [s \in Sessions |-> IF live[s] = r THEN NoStream ELSE live[s]]
  /\ Answered(r)
  /\ UNCHANGED <<config, now, entry, history>>

-----------------------------------------------------------------------------
(* DELETE.                                                                 *)

\* terminate_session's last step; an open stream of the session goes on.  (The events
\* the async viewset's replay buffer forgets first are SsePush's Forget.)
Terminated(r) ==
  LET s == req[r].m.session
  IN /\ req[r].pc = "serve" /\ req[r].m.verb = "DELETE"
     /\ entry' = [entry EXCEPT ![s] = Absent]
     /\ gone' = gone \cup {s}
     /\ Answered(r)
     /\ UNCHANGED <<config, now, live, birth, used, revived>>

Destroy(r) == config.async /\ Terminated(r)
SyncDestroy(r) == ~config.async /\ Terminated(r)

-----------------------------------------------------------------------------
Tick ==
  /\ now < MaxTime /\ config.cached
  /\ now' = now + 1
  /\ UNCHANGED <<config, entry, live, req, history>>

Next ==
  \/ Tick
  \/ \E r \in Requests :
       \/ Receive(r) \/ OwnerRead(r) \/ Refresh(r) \/ Retire(r) \/ OwnerMiss(r)
       \/ OwnerInMemory(r) \/ Dispatch(r) \/ DispatchModern(r) \/ Listen(r)
       \/ SyncDispatch(r) \/ SyncDispatchModern(r) \/ OpenStream(r) \/ StartStream(r)
       \/ CloseStream(r) \/ Destroy(r) \/ SyncDestroy(r)

Spec == Init /\ [][Next]_vars

-----------------------------------------------------------------------------
\* What a request does on the strength of its session, once the gate let it through.
Served(r) ==
  req[r].pc \in {"serve", "opened", "streaming"} /\ NeedsOwner(req[r].m)

\* Whatever the method, the era and the transport, nothing is dispatched, streamed or
\* destroyed for a refused origin, an unauthenticated caller, or a modern body whose
\* headers say something else (the checks of three handlers on two viewsets).
ServedOnlyVetted ==
  \A r \in Requests :
    req[r].pc # "idle" =>
      /\ req[r].m.origin /\ req[r].m.caller # Nobody
      /\ Modern(req[r].m) /\ req[r].m.body # "notification" =>
           req[r].m.version = "modern" /\ req[r].m.headers

\* A session serves the principal its handshake authenticated and nobody else; and
\* what a DELETE destroyed stays destroyed, unless a refresh that had read it earlier
\* stored it again (the gate and terminate_session, against owner's read-then-write).
ServedToOwner ==
  /\ \A r \in Requests :
       Served(r) => LET s == req[r].m.session
                    IN s \in Sessions /\ birth[s].owner = req[r].m.caller
  /\ \A s \in gone \ revived : entry[s] = Absent

\* What is served was allowed: the request by the checks, its caller by the session.
ServedAsAllowed == ServedOnlyVetted /\ ServedToOwner

\* However often a session is used, it serves nobody past its absolute age: the
\* sliding window of owner cannot carry it over (_remaining_lifetime).
AgeLimit ==
  [][\A r \in Requests :
       LET s == req[r].m.session
       IN req[r].pc = "refresh" /\ req'[r].pc = "serve" /\ s \notin OldSessions =>
            req[r].at + Hz <= birth[s].at + MaxAge]_vars

\* A session in use does not lapse: its owner is turned away only after a whole idle
\* window without use, after its age less the second int() cuts, or after a DELETE.
KeptWhileUsed ==
  [][\A r \in Requests :
       LET s == req[r].m.session
       IN /\ req[r].pc \in {"owner", "refresh"} /\ req'[r].pc = "idle"
          /\ s \in Sessions /\ birth[s].owner = req[r].m.caller
          => \/ s \in gone
             \/ now >= used[s] + Ttl
             \/ birth[s].at # Unstamped /\ now + Hz > birth[s].at + MaxAge]_vars

\* A session lives as long as its two settings say: neither longer for being used,
\* nor shorter while it is.
SessionLifetime == AgeLimit /\ KeptWhileUsed

\* The broker never feeds more streams than the cap and those whose bodies had not been
\* read when the last of them was admitted: the check precedes the registration.
CapExceededOnlyByBurst ==
  Active # {} =>
    \E r \in Requests : /\ r \in {live[s] : s \in Active}
                        /\ Cardinality(Active) <= Cap + req[r].rivals

=============================================================================
