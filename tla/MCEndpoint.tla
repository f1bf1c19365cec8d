----------------------------- MODULE MCEndpoint -----------------------------
(* An instance of Endpoint for TLC.                                          *)
EXTENDS Endpoint, TLC

CONSTANTS alice, bob, old, new

\* Proper requests of either era.
Legacy == [verb |-> "POST", origin |-> TRUE, version |-> "legacy", session |-> NoSession,
           caller |-> alice, body |-> "call", meta |-> "none", headers |-> TRUE]
Modernized == [Legacy EXCEPT !.version = "modern", !.meta = "modern"]
On(s, p, verb) == [Legacy EXCEPT !.session = s, !.caller = p, !.verb = verb]

\* What the clients of a handshake-era session send: its owner, and who holds its id.
Usual ==
  {[Legacy EXCEPT !.version = "none", !.body = "initialize"], On(Forged, alice, "POST")}
  \cup {On(s, p, "POST") : s \in Sessions, p \in Principals}
  \cup {On(new, p, "DELETE") : p \in Principals}
  \cup {On(new, alice, "GET"), On(old, bob, "GET"), On(new, bob, "GET")}

\* The bodies that differ without a session: discover and an unknown method answer as a
\* call does.
Telling == Bodies \ {"discover", "unknown"}

\* Requests without a session that are wrong in one respect.
WrongInOne(ms) ==
  UNION {{[m EXCEPT !.origin = FALSE], [m EXCEPT !.caller = Nobody], [m EXCEPT !.headers = FALSE]}
         \cup {[m EXCEPT !.version = v] : v \in Versions}
         \cup {[m EXCEPT !.meta = v] : v \in {"none", "modern", "unknown"}}
         \cup {[m EXCEPT !.body = x] : x \in Telling} : m \in ms}

Unusual == WrongInOne({Legacy, Modernized, On(NoSession, alice, "GET"),
                       On(NoSession, alice, "DELETE")})

All == [async |-> TRUE, cached |-> TRUE, sessions |-> TRUE, legacy |-> TRUE, strict |-> TRUE,
        push |-> TRUE]

MCConfigs == {All,
              [All EXCEPT !.async = FALSE, !.cached = FALSE, !.strict = FALSE],
              [All EXCEPT !.cached = FALSE, !.push = FALSE],
              [All EXCEPT !.sessions = FALSE],
              [All EXCEPT !.legacy = FALSE, !.strict = FALSE]}

MCMessages == Usual \cup Unusual

Symmetry == Permutations(Requests)
=============================================================================
