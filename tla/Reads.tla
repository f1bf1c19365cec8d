------------------------------- MODULE Reads -------------------------------
(***************************************************************************)
(* One read through each door that serves data: resources/read,            *)
(* prompts/get, completion/complete, a selector tool, and call_tool, which *)
(* is called in process.  Each door is a sequence of stages in the order   *)
(* its handler runs them, and every stage goes forward or answers.         *)
(*                                                                         *)
(* While the call is under way the grants its permissions read, and the    *)
(* rows its selector finds, change: a list is a lazy queryset until it is  *)
(* counted, sliced or rendered.                                            *)
(***************************************************************************)
EXTENDS Integers, Sequences

CONSTANTS
  Doors,              \* bindings: door, kind ("retrieve" | "list"), paged, ceiling,
                      \* guarded (permission_classes), model (its rows are Models), provides
  CallerNames,        \* names a caller may give a value for
  ReservedNames,      \* RESERVED_POOL_SEEDS | DROPPED_EDGE_SEEDS
  ServerSeeds,        \* the seeds the server registered
  Limits, Pages,      \* what a caller may ask for
  Garbled,            \* an argument that is no integer
  DefaultPageSize,
  MaxCompletionValues,
  Unbounded, Lazy,    \* no ceiling; rows not read yet
  MaxRows, MaxDrifts  \* bounds

\* Only a selector tool pages, and a page ceiling is at least one row.
ASSUME ReadsAssumption ==
  /\ \A on \in Doors :
       /\ on.door \in {"resource", "prompt", "completion", "selector", "direct"}
       /\ on.kind \in {"retrieve", "list"}
       /\ {on.paged, on.guarded, on.model} \subseteq BOOLEAN
       /\ on.ceiling \in Nat \cup {Unbounded}
       /\ on.door = "completion" => on.kind = "list"
       /\ on.paged => on.door = "selector" /\ on.ceiling # 0
  /\ Limits \cup Pages \subseteq Int \cup {Garbled}
  /\ {DefaultPageSize, MaxCompletionValues, MaxRows, MaxDrifts} \subseteq Nat
  /\ Lazy \notin Nat

VARIABLES
  call,     \* the call: what it asks, the stage it is at, the rows it holds, its reply
  world,    \* what the permissions admit now, and the rows there are
  drifted,  \* history: what changed since it was last read
  drifts

readVars == <<call, world, drifted, drifts>>

-----------------------------------------------------------------------------
(* The stages of each door.                                                *)

ResourceStages == <<"look", "judge", "charge", "fetch", "guard", "shape", "weigh">>
AsyncResourceStages == <<"look", "judge", "charge", "fetch", "guard", "shape", "weigh">>

PromptStages == <<"look", "arguments", "judge", "charge", "fetch", "shape", "weigh">>
AsyncPromptStages == <<"look", "arguments", "judge", "charge", "fetch", "shape", "weigh">>

\* Served by this one handler on both transports.
CompletionStages == <<"look", "completer", "judge", "charge", "fetch", "cap">>

\* _check_auth_and_rate_limits, then the spec's own check on the request it runs with.
Admission == <<"judge", "charge", "spec", "route", "validate", "arguments">>
SelectorStages == Admission \o <<"fetch", "guard", "bound", "shape", "weigh">>
AsyncSelectorStages == Admission \o <<"fetch", "guard", "bound", "shape", "weigh">>

\* Mutant: what is missing is named before the permission answers.
DirectStagesNaming == <<"route", "arguments", "spec", "fetch", "guard", "shape">>

\* call_spec_tool: no binding permissions, no limits, no row or byte ceiling.
DirectStages == <<"spec", "route", "arguments", "fetch", "guard", "shape">>

Stages(c) ==
  LET byDoor == [resource |-> <<ResourceStages, AsyncResourceStages>>,
                 prompt |-> <<PromptStages, AsyncPromptStages>>,
                 completion |-> <<CompletionStages, CompletionStages>>,
                 selector |-> <<SelectorStages, AsyncSelectorStages>>,
                 direct |-> <<DirectStages, DirectStages>>]
  IN byDoor[c.on.door][IF c.async THEN 2 ELSE 1]

At(s) == call.reply = "none" /\ Stages(call)[call.at] = s

\* The call after a stage it passed, and after one that answered.
Passed(c) == IF c.at < Len(Stages(c)) THEN [c EXCEPT !.at = @ + 1]
                                      ELSE [c EXCEPT !.reply = "served"]
Answered(r) == call' = [call EXCEPT !.reply = r]

-----------------------------------------------------------------------------
(* What may answer before anything is read.                                *)

\* What a stage that only looks at the request answers when it refuses.
Refusals ==
  [look |-> "unknown", completer |-> "no completer", arguments |-> "missing",
   route |-> "missing", validate |-> "invalid", weigh |-> "too large"]

Check ==
  /\ \E s \in DOMAIN Refusals :
       At(s) /\ (call' = Passed(call) \/ Answered(Refusals[s]))
  /\ UNCHANGED <<world, drifted, drifts>>

\* A spec without permission_classes asks nothing of its second check.
Waived(s) == s = "spec" /\ ~call.on.guarded

\* judge_tool_permissions or check_permissions; enforce_permissions.
Authorize(s) ==
  /\ At(s)
  /\ IF Waived(s) \/ world.class THEN call' = Passed(call) ELSE Answered("forbidden")
  /\ drifted' = IF ~Waived(s) /\ world.class THEN drifted \ {"class"} ELSE drifted
  /\ UNCHANGED <<world, drifts>>

Spend ==
  /\ At("charge")
  /\ call' = Passed([call EXCEPT !.charged = TRUE]) \/ Answered("limited")
  /\ UNCHANGED <<world, drifted, drifts>>

-----------------------------------------------------------------------------
(* The pool the selector, the render callable or the completer is called   *)
(* with: who gave each name its value.                                     *)

Given(names, who) == [n \in names |-> who]
Over(f, g) == [n \in DOMAIN f \cup DOMAIN g |-> IF n \in DOMAIN g THEN g[n] ELSE f[n]]

\* register_resource refused a template variable named after a seed.
ResourcePool(c) ==
  Over(Over(Given(c.names \ (ReservedNames \cup ServerSeeds), "caller"),
            Given({"user", "request"} \cup ServerSeeds, "server")),
       Given(c.on.provides, "author"))
AsyncResourcePool(c) == ResourcePool(c)

\* No seeds of the server's here.
PromptPool(c) == Over(Given(c.names, "caller"), Given({"user", "request"}, "server"))
AsyncPromptPool(c) == PromptPool(c)

\* Mutant: only the names laid on top are the server's.
CompletionPoolUnstripped(c) ==
  Over(Given(c.names, "caller"), Given({"request", "user", "value", "arguments"}, "server"))

CompletionPool(c) ==
  Over(Given(c.names \ ReservedNames, "caller"),
       Given({"request", "user", "value", "arguments"}, "server"))

ReadPool(c) ==
  [resource |-> IF c.async THEN AsyncResourcePool(c) ELSE ResourcePool(c),
   prompt |-> IF c.async THEN AsyncPromptPool(c) ELSE PromptPool(c),
   completion |-> CompletionPool(c)][c.on.door]

-----------------------------------------------------------------------------
(* The rows.                                                               *)

\* One row or none; a list that was built, or one that is read later.
Fetch ==
  /\ At("fetch")
  /\ \/ Answered("raised")
     \/ /\ call.on.kind = "retrieve"
        /\ \/ world.rows = 0 /\ Answered("not found")
           \/ call' = Passed([call EXCEPT !.held = IF world.rows = 0 THEN 0 ELSE 1])
     \/ /\ call.on.kind = "list"
        /\ \/ Answered("not found")
           \/ \E h \in {Lazy, world.rows} :
                call' = Passed([call EXCEPT !.held = h, !.had = world.rows])
  /\ drifted' = drifted \ {"rows"}
  /\ UNCHANGED <<world, drifts>>

\* Only a Model is judged; a queryset is not, row by row.
Judged(c) == c.on.guarded /\ c.on.kind = "retrieve" /\ c.on.model /\ c.held = 1

\* enforce_object_permissions: the classes were judged before.
ObjectDenied(c) == Judged(c) /\ ~world.object

\* Of a resource both halves run again, its classes for a list too.
ResourceDenied(c) == c.on.guarded /\ (~world.class \/ ObjectDenied(c))

Guard ==
  /\ At("guard")
  /\ IF IF call.on.door = "resource" THEN ResourceDenied(call) ELSE ObjectDenied(call)
     THEN Answered("forbidden") ELSE call' = Passed(call)
  /\ drifted' = drifted \ {"object"}
  /\ UNCHANGED <<world, drifts>>

Coerced(v, default) == IF v = Garbled THEN default ELSE v

Least(a, b) == IF a < b THEN a ELSE b
Most(a, b) == IF a < b THEN b ELSE a
Ceiled(n, c) == IF c.on.ceiling = Unbounded THEN n ELSE Least(n, c.on.ceiling)

PageSizeOf(c) == Ceiled(Most(1, Coerced(c.limit, DefaultPageSize)), c)

\* The page paginate_output counts, clamped to the last that exists, and what is before it.
Skipped(c, rows) ==
  LET last == Most(1, (rows + PageSizeOf(c) - 1) \div PageSizeOf(c))
  IN (Least(Most(1, Coerced(c.page, 1)), last) - 1) * PageSizeOf(c)

HeldOr(rows) == IF call.held = Lazy THEN rows ELSE call.held

\* A page is counted before it is sliced; its rows are read when it is rendered.
Paginate ==
  /\ At("bound") /\ call.on.kind = "list" /\ call.on.paged
  /\ LET rows == HeldOr(world.rows)
         skip == Skipped(call, rows)
     IN call' = Passed([call EXCEPT !.had = rows, !.skip = skip,
                                    !.more = skip + PageSizeOf(call) < rows])
  /\ drifted' = drifted \ {"rows"}
  /\ UNCHANGED <<world, drifts>>

\* Mutant: the rows are counted here and read again when they are rendered.
BoundRecounting ==
  /\ At("bound") /\ call.on.kind = "list" /\ ~call.on.paged
  /\ IF call.on.ceiling # Unbounded /\ HeldOr(world.rows) > call.on.ceiling
     THEN Answered("too many")
     ELSE call' = Passed([call EXCEPT !.had = HeldOr(world.rows)])
  /\ drifted' = drifted \ {"rows"}
  /\ UNCHANGED <<world, drifts>>

\* _bound_unpaginated_rows: one row past the ceiling is read, and what was read is what
\* is rendered; with no ceiling nothing is read yet.
Bound ==
  /\ At("bound") /\ call.on.kind = "list" /\ ~call.on.paged
  /\ IF call.on.ceiling = Unbounded THEN call' = Passed(call)
     ELSE LET rows == HeldOr(world.rows)
          IN IF rows > call.on.ceiling THEN Answered("too many")
             ELSE call' = Passed([call EXCEPT !.held = rows, !.had = rows])
  /\ drifted' = drifted \ {"rows"}
  /\ UNCHANGED <<world, drifts>>

\* One row has no bound.
BoundOne ==
  /\ At("bound") /\ call.on.kind = "retrieve"
  /\ call' = Passed(call)
  /\ UNCHANGED <<world, drifted, drifts>>

\* Rendering reads what is still lazy, and a serializer may raise, or hand back what the
\* declared encoding cannot carry.
Shape ==
  /\ At("shape")
  /\ LET rows == HeldOr(world.rows)
         window == IF call.on.door = "selector" /\ call.on.kind = "list" /\ call.on.paged
                   THEN Least(PageSizeOf(call), IF rows > call.skip THEN rows - call.skip ELSE 0)
                   ELSE rows
     IN \/ Answered("unrendered")
        \/ call' = Passed([call EXCEPT !.sent = window,
                                       !.had = IF call.on.paged THEN @ ELSE rows])
  /\ UNCHANGED <<world, drifted, drifts>>

\* The values past the cap are announced, not sent.
Cap ==
  /\ At("cap")
  /\ LET values == HeldOr(world.rows)
     IN call' = Passed([call EXCEPT !.had = values, !.sent = Least(values, MaxCompletionValues),
                                    !.more = values > MaxCompletionValues])
  /\ UNCHANGED <<world, drifted, drifts>>

-----------------------------------------------------------------------------

\* A grant is given or withdrawn, the row's owner changes, a row comes or goes.
Drift ==
  /\ call.reply = "none" /\ drifts < MaxDrifts
  /\ drifts' = drifts + 1
  /\ \/ world' = [world EXCEPT !.class = ~@] /\ drifted' = drifted \cup {"class"}
     \/ world' = [world EXCEPT !.object = ~@] /\ drifted' = drifted \cup {"object"}
     \/ /\ \E n \in 0..MaxRows : n # world.rows /\ world' = [world EXCEPT !.rows = n]
        /\ drifted' = drifted \cup {"rows"}
  /\ UNCHANGED call

Ask(on) ==
  [on : {on}, async : BOOLEAN,
   names : IF on.door \in {"resource", "prompt", "completion"} THEN SUBSET CallerNames ELSE {{}},
   limit : IF on.paged THEN Limits ELSE {Garbled}, page : IF on.paged THEN Pages ELSE {Garbled},
   at : {1}, held : {0}, had : {0}, skip : {0}, sent : {0}, more : {FALSE},
   charged : {FALSE}, reply : {"none"}]

ReadsInit ==
  /\ call \in UNION {Ask(on) : on \in Doors}
  /\ world \in [class : BOOLEAN, object : BOOLEAN, rows : 0..MaxRows]
  /\ drifted = {} /\ drifts = 0

ReadsNext ==
  \/ Check \/ Authorize("judge") \/ Authorize("spec") \/ Spend
  \/ Fetch \/ Guard \/ Paginate \/ Bound \/ BoundOne \/ Shape \/ Cap
  \/ Drift

ReadsSpec == ReadsInit /\ [][ReadsNext]_readVars

-----------------------------------------------------------------------------
(* What makes reads correct.                                               *)

\* What a caller can be told without being admitted: that it is not, that there is no
\* such thing, and, as documented for a prompt, which of its arguments are missing.
Open(c) ==
  {"none", "forbidden", "unknown", "no completer"}
    \cup IF c.on.door = "prompt" THEN {"missing"} ELSE {}

\* Every other answer, a charge included, was given to a caller the class permissions
\* admit unless they changed after they were judged; a row is served only to one its
\* object permission admits, unless that changed after the guard.
AnsweredAsAdmitted ==
  /\ /\ call.reply \notin Open(call) \/ call.charged
     /\ call.on.door # "direct" \/ call.on.guarded
     => world.class \/ "class" \in drifted
  /\ call.reply = "served" /\ Judged(call) /\ call.on.door # "prompt"
     => world.object \/ "object" \in drifted

\* What is served is whole or says it is not, and a selector tool's reply and a
\* completion stay within their ceilings, whatever happened to the rows meanwhile.
WholeOrSaysSo ==
  call.reply = "served" /\ call.on.kind = "list" =>
    /\ call.on.door = "selector" /\ call.on.ceiling # Unbounded => call.sent <= call.on.ceiling
    /\ call.on.door = "completion" => call.sent <= MaxCompletionValues
    /\ call.more \/ call.skip + call.sent >= call.had \/ (call.on.paged /\ "rows" \in drifted)

\* No argument takes the place of what the server or the author of the binding gives:
\* the user, the request, and for a completer every name the dispatcher owns.
SeedsStand ==
  At("fetch") /\ call.on.door \in {"resource", "prompt", "completion"} =>
    \A n \in DOMAIN ReadPool(call) :
      n \in {"user", "request"} \cup (IF call.on.door = "prompt" THEN {} ELSE ReservedNames)
        => ReadPool(call)[n] # "caller"

=============================================================================
