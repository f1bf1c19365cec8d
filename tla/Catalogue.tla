----------------------------- MODULE Catalogue -----------------------------
(***************************************************************************)
(* The listings of a server, page by page, and what they leave out: with   *)
(* the filter on, what the caller's permissions deny, and for tools those  *)
(* whose service has an operation condition that is not met now.           *)
(*                                                                         *)
(* Between two pages of one walk tools are registered, grants change and   *)
(* conditions flip: the cursor is an offset into a list made anew for each *)
(* page.  A call runs a tool's steps in order, whatever any listing says.  *)
(***************************************************************************)
EXTENDS Registry

CONSTANTS
  Callers,       \* principals
  ListPermissions, \* the MCP permissions of the declarations
  Conditions,    \* operation-scope affordances
  PageSize,      \* the PAGE_SIZE setting
  MaxFlips,      \* bound: times a condition or a grant changes
  MaxTools       \* bound: tools registered, and nothing once there are so many

VARIABLES
  lets,    \* the pairs of a caller and a permission whose list-time question is answered
           \* yes: is_listable where it declares one, has_permission otherwise
  met,     \* the pairs of a caller and a condition met now
  walk,    \* one client's walk through the pages of a listing
  called,  \* one call of a tool, and the step it is at
  flips

catalogueVars == <<registryVars, lets, met, walk, called, flips>>

Done == -1        \* the cursor after the last page
NotWalking == [of |-> "nothing"]
NotCalling == [step |-> 0]

ASSUME PageSizeAssumption == PageSize \in Nat \ {0}

-----------------------------------------------------------------------------
(* What is listed.                                                         *)

Bindings(of) ==
  CASE of = "tools" -> tools
    [] of = "resources" -> Concrete
    [] of = "templates" -> Templates
    [] of = "prompts" -> prompts

\* is_binding_listable.
Listable(p, b) == b.always \/ \A perm \in b.perms : <<p, perm>> \in lets

\* _asked_specs: a chain is gated by each of its service steps, a selector tool by none.
Gates(t) == IF t.always THEN {} ELSE {t.steps[i].cond : i \in DOMAIN t.steps} \ {"none"}

Unmet(p, t) == \E c \in Gates(t) : <<p, c>> \notin met

Visible(of, p) ==
  LET all == Bindings(of)
  IN Selected(all, {b \in ToSet(all) : setting.filter => Listable(p, b)})

\* listable_tool_bindings and offered_tools, the other listings' own filter.
Listing(of, p, unavailable) ==
  LET visible == Visible(of, p)
  IN Selected(visible, {b \in ToSet(visible) : of = "tools" /\ ~unavailable => ~Unmet(p, b)})

\* Mutant: a listing is private only when it is filtered.
IsPrivateWhenFiltered(of, p, unavailable) == setting.filter

\* catalog_cache_hints: a listing made for its caller, or one that asked a condition.
IsPrivate(of, p, unavailable) ==
  \/ setting.filter
  \/ /\ of = "tools" /\ ~unavailable
     /\ \E t \in ToSet(Visible(of, p)) : Gates(t) # {}

\* paginate: the page at an offset, and the cursor after it.
PageAt(items, offset) == SubSeq(items, offset + 1, Min({offset + PageSize, Len(items)}))

\* Mutant: the cursor is one past what the page delivered.
NextCursorPast(items, offset) ==
  IF offset + PageSize + 1 < Len(items) THEN offset + PageSize + 1 ELSE Done

NextCursor(items, offset) ==
  LET next == offset + Len(PageAt(items, offset))
  IN IF next < Len(items) THEN next ELSE Done

\* Mutant: a tool that is always listed is reported too.
UnavailableAll(p) ==
  {t \in ToSet(Visible("tools", p)) :
     \E i \in DOMAIN t.steps : t.steps[i].cond # "none" /\ <<p, t.steps[i].cond>> \notin met}

\* unavailable_tools, over the same visible tools.
Unavailable(p) == {t \in ToSet(Visible("tools", p)) : Unmet(p, t)}

\* aunavailable_tools answers at once where no tool declares a condition.
AsyncUnavailable(p) == IF \A t \in TheTools : Gates(t) = {} THEN {} ELSE Unavailable(p)

-----------------------------------------------------------------------------
(* A walk.                                                                 *)

Key(of, b) == IF of \in {"resources", "templates"} THEN b.uri ELSE b.name
Keys(of, items) == {Key(of, items[i]) : i \in DOMAIN items}

\* The page at a cursor; constant, dropped and back are history: the keys listed for every
\* page so far, those listed for one page and not the next, and the other way round.
Turn(w, items, offset) ==
  LET page == PageAt(items, offset)
      keys == Keys(w.of, items)
  IN [w EXCEPT !.cursor = NextCursor(items, offset),
               !.got = @ \o [i \in DOMAIN page |-> Key(w.of, page[i])],
               !.last = keys,
               !.constant = @ \cap keys,
               !.dropped = @ \cup (w.last \ keys),
               !.back = @ \cup (keys \ w.last)]

StartWalk(of, p, unavailable) ==
  /\ walk = NotWalking
  /\ LET items == Listing(of, p, unavailable)
         w == [of |-> of, caller |-> p, unavailable |-> unavailable, cursor |-> 0, got |-> <<>>,
               last |-> Keys(of, items), constant |-> Keys(of, items),
               dropped |-> {}, back |-> {}]
     IN walk' = Turn(w, items, 0)
  /\ UNCHANGED <<registryVars, lets, met, called, flips>>

FollowCursor ==
  /\ walk # NotWalking /\ walk.cursor # Done
  /\ walk' = Turn(walk, Listing(walk.of, walk.caller, walk.unavailable), walk.cursor)
  /\ UNCHANGED <<registryVars, lets, met, called, flips>>

-----------------------------------------------------------------------------
(* A call, and what changes meanwhile.                                     *)

StartCall(t, p) ==
  /\ called = NotCalling
  /\ called' = [tool |-> t, caller |-> p, step |-> 1, hidden |-> Unmet(p, t), flipped |-> FALSE]
  /\ UNCHANGED <<registryVars, lets, met, walk, flips>>

\* A step's affordance refuses, or it runs, and may open what a later one needs.
CallStep ==
  /\ called # NotCalling /\ called.step <= Len(called.tool.steps)
  /\ LET s == called.tool.steps[called.step]
     IN IF s.cond # "none" /\ <<called.caller, s.cond>> \notin met
        THEN called' = NotCalling /\ UNCHANGED met
        ELSE /\ called' = [called EXCEPT !.step = @ + 1]
             /\ met' = met \cup (Callers \X s.opens)
  /\ UNCHANGED <<registryVars, lets, walk, flips>>

EndCall ==
  /\ called # NotCalling /\ called.step > Len(called.tool.steps)
  /\ called' = NotCalling
  /\ UNCHANGED <<registryVars, lets, met, walk, flips>>

Swapped(pair, S) == IF pair \in S THEN S \ {pair} ELSE S \cup {pair}

Flip ==
  /\ flips < MaxFlips /\ flips' = flips + 1
  /\ \/ \E pair \in Callers \X Conditions : met' = Swapped(pair, met) /\ UNCHANGED lets
     \/ \E pair \in Callers \X ListPermissions : lets' = Swapped(pair, lets) /\ UNCHANGED met
  /\ called' = IF called = NotCalling THEN called ELSE [called EXCEPT !.flipped = TRUE]
  /\ UNCHANGED <<registryVars, walk>>

CatalogueInit ==
  /\ RegistryInit
  /\ lets = Callers \X ListPermissions
  /\ met \in {{}, Callers \X Conditions}
  /\ walk = NotWalking /\ called = NotCalling /\ flips = 0

Register ==
  /\ Len(tools) < MaxTools
  /\ RegistryNext /\ Len(tools') <= MaxTools
  /\ UNCHANGED <<lets, met, walk, called, flips>>

CatalogueNext ==
  \/ Register
  \/ \E p \in Callers :
       \/ \E of \in {"tools", "resources", "templates", "prompts"} : StartWalk(of, p, FALSE)
       \/ StartWalk("tools", p, TRUE)
  \/ FollowCursor \/ Flip

CatalogueSpec == CatalogueInit /\ [][CatalogueNext]_catalogueVars

\* Calls instead of walks.
CallsNext ==
  \/ Register
  \/ \E p \in Callers, t \in TheTools : StartCall(t, p)
  \/ CallStep \/ EndCall \/ Flip

CallsSpec == CatalogueInit /\ [][CallsNext]_catalogueVars

-----------------------------------------------------------------------------
(* What makes the listings correct.                                        *)

Position(of, k) == SelectInSeq(Bindings(of), LAMBDA b : Key(of, b) = k)

\* A walk delivers what was on offer all along, unless something registered before it
\* dropped out between two pages, and delivers nothing twice, unless something
\* registered before it came back.
WalkFaithful ==
  walk # NotWalking =>
    /\ walk.cursor = Done =>
         \A k \in walk.constant \ ToSet(walk.got) :
           \E d \in walk.dropped : Position(walk.of, d) < Position(walk.of, k)
    /\ \A i, j \in DOMAIN walk.got : i < j /\ walk.got[i] = walk.got[j] =>
         \E b \in walk.back : Position(walk.of, b) < Position(walk.of, walk.got[i])

\* A listing marked public is the same for every caller: a shared cache may serve it.
PublicIsForEveryone ==
  \A of \in {"tools", "resources", "templates", "prompts"}, unavailable \in BOOLEAN :
    /\ of = "tools" \/ ~unavailable
    /\ \E p \in Callers : ~IsPrivate(of, p, unavailable)
    => \A listed, other \in {Listing(of, p, unavailable) : p \in Callers} : listed = other

\* A consumer that lists everything once and takes away what is unavailable now offers
\* what a plain listing would, through either door.
OfferedIsListed ==
  \A p \in Callers :
    /\ ToSet(Listing("tools", p, TRUE)) \ Unavailable(p) = ToSet(Listing("tools", p, FALSE))
    /\ AsyncUnavailable(p) = Unavailable(p)

\* Both: a listing says truly for whom it was made and what it left out.
ListedAsIs == PublicIsForEveryone /\ OfferedIsListed

\* A tool the listing leaves out is one no call of which can succeed: what concepts.md
\* says of chains.
HiddenMeansRefused ==
  called # NotCalling /\ called.step > Len(called.tool.steps) =>
    called.flipped \/ ~called.hidden

=============================================================================
