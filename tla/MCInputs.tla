------------------------------ MODULE MCInputs ------------------------------
(* Declarations for TLC: every pair of parts a name can have at once.        *)
EXTENDS Inputs, FiniteSets

Nothing(n) ==
  [param |-> "no", lookup |-> "no", field |-> "no", as |-> n, route |-> "no",
   query |-> FALSE, from |-> "caller"]

\* Bound: how many roles a name has at once, where its value comes from included.
Few(r, most) ==
  Cardinality({k \in {"param", "lookup", "field", "route"} : r[k] # "no"})
    + (IF r.query THEN 1 ELSE 0) + (IF r.from = "caller" THEN 0 ELSE 1) <= most

RolesOf(names, most) ==
  {r \in [param : {"no", "optional", "required"}, lookup : {"no", "required"},
          field : {"no", "optional", "required", "default", "read only"}, as : names,
          route : {"no", "optional", "default", "required"}, query : BOOLEAN,
          from : {"caller", "provider", "claimed", "supplied", "withheld"}] : Few(r, most)}

MCNames == {"x", "page", "instance", "data"}

\* Bound: two of the names have a part at a time.  A field named "instance" may be
\* bound to "x"; a lookup may take a name dispatch keeps to itself.
Cases ==
  [n : {"x"}, other : {"instance"}, r : RolesOf({"x"}, 2),
   q : {q \in RolesOf({"x", "instance"}, 1) :
          q.lookup = "no" /\ (q.as = "instance" \/ q.field # "no")}]
  \cup [n : {"page"}, other : {"x"}, r : RolesOf({"page"}, 2), q : {Nothing("x")}]
  \cup [n : {"instance"}, other : {"x"},
        r : RolesOf({"instance"}, 2), q : {Nothing("x")}]
  \cup [n : {"x"}, other : {"data"}, r : RolesOf({"x"}, 2),
        q : {[Nothing("data") EXCEPT !.param = p] : p \in {"optional", "required"}}]

Roles(c) == [n \in Names |-> IF n = c.n THEN c.r ELSE IF n = c.other THEN c.q ELSE Nothing(n)]

Unlooked == {Roles(c) : c \in {x \in Cases : x.r.lookup = "no" /\ x.q.lookup = "no"}}

MCDeclarations ==
  [kind : {"list"}, spread : {TRUE}, takesAny : BOOLEAN, reject : {TRUE}, paginate : {TRUE},
   role : Unlooked]
  \cup
  [kind : {"retrieve"}, spread : {TRUE}, takesAny : {FALSE}, reject : {TRUE},
   paginate : {FALSE}, role : Unlooked]
  \cup
  [kind : {"service"}, spread : {TRUE}, takesAny : BOOLEAN, reject : {TRUE},
   paginate : {FALSE}, role : {Roles(c) : c \in Cases}]
  \cup
  [kind : {"service"}, spread : {FALSE}, takesAny : {FALSE}, reject : {TRUE},
   paginate : {FALSE}, role : {Roles(c) : c \in Cases}]
=============================================================================
