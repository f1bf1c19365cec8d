------------------------------ MODULE MCChain ------------------------------
(* Chains for TLC: two services around a selector, atomic and not, and a     *)
(* selector that may find nothing before a service.                          *)
EXTENDS Chain, TLC

CONSTANTS c1, c2

Step(alias, kind, perms, presents, none) ==
  [alias |-> alias, kind |-> kind, perms |-> perms, presents |-> presents, none |-> none]

MCChains ==
  {[name |-> "move", atomic |-> a, perms |-> <<"staff">>,
    steps |-> <<Step("debit", "service", <<"read", "write">>, "row", FALSE),
                Step("check", "retrieve", <<"read">>, "row", FALSE),
                Step("credit", "service", <<"write">>, "reread rows", FALSE)>>] : a \in BOOLEAN}
  \cup
  {[name |-> "scan", atomic |-> TRUE, perms |-> <<>>,
    steps |-> <<Step("look", "list", <<>>, "row", TRUE),
                Step("mark", "service", <<"write">>, "row", FALSE)>>]}

MCGrants ==
  {<<"read", "debit">>, <<"write", "debit">>, <<"read", "check">>, <<"read", "credit">>,
   <<"write", "credit">>, <<"staff", "move">>, <<"write", "mark">>}

Symmetry == Permutations(Calls)
=============================================================================
