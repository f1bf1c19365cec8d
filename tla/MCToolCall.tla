----------------------------- MODULE MCToolCall -----------------------------
(* Instances of ToolCall for TLC.  Alice may touch v1 only, bob both values; *)
(* owner is an argument the server supplies.                                 *)
EXTENDS ToolCall, TLC

CONSTANTS alice, bob, v1, v2, route, owner, plain, optional, required

MCGrants == [p \in Principals |-> IF p = alice THEN {v1} ELSE {v1, v2}]
MCPolicy == [t \in Tools |->
               IF t = plain THEN "forbidden" ELSE IF t = optional THEN "optional" ELSE "required"]
MCServerValue == [n \in Bound |-> v1]

Symmetry == Permutations(Calls)
=============================================================================
