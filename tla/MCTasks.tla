------------------------------ MODULE MCTasks ------------------------------
(* Instances of Tasks for TLC: every task belongs to the same principal, and *)
(* the other principals are strangers.                                       *)
EXTENDS Tasks, TLC

MCOwner == [t \in Tasks |-> CHOOSE c \in Principals : TRUE]

Symmetry == Permutations(Tasks) \cup Permutations(Workers)
              \cup Permutations(Requests) \cup Permutations(Keys)
=============================================================================
