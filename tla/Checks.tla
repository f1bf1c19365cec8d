------------------------------- MODULE Checks -------------------------------
(***************************************************************************)
(* A handler that refuses in a fixed order is written as the sequence of   *)
(* its checks, each a pair of a condition and the answer given when it     *)
(* holds.  The first condition that holds decides.                         *)
(***************************************************************************)
EXTENDS Naturals, Sequences, FiniteSetsExt

\* What the handler does with an input: refuse it, or the outcome of all checks passed.
Verdict(checks, passed) ==
  LET failing == {i \in DOMAIN checks : checks[i][1]}
  IN IF failing = {} THEN passed ELSE checks[Min(failing)][2]

=============================================================================
