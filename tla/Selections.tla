----------------------------- MODULE Selections -----------------------------
(* What a list comprehension keeps of a sequence, in its order.              *)
EXTENDS SequencesExt

Selected(s, keep) ==
  FlattenSeq([i \in DOMAIN s |-> IF s[i] \in keep THEN <<s[i]>> ELSE <<>>])

=============================================================================
