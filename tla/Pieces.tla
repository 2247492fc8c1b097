-------------------------------- MODULE Pieces --------------------------------
(* Texts that a loop over characters builds, as what each of them adds.         *)
EXTENDS Naturals, Sequences, SequencesExt

\* The pieces in one; TLC evaluates them once, for `\o'.
Joined(pieces) == FlattenSeq(pieces \o <<>>)

\* The elements of s at the indices, in order.
Picked(s, indices) ==
  Joined([i \in DOMAIN s |-> IF i \in indices THEN <<s[i]>> ELSE <<>>])

=============================================================================
