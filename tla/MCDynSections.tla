---------------------------- MODULE MCDynSections ----------------------------
(* Three levels, as files.html has: three folders with two folders each, and  *)
(* a file beside them.                                                          *)
EXTENDS DynSections

MCRow ==
  {<<a>> : a \in 0..3} \cup {<<a, b>> : a \in 0..2, b \in 0..1} \cup {<<a, b, 0>> : a \in 0..2, b \in 0..1}

=============================================================================
