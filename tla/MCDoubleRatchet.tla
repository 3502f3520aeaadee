--------------------------- MODULE MCDoubleRatchet ---------------------------
(* A small instance of DoubleRatchet: the two ends of a session.              *)
EXTENDS DoubleRatchet, TLC

Symmetry == Permutations(Object) \cup Permutations(Text)
=============================================================================
