----------------------------- MODULE MCFragChat -----------------------------
(* A small instance of FragChat.                                              *)
EXTENDS FragChat, TLC

Symmetry == Permutations(Client)
=============================================================================
