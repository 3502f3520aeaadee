----------------------------- MODULE MCZeroRtt -----------------------------
(* A small instance of ZeroRtt: two clients, two server incarnations, and a   *)
(* clock that runs past the window of every timestamp, so that a packet can   *)
(* be admitted, forgotten and delivered again, before and after a restart.    *)
EXTENDS ZeroRtt, TLC

MCTime  == 0..3
MCStamp == 0..2
Symmetry == Permutations(Nonce)
=============================================================================
