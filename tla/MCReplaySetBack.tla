--------------------------- MODULE MCReplaySetBack ---------------------------
(* A small instance of ReplaySetBack: two nonces, and a clock that leaves the *)
(* window of every timestamp and comes back twice.                            *)
EXTENDS ReplaySetBack

MCTime  == 0..3
MCStamp == 0..1
=============================================================================
