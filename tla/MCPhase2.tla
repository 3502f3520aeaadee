------------------------------ MODULE MCPhase2 ------------------------------
(* A small instance of Phase2: the clock runs more than two windows past      *)
(* either timestamp, one of which is ahead of the clock at first.             *)
EXTENDS Phase2

MCTime  == 0 .. 5
MCStamp == {1, 2}
=============================================================================
