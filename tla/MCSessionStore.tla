--------------------------- MODULE MCSessionStore ---------------------------
(* A small instance of SessionStore: the clock runs past the life of every    *)
(* session.                                                                   *)
EXTENDS SessionStore, TLC

MCTime == 0 .. 5
=============================================================================
