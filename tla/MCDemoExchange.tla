--------------------------- MODULE MCDemoExchange ---------------------------
(* A small instance of DemoExchange: c2's clock is one tick ahead of the      *)
(* server's, c1's is not.  The server's clock leaves the window of every      *)
(* timestamp, and a stalled handler can forget the nonce it has registered,   *)
(* also a second time.  In MCTicks, without stalls, another packet has to do  *)
(* that.                                                                      *)
EXTENDS DemoExchange

CONSTANTS c1, c2

MCTime  == {0, 1, 2, 4}
MCTicks == 0..3
MCLead  == [c \in {c1, c2} |-> IF c = c1 THEN {0} ELSE {1}]
=============================================================================
