---------------------------- MODULE ReplaySetBack ----------------------------
(* The replay filter when the wall clock is set back.  WallClock only runs    *)
(* forward, and everything else in this development rests on that; time.time()*)
(* may be set back by an administrator or a time service.  A timestamp that   *)
(* had left the window is then inside it again, and its nonce may have been   *)
(* evicted meanwhile.  The filter itself is that of ReplayFilter; the clock is*)
(* set back between its calls.                                                *)
EXTENDS ReplayFilter

CONSTANT MaxSetBacks   \* bound: how often the clock is set back under one filter

ASSUME SetBackAssumption == MaxSetBacks \in Nat

VARIABLE setBacks   \* how often that has happened

setBackVars == <<filterVars, setBacks>>

SetBackInit == FilterInit /\ setBacks = 0

SetBack ==
  /\ setBacks < MaxSetBacks
  /\ setBacks' = setBacks + 1
  /\ \E t \in Time : t < now /\ now' = t
  /\ UNCHANGED <<seen, admitted>>

SetBackNext ==
  \/ /\ \/ \E n \in Nonce, ts \in Stamp, t1 \in Time :
              \/ \E t2 \in Time : Admit(n, ts, t1, t2)
              \/ Reject(n, ts, t1)
        \/ FilterTick
     /\ UNCHANGED setBacks
  \/ FilterReset /\ setBacks' = 0
  \/ SetBack

SetBackSpec == SetBackInit /\ [][SetBackNext]_setBackVars

-----------------------------------------------------------------------------
\* Setting the clock back costs one more admission of a packet at most, however
\* far back, and however the network repeats the packet before and after.
AdmittedPerSetBack == \A p \in Packet : admitted[p] <= 1 + setBacks
=============================================================================
