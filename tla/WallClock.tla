------------------------------ MODULE WallClock ------------------------------
(* The clock that time.time() reads.  Every window, age and lifetime of the   *)
(* program is a difference of two readings of it.  It is kept in a module of  *)
(* its own so that the components that EXTEND it read one and the same clock. *)
(*                                                                            *)
(* The model's clock never runs backwards.  time.time() is the system's wall  *)
(* clock, which an administrator may set back: that case is excluded here,    *)
(* named as an assumption in the README, and treated for the replay filter in *)
(* ReplaySetBack.                                                             *)
EXTENDS Integers

CONSTANT Time   \* the readings the clock can show

ASSUME TimeAssumption == Time \subseteq Int

VARIABLE now    \* the latest reading

\* A handler that reads the clock k times sees readings that are in order.
\* Later(t) holds of a reading t taken at or after the latest one.
Later(t) == now <= t

\* Time passes while no handler runs.
Tick == \E t \in Time : now < t /\ now' = t
=============================================================================
