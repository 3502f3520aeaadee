---------------------------- MODULE ReplayFilter ----------------------------
(* The replay filter of zserver_v2 (zreplay.py): a registry of the PoW nonces *)
(* admitted so far, each with the timestamp its packet carried.  is_replay    *)
(* refuses a packet whose timestamp lies outside the window or whose nonce is *)
(* registered, and registers the nonce of every packet it lets through.  The  *)
(* registry is pruned only then, by _evict_expired, which reads the clock a   *)
(* second time.                                                               *)
EXTENDS WallClock

CONSTANTS
  Nonce,    \* the PoW nonces that packets carry (8 random bytes each)
  Stamp,    \* the timestamps that packets carry, read from the senders' clocks
  Window    \* TIMESTAMP_WINDOW: how far a timestamp may lie from the clock

ASSUME StampAssumption  == Stamp \subseteq Int
ASSUME WindowAssumption == Window \in Nat

VARIABLES
  seen,     \* the registry: a function from registered nonces to timestamps
  admitted  \* history: how often this filter has let each packet through

filterVars == <<now, seen, admitted>>

Packet == Nonce \X Stamp

-----------------------------------------------------------------------------
\* abs(now - timestamp) > self.window, for the clock reading t
OutsideWindow(ts, t) == t - ts > Window \/ ts - t > Window

\* self.seen[nonce_hex] = timestamp
Register(reg, n, ts) ==
  [m \in DOMAIN reg \cup {n} |-> IF m = n THEN ts ELSE reg[m]]

\* _evict_expired, for the clock reading t
EvictEarly(reg, t) ==       \* mutant: off by one at the edge of the window
  [m \in {m \in DOMAIN reg : ~ (t - reg[m] >= Window)} |-> reg[m]]
EvictNothing(reg, t) == reg \* mutant: expired entries stay

Evict(reg, t) ==
  [m \in {m \in DOMAIN reg : ~ (t - reg[m] > Window)} |-> reg[m]]

EmptyRegistry == [n \in {} |-> 0]

-----------------------------------------------------------------------------
FilterInit ==
  /\ now \in Time
  /\ seen = EmptyRegistry
  /\ admitted = [p \in Packet |-> 0]

AdmitByArrival(n, ts, t1, t2) == \* mutant: the time of arrival is registered
  /\ Later(t1) /\ t1 <= t2
  /\ ~ OutsideWindow(ts, t1)
  /\ n \notin DOMAIN seen
  /\ seen' = Evict(Register(seen, n, t1), t2)
  /\ admitted' = [admitted EXCEPT ![<<n, ts>>] = @ + 1]
  /\ now' = t2
AdmitUnchecked(n, ts, t1, t2) == \* mutant: the nonce is not looked up
  /\ Later(t1) /\ t1 <= t2
  /\ ~ OutsideWindow(ts, t1)
  /\ seen' = Evict(Register(seen, n, ts), t2)
  /\ admitted' = [admitted EXCEPT ![<<n, ts>>] = @ + 1]
  /\ now' = t2

\* is_replay returns False: the clock reads t1 for the window check and t2 in
\* _evict_expired.
Admit(n, ts, t1, t2) ==
  /\ Later(t1) /\ t1 <= t2
  /\ ~ OutsideWindow(ts, t1)
  /\ n \notin DOMAIN seen
  /\ seen' = Evict(Register(seen, n, ts), t2)
  /\ admitted' = [admitted EXCEPT ![<<n, ts>>] = @ + 1]
  /\ now' = t2

RejectRegisters(n, ts, t1) == \* mutant: the nonce is registered before the checks
  /\ Later(t1)
  /\ OutsideWindow(ts, t1) \/ n \in DOMAIN seen
  /\ seen' = Register(seen, n, ts)
  /\ now' = t1
  /\ UNCHANGED admitted

\* is_replay returns True: stale, early or already registered.  Nothing is
\* registered and nothing is evicted.
Reject(n, ts, t1) ==
  /\ Later(t1)
  /\ OutsideWindow(ts, t1) \/ n \in DOMAIN seen
  /\ now' = t1
  /\ UNCHANGED <<seen, admitted>>

\* The server process ends and starts again: its filter is a new object, and
\* the history starts over with it.
FilterReset ==
  /\ seen' = EmptyRegistry
  /\ admitted' = [p \in Packet |-> 0]
  /\ UNCHANGED now

FilterTick == Tick /\ UNCHANGED <<seen, admitted>>

FilterNext ==
  \/ \E n \in Nonce, ts \in Stamp, t1 \in Time :
        \/ \E t2 \in Time : Admit(n, ts, t1, t2)
        \/ Reject(n, ts, t1)
  \/ FilterReset
  \/ FilterTick

FilterSpec == FilterInit /\ [][FilterNext]_filterVars

-----------------------------------------------------------------------------
\* Types: the clock shows a reading, the registry maps nonces to timestamps.
FilterTypeOK ==
  /\ now \in Time
  /\ DOMAIN seen \subseteq Nonce
  /\ seen \in [DOMAIN seen -> Stamp]
  /\ admitted \in [Packet -> Nat]

\* No packet passes one filter twice, however often the network delivers it
\* and however late: zreplay.py promises "to prevent replay attacks" with a
\* registry that forgets.
AdmittedOnce == \A p \in Packet : admitted[p] <= 1

\* Eviction forgets only what the window check refuses from then on: a packet
\* that was admitted is still registered under its own timestamp, or its
\* timestamp has left the window for good.
ForgottenIsStale ==
  \A n \in Nonce, ts \in Stamp :
    admitted[<<n, ts>>] > 0 =>
      \/ n \in DOMAIN seen /\ seen[n] = ts
      \/ now - ts > Window

\* A registered nonce belongs to a packet that was admitted: a packet that is
\* refused leaves no trace, so it cannot block a later packet with its nonce.
RegisteredWasAdmitted ==
  \A n \in DOMAIN seen : admitted[<<n, seen[n]>>] > 0

\* Letting a packet through is what prunes the registry: from then until time
\* passes it holds timestamps of the last Window seconds (or the next ones)
\* only, so its size is bounded by what arrives within two windows.
AdmitPrunes ==
  [][ admitted' # admitted
        => \A n \in DOMAIN seen' : now' - seen'[n] <= Window ]_filterVars
=============================================================================
