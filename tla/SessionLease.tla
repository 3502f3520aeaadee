---------------------------- MODULE SessionLease ----------------------------
(* What a session store promises: a session can be used for a fixed time from *)
(* its creation, however often it is used, and is gone from then on.  Nothing *)
(* has to be cleaned up, and asking for a session that is gone changes        *)
(* nothing.                                                                   *)
EXTENDS WallClock

CONSTANTS SessionId, TTL

VARIABLE live   \* the sessions that can be used, by session id

leaseVars == <<now, live>>

\* The sessions of f that can still be used when the clock reads t
Alive(f, t) == [sid \in {i \in DOMAIN f : t - f[i].created_at < TTL} |-> f[sid]]

\* f with session s under sid
Put(f, sid, s) == [i \in DOMAIN f \cup {sid} |-> IF i = sid THEN s ELSE f[i]]

Begun(t)   == [created_at |-> now, last_seen |-> t, msg_count |-> 0]
UsedAt(s, t) == [s EXCEPT !.last_seen = t, !.msg_count = @ + 1]

LeaseInit == now \in Time /\ live = [sid \in {} |-> Begun(now)]

\* The clock reads t when the call returns.
Begin(sid, t) == /\ Later(t) /\ now' = t
                 /\ live' = Alive(Put(live, sid, Begun(t)), t)

Use(sid, t) == /\ Later(t) /\ now' = t
               /\ sid \in DOMAIN live
               /\ live' = Alive(Put(live, sid, UsedAt(live[sid], t)), t)

Expire == Tick /\ live' = Alive(live, now')

LeaseNext == \/ \E sid \in SessionId, t \in Time : Begin(sid, t) \/ Use(sid, t)
             \/ Expire

LeaseSpec == LeaseInit /\ [][LeaseNext]_leaseVars
=============================================================================
