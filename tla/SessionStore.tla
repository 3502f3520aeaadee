---------------------------- MODULE SessionStore ----------------------------
(* zsession.py: the sessions a server keeps.  A session expires a fixed time  *)
(* after its creation; get() and evict_expired() each decide that for         *)
(* themselves, at different moments and with different comparisons.           *)
(*                                                                            *)
(* Every call of a method is one action.  The ratchet stored in a session is  *)
(* opaque here (see DoubleRatchet).                                           *)
EXTENDS WallClock

CONSTANTS
  SessionId,
  TTL,        \* SessionStore.ttl
  MaxCount    \* bound: how often one session is got

ASSUME TtlAssumption == TTL \in Nat /\ MaxCount \in Nat

VARIABLE sessions   \* SessionStore.sessions, by session id

vars == <<now, sessions>>

Age(s) == now - s.created_at

\* sessions[sid] = s
Put(sid, s) == [i \in DOMAIN sessions \cup {sid} |-> IF i = sid THEN s ELSE sessions[i]]

-----------------------------------------------------------------------------
Init == now \in Time /\ sessions = [sid \in {} |-> now]

CreateSwapped(sid, t) == \* mutant: last_seen takes the earlier of the two readings
  /\ Later(t) /\ now' = t
  /\ sessions' = Put(sid, [created_at |-> t, last_seen |-> now, msg_count |-> 0])

\* create().  The clock is read twice.  A session under the same id is replaced.
Create(sid, t) ==
  /\ Later(t) /\ now' = t
  /\ sessions' = Put(sid, [created_at |-> now, last_seen |-> t, msg_count |-> 0])

GettableSinceUse(sid) == sid \in DOMAIN sessions /\ now - sessions[sid].last_seen < TTL \* mutant: sliding expiry
Gettable(sid) == sid \in DOMAIN sessions /\ Age(sessions[sid]) < TTL

\* get() of a session that it finds young enough: the clock is read again to
\* stamp it.
Get(sid, t) ==
  /\ Gettable(sid)
  /\ sessions[sid].msg_count < MaxCount
  /\ Later(t) /\ now' = t
  /\ sessions' = [sessions EXCEPT ![sid].last_seen = t, ![sid].msg_count = @ + 1]

\* get() returns None; a session that has expired stays in the dictionary.
GetNone(sid) == ~ Gettable(sid) /\ UNCHANGED vars

Overdue(sid) == Age(sessions[sid]) > TTL

EvictExpired ==
  /\ sessions' = [sid \in {i \in DOMAIN sessions : ~ Overdue(i)} |-> sessions[sid]]
  /\ UNCHANGED now

Pass == Tick /\ UNCHANGED sessions

Next ==
  \/ \E sid \in SessionId : \/ GetNone(sid)
                            \/ \E t \in Time : Create(sid, t) \/ Get(sid, t)
  \/ EvictExpired
  \/ Pass

Spec == Init /\ [][Next]_vars

-----------------------------------------------------------------------------
Session == [created_at : Time, last_seen : Time, msg_count : 0 .. MaxCount]

\* last_seen is the later reading, and neither lies ahead of the clock.
TypeOK ==
  /\ now \in Time
  /\ DOMAIN sessions \subseteq SessionId
  /\ \A sid \in DOMAIN sessions : LET s == sessions[sid]
                                  IN  /\ s \in Session
                                      /\ s.created_at <= s.last_seen /\ s.last_seen <= now

\* The store implements leases: a session can be used until TTL after its
\* creation, use does not prolong it, no one that get() has refused comes back,
\* and whether and when evict_expired() runs makes no difference to any caller.
Lease == INSTANCE SessionLease
           WITH live <- [sid \in {i \in DOMAIN sessions : Gettable(i)} |-> sessions[sid]]
ImplementsLease == Lease!LeaseSpec
=============================================================================
