------------------------- MODULE SessionStoreProofs -------------------------
(* The session store implements leases, for every lifetime, every set of      *)
(* session ids and every clock that does not run backwards.                   *)
(*                                                                            *)
(* What makes it so is that a session once too old stays too old: the clock   *)
(* only advances and created_at never changes.  evict_expired() then removes  *)
(* only sessions that are not in the lease any more, and is a stutter of it.  *)
EXTENDS SessionStore, TLAPS

USE TimeAssumption, TtlAssumption

\* The lease that the store implements
live == [sid \in {i \in DOMAIN sessions : Gettable(i)} |-> sessions[sid]]

LEMMA InitTypes == Init => TypeOK
  BY DEF Init, TypeOK

LEMMA StepTypes == TypeOK /\ [Next]_vars => TypeOK'
<1> SUFFICES ASSUME TypeOK, [Next]_vars PROVE TypeOK'
  OBVIOUS
<1> USE DEF TypeOK, Session
<1>1. ASSUME NEW sid \in SessionId, NEW t \in Time, Create(sid, t) PROVE TypeOK'
  <2> DEFINE new == [created_at |-> now, last_seen |-> t, msg_count |-> 0]
  <2>1. /\ now' = t /\ now <= t /\ now \in Time /\ now \in Int /\ t \in Int
        /\ sessions' = Put(sid, new)
    BY <1>1 DEF Create, Later
  <2>2. /\ DOMAIN sessions' = DOMAIN sessions \cup {sid}
        /\ \A i \in DOMAIN sessions' : sessions'[i] = IF i = sid THEN new ELSE sessions[i]
    BY <2>1 DEF Put
  <2>3. new \in Session /\ new.created_at = now /\ new.last_seen = t
    BY <2>1
  <2> SUFFICES ASSUME NEW i \in DOMAIN sessions'
               PROVE  /\ sessions'[i] \in Session
                      /\ sessions'[i].created_at <= sessions'[i].last_seen
                      /\ sessions'[i].last_seen <= now'
    BY <2>1, <2>2
  <2>4. CASE i = sid
    BY <2>1, <2>2, <2>3, <2>4
  <2>5. CASE i # sid
    <3>1. i \in DOMAIN sessions /\ sessions'[i] = sessions[i]
      BY <2>2, <2>5
    <3>2. sessions[i].last_seen \in Int
      BY <3>1
    <3> QED  BY <2>1, <3>1, <3>2
  <2> QED  BY <2>4, <2>5
<1>2. ASSUME NEW sid \in SessionId, NEW t \in Time, Get(sid, t) PROVE TypeOK'
  <2>1. /\ now' = t /\ now <= t /\ now \in Int /\ t \in Int
        /\ sid \in DOMAIN sessions /\ sessions[sid].msg_count < MaxCount
        /\ sessions' = [sessions EXCEPT ![sid].last_seen = t, ![sid].msg_count = @ + 1]
    BY <1>2 DEF Get, Later, Gettable
  <2>2. /\ DOMAIN sessions' = DOMAIN sessions
        /\ \A i \in DOMAIN sessions : i # sid => sessions'[i] = sessions[i]
        /\ sessions'[sid] = [sessions[sid] EXCEPT !.last_seen = t, !.msg_count = @ + 1]
    BY <2>1
  <2>3. sessions[sid] \in Session /\ sessions[sid].created_at <= sessions[sid].last_seen
        /\ sessions[sid].last_seen <= now
    BY <2>1
  <2>4. /\ sessions'[sid] \in Session
        /\ sessions'[sid].created_at = sessions[sid].created_at
        /\ sessions'[sid].last_seen = t
    BY <2>1, <2>2, <2>3
  <2> SUFFICES ASSUME NEW i \in DOMAIN sessions
               PROVE  /\ sessions'[i] \in Session
                      /\ sessions'[i].created_at <= sessions'[i].last_seen
                      /\ sessions'[i].last_seen <= now'
    BY <2>1, <2>2
  <2>5. sessions[i].last_seen \in Int /\ sessions[i].created_at \in Int
    OBVIOUS
  <2> QED  BY <2>1, <2>2, <2>3, <2>4, <2>5
<1>3. ASSUME NEW sid \in SessionId, GetNone(sid) PROVE TypeOK'
  BY <1>3 DEF GetNone, vars
<1>4. CASE EvictExpired
  BY <1>4 DEF EvictExpired
<1>5. CASE Pass
  <2>1. /\ now' \in Time /\ now < now' /\ now \in Int /\ now' \in Int
        /\ UNCHANGED sessions
    BY <1>5 DEF Pass, Tick
  <2>2. \A i \in DOMAIN sessions : sessions[i].last_seen \in Int
    OBVIOUS
  <2> QED  BY <2>1, <2>2
<1>6. CASE UNCHANGED vars
  BY <1>6 DEF vars
<1> QED  BY <1>1, <1>2, <1>3, <1>4, <1>5, <1>6 DEF Next

\* Sessions hold readings of one clock, in order.
THEOREM Types == Spec => []TypeOK
  BY InitTypes, StepTypes, PTL DEF Spec

-----------------------------------------------------------------------------
\* Which sessions a caller can use, in terms of readings of the clock
LEMMA LiveFacts ==
  ASSUME TypeOK
  PROVE  /\ now \in Int /\ TTL \in Int
         /\ DOMAIN live = {i \in DOMAIN sessions : now - sessions[i].created_at < TTL}
         /\ \A i \in DOMAIN live : live[i] = sessions[i]
         /\ \A i \in DOMAIN sessions : sessions[i].created_at \in Int
<1>1. now \in Int /\ TTL \in Int
  BY DEF TypeOK
<1>2. DOMAIN live = {i \in DOMAIN sessions : now - sessions[i].created_at < TTL}
      /\ \A i \in DOMAIN live : live[i] = sessions[i]
  BY DEF live, Gettable, Age
<1>3. \A i \in DOMAIN sessions : sessions[i].created_at \in Int
  BY DEF TypeOK, Session
<1> QED  BY <1>1, <1>2, <1>3

\* The lease after a step, by the new dictionary and the new reading
LEMMA LiveNext ==
  live' = [sid \in {i \in DOMAIN sessions' : now' - sessions'[i].created_at < TTL}
             |-> sessions'[sid]]
  BY DEF live, Gettable, Age

\* Replacing one session and letting the clock advance has the same effect on
\* the lease as on the store.
LEMMA PutIsPut ==
  ASSUME TypeOK, NEW sid, NEW s, NEW t \in Time, now <= t, now' = t,
         sessions' = Put(sid, s)
  PROVE  live' = Lease!Alive(Lease!Put(live, sid, s), t)
<1> DEFINE p == Lease!Put(live, sid, s)
<1>1. /\ DOMAIN p = DOMAIN live \cup {sid}
      /\ \A i \in DOMAIN p : p[i] = IF i = sid THEN s ELSE live[i]
  BY DEF Lease!Put, live
<1>2. /\ DOMAIN sessions' = DOMAIN sessions \cup {sid}
      /\ \A i \in DOMAIN sessions' : sessions'[i] = IF i = sid THEN s ELSE sessions[i]
  BY DEF Put
<1>3. t \in Int
  OBVIOUS
<1>4. \A i : (i \in DOMAIN sessions' /\ t - sessions'[i].created_at < TTL)
             <=> (i \in DOMAIN p /\ t - p[i].created_at < TTL)
  <2> SUFFICES ASSUME NEW i
               PROVE (i \in DOMAIN sessions' /\ t - sessions'[i].created_at < TTL)
                     <=> (i \in DOMAIN p /\ t - p[i].created_at < TTL)
    OBVIOUS
  <2>1. CASE i = sid
    BY <1>1, <1>2, <2>1
  <2>2. CASE i # sid
    BY <1>1, <1>2, <1>3, <2>2, LiveFacts
  <2> QED  BY <2>1, <2>2
<1>5. {i \in DOMAIN sessions' : t - sessions'[i].created_at < TTL}
      = {i \in DOMAIN p : t - p[i].created_at < TTL}
  BY <1>4
<1>6. \A i \in {j \in DOMAIN p : t - p[j].created_at < TTL} : sessions'[i] = p[i]
  BY <1>1, <1>2, <1>4, LiveFacts
<1>7. live' = [i \in {j \in DOMAIN sessions' : t - sessions'[j].created_at < TTL}
                 |-> sessions'[i]]
  BY LiveNext
<1>8. live' = [i \in {j \in DOMAIN p : t - p[j].created_at < TTL} |-> p[i]]
  BY <1>5, <1>6, <1>7
<1> QED  BY <1>8 DEF Lease!Alive

\* Every step of the store is a step of the lease or leaves it as it is.
LEMMA StepImplements ==
  ASSUME TypeOK, [Next]_vars
  PROVE  [Lease!LeaseNext]_(Lease!leaseVars)
<1> USE DEF Lease!LeaseNext, Lease!leaseVars
<1>0. now \in Int
  BY LiveFacts
<1>1. ASSUME NEW sid \in SessionId, NEW t \in Time, Create(sid, t)
      PROVE  Lease!Begin(sid, t)
  <2>1. live' = Lease!Alive(Lease!Put(live, sid, Lease!Begun(t)), t)
    BY <1>1, PutIsPut DEF Create, Later, Lease!Begun
  <2> QED  BY <1>1, <2>1 DEF Create, Later, Lease!Begin, Lease!Later, live
<1>2. ASSUME NEW sid \in SessionId, NEW t \in Time, Get(sid, t)
      PROVE  Lease!Use(sid, t)
  <2>1. sid \in DOMAIN sessions /\ sid \in DOMAIN live /\ live[sid] = sessions[sid]
    BY <1>2 DEF Get, Gettable, live
  <2>2. sessions[sid] \in Session
    BY <2>1 DEF TypeOK
  <2>3. sessions' = Put(sid, Lease!UsedAt(live[sid], t))
    BY <1>2, <2>1, <2>2 DEF Get, Put, Lease!UsedAt, Session
  <2>4. live' = Lease!Alive(Lease!Put(live, sid, Lease!UsedAt(live[sid], t)), t)
    BY <1>2, <2>3, PutIsPut DEF Get, Later
  <2> QED  BY <1>2, <2>1, <2>4 DEF Get, Later, Lease!Use, Lease!Later, live
<1>3. ASSUME NEW sid \in SessionId, GetNone(sid)
      PROVE  UNCHANGED <<now, live>>
  BY <1>3 DEF GetNone, vars, live, Gettable, Age
<1>4. CASE EvictExpired
  <2>1. /\ now' = now
        /\ DOMAIN sessions' = {i \in DOMAIN sessions : ~ (now - sessions[i].created_at > TTL)}
        /\ \A i \in DOMAIN sessions' : sessions'[i] = sessions[i]
    BY <1>4 DEF EvictExpired, Overdue, Age
  <2>2. {i \in DOMAIN sessions' : now' - sessions'[i].created_at < TTL} = DOMAIN live
    BY <2>1, LiveFacts
  <2>3. live = [i \in DOMAIN live |-> sessions[i]]
    BY LiveFacts DEF live
  <2>4. live' = [i \in DOMAIN live |-> sessions'[i]]
    BY <2>2, LiveNext
  <2>5. \A i \in DOMAIN live : sessions'[i] = sessions[i]
    BY <2>1, <2>2
  <2> QED  BY <2>1, <2>3, <2>4, <2>5 DEF live
<1>5. CASE Pass
  <2>1. /\ now' \in Time /\ now < now' /\ now' \in Int /\ sessions' = sessions
    BY <1>5 DEF Pass, Tick
  <2>2. {i \in DOMAIN sessions : now' - sessions[i].created_at < TTL}
        = {i \in DOMAIN live : now' - live[i].created_at < TTL}
    BY <1>0, <2>1, LiveFacts
  <2>3. live' = Lease!Alive(live, now')
    BY <2>1, <2>2, LiveNext, LiveFacts DEF Lease!Alive
  <2> QED  BY <1>5, <2>3 DEF Pass, Tick, Lease!Expire, Lease!Tick, live
<1>6. CASE UNCHANGED vars
  BY <1>6 DEF vars, live, Gettable, Age
<1> QED  BY <1>1, <1>2, <1>3, <1>4, <1>5, <1>6 DEF Next, live

\* An empty store is an empty lease.
LEMMA InitImplements == Init => Lease!LeaseInit
  BY DEF Init, Lease!LeaseInit, Gettable

\* The store implements the lease.
THEOREM Refinement == Spec => ImplementsLease
<1>1. TypeOK /\ [Next]_vars => [Lease!LeaseNext]_(Lease!leaseVars)
  BY StepImplements
<1> QED  BY <1>1, InitImplements, Types, PTL DEF Spec, ImplementsLease, Lease!LeaseSpec

\* What an eviction leaves is usable, or exactly TTL old and gone at the next
\* reading of the clock.
Thorough ==
  DOMAIN sessions' # DOMAIN sessions /\ DOMAIN sessions' \subseteq DOMAIN sessions
  => \A sid \in DOMAIN sessions' : Gettable(sid) \/ Age(sessions[sid]) = TTL

\* One call of evict_expired() is enough: nothing is left that is past its life.
THEOREM Thoroughness == Spec => [][Thorough]_vars
<1>1. TypeOK /\ [Next]_vars => [Thorough]_vars
  <2> SUFFICES ASSUME TypeOK, Next,
                      DOMAIN sessions' # DOMAIN sessions,
                      DOMAIN sessions' \subseteq DOMAIN sessions,
                      NEW sid \in DOMAIN sessions'
               PROVE  Gettable(sid) \/ Age(sessions[sid]) = TTL
    BY DEF vars, Thorough
  <2>1. EvictExpired
    BY DEF Next, Create, Put, Get, GetNone, vars, Pass
  <2>2. sid \in DOMAIN sessions /\ ~ (now - sessions[sid].created_at > TTL)
    BY <2>1 DEF EvictExpired, Overdue, Age
  <2> QED  BY <2>2, LiveFacts DEF Gettable, Age
<1> QED  BY <1>1, Types, PTL DEF Spec
=============================================================================
