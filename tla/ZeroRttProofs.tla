---------------------------- MODULE ZeroRttProofs ----------------------------
(* Phase 4 acts on every message at most once, keeps sessions only with       *)
(* clients that share its key and never encrypts two messages under one key,  *)
(* for any number of clients, any window and any number of restarts.          *)
(*                                                                            *)
(* Every step of the system is a step of the replay filter or leaves it       *)
(* alone, so the filter's invariant holds.  What is added is why the registry *)
(* may be lost with the server: key files hold keys of past incarnations      *)
(* only, so a message that an earlier incarnation has read is sealed for a    *)
(* key that no later one has.                                                 *)
EXTENDS ZeroRtt, ReplaySetBack, TLAPS

USE EpochAssumption, TimeAssumption, StampAssumption, WindowAssumption

-----------------------------------------------------------------------------
(* The replay filter lets no packet through twice, for every window, every    *)
(* set of nonces and timestamps and every clock that does not run backwards.  *)
(*                                                                            *)
(* AdmittedOnce is not inductive: the registry forgets.  It becomes so with   *)
(* ForgottenIsStale, which says that whatever the registry no longer holds is *)
(* refused by the window check, now and, as the clock only advances, forever. *)

FilterInv ==
  /\ FilterTypeOK
  /\ AdmittedOnce
  /\ ForgottenIsStale
  /\ RegisteredWasAdmitted

\* Registering a nonce and pruning the registry: an entry of the result is the
\* new one or an old one, and what is missing has expired.
LEMMA PrunedRegistry ==
  ASSUME NEW reg, NEW n, NEW ts, NEW t,
         NEW new, new = Evict(Register(reg, n, ts), t)
  PROVE  /\ new = [m \in DOMAIN new |-> new[m]]
         /\ \A m \in DOMAIN new :
              /\ m = n => new[m] = ts
              /\ m # n => m \in DOMAIN reg /\ new[m] = reg[m]
              /\ ~ (t - new[m] > Window)
         /\ n \in DOMAIN new \/ t - ts > Window
         /\ \A m \in DOMAIN reg :
              m # n => m \in DOMAIN new \/ t - reg[m] > Window
  BY DEF Evict, Register

\* A filter starts with an empty registry and an empty history.
LEMMA FilterInitInv == FilterInit => FilterInv
  BY DEF FilterInit, FilterInv, FilterTypeOK, AdmittedOnce, ForgottenIsStale,
         RegisteredWasAdmitted, EmptyRegistry, Packet

\* What the filter lets through it has not let through before.
LEMMA AdmitIsFirst ==
  ASSUME FilterInv, NEW n \in Nonce, NEW ts \in Stamp,
         NEW t1 \in Time, NEW t2 \in Time, Admit(n, ts, t1, t2)
  PROVE  admitted[<<n, ts>>] = 0
<1>1. /\ <<n, ts>> \in Packet
      /\ now \in Int /\ t1 \in Int /\ ts \in Int
      /\ admitted \in [Packet -> Nat]
  BY DEF Packet, FilterInv, FilterTypeOK
<1>2. n \notin DOMAIN seen /\ ~ (now - ts > Window)
  BY <1>1 DEF Admit, OutsideWindow, Later
<1>3. ~ (admitted[<<n, ts>>] > 0)
  BY <1>2 DEF FilterInv, ForgottenIsStale
<1> QED  BY <1>1, <1>3

\* What letting a packet through does, before it is asked how often.
LEMMA AdmitFacts ==
  ASSUME FilterTypeOK, NEW n \in Nonce, NEW ts \in Stamp,
         NEW t1 \in Time, NEW t2 \in Time, Admit(n, ts, t1, t2)
  PROVE  /\ <<n, ts>> \in Packet
         /\ now \in Int /\ t1 \in Int /\ t2 \in Int /\ ts \in Int
         /\ now <= t1 /\ t1 <= t2 /\ now' = t2 /\ ~ (t1 - ts > Window)
         /\ admitted \in [Packet -> Nat]
         /\ admitted' = [admitted EXCEPT ![<<n, ts>>] = @ + 1]
         /\ n \notin DOMAIN seen
         /\ DOMAIN seen \subseteq Nonce
         /\ seen \in [DOMAIN seen -> Stamp]
         /\ \A m \in DOMAIN seen' :
              /\ m = n => seen'[m] = ts
              /\ m # n => m \in DOMAIN seen /\ seen'[m] = seen[m]
              /\ ~ (t2 - seen'[m] > Window)
         /\ n \in DOMAIN seen' \/ t2 - ts > Window
         /\ \A m \in DOMAIN seen :
              m # n => m \in DOMAIN seen' \/ t2 - seen[m] > Window
         /\ FilterTypeOK'
<1>1. /\ <<n, ts>> \in Packet
      /\ now \in Int /\ t1 \in Int /\ t2 \in Int /\ ts \in Int
      /\ now <= t1 /\ t1 <= t2 /\ now' = t2
  BY DEF Admit, Later, Packet, FilterTypeOK
<1>2. /\ admitted \in [Packet -> Nat]
      /\ admitted' = [admitted EXCEPT ![<<n, ts>>] = @ + 1]
      /\ n \notin DOMAIN seen
      /\ DOMAIN seen \subseteq Nonce
      /\ seen \in [DOMAIN seen -> Stamp]
  BY DEF Admit, FilterTypeOK
<1>3. /\ seen' = [m \in DOMAIN seen' |-> seen'[m]]
      /\ \A m \in DOMAIN seen' :
           /\ m = n => seen'[m] = ts
           /\ m # n => m \in DOMAIN seen /\ seen'[m] = seen[m]
           /\ ~ (t2 - seen'[m] > Window)
      /\ n \in DOMAIN seen' \/ t2 - ts > Window
      /\ \A m \in DOMAIN seen :
           m # n => m \in DOMAIN seen' \/ t2 - seen[m] > Window
  <2>1. seen' = Evict(Register(seen, n, ts), t2)
    BY DEF Admit
  <2> QED  BY <2>1, PrunedRegistry
<1>4. FilterTypeOK'
  <2>1. DOMAIN seen' \subseteq Nonce /\ \A m \in DOMAIN seen' : seen'[m] \in Stamp
    BY <1>2, <1>3
  <2> QED  BY <1>1, <1>2, <1>3, <2>1 DEF FilterTypeOK
<1>5. ~ (t1 - ts > Window)
  BY DEF Admit, OutsideWindow
<1> QED  BY <1>1, <1>2, <1>3, <1>4, <1>5

\* Letting a packet through keeps the invariant.
LEMMA AdmitInv ==
  ASSUME FilterInv, NEW n \in Nonce, NEW ts \in Stamp,
         NEW t1 \in Time, NEW t2 \in Time, Admit(n, ts, t1, t2)
  PROVE  FilterInv'
<1> DEFINE p == <<n, ts>>
<1>1. /\ p \in Packet
      /\ now \in Int /\ t1 \in Int /\ t2 \in Int /\ ts \in Int
      /\ now <= t1 /\ t1 <= t2 /\ now' = t2
  BY AdmitFacts DEF FilterInv
<1>2. /\ admitted \in [Packet -> Nat]
      /\ admitted' = [admitted EXCEPT ![p] = @ + 1]
      /\ n \notin DOMAIN seen
      /\ DOMAIN seen \subseteq Nonce
      /\ seen \in [DOMAIN seen -> Stamp]
  BY AdmitFacts DEF FilterInv
<1>3. /\ \A m \in DOMAIN seen' :
           /\ m = n => seen'[m] = ts
           /\ m # n => m \in DOMAIN seen /\ seen'[m] = seen[m]
           /\ ~ (t2 - seen'[m] > Window)
      /\ n \in DOMAIN seen' \/ t2 - ts > Window
      /\ \A m \in DOMAIN seen :
           m # n => m \in DOMAIN seen' \/ t2 - seen[m] > Window
  BY AdmitFacts DEF FilterInv
<1>4. FilterTypeOK'
  BY AdmitFacts DEF FilterInv
<1>5. admitted[p] = 0
  BY AdmitIsFirst
<1>6. AdmittedOnce'
  <2> SUFFICES ASSUME NEW q \in Packet PROVE admitted'[q] <= 1
    BY DEF AdmittedOnce
  <2>1. CASE q = p
    BY <1>1, <1>2, <1>5, <2>1
  <2>2. CASE q # p
    BY <1>2, <2>2 DEF FilterInv, AdmittedOnce
  <2> QED  BY <2>1, <2>2
<1>7. ForgottenIsStale'
  <2> SUFFICES ASSUME NEW m \in Nonce, NEW us \in Stamp,
                      admitted'[<<m, us>>] > 0
               PROVE  \/ m \in DOMAIN seen' /\ seen'[m] = us
                      \/ now' - us > Window
    BY DEF ForgottenIsStale
  <2>1. CASE m = n /\ us = ts
    BY <1>1, <1>3, <2>1
  <2>2. CASE ~ (m = n /\ us = ts)
    <3>1. admitted[<<m, us>>] > 0
      BY <1>2, <2>2 DEF Packet
    <3>2. \/ m \in DOMAIN seen /\ seen[m] = us
          \/ now - us > Window
      BY <3>1 DEF FilterInv, ForgottenIsStale
    <3>3. us \in Int
      OBVIOUS
    <3>4. CASE now - us > Window
      BY <1>1, <3>3, <3>4
    <3>5. CASE m \in DOMAIN seen /\ seen[m] = us
      BY <1>1, <1>2, <1>3, <3>5
    <3> QED  BY <3>2, <3>4, <3>5
  <2> QED  BY <2>1, <2>2
<1>8. RegisteredWasAdmitted'
  <2> SUFFICES ASSUME NEW m \in DOMAIN seen'
               PROVE  admitted'[<<m, seen'[m]>>] > 0
    BY DEF RegisteredWasAdmitted
  <2>1. CASE m = n
    BY <1>1, <1>2, <1>3, <1>5, <2>1
  <2>2. CASE m # n
    <3>1. m \in DOMAIN seen /\ seen'[m] = seen[m]
      BY <1>3, <2>2
    <3>2. <<m, seen[m]>> \in Packet /\ <<m, seen[m]>> # p
      BY <1>2, <2>2, <3>1 DEF Packet
    <3>3. admitted[<<m, seen[m]>>] > 0
      BY <3>1 DEF FilterInv, RegisteredWasAdmitted
    <3> QED  BY <1>2, <3>1, <3>2, <3>3
  <2> QED  BY <2>1, <2>2
<1> QED  BY <1>4, <1>6, <1>7, <1>8 DEF FilterInv

\* A step that only lets time pass keeps the invariant: stale stays stale.
LEMMA LaterInv ==
  ASSUME FilterInv, now' \in Time, now <= now', UNCHANGED <<seen, admitted>>
  PROVE  FilterInv'
<1>1. FilterTypeOK' /\ AdmittedOnce' /\ RegisteredWasAdmitted'
  BY DEF FilterInv, FilterTypeOK, AdmittedOnce, RegisteredWasAdmitted
<1>2. ForgottenIsStale'
  <2> SUFFICES ASSUME NEW m \in Nonce, NEW us \in Stamp,
                      admitted[<<m, us>>] > 0
               PROVE  \/ m \in DOMAIN seen /\ seen[m] = us
                      \/ now' - us > Window
    BY DEF ForgottenIsStale
  <2>1. \/ m \in DOMAIN seen /\ seen[m] = us
        \/ now - us > Window
    BY DEF FilterInv, ForgottenIsStale
  <2>2. now \in Int /\ now' \in Int /\ us \in Int
    BY DEF FilterInv, FilterTypeOK
  <2> QED  BY <2>1, <2>2
<1> QED  BY <1>1, <1>2 DEF FilterInv

\* Every step of the filter keeps the invariant.
LEMMA FilterStepInv == FilterInv /\ [FilterNext]_filterVars => FilterInv'
<1> SUFFICES ASSUME FilterInv, [FilterNext]_filterVars PROVE FilterInv'
  OBVIOUS
<1>0. now \in Time
  BY DEF FilterInv, FilterTypeOK
<1>1. ASSUME NEW n \in Nonce, NEW ts \in Stamp, NEW t1 \in Time, NEW t2 \in Time,
             Admit(n, ts, t1, t2)
      PROVE  FilterInv'
  BY <1>1, AdmitInv
<1>2. ASSUME NEW n \in Nonce, NEW ts \in Stamp, NEW t1 \in Time, Reject(n, ts, t1)
      PROVE  FilterInv'
  BY <1>2, LaterInv DEF Reject, Later
<1>3. CASE FilterReset
  BY <1>3 DEF FilterReset, FilterInv, FilterTypeOK, AdmittedOnce,
              ForgottenIsStale, RegisteredWasAdmitted, EmptyRegistry, Packet
<1>4. CASE FilterTick
  <2>1. now' \in Time /\ now <= now' /\ UNCHANGED <<seen, admitted>>
    BY <1>0, <1>4 DEF FilterTick, Tick
  <2> QED  BY <2>1, LaterInv
<1>5. CASE UNCHANGED filterVars
  BY <1>5 DEF filterVars, FilterInv, FilterTypeOK, AdmittedOnce,
              ForgottenIsStale, RegisteredWasAdmitted
<1> QED  BY <1>1, <1>2, <1>3, <1>4, <1>5 DEF FilterNext

\* The invariant of every run of the filter.
THEOREM FilterInvariance == FilterSpec => []FilterInv
  BY FilterInitInv, FilterStepInv, PTL DEF FilterSpec

\* The registry maps nonces to the timestamps that packets carry.
THEOREM FilterTypes == FilterSpec => []FilterTypeOK
  BY FilterInvariance, PTL DEF FilterInv

\* One filter lets every packet through at most once.
THEOREM FilterAdmitsOnce == FilterSpec => []AdmittedOnce
  BY FilterInvariance, PTL DEF FilterInv

\* The registry forgets only packets that the window check refuses for good.
THEOREM FilterForgetsStale == FilterSpec => []ForgottenIsStale
  BY FilterInvariance, PTL DEF FilterInv

\* A refused packet leaves no trace in the registry.
THEOREM FilterRegistersAdmitted == FilterSpec => []RegisteredWasAdmitted
  BY FilterInvariance, PTL DEF FilterInv

\* Whenever a packet is let through, expired entries are gone.
THEOREM FilterPrunes == FilterSpec => AdmitPrunes
<1> DEFINE Prunes == admitted' # admitted
                       => \A n \in DOMAIN seen' : now' - seen'[n] <= Window
<1>1. ASSUME FilterInv, [FilterNext]_filterVars PROVE [Prunes]_filterVars
  <2> SUFFICES ASSUME admitted' # admitted, NEW m \in DOMAIN seen'
               PROVE  now' - seen'[m] <= Window
    OBVIOUS
  <2>1. CASE FilterReset
    BY <2>1 DEF FilterReset, EmptyRegistry
  <2>2. ASSUME NEW n \in Nonce, NEW ts \in Stamp, NEW t1 \in Time, NEW t2 \in Time,
               Admit(n, ts, t1, t2)
        PROVE  now' - seen'[m] <= Window
    <3>1. FilterTypeOK'
      BY <1>1, <2>2, AdmitInv DEF FilterInv
    <3>2. ~ (t2 - seen'[m] > Window) /\ now' = t2
      <4>1. seen' = Evict(Register(seen, n, ts), t2) /\ now' = t2
        BY <2>2 DEF Admit
      <4> QED  BY <4>1, PrunedRegistry
    <3>3. seen'[m] \in Int /\ t2 \in Int
      BY <3>1 DEF FilterTypeOK
    <3> QED  BY <3>2, <3>3
  <2> QED
    BY <1>1, <2>1, <2>2 DEF FilterNext, Reject, FilterTick, filterVars
<1> QED  BY <1>1, FilterInvariance, PTL DEF FilterSpec, AdmitPrunes

-----------------------------------------------------------------------------
(* The filter under a clock that is set back.  How often a packet was let     *)
(* through is paid for by the times the clock was set back and, while the     *)
(* packet would be refused now, by one more.                                  *)

Refused(n, ts) ==
  \/ n \in DOMAIN seen /\ seen[n] = ts
  \/ now - ts > Window

SetBackInv ==
  /\ FilterTypeOK
  /\ setBacks \in Nat
  /\ \A n \in Nonce, ts \in Stamp :
       /\ admitted[<<n, ts>>] <= setBacks + 1
       /\ ~ Refused(n, ts) => admitted[<<n, ts>>] <= setBacks

\* A packet that is let through was not refused, and is from now on.
LEMMA AdmitPays ==
  ASSUME SetBackInv, NEW n \in Nonce, NEW ts \in Stamp,
         NEW t1 \in Time, NEW t2 \in Time, Admit(n, ts, t1, t2), UNCHANGED setBacks
  PROVE  SetBackInv'
<1> DEFINE p == <<n, ts>>
<1>1. /\ p \in Packet
      /\ now \in Int /\ t1 \in Int /\ t2 \in Int /\ ts \in Int
      /\ now <= t1 /\ t1 <= t2 /\ now' = t2 /\ ~ (t1 - ts > Window)
      /\ admitted \in [Packet -> Nat]
      /\ admitted' = [admitted EXCEPT ![p] = @ + 1]
      /\ n \notin DOMAIN seen
      /\ FilterTypeOK'
  BY AdmitFacts DEF SetBackInv
<1>2. /\ \A m \in DOMAIN seen' : m = n => seen'[m] = ts
      /\ n \in DOMAIN seen' \/ t2 - ts > Window
      /\ \A m \in DOMAIN seen : m # n => m \in DOMAIN seen' \/ t2 - seen[m] > Window
      /\ \A m \in DOMAIN seen' : m # n => seen'[m] = seen[m]
      /\ \A m \in DOMAIN seen : seen[m] \in Int
  BY AdmitFacts DEF SetBackInv
<1>3. admitted[p] <= setBacks
  BY <1>1 DEF SetBackInv, Refused
<1>4. ASSUME NEW m \in Nonce, NEW us \in Stamp
      PROVE  /\ admitted'[<<m, us>>] <= setBacks + 1
             /\ ~ Refused(m, us)' => admitted'[<<m, us>>] <= setBacks
  <2>0. <<m, us>> \in Packet /\ admitted[<<m, us>>] \in Nat /\ setBacks \in Nat /\ us \in Int
    BY <1>1 DEF Packet, SetBackInv
  <2>1. CASE m = n /\ us = ts
    <3>1. Refused(m, us)'
      BY <1>1, <1>2, <2>1 DEF Refused
    <3> QED  BY <1>1, <1>3, <2>0, <2>1, <3>1
  <2>2. CASE ~ (m = n /\ us = ts)
    <3>1. admitted'[<<m, us>>] = admitted[<<m, us>>]
      BY <1>1, <2>2
    <3>2. Refused(m, us) => Refused(m, us)'
      BY <1>1, <1>2, <2>0 DEF Refused
    <3> QED  BY <3>1, <3>2 DEF SetBackInv
  <2> QED  BY <2>1, <2>2
<1> QED  BY <1>1, <1>4 DEF SetBackInv

\* While time goes on and the registry stays, what is refused stays refused.
LEMMA RefusedStays ==
  ASSUME now \in Int, NEW t \in Int, now <= t, now' = t, seen' = seen,
         NEW n \in Nonce, NEW ts \in Stamp, Refused(n, ts)
  PROVE  Refused(n, ts)'
<1>1. ts \in Int /\ Window \in Int
  OBVIOUS
<1>2. now - ts > Window => t - ts > Window
  BY <1>1
<1> QED  BY <1>2 DEF Refused

LEMMA SetBackStep == SetBackInv /\ [SetBackNext]_setBackVars => SetBackInv'
<1> SUFFICES ASSUME SetBackInv, [SetBackNext]_setBackVars PROVE SetBackInv'
  OBVIOUS
<1>0. now \in Int /\ setBacks \in Nat /\ admitted \in [Packet -> Nat]
  BY DEF SetBackInv, FilterTypeOK
<1>1. ASSUME NEW n \in Nonce, NEW ts \in Stamp, NEW t1 \in Time, NEW t2 \in Time,
             Admit(n, ts, t1, t2), UNCHANGED setBacks
      PROVE  SetBackInv'
  BY <1>1, AdmitPays
<1>2. ASSUME now' \in Time, now <= now', UNCHANGED <<seen, admitted, setBacks>>
      PROVE  SetBackInv'
  <2>1. \A n \in Nonce, ts \in Stamp : Refused(n, ts) => Refused(n, ts)'
    BY <1>0, <1>2, RefusedStays
  <2>2. FilterTypeOK'
    BY <1>2 DEF SetBackInv, FilterTypeOK
  <2> QED  BY <1>2, <2>1, <2>2 DEF SetBackInv
<1>3. CASE FilterReset /\ setBacks' = 0
  BY <1>3 DEF FilterReset, SetBackInv, FilterTypeOK, EmptyRegistry, Packet
<1>4. CASE SetBack
  <2>1. /\ setBacks' = setBacks + 1 /\ UNCHANGED <<seen, admitted>> /\ now' \in Time
    BY <1>4 DEF SetBack
  <2>2. FilterTypeOK'
    BY <2>1 DEF SetBackInv, FilterTypeOK
  <2>3. \A n \in Nonce, ts \in Stamp : admitted[<<n, ts>>] \in Nat
    BY <1>0 DEF Packet
  <2> QED  BY <1>0, <2>1, <2>2, <2>3 DEF SetBackInv
<1>5. ASSUME NEW n \in Nonce, NEW ts \in Stamp, NEW t1 \in Time, Reject(n, ts, t1),
             UNCHANGED setBacks
      PROVE  SetBackInv'
  BY <1>2, <1>5 DEF Reject, Later
<1>6. CASE FilterTick /\ UNCHANGED setBacks
  BY <1>0, <1>2, <1>6 DEF FilterTick, Tick
<1>7. CASE UNCHANGED setBackVars
  BY <1>7 DEF setBackVars, filterVars, SetBackInv, FilterTypeOK, Refused
<1> QED  BY <1>1, <1>3, <1>4, <1>5, <1>6, <1>7 DEF SetBackNext

\* A filter whose clock is set back n times lets a packet through n + 1 times at
\* most; with a clock that is never set back this is FilterAdmitsOnce.
THEOREM SetBackAdmits == SetBackSpec => []AdmittedPerSetBack
<1>1. SetBackInit => SetBackInv
  BY DEF SetBackInit, FilterInit, SetBackInv, FilterTypeOK, EmptyRegistry, Packet
<1>2. SetBackInv => AdmittedPerSetBack
  <2> SUFFICES ASSUME SetBackInv, NEW p \in Packet PROVE admitted[p] <= 1 + setBacks
    BY DEF AdmittedPerSetBack
  <2>1. p[1] \in Nonce /\ p[2] \in Stamp /\ p = <<p[1], p[2]>>
    BY DEF Packet
  <2>2. admitted[<<p[1], p[2]>>] <= setBacks + 1
    BY <2>1 DEF SetBackInv
  <2>3. admitted[p] \in Nat /\ setBacks \in Nat
    BY DEF SetBackInv, FilterTypeOK
  <2> QED  BY <2>1, <2>2, <2>3
<1> QED  BY <1>1, <1>2, SetBackStep, PTL DEF SetBackSpec

-----------------------------------------------------------------------------
(* The exchange *)

\* No key comes from an incarnation that has not started yet.
KeysArePast ==
  /\ kemFile <= epoch /\ xFile <= epoch
  /\ \A c \in Client : kem[c] <= epoch /\ x[c] <= epoch

\* The filter has seen only packets that were sent, under their own timestamp.
AdmittedWasSent ==
  \A c \in Client, ts \in Stamp :
    admitted[<<c, ts>>] > 0 => c \in Sent /\ stamp[c] = ts

\* A message was read at most once; while the incarnation that read it runs, the
\* filter knows its packet.
ReadOnce ==
  \A c \in Client :
    processed[c] > 0 =>
      /\ processed[c] = 1
      /\ c \in Sent
      /\ SharesKey(c) /\ phase # "down" => admitted[<<c, stamp[c]>>] > 0

\* The client's message uses the first ratchet key, the ACK to it the second.
KeysCountMessages ==
  \A c \in Client :
    /\ keyUses[<<c, MessageKey>>] = IF c \in Sent THEN 1 ELSE 0
    /\ keyUses[<<c, AckKey>>] = processed[c]

StoppedIsEmpty == phase = "down" => sessions = {}

Inv ==
  /\ TypeOK
  /\ FilterInv
  /\ KeysArePast
  /\ AdmittedWasSent
  /\ ReadOnce
  /\ KeysCountMessages
  /\ StoppedIsEmpty
  /\ SessionsShareKeys
  /\ OnlyDamageWastesANonce

-----------------------------------------------------------------------------
\* The initial state.
LEMMA InitInv == Init => Inv
<1> SUFFICES ASSUME Init PROVE Inv
  OBVIOUS
<1>1. FilterInv
  BY FilterInitInv DEF Init
<1>2. Sent = {} /\ net = {} /\ sessions = {} /\ epoch = 0 /\ phase = "down"
  BY DEF Init, Sent
<1>3. admitted = [p \in Packet |-> 0]
  BY DEF Init, FilterInit
<1>4. TypeOK
  BY <1>1, <1>2 DEF Init, TypeOK, FilterInv, NoFile, KeyFile, Epoch
<1>5. KeysArePast
  BY <1>2 DEF Init, KeysArePast, NoFile
<1>6. AdmittedWasSent /\ OnlyDamageWastesANonce
  BY <1>2, <1>3 DEF AdmittedWasSent, OnlyDamageWastesANonce, Packet, Client
<1>7. ReadOnce /\ StoppedIsEmpty /\ SessionsShareKeys
  BY <1>2 DEF Init, ReadOnce, StoppedIsEmpty, SessionsShareKeys
<1>8. KeysCountMessages
  BY <1>2 DEF Init, KeysCountMessages, MessageKey, AckKey
<1> QED  BY <1>1, <1>4, <1>5, <1>6, <1>7, <1>8 DEF Inv

\* Every step of the system is a step of its replay filter, or leaves it alone.
LEMMA FilterImplemented == TypeOK /\ [Next]_vars => [FilterNext]_filterVars
<1> SUFFICES ASSUME TypeOK, [Next]_vars PROVE [FilterNext]_filterVars
  OBVIOUS
<1>1. CASE Stop
  BY <1>1 DEF Stop, FilterNext
<1>2. CASE Pass
  BY <1>2 DEF Pass, FilterNext
<1>3. ASSUME NEW c \in Client, NEW how \in Condition, Receive(c, how)
      PROVE  [FilterNext]_filterVars
  <2>1. \/ Drop(c, how)
        \/ \E t1 \in Time : \/ DropReplayed(c, how, t1)
                            \/ \E t2 \in Time : Accept(c, how, t1, t2)
    BY <1>3 DEF Receive
  <2>2. c \in Nonce /\ stamp[c] \in Stamp
    BY <1>3 DEF Receive, TypeOK, Client
  <2>4. CASE Drop(c, how)
    BY <2>4 DEF Drop, vars
  <2>5. CASE \E t1 \in Time : DropReplayed(c, how, t1)
    BY <2>2, <2>5 DEF DropReplayed, FilterNext
  <2>6. CASE \E t1, t2 \in Time : Accept(c, how, t1, t2)
    BY <2>2, <2>6 DEF Accept, FilterNext
  <2> QED  BY <2>1, <2>4, <2>5, <2>6
<1>4. CASE Start \/ WriteKem \/ OpenX \/ WriteXAndListen
  BY <1>4 DEF Start, WriteKem, OpenX, WriteXAndListen
<1>5. ASSUME NEW c \in Client, ReadKem(c) \/ ReadX(c) \/ Send(c) \/ Damage(c)
      PROVE  [FilterNext]_filterVars
  BY <1>5 DEF ReadKem, ReadX, Send, Damage
<1>6. CASE UNCHANGED vars
  BY <1>6 DEF vars
<1> QED  BY <1>1, <1>2, <1>3, <1>4, <1>5, <1>6 DEF Next

-----------------------------------------------------------------------------
\* The filter's invariant is kept by every step of the system.
LEMMA FilterKept == Inv /\ [Next]_vars => FilterInv'
  BY FilterImplemented, FilterStepInv DEF Inv

\* A server that starts has a key that no client has read yet, and one that
\* goes on starting changes neither clients nor effects.
LEMMA StartingInv ==
  ASSUME Inv, FilterInv', Start \/ WriteKem \/ OpenX \/ WriteXAndListen
  PROVE  Inv'
<1>1. UNCHANGED <<filterVars, clientVars, net, effectVars>> /\ Sent' = Sent
  BY DEF Start, WriteKem, OpenX, WriteXAndListen, clientVars, Sent
<1>2. UNCHANGED <<seen, admitted, progress, kem, x, stamp, net, sessions,
                  processed, keyUses>>
  BY <1>1 DEF filterVars, clientVars, effectVars
<1>3. epoch \in Int /\ \A c \in Client : kem[c] \in Int /\ x[c] \in Int
  BY DEF Inv, TypeOK, Epoch, KeyFile, NoFile
<1>4. TypeOK'
  BY <1>1, <1>2 DEF Inv, TypeOK, FilterInv, Epoch, KeyFile, NoFile, Emptied,
                    Start, WriteKem, OpenX, WriteXAndListen
<1>5. KeysArePast'
  BY <1>2, <1>3 DEF Inv, TypeOK, KeysArePast, Epoch, KeyFile, NoFile, Emptied,
                    Start, WriteKem, OpenX, WriteXAndListen
<1>6. AdmittedWasSent' /\ KeysCountMessages'
  BY <1>1, <1>2 DEF Inv, AdmittedWasSent, KeysCountMessages
<1>7. StoppedIsEmpty'
  BY <1>2 DEF StoppedIsEmpty, Start, WriteKem, OpenX, WriteXAndListen
<1>8. CASE Start
  <2>1. \A c \in Client : ~ SharesKey(c)'
    BY <1>2, <1>3, <1>8 DEF Inv, KeysArePast, SharesKey, Start
  <2>2. sessions' = {}
    BY <1>2, <1>8 DEF Inv, StoppedIsEmpty, Start
  <2>3. ReadOnce'
    BY <1>1, <1>2, <2>1 DEF Inv, ReadOnce
  <2>4. SessionsShareKeys' /\ OnlyDamageWastesANonce'
    BY <1>1, <2>1, <2>2 DEF SessionsShareKeys, OnlyDamageWastesANonce, Sent
  <2> QED  BY <1>4, <1>5, <1>6, <1>7, <2>3, <2>4 DEF Inv
<1>9. CASE WriteKem \/ OpenX \/ WriteXAndListen
  <2>1. epoch' = epoch /\ phase # "down"
    BY <1>9 DEF WriteKem, OpenX, WriteXAndListen
  <2>2. \A c \in Client : SharesKey(c)' <=> SharesKey(c)
    BY <1>2, <2>1 DEF SharesKey
  <2>3. ReadOnce'
    BY <1>1, <1>2, <2>1, <2>2 DEF Inv, ReadOnce
  <2>4. SessionsShareKeys' /\ OnlyDamageWastesANonce'
    BY <1>1, <1>2, <2>1, <2>2
       DEF Inv, TypeOK, SessionsShareKeys, OnlyDamageWastesANonce, SharesKey
  <2> QED  BY <1>4, <1>5, <1>6, <1>7, <2>3, <2>4 DEF Inv
<1> QED  BY <1>8, <1>9

\* A server that stops forgets its registry and its sessions.
LEMMA StopInv ==
  ASSUME Inv, FilterInv', Stop
  PROVE  Inv'
<1>1. /\ UNCHANGED <<epoch, kemFile, xFile, progress, kem, x, stamp, net,
                     processed, keyUses>>
      /\ phase' = "down" /\ sessions' = {}
      /\ Sent' = Sent
      /\ admitted' = [p \in Packet |-> 0]
  BY DEF Stop, clientVars, Sent, FilterReset
<1>2. \A c \in Client, ts \in Stamp : ~ (admitted'[<<c, ts>>] > 0)
  BY <1>1 DEF Packet, Client
<1>3. TypeOK' /\ KeysArePast'
  BY <1>1 DEF Inv, TypeOK, FilterInv, KeysArePast, Epoch, KeyFile
<1>4. AdmittedWasSent'
  BY <1>2 DEF AdmittedWasSent
<1>5. ReadOnce' /\ KeysCountMessages' /\ StoppedIsEmpty'
  BY <1>1 DEF Inv, ReadOnce, KeysCountMessages, StoppedIsEmpty
<1>6. SessionsShareKeys'
  BY <1>1 DEF SessionsShareKeys
<1>7. OnlyDamageWastesANonce'
  <2>1. \A c \in Sent' : c \in Client /\ stamp'[c] \in Stamp
    BY <1>3 DEF TypeOK, Sent
  <2> QED  BY <1>2, <2>1 DEF OnlyDamageWastesANonce
<1> QED  BY <1>3, <1>4, <1>5, <1>6, <1>7 DEF Inv

\* A client that reads a key file changes nothing that the server knows of it:
\* it has not sent its packet yet.
LEMMA ReadInv ==
  ASSUME Inv, FilterInv', NEW c \in Client, ReadKem(c) \/ ReadX(c)
  PROVE  Inv'
<1>1. UNCHANGED <<filterVars, serverVars, stamp, net, effectVars>>
  BY DEF ReadKem, ReadX
<1>2. UNCHANGED <<seen, admitted, phase, epoch, kemFile, xFile, stamp, net,
                  sessions, processed, keyUses>>
  BY <1>1 DEF filterVars, serverVars, effectVars
<1>3. /\ progress \in [Client -> {"new", "half", "keyed", "sent", "failed"}]
      /\ kem \in [Client -> KeyFile] /\ x \in [Client -> KeyFile]
      /\ kemFile \in KeyFile /\ xFile \in KeyFile
  BY DEF Inv, TypeOK
<1>4. /\ c \notin Sent
      /\ progress' \in [Client -> {"new", "half", "keyed", "sent", "failed"}]
      /\ progress'[c] # "sent"
      /\ kem' \in [Client -> KeyFile] /\ x' \in [Client -> KeyFile]
      /\ kem'[c] <= epoch /\ x'[c] <= epoch
      /\ \A d \in Client \ {c} :
            progress'[d] = progress[d] /\ kem'[d] = kem[d] /\ x'[d] = x[d]
  BY <1>3 DEF ReadKem, ReadX, Sent, Inv, KeysArePast
<1>5. Sent' = Sent
  BY <1>4 DEF Sent
<1>6. \A d \in Sent : SharesKey(d)' <=> SharesKey(d)
  BY <1>2, <1>4 DEF SharesKey, Sent
<1>7. TypeOK'
  BY <1>2, <1>4, <1>5 DEF Inv, TypeOK, FilterInv, KeyFile, Epoch
<1>8. KeysArePast'
  BY <1>2, <1>4 DEF Inv, KeysArePast
<1>9. AdmittedWasSent' /\ KeysCountMessages' /\ StoppedIsEmpty'
  BY <1>2, <1>5 DEF Inv, AdmittedWasSent, KeysCountMessages, StoppedIsEmpty
<1>10. ReadOnce' /\ SessionsShareKeys' /\ OnlyDamageWastesANonce'
  BY <1>2, <1>5, <1>6
     DEF Inv, ReadOnce, SessionsShareKeys, OnlyDamageWastesANonce
<1> QED  BY <1>7, <1>8, <1>9, <1>10 DEF Inv

\* A packet that is sent is new to the filter and to every server.
LEMMA SendInv ==
  ASSUME Inv, FilterInv', NEW c \in Client, Send(c)
  PROVE  Inv'
<1>1. UNCHANGED <<seen, admitted, phase, epoch, kemFile, xFile, kem, x,
                  sessions, processed>>
  BY DEF Send, filterVars, serverVars
<1>2. PICK ts \in Stamp : stamp' = [stamp EXCEPT ![c] = ts]
  BY DEF Send
<1>3. /\ progress' = [progress EXCEPT ![c] = "sent"]
      /\ net' = net \cup {<<c, "intact">>}
      /\ keyUses' = [keyUses EXCEPT ![<<c, MessageKey>>] = @ + 1]
      /\ c \notin Sent
  BY DEF Send, Sent
<1>4. /\ progress \in [Client -> {"new", "half", "keyed", "sent", "failed"}]
      /\ stamp \in [Client -> Int]
      /\ keyUses \in [Client \X {MessageKey, AckKey} -> Nat]
      /\ processed \in [Client -> Nat]
  BY DEF Inv, TypeOK
<1>5. Sent' = Sent \cup {c} /\ Sent \subseteq Client
  BY <1>3, <1>4 DEF Sent
<1>6. stamp'[c] = ts /\ \A d \in Sent : stamp'[d] = stamp[d]
  BY <1>2, <1>3, <1>4, <1>5
<1>7. \A d \in Client : SharesKey(d)' <=> SharesKey(d)
  BY <1>1 DEF SharesKey
<1>8. ~ (admitted[<<c, ts>>] > 0)
  BY <1>3 DEF Inv, AdmittedWasSent
<1>9. TypeOK'
  <2>1. stamp' \in [Client -> Int] /\ \A d \in Sent' : stamp'[d] \in Stamp
    BY <1>2, <1>4, <1>5, <1>6 DEF Inv, TypeOK
  <2>2. net' \subseteq Sent' \X Condition
    BY <1>3, <1>5 DEF Inv, TypeOK, Condition
  <2>3. keyUses' \in [Client \X {MessageKey, AckKey} -> Nat]
    BY <1>3, <1>4
  <2> QED  BY <1>1, <1>3, <1>4, <2>1, <2>2, <2>3
              DEF Inv, TypeOK, FilterInv, Epoch, KeyFile
<1>10. KeysArePast' /\ StoppedIsEmpty'
  BY <1>1 DEF Inv, KeysArePast, StoppedIsEmpty
<1>11. AdmittedWasSent'
  BY <1>1, <1>3, <1>5, <1>6 DEF Inv, AdmittedWasSent
<1>12. ReadOnce'
  BY <1>1, <1>5, <1>6, <1>7, <1>3 DEF Inv, ReadOnce
<1>13. KeysCountMessages'
  <2> SUFFICES ASSUME NEW d \in Client
               PROVE  /\ keyUses'[<<d, MessageKey>>] = IF d \in Sent' THEN 1 ELSE 0
                      /\ keyUses'[<<d, AckKey>>] = processed'[d]
    BY DEF KeysCountMessages
  <2>1. /\ keyUses[<<d, MessageKey>>] = IF d \in Sent THEN 1 ELSE 0
        /\ keyUses[<<d, AckKey>>] = processed[d]
    BY DEF Inv, KeysCountMessages
  <2>2. keyUses'[<<d, AckKey>>] = keyUses[<<d, AckKey>>]
    BY <1>3, <1>4 DEF MessageKey, AckKey
  <2>3. keyUses'[<<d, MessageKey>>] =
          IF d = c THEN keyUses[<<c, MessageKey>>] + 1 ELSE keyUses[<<d, MessageKey>>]
    BY <1>3, <1>4 DEF MessageKey, AckKey
  <2> QED  BY <1>1, <1>3, <1>5, <2>1, <2>2, <2>3
<1>14. SessionsShareKeys'
  BY <1>1, <1>5, <1>7 DEF Inv, SessionsShareKeys
<1>15. OnlyDamageWastesANonce'
  BY <1>1, <1>3, <1>5, <1>6, <1>7, <1>8 DEF Inv, OnlyDamageWastesANonce
<1> QED  BY <1>9, <1>10, <1>11, <1>12, <1>13, <1>14, <1>15 DEF Inv

\* A damaged copy changes what may arrive, nothing else.
LEMMA DamageInv ==
  ASSUME Inv, FilterInv', NEW c \in Client, Damage(c)
  PROVE  Inv'
<1>1. UNCHANGED <<seen, admitted, phase, epoch, kemFile, xFile, progress, kem, x,
                  stamp, sessions, processed, keyUses>>
  BY DEF Damage, filterVars, serverVars, clientVars, effectVars
<1>2. /\ Sent' = Sent
      /\ \A d \in Client : SharesKey(d)' <=> SharesKey(d)
  BY <1>1 DEF Sent, SharesKey
<1>3. net \subseteq net' /\ net' \subseteq Sent \X Condition
  BY DEF Damage, Inv, TypeOK
<1>4. TypeOK'
  BY <1>1, <1>2, <1>3 DEF Inv, TypeOK, FilterInv, Epoch, KeyFile
<1>5. /\ KeysArePast' /\ AdmittedWasSent' /\ KeysCountMessages'
      /\ StoppedIsEmpty'
  BY <1>1, <1>2
     DEF Inv, KeysArePast, AdmittedWasSent, KeysCountMessages, StoppedIsEmpty
<1>6. ReadOnce' /\ SessionsShareKeys' /\ OnlyDamageWastesANonce'
  BY <1>1, <1>2, <1>3
     DEF Inv, TypeOK, Sent, ReadOnce, SessionsShareKeys, OnlyDamageWastesANonce
<1> QED  BY <1>4, <1>5, <1>6 DEF Inv

\* Steps that only let time pass: the clock's own and the server's refusals.
LEMMA RefusalInv ==
  ASSUME Inv, FilterInv', UNCHANGED <<seen, admitted, serverVars, clientVars,
                                      net, effectVars>>
  PROVE  Inv'
<1>1. UNCHANGED <<phase, epoch, kemFile, xFile, progress, kem, x, stamp, sessions,
                  processed, keyUses>>
  BY DEF serverVars, clientVars, effectVars
<1>2. Sent' = Sent
  BY <1>1 DEF Sent
<1>3. TypeOK'
  BY <1>1, <1>2 DEF Inv, TypeOK, FilterInv, Epoch, KeyFile
<1>4. /\ KeysArePast' /\ AdmittedWasSent' /\ KeysCountMessages'
      /\ StoppedIsEmpty'
  BY <1>1, <1>2
     DEF Inv, KeysArePast, AdmittedWasSent, KeysCountMessages, StoppedIsEmpty
<1>5. ReadOnce' /\ SessionsShareKeys' /\ OnlyDamageWastesANonce'
  BY <1>1, <1>2
     DEF Inv, ReadOnce, SessionsShareKeys, OnlyDamageWastesANonce, SharesKey
<1> QED  BY <1>3, <1>4, <1>5 DEF Inv

\* A message that the running server can read and the filter admits is read for
\* the first time.
LEMMA AcceptIsFirst ==
  ASSUME Inv, NEW c \in Client, c \in Sent, phase = "up", SharesKey(c),
         NEW t1 \in Time, NEW t2 \in Time, Admit(c, stamp[c], t1, t2)
  PROVE  processed[c] = 0
<1>1. c \in Nonce /\ stamp[c] \in Stamp /\ processed[c] \in Nat
  BY DEF Inv, TypeOK, Client
<1>2. admitted[<<c, stamp[c]>>] = 0
  BY <1>1, AdmitIsFirst DEF Inv
<1>3. ~ (processed[c] > 0)
  BY <1>2 DEF Inv, ReadOnce
<1> QED  BY <1>1, <1>3

\* A packet that passes the filter is read, or its nonce is burnt.
LEMMA AcceptInv ==
  ASSUME Inv, FilterInv', NEW c \in Client, NEW how \in Condition,
         phase = "up", <<c, how>> \in net,
         NEW t1 \in Time, NEW t2 \in Time, Accept(c, how, t1, t2)
  PROVE  Inv'
<1>1. UNCHANGED <<phase, epoch, kemFile, xFile, progress, kem, x, stamp, net>>
  BY DEF Accept, serverVars, clientVars
<1>2. /\ c \in Sent /\ Sent \subseteq Client /\ Sent' = Sent
      /\ \A d \in Client : SharesKey(d)' <=> SharesKey(d)
  BY <1>1 DEF Sent, SharesKey, Inv, TypeOK
<1>3. /\ Admit(c, stamp[c], t1, t2)
      /\ how # "header"
      /\ c \in Nonce /\ stamp[c] \in Stamp
  BY <1>2 DEF Accept, Inv, TypeOK, Client
<1>4. /\ admitted \in [Packet -> Nat]
      /\ admitted' = [admitted EXCEPT ![<<c, stamp[c]>>] = @ + 1]
      /\ admitted[<<c, stamp[c]>>] = 0
      /\ <<c, stamp[c]>> \in Packet
  BY <1>3, AdmitIsFirst DEF Admit, Inv, TypeOK, FilterTypeOK, Packet
<1>5. \A d \in Client, ts \in Stamp :
         admitted'[<<d, ts>>] =
           IF d = c /\ ts = stamp[c] THEN 1 ELSE admitted[<<d, ts>>]
  BY <1>4 DEF Packet, Client
<1>6. /\ processed \in [Client -> Nat]
      /\ keyUses \in [Client \X {MessageKey, AckKey} -> Nat]
      /\ sessions \subseteq Client
      /\ \A d \in Sent : d \in Client /\ stamp[d] \in Stamp
  BY <1>2 DEF Inv, TypeOK
<1>7. KeysArePast' /\ StoppedIsEmpty'
  BY <1>1 DEF Inv, KeysArePast, StoppedIsEmpty
<1>8. AdmittedWasSent'
  BY <1>1, <1>2, <1>5 DEF Inv, AdmittedWasSent
<1>9. CASE how = "intact" /\ SharesKey(c)
  <2>1. /\ processed[c] = 0
        /\ processed' = [processed EXCEPT ![c] = @ + 1]
        /\ sessions' = sessions \cup {c}
        /\ keyUses' = [keyUses EXCEPT ![<<c, AckKey>>] = @ + 1]
    BY <1>2, <1>3, <1>9, AcceptIsFirst DEF Accept, Answer
  <2>2. processed'[c] = 1 /\ \A d \in Client \ {c} : processed'[d] = processed[d]
    BY <1>6, <2>1
  <2>3. TypeOK'
    BY <1>1, <1>2, <1>6, <2>1
       DEF Inv, TypeOK, FilterInv, Epoch, KeyFile, MessageKey, AckKey
  <2>4. ReadOnce'
    BY <1>1, <1>2, <1>5, <1>6, <2>2 DEF Inv, ReadOnce
  <2>5. KeysCountMessages'
    <3> SUFFICES ASSUME NEW d \in Client
                 PROVE  /\ keyUses'[<<d, MessageKey>>] = IF d \in Sent' THEN 1 ELSE 0
                        /\ keyUses'[<<d, AckKey>>] = processed'[d]
      BY DEF KeysCountMessages
    <3>1. /\ keyUses[<<d, MessageKey>>] = IF d \in Sent THEN 1 ELSE 0
          /\ keyUses[<<d, AckKey>>] = processed[d]
      BY DEF Inv, KeysCountMessages
    <3>2. keyUses'[<<d, MessageKey>>] = keyUses[<<d, MessageKey>>]
      BY <1>6, <2>1 DEF MessageKey, AckKey
    <3>3. keyUses'[<<d, AckKey>>] =
            IF d = c THEN keyUses[<<c, AckKey>>] + 1 ELSE keyUses[<<d, AckKey>>]
      BY <1>6, <2>1 DEF MessageKey, AckKey
    <3> QED  BY <1>2, <2>1, <2>2, <3>1, <3>2, <3>3
  <2>6. SessionsShareKeys'
    BY <1>1, <1>2, <1>6, <1>9, <2>1, <2>2 DEF Inv, SessionsShareKeys
  <2>7. OnlyDamageWastesANonce'
    BY <1>1, <1>2, <1>5, <1>6, <2>2 DEF Inv, OnlyDamageWastesANonce
  <2> QED  BY <1>7, <1>8, <2>3, <2>4, <2>5, <2>6, <2>7 DEF Inv
<1>10. CASE ~ (how = "intact" /\ SharesKey(c))
  <2>1. UNCHANGED <<sessions, processed, keyUses>>
    BY <1>10 DEF Accept, effectVars
  <2>2. TypeOK'
    BY <1>1, <1>2, <2>1 DEF Inv, TypeOK, FilterInv, Epoch, KeyFile
  <2>3. ReadOnce'
    BY <1>1, <1>2, <1>5, <1>6, <2>1 DEF Inv, ReadOnce
  <2>4. KeysCountMessages' /\ SessionsShareKeys'
    BY <1>1, <1>2, <1>6, <2>1 DEF Inv, KeysCountMessages, SessionsShareKeys
  <2>5. SharesKey(c) => <<c, "sealed">> \in net
    BY <1>3, <1>10 DEF Condition
  <2>6. OnlyDamageWastesANonce'
    BY <1>1, <1>2, <1>5, <1>6, <2>1, <2>5 DEF Inv, OnlyDamageWastesANonce
  <2> QED  BY <1>7, <1>8, <2>2, <2>3, <2>4, <2>6 DEF Inv
<1> QED  BY <1>9, <1>10

\* Every step keeps the invariant.
LEMMA StepInv == Inv /\ [Next]_vars => Inv'
<1> SUFFICES ASSUME Inv, [Next]_vars PROVE Inv'
  OBVIOUS
<1>1. FilterInv'
  BY FilterKept
<1>2. CASE Start \/ WriteKem \/ OpenX \/ WriteXAndListen
  BY <1>1, <1>2, StartingInv
<1>3. CASE Stop
  BY <1>1, <1>3, StopInv
<1>4. ASSUME NEW c \in Client, ReadKem(c) \/ ReadX(c)
      PROVE  Inv'
  BY <1>1, <1>4, ReadInv
<1>5. ASSUME NEW c \in Client, Send(c)
      PROVE  Inv'
  BY <1>1, <1>5, SendInv
<1>6. ASSUME NEW c \in Client, Damage(c)
      PROVE  Inv'
  BY <1>1, <1>6, DamageInv
<1>7. ASSUME NEW c \in Client, NEW how \in Condition, Receive(c, how)
      PROVE  Inv'
  <2>1. \/ Drop(c, how)
        \/ \E t1 \in Time : \/ DropReplayed(c, how, t1)
                            \/ \E t2 \in Time : Accept(c, how, t1, t2)
    BY <1>7 DEF Receive
  <2>2. phase = "up" /\ <<c, how>> \in net
    BY <1>7 DEF Receive
  <2>3. CASE Drop(c, how) \/ \E t1 \in Time : DropReplayed(c, how, t1)
    <3>1. UNCHANGED <<seen, admitted, serverVars, clientVars, net, effectVars>>
      BY <2>3 DEF Drop, vars, filterVars, DropReplayed, Reject
    <3> QED  BY <1>1, <3>1, RefusalInv
  <2>4. CASE \E t1, t2 \in Time : Accept(c, how, t1, t2)
    BY <1>1, <2>2, <2>4, AcceptInv
  <2> QED  BY <2>1, <2>3, <2>4
<1>8. CASE Pass \/ UNCHANGED vars
  <2>1. UNCHANGED <<seen, admitted, serverVars, clientVars, net, effectVars>>
    BY <1>8 DEF Pass, FilterTick, vars, filterVars
  <2> QED  BY <1>1, <2>1, RefusalInv
<1> QED  BY <1>2, <1>3, <1>4, <1>5, <1>6, <1>7, <1>8 DEF Next

-----------------------------------------------------------------------------
\* The invariant of every run of the system.
THEOREM Invariance == Spec => []Inv
  BY InitInv, StepInv, PTL DEF Spec

\* Every variable keeps its type, every datagram in flight was sent.
THEOREM Types == Spec => []TypeOK
  BY Invariance, PTL DEF Inv

\* The server keeps sessions only with clients whose message it has read with
\* the key that both derived.
THEOREM SharedSessions == Spec => []SessionsShareKeys
  BY Invariance, PTL DEF Inv

\* A nonce is wasted only by damage or by keys of another incarnation.
THEOREM NoWaste == Spec => []OnlyDamageWastesANonce
  BY Invariance, PTL DEF Inv

\* No ratchet key encrypts two messages.
THEOREM FreshKeys == Spec => []FreshMessageKeys
<1>1. Inv => FreshMessageKeys
  <2> SUFFICES ASSUME Inv, NEW u \in DOMAIN keyUses PROVE keyUses[u] <= 1
    BY DEF FreshMessageKeys
  <2>1. PICK c \in Client, k \in {MessageKey, AckKey} : u = <<c, k>>
    BY DEF Inv, TypeOK
  <2>2. processed[c] \in Nat /\ (processed[c] > 0 => processed[c] = 1)
    BY DEF Inv, TypeOK, ReadOnce
  <2>3. /\ keyUses[<<c, MessageKey>>] = IF c \in Sent THEN 1 ELSE 0
        /\ keyUses[<<c, AckKey>>] = processed[c]
    BY DEF Inv, KeysCountMessages
  <2>4. keyUses[<<c, MessageKey>>] <= 1 /\ keyUses[<<c, AckKey>>] <= 1
    BY <2>2, <2>3
  <2> QED  BY <2>1, <2>4
<1> QED  BY <1>1, Invariance, PTL

\* The filter that runs inside the server is the filter of ReplayFilter, so what
\* is proved of that one holds here.
THEOREM FilterRefined == Spec => FilterSpec
<1>1. Init => FilterInit
  BY DEF Init
<1>2. Inv /\ [Next]_vars => [FilterNext]_filterVars
  BY FilterImplemented DEF Inv
<1> QED  BY <1>1, <1>2, Invariance, PTL DEF Spec, FilterSpec

\* The system delivers every message at most once, as AtMostOnce promises.
THEOREM Refinement == Spec => AtMostOnceDelivery
<1>1. Init => Delivery!Init
  BY DEF Init, Delivery!Init, Sent
<1>2. Inv /\ [Next]_vars => [Delivery!Next]_Delivery!vars
  <2> SUFFICES ASSUME Inv, [Next]_vars PROVE [Delivery!Next]_Delivery!vars
    OBVIOUS
  <2>1. ASSUME NEW c \in Client, Send(c)
        PROVE  Delivery!Submit(c)
    <3>1. progress \in [Client -> {"new", "half", "keyed", "sent", "failed"}]
      BY DEF Inv, TypeOK
    <3> QED  BY <2>1, <3>1 DEF Send, Sent, Delivery!Submit
  <2>2. ASSUME NEW c \in Client, NEW how \in Condition, Receive(c, how)
        PROVE  Delivery!Execute(c) \/ UNCHANGED Delivery!vars
    <3>1. CASE UNCHANGED <<processed, progress>>
      BY <3>1 DEF Delivery!vars, Sent
    <3>2. CASE ~ UNCHANGED <<processed, progress>>
      <4>1. PICK t1 \in Time, t2 \in Time : Accept(c, how, t1, t2)
        BY <2>2, <3>2 DEF Receive, Drop, DropReplayed, vars, clientVars,
                          effectVars
      <4>2. /\ SharesKey(c) /\ UNCHANGED progress
            /\ processed' = [processed EXCEPT ![c] = @ + 1]
        BY <3>2, <4>1 DEF Accept, Answer, clientVars, effectVars
      <4>3. phase = "up" /\ c \in Sent
        BY <2>2 DEF Receive, Inv, TypeOK
      <4>4. processed[c] = 0
        BY <4>1, <4>2, <4>3, AcceptIsFirst DEF Accept
      <4> QED  BY <4>2, <4>3, <4>4 DEF Delivery!Execute, Sent
    <3> QED  BY <3>1, <3>2
  <2>3. CASE \/ Start \/ WriteKem \/ OpenX \/ WriteXAndListen \/ Stop \/ Pass
             \/ UNCHANGED vars
    BY <2>3 DEF Start, WriteKem, OpenX, WriteXAndListen, Stop, Pass, vars,
                clientVars, effectVars, Sent, Delivery!vars
  <2>4. ASSUME NEW c \in Client, ReadKem(c) \/ ReadX(c) \/ Damage(c)
        PROVE  UNCHANGED Delivery!vars
    <3>1. progress \in [Client -> {"new", "half", "keyed", "sent", "failed"}]
      BY DEF Inv, TypeOK
    <3> QED  BY <2>4, <3>1 DEF ReadKem, ReadX, Damage, clientVars, effectVars, Sent,
                               Delivery!vars
  <2> QED  BY <2>1, <2>2, <2>3, <2>4 DEF Next, Delivery!Next
<1> QED  BY <1>1, <1>2, Invariance, PTL DEF Spec, AtMostOnceDelivery, Delivery!Spec

\* What AtMostOnce promises, said of the history: the system acts on a message at
\* most once, and only if a client sent it.
THEOREM ActsOnce ==
  Spec => [](\A c \in Client : processed[c] <= 1 /\ (processed[c] > 0 => c \in Sent))
<1> DEFINE Once == \A c \in Client : processed[c] <= 1 /\ (processed[c] > 0 => c \in Sent)
           DInv == processed \in [Client -> {0, 1}] /\ Once
<1>1. Delivery!Init => DInv
  BY DEF Delivery!Init
<1>2. DInv /\ [Delivery!Next]_(Delivery!vars) => DInv'
  <2> SUFFICES ASSUME DInv, [Delivery!Next]_(Delivery!vars) PROVE DInv'
    OBVIOUS
  <2>1. ASSUME NEW c \in Client, Delivery!Submit(c) PROVE DInv'
    BY <2>1 DEF Delivery!Submit
  <2>2. ASSUME NEW c \in Client, Delivery!Execute(c) PROVE DInv'
    BY <2>2 DEF Delivery!Execute
  <2>3. CASE UNCHANGED Delivery!vars
    BY <2>3 DEF Delivery!vars
  <2> QED  BY <2>1, <2>2, <2>3 DEF Delivery!Next
<1>3. AtMostOnceDelivery => []Once
  BY <1>1, <1>2, PTL DEF AtMostOnceDelivery, Delivery!Spec
<1> QED  BY <1>3, Refinement, PTL
=============================================================================
