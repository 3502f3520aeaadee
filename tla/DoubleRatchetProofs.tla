------------------------- MODULE DoubleRatchetProofs -------------------------
(* What the ratchet guarantees for every number of objects, texts and keys.   *)
(*                                                                            *)
(* The chain only advances, and SpentKeysAreGone ties it to the messages: all *)
(* that an object has sent or read lies behind it.  FreshKeys and             *)
(* ReadsForward follow from that.  ReadsInPlace becomes inductive with        *)
(* ArrivalsCount: an object that only receives has advanced once per arrival. *)
EXTENDS DoubleRatchet, TLAPS

Receiver(o) == \A m \in net : m.by # o

ArrivalsCount == \A o \in Object : Receiver(o) => Len(arrived[o]) = msg_counter[o]

Inv ==
  /\ TypeOK
  /\ FreshKeys
  /\ SpentKeysAreGone
  /\ ArrivalsCount
  /\ ReadsInPlace

LEMMA InitInv == Init => Inv
<1> SUFFICES ASSUME Init PROVE Inv
  OBVIOUS
<1> USE KeyAssumption DEF Init
<1>1. TypeOK
  BY DEF TypeOK
<1>2. FreshKeys
  BY DEF FreshKeys
<1>3. SpentKeysAreGone
  BY DEF SpentKeysAreGone, Used
<1>4. ArrivalsCount
  BY DEF ArrivalsCount
<1>5. ReadsInPlace
  BY DEF ReadsInPlace
<1> QED  BY <1>1, <1>2, <1>3, <1>4, <1>5 DEF Inv

\* What an object is given to decrypt is a message with a key, or damaged.
LEMMA MessageFacts ==
  ASSUME TypeOK
  PROVE  /\ \A m \in net : m.by \in Object /\ m.key \in 1 .. MaxKeys
         /\ \A o \in Object : msg_counter[o] \in 0 .. MaxKeys /\ opened[o] \subseteq net
  BY DEF TypeOK, Message

\* Sealing a message keeps the invariant.
LEMMA EncryptInv ==
  ASSUME Inv, NEW o \in Object, NEW t \in Text, NEW skip \in {0, 1}, Encrypt(o, t, skip)
  PROVE  Inv'
<1> DEFINE new == [by |-> o, key |-> msg_counter[o] + skip + 1, text |-> t]
<1> USE KeyAssumption
<1>1. /\ TypeOK
      /\ \A m \in net : m.by \in Object /\ m.key \in 1 .. MaxKeys
      /\ \A p \in Object : msg_counter[p] \in 0 .. MaxKeys /\ opened[p] \subseteq net
  BY MessageFacts DEF Inv
<1>2. /\ net' = net \cup {new}
      /\ UNCHANGED <<arrived, opened>>
      /\ new.by = o /\ new.key = msg_counter[o] + skip + 1
  BY DEF Encrypt
<1>3. /\ msg_counter \in [Object -> 0 .. MaxKeys]
      /\ msg_counter' = [msg_counter EXCEPT ![o] = @ + (skip + 1)]
      /\ msg_counter[o] + (skip + 1) <= MaxKeys
  BY <1>1 DEF Encrypt, Advance, TypeOK
<1>4. \A m \in net : m.by = o => m.key <= msg_counter[o]
  BY DEF Inv, SpentKeysAreGone, Used
<1>5. TypeOK'
  <2>1. new \in Message
    BY <1>1, <1>3 DEF Message
  <2>2. msg_counter' \in [Object -> 0 .. MaxKeys]
    BY <1>3
  <2>3. arrived' \in [Object -> Seq(net' \cup {Damaged})]
    <3>1. \A p \in Object : arrived[p] \in Seq(net \cup {Damaged})
      BY <1>1 DEF TypeOK
    <3>2. \A p \in Object : arrived[p] \in Seq(net' \cup {Damaged})
      BY <3>1, <1>2
    <3> QED  BY <3>2, <1>1, <1>2 DEF TypeOK
  <2> QED  BY <1>1, <1>2, <2>1, <2>2, <2>3 DEF TypeOK
<1>6. FreshKeys'
  <2> SUFFICES ASSUME NEW m1 \in net', NEW m2 \in net', m1.by = m2.by, m1.key = m2.key
               PROVE  m1 = m2
    BY DEF FreshKeys
  <2>1. CASE m1 \in net /\ m2 \in net
    BY <2>1 DEF Inv, FreshKeys
  <2>2. CASE m1 = new /\ m2 = new
    BY <2>2
  <2>3. \A m \in net : ~ (m.by = o /\ m.key = new.key)
    BY <1>1, <1>2, <1>4
  <2> QED  BY <1>2, <2>1, <2>2, <2>3
<1>7. SpentKeysAreGone'
  <2> SUFFICES ASSUME NEW p \in Object, NEW m \in net', m \in opened[p] \/ m.by = p
               PROVE  m.key <= msg_counter'[p]
    BY <1>1, <1>2 DEF SpentKeysAreGone, Used
  <2>1. msg_counter[p] <= msg_counter'[p]
    BY <1>1, <1>3
  <2>2. CASE m \in net
    <3>1. m.key <= msg_counter[p]
      BY <2>2 DEF Inv, SpentKeysAreGone, Used
    <3> QED  BY <1>1, <1>3, <2>1, <2>2, <3>1
  <2>3. CASE m \notin net
    BY <1>1, <1>2, <1>3, <2>3
  <2> QED  BY <2>2, <2>3
<1>8. \A p \in Object : (\A m \in net' : m.by # p) =>
        p # o /\ Receiver(p) /\ msg_counter'[p] = msg_counter[p]
  BY <1>2, <1>3 DEF Receiver
<1>9. ArrivalsCount'
  BY <1>2, <1>8 DEF Inv, ArrivalsCount, Receiver
<1>10. ReadsInPlace'
  BY <1>2, <1>8 DEF Inv, ReadsInPlace, Receiver
<1> QED  BY <1>5, <1>6, <1>7, <1>9, <1>10 DEF Inv

\* Decrypting, or failing to, keeps the invariant.
LEMMA DecryptInv ==
  ASSUME Inv, NEW o \in Object, NEW m \in net \cup {Damaged}, Decrypt(o, m)
  PROVE  Inv'
<1> USE KeyAssumption
<1>1. /\ TypeOK
      /\ \A q \in net : q.by \in Object /\ q.key \in 1 .. MaxKeys
      /\ \A p \in Object : msg_counter[p] \in 0 .. MaxKeys /\ opened[p] \subseteq net
  BY MessageFacts DEF Inv
<1>2. /\ UNCHANGED net
      /\ arrived' = [arrived EXCEPT ![o] = Append(@, m)]
      /\ opened' = IF Opens(o, m) THEN [opened EXCEPT ![o] = @ \cup {m}] ELSE opened
  BY DEF Decrypt
<1>3. /\ msg_counter \in [Object -> 0 .. MaxKeys]
      /\ msg_counter' = [msg_counter EXCEPT ![o] = @ + 1]
      /\ msg_counter[o] + 1 <= MaxKeys
  BY <1>1 DEF Decrypt, Advance, TypeOK
<1>4. /\ arrived \in [Object -> Seq(net \cup {Damaged})]
      /\ opened \in [Object -> SUBSET net]
  BY <1>1 DEF TypeOK
<1>5. m.key \in Nat /\ (Opens(o, m) <=> m.key = msg_counter[o] + 1)
  BY <1>1 DEF Damaged, Opens
<1>6. Opens(o, m) => m \in net
  BY <1>1, <1>5 DEF Damaged
<1>7. TypeOK'
  <2>1. msg_counter' \in [Object -> 0 .. MaxKeys]
    BY <1>3
  <2>2. arrived' \in [Object -> Seq(net' \cup {Damaged})]
    BY <1>2, <1>4
  <2>3. opened' \in [Object -> SUBSET net']
    BY <1>2, <1>4, <1>6
  <2> QED  BY <1>1, <1>2, <2>1, <2>2, <2>3 DEF TypeOK
<1>8. FreshKeys'
  BY <1>2 DEF Inv, FreshKeys
<1>9. SpentKeysAreGone'
  <2> SUFFICES ASSUME NEW p \in Object, NEW q \in net, q \in opened'[p] \/ q.by = p
               PROVE  q.key <= msg_counter'[p]
    BY <1>2, <1>7 DEF SpentKeysAreGone, Used, TypeOK
  <2>1. msg_counter[p] <= msg_counter'[p]
    BY <1>1, <1>3
  <2>2. CASE q \in opened[p] \/ q.by = p
    <3>1. q.key <= msg_counter[p]
      BY <2>2 DEF Inv, SpentKeysAreGone, Used
    <3> QED  BY <1>1, <1>3, <2>1, <3>1
  <2>3. CASE ~ (q \in opened[p] \/ q.by = p)
    <3>1. p = o /\ q = m /\ Opens(o, m)
      BY <1>2, <1>4, <2>3
    <3> QED  BY <1>1, <1>3, <1>5, <3>1
  <2> QED  BY <2>2, <2>3
<1>10. ArrivalsCount'
  <2> SUFFICES ASSUME NEW p \in Object, Receiver(p)
               PROVE  Len(arrived'[p]) = msg_counter'[p]
    BY <1>2 DEF ArrivalsCount, Receiver
  <2>1. Len(arrived[p]) = msg_counter[p]
    BY DEF Inv, ArrivalsCount
  <2> QED  BY <1>2, <1>3, <1>4, <2>1
<1>11. ReadsInPlace'
  <2> DEFINE InPlace(a) == {a[i] : i \in {j \in DOMAIN a : a[j].key = j}}
  <2> SUFFICES ASSUME NEW p \in Object, Receiver(p)
               PROVE  opened'[p] = InPlace(arrived'[p])
    BY <1>2 DEF ReadsInPlace, Receiver
  <2>1. opened[p] = InPlace(arrived[p])
    BY DEF Inv, ReadsInPlace, Receiver
  <2>2. CASE p # o
    BY <1>2, <1>4, <2>1, <2>2
  <2>3. CASE p = o
    <3>1. Len(arrived[o]) = msg_counter[o]
      BY <2>3 DEF Inv, ArrivalsCount
    <3>2. /\ arrived'[o] = Append(arrived[o], m)
          /\ DOMAIN arrived[o] = 1 .. Len(arrived[o])
          /\ DOMAIN arrived'[o] = 1 .. Len(arrived[o]) + 1
          /\ Len(arrived[o]) \in Nat
          /\ arrived'[o][Len(arrived[o]) + 1] = m
          /\ \A i \in 1 .. Len(arrived[o]) : arrived'[o][i] = arrived[o][i]
      BY <1>2, <1>4
    <3>3. InPlace(arrived'[o]) =
            InPlace(arrived[o]) \cup (IF m.key = Len(arrived[o]) + 1 THEN {m} ELSE {})
      BY <3>2
    <3>4. opened'[o] = opened[o] \cup (IF m.key = Len(arrived[o]) + 1 THEN {m} ELSE {})
      BY <1>2, <1>4, <1>5, <3>1
    <3> QED  BY <2>1, <2>3, <3>3, <3>4
  <2> QED  BY <2>2, <2>3
<1> QED  BY <1>7, <1>8, <1>9, <1>10, <1>11 DEF Inv

\* Every reachable state satisfies the invariant.
THEOREM Invariance == Spec => []Inv
<1>1. Inv /\ [Next]_vars => Inv'
  <2> SUFFICES ASSUME Inv, [Next]_vars PROVE Inv'
    OBVIOUS
  <2>1. CASE Next
    BY <2>1, EncryptInv, DecryptInv DEF Next
  <2>2. CASE UNCHANGED vars
    BY <2>2 DEF vars, Inv, TypeOK, FreshKeys, SpentKeysAreGone, Used, ArrivalsCount,
                ReadsInPlace, Receiver
  <2> QED  BY <2>1, <2>2
<1> QED  BY <1>1, InitInv, PTL DEF Spec

\* Counters, messages and histories have their types.
THEOREM Types == Spec => []TypeOK
<1>1. Inv => TypeOK
  BY DEF Inv
<1> QED  BY <1>1, Invariance, PTL

\* No object ever seals two messages with one key.
THEOREM KeysAreFresh == Spec => []FreshKeys
<1>1. Inv => FreshKeys
  BY DEF Inv
<1> QED  BY <1>1, Invariance, PTL

\* Forward secrecy of sent and of read messages.
THEOREM ForwardSecrecy == Spec => []SpentKeysAreGone
<1>1. Inv => SpentKeysAreGone
  BY DEF Inv
<1> QED  BY <1>1, Invariance, PTL

\* A receiver reads exactly what arrives in its place.
THEOREM InPlaceOnly == Spec => []ReadsInPlace
<1>1. Inv => ReadsInPlace
  BY DEF Inv
<1> QED  BY <1>1, Invariance, PTL

\* Nothing is read twice, backwards, or by its sender.
THEOREM ForwardOnly == Spec => ReadsForward
<1> DEFINE Step == \A o \in Object : \A m \in opened'[o] \ opened[o], k \in Used(o) : k < m.key
<1>1. Inv /\ [Next]_vars => [Step]_vars
  <2> SUFFICES ASSUME Inv, Next,
                      NEW o \in Object, NEW m \in opened'[o] \ opened[o], NEW k \in Used(o)
               PROVE  k < m.key
    BY DEF vars
  <2>1. PICK p \in Object, d \in net \cup {Damaged} : Decrypt(p, d)
    BY DEF Next, Encrypt
  <2>2. opened \in [Object -> SUBSET net]
    BY DEF Inv, TypeOK
  <2>3. p = o /\ m = d /\ Opens(o, m)
    BY <2>1, <2>2 DEF Decrypt
  <2>4. k <= msg_counter[o]
    BY DEF Inv, SpentKeysAreGone
  <2>5. k \in Nat /\ msg_counter[o] \in Nat
    BY <2>2, MessageFacts, KeyAssumption DEF Inv, Used
  <2> QED  BY <2>3, <2>4, <2>5 DEF Opens
<1> QED  BY <1>1, Invariance, PTL DEF Spec, ReadsForward
=============================================================================
