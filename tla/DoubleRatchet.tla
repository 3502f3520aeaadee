---------------------------- MODULE DoubleRatchet ----------------------------
(* zratchet.py: objects of class DoubleRatchet that were built from one       *)
(* session key, and the datagrams sealed by them.  Each call of encrypt or    *)
(* decrypt replaces the chain key by the next one and uses up one message     *)
(* key.  Message keys are named by their place in the chain; a message has no *)
(* number in the clear, so a receiver tries the key that its own chain is at. *)
(*                                                                            *)
(* Any object may encrypt and decrypt at any time.  The network may lose,     *)
(* repeat, reorder and damage what it carries, and return it to its sender.   *)
(* Cryptography is ideal: a message opens exactly under the key it was sealed *)
(* with, and the chain cannot be computed backwards.                          *)
EXTENDS Naturals, Sequences

CONSTANTS
  Object,    \* the objects, of either party
  Text,      \* plaintexts
  MaxKeys    \* bound: how far a chain advances

ASSUME KeyAssumption == MaxKeys \in Nat

VARIABLES
  msg_counter,  \* the place of each object's chain_key in the chain
  net,          \* messages sealed so far; the network may keep and repeat them
  arrived,      \* history: what each object was given to decrypt, in order
  opened        \* history: the messages each object has decrypted

vars == <<msg_counter, net, arrived, opened>>

Message == [by : Object, key : 1 .. MaxKeys, text : Text]
Damaged == [key |-> 0]   \* a datagram that no key opens

-----------------------------------------------------------------------------
\* DoubleRatchet(session_key), for every object
Init ==
  /\ msg_counter = [o \in Object |-> 0]
  /\ net = {}
  /\ arrived = [o \in Object |-> <<>>]
  /\ opened = [o \in Object |-> {}]

\* next_message_key(), called n times: the last of the keys is used.
Advance(o, n) ==
  /\ msg_counter[o] + n <= MaxKeys
  /\ msg_counter' = [msg_counter EXCEPT ![o] = @ + n]

EncryptInPlace(o, t, skip) == \* mutant: the chain advances by the skipped keys only
  LET key == msg_counter[o] + skip + 1
  IN  /\ key <= MaxKeys
      /\ Advance(o, skip)
      /\ net' = net \cup {[by |-> o, key |-> key, text |-> t]}
      /\ UNCHANGED <<arrived, opened>>

\* encrypt().  The v2 server advances the ratchet of its ACK once by hand before.
Encrypt(o, t, skip) ==
  /\ Advance(o, skip + 1)
  /\ net' = net \cup {[by |-> o, key |-> msg_counter[o] + skip + 1, text |-> t]}
  /\ UNCHANGED <<arrived, opened>>

\* m opens under the key that o's chain is at.
OpensUnchecked(o, m) == m.key <= msg_counter[o] + 1 \* mutant: the AEAD tag is ignored
OpensEarlier(o, m) == m.key \in 1 .. msg_counter[o] + 1 \* mutant: keeps old keys
Opens(o, m) == m.key = msg_counter[o] + 1

DecryptOrWait(o, m) == \* mutant: the chain advances when the message opens
  /\ Advance(o, IF Opens(o, m) THEN 1 ELSE 0)
  /\ Len(arrived[o]) < MaxKeys
  /\ arrived' = [arrived EXCEPT ![o] = Append(@, m)]
  /\ opened' = IF Opens(o, m) THEN [opened EXCEPT ![o] = @ \cup {m}] ELSE opened
  /\ UNCHANGED net

DecryptPeek(o, m) == \* mutant: the chain advances only when the message does not open
  /\ Advance(o, IF Opens(o, m) THEN 0 ELSE 1)
  /\ Len(arrived[o]) < MaxKeys
  /\ arrived' = [arrived EXCEPT ![o] = Append(@, m)]
  /\ opened' = IF Opens(o, m) THEN [opened EXCEPT ![o] = @ \cup {m}] ELSE opened
  /\ UNCHANGED net

\* decrypt().  The chain has advanced when the AEAD raises InvalidTag.
Decrypt(o, m) ==
  /\ Advance(o, 1)
  /\ arrived' = [arrived EXCEPT ![o] = Append(@, m)]
  /\ opened' = IF Opens(o, m) THEN [opened EXCEPT ![o] = @ \cup {m}] ELSE opened
  /\ UNCHANGED net

Next ==
  \E o \in Object : \/ \E t \in Text, skip \in {0, 1} : Encrypt(o, t, skip)
                    \/ \E m \in net \cup {Damaged} : Decrypt(o, m)

Spec == Init /\ [][Next]_vars

-----------------------------------------------------------------------------
TypeOK ==
  /\ msg_counter \in [Object -> 0 .. MaxKeys]
  /\ net \subseteq Message
  /\ arrived \in [Object -> Seq(net \cup {Damaged})]
  /\ opened \in [Object -> SUBSET net]

\* "Each send/receive call rotates the chain key and produces a fresh message
\* key" (the class's docstring): one object never seals two messages with the
\* same key.
FreshKeys == \A m1, m2 \in net : m1.by = m2.by /\ m1.key = m2.key => m1 = m2

\* The keys of the messages an object has sent or read
Used(o) == {m.key : m \in opened[o] \cup {q \in net : q.by = o}}

\* Forward secrecy: what an object's memory holds derives only keys of messages
\* it has neither sent nor read, however the network has treated them.
SpentKeysAreGone == \A o \in Object : \A k \in Used(o) : k <= msg_counter[o]

\* An object reads only forward: a message that arrives again, one that others
\* have overtaken and one that the network returns to its sender stay unread.
ReadsForward ==
  [][ \A o \in Object : \A m \in opened'[o] \ opened[o], k \in Used(o) : k < m.key ]_vars

\* An object that only receives reads exactly the messages that arrive in the
\* place in which they were sealed.  One datagram lost, repeated or damaged
\* shifts every later one out of its place: nothing is read any more until the
\* opposite fault makes up for it.
ReadsInPlace ==
  \A o \in Object : (\A m \in net : m.by # o) =>
    opened[o] = {arrived[o][i] : i \in {j \in DOMAIN arrived[o] : arrived[o][j].key = j}}
=============================================================================
