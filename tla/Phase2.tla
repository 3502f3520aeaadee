-------------------------------- MODULE Phase2 --------------------------------
(* The phase 2 prototype: zclient, zserver and zpacket of phase2.             *)
(*                                                                            *)
(* As in ZeroRtt a client reads the server's two public keys, derives a       *)
(* session key and sends one datagram.  But the "proof of work" is a plain    *)
(* hash of session id and timestamp, the server keeps no registry of what it  *)
(* has seen and no sessions, it answers under the key of the message, and the *)
(* client ends after a second without reading the answer.                     *)
(*                                                                            *)
(* A client run is named by its random session id.  A key pair is named by    *)
(* the server incarnation that drew it.  Cryptography is ideal.  Between      *)
(* stopping and starting a server nothing is received, which the model        *)
(* covers by losing the datagrams that arrive then.                           *)
EXTENDS WallClock

CONSTANTS
  Client,    \* runs of zclient
  Stamp,     \* the timestamps their clocks may give them
  Window,    \* window_seconds
  MaxEpoch   \* bound: how many times the server is started

ASSUME WindowAssumption == Stamp \subseteq Int /\ Window \in Nat
ASSUME EpochAssumption  == MaxEpoch \in Nat \ {0}

VARIABLES
  epoch,     \* the number of the running server incarnation
  pair,      \* the incarnation whose keys each client has read
  stamp,     \* the timestamp of each client's packet
  net,       \* datagrams in flight; the network may keep and repeat them
  read,      \* history: which message was decrypted, by whom and when
  acks       \* answers sent: to which message, by whom and when

vars == <<now, epoch, pair, stamp, net, read, acks>>

NoPair == 0   \* the two key files stem from two incarnations, or one is empty

\* What the network can do to the bytes of a datagram.
\*   "ignored"  a field that the server does not look at: version, type, the
\*              copy of its own ML-KEM key; or a payload_len too large, which
\*              slices the payload as the right one does
\*   "hashed"   session id, timestamp or the hash of them
\*   "sealed"   the client's X25519 key, the ML-KEM ciphertext, the message
\*   "cut"      payload_len is that of the ML-KEM ciphertext: no message is left
Condition == {"intact", "ignored", "hashed", "sealed", "cut"}

Event == [client : Client, epoch : 1 .. MaxEpoch, at : Time]

-----------------------------------------------------------------------------
Init ==
  /\ now \in Time
  /\ epoch = 1
  /\ pair = [c \in Client |-> NoPair]
  /\ stamp = [c \in Client |-> 0]   \* no packet yet
  /\ net = {} /\ read = {} /\ acks = {}

Sent == {c \in Client : <<c, "intact">> \in net}

RestartKeepsKeys == \* mutant: a new process goes on with the old key pair
  /\ epoch < MaxEpoch
  /\ epoch' = epoch + 1
  /\ pair' = [c \in Client |-> IF pair[c] = epoch THEN epoch + 1 ELSE pair[c]]
  /\ UNCHANGED <<now, stamp, net, read, acks>>

\* The server's main(): a new key pair and new key files.
Restart ==
  /\ epoch < MaxEpoch
  /\ epoch' = epoch + 1
  /\ UNCHANGED <<now, pair, stamp, net, read, acks>>

SendUnstamped(c) == \* mutant: the header is packed before the clock is read
  /\ c \notin Sent
  /\ \E e \in NoPair .. epoch : pair' = [pair EXCEPT ![c] = e]
  /\ net' = net \cup {<<c, "intact">>}
  /\ UNCHANGED <<now, epoch, stamp, read, acks>>

\* The client's main().  The files it read may be of earlier incarnations.
Send(c) ==
  /\ c \notin Sent
  /\ \E e \in NoPair .. epoch : pair' = [pair EXCEPT ![c] = e]
  /\ \E t \in Stamp : stamp' = [stamp EXCEPT ![c] = t]
  /\ net' = net \cup {<<c, "intact">>}
  /\ UNCHANGED <<now, epoch, read, acks>>

Damage(c) ==
  /\ <<c, "intact">> \in net
  /\ \E how \in Condition \ {"intact"} : net' = net \cup {<<c, how>>}
  /\ UNCHANGED <<now, epoch, pair, stamp, read, acks>>

VerifyPow(how) == how # "hashed"

FreshOneSided(c) == now - stamp[c] <= Window \* mutant: no abs()
Fresh(c) == -Window <= now - stamp[c] /\ now - stamp[c] <= Window

\* server_decapsulate gives the key of the client, and the AEAD tag fits.
Decrypts(c, how) == how \in {"intact", "ignored"} /\ pair[c] = epoch

Happens(c) == [client |-> c, epoch |-> epoch, at |-> now]

Drop(c, how) == ~ (VerifyPow(how) /\ Fresh(c)) /\ UNCHANGED vars

\* decrypt() raises: the except clause logs it and there is no answer.
Fail(c, how) ==
  /\ VerifyPow(how) /\ Fresh(c)
  /\ how # "cut" /\ ~ Decrypts(c, how)
  /\ UNCHANGED vars

AcceptAcksFirst(c, how) == \* mutant: the answer goes out before decrypt() can raise
  /\ VerifyPow(how) /\ Fresh(c)
  /\ read' = IF Decrypts(c, how) THEN read \cup {Happens(c)} ELSE read
  /\ acks' = acks \cup {Happens(c)}
  /\ UNCHANGED <<now, epoch, pair, stamp, net>>

\* A payload without a message is not decrypted, and answered.
Accept(c, how) ==
  /\ VerifyPow(how) /\ Fresh(c)
  /\ how = "cut" \/ Decrypts(c, how)
  /\ read' = IF how = "cut" THEN read ELSE read \cup {Happens(c)}
  /\ acks' = acks \cup {Happens(c)}
  /\ UNCHANGED <<now, epoch, pair, stamp, net>>

Receive(c, how) ==
  /\ <<c, how>> \in net
  /\ Drop(c, how) \/ Fail(c, how) \/ Accept(c, how)

Pass == Tick /\ UNCHANGED <<epoch, pair, stamp, net, read, acks>>

Next ==
  \/ Restart
  \/ \E c \in Client : \/ Send(c) \/ Damage(c)
                       \/ \E how \in Condition : Receive(c, how)
  \/ Pass

Spec == Init /\ [][Next]_vars

-----------------------------------------------------------------------------
\* What was received was sent, by a client run that had stamped its packet, and
\* has not happened in the future of this server.
TypeOK ==
  /\ now \in Time
  /\ epoch \in 1 .. MaxEpoch
  /\ pair \in [Client -> NoPair .. epoch]
  /\ stamp \in [Client -> Int] /\ \A c \in Sent : stamp[c] \in Stamp
  /\ net \subseteq Sent \X Condition
  /\ read \subseteq Event /\ acks \subseteq Event
  /\ \A e \in read \cup acks : /\ e.client \in Sent
                               /\ e.epoch <= epoch /\ e.at <= now

\* "Reject packets older than window_seconds (replay defence)" (zpacket.py): the
\* server keeps no registry, so it reads every copy of a packet.  What bounds
\* that is the window, on either side of the timestamp, and the life of the key
\* pair: however long the network keeps a copy, all readings of one message are
\* the same incarnation's and at most two windows apart.
RepeatsAreClose ==
  \A d, e \in read :
    d.client = e.client => d.epoch = e.epoch /\ d.at - e.at <= 2 * Window

\* "Z-Protocol ACK: message received" (zserver.py): an answer is sent exactly for
\* the messages that were read, whatever keys a client had and whatever was
\* damaged, except that a packet whose payload_len leaves no message is answered
\* as well.
AckMeansRead ==
  /\ read \subseteq acks
  /\ \A e \in acks \ read : <<e.client, "cut">> \in net
=============================================================================
