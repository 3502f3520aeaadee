------------------------------- MODULE ZeroRtt -------------------------------
(* Z-Protocol v2 as phase 4 runs it: zclient_v2, the two public-key files,    *)
(* UDP and zserver_v2.                                                        *)
(*                                                                            *)
(* A server incarnation draws a key pair, writes its two public keys to two   *)
(* files, one after the other, and listens.  A client reads the two files,    *)
(* derives a session key, encrypts its message under the first ratchet key,   *)
(* stamps it with its own clock, mines a nonce and sends one datagram.  The   *)
(* server checks timestamp, proof of work and nonce, derives the session key, *)
(* decrypts, stores a session and answers with an ACK under the second        *)
(* ratchet key.  Its registry, sessions and private keys die with it.         *)
(*                                                                            *)
(* A run of the client is named by the nonce it mines: nonces and session ids *)
(* are 64 fresh random bits and are taken to be distinct.  A key pair, and a  *)
(* copy of either public key, is named by the incarnation that drew it.       *)
(* Cryptography is ideal: a datagram decrypts exactly if it is intact and     *)
(* was sealed for both public keys of the incarnation that receives it.       *)
EXTENDS ReplayFilter

CONSTANT MaxEpoch   \* bound: how many times the server is started

ASSUME EpochAssumption == MaxEpoch \in Nat

VARIABLES
  phase,      \* how far the server's main() has come
  epoch,      \* the number of the latest incarnation
  kemFile,    \* contents of server_kem.pub
  xFile,      \* contents of server_x25519.pub
  progress,   \* how far each client's main() has come
  kem,        \* the ML-KEM key each client has read
  x,          \* the X25519 key each client has read
  stamp,      \* the timestamp in each client's packet
  net,        \* datagrams in flight; the network may keep and repeat them
  sessions,   \* SessionStore.sessions of the running server
  processed,  \* history: how often a server has decrypted each client's message
  keyUses     \* history: how many messages each ratchet key has encrypted

serverVars  == <<phase, epoch, kemFile, xFile>>
clientVars  == <<progress, kem, x, stamp>>
effectVars  == <<sessions, processed, keyUses>>
vars == <<filterVars, serverVars, clientVars, net, effectVars>>

Client == Nonce

NoFile  == -1          \* open() raises FileNotFoundError
Emptied == 0           \* open(..., "wb") has truncated the file
KeyFile == NoFile .. MaxEpoch

\* What the network can do to the bytes of a datagram: the proof of work covers
\* session id, timestamp and nonce ("header"); the AEAD tag and the key exchange
\* cover the rest ("sealed").
Condition == {"intact", "header", "sealed"}

\* The ratchet keys of a session: the client's message takes the first, the ACK
\* the second.
MessageKey == 1
AckKeyUnadvanced == 1   \* mutant: the ACK's ratchet is not advanced first
AckKey     == 2

SharesKeptKey(c) == kem[c] = x[c] /\ kem[c] > 0 \* mutant: the key pair outlives restarts

\* client and running server derive the same session key
SharesKey(c) == kem[c] = epoch /\ x[c] = epoch

-----------------------------------------------------------------------------
Init ==
  /\ FilterInit
  /\ phase = "down" /\ epoch = 0
  /\ kemFile = NoFile /\ xFile = NoFile
  /\ progress = [c \in Client |-> "new"]
  /\ kem = [c \in Client |-> NoFile]
  /\ x = [c \in Client |-> NoFile]
  /\ stamp = [c \in Client |-> 0]     \* no packet yet
  /\ net = {}
  /\ sessions = {}
  /\ processed = [c \in Client |-> 0]
  /\ keyUses = [u \in Client \X {MessageKey, AckKey} |-> 0]

(* The server's main().  Each file is truncated by open() and gets its bytes  *)
(* when it is closed; clients may read in between.                            *)

\* generate_hybrid_keypair(), then open("server_kem.pub", "wb")
Start ==
  /\ phase = "down" /\ epoch < MaxEpoch
  /\ epoch' = epoch + 1
  /\ kemFile' = Emptied
  /\ phase' = "kemOpen"
  /\ UNCHANGED <<filterVars, xFile, clientVars, net, effectVars>>

WriteKem ==
  /\ phase = "kemOpen"
  /\ kemFile' = epoch
  /\ phase' = "kemSaved"
  /\ UNCHANGED <<filterVars, epoch, xFile, clientVars, net, effectVars>>

OpenX ==
  /\ phase = "kemSaved"
  /\ xFile' = Emptied
  /\ phase' = "xOpen"
  /\ UNCHANGED <<filterVars, epoch, kemFile, clientVars, net, effectVars>>

\* The second file is complete and the socket is bound.
WriteXAndListen ==
  /\ phase = "xOpen"
  /\ xFile' = epoch
  /\ phase' = "up"
  /\ UNCHANGED <<filterVars, epoch, kemFile, clientVars, net, effectVars>>

\* The process ends, at the latest after its hour; the files stay.
Stop ==
  /\ phase # "down"
  /\ phase' = "down"
  /\ sessions' = {}
  /\ FilterReset
  /\ UNCHANGED <<epoch, kemFile, xFile, clientVars, net, processed, keyUses>>

(* The client's main().                                                       *)

ReadKem(c) ==
  /\ progress[c] = "new"
  /\ progress' = [progress EXCEPT ![c] = IF kemFile = NoFile THEN "failed" ELSE "half"]
  /\ kem' = [kem EXCEPT ![c] = kemFile]
  /\ UNCHANGED <<filterVars, serverVars, x, stamp, net, effectVars>>

\* An empty X25519 key raises ValueError in client_encapsulate; an empty ML-KEM
\* key yields a ciphertext that no incarnation can open.
ReadX(c) ==
  /\ progress[c] = "half"
  /\ progress' = [progress EXCEPT ![c] =
                    IF xFile \in {NoFile, Emptied} THEN "failed" ELSE "keyed"]
  /\ x' = [x EXCEPT ![c] = xFile]
  /\ UNCHANGED <<filterVars, serverVars, kem, stamp, net, effectVars>>

\* Encrypt, read the clock, mine the nonce, send.  The client's clock need not
\* agree with the server's, and mining and the network may take any time.
Send(c) ==
  /\ progress[c] = "keyed"
  /\ progress' = [progress EXCEPT ![c] = "sent"]
  /\ \E ts \in Stamp : stamp' = [stamp EXCEPT ![c] = ts]
  /\ net' = net \cup {<<c, "intact">>}
  /\ keyUses' = [keyUses EXCEPT ![<<c, MessageKey>>] = @ + 1]
  /\ UNCHANGED <<filterVars, serverVars, kem, x, sessions, processed>>

(* The network.  A datagram in flight may be delivered never, late or again.  *)

Damage(c) ==
  /\ <<c, "intact">> \in net
  /\ \E how \in Condition \ {"intact"} : net' = net \cup {<<c, how>>}
  /\ UNCHANGED <<filterVars, serverVars, clientVars, effectVars>>

(* datagram_received of the server.  The clock reads now in verify_timestamp, *)
(* then t1 and t2 in the replay filter.                                       *)

DropRegisters(c, how) == \* mutant: the nonce is registered before verify_pow
  /\ OutsideWindow(stamp[c], now) \/ how = "header"
  /\ seen' = Register(seen, c, stamp[c])
  /\ admitted' = [admitted EXCEPT ![<<c, stamp[c]>>] = @ + 1]
  /\ UNCHANGED <<now, serverVars, clientVars, net, effectVars>>

\* verify_timestamp or verify_pow refuses the packet.
Drop(c, how) ==
  /\ OutsideWindow(stamp[c], now) \/ how = "header"
  /\ UNCHANGED vars

DropReplayed(c, how, t1) ==
  /\ ~ OutsideWindow(stamp[c], now) /\ how # "header"
  /\ Reject(c, stamp[c], t1)
  /\ UNCHANGED <<serverVars, clientVars, net, effectVars>>

\* Decrypt, store the session, answer.
Answer(c) ==
  /\ processed' = [processed EXCEPT ![c] = @ + 1]
  /\ sessions' = sessions \cup {c}
  /\ keyUses' = [keyUses EXCEPT ![<<c, AckKey>>] = @ + 1]

AcceptStoresFirst(c, how, t1, t2) == \* mutant: the session is stored before decrypting
  /\ ~ OutsideWindow(stamp[c], now) /\ how # "header"
  /\ Admit(c, stamp[c], t1, t2)
  /\ IF how = "intact" /\ SharesKey(c)
     THEN Answer(c)
     ELSE sessions' = sessions \cup {c} /\ UNCHANGED <<processed, keyUses>>
  /\ UNCHANGED <<serverVars, clientVars, net>>

\* The nonce is registered before the key exchange: when the packet then fails
\* to decrypt, the handler's except clause swallows the error and the nonce
\* stays registered.
Accept(c, how, t1, t2) ==
  /\ ~ OutsideWindow(stamp[c], now) /\ how # "header"
  /\ Admit(c, stamp[c], t1, t2)
  /\ IF how = "intact" /\ SharesKey(c) THEN Answer(c) ELSE UNCHANGED effectVars
  /\ UNCHANGED <<serverVars, clientVars, net>>

Receive(c, how) ==
  /\ phase = "up" /\ <<c, how>> \in net
  /\ \/ Drop(c, how)
     \/ \E t1 \in Time : \/ DropReplayed(c, how, t1)
                         \/ \E t2 \in Time : Accept(c, how, t1, t2)

Pass == FilterTick /\ UNCHANGED <<serverVars, clientVars, net, effectVars>>

Next ==
  \/ Start \/ WriteKem \/ OpenX \/ WriteXAndListen \/ Stop
  \/ \E c \in Client : \/ ReadKem(c) \/ ReadX(c) \/ Send(c) \/ Damage(c)
                       \/ \E how \in Condition : Receive(c, how)
  \/ Pass

Spec == Init /\ [][Next]_vars

-----------------------------------------------------------------------------
Epoch == 0 .. MaxEpoch
Sent  == {c \in Client : progress[c] = "sent"}

TypeOK ==
  /\ FilterTypeOK
  /\ phase \in {"down", "kemOpen", "kemSaved", "xOpen", "up"}
  /\ epoch \in Epoch
  /\ kemFile \in KeyFile /\ xFile \in KeyFile
  /\ progress \in [Client -> {"new", "half", "keyed", "sent", "failed"}]
  /\ kem \in [Client -> KeyFile] /\ x \in [Client -> KeyFile]
  /\ stamp \in [Client -> Int]
  /\ \A c \in Sent : stamp[c] \in Stamp
  /\ net \subseteq Sent \X Condition
  /\ sessions \subseteq Client
  /\ processed \in [Client -> Nat]
  /\ keyUses \in [Client \X {MessageKey, AckKey} -> Nat]

\* A message is decrypted and acted on at most once, ever: while a server runs
\* its registry refuses the copies, and after a restart, which empties the
\* registry, the copies were sealed for keys that no longer exist.
Delivery == INSTANCE AtMostOnce
              WITH Message <- Client, sent <- Sent, executed <- processed
AtMostOnceDelivery == Delivery!Spec

\* The server keeps a session only with a client that derived the same key and
\* whose message it has read, also when the client put its keys together from
\* files of two incarnations or the datagram was damaged.
SessionsShareKeys ==
  \A c \in sessions : c \in Sent /\ SharesKey(c) /\ processed[c] > 0

\* "Each send/receive call rotates the chain key and produces a fresh message
\* key" (zratchet.py): no ratchet key of a session ever encrypts two messages,
\* the client's or the server's.
FreshMessageKeys == \A u \in DOMAIN keyUses : keyUses[u] <= 1

\* The nonce is burnt before the packet is decrypted, so a packet can be lost
\* for good although it arrives.  That takes a damaged copy or keys of another
\* incarnation: an undamaged packet for the running server is read when it is
\* admitted.
OnlyDamageWastesANonce ==
  \A c \in Sent :
    /\ admitted[<<c, stamp[c]>>] > 0
    /\ SharesKey(c)
    /\ <<c, "sealed">> \notin net
    => processed[c] > 0
=============================================================================
