------------------------------ MODULE FragChat ------------------------------
(* The two-machine chat (demo_twomachine): zdemo_server and its clients       *)
(* exchange typed messages and files over UDP, cut into fragments.            *)
(*                                                                            *)
(* A client opens with one handshake packet.  The server registers its nonce  *)
(* for good, stores a session and only then tries to decrypt the greeting.    *)
(* Afterwards either side may send data messages: the message is encrypted as *)
(* a whole, cut into fragments, and each fragment travels under a plain       *)
(* header (session, sequence number, index, total).  The receiver collects    *)
(* fragments by session and sequence number (a client: by sequence number)    *)
(* and decrypts once it holds as many as the header says.  Data packets carry *)
(* no timestamp, proof of work or nonce.                                      *)
(*                                                                            *)
(* A client run is named by its session id.  A key is named by the server     *)
(* incarnation whose key pair it was derived with; cryptography is ideal.     *)
(* The handshake's timestamp check is left out: a handshake packet may be     *)
(* accepted or lost at any time.                                              *)
EXTENDS Integers, Sequences, FiniteSets, Functions

CONSTANTS
  Client,     \* runs of zdemo_client
  MaxTotal,   \* bound: fragments per message
  MaxSeq,     \* bound: messages per sender
  MaxEpoch,   \* bound: how many times the server is started
  MaxRepeats  \* bound: how often the network repeats a data packet, in all

ASSUME BoundAssumption == /\ {MaxTotal, MaxSeq, MaxEpoch} \subseteq Nat \ {0}
                          /\ MaxRepeats \in Nat

VARIABLES
  epoch,       \* the number of the running server incarnation
  seenNonces,  \* SEEN_NONCES of the server, never pruned
  sessions,    \* SESSIONS of the server: session ids in the order of insertion
  serverSeq,   \* seq_counter of the server
  key,         \* the incarnation each client derived its key with
  clientSeq,   \* seq_counter of each client; 0 while it has not started
  handshakes,  \* handshake packets in flight
  packets,     \* data packets in flight
  buffers,     \* FRAG_BUFFERS of server and clients: fragments by buffer key
  greeted,     \* history: how often a server has shown each client's greeting
  arrived,     \* history: how often each data packet reached a buffer
  printed      \* history: how often each data message was shown

vars == <<epoch, seenNonces, sessions, serverSeq, key, clientSeq, handshakes,
          packets, buffers, greeted, arrived, printed>>

NoPair == 0   \* a client's key files stem from two incarnations

\* Data messages, upwards to the server or down to a client.  under is the
\* incarnation that the sender believes to share its key with.
Message ==
  [dir : {"up", "down"}, client : Client, seq : 1 .. MaxSeq,
   total : 1 .. MaxTotal, under : NoPair .. MaxEpoch]

PacketsFromOne(m) == {[msg |-> m, idx |-> i] : i \in 1 .. m.total} \* mutant: off by one
Packets(m) == {[msg |-> m, idx |-> i] : i \in 0 .. m.total - 1}
DataPacket == UNION {Packets(m) : m \in Message}

\* buf_key: (session_id, seq_num) at the server, seq_num at a client
BufferKey(m) == <<m.dir, m.client, m.seq>>

\* The receiver's key opens what m's sender encrypted.
Opens(m) ==
  key[m.client] = IF m.dir = "up" THEN epoch ELSE m.under

\* What of a partial function f remains without key k, and f with f[k] = v
Without(f, k) == Restrict(f, DOMAIN f \ {k})
With(f, k, v) == [j \in DOMAIN f \cup {k} |-> IF j = k THEN v ELSE f[j]]

Registered(c) == \E i \in DOMAIN sessions : sessions[i] = c

-----------------------------------------------------------------------------
Init ==
  /\ epoch = 1
  /\ seenNonces = {}
  /\ sessions = <<>>
  /\ serverSeq = 1
  /\ key = [c \in Client |-> NoPair]
  /\ clientSeq = [c \in Client |-> 0]
  /\ handshakes = {} /\ packets = {}
  /\ buffers = [k \in {} |-> <<>>]
  /\ greeted = [c \in Client |-> 0]
  /\ arrived = [p \in {} |-> 0]
  /\ printed = [m \in {} |-> 0]

\* The server is stopped and started: all its state is gone, its sequence
\* numbers start over; the clients run on.
Restart ==
  /\ epoch < MaxEpoch
  /\ epoch' = epoch + 1
  /\ seenNonces' = {} /\ sessions' = <<>> /\ serverSeq' = 1
  /\ buffers' = [k \in {k \in DOMAIN buffers : k[1] = "down"} |-> buffers[k]]
  /\ UNCHANGED <<key, clientSeq, handshakes, packets, greeted, arrived, printed>>

\* A client reads its copies of the two key files, sends the handshake and is
\* ready for input, without waiting for anything.
StartClient(c) ==
  /\ clientSeq[c] = 0
  /\ clientSeq' = [clientSeq EXCEPT ![c] = 1]
  /\ \E e \in NoPair .. epoch : key' = [key EXCEPT ![c] = e]
  /\ handshakes' = handshakes \cup {c}
  /\ UNCHANGED <<epoch, seenNonces, sessions, serverSeq, packets, buffers,
                 greeted, arrived, printed>>

HandshakeUnregistered(c) == \* mutant: the nonce is looked up, never stored
  /\ c \in handshakes
  /\ c \notin seenNonces
  /\ sessions' = IF Registered(c) THEN sessions ELSE Append(sessions, c)
  /\ greeted' = [greeted EXCEPT ![c] = IF key[c] = epoch THEN @ + 1 ELSE @]
  /\ UNCHANGED <<epoch, seenNonces, serverSeq, key, clientSeq, handshakes,
                 packets, buffers, arrived, printed>>

\* The handshake branch of datagram_received.  The session is stored first; a
\* greeting that does not decrypt is logged and the session stays.
Handshake(c) ==
  /\ c \in handshakes
  /\ c \notin seenNonces
  /\ seenNonces' = seenNonces \cup {c}
  /\ sessions' = IF Registered(c) THEN sessions ELSE Append(sessions, c)
  /\ greeted' = [greeted EXCEPT ![c] = IF key[c] = epoch THEN @ + 1 ELSE @]
  /\ UNCHANGED <<epoch, serverSeq, key, clientSeq, handshakes, packets,
                 buffers, arrived, printed>>

\* A repeated handshake is dropped.
HandshakeRepeated(c) ==
  /\ c \in handshakes /\ c \in seenNonces
  /\ UNCHANGED vars

\* handle_input of a client: encrypt, cut, send all fragments.
ClientSend(c, total) ==
  /\ clientSeq[c] \in 1 .. MaxSeq
  /\ LET m == [dir |-> "up", client |-> c, seq |-> clientSeq[c],
               total |-> total, under |-> key[c]]
     IN  packets' = packets \cup Packets(m)
  /\ clientSeq' = [clientSeq EXCEPT ![c] = @ + 1]
  /\ UNCHANGED <<epoch, seenNonces, sessions, serverSeq, key, handshakes,
                 buffers, greeted, arrived, printed>>

\* list(SESSIONS.keys())[-1]
Addressee == sessions[Len(sessions)]

\* handle_input of the server: the message goes to one client.
ServerSend(total) ==
  /\ sessions # <<>> /\ serverSeq <= MaxSeq
  /\ LET m == [dir |-> "down", client |-> Addressee, seq |-> serverSeq,
               total |-> total, under |-> epoch]
     IN  packets' = packets \cup Packets(m)
  /\ serverSeq' = serverSeq + 1
  /\ UNCHANGED <<epoch, seenNonces, sessions, key, clientSeq, handshakes,
                 buffers, greeted, arrived, printed>>

\* Data for a session the server does not know is dropped.
DropUnknown(p) ==
  /\ p.msg.dir = "up" /\ ~ Registered(p.msg.client)
  /\ UNCHANGED vars

Count(f, k) == IF k \in DOMAIN f THEN f[k] ELSE 0

\* How many deliveries so far were repeats, for the bound
Repeats == FoldFunction(+, 0, arrived) - Cardinality(DOMAIN arrived)

\* The fragments of p's buffer with p's payload stored at its index
Filled(p) ==
  LET k == BufferKey(p.msg)
  IN  With(IF k \in DOMAIN buffers THEN buffers[k] ELSE <<>>, p.idx, p.msg)

KeepAfterUse(k, b, done) == With(buffers, k, b) \* mutant: no del FRAG_BUFFERS[buf_key]
\* The buffers once b is stored under k, which is deleted when it was used up
StoreOrDelete(k, b, done) == IF done THEN Without(buffers, k) ELSE With(buffers, k, b)

\* The receiver holds as many fragments as p's header says.
CompleteByLast(p, b) == p.idx = p.msg.total - 1 \* mutant: the last fragment completes
Complete(p, b) == Cardinality(DOMAIN b) = p.msg.total

\* The data branch of datagram_received, of the server and of a client.  A
\* missing index among the fragments raises KeyError before the buffer is
\* deleted.  What does not decrypt as one message is logged and gone.
Collect(p) ==
  LET m == p.msg
      b == Filled(p)
      done == Complete(p, b) /\ 0 .. m.total - 1 \subseteq DOMAIN b
      whole == \A i \in DOMAIN b : b[i] = m
  IN  /\ m.dir = "up" => Registered(m.client)
      /\ p \in DOMAIN arrived => Repeats < MaxRepeats
      /\ arrived' = With(arrived, p, Count(arrived, p) + 1)
      /\ buffers' = StoreOrDelete(BufferKey(m), b, done)
      /\ printed' = IF done /\ whole /\ Opens(m)
                    THEN With(printed, m, Count(printed, m) + 1) ELSE printed
      /\ UNCHANGED <<epoch, seenNonces, sessions, serverSeq, key, clientSeq,
                     handshakes, packets, greeted>>

Next ==
  \/ Restart
  \/ \E c \in Client : \/ StartClient(c) \/ Handshake(c) \/ HandshakeRepeated(c)
                       \/ \E total \in 1 .. MaxTotal : ClientSend(c, total)
  \/ \E total \in 1 .. MaxTotal : ServerSend(total)
  \/ \E p \in packets : DropUnknown(p) \/ Collect(p)

Spec == Init /\ [][Next]_vars

-----------------------------------------------------------------------------
TypeOK ==
  /\ epoch \in 1 .. MaxEpoch
  /\ seenNonces \subseteq Client
  /\ sessions \in Seq(Client)
  /\ serverSeq \in 1 .. MaxSeq + 1
  /\ key \in [Client -> NoPair .. MaxEpoch]
  /\ clientSeq \in [Client -> 0 .. MaxSeq + 1]
  /\ handshakes \subseteq Client
  /\ packets \subseteq DataPacket
  /\ DOMAIN buffers \subseteq {BufferKey(m) : m \in Message}
  /\ \A k \in DOMAIN buffers : /\ DOMAIN buffers[k] \subseteq 0 .. MaxTotal - 1
                               /\ \A i \in DOMAIN buffers[k] : buffers[k][i] \in Message
  /\ greeted \in [Client -> Nat]
  /\ DOMAIN arrived \subseteq packets
  /\ DOMAIN printed \subseteq Message

\* A greeting is shown at most once, ever: the registry of nonces is never
\* pruned, and after a restart the greeting does not decrypt.
Greeting == INSTANCE AtMostOnce
              WITH Message <- Client, sent <- handshakes, executed <- greeted
GreetedAtMostOnce == Greeting!Spec

\* A message is shown only for fragments that arrived for it: every showing, and
\* every fragment that waits in a buffer, takes an arrival of its own.  So a
\* message is shown at most once unless the network repeats all its fragments.
ShownPerArrival ==
  \A m \in DOMAIN printed \cup {p.msg : p \in packets} :
    \A p \in Packets(m) :
      LET k == BufferKey(m)
          waiting == /\ k \in DOMAIN buffers
                     /\ p.idx \in DOMAIN buffers[k]
                     /\ buffers[k][p.idx] = m
      IN  Count(printed, m) + (IF waiting THEN 1 ELSE 0) <= Count(arrived, p)

\* A message that the receiver can decrypt is shown once all its fragments have
\* arrived, in whatever order and however often the network delivers them, and
\* whatever other messages are under way; unless a server restart has given its
\* sequence number to a second message for the same client.
CompleteIsShown ==
  \A m \in {p.msg : p \in packets} :
    /\ \A p \in Packets(m) : Count(arrived, p) > 0
    /\ Opens(m)
    /\ \A q \in packets : BufferKey(q.msg) = BufferKey(m) => q.msg = m
    => Count(printed, m) > 0
=============================================================================
