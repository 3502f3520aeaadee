--------------------------- MODULE FragChatProofs ---------------------------
(* The two-machine chat, for any number of clients, messages, fragments,      *)
(* repetitions and restarts of the server.                                    *)
(*                                                                            *)
(* A greeting is shown at most once because the registry is never pruned, and *)
(* dies only together with the key pair that the greeting was sealed for.  A  *)
(* message is shown only for arrivals of its own because every fragment in a  *)
(* buffer has arrived once more than its message was shown.                   *)
EXTENDS FragChat, FiniteSetTheorems, TLAPS

USE BoundAssumption

-----------------------------------------------------------------------------
(* Facts about packets and partial functions *)

LEMMA PacketFacts ==
  ASSUME NEW p \in DataPacket
  PROVE  /\ p.msg \in Message
         /\ p.idx \in 0 .. p.msg.total - 1
         /\ p.idx \in 0 .. MaxTotal - 1
         /\ p \in Packets(p.msg)
<1>0. PICK m \in Message : p \in Packets(m)
  BY DEF DataPacket
<1>1. PICK i \in 0 .. m.total - 1 : p = [msg |-> m, idx |-> i]
  BY <1>0 DEF Packets
<1>2. m.total \in 1 .. MaxTotal
  BY DEF Message
<1> QED  BY <1>0, <1>1, <1>2

LEMMA PacketsOfMessage ==
  ASSUME NEW m \in Message
  PROVE  /\ Packets(m) \subseteq DataPacket
         /\ \A p \in Packets(m) : p.msg = m /\ p.idx \in 0 .. m.total - 1
  BY DEF DataPacket, Packets

\* The buffer after p's fragment was put into it
LEMMA FilledFacts ==
  ASSUME TypeOK, NEW p \in DataPacket
  PROVE  LET k == BufferKey(p.msg)
         IN  /\ p.idx \in DOMAIN Filled(p) /\ Filled(p)[p.idx] = p.msg
             /\ \A i \in DOMAIN Filled(p) : i # p.idx =>
                  k \in DOMAIN buffers /\ i \in DOMAIN buffers[k]
                  /\ Filled(p)[i] = buffers[k][i]
             /\ DOMAIN Filled(p) \subseteq 0 .. MaxTotal - 1
             /\ \A i \in DOMAIN Filled(p) : Filled(p)[i] \in Message
<1> DEFINE k == BufferKey(p.msg)
           old == IF k \in DOMAIN buffers THEN buffers[k] ELSE <<>>
<1>1. Filled(p) = With(old, p.idx, p.msg)
  BY DEF Filled
<1>2. /\ DOMAIN old \subseteq 0 .. MaxTotal - 1
      /\ \A i \in DOMAIN old : /\ old[i] \in Message
                               /\ k \in DOMAIN buffers /\ i \in DOMAIN buffers[k]
                               /\ old[i] = buffers[k][i]
  <2>1. CASE k \in DOMAIN buffers
    BY <2>1 DEF TypeOK
  <2>2. CASE k \notin DOMAIN buffers
    <3>1. DOMAIN old = {}
      BY <2>2
    <3> QED  BY <3>1
  <2> QED  BY <2>1, <2>2
<1> HIDE DEF old
<1>3. /\ DOMAIN Filled(p) = DOMAIN old \cup {p.idx}
      /\ Filled(p)[p.idx] = p.msg
      /\ \A i \in DOMAIN old : i # p.idx => Filled(p)[i] = old[i]
  BY <1>1 DEF With
<1> QED  BY <1>2, <1>3, PacketFacts

-----------------------------------------------------------------------------
(* Types *)

\* A client whose handshake is under way has started, with keys that existed.
Started ==
  \A c \in Client : /\ key[c] <= epoch
                    /\ clientSeq[c] = 0 => c \notin handshakes /\ greeted[c] = 0

\* Histories count.
Counts == /\ \A p \in DOMAIN arrived : arrived[p] \in Nat
          /\ \A m \in DOMAIN printed : printed[m] \in Nat

TypeInv == TypeOK /\ Started /\ Counts

LEMMA InitTypes == Init => TypeInv
<1> SUFFICES ASSUME Init PROVE TypeInv
  OBVIOUS
<1> USE DEF Init
<1>1. sessions \in Seq(Client)
  OBVIOUS
<1>2. key \in [Client -> NoPair .. MaxEpoch] /\ \A c \in Client : key[c] <= epoch
  BY DEF NoPair
<1>3. clientSeq \in [Client -> 0 .. MaxSeq + 1] /\ serverSeq \in 1 .. MaxSeq + 1
      /\ epoch \in 1 .. MaxEpoch
  OBVIOUS
<1>4. DOMAIN buffers = {} /\ DOMAIN arrived = {} /\ DOMAIN printed = {}
  OBVIOUS
<1>5. greeted \in [Client -> Nat] /\ \A c \in Client : greeted[c] = 0
  OBVIOUS
<1> QED  BY <1>1, <1>2, <1>3, <1>4, <1>5 DEF TypeInv, TypeOK, Started, Counts

\* A message that someone sends, with its fragments
LEMMA SentPackets ==
  ASSUME TypeOK, NEW m \in Message
  PROVE  packets \cup Packets(m) \subseteq DataPacket
  BY PacketsOfMessage DEF TypeOK

LEMMA HandshakeTypes ==
  ASSUME TypeInv, NEW c \in Client, Handshake(c)
  PROVE  TypeInv'
<1> USE DEF TypeInv, TypeOK, Started, Counts
<1>1. /\ UNCHANGED <<epoch, serverSeq, key, clientSeq, handshakes, packets,
                     buffers, arrived, printed>>
      /\ seenNonces' = seenNonces \cup {c} /\ c \in handshakes
      /\ sessions' = IF Registered(c) THEN sessions ELSE Append(sessions, c)
      /\ greeted' = [greeted EXCEPT ![c] = IF key[c] = epoch THEN @ + 1 ELSE @]
  BY DEF Handshake
<1>2. sessions' \in Seq(Client)
  BY <1>1
<1>3. greeted' \in [Client -> Nat] /\ \A d \in Client : d # c => greeted'[d] = greeted[d]
  BY <1>1
<1>4. Started'
  BY <1>1, <1>3
<1> QED  BY <1>1, <1>2, <1>3, <1>4

LEMMA CollectTypes ==
  ASSUME TypeInv, NEW p \in packets, Collect(p)
  PROVE  TypeInv'
<1> USE DEF TypeInv
<1> DEFINE m == p.msg
           k == BufferKey(m)
           b == Filled(p)
           done == Complete(p, b) /\ 0 .. m.total - 1 \subseteq DOMAIN b
<1>1. p \in DataPacket /\ m \in Message
  BY PacketFacts DEF TypeOK
<1>2. /\ arrived' = With(arrived, p, Count(arrived, p) + 1)
      /\ buffers' = StoreOrDelete(k, b, done)
      /\ \/ printed' = With(printed, m, Count(printed, m) + 1)
         \/ printed' = printed
      /\ UNCHANGED <<epoch, seenNonces, sessions, serverSeq, key, clientSeq,
                     handshakes, packets, greeted>>
  BY DEF Collect
<1>3. Count(arrived, p) \in Nat /\ Count(printed, m) \in Nat
  BY DEF Count, Counts
<1>4. DOMAIN arrived' = DOMAIN arrived \cup {p}
      /\ \A q \in DOMAIN arrived' : arrived'[q] \in Nat
  BY <1>2, <1>3 DEF Counts, With
<1>5. DOMAIN printed' \subseteq DOMAIN printed \cup {m}
      /\ \A n \in DOMAIN printed' : printed'[n] \in Nat
  BY <1>2, <1>3 DEF Counts, With
<1>6. done \in BOOLEAN
  BY DEF Complete
<1> HIDE DEF done, b, k
<1>7. /\ DOMAIN buffers' \subseteq DOMAIN buffers \cup {k}
      /\ \A j \in DOMAIN buffers' : \/ j # k /\ j \in DOMAIN buffers /\ buffers'[j] = buffers[j]
                                    \/ j = k /\ buffers'[j] = b
  <2>1. /\ DOMAIN StoreOrDelete(k, b, done)
              = IF done THEN DOMAIN buffers \ {k} ELSE DOMAIN buffers \cup {k}
        /\ ~ done => StoreOrDelete(k, b, done)[k] = b
        /\ \A j \in DOMAIN buffers : j # k => StoreOrDelete(k, b, done)[j] = buffers[j]
    BY DEF StoreOrDelete, With, Without, Restrict
  <2> QED  BY <1>2, <1>6, <2>1
<1>8. /\ DOMAIN buffers' \subseteq {BufferKey(n) : n \in Message}
      /\ \A j \in DOMAIN buffers' : /\ DOMAIN buffers'[j] \subseteq 0 .. MaxTotal - 1
                                    /\ \A i \in DOMAIN buffers'[j] : buffers'[j][i] \in Message
  BY <1>1, <1>7, FilledFacts DEF TypeOK, b, k
<1> QED  BY <1>1, <1>2, <1>4, <1>5, <1>8 DEF TypeOK, Started, Counts

LEMMA StepTypes == TypeInv /\ [Next]_vars => TypeInv'
<1> SUFFICES ASSUME TypeInv, [Next]_vars PROVE TypeInv'
  OBVIOUS
<1> USE DEF TypeInv
<1>1. CASE Restart
  <2>1. /\ epoch' = epoch + 1 /\ epoch' \in 1 .. MaxEpoch /\ epoch \in Nat
        /\ seenNonces' = {} /\ sessions' = <<>> /\ serverSeq' = 1
        /\ buffers' = [k \in {k \in DOMAIN buffers : k[1] = "down"} |-> buffers[k]]
        /\ UNCHANGED <<key, clientSeq, handshakes, packets, greeted, arrived, printed>>
    BY <1>1 DEF Restart, TypeOK
  <2>2. DOMAIN buffers' \subseteq DOMAIN buffers
        /\ \A k \in DOMAIN buffers' : buffers'[k] = buffers[k]
    BY <2>1
  <2>3. Started'
    BY <2>1 DEF Started, TypeOK, NoPair
  <2>4. sessions' \in Seq(Client) /\ serverSeq' \in 1 .. MaxSeq + 1
    BY <2>1
  <2> QED  BY <2>1, <2>2, <2>3, <2>4 DEF TypeOK, Counts
<1>2. ASSUME NEW c \in Client, StartClient(c) PROVE TypeInv'
  <2>1. PICK e \in NoPair .. epoch : key' = [key EXCEPT ![c] = e]
    BY <1>2 DEF StartClient
  <2>2. /\ clientSeq[c] = 0 /\ clientSeq' = [clientSeq EXCEPT ![c] = 1]
        /\ handshakes' = handshakes \cup {c}
        /\ UNCHANGED <<epoch, seenNonces, sessions, serverSeq, packets, buffers,
                       greeted, arrived, printed>>
    BY <1>2 DEF StartClient
  <2>3. e \in NoPair .. MaxEpoch /\ e <= epoch
    BY <2>1 DEF TypeOK, NoPair
  <2>4. key' \in [Client -> NoPair .. MaxEpoch]
        /\ clientSeq' \in [Client -> 0 .. MaxSeq + 1]
    BY <2>1, <2>2, <2>3 DEF TypeOK
  <2>5. Started'
    BY <2>1, <2>2, <2>3 DEF TypeOK, Started
  <2> QED  BY <2>2, <2>4, <2>5 DEF TypeOK, Counts
<1>3. ASSUME NEW c \in Client, NEW total \in 1 .. MaxTotal, ClientSend(c, total)
      PROVE  TypeInv'
  <2> DEFINE m == [dir |-> "up", client |-> c, seq |-> clientSeq[c],
                   total |-> total, under |-> key[c]]
  <2>1. /\ clientSeq[c] \in 1 .. MaxSeq
        /\ packets' = packets \cup Packets(m)
        /\ clientSeq' = [clientSeq EXCEPT ![c] = @ + 1]
        /\ UNCHANGED <<epoch, seenNonces, sessions, serverSeq, key, handshakes,
                       buffers, greeted, arrived, printed>>
    BY <1>3 DEF ClientSend
  <2>2. m \in Message
    BY <2>1 DEF Message, TypeOK
  <2> HIDE DEF m
  <2>3. packets' \subseteq DataPacket
    BY <2>1, <2>2, SentPackets
  <2>4. clientSeq' \in [Client -> 0 .. MaxSeq + 1]
    BY <2>1 DEF TypeOK
  <2>5. Started'
    BY <2>1 DEF TypeOK, Started
  <2> QED  BY <2>1, <2>3, <2>4, <2>5 DEF TypeOK, Counts
<1>4. ASSUME NEW total \in 1 .. MaxTotal, ServerSend(total)
      PROVE  TypeInv'
  <2> DEFINE m == [dir |-> "down", client |-> Addressee, seq |-> serverSeq,
                   total |-> total, under |-> epoch]
  <2>1. /\ sessions # <<>> /\ serverSeq <= MaxSeq
        /\ packets' = packets \cup Packets(m)
        /\ serverSeq' = serverSeq + 1
        /\ UNCHANGED <<epoch, seenNonces, sessions, key, clientSeq, handshakes,
                       buffers, greeted, arrived, printed>>
    BY <1>4 DEF ServerSend
  <2>2. Addressee \in Client
    BY <2>1 DEF Addressee, TypeOK
  <2>3. m \in Message
    BY <2>1, <2>2 DEF Message, TypeOK, NoPair
  <2> HIDE DEF m
  <2>4. packets' \subseteq DataPacket
    BY <2>1, <2>3, SentPackets
  <2> QED  BY <2>1, <2>4 DEF TypeOK, Started, Counts
<1>5. ASSUME NEW p \in packets, DropUnknown(p) PROVE TypeInv'
  BY <1>5 DEF DropUnknown, vars, TypeOK, Started, Counts
<1>6. ASSUME NEW c \in Client, HandshakeRepeated(c) PROVE TypeInv'
  BY <1>6 DEF HandshakeRepeated, vars, TypeOK, Started, Counts
<1>7. CASE UNCHANGED vars
  BY <1>7 DEF vars, TypeOK, Started, Counts
<1> QED  BY <1>1, <1>2, <1>3, <1>4, <1>5, <1>6, <1>7,
            HandshakeTypes, CollectTypes DEF Next

LEMMA TypeInvariance == Spec => []TypeInv
  BY InitTypes, StepTypes, PTL DEF Spec

\* Packets, buffers, sessions and keys are what they seem.
THEOREM Types == Spec => []TypeOK
  BY TypeInvariance, PTL DEF TypeInv

-----------------------------------------------------------------------------
(* Greetings *)

\* A greeting that was shown is registered, or no server can open it any more.
ShownIsOver ==
  \A c \in Client : greeted[c] > 0 => c \in seenNonces \/ key[c] < epoch

GreetInv == TypeInv /\ ShownIsOver

LEMMA StepGreet == GreetInv /\ [Next]_vars => GreetInv'
<1> SUFFICES ASSUME GreetInv, [Next]_vars PROVE ShownIsOver'
  BY StepTypes DEF GreetInv
<1> USE DEF GreetInv, TypeInv, TypeOK, Started, ShownIsOver
<1>1. CASE Restart
  BY <1>1 DEF Restart
<1>2. ASSUME NEW c \in Client, StartClient(c) PROVE ShownIsOver'
  <2>1. PICK e \in NoPair .. epoch : key' = [key EXCEPT ![c] = e]
    BY <1>2 DEF StartClient
  <2>2. greeted[c] = 0 /\ UNCHANGED <<epoch, greeted, seenNonces>>
    BY <1>2 DEF StartClient
  <2> QED  BY <2>1, <2>2
<1>3. ASSUME NEW c \in Client, Handshake(c) PROVE ShownIsOver'
  BY <1>3 DEF Handshake
<1>4. CASE UNCHANGED <<epoch, key, seenNonces, greeted>>
  BY <1>4
<1> QED  BY <1>1, <1>2, <1>3, <1>4 DEF Next, HandshakeRepeated, ClientSend,
            ServerSend, DropUnknown, Collect, vars

\* The handler acts on each greeting once: registry and key pair die together.
THEOREM GreetingRefinement == Spec => GreetedAtMostOnce
<1>1. Init => GreetInv /\ Greeting!Init
  BY InitTypes DEF GreetInv, ShownIsOver, Init, Greeting!Init
<1>2. GreetInv /\ [Next]_vars => [Greeting!Next]_Greeting!vars
  <2> SUFFICES ASSUME GreetInv, [Next]_vars PROVE [Greeting!Next]_Greeting!vars
    OBVIOUS
  <2>1. ASSUME NEW c \in Client, StartClient(c) PROVE Greeting!Submit(c)
    BY <2>1 DEF StartClient, Greeting!Submit, GreetInv, TypeInv, Started
  <2>2. ASSUME NEW c \in Client, Handshake(c)
        PROVE  Greeting!Execute(c) \/ UNCHANGED Greeting!vars
    <3>1. /\ c \in handshakes /\ c \notin seenNonces /\ UNCHANGED handshakes
          /\ greeted' = [greeted EXCEPT ![c] = IF key[c] = epoch THEN @ + 1 ELSE @]
          /\ greeted \in [Client -> Nat]
      BY <2>2 DEF Handshake, GreetInv, TypeInv, TypeOK
    <3>2. CASE key[c] = epoch
      <4>1. greeted[c] = 0
        <5>1. greeted[c] \in Nat /\ epoch \in Int
          BY <3>1 DEF GreetInv, TypeInv, TypeOK
        <5>2. ~ (greeted[c] > 0)
          BY <3>1, <3>2, <5>1 DEF GreetInv, ShownIsOver
        <5> QED  BY <5>1, <5>2
      <4> QED  BY <3>1, <3>2, <4>1 DEF Greeting!Execute
    <3>3. CASE key[c] # epoch
      BY <3>1, <3>3 DEF Greeting!vars
    <3> QED  BY <3>2, <3>3
  <2>3. CASE UNCHANGED <<handshakes, greeted>>
    BY <2>3 DEF Greeting!vars
  <2> QED  BY <2>1, <2>2, <2>3 DEF Next, Restart, HandshakeRepeated, ClientSend,
              ServerSend, DropUnknown, Collect, vars, Greeting!Next
<1>3. Spec => []GreetInv
  BY <1>1, StepGreet, PTL DEF Spec
<1> QED  BY <1>1, <1>2, <1>3, PTL DEF Spec, GreetedAtMostOnce, Greeting!Spec

-----------------------------------------------------------------------------
(* Fragments *)

\* The fragment p waits in a buffer.
Waiting(p) ==
  LET k == BufferKey(p.msg)
  IN  /\ k \in DOMAIN buffers
      /\ p.idx \in DOMAIN buffers[k]
      /\ buffers[k][p.idx] = p.msg

\* p completes a message, and the message is shown.
Done(p)  == Complete(p, Filled(p)) /\ 0 .. p.msg.total - 1 \subseteq DOMAIN Filled(p)
Shown(p) == /\ Done(p)
            /\ \A i \in DOMAIN Filled(p) : Filled(p)[i] = p.msg
            /\ Opens(p.msg)

\* A packet is its message and its index.
LEMMA PacketIs ==
  ASSUME NEW p \in DataPacket, NEW q \in DataPacket, p.msg = q.msg, p.idx = q.idx
  PROVE  p = q
<1>1. ASSUME NEW r \in DataPacket PROVE r = [msg |-> r.msg, idx |-> r.idx]
  BY <1>1 DEF DataPacket, Packets
<1> QED  BY <1>1

LEMMA CollectCounts ==
  ASSUME NEW p \in packets, Collect(p)
  PROVE  /\ \A q : Count(arrived', q)
                    = IF q = p THEN Count(arrived, p) + 1 ELSE Count(arrived, q)
         /\ \A n : Count(printed', n)
                    = IF n = p.msg /\ Shown(p) THEN Count(printed, n) + 1
                      ELSE Count(printed, n)
<1>1. /\ arrived' = With(arrived, p, Count(arrived, p) + 1)
      /\ printed' = IF Shown(p) THEN With(printed, p.msg, Count(printed, p.msg) + 1)
                    ELSE printed
  BY DEF Collect, Shown, Done
<1>2. \A q : Count(arrived', q)
             = IF q = p THEN Count(arrived, p) + 1 ELSE Count(arrived, q)
  BY <1>1 DEF Count, With
<1>3. \A n : Count(printed', n)
             = IF n = p.msg /\ Shown(p) THEN Count(printed, n) + 1 ELSE Count(printed, n)
  <2>1. CASE Shown(p)
    BY <1>1, <2>1 DEF Count, With
  <2>2. CASE ~ Shown(p)
    BY <1>1, <2>2
  <2> QED  BY <2>1, <2>2
<1> QED  BY <1>2, <1>3

LEMMA CollectBuffers ==
  ASSUME NEW p \in packets, Collect(p)
  PROVE  LET k == BufferKey(p.msg)
         IN  /\ DOMAIN buffers'
                  = IF Done(p) THEN DOMAIN buffers \ {k} ELSE DOMAIN buffers \cup {k}
             /\ ~ Done(p) => buffers'[k] = Filled(p)
             /\ \A j \in DOMAIN buffers : j # k /\ j \in DOMAIN buffers' =>
                   buffers'[j] = buffers[j]
<1>1. buffers' = StoreOrDelete(BufferKey(p.msg), Filled(p), Done(p))
  BY DEF Collect, Done
<1> QED  BY <1>1 DEF StoreOrDelete, With, Without, Restrict

\* Every showing and every waiting fragment took an arrival of its own.
SavedUp ==
  \A p \in DataPacket :
    /\ Count(printed, p.msg) <= Count(arrived, p)
    /\ Waiting(p) => Count(printed, p.msg) + 1 <= Count(arrived, p)

LEMMA CountIsNat ==
  ASSUME Counts
  PROVE  /\ \A p : Count(arrived, p) \in Nat
         /\ \A m : Count(printed, m) \in Nat
  BY DEF Counts, Count

LEMMA CollectSavesUp ==
  ASSUME TypeInv, SavedUp, NEW p \in packets, Collect(p)
  PROVE  SavedUp'
<1> DEFINE m == p.msg
           k == BufferKey(m)
<1>0. p \in DataPacket /\ Counts /\ TypeOK
  BY DEF TypeInv, TypeOK
<1> SUFFICES ASSUME NEW q \in DataPacket
             PROVE  /\ Count(printed', q.msg) <= Count(arrived', q)
                    /\ Waiting(q)' => Count(printed', q.msg) + 1 <= Count(arrived', q)
  BY DEF SavedUp
<1>1. /\ Count(arrived, q) \in Nat /\ Count(printed, q.msg) \in Nat
      /\ Count(printed, q.msg) <= Count(arrived, q)
      /\ Waiting(q) => Count(printed, q.msg) + 1 <= Count(arrived, q)
  BY <1>0, CountIsNat DEF SavedUp
<1>2. Count(arrived', q) = IF q = p THEN Count(arrived, q) + 1 ELSE Count(arrived, q)
  BY CollectCounts
<1>3. Count(printed', q.msg) = IF q.msg = m /\ Shown(p) THEN Count(printed, q.msg) + 1
                               ELSE Count(printed, q.msg)
  BY CollectCounts
<1>4. /\ DOMAIN buffers'
            = IF Done(p) THEN DOMAIN buffers \ {k} ELSE DOMAIN buffers \cup {k}
      /\ ~ Done(p) => buffers'[k] = Filled(p)
      /\ \A j \in DOMAIN buffers : j # k /\ j \in DOMAIN buffers' =>
            buffers'[j] = buffers[j]
  BY CollectBuffers
<1>5. /\ Filled(p)[p.idx] = m
      /\ \A i \in DOMAIN Filled(p) : i # p.idx =>
            k \in DOMAIN buffers /\ i \in DOMAIN buffers[k] /\ Filled(p)[i] = buffers[k][i]
  BY <1>0, FilledFacts
<1>6. CASE q.msg = m /\ Shown(p)
  <2>1. ~ Waiting(q)'
    BY <1>4, <1>6 DEF Waiting, Shown
  <2>2. q.idx \in DOMAIN Filled(p) /\ Filled(p)[q.idx] = m
    BY <1>6, PacketFacts DEF Shown, Done
  <2>3. q = p \/ Waiting(q)
    BY <1>0, <1>5, <1>6, <2>2, PacketIs DEF Waiting
  <2> QED  BY <1>1, <1>2, <1>3, <1>6, <2>1, <2>3
<1>7. CASE ~ (q.msg = m /\ Shown(p))
  <2>1. ASSUME Waiting(q)' PROVE q = p \/ Waiting(q)
    <3>1. CASE BufferKey(q.msg) # k
      BY <1>4, <2>1, <3>1 DEF Waiting
    <3>2. CASE BufferKey(q.msg) = k
      <4>1. q.idx \in DOMAIN Filled(p) /\ Filled(p)[q.idx] = q.msg
        BY <1>4, <2>1, <3>2 DEF Waiting
      <4>2. CASE q.idx = p.idx
        BY <1>0, <1>5, <4>1, <4>2, PacketIs
      <4>3. CASE q.idx # p.idx
        BY <1>5, <3>2, <4>1, <4>3 DEF Waiting
      <4> QED  BY <4>2, <4>3
    <3> QED  BY <3>1, <3>2
  <2> QED  BY <1>1, <1>2, <1>3, <1>7, <2>1
<1> QED  BY <1>6, <1>7

LEMMA StepSavesUp == TypeInv /\ SavedUp /\ [Next]_vars => SavedUp'
<1> SUFFICES ASSUME TypeInv, SavedUp, [Next]_vars PROVE SavedUp'
  OBVIOUS
<1>1. CASE Restart
  <2>1. /\ UNCHANGED <<arrived, printed>>
        /\ \A k \in DOMAIN buffers' : k \in DOMAIN buffers /\ buffers'[k] = buffers[k]
    BY <1>1 DEF Restart
  <2> QED  BY <2>1 DEF SavedUp, Waiting
<1>2. ASSUME NEW p \in packets, Collect(p) PROVE SavedUp'
  BY <1>2, CollectSavesUp
<1>3. CASE UNCHANGED <<arrived, printed, buffers>>
  BY <1>3 DEF SavedUp, Waiting
<1> QED  BY <1>1, <1>2, <1>3 DEF Next, StartClient, Handshake, HandshakeRepeated,
            ClientSend, ServerSend, DropUnknown, vars

\* Messages are shown for arrivals of their own.
THEOREM ArrivalsPayForShowing == Spec => []ShownPerArrival
<1>1. Init => SavedUp
  BY DEF Init, SavedUp, Waiting, Count
<1>2. TypeInv /\ SavedUp => ShownPerArrival
  <2> SUFFICES ASSUME TypeInv, SavedUp,
                      NEW m \in DOMAIN printed \cup {p.msg : p \in packets},
                      NEW p \in Packets(m)
               PROVE  LET k == BufferKey(m)
                          waiting == /\ k \in DOMAIN buffers
                                     /\ p.idx \in DOMAIN buffers[k]
                                     /\ buffers[k][p.idx] = m
                      IN  Count(printed, m) + (IF waiting THEN 1 ELSE 0) <= Count(arrived, p)
    BY DEF ShownPerArrival
  <2>1. m \in Message
    BY PacketFacts DEF TypeInv, TypeOK
  <2>2. p \in DataPacket /\ p.msg = m
    BY <2>1, PacketsOfMessage
  <2>3. Count(printed, m) \in Nat /\ Count(arrived, p) \in Nat
    BY CountIsNat DEF TypeInv
  <2> QED  BY <2>2, <2>3 DEF SavedUp, Waiting
<1> QED  BY <1>1, <1>2, TypeInvariance, StepSavesUp, PTL DEF Spec

\* Data packets pass no registry, and yet a message is shown at most once unless
\* the network has repeated every one of its fragments.
THEOREM OnlyRepeatsShowTwice ==
  Spec => [](\A m \in DOMAIN printed :
               printed[m] <= 1 \/ \A p \in Packets(m) : Count(arrived, p) >= 2)
<1>1. TypeInv /\ ShownPerArrival =>
        \A m \in DOMAIN printed :
          printed[m] <= 1 \/ \A p \in Packets(m) : Count(arrived, p) >= 2
  <2> SUFFICES ASSUME TypeInv, ShownPerArrival, NEW m \in DOMAIN printed,
                      ~ (printed[m] <= 1), NEW p \in Packets(m)
               PROVE  Count(arrived, p) >= 2
    OBVIOUS
  <2>1. Count(printed, m) = printed[m]
    BY DEF Count
  <2>2. Count(printed, m) \in Nat /\ Count(arrived, p) \in Nat
    BY CountIsNat DEF TypeInv
  <2>3. Count(printed, m) <= Count(arrived, p) \/ Count(printed, m) + 1 <= Count(arrived, p)
    BY <2>2 DEF ShownPerArrival
  <2> QED  BY <2>1, <2>2, <2>3
<1> QED  BY <1>1, TypeInvariance, ArrivalsPayForShowing, PTL

-----------------------------------------------------------------------------
(* Reassembly *)

\* Whoever sends or is registered has started, and keeps its key.
Senders ==
  /\ \A p \in packets : clientSeq[p.msg.client] # 0
  /\ \A i \in DOMAIN sessions : clientSeq[sessions[i]] # 0

\* Buffers hold fragments that were sent, where they belong.
Contents ==
  \A k \in DOMAIN buffers : \A i \in DOMAIN buffers[k] :
    /\ BufferKey(buffers[k][i]) = k
    /\ [msg |-> buffers[k][i], idx |-> i] \in packets

\* The receiver can decrypt m, and has its buffer for m alone.
Owns(m) == /\ Opens(m)
           /\ \A q \in packets : BufferKey(q.msg) = BufferKey(m) => q.msg = m

\* A fragment that has arrived waits until its message is shown.
Pending ==
  \A m \in Message : Owns(m) /\ Count(printed, m) = 0 =>
    \A p \in Packets(m) : Count(arrived, p) > 0 => Waiting(p)

\* A buffer is used as soon as it is full.
NotFull ==
  \A m \in Message : Owns(m) /\ BufferKey(m) \in DOMAIN buffers =>
    ~ (0 .. m.total - 1 \subseteq DOMAIN buffers[BufferKey(m)])

Reassembly == TypeInv /\ Senders /\ Contents /\ Pending /\ NotFull

LEMMA InitReassembly == Init => Reassembly
<1> SUFFICES ASSUME Init PROVE Senders /\ Contents /\ Pending /\ NotFull
  BY InitTypes DEF Reassembly
<1>1. /\ packets = {} /\ DOMAIN sessions = {} /\ DOMAIN buffers = {}
      /\ \A p : Count(arrived, p) = 0
  BY DEF Init, Count
<1> QED  BY <1>1 DEF Senders, Contents, Pending, NotFull

LEMMA StepSenders == TypeInv /\ Senders /\ [Next]_vars => Senders'
<1> SUFFICES ASSUME TypeInv, Senders, [Next]_vars PROVE Senders'
  OBVIOUS
<1> USE DEF TypeInv, TypeOK, Started, Senders
<1>0. \A p \in packets : p.msg.client \in Client
  BY PacketFacts DEF Message
<1>00. \A i \in DOMAIN sessions : sessions[i] \in Client
  OBVIOUS
<1>1. CASE Restart
  BY <1>1 DEF Restart
<1>2. ASSUME NEW c \in Client, StartClient(c) PROVE Senders'
  <2>1. \A d \in Client : clientSeq[d] # 0 => clientSeq'[d] # 0
    BY <1>2 DEF StartClient
  <2> QED  BY <1>0, <1>00, <1>2, <2>1 DEF StartClient
<1>3. ASSUME NEW c \in Client, Handshake(c) PROVE Senders'
  <2>1. clientSeq[c] # 0 /\ UNCHANGED <<clientSeq, packets>>
    BY <1>3 DEF Handshake
  <2>2. \A i \in DOMAIN sessions' :
          sessions'[i] = c \/ (i \in DOMAIN sessions /\ sessions'[i] = sessions[i])
    BY <1>3, SMTT(30) DEF Handshake
  <2> QED  BY <2>1, <2>2
<1>4. ASSUME NEW c \in Client, NEW total \in 1 .. MaxTotal, ClientSend(c, total)
      PROVE  Senders'
  <2>1. \A d \in Client : clientSeq[d] # 0 => clientSeq'[d] # 0
    BY <1>4 DEF ClientSend
  <2>2. clientSeq[c] # 0 /\ UNCHANGED sessions
    BY <1>4 DEF ClientSend
  <2>3. \A p \in packets' : p \in packets \/ p.msg.client = c
    BY <1>4 DEF ClientSend, Packets
  <2> QED  BY <1>0, <1>00, <2>1, <2>2, <2>3
<1>5. ASSUME NEW total \in 1 .. MaxTotal, ServerSend(total) PROVE Senders'
  <2>1. clientSeq[Addressee] # 0 /\ UNCHANGED <<clientSeq, sessions>>
    BY <1>5 DEF ServerSend, Addressee
  <2>2. \A p \in packets' : p \in packets \/ p.msg.client = Addressee
    BY <1>5 DEF ServerSend, Packets
  <2> QED  BY <2>1, <2>2
<1>6. CASE UNCHANGED <<clientSeq, packets, sessions>>
  BY <1>6
<1> QED  BY <1>1, <1>2, <1>3, <1>4, <1>5, <1>6 DEF Next, HandshakeRepeated,
            DropUnknown, Collect, vars

LEMMA StepContents == TypeInv /\ Contents /\ [Next]_vars => Contents'
<1> SUFFICES ASSUME TypeInv, Contents, [Next]_vars PROVE Contents'
  OBVIOUS
<1>1. CASE Restart
  <2>1. /\ \A k \in DOMAIN buffers' : k \in DOMAIN buffers /\ buffers'[k] = buffers[k]
        /\ UNCHANGED packets
    BY <1>1 DEF Restart
  <2> QED  BY <2>1 DEF Contents
<1>2. ASSUME NEW p \in packets, Collect(p) PROVE Contents'
  <2> DEFINE m == p.msg
             k == BufferKey(m)
  <2>1. TypeOK /\ p \in DataPacket /\ UNCHANGED packets
    BY <1>2 DEF TypeInv, TypeOK, Collect
  <2>2. p = [msg |-> m, idx |-> p.idx]
    BY <2>1 DEF DataPacket, Packets
  <2>3. \A i \in DOMAIN Filled(p) :
          \/ i = p.idx /\ Filled(p)[i] = m
          \/ k \in DOMAIN buffers /\ i \in DOMAIN buffers[k] /\ Filled(p)[i] = buffers[k][i]
    BY <2>1, FilledFacts
  <2>4. \A j \in DOMAIN buffers' :
          \/ j \in DOMAIN buffers /\ buffers'[j] = buffers[j]
          \/ j = k /\ buffers'[j] = Filled(p)
    BY <1>2, CollectBuffers
  <2> SUFFICES ASSUME NEW j \in DOMAIN buffers', NEW i \in DOMAIN buffers'[j]
               PROVE  /\ BufferKey(buffers'[j][i]) = j
                      /\ [msg |-> buffers'[j][i], idx |-> i] \in packets
    BY <2>1 DEF Contents
  <2>5. CASE j \in DOMAIN buffers /\ buffers'[j] = buffers[j]
    BY <2>5 DEF Contents
  <2>6. CASE j = k /\ buffers'[j] = Filled(p)
    <3>1. CASE i = p.idx /\ Filled(p)[i] = m
      BY <2>2, <2>6, <3>1
    <3>2. CASE k \in DOMAIN buffers /\ i \in DOMAIN buffers[k] /\ Filled(p)[i] = buffers[k][i]
      BY <2>6, <3>2 DEF Contents
    <3> QED  BY <2>3, <2>6, <3>1, <3>2
  <2> QED  BY <2>4, <2>5, <2>6
<1>3. CASE packets \subseteq packets' /\ UNCHANGED buffers
  BY <1>3 DEF Contents
<1> QED  BY <1>1, <1>2, <1>3 DEF Next, StartClient, Handshake, HandshakeRepeated,
            ClientSend, ServerSend, DropUnknown, vars

\* The buffer for a message that the receiver has it for alone holds fragments of
\* that message only.
LEMMA OwnContents ==
  ASSUME Contents, TypeInv, NEW m \in Message, Owns(m), BufferKey(m) \in DOMAIN buffers,
         NEW i \in DOMAIN buffers[BufferKey(m)]
  PROVE  buffers[BufferKey(m)][i] = m /\ i \in 0 .. m.total - 1
<1> DEFINE n == buffers[BufferKey(m)][i]
           q == [msg |-> n, idx |-> i]
<1>1. BufferKey(n) = BufferKey(m) /\ q \in packets
  BY DEF Contents
<1>2. n = m
  BY <1>1 DEF Owns
<1>3. q.idx \in 0 .. q.msg.total - 1
  BY <1>1, PacketFacts DEF TypeInv, TypeOK
<1> QED  BY <1>2, <1>3

\* A fragment that is collected joins those of its message, or completes it.
LEMMA CollectReassembles ==
  ASSUME Reassembly, NEW p \in packets, Collect(p)
  PROVE  Pending' /\ NotFull'
<1> DEFINE k == BufferKey(p.msg)
<1>1. /\ TypeInv /\ TypeOK /\ Contents /\ Pending /\ NotFull /\ p \in DataPacket
      /\ p.msg \in Message
  BY PacketFacts DEF Reassembly, TypeInv, TypeOK
<1>2. \A m : Owns(m)' <=> Owns(m)
  BY DEF Collect, Owns, Opens
<1>3. /\ DOMAIN buffers'
            = IF Done(p) THEN DOMAIN buffers \ {k} ELSE DOMAIN buffers \cup {k}
      /\ ~ Done(p) => buffers'[k] = Filled(p)
      /\ \A j \in DOMAIN buffers : j # k /\ j \in DOMAIN buffers' =>
            buffers'[j] = buffers[j]
  BY CollectBuffers
<1>4. \A m : Owns(m) /\ BufferKey(m) = k => p.msg = m
  BY DEF Owns
<1>5. /\ p.idx \in DOMAIN Filled(p) /\ Filled(p)[p.idx] = p.msg
      /\ \A i \in DOMAIN Filled(p) : i # p.idx =>
            k \in DOMAIN buffers /\ i \in DOMAIN buffers[k] /\ Filled(p)[i] = buffers[k][i]
  BY <1>1, FilledFacts
<1>6. \A i : k \in DOMAIN buffers /\ i \in DOMAIN buffers[k] => i \in DOMAIN Filled(p)
  BY DEF Filled, With
<1>7. ASSUME Owns(p.msg)
      PROVE  /\ \A i \in DOMAIN Filled(p) : Filled(p)[i] = p.msg
             /\ DOMAIN Filled(p) \subseteq 0 .. p.msg.total - 1
  BY <1>1, <1>5, <1>7, OwnContents, PacketFacts
<1>8. Pending'
  <2> SUFFICES ASSUME NEW m \in Message, Owns(m), Count(printed', m) = 0,
                      NEW q \in Packets(m), Count(arrived', q) > 0
               PROVE  Waiting(q)'
    BY <1>2 DEF Pending
  <2>1. q \in DataPacket /\ q.msg = m
    BY PacketsOfMessage
  <2>2. /\ Count(printed, m) \in Nat /\ Count(arrived, q) \in Nat
    BY <1>1, CountIsNat DEF TypeInv
  <2>3. Count(printed, m) = 0 /\ ~ (m = p.msg /\ Shown(p))
    BY <2>2, CollectCounts
  <2>4. q = p \/ Waiting(q)
    <3>1. q # p => Count(arrived, q) > 0
      BY CollectCounts
    <3> QED  BY <1>1, <2>3, <3>1 DEF Pending
  <2>5. CASE BufferKey(m) = k
    <3>1. m = p.msg
      BY <1>4, <2>5
    <3>2. ~ Done(p)
      BY <1>7, <2>3, <3>1 DEF Shown, Owns
    <3>3. q.idx \in DOMAIN Filled(p)
      BY <1>5, <1>6, <2>1, <2>4, <3>1 DEF Waiting
    <3>4. Filled(p)[q.idx] = m
      BY <1>7, <3>1, <3>3
    <3> QED  BY <1>3, <2>1, <3>1, <3>2, <3>3, <3>4 DEF Waiting
  <2>6. CASE BufferKey(m) # k
    BY <1>3, <2>1, <2>4, <2>6 DEF Waiting
  <2> QED  BY <2>5, <2>6
<1>9. NotFull'
  <2> SUFFICES ASSUME NEW m \in Message, Owns(m), BufferKey(m) \in DOMAIN buffers',
                      0 .. m.total - 1 \subseteq DOMAIN buffers'[BufferKey(m)]
               PROVE  FALSE
    BY <1>2 DEF NotFull
  <2>1. CASE BufferKey(m) = k
    <3>1. m = p.msg /\ ~ Done(p) /\ buffers'[k] = Filled(p)
      BY <1>3, <1>4, <2>1
    <3>2. DOMAIN Filled(p) = 0 .. m.total - 1
      BY <1>7, <2>1, <3>1
    <3>3. m.total \in Nat /\ m.total # 0
      BY DEF Message
    <3>4. Cardinality(0 .. m.total - 1) = m.total
      <4>1. 0 \in Int /\ m.total - 1 \in Int /\ ~ (0 > m.total - 1)
        BY <3>3
      <4>2. Cardinality(0 .. m.total - 1) = (m.total - 1) - 0 + 1
        BY <4>1, FS_Interval
      <4> QED  BY <3>3, <4>2
    <3> QED  BY <3>1, <3>2, <3>4 DEF Done, Complete
  <2>2. CASE BufferKey(m) # k
    BY <1>1, <1>3, <2>2 DEF NotFull
  <2> QED  BY <2>1, <2>2
<1> QED  BY <1>8, <1>9

LEMMA StepReassembly == Reassembly /\ [Next]_vars => Reassembly'
<1> SUFFICES ASSUME Reassembly, [Next]_vars PROVE Pending' /\ NotFull'
  BY StepTypes, StepSenders, StepContents DEF Reassembly
<1>0. /\ TypeInv /\ TypeOK /\ Senders /\ Contents /\ Pending /\ NotFull
  BY DEF Reassembly, TypeInv
<1>1. CASE Restart
  <2>1. /\ epoch' = epoch + 1 /\ epoch \in Nat /\ \A c \in Client : key[c] <= epoch
        /\ \A c \in Client : key[c] \in Int
        /\ buffers' = [k \in {k \in DOMAIN buffers : k[1] = "down"} |-> buffers[k]]
        /\ UNCHANGED <<key, packets, arrived, printed>>
    BY <1>0, <1>1 DEF Restart, TypeInv, TypeOK, Started, NoPair
  <2>2. ASSUME NEW m \in Message, Owns(m)'
        PROVE  m.dir = "down" /\ Owns(m)
    <3>1. m.client \in Client /\ m.dir \in {"up", "down"}
      BY DEF Message
    <3>2. m.dir # "up"
      BY <2>1, <2>2, <3>1 DEF Owns, Opens
    <3> QED  BY <2>1, <2>2, <3>1, <3>2 DEF Owns, Opens
  <2>3. ASSUME NEW m \in Message, m.dir = "down"
        PROVE  /\ BufferKey(m) \in DOMAIN buffers' <=> BufferKey(m) \in DOMAIN buffers
               /\ BufferKey(m) \in DOMAIN buffers =>
                    buffers'[BufferKey(m)] = buffers[BufferKey(m)]
    BY <2>1, <2>3 DEF BufferKey
  <2>4. Pending'
    <3> SUFFICES ASSUME NEW m \in Message, Owns(m)', Count(printed, m) = 0,
                        NEW q \in Packets(m), Count(arrived, q) > 0
                 PROVE  Waiting(q)'
      BY <2>1 DEF Pending
    <3>1. Waiting(q) /\ q.msg = m
      BY <1>0, <2>2, PacketsOfMessage DEF Pending
    <3> QED  BY <2>2, <2>3, <3>1 DEF Waiting
  <2>5. NotFull'
    BY <1>0, <2>2, <2>3 DEF NotFull
  <2> QED  BY <2>4, <2>5
<1>2. ASSUME NEW c \in Client, StartClient(c) PROVE Pending' /\ NotFull'
  <2>1. /\ clientSeq[c] = 0
        /\ \A d \in Client \ {c} : key'[d] = key[d]
        /\ UNCHANGED <<epoch, packets, buffers, arrived, printed>>
    BY <1>0, <1>2 DEF StartClient, TypeOK
  <2>2. ASSUME NEW m \in Message, Owns(m)', m.client # c
        PROVE  Owns(m)
    <3>1. key'[m.client] = key[m.client]
      BY <2>1, <2>2 DEF Message
    <3> QED  BY <2>1, <2>2, <3>1 DEF Owns, Opens
  <2>3. ASSUME NEW m \in Message, m.client = c
        PROVE  /\ \A q \in Packets(m) : Count(arrived, q) = 0
               /\ BufferKey(m) \in DOMAIN buffers => DOMAIN buffers[BufferKey(m)] = {}
    <3>1. \A q \in packets : q.msg.client # c
      BY <1>0, <2>1 DEF Senders
    <3>2. \A q \in Packets(m) : q \notin packets
      BY <2>3, <3>1, PacketsOfMessage
    <3>3. \A q \in Packets(m) : Count(arrived, q) = 0
      BY <1>0, <3>2 DEF TypeOK, Count
    <3>4. ASSUME BufferKey(m) \in DOMAIN buffers, NEW i \in DOMAIN buffers[BufferKey(m)]
          PROVE  FALSE
      <4> DEFINE n == buffers[BufferKey(m)][i]
      <4>1. BufferKey(n) = BufferKey(m) /\ [msg |-> n, idx |-> i] \in packets
        BY <1>0, <3>4 DEF Contents
      <4>2. n.client = m.client
        BY <4>1 DEF BufferKey
      <4> QED  BY <2>3, <3>1, <4>1, <4>2
    <3> QED  BY <3>3, <3>4
  <2>4. Pending'
    <3> SUFFICES ASSUME NEW m \in Message, Owns(m)', Count(printed, m) = 0,
                        NEW q \in Packets(m), Count(arrived, q) > 0
                 PROVE  Waiting(q)'
      BY <2>1 DEF Pending
    <3>1. m.client # c
      BY <2>3
    <3>2. Waiting(q)
      BY <1>0, <2>2, <3>1 DEF Pending
    <3> QED  BY <2>1, <3>2 DEF Waiting
  <2>5. NotFull'
    <3> SUFFICES ASSUME NEW m \in Message, Owns(m)', BufferKey(m) \in DOMAIN buffers,
                        0 .. m.total - 1 \subseteq DOMAIN buffers[BufferKey(m)]
                 PROVE  FALSE
      BY <2>1 DEF NotFull
    <3>1. 0 \in 0 .. m.total - 1
      BY DEF Message
    <3>2. m.client # c
      BY <2>3, <3>1
    <3> QED  BY <1>0, <2>2, <3>2 DEF NotFull
  <2> QED  BY <2>4, <2>5
<1>3. ASSUME NEW p \in packets, Collect(p) PROVE Pending' /\ NotFull'
  BY <1>3, CollectReassembles
<1>4. CASE packets \subseteq packets' /\ UNCHANGED <<epoch, key, buffers, arrived, printed>>
  <2>1. \A m : Owns(m)' => Owns(m)
    BY <1>4 DEF Owns, Opens
  <2> QED  BY <1>0, <1>4, <2>1 DEF Pending, NotFull, Waiting
<1> QED  BY <1>1, <1>2, <1>3, <1>4 DEF Next, Handshake, HandshakeRepeated,
            ClientSend, ServerSend, DropUnknown, vars

\* What can be decrypted is shown once all its fragments have arrived.
THEOREM CompleteMessagesAreShown == Spec => []CompleteIsShown
<1>1. Reassembly => CompleteIsShown
  <2> SUFFICES ASSUME Reassembly, NEW m \in {p.msg : p \in packets},
                      \A p \in Packets(m) : Count(arrived, p) > 0,
                      Owns(m), ~ (Count(printed, m) > 0)
               PROVE  FALSE
    BY DEF CompleteIsShown, Owns
  <2>1. m \in Message
    BY PacketFacts DEF Reassembly, TypeInv, TypeOK
  <2>2. Count(printed, m) = 0
    BY CountIsNat DEF Reassembly, TypeInv
  <2>3. \A p \in Packets(m) : Waiting(p) /\ p.msg = m
    BY <2>1, <2>2, PacketsOfMessage DEF Reassembly, Pending
  <2>4. \A i \in 0 .. m.total - 1 :
          BufferKey(m) \in DOMAIN buffers /\ i \in DOMAIN buffers[BufferKey(m)]
    <3> SUFFICES ASSUME NEW i \in 0 .. m.total - 1
                 PROVE  BufferKey(m) \in DOMAIN buffers /\ i \in DOMAIN buffers[BufferKey(m)]
      OBVIOUS
    <3>1. [msg |-> m, idx |-> i] \in Packets(m)
      BY DEF Packets
    <3> QED  BY <2>3, <3>1 DEF Waiting
  <2>5. 0 \in 0 .. m.total - 1
    BY <2>1 DEF Message
  <2> QED  BY <2>1, <2>4, <2>5 DEF Reassembly, NotFull
<1> QED  BY <1>1, InitReassembly, StepReassembly, PTL DEF Spec
=============================================================================
