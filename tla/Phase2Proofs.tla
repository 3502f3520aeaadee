---------------------------- MODULE Phase2Proofs ----------------------------
(* What bounds the repetition of a message in the phase 2 prototype, for      *)
(* every window, every clock and every number of clients and restarts.        *)
(*                                                                            *)
(* The inductive invariant ties each reading to the one message it is of: its *)
(* incarnation is the one whose keys the client had read, and its moment lies *)
(* within a window of the one timestamp the client gave it.  Two readings of  *)
(* the same message then share the incarnation and are two windows apart at   *)
(* most.                                                                      *)
EXTENDS Phase2, TLAPS

USE TimeAssumption, WindowAssumption, EpochAssumption

\* Every reading was in time and by the incarnation the message was sealed for.
ReadInTime ==
  \A e \in read : /\ e.epoch = pair[e.client]
                  /\ e.at - stamp[e.client] \in -Window .. Window

Inv == TypeOK /\ ReadInTime /\ AckMeansRead

\* A reading taken in the window, as arithmetic
LEMMA FreshIsClose ==
  ASSUME NEW c \in Client, now \in Int, stamp[c] \in Int
  PROVE  Fresh(c) <=> now - stamp[c] \in -Window .. Window
  BY DEF Fresh

\* What an accepted packet adds to the histories
LEMMA AcceptAdds ==
  ASSUME Inv, NEW c \in Client, NEW how \in Condition,
         <<c, how>> \in net, Accept(c, how)
  PROVE  /\ c \in Sent /\ Happens(c) \in Event
         /\ Happens(c).client = c /\ Happens(c).epoch = epoch /\ Happens(c).at = now
         /\ Fresh(c)
         /\ acks' = acks \cup {Happens(c)}
         /\ \/ how = "cut" /\ read' = read
            \/ pair[c] = epoch /\ read' = read \cup {Happens(c)}
         /\ UNCHANGED <<now, epoch, pair, stamp, net>>
  BY DEF Inv, TypeOK, Accept, Decrypts, Happens, Event, Condition

LEMMA InitInv == Init => Inv
<1> SUFFICES ASSUME Init PROVE Inv
  OBVIOUS
<1>1. net = {} /\ read = {} /\ acks = {} /\ Sent = {}
  BY DEF Init, Sent
<1>2. now \in Time /\ epoch \in 1 .. MaxEpoch
  BY DEF Init
<1>3. pair \in [Client -> NoPair .. epoch] /\ stamp \in [Client -> Int]
  BY DEF Init, NoPair
<1> QED  BY <1>1, <1>2, <1>3 DEF Inv, TypeOK, ReadInTime, AckMeansRead

LEMMA StepTypes == Inv /\ [Next]_vars => TypeOK'
<1> SUFFICES ASSUME Inv, [Next]_vars PROVE TypeOK'
  OBVIOUS
<1> USE DEF Inv, TypeOK
<1>1. CASE Restart
  <2>1. /\ epoch' = epoch + 1 /\ epoch' \in 1 .. MaxEpoch /\ epoch \in Int
        /\ UNCHANGED <<now, pair, stamp, net, read, acks>> /\ Sent' = Sent
    BY <1>1 DEF Restart, Sent
  <2>2. NoPair .. epoch \subseteq NoPair .. epoch'
    BY <2>1
  <2>3. pair' \in [Client -> NoPair .. epoch']
    BY <2>1, <2>2
  <2>4. \A e \in read \cup acks : e.epoch \in Int /\ e.epoch <= epoch'
    BY <2>1 DEF Event
  <2> QED  BY <2>1, <2>3, <2>4
<1>2. ASSUME NEW c \in Client, Send(c) PROVE TypeOK'
  <2>1. c \notin Sent /\ UNCHANGED <<now, epoch, read, acks>>
    BY <1>2 DEF Send
  <2>2. Sent' = Sent \cup {c}
    BY <1>2 DEF Send, Sent
  <2>3. net' \subseteq Sent' \X Condition
    BY <1>2, <2>2 DEF Send, Condition
  <2>4. pair' \in [Client -> NoPair .. epoch]
    BY <1>2 DEF Send
  <2>5. stamp' \in [Client -> Int] /\ \A d \in Sent' : stamp'[d] \in Stamp
    <3>1. PICK t \in Stamp : stamp' = [stamp EXCEPT ![c] = t]
      BY <1>2 DEF Send
    <3>2. t \in Int
      OBVIOUS
    <3> QED  BY <2>2, <3>1, <3>2
  <2> QED  BY <2>1, <2>2, <2>3, <2>4, <2>5
<1>3. ASSUME NEW c \in Client, Damage(c) PROVE TypeOK'
  <2>1. PICK how \in Condition \ {"intact"} : net' = net \cup {<<c, how>>}
    BY <1>3 DEF Damage
  <2>2. UNCHANGED <<now, epoch, pair, stamp, read, acks>>
    BY <1>3 DEF Damage
  <2>3. Sent' = Sent
    BY <2>1 DEF Sent
  <2>4. c \in Sent
    BY <1>3 DEF Damage, Sent
  <2>5. net' \subseteq Sent' \X Condition
    BY <2>1, <2>3, <2>4
  <2> QED  BY <2>2, <2>3, <2>5
<1>4. ASSUME NEW c \in Client, NEW how \in Condition, <<c, how>> \in net, Accept(c, how)
      PROVE  TypeOK'
  <2>1. Sent' = Sent
    BY <1>4, AcceptAdds DEF Sent
  <2>2. read' \cup acks' \subseteq read \cup acks \cup {Happens(c)}
    BY <1>4, AcceptAdds
  <2>3. now <= now /\ epoch <= epoch
    OBVIOUS
  <2> QED  BY <1>4, <2>1, <2>2, <2>3, AcceptAdds
<1>5. CASE Pass
  <2>1. now' \in Time /\ now < now' /\ now \in Int /\ now' \in Int
    BY <1>5 DEF Pass, Tick
  <2>2. UNCHANGED <<epoch, pair, stamp, net, read, acks>> /\ Sent' = Sent
    BY <1>5 DEF Pass, Sent
  <2>3. \A e \in read \cup acks : e.at \in Int
    BY DEF Event
  <2> QED  BY <2>1, <2>2, <2>3
<1>6. CASE UNCHANGED vars
  BY <1>6 DEF vars, Sent
<1> QED  BY <1>1, <1>2, <1>3, <1>4, <1>5, <1>6 DEF Next, Receive, Drop, Fail

LEMMA StepInTime == Inv /\ [Next]_vars => ReadInTime'
<1> SUFFICES ASSUME Inv, [Next]_vars PROVE ReadInTime'
  OBVIOUS
<1>1. CASE Restart \/ Pass \/ UNCHANGED vars
  BY <1>1 DEF Inv, ReadInTime, Restart, Pass, vars
<1>2. ASSUME NEW c \in Client, Send(c) PROVE ReadInTime'
  <2>1. /\ read' = read /\ c \notin Sent
        /\ \A d \in Client \ {c} : pair'[d] = pair[d] /\ stamp'[d] = stamp[d]
    BY <1>2 DEF Send, Inv, TypeOK
  <2>2. \A e \in read : e.client \in Client \ {c}
    BY <2>1 DEF Inv, TypeOK, Sent
  <2> QED  BY <2>1, <2>2 DEF Inv, ReadInTime
<1>3. ASSUME NEW c \in Client, Damage(c) PROVE ReadInTime'
  BY <1>3 DEF Damage, Inv, ReadInTime
<1>4. ASSUME NEW c \in Client, NEW how \in Condition, <<c, how>> \in net, Accept(c, how)
      PROVE  ReadInTime'
  <2>1. now - stamp[c] \in -Window .. Window
    BY <1>4, AcceptAdds, FreshIsClose DEF Inv, TypeOK
  <2> QED  BY <1>4, <2>1, AcceptAdds DEF Inv, ReadInTime
<1> QED  BY <1>1, <1>2, <1>3, <1>4 DEF Next, Receive, Drop, Fail, vars

LEMMA StepAcks == Inv /\ [Next]_vars => AckMeansRead'
<1> SUFFICES ASSUME Inv, [Next]_vars PROVE AckMeansRead'
  OBVIOUS
<1> USE DEF Inv, AckMeansRead
<1>1. CASE Restart \/ Pass \/ UNCHANGED vars
  BY <1>1 DEF Restart, Pass, vars
<1>2. ASSUME NEW c \in Client, Send(c) PROVE AckMeansRead'
  BY <1>2 DEF Send
<1>3. ASSUME NEW c \in Client, Damage(c) PROVE AckMeansRead'
  BY <1>3 DEF Damage
<1>4. ASSUME NEW c \in Client, NEW how \in Condition, <<c, how>> \in net, Accept(c, how)
      PROVE  AckMeansRead'
  <2>1. CASE how = "cut" /\ read' = read
    BY <1>4, <2>1, AcceptAdds
  <2>2. CASE read' = read \cup {Happens(c)}
    BY <1>4, <2>2, AcceptAdds
  <2> QED  BY <1>4, <2>1, <2>2, AcceptAdds
<1> QED  BY <1>1, <1>2, <1>3, <1>4 DEF Next, Receive, Drop, Fail, vars

LEMMA Invariance == Spec => []Inv
<1>1. Inv /\ [Next]_vars => Inv'
  BY StepTypes, StepInTime, StepAcks DEF Inv
<1> QED  BY <1>1, InitInv, PTL DEF Spec

\* What is answered and read was sent and has happened.
THEOREM Types == Spec => []TypeOK
  BY Invariance, PTL DEF Inv

\* All readings of a message are one incarnation's and within two windows.
THEOREM CloseRepeats == Spec => []RepeatsAreClose
<1>1. Inv => RepeatsAreClose
  <2> SUFFICES ASSUME Inv, NEW d \in read, NEW e \in read, d.client = e.client
               PROVE  d.epoch = e.epoch /\ d.at - e.at <= 2 * Window
    BY DEF RepeatsAreClose
  <2>1. d.at \in Int /\ e.at \in Int /\ stamp[d.client] \in Int
    BY DEF Inv, TypeOK, Event
  <2>2. /\ d.at - stamp[d.client] <= Window
        /\ -Window <= e.at - stamp[d.client]
        /\ d.epoch = e.epoch
    BY DEF Inv, ReadInTime
  <2> QED  BY <2>1, <2>2
<1> QED  BY <1>1, Invariance, PTL

\* The server answers what it has read, and packets without a message.
THEOREM HonestAcks == Spec => []AckMeansRead
  BY Invariance, PTL DEF Inv
=============================================================================
