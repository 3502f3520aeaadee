------------------------- MODULE DemoExchangeProofs -------------------------
(* What the demo server owes to its clients' clocks.  It registers the time   *)
(* of arrival; for a client whose clock is not ahead, that is no earlier than *)
(* the timestamp, so its nonce is forgotten only after the timestamp has left *)
(* the window, and its message is acted on at most once, for any window, any  *)
(* number of clients and restarts, however long the handler takes and however *)
(* wrong the other clients' clocks are.  (The run demo_ahead shows the same   *)
(* statement false of a client whose clock is one tick ahead.)  No message is *)
(* acted on three times, and an answer that a client shows was given, with    *)
(* any clocks.                                                                *)
EXTENDS DemoExchange, TLAPS

USE TimeAssumption, LeadAssumption, WindowAssumption, EpochAssumption

\* Answers, and what clients make of them, stem from messages that were read.
AnswersWereGiven ==
  /\ \A c \in Client, how \in Condition : <<c, how>> \in replies => processed[c] > 0
  /\ AnsweredWasRead

BaseInv == TypeOK /\ AnswersWereGiven

\* No client holds keys of an incarnation to come.
KeysArePast == \A c \in Client : key[c] <= epoch

\* Packets of punctual clients carry timestamps of the past.
StampsArePast == \A c \in Sent \cap Punctual : stamp[c] <= now

\* A punctual client's message was read at most once; the incarnation that read
\* it remembers its nonce from a time not before its timestamp, or the timestamp
\* is stale.
ReadOnce ==
  \A c \in Punctual :
    processed[c] > 0 =>
      /\ processed[c] = 1
      /\ c \in Sent
      /\ key[c] = epoch =>
           \/ c \in DOMAIN seenNonces /\ stamp[c] <= seenNonces[c]
           \/ now - stamp[c] > Window

OnceInv == KeysArePast /\ StampsArePast /\ ReadOnce

\* With any clocks, n readings leave the nonce registered since n - 1 windows
\* after the start of the timestamp's window, or the timestamp as old as that
\* and another window.  Keys of earlier incarnations count for nothing.
ReadTwice ==
  \A c \in Client :
    /\ processed[c] <= 2
    /\ processed[c] > 0 => c \in Sent
    /\ key[c] = epoch =>
         /\ processed[c] = 1 =>
              \/ c \in DOMAIN seenNonces /\ stamp[c] - Window <= seenNonces[c]
              \/ now > stamp[c]
         /\ processed[c] = 2 =>
              \/ c \in DOMAIN seenNonces /\ stamp[c] < seenNonces[c]
              \/ now - stamp[c] > Window

TwiceInv == KeysArePast /\ ReadTwice

-----------------------------------------------------------------------------
\* The registry after a packet has passed: its own nonce with its arrival, older
\* nonces with theirs, less what has expired.
LEMMA RegisteredOrExpired ==
  ASSUME NEW reg, NEW c, NEW t1, NEW t2,
         NEW new, new = RegisterAndEvict(reg, c, t1, t2)
  PROVE  /\ new = [d \in DOMAIN new |-> new[d]]
         /\ \A d \in DOMAIN new : IF d = c THEN new[d] = t1
                                  ELSE d \in DOMAIN reg /\ new[d] = reg[d]
         /\ c \in DOMAIN new \/ t2 - t1 > Window
         /\ \A d \in DOMAIN reg : d # c => d \in DOMAIN new \/ t2 - reg[d] > Window
  BY DEF RegisterAndEvict

\* The initial state.
LEMMA InitInv == Init => BaseInv /\ OnceInv
  BY DEF Init, BaseInv, TypeOK, AnswersWereGiven, AnsweredWasRead, Sent, Ended,
         NoPair, OnceInv, KeysArePast, StampsArePast, ReadOnce, Punctual

\* Types, and where answers come from, whatever the clocks.
LEMMA BaseStep == BaseInv /\ [Next]_vars => BaseInv'
<1> SUFFICES ASSUME BaseInv, [Next]_vars PROVE BaseInv'
  OBVIOUS
<1> USE DEF BaseInv, AnswersWereGiven, AnsweredWasRead
<1>0. progress \in [Client -> {"new", "waiting"} \cup Ended]
  BY DEF TypeOK
<1>1. CASE Restart
  BY <1>1 DEF Restart, TypeOK, clientVars, Sent
<1>2. ASSUME NEW c \in Client, Send(c) PROVE BaseInv'
  <2>1. Sent' = Sent \cup {c} /\ c \notin Sent
    BY <1>0, <1>2 DEF Send, Sent
  <2>2. progress' \in [Client -> {"new", "waiting"} \cup Ended]
    BY <1>0, <1>2 DEF Send
  <2>3. key' \in [Client -> NoPair .. MaxEpoch]
    BY <1>2 DEF Send, TypeOK, NoPair
  <2>4. stamp' \in [Client -> Int]
    BY <1>2 DEF Send, TypeOK
  <2>5. requests' \subseteq Sent' \X Condition /\ replies' \subseteq Sent' \X Condition
    BY <1>2, <2>1 DEF Send, TypeOK, Condition
  <2>6. TypeOK'
    BY <1>2, <2>2, <2>3, <2>4, <2>5 DEF Send, TypeOK
  <2>7. AnswersWereGiven'
    BY <1>0, <1>2 DEF Send
  <2> QED  BY <2>6, <2>7
<1>3. ASSUME NEW c \in Client, Damage(c) PROVE BaseInv'
  <2>1. Sent' = Sent
    BY <1>3 DEF Damage, clientVars, Sent
  <2>2. TypeOK'
    BY <1>3, <2>1 DEF Damage, clientVars, TypeOK, Condition
  <2>3. AnswersWereGiven'
    BY <1>3 DEF Damage, clientVars, Condition
  <2> QED  BY <2>2, <2>3
<1>4. ASSUME NEW c \in Client, NEW how \in Condition, Receive(c, how) PROVE BaseInv'
  <2>1. CASE Drop(c, how)
    BY <2>1 DEF Drop, vars, clientVars, TypeOK, Sent
  <2>2. ASSUME NEW t1 \in Time, NEW t2 \in Time, Accept(c, how, t1, t2)
        PROVE  BaseInv'
    <3>1. /\ UNCHANGED <<epoch, progress, key, stamp, requests>>
          /\ now' = t2 /\ Sent' = Sent /\ c \in Sent
          /\ seenNonces' = RegisterAndEvict(seenNonces, c, t1, t2)
      BY <1>4, <2>2 DEF Accept, Passes, clientVars, Sent, Receive, TypeOK
    <3>2. DOMAIN seenNonces' \subseteq Client /\ seenNonces' \in [DOMAIN seenNonces' -> Time]
      BY <3>1, RegisteredOrExpired DEF TypeOK
    <3>3. CASE how = "intact" /\ key[c] = epoch
      <4>1. /\ processed' = [processed EXCEPT ![c] = @ + 1]
            /\ replies' = replies \cup {<<c, "intact">>}
        BY <2>2, <3>3 DEF Accept, Answer
      <4>2. processed \in [Client -> Nat]
        BY DEF TypeOK
      <4>3. \A d \in Client : processed[d] > 0 => processed'[d] > 0
        BY <4>1, <4>2
      <4>4. processed'[c] > 0
        BY <4>1, <4>2
      <4>5. TypeOK'
        BY <3>1, <3>2, <4>1 DEF TypeOK, Condition
      <4>6. AnswersWereGiven'
        BY <3>1, <4>1, <4>3, <4>4
      <4> QED  BY <4>5, <4>6
    <3>4. CASE ~ (how = "intact" /\ key[c] = epoch)
      <4>1. UNCHANGED <<processed, replies>>
        BY <2>2, <3>4 DEF Accept
      <4> QED  BY <3>1, <3>2, <4>1 DEF TypeOK
    <3> QED  BY <3>3, <3>4
  <2> QED  BY <1>4, <2>1, <2>2 DEF Receive
<1>5. ASSUME NEW c \in Client,
             TimeOut(c) \/ \E how \in Condition : GetReply(c, how)
      PROVE  BaseInv'
  <2>1. PICK end \in Ended : progress' = [progress EXCEPT ![c] = end]
    BY <1>5 DEF TimeOut, GetReply, Ended
  <2>2. progress[c] = "waiting"
        /\ UNCHANGED <<now, seenNonces, epoch, key, stamp, requests, replies, processed>>
    BY <1>5 DEF TimeOut, GetReply
  <2>3. Sent' = Sent
    BY <1>0, <2>1, <2>2 DEF Sent, Ended
  <2>4. TypeOK'
    BY <2>1, <2>2, <2>3 DEF TypeOK, Ended
  <2>5. AnswersWereGiven'
    BY <1>0, <1>5, <2>2 DEF TimeOut, GetReply
  <2> QED  BY <2>4, <2>5
<1>6. CASE Pass
  BY <1>6 DEF Pass, Tick, clientVars, TypeOK, Sent
<1>7. CASE UNCHANGED vars
  BY <1>7 DEF vars, clientVars, TypeOK, Sent
<1> QED  BY <1>1, <1>2, <1>3, <1>4, <1>5, <1>6, <1>7 DEF Next

\* A punctual client's message that passes all checks and can be decrypted is read
\* for the first time: had it been read, its nonce would be registered or its timestamp stale.
LEMMA AcceptIsFirst ==
  ASSUME BaseInv, OnceInv, NEW c \in Punctual, NEW how, NEW t1 \in Time, NEW t2 \in Time,
         Passes(c, how, t1, t2), key[c] = epoch
  PROVE  processed[c] = 0
<1>1. now \in Int /\ stamp[c] \in Int /\ processed[c] \in Nat
  BY DEF BaseInv, TypeOK, Punctual
<1>2. c \notin DOMAIN seenNonces /\ ~ (now - stamp[c] > Window)
  BY DEF Passes, OutsideWindow
<1>3. ~ (processed[c] > 0)
  BY <1>2 DEF OnceInv, ReadOnce
<1> QED  BY <1>1, <1>3

\* Every step, of whichever client, keeps the messages of punctual clients read
\* at most once.
LEMMA OnceStep ==
  ASSUME BaseInv, BaseInv', OnceInv, [Next]_vars
  PROVE  OnceInv'
<1>0. /\ progress \in [Client -> {"new", "waiting"} \cup Ended]
      /\ key \in [Client -> NoPair .. MaxEpoch] /\ stamp \in [Client -> Int]
      /\ processed \in [Client -> Nat] /\ now \in Int /\ now' \in Int
      /\ epoch \in Int /\ \A c \in Client : key[c] \in Int
      /\ seenNonces \in [DOMAIN seenNonces -> Int]
      /\ DOMAIN seenNonces \subseteq Client
      /\ Punctual \subseteq Client
  BY DEF BaseInv, TypeOK, NoPair, Punctual
<1>1. CASE Restart
  <2>1. \A c \in Client : key'[c] < epoch'
    BY <1>0, <1>1 DEF Restart, clientVars, OnceInv, KeysArePast
  <2> QED  BY <1>0, <1>1, <2>1 DEF Restart, clientVars, OnceInv, KeysArePast,
                                   StampsArePast, ReadOnce, Sent
<1>2. ASSUME NEW c \in Client, Send(c) PROVE OnceInv'
  <2>1. /\ Sent' = Sent \cup {c} /\ c \notin Sent
        /\ UNCHANGED <<now, seenNonces, epoch, processed>>
    BY <1>0, <1>2 DEF Send, Sent
  <2>2. PICK d \in Lead[c] : stamp' = [stamp EXCEPT ![c] = now + d]
    BY <1>2 DEF Send
  <2>3. PICK e \in NoPair .. epoch : key' = [key EXCEPT ![c] = e]
    BY <1>2 DEF Send
  <2>4. d \in Int /\ e \in Int /\ e <= epoch /\ (c \in Punctual => d <= 0)
    BY <1>0, <2>2 DEF NoPair, Punctual
  <2>5. (c \in Punctual => stamp'[c] <= now) /\ \A b \in Client \ {c} : stamp'[b] = stamp[b] /\ key'[b] = key[b]
    BY <1>0, <2>2, <2>3, <2>4
  <2>6. KeysArePast' /\ StampsArePast'
    BY <1>0, <2>1, <2>3, <2>4, <2>5 DEF OnceInv, KeysArePast, StampsArePast, Sent
  <2>7. ReadOnce'
    BY <1>0, <2>1, <2>5 DEF OnceInv, ReadOnce
  <2> QED  BY <2>6, <2>7 DEF OnceInv
<1>3. ASSUME NEW c \in Client, NEW how \in Condition, NEW t1 \in Time, NEW t2 \in Time,
             Accept(c, how, t1, t2), c \in Sent
      PROVE  OnceInv'
  <2>1. /\ UNCHANGED <<epoch, progress, key, stamp>> /\ Sent' = Sent
        /\ Passes(c, how, t1, t2)
        /\ now' = t2 /\ now <= t1 /\ t1 <= t2 /\ t1 \in Int /\ t2 \in Int
        /\ seenNonces' = RegisterAndEvict(seenNonces, c, t1, t2)
    BY <1>3 DEF Accept, Passes, Later, clientVars, Sent
  <2>2. /\ \A d \in DOMAIN seenNonces' :
             IF d = c THEN seenNonces'[d] = t1
             ELSE d \in DOMAIN seenNonces /\ seenNonces'[d] = seenNonces[d]
        /\ c \in DOMAIN seenNonces' \/ t2 - t1 > Window
        /\ \A d \in DOMAIN seenNonces :
             d # c => d \in DOMAIN seenNonces' \/ t2 - seenNonces[d] > Window
    BY <2>1, RegisteredOrExpired
  <2>3. KeysArePast' /\ StampsArePast'
    BY <1>0, <2>1 DEF OnceInv, KeysArePast, StampsArePast, Sent
  <2>4. stamp[c] \in Int /\ (c \in Punctual => stamp[c] <= t1)
    BY <1>0, <1>3, <2>1 DEF OnceInv, StampsArePast
  <2>5. c \in Punctual =>
        \/ c \in DOMAIN seenNonces' /\ stamp[c] <= seenNonces'[c]
        \/ t2 - stamp[c] > Window
    BY <2>1, <2>2, <2>4
  <2>6. ASSUME c \in Punctual, processed'[c] > 0
        PROVE  processed'[c] = 1 \/ (UNCHANGED processed)
    <3>1. CASE how = "intact" /\ key[c] = epoch
      <4>1. processed[c] = 0
        BY <2>1, <2>6, <3>1, AcceptIsFirst
      <4> QED  BY <1>0, <1>3, <3>1, <4>1 DEF Accept, Answer
    <3>2. CASE ~ (how = "intact" /\ key[c] = epoch)
      BY <1>3, <3>2 DEF Accept
    <3> QED  BY <3>1, <3>2
  <2>7. \A d \in Client \ {c} : processed'[d] = processed[d]
    BY <1>0, <1>3 DEF Accept, Answer
  <2>8. ReadOnce'
    <3> SUFFICES ASSUME NEW d \in Punctual, processed'[d] > 0
                 PROVE  /\ processed'[d] = 1
                        /\ d \in Sent
                        /\ key[d] = epoch =>
                             \/ d \in DOMAIN seenNonces' /\ stamp[d] <= seenNonces'[d]
                             \/ t2 - stamp[d] > Window
      BY <2>1 DEF ReadOnce
    <3>1. CASE d = c
      BY <1>3, <2>5, <2>6, <3>1 DEF OnceInv, ReadOnce
    <3>2. CASE d # c
      <4>1. /\ processed'[d] = 1 /\ d \in Sent
            /\ key[d] = epoch =>
                 \/ d \in DOMAIN seenNonces /\ stamp[d] <= seenNonces[d]
                 \/ now - stamp[d] > Window
        BY <1>0, <2>7, <3>2 DEF OnceInv, ReadOnce
      <4>2. stamp[d] \in Int
        BY <1>0
      <4>3. CASE now - stamp[d] > Window
        BY <1>0, <2>1, <4>1, <4>2, <4>3
      <4>4. CASE d \in DOMAIN seenNonces /\ stamp[d] <= seenNonces[d]
        BY <1>0, <2>1, <2>2, <3>2, <4>1, <4>2, <4>4
      <4> QED  BY <4>1, <4>3, <4>4
    <3> QED  BY <3>1, <3>2
  <2> QED  BY <2>3, <2>8 DEF OnceInv
<1>4. ASSUME now <= now', UNCHANGED <<seenNonces, epoch, key, stamp, processed>>,
             Sent' = Sent
      PROVE  OnceInv'
  BY <1>0, <1>4 DEF OnceInv, KeysArePast, StampsArePast, ReadOnce, Sent
<1>5. ASSUME NEW c \in Client,
             Damage(c) \/ TimeOut(c) \/ \E how \in Condition : GetReply(c, how)
      PROVE  OnceInv'
  <2>1. now' = now /\ UNCHANGED <<seenNonces, epoch, key, stamp, processed>>
    BY <1>5 DEF Damage, TimeOut, GetReply, clientVars
  <2>2. Sent' = Sent
    BY <1>0, <1>5 DEF Damage, TimeOut, GetReply, clientVars, Sent
  <2> QED  BY <1>0, <1>4, <2>1, <2>2
<1>6. ASSUME NEW c \in Client, NEW how \in Condition, Receive(c, how)
      PROVE  OnceInv'
  <2>1. c \in Sent
    BY <1>6 DEF Receive, BaseInv, TypeOK
  <2>2. CASE Drop(c, how)
    BY <1>0, <1>4, <2>2 DEF Drop, vars, clientVars, Sent
  <2> QED  BY <1>3, <1>6, <2>1, <2>2 DEF Receive
<1>7. CASE Pass \/ UNCHANGED vars
  <2>1. now <= now' /\ UNCHANGED <<seenNonces, epoch, clientVars, processed>>
    BY <1>0, <1>7 DEF Pass, Tick, vars
  <2> QED  BY <1>4, <2>1 DEF clientVars, Sent
<1> QED  BY <1>1, <1>2, <1>5, <1>6, <1>7 DEF Next

\* One passing packet keeps ReadTwice for every client.
LEMMA AcceptKeepsTwice ==
  ASSUME BaseInv, BaseInv', TwiceInv, NEW c \in Sent, NEW how,
         NEW t1 \in Time, NEW t2 \in Time, Accept(c, how, t1, t2)
  PROVE  TwiceInv'
<1>0. /\ stamp \in [Client -> Int] /\ processed \in [Client -> Nat]
      /\ now \in Int /\ epoch \in Int /\ c \in Client
      /\ seenNonces \in [DOMAIN seenNonces -> Int]
  BY DEF BaseInv, TypeOK, Sent
<1>1. /\ UNCHANGED <<epoch, progress, key, stamp>> /\ Sent' = Sent
      /\ Passes(c, how, t1, t2)
      /\ now' = t2 /\ now <= t1 /\ t1 <= t2 /\ t1 \in Int /\ t2 \in Int
      /\ seenNonces' = RegisterAndEvict(seenNonces, c, t1, t2)
  BY DEF Accept, Passes, Later, clientVars, Sent
<1>2. /\ \A d \in DOMAIN seenNonces' :
           IF d = c THEN seenNonces'[d] = t1
           ELSE d \in DOMAIN seenNonces /\ seenNonces'[d] = seenNonces[d]
      /\ c \in DOMAIN seenNonces' \/ t2 - t1 > Window
      /\ \A d \in DOMAIN seenNonces :
           d # c => d \in DOMAIN seenNonces' \/ t2 - seenNonces[d] > Window
  BY <1>1, RegisteredOrExpired
<1>3. KeysArePast'
  BY <1>1 DEF TwiceInv, KeysArePast
<1>4. c \notin DOMAIN seenNonces /\ now - stamp[c] <= Window /\ stamp[c] - now <= Window
  BY <1>0, <1>1 DEF Passes, OutsideWindow
<1>5. \/ c \in DOMAIN seenNonces' /\ stamp[c] - Window <= seenNonces'[c]
      \/ t2 > stamp[c]
  BY <1>0, <1>1, <1>2, <1>4
<1>6. now > stamp[c] =>
        \/ c \in DOMAIN seenNonces' /\ stamp[c] < seenNonces'[c]
        \/ t2 - stamp[c] > Window
  BY <1>0, <1>1, <1>2
<1>7. key[c] = epoch => processed[c] <= 1 /\ (processed[c] = 1 => now > stamp[c])
  <2> HAVE key[c] = epoch
  <2>1. processed[c] # 2
    BY <1>0, <1>4 DEF TwiceInv, ReadTwice
  <2> QED  BY <1>0, <1>4, <2>1 DEF TwiceInv, ReadTwice
<1>8. ASSUME NEW d \in Client \ {c}
      PROVE  processed'[d] = processed[d]
  BY <1>0 DEF Accept, Answer
<1>9. \/ key[c] = epoch /\ processed'[c] = processed[c] + 1
      \/ processed'[c] = processed[c]
  BY <1>0 DEF Accept, Answer
<1>10. ReadTwice'
  <2> SUFFICES ASSUME NEW d \in Client
               PROVE  /\ processed'[d] <= 2
                      /\ processed'[d] > 0 => d \in Sent
                      /\ key[d] = epoch =>
                           /\ processed'[d] = 1 =>
                                \/ d \in DOMAIN seenNonces' /\ stamp[d] - Window <= seenNonces'[d]
                                \/ t2 > stamp[d]
                           /\ processed'[d] = 2 =>
                                \/ d \in DOMAIN seenNonces' /\ stamp[d] < seenNonces'[d]
                                \/ t2 - stamp[d] > Window
    BY <1>1 DEF ReadTwice
  <2>1. CASE d = c
    <3>1. processed[c] <= 2
      BY DEF TwiceInv, ReadTwice, Sent
    <3>2. processed'[c] <= 2
      BY <1>0, <1>7, <1>9, <3>1
    <3>3. key[c] = epoch /\ processed'[c] = 2 => now > stamp[c]
      BY <1>0, <1>4, <1>7, <1>9 DEF TwiceInv, ReadTwice
    <3> QED  BY <1>5, <1>6, <2>1, <3>2, <3>3
  <2>2. CASE d # c
    <3>1. /\ processed[d] <= 2
          /\ processed[d] > 0 => d \in Sent
          /\ key[d] = epoch =>
               /\ processed[d] = 1 =>
                    \/ d \in DOMAIN seenNonces /\ stamp[d] - Window <= seenNonces[d]
                    \/ now > stamp[d]
               /\ processed[d] = 2 =>
                    \/ d \in DOMAIN seenNonces /\ stamp[d] < seenNonces[d]
                    \/ now - stamp[d] > Window
      BY DEF TwiceInv, ReadTwice
    <3>2. processed'[d] = processed[d] /\ stamp[d] \in Int
      BY <1>0, <1>8, <2>2
    <3>3. d \in DOMAIN seenNonces =>
            \/ d \in DOMAIN seenNonces' /\ seenNonces'[d] = seenNonces[d]
            \/ t2 - seenNonces[d] > Window
      BY <1>2, <2>2
    <3>4. d \in DOMAIN seenNonces => seenNonces[d] \in Int
      BY <1>0
    <3> QED  BY <1>0, <1>1, <3>1, <3>2, <3>3, <3>4
  <2> QED  BY <2>1, <2>2
<1> QED  BY <1>3, <1>10 DEF TwiceInv

\* Whatever the clocks, every step keeps messages read at most twice.
LEMMA TwiceStep ==
  ASSUME BaseInv, BaseInv', TwiceInv, [Next]_vars
  PROVE  TwiceInv'
<1>0. /\ progress \in [Client -> {"new", "waiting"} \cup Ended]
      /\ key \in [Client -> NoPair .. MaxEpoch] /\ stamp \in [Client -> Int]
      /\ processed \in [Client -> Nat] /\ now \in Int /\ now' \in Int
      /\ epoch \in Int /\ \A c \in Client : key[c] \in Int
  BY DEF BaseInv, TypeOK, NoPair
<1>1. CASE Restart
  <2>1. \A c \in Client : key'[c] < epoch'
    BY <1>0, <1>1 DEF Restart, clientVars, TwiceInv, KeysArePast
  <2> QED  BY <1>0, <1>1, <2>1 DEF Restart, clientVars, TwiceInv, KeysArePast,
                                   ReadTwice, Sent
<1>2. ASSUME NEW c \in Client, Send(c) PROVE TwiceInv'
  <2>1. /\ Sent' = Sent \cup {c} /\ c \notin Sent
        /\ UNCHANGED <<now, seenNonces, epoch, processed>>
    BY <1>0, <1>2 DEF Send, Sent
  <2>2. processed[c] = 0
    BY <1>0, <2>1 DEF TwiceInv, ReadTwice
  <2>3. PICK e \in NoPair .. epoch : key' = [key EXCEPT ![c] = e]
    BY <1>2 DEF Send
  <2>4. \A b \in Client \ {c} : stamp'[b] = stamp[b] /\ key'[b] = key[b]
    BY <1>0, <1>2 DEF Send
  <2>5. KeysArePast'
    BY <1>0, <2>1, <2>3 DEF TwiceInv, KeysArePast, NoPair
  <2>6. ReadTwice'
    BY <2>1, <2>2, <2>4 DEF TwiceInv, ReadTwice
  <2> QED  BY <2>5, <2>6 DEF TwiceInv
<1>3. ASSUME now <= now', UNCHANGED <<seenNonces, epoch, key, stamp, processed>>,
             Sent' = Sent
      PROVE  TwiceInv'
  BY <1>0, <1>3 DEF TwiceInv, KeysArePast, ReadTwice, Sent
<1>4. ASSUME NEW c \in Client,
             Damage(c) \/ TimeOut(c) \/ \E how \in Condition : GetReply(c, how)
      PROVE  TwiceInv'
  <2>1. now' = now /\ UNCHANGED <<seenNonces, epoch, key, stamp, processed>>
    BY <1>4 DEF Damage, TimeOut, GetReply, clientVars
  <2>2. Sent' = Sent
    BY <1>0, <1>4 DEF Damage, TimeOut, GetReply, clientVars, Sent
  <2> QED  BY <1>0, <1>3, <2>1, <2>2
<1>5. ASSUME NEW c \in Client, NEW how \in Condition, Receive(c, how)
      PROVE  TwiceInv'
  <2>1. c \in Sent
    BY <1>5 DEF Receive, BaseInv, TypeOK
  <2>2. CASE Drop(c, how)
    BY <1>0, <1>3, <2>2 DEF Drop, vars, clientVars, Sent
  <2> QED  BY <1>5, <2>1, <2>2, AcceptKeepsTwice DEF Receive
<1>6. CASE Pass \/ UNCHANGED vars
  <2>1. now <= now' /\ UNCHANGED <<seenNonces, epoch, clientVars, processed>>
    BY <1>0, <1>6 DEF Pass, Tick, vars
  <2> QED  BY <1>3, <2>1 DEF clientVars, Sent
<1> QED  BY <1>1, <1>2, <1>4, <1>5, <1>6 DEF Next

-----------------------------------------------------------------------------
\* Types and the origin of answers, with any clocks.
THEOREM BaseInvariance == Spec => []BaseInv
  BY InitInv, BaseStep, PTL DEF Spec

\* Every variable keeps its type.
THEOREM Types == Spec => []TypeOK
  BY BaseInvariance, PTL DEF BaseInv

\* A client that shows an answer was read, with any clocks.
THEOREM AnsweredIsRead == Spec => []AnsweredWasRead
  BY BaseInvariance, PTL DEF BaseInv, AnswersWereGiven

\* With any clocks, whatever is lost, repeated or restarted, the demo server acts
\* on each message at most twice.
THEOREM ReadAtMostTwice == Spec => []AtMostTwice
<1>1. Init => TwiceInv
  BY DEF Init, TwiceInv, KeysArePast, ReadTwice, NoPair
<1>2. TwiceInv => AtMostTwice
  BY DEF TwiceInv, ReadTwice, AtMostTwice
<1> QED  BY <1>1, <1>2, TwiceStep, BaseInvariance, PTL DEF Spec

\* For the clients whose clocks are not ahead the demo implements AtMostOnce,
\* whatever the others' clocks.
THEOREM PunctualRefinement == Spec => PunctualDelivery
<1>1. BaseInv /\ BaseInv' /\ OnceInv /\ [Next]_vars => OnceInv'
  BY OnceStep
<1>2. Spec => []OnceInv
  BY <1>1, InitInv, BaseInvariance, PTL DEF Spec
<1>3. Init => OnTime!Init
  BY DEF Init, OnTime!Init, Sent, Punctual
<1>4. BaseInv /\ OnceInv /\ [Next]_vars => [OnTime!Next]_OnTime!vars
  <2> SUFFICES ASSUME BaseInv, OnceInv, [Next]_vars
               PROVE  [OnTime!Next]_OnTime!vars
    OBVIOUS
  <2>0. /\ progress \in [Client -> {"new", "waiting"} \cup Ended]
        /\ processed \in [Client -> Nat] /\ Punctual \subseteq Client
    BY DEF BaseInv, TypeOK, Punctual
  <2>1. ASSUME NEW c \in Client, Send(c)
        PROVE  (c \in Punctual /\ OnTime!Submit(c)) \/ UNCHANGED OnTime!vars
    <3>1. Sent' = Sent \cup {c} /\ c \notin Sent /\ UNCHANGED processed
      BY <2>0, <2>1 DEF Send, Sent
    <3>2. CASE c \in Punctual
      BY <3>1, <3>2 DEF OnTime!Submit
    <3>3. CASE c \notin Punctual
      BY <3>1, <3>3 DEF OnTime!vars
    <3> QED  BY <3>2, <3>3
  <2>2. ASSUME NEW c \in Client, NEW how \in Condition, Receive(c, how)
        PROVE  (c \in Punctual /\ OnTime!Execute(c)) \/ UNCHANGED OnTime!vars
    <3>1. CASE Drop(c, how)
      BY <3>1 DEF Drop, vars, clientVars, OnTime!vars, Sent
    <3>2. ASSUME NEW t1 \in Time, NEW t2 \in Time, Accept(c, how, t1, t2)
          PROVE  (c \in Punctual /\ OnTime!Execute(c)) \/ UNCHANGED OnTime!vars
      <4>1. c \in Sent /\ Sent' = Sent
        BY <2>2, <3>2 DEF Receive, BaseInv, TypeOK, Accept, clientVars, Sent
      <4>2. CASE how = "intact" /\ key[c] = epoch
        <5>1. processed' = [processed EXCEPT ![c] = @ + 1]
          BY <3>2, <4>2 DEF Accept, Answer
        <5>2. CASE c \in Punctual
          <6>1. processed[c] = 0
            BY <3>2, <4>2, <5>2, AcceptIsFirst DEF Accept
          <6>2. processed'[c] = 1 /\ \A d \in Punctual \ {c} : processed'[d] = processed[d]
            BY <2>0, <5>1, <5>2, <6>1
          <6>3. [d \in Punctual |-> processed'[d]]
                  = [[d \in Punctual |-> processed[d]] EXCEPT ![c] = 1]
            BY <6>2
          <6> QED  BY <4>1, <5>2, <6>1, <6>3 DEF OnTime!Execute
        <5>3. CASE c \notin Punctual
          <6>1. [d \in Punctual |-> processed'[d]] = [d \in Punctual |-> processed[d]]
            BY <2>0, <5>1, <5>3
          <6> QED  BY <4>1, <6>1 DEF OnTime!vars
        <5> QED  BY <5>2, <5>3
      <4>3. CASE ~ (how = "intact" /\ key[c] = epoch)
        BY <3>2, <4>1, <4>3 DEF Accept, OnTime!vars
      <4> QED  BY <4>2, <4>3
    <3> QED  BY <2>2, <3>1, <3>2 DEF Receive
  <2>3. ASSUME NEW c \in Client,
               Damage(c) \/ TimeOut(c) \/ \E how \in Condition : GetReply(c, how)
        PROVE  UNCHANGED OnTime!vars
    BY <2>0, <2>3 DEF Damage, TimeOut, GetReply, clientVars, Sent, OnTime!vars
  <2>4. CASE Restart \/ Pass \/ UNCHANGED vars
    BY <2>4 DEF Restart, Pass, vars, clientVars, Sent, OnTime!vars
  <2> QED  BY <2>1, <2>2, <2>3, <2>4 DEF Next, OnTime!Next
<1> QED  BY <1>2, <1>3, <1>4, BaseInvariance, PTL
            DEF Spec, PunctualDelivery, OnTime!Spec
=============================================================================
