---------------------------- MODULE DemoExchange ----------------------------
(* The demo of demo/: zdemo_client sends one packet, zdemo_server prints the  *)
(* message and answers, the client waits ten seconds for the answer.          *)
(*                                                                            *)
(* The server checks what zserver_v2 checks, but keeps its own registry: it   *)
(* stores under each nonce the time at which the packet ARRIVED, where        *)
(* ReplayFilter stores the timestamp the packet carries, and forgets a nonce  *)
(* Window seconds after arrival.  Whether that is long enough depends on how  *)
(* far a client's clock may be ahead of the server's.                         *)
(*                                                                            *)
(* A client run is named by its nonce and session id (fresh random bits), a   *)
(* key pair by the incarnation of the server that drew it.                    *)
EXTENDS WallClock

CONSTANTS
  Client,    \* runs of zdemo_client
  Lead,      \* by how much each client's clock may be ahead of the server's
  Window,    \* the 30 seconds of both checks
  Stall,     \* how long one call of the handler may take
  MaxEpoch   \* bound: how many times the server is started

ASSUME LeadAssumption   == \A c \in Client : Lead[c] \subseteq Int
ASSUME WindowAssumption == Window \in Nat
ASSUME StallAssumption  == Stall \in Nat
ASSUME EpochAssumption  == MaxEpoch \in Nat \ {0}

VARIABLES
  seenNonces,  \* SEEN_NONCES: registered nonces with their time of arrival
  epoch,       \* the number of the running incarnation
  progress,    \* how far each client run has come
  key,         \* the incarnation whose two key files each client holds
  stamp,       \* the timestamp in each client's packet
  requests,    \* packets in flight to the server
  replies,     \* answers in flight to the clients
  processed    \* history: how often a server has read each client's message

clientVars == <<progress, key, stamp>>
vars == <<now, seenNonces, epoch, clientVars, requests, replies, processed>>

NoPair    == 0   \* key files of two incarnations: no server has both private keys
Condition == {"intact", "header", "sealed"}   \* see ZeroRtt

OutsideWindow(ts, t) == t - ts > Window \/ ts - t > Window

RegisterAndBlank(reg, c, t1, t2) == \* mutant: expired entries are blanked, not deleted
  LET arrived == [d \in DOMAIN reg \cup {c} |-> IF d = c THEN t1 ELSE reg[d]]
  IN  [d \in DOMAIN arrived |-> IF t2 - arrived[d] > Window THEN -1 ELSE arrived[d]]
RegisterAndEvictEarly(reg, c, t1, t2) == \* mutant: >= where the code has >
  LET arrived == [d \in DOMAIN reg \cup {c} |-> IF d = c THEN t1 ELSE reg[d]]
  IN  [d \in {d \in DOMAIN arrived : ~ (t2 - arrived[d] >= Window)} |-> arrived[d]]
\* SEEN_NONCES[nonce_hex] = time.time(), then the eviction in line, for the
\* clock readings t1 and t2
RegisterAndEvict(reg, c, t1, t2) ==
  LET arrived == [d \in DOMAIN reg \cup {c} |-> IF d = c THEN t1 ELSE reg[d]]
  IN  [d \in {d \in DOMAIN arrived : ~ (t2 - arrived[d] > Window)} |-> arrived[d]]

-----------------------------------------------------------------------------
Init ==
  /\ now \in Time
  /\ seenNonces = [c \in {} |-> 0]
  /\ epoch = 1
  /\ progress = [c \in Client |-> "new"]
  /\ key = [c \in Client |-> NoPair]
  /\ stamp = [c \in Client |-> 0]
  /\ requests = {} /\ replies = {}
  /\ processed = [c \in Client |-> 0]

\* The server is stopped and started: new key pair, empty registry.
Restart ==
  /\ epoch < MaxEpoch
  /\ epoch' = epoch + 1
  /\ seenNonces' = [c \in {} |-> 0]
  /\ UNCHANGED <<now, clientVars, requests, replies, processed>>

\* The client holds copies of the key files, of the running server, of an
\* earlier one or mixed; it encrypts, reads its clock, mines and sends.
Send(c) ==
  /\ progress[c] = "new"
  /\ progress' = [progress EXCEPT ![c] = "waiting"]
  /\ \E e \in NoPair .. epoch : key' = [key EXCEPT ![c] = e]
  /\ \E d \in Lead[c] : stamp' = [stamp EXCEPT ![c] = now + d]
  /\ requests' = requests \cup {<<c, "intact">>}
  /\ UNCHANGED <<now, seenNonces, epoch, replies, processed>>

\* The network damages a copy; it may also lose, delay and repeat anything.
Damage(c) ==
  /\ \/ /\ <<c, "intact">> \in requests
        /\ \E how \in {"header", "sealed"} : requests' = requests \cup {<<c, how>>}
        /\ UNCHANGED replies
     \/ /\ <<c, "intact">> \in replies
        /\ replies' = replies \cup {<<c, "sealed">>}
        /\ UNCHANGED requests
  /\ UNCHANGED <<now, seenNonces, epoch, clientVars, processed>>

(* datagram_received of the server.  It reads the clock first in              *)
(* verify_timestamp (now), then to register the nonce (t1), then to evict     *)
(* (t2).                                                                      *)

Drop(c, how) ==
  /\ OutsideWindow(stamp[c], now) \/ how = "header" \/ c \in DOMAIN seenNonces
  /\ UNCHANGED vars

Passes(c, how, t1, t2) ==
  /\ ~ OutsideWindow(stamp[c], now) /\ how # "header"
  /\ c \notin DOMAIN seenNonces
  /\ Later(t1) /\ t1 <= t2 /\ t2 - now <= Stall
  /\ now' = t2

\* Decrypt, print, answer.
Answer(c) ==
  /\ processed' = [processed EXCEPT ![c] = @ + 1]
  /\ replies' = replies \cup {<<c, "intact">>}

AcceptUnregistered(c, how, t1, t2) == \* mutant: the nonce is looked up, never stored
  /\ Passes(c, how, t1, t2)
  /\ IF how = "intact" /\ key[c] = epoch
     THEN Answer(c) ELSE UNCHANGED <<processed, replies>>
  /\ UNCHANGED <<seenNonces, epoch, clientVars, requests>>
AcceptAnswersAll(c, how, t1, t2) == \* mutant: the answer leaves before decrypting
  /\ Passes(c, how, t1, t2)
  /\ seenNonces' = RegisterAndEvict(seenNonces, c, t1, t2)
  /\ replies' = replies \cup {<<c, "intact">>}
  /\ processed' = IF how = "intact" /\ key[c] = epoch
                  THEN [processed EXCEPT ![c] = @ + 1] ELSE processed
  /\ UNCHANGED <<epoch, clientVars, requests>>

\* As in ZeroRtt the nonce is registered before the packet is decrypted.
Accept(c, how, t1, t2) ==
  /\ Passes(c, how, t1, t2)
  /\ seenNonces' = RegisterAndEvict(seenNonces, c, t1, t2)
  /\ IF how = "intact" /\ key[c] = epoch
     THEN Answer(c) ELSE UNCHANGED <<processed, replies>>
  /\ UNCHANGED <<epoch, clientVars, requests>>

Receive(c, how) ==
  /\ <<c, how>> \in requests
  /\ \/ Drop(c, how)
     \/ \E t1, t2 \in Time : Accept(c, how, t1, t2)

(* The client's run().                                                        *)

\* The first datagram resolves the future; one that does not decrypt ends the
\* run with an exception, which prints nothing more.
GetReply(c, how) ==
  /\ progress[c] = "waiting"
  /\ <<c, how>> \in replies
  /\ progress' = [progress EXCEPT ![c] =
                    IF how = "intact" THEN "answered" ELSE "aborted"]
  /\ UNCHANGED <<now, seenNonces, epoch, key, stamp, requests, replies, processed>>

TimeOutOnReply(c) ==   \* mutant: the timer starts when a datagram arrives
  /\ progress[c] = "waiting"
  /\ \E how \in Condition : <<c, how>> \in replies
  /\ progress' = [progress EXCEPT ![c] = "unanswered"]
  /\ UNCHANGED <<now, seenNonces, epoch, key, stamp, requests, replies, processed>>

\* wait_for gives up after ten seconds of the event loop's clock.
TimeOut(c) ==
  /\ progress[c] = "waiting"
  /\ progress' = [progress EXCEPT ![c] = "unanswered"]
  /\ UNCHANGED <<now, seenNonces, epoch, key, stamp, requests, replies, processed>>

Pass == Tick /\ UNCHANGED <<seenNonces, epoch, clientVars, requests, replies, processed>>

Next ==
  \/ Restart
  \/ \E c \in Client :
       \/ Send(c) \/ Damage(c) \/ TimeOut(c)
       \/ \E how \in Condition : Receive(c, how) \/ GetReply(c, how)
  \/ Pass

Spec == Init /\ [][Next]_vars

\* The event loop runs its timers; nothing else is promised to happen.
FairSpec == Spec /\ \A c \in Client : WF_vars(TimeOut(c))

-----------------------------------------------------------------------------
Ended == {"answered", "unanswered", "aborted"}
Sent  == {c \in Client : progress[c] # "new"}

TypeOK ==
  /\ now \in Time
  /\ DOMAIN seenNonces \subseteq Client
  /\ seenNonces \in [DOMAIN seenNonces -> Time]
  /\ epoch \in 1 .. MaxEpoch
  /\ progress \in [Client -> {"new", "waiting"} \cup Ended]
  /\ key \in [Client -> NoPair .. MaxEpoch]
  /\ stamp \in [Client -> Int]
  /\ requests \subseteq Sent \X Condition
  /\ replies \subseteq Sent \X Condition
  /\ processed \in [Client -> Nat]

\* "Track seen nonces for replay protection" (zdemo_server.py): a message is
\* printed and answered at most once.  It fails for a client whose clock is ahead
\* of the server's.
Delivery == INSTANCE AtMostOnce
              WITH Message <- Client, sent <- Sent, executed <- processed
AtMostOnceDelivery == Delivery!Spec

\* For the clients whose clocks are not ahead it holds, whatever the clocks of
\* those others whose packets share the registry and prune it.
Punctual == {c \in Client : \A d \in Lead[c] : d <= 0}
OnTime == INSTANCE AtMostOnce
            WITH Message <- Punctual, sent <- Sent \cap Punctual,
                 executed <- [c \in Punctual |-> processed[c]]
PunctualDelivery == OnTime!Spec

\* However far the clients' clocks are off, a packet is read at most twice: none
\* is let in more than Window before its timestamp, so when the nonce of the
\* first reading is forgotten the timestamp is past, and when that of the second
\* is, it is stale.
AtMostTwice == \A c \in Client : processed[c] <= 2

\* A client that shows an answer was read by a server that holds its key, also
\* when the server was restarted or packets and answers were damaged.
AnsweredWasRead ==
  \A c \in Client : progress[c] = "answered" => processed[c] > 0

\* However the answer races with the timeout, a client run comes to an end.
EveryRunEnds ==
  \A c \in Client : progress[c] = "waiting" ~> progress[c] \in Ended
=============================================================================
