----------------------------- MODULE ServerProxy -----------------------------
(* z_server_proxy (browser): how the server side of the tunnel handles a      *)
(* datagram, and the figures it keeps for the dashboard.                      *)
(*                                                                            *)
(* Each datagram is handled by a task of its own.  A task runs without a      *)
(* break until it waits for the web server at port 8080, which only a request *)
(* that is not answered by the proxy itself does; other tasks, and the HTTP   *)
(* API that shows the figures, run meanwhile.  The contents of the answers    *)
(* (vault, chat) are the business of Vault; here an answer is its size.       *)
(*                                                                            *)
(* A request is sealed under a key of its own, and stands for it; the network *)
(* may repeat it.  A task is known by the number of its datagram.             *)
EXTENDS Integers, Sequences, FiniteSets

CONSTANTS
  Request,
  Forwarded,  \* requests for the web server
  Headless,   \* those for /zchat or /zupload that end within their headers
  SizeOf,     \* the size of the answer to each request
  Block,      \* what r.read() asks for: 4096 bytes
  MaxAnswer,  \* what fits into a datagram
  KeepLog,    \* 20 lines of log
  KeepKeys,   \* 10 session keys
  MaxPackets  \* bound: datagrams received

ASSUME RequestAssumption ==
  /\ Forwarded \subseteq Request /\ Headless \subseteq Request
  /\ Forwarded \cap Headless = {}
  /\ SizeOf \in [Request -> Nat]
ASSUME LimitAssumption == /\ {Block, KeepLog, KeepKeys} \subseteq Nat \ {0}
                          /\ {MaxAnswer, MaxPackets} \subseteq Nat

VARIABLES
  received,   \* stats["packets_received"]
  decrypted,  \* stats["packets_decrypted"]
  dropped,    \* stats["packets_dropped"]
  keysSeen,   \* stats["session_keys_seen"]
  log,        \* stats["request_log"], the newest line first
  task        \* the tasks so far: request, state, and how much of an answer was read

stats == <<received, decrypted, dropped, keysSeen, log>>
vars == <<stats, task>>

State == {"dropped", "failed", "opening", "reading", "badGateway", "answered", "lost"}

First(s, n) == SubSeq(s, 1, IF Len(s) < n THEN Len(s) ELSE n)
LastOneMore(s, n) == SubSeq(s, IF Len(s) <= n THEN 1 ELSE Len(s) - n, Len(s)) \* mutant: off by one
Last(s, n) == SubSeq(s, IF Len(s) < n THEN 1 ELSE Len(s) - n + 1, Len(s))

Task(r, state, got) == [req |-> r, state |-> state, got |-> got]

Init ==
  /\ received = 0 /\ decrypted = 0 /\ dropped = 0
  /\ keysSeen = <<>> /\ log = <<>>
  /\ task = <<>>

-----------------------------------------------------------------------------
(* process_packet up to its end, or to its first await *)

Packet == /\ received < MaxPackets
          /\ received' = received + 1

\* session_keys_seen: a key seen again keeps its place.
NoteKeyAgain(r) == keysSeen' = Last(Append(keysSeen, r), KeepKeys) \* mutant: not looked up
NoteKey(r) ==
  keysSeen' = Last(IF \E i \in DOMAIN keysSeen : keysSeen[i] = r
                   THEN keysSeen ELSE Append(keysSeen, r), KeepKeys)

LogAtEnd(r) == log' = First(Append(log, r), KeepLog) \* mutant: append instead of insert(0, ...)
LogRequest(r) == log' = First(<<r>> \o log, KeepLog)

\* A task that got to know its request, in some state with nothing read yet
Decrypt(r, state) ==
  /\ Packet
  /\ decrypted' = decrypted + 1
  /\ NoteKey(r) /\ LogRequest(r)
  /\ task' = Append(task, Task(r, state, 0))

DropUncounted(r) == \* mutant: an early return without counting
  /\ Packet
  /\ task' = Append(task, Task(r, "dropped", 0))
  /\ UNCHANGED <<decrypted, dropped, keysSeen, log>>

\* Too short, no "ZP", or decrypt_payload() raises: there is no answer.
Drop(r) ==
  /\ Packet
  /\ dropped' = dropped + 1
  /\ task' = Append(task, Task(r, "dropped", 0))
  /\ UNCHANGED <<decrypted, keysSeen, log>>

\* http_request.split(b"\r\n\r\n")[1] raises after decryption, and the request
\* is counted as dropped as well.
Fail(r) ==
  /\ r \in Headless
  /\ Decrypt(r, "failed")
  /\ dropped' = dropped + 1

\* sendto() of an answer that does not fit into a datagram reports an error to
\* error_received(), which ignores it: nothing is sent and nothing is raised.
Sent(size) == IF size <= MaxAnswer THEN "answered" ELSE "lost"

Answer(r) ==
  /\ r \notin Headless \cup Forwarded
  /\ Decrypt(r, Sent(SizeOf[r]))
  /\ UNCHANGED dropped

Forward(r) ==
  /\ r \in Forwarded
  /\ Decrypt(r, "opening")
  /\ UNCHANGED dropped

-----------------------------------------------------------------------------
(* The rest of a forwarding task: open_connection(), write(), drain(), and    *)
(* read() until a read comes short.  Nothing limits the time this takes.      *)

Waiting(i) == task[i].state \in {"opening", "reading"}

Open(i) ==
  /\ task[i].state = "opening"
  /\ task' = [task EXCEPT ![i].state = "reading"]
  /\ UNCHANGED stats

\* Any exception on the way: the answer is "502 Bad Gateway".
BackendFails(i) ==
  /\ Waiting(i)
  /\ task' = [task EXCEPT ![i].state = "badGateway"]
  /\ UNCHANGED stats

Rest(i) == SizeOf[task[i].req] - task[i].got

ShortOrFull(n) == n <= Block \* mutant: the first block is taken for the whole answer
\* len(chunk) < 4096
Short(n) == n < Block

StateUntilEof(i, n) == IF n = 0 THEN Sent(task[i].got) ELSE "reading" \* mutant: only b"" ends the loop

\* The state of task i when n more bytes were read
StateAfter(i, n) ==
  IF Short(n) THEN Sent(task[i].got + n) ELSE "reading"

\* read() returns what has arrived, at least one byte.
Read(i, n) ==
  /\ task[i].state = "reading"
  /\ n \in 1 .. Block /\ n <= Rest(i)
  /\ task' = [task EXCEPT ![i].got = @ + n, ![i].state = StateAfter(i, n)]
  /\ UNCHANGED stats

\* The web server has closed the connection: read() returns b"".  A server that
\* keeps connections open need not do so.
ReadEof(i) ==
  /\ task[i].state = "reading" /\ Rest(i) = 0
  /\ task' = [task EXCEPT ![i].state = StateAfter(i, 0)]
  /\ UNCHANGED stats

Continue(i) == Open(i) \/ \E n \in 1 .. Block : Read(i, n)

Next ==
  \/ \E r \in Request : Drop(r) \/ Fail(r) \/ Answer(r) \/ Forward(r)
  \/ \E i \in DOMAIN task : Continue(i) \/ BackendFails(i) \/ ReadEof(i)

Spec == Init /\ [][Next]_vars

\* The web server accepts a connection or refuses it, and the bytes of its reply
\* arrive; the event loop runs a task whose wait is over.
FairSpec ==
  Spec /\ \A i \in 1 .. MaxPackets : WF_vars(i \in DOMAIN task /\ Continue(i))

-----------------------------------------------------------------------------
TypeOK ==
  /\ received \in 0 .. MaxPackets /\ decrypted \in Nat /\ dropped \in Nat
  /\ keysSeen \in Seq(Request) /\ Len(keysSeen) <= KeepKeys
  /\ log \in Seq(Request) /\ Len(log) <= KeepLog
  /\ task \in Seq([req : Request, state : State, got : Nat])
  /\ \A i \in DOMAIN task : Rest(i) >= 0

With(states) == {i \in DOMAIN task : task[i].state \in states}
Decrypted == With(State \ {"dropped"})

\* The figures that the dashboard shows agree at every moment at which it can
\* ask for them, while any number of tasks wait: a packet is dropped, decrypted,
\* or both, and both only if it ended within its headers.
BooksBalance ==
  /\ received = Len(task)
  /\ dropped = Cardinality(With({"dropped", "failed"}))
  /\ decrypted = Cardinality(Decrypted)
  /\ decrypted + dropped - received = Cardinality(With({"failed"}))

DecryptedAfter(i) == {j \in Decrypted : j > i}

\* The log shows the latest requests, the newest first, whatever they wait for:
\* the line of a request has as many lines above it as were decrypted after it.
LogIsNewest ==
  /\ Len(log) = IF Cardinality(Decrypted) < KeepLog THEN Cardinality(Decrypted) ELSE KeepLog
  /\ \A i \in Decrypted :
       LET above == Cardinality(DecryptedAfter(i))
       IN  above < KeepLog => log[above + 1] = task[i].req

DistinctKeys == {task[i].req : i \in Decrypted}
KnownKeys == {keysSeen[i] : i \in DOMAIN keysSeen}

\* "active_sessions": the number of different keys so far, up to the limit,
\* however often the network repeats requests; the latest key is among them.
ActiveSessions ==
  /\ Len(keysSeen) = Cardinality(KnownKeys)
  /\ Len(keysSeen) = IF Cardinality(DistinctKeys) < KeepKeys
                     THEN Cardinality(DistinctKeys) ELSE KeepKeys
  /\ \A i \in Decrypted : DecryptedAfter(i) = {} => task[i].req \in KnownKeys

\* The reply of the web server is returned up to the first read that comes
\* short.  A reply that arrives in full blocks is therefore returned whole: one
\* that is cut was cut within a block.
CutWithinBlock ==
  \A i \in DOMAIN task :
    task[i].req \in Forwarded /\ task[i].state \in {"answered", "lost"} /\ Rest(i) > 0
    => task[i].got % Block # 0

\* A request that is forwarded is answered, unless the size of the reply is a
\* multiple of the block: then the task may wait for a byte that never comes.
ForwardEnds ==
  \A i \in 1 .. MaxPackets :
    i \in DOMAIN task /\ Waiting(i) /\ SizeOf[task[i].req] % Block # 0
    ~> i \in DOMAIN task /\ ~ Waiting(i)
=============================================================================
