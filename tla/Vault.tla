-------------------------------- MODULE Vault --------------------------------
(* The browser demo: the dashboard page (index.html) puts files into a vault  *)
(* and messages into a chat on z_server_proxy, through z_client_proxy, which  *)
(* carries each HTTP request in one datagram and waits two seconds for the    *)
(* answer.                                                                    *)
(*                                                                            *)
(* A file is uploaded in chunks, one request after the other; the server      *)
(* keeps a dictionary of chunks for each file name, and nothing else.  A      *)
(* download asks for the number of chunks, then for each of them.  The page   *)
(* that the server's own HTTP API serves uploads to that API directly.        *)
(*                                                                            *)
(* Every request has its own socket, session key and answer.  Cryptography is *)
(* ideal: a datagram that is damaged, or sealed for another key pair than the *)
(* running server's, is as good as lost.                                      *)
EXTENDS Naturals, Sequences, FiniteSets

CONSTANTS
  Upload,    \* uploads of files, each started by a user at some time
  Direct,    \* uploads that go to the HTTP API, not through the tunnel
  NameOf,    \* the file name of each upload
  ChunksOf,  \* the number of chunks of each upload
  Download,  \* downloads
  Base,      \* the base in which requests name chunks: 10
  ReadAs,    \* for each file name, the names a request for it can be cut down to
  Chat,      \* chat messages, each typed by a user of either page at some time
  MaxEpoch,  \* bound: how many times the server is started
  MaxPosts   \* bound: how often one chat message is handled

\* A chunk in the vault is represented by the upload it belongs to; this stands for
\* the empty text that the server answers instead of a chunk.
Missing == <<>>
FileName == {NameOf[u] : u \in Upload}

ASSUME UploadAssumption == /\ Direct \subseteq Upload
                           /\ DOMAIN NameOf = Upload
                           /\ ChunksOf \in [Upload -> Nat]
ASSUME CutAssumption    == /\ Base \in Nat \ {0, 1}
                           /\ ReadAs \in [FileName -> SUBSET FileName]
ASSUME BoundAssumption  == MaxEpoch \in Nat \ {0} /\ MaxPosts \in Nat

VARIABLES
  epoch,     \* the number of the running server incarnation
  vault,     \* stats["vault"]: for each file name, chunks by index
  posts,     \* how often stats["chat_messages"] holds each message
  upload,    \* how far each upload has come
  acked,     \* how many of its requests have been answered
  packets,   \* request datagrams in flight
  replies,   \* requests whose answer is in flight
  download   \* each download: its state, total_chunks and assembled chunks, and as
             \* history which requests were cut and which uploads it came after

vars == <<epoch, vault, posts, upload, acked, packets, replies, download>>

\* A request is a chunk of an upload or a chat message.  The proxy may have read
\* only a part of it: "head" stands for one that ends within the HTTP headers,
\* "body" for one whose JSON text is incomplete, and for one that ends within its
\* first line, which the web server behind the proxy answers: either is answered
\* without effect.
ChunkReq == UNION {{<<u, i>> : i \in 0 .. ChunksOf[u] - 1} : u \in Upload}
ASSUME ChatAssumption == Chat \cap ChunkReq = {}
Read     == {"whole", "body", "head"}

StoredNext(f, i, u) == \* mutant: chunks are numbered from 1
  [vault EXCEPT ![f] = [j \in DOMAIN @ \cup {i + 1} |-> IF j = i + 1 THEN u ELSE @[j]]]
StoredFresh(f, i, u) == \* mutant: a first chunk begins the file anew
  [vault EXCEPT ![f] = [j \in IF i = 0 THEN {0} ELSE DOMAIN @ \cup {i} |-> IF j = i THEN u ELSE @[j]]]
Stored(f, i, u) ==
  [vault EXCEPT ![f] = [j \in DOMAIN @ \cup {i} |-> IF j = i THEN u ELSE @[j]]]
Empty == [f \in FileName |-> [i \in {} |-> Missing]]

-----------------------------------------------------------------------------
Init ==
  /\ epoch = 1
  /\ vault = Empty
  /\ posts = [m \in Chat |-> 0]
  /\ upload = [u \in Upload |-> "idle"]
  /\ acked = [u \in Upload |-> 0]
  /\ packets = {} /\ replies = {}
  /\ download = [d \in Download |-> [state |-> "idle"]]

\* The vault and the chat live in the server process.
Restart ==
  /\ epoch < MaxEpoch
  /\ epoch' = epoch + 1
  /\ vault' = Empty
  /\ posts' = [m \in Chat |-> 0]
  /\ UNCHANGED <<upload, acked, packets, replies, download>>

(* The page and the client proxy.                                             *)

\* The loop over the chunks, when n of them are answered.  It ends with the message
\* that the file was transferred, at once if the file is empty.
LoopAt(u, n) == [upload EXCEPT ![u] = IF n = ChunksOf[u] THEN "done" ELSE "sending"]

StartUpload(u) ==
  /\ upload[u] = "idle"
  /\ upload' = LoopAt(u, 0)
  /\ UNCHANGED <<epoch, vault, posts, acked, packets, replies, download>>

\* fetch() of the next chunk; the proxy reads the request from its connection
\* until a read is short or takes too long, and sends what it has got.
SendChunk(u, read) ==
  /\ u \notin Direct /\ upload[u] = "sending"
  /\ upload' = [upload EXCEPT ![u] = "waiting"]
  /\ packets' = packets \cup {[req |-> <<u, acked[u]>>, read |-> read, under |-> epoch]}
  /\ UNCHANGED <<epoch, vault, posts, acked, replies, download>>

\* The loop goes on after an answer, whatever it says.
Advance(u) ==
  /\ acked' = [acked EXCEPT ![u] = @ + 1]
  /\ upload' = LoopAt(u, acked[u] + 1)

GetAnswer(u) ==
  /\ upload[u] = "waiting" /\ <<u, acked[u]>> \in replies
  /\ Advance(u)
  /\ UNCHANGED <<epoch, vault, posts, packets, replies, download>>

GiveUpAnswered(u) == \* mutant: no timeout, only a damaged answer ends the wait
  /\ upload[u] = "waiting" /\ <<u, acked[u]>> \in replies
  /\ upload' = [upload EXCEPT ![u] = "failed"]
  /\ UNCHANGED <<epoch, vault, posts, acked, packets, replies, download>>

\* Two seconds without an answer, or one that does not decrypt: the proxy closes
\* the connection, fetch() rejects and the upload stops where it is.  So does one at
\* the API when its connection fails.
GiveUp(u) ==
  /\ upload[u] = IF u \in Direct THEN "sending" ELSE "waiting"
  /\ upload' = [upload EXCEPT ![u] = "failed"]
  /\ UNCHANGED <<epoch, vault, posts, acked, packets, replies, download>>

Untyped(m) == posts[m] = 0 /\ \A p \in packets : p.req # m

SendChat(m, read) ==
  /\ Untyped(m)
  /\ packets' = packets \cup {[req |-> m, read |-> read, under |-> epoch]}
  /\ UNCHANGED <<epoch, vault, posts, upload, acked, replies, download>>

(* process_packet of the server proxy, for a packet that it can decrypt.      *)

\* A request without its body's start raises IndexError: no effect, no answer.
\* One whose body does not parse is answered "ok".
HandleChunk(u, i, read) ==
  /\ read # "head"
  /\ vault' = IF read = "whole" THEN Stored(NameOf[u], i, u) ELSE vault
  /\ replies' = replies \cup {<<u, i>>}
  /\ UNCHANGED posts

HandleChat(m, read) ==
  /\ read # "head" /\ posts[m] < MaxPosts
  /\ posts' = IF read = "whole" THEN [posts EXCEPT ![m] = @ + 1] ELSE posts
  /\ UNCHANGED <<vault, replies>>

HandleAnyKey(p) == \* mutant: a restarted server can still read for its old key
  /\ \/ p.req \in ChunkReq /\ HandleChunk(p.req[1], p.req[2], p.read)
     \/ p.req \in Chat /\ HandleChat(p.req, p.read)
  /\ UNCHANGED <<epoch, upload, acked, packets, download>>
Handle(p) ==
  /\ p.under = epoch
  /\ \/ p.req \in ChunkReq /\ HandleChunk(p.req[1], p.req[2], p.read)
     \/ p.req \in Chat /\ HandleChat(p.req, p.read)
  /\ UNCHANGED <<epoch, upload, acked, packets, download>>

(* The server's HTTP API: handle_post_upload and handle_post_chat.            *)

\* A connection that fails when the chunk is stored already leaves what one leaves
\* that fails before the next chunk, and is not told apart.
UploadDirect(u) ==
  /\ u \in Direct /\ upload[u] = "sending"
  /\ vault' = Stored(NameOf[u], acked[u], u)
  /\ Advance(u)
  /\ UNCHANGED <<epoch, posts, packets, replies, download>>

PostDirect(m) ==
  /\ Untyped(m) /\ MaxPosts > 0
  /\ posts' = [posts EXCEPT ![m] = 1]
  /\ UNCHANGED <<epoch, vault, upload, acked, packets, replies, download>>

(* downloadFile() of the page.  A request changes nothing at the server, so   *)
(* the server's answer and its receipt are one step.  Those that go through   *)
(* the client proxy may have been read only in part, as an upload's.  If the  *)
(* part contains the whole first line, nothing is lost.                       *)

\* zdownload_info: the number of chunks the dictionary holds now, of the file g
\* whose name the server reads
AskInfo(d, f, g) ==
  /\ download[d].state = "idle"
  /\ download' = [download EXCEPT ![d] =
       IF DOMAIN vault[g] = {} THEN [state |-> "failed"]
       ELSE [state |-> "fetching", file |-> f, total |-> Cardinality(DOMAIN vault[g]),
             got |-> <<>>, cut |-> IF g = f THEN {} ELSE {0},
             after |-> {u \in Upload : upload[u] = "done"}]]
  /\ UNCHANGED <<epoch, vault, posts, upload, acked, packets, replies>>

\* chunks.get(chunk_idx, "")
ChunkAtNext(f, i) == IF i + 1 \in DOMAIN vault[f] THEN <<vault[f][i + 1], i + 1>> ELSE Missing \* mutant: off by one
ChunkAt(f, i) == IF i \in DOMAIN vault[f] THEN <<vault[f][i], i>> ELSE Missing

\* The index that is left of i when a request ends within its digits.
Beginning(i) == {i \div (Base ^ k) : k \in 1 .. i} \ {0}

\* A request that ends in its first line is answered with an empty chunk, because
\* split(...)[1] or int() raises, or with the chunk of a shorter index.
CutChunk(f, i) == {Missing} \cup {ChunkAt(f, j) : j \in Beginning(i)}

\* assembled_b64 += chunkData.data
Assemble(d, chunk, cut) ==
  LET r == download[d]
  IN  /\ download' = [download EXCEPT
           ![d].got = Append(r.got, chunk),
           ![d].cut = r.cut \cup cut,
           ![d].state = IF Len(r.got) + 1 = r.total THEN "saved" ELSE "fetching"]
      /\ UNCHANGED <<epoch, vault, posts, upload, acked, packets, replies>>

FetchChunk(d) ==
  LET r == download[d]
  IN  r.state = "fetching" /\ Assemble(d, ChunkAt(r.file, Len(r.got)), {})

FetchCut(d) ==
  LET r == download[d]
  IN  /\ r.state = "fetching"
      /\ \E chunk \in CutChunk(r.file, Len(r.got)) : Assemble(d, chunk, {Len(r.got) + 1})

\* No answer, an answer that is no JSON, or no such file: an alert.
FailDownload(d) ==
  /\ download[d].state \in {"idle", "fetching"}
  /\ download' = [download EXCEPT ![d] = [state |-> "failed"]]
  /\ UNCHANGED <<epoch, vault, posts, upload, acked, packets, replies>>

Next ==
  \/ Restart
  \/ \E u \in Upload : \/ StartUpload(u) \/ GetAnswer(u) \/ GiveUp(u) \/ UploadDirect(u)
                       \/ \E read \in Read : SendChunk(u, read)
  \/ \E m \in Chat : PostDirect(m) \/ \E read \in Read : SendChat(m, read)
  \/ \E p \in packets : Handle(p)
  \/ \E d \in Download : \/ \E f \in FileName : \E g \in {f} \cup ReadAs[f] : AskInfo(d, f, g)
                         \/ FetchChunk(d) \/ FetchCut(d) \/ FailDownload(d)

Spec == Init /\ [][Next]_vars

\* The page's loop and the proxy's timer run, and the browser's connection to the
\* API ends, with an answer or in failure.  Nothing is asked of the tunnel.
FairSpec ==
  /\ Spec
  /\ \A u \in Upload : /\ WF_vars(\E read \in Read : SendChunk(u, read))
                       /\ WF_vars(GetAnswer(u) \/ UploadDirect(u) \/ GiveUp(u))

-----------------------------------------------------------------------------
TypeOK ==
  /\ epoch \in 1 .. MaxEpoch
  /\ DOMAIN vault = FileName
  /\ \A f \in FileName : \A i \in DOMAIN vault[f] :
       i \in Nat /\ <<vault[f][i], i>> \in ChunkReq /\ NameOf[vault[f][i]] = f
  /\ posts \in [Chat -> 0 .. MaxPosts]
  /\ upload \in [Upload -> {"idle", "sending", "waiting", "done", "failed"}]
  /\ acked \in [Upload -> Nat] /\ \A u \in Upload : acked[u] <= ChunksOf[u]
  /\ packets \subseteq [req : ChunkReq \cup Chat, read : Read, under : 1 .. MaxEpoch]
  /\ replies \subseteq ChunkReq
  /\ \A d \in Download :
       \/ download[d].state \in {"idle", "failed"}
       \/ /\ download[d].state \in {"fetching", "saved"}
          /\ download[d].got \in Seq(ChunkReq \cup {Missing})
          /\ Len(download[d].got) <= download[d].total

\* u goes through the tunnel, and nobody else uploads under its name.
Sole(u) ==
  /\ u \notin Direct
  /\ \A v \in Upload \ {u} : NameOf[v] = NameOf[u] => upload[v] = "idle"

\* Nor has the server been restarted since u began.
Alone(u) ==
  /\ Sole(u)
  /\ \A p \in packets : p.req \in ChunkReq /\ p.req[1] = u => p.under = epoch

\* The proxy has read every request of u to its end.
ReadWhole(u) ==
  \A p \in packets : p.req \in ChunkReq /\ p.req[1] = u => p.read = "whole"

\* Whatever is lost, repeated or late, a chunk for which the page has got an
\* answer is in the vault, unless the server has been restarted since the chunk
\* was sent: then it is gone, and those sent after the restart are there.
\* Nothing is in the vault that the page has not sent.
AckedIsStored ==
  \A u \in Upload : Sole(u) /\ ReadWhole(u) =>
    /\ \A i \in 0 .. acked[u] - 1 :
         i \in DOMAIN vault[NameOf[u]]
         <=> \E p \in packets : p.req = <<u, i>> /\ p.under = epoch
    /\ DOMAIN vault[NameOf[u]] \subseteq 0 .. acked[u]

\* A saved file is a beginning of the uploaded one, without gaps, although the
\* server answers a missing chunk with an empty one; it is the whole file if the
\* upload was finished when the download began.  A chunk request of the download
\* that was cut spoils its own place only, and even then, or when the count was
\* that of another file, nothing foreign gets into the file.
SavedIsUploaded ==
  \A d \in Download, u \in Upload :
    LET r == download[d]
    IN  r.state = "saved" /\ r.file = NameOf[u]
        => /\ Sole(u) => \A k \in DOMAIN r.got : r.got[k] = Missing \/ r.got[k][1] = u
           /\ Alone(u) /\ ReadWhole(u) /\ 0 \notin r.cut
              => /\ \A k \in DOMAIN r.got \ r.cut : r.got[k] = <<u, k - 1>>
                 /\ u \in r.after => Len(r.got) = ChunksOf[u]

\* The proxy has read every request of the uploads under the name f to its end.
NameReadWhole(f) ==
  \A p \in packets : p.req \in ChunkReq /\ NameOf[p.req[1]] = f => p.read = "whole"

\* Uploads under one name, on both ways, overwrite each other's chunks, also
\* while a download goes on; while the server runs, a saved file has no gap all
\* the same, except where a request of the download itself was cut: each of its
\* chunks is one of some upload, for this place, and it is no shorter than any
\* upload that was finished when the download began.
SavedHasNoGaps ==
  \A d \in Download :
    LET r == download[d]
    IN  r.state = "saved" /\ epoch = 1 /\ NameReadWhole(r.file) /\ 0 \notin r.cut
        => /\ \A k \in DOMAIN r.got \ r.cut : /\ r.got[k] \in ChunkReq /\ r.got[k][2] = k - 1
                                               /\ NameOf[r.got[k][1]] = r.file
           /\ \A u \in r.after : NameOf[u] = r.file => ChunksOf[u] <= Len(r.got)

\* An upload does not hang, whatever becomes of its packets.
UploadEnds ==
  \A u \in Upload : upload[u] = "sending" ~> upload[u] \in {"done", "failed"}

\* "securely transferred via Z-Protocol!" (index.html): the page says so when the
\* vault holds every chunk.
TransferredIsStored ==
  \A u \in Upload : Alone(u) /\ upload[u] = "done" =>
    0 .. ChunksOf[u] - 1 \subseteq DOMAIN vault[NameOf[u]]

\* The dashboard lists "Replay protection: 30s nonce window": the server acts on
\* a chat message once, however often its packet arrives.
PostedOnce == \A m \in Chat : posts[m] <= 1
=============================================================================
