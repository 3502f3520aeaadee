----------------------------- MODULE VaultProofs -----------------------------
(* Uploads and downloads of the browser demo, for any number of uploads,      *)
(* chunks, downloads, chat messages and restarts.                             *)
(*                                                                            *)
(* The page goes on only after an answer, an answer is sent only after the    *)
(* chunk was stored, and what an upload has stored under a name of its own is *)
(* lost only together with the server, after which the upload's packets are   *)
(* of an earlier incarnation.  So the chunks in the vault are a beginning of  *)
(* the file, and those that a download counts stay where they are.            *)
EXTENDS Vault, FiniteSetTheorems, TLAPS

USE UploadAssumption, BoundAssumption

-----------------------------------------------------------------------------
(* Types *)

LEMMA ChunkFacts ==
  /\ \A r \in ChunkReq : /\ r[1] \in Upload /\ r[2] \in Nat
                         /\ r[2] \in 0 .. ChunksOf[r[1]] - 1 /\ r = <<r[1], r[2]>>
  /\ \A u \in Upload : \A i \in 0 .. ChunksOf[u] - 1 : <<u, i>> \in ChunkReq
  BY DEF ChunkReq

Assembling ==
  [state : {"fetching", "saved"}, file : FileName, total : Nat \ {0},
   got : Seq(ChunkReq \cup {Missing}), cut : SUBSET Nat, after : SUBSET Upload]

Downloads ==
  /\ DOMAIN download = Download
  /\ \A d \in Download :
       \/ download[d].state \in {"idle", "failed"}
       \/ /\ download[d] \in Assembling
          /\ download[d].state = "fetching" => Len(download[d].got) < download[d].total
          /\ download[d].state = "saved" => Len(download[d].got) = download[d].total

\* An upload that goes on has chunks left.
Progress ==
  \A u \in Upload :
    /\ upload[u] = "idle" => acked[u] = 0
    /\ upload[u] \in {"sending", "waiting"} => acked[u] < ChunksOf[u]
    /\ upload[u] = "done" => acked[u] = ChunksOf[u]

TypeInv ==
  /\ TypeOK /\ Downloads /\ Progress
  /\ \A f \in FileName : IsFiniteSet(DOMAIN vault[f])

LEMMA InitTypes == Init => TypeInv
<1> SUFFICES ASSUME Init PROVE TypeInv
  OBVIOUS
<1>1. /\ vault = [f \in FileName |-> [i \in {} |-> Missing]]
      /\ \A f \in FileName : DOMAIN vault[f] = {}
  BY DEF Init, Empty
<1>2. posts \in [Chat -> 0 .. MaxPosts] /\ epoch \in 1 .. MaxEpoch
  BY DEF Init
<1>3. /\ upload \in [Upload -> {"idle", "sending", "waiting", "done", "failed"}]
      /\ acked \in [Upload -> Nat]
      /\ \A u \in Upload : acked[u] <= ChunksOf[u] /\ acked[u] = 0
      /\ \A u \in Upload : upload[u] = "idle"
  BY DEF Init
<1>4. packets = {} /\ replies = {}
  BY DEF Init
<1>5. DOMAIN download = Download /\ \A d \in Download : download[d].state = "idle"
  BY DEF Init
<1> QED  BY <1>1, <1>2, <1>3, <1>4, <1>5, FS_EmptySet
         DEF TypeInv, TypeOK, Downloads, Progress

\* What is typed of the vault
VaultTypes ==
  /\ DOMAIN vault = FileName
  /\ \A f \in FileName : \A i \in DOMAIN vault[f] :
       i \in Nat /\ <<vault[f][i], i>> \in ChunkReq /\ NameOf[vault[f][i]] = f
  /\ \A f \in FileName : IsFiniteSet(DOMAIN vault[f])

\* The vault after chunk i of u was stored
LEMMA StoredFacts ==
  ASSUME DOMAIN vault = FileName, NEW u \in Upload, NEW i
  PROVE  LET f == NameOf[u]
             v == Stored(f, i, u)
         IN  /\ f \in FileName
             /\ DOMAIN v = FileName
             /\ DOMAIN v[f] = DOMAIN vault[f] \cup {i}
             /\ v[f][i] = u
             /\ \A j \in DOMAIN vault[f] : j # i => v[f][j] = vault[f][j]
             /\ \A g \in FileName : g # f => v[g] = vault[g]
  BY DEF Stored, FileName

LEMMA StoredTypes ==
  ASSUME VaultTypes, NEW u \in Upload, NEW i \in 0 .. ChunksOf[u] - 1,
         vault' = Stored(NameOf[u], i, u)
  PROVE  VaultTypes'
<1> DEFINE f == NameOf[u]
<1>1. /\ f \in FileName
      /\ DOMAIN vault' = FileName
      /\ DOMAIN vault'[f] = DOMAIN vault[f] \cup {i}
      /\ vault'[f][i] = u
      /\ \A j \in DOMAIN vault[f] : j # i => vault'[f][j] = vault[f][j]
      /\ \A g \in FileName : g # f => vault'[g] = vault[g]
  BY StoredFacts DEF VaultTypes
<1>2. i \in Nat /\ <<u, i>> \in ChunkReq
  BY ChunkFacts
<1>3. \A g \in FileName : IsFiniteSet(DOMAIN vault'[g])
  BY <1>1, FS_AddElement DEF VaultTypes
<1>4. ASSUME NEW g \in FileName, NEW j \in DOMAIN vault'[g]
      PROVE  j \in Nat /\ <<vault'[g][j], j>> \in ChunkReq /\ NameOf[vault'[g][j]] = g
  <2>1. CASE g = f /\ j = i
    BY <1>1, <1>2, <2>1
  <2>2. CASE ~ (g = f /\ j = i)
    <3>1. j \in DOMAIN vault[g] /\ vault'[g][j] = vault[g][j]
      BY <1>1, <1>4, <2>2
    <3> QED  BY <3>1 DEF VaultTypes
  <2> QED  BY <2>1, <2>2
<1> QED  BY <1>1, <1>3, <1>4 DEF VaultTypes

\* What is typed of the uploads
UploadTypes ==
  /\ upload \in [Upload -> {"idle", "sending", "waiting", "done", "failed"}]
  /\ acked \in [Upload -> Nat] /\ \A u \in Upload : acked[u] <= ChunksOf[u]
  /\ Progress

LEMMA AdvanceTypes ==
  ASSUME UploadTypes, NEW u \in Upload, upload[u] \in {"sending", "waiting"}, Advance(u)
  PROVE  UploadTypes'
<1>1. /\ acked[u] \in Nat /\ ChunksOf[u] \in Nat /\ acked[u] < ChunksOf[u]
      /\ acked' = [acked EXCEPT ![u] = @ + 1]
      /\ upload' = [upload EXCEPT ![u] = IF acked[u] + 1 = ChunksOf[u] THEN "done" ELSE "sending"]
  BY DEF Advance, LoopAt, UploadTypes, Progress
<1>2. /\ acked' \in [Upload -> Nat]
      /\ upload' \in [Upload -> {"idle", "sending", "waiting", "done", "failed"}]
  BY <1>1 DEF UploadTypes
<1>3. /\ acked'[u] = acked[u] + 1
      /\ upload'[u] = IF acked[u] + 1 = ChunksOf[u] THEN "done" ELSE "sending"
      /\ \A v \in Upload : v # u => acked'[v] = acked[v] /\ upload'[v] = upload[v]
  BY <1>1 DEF UploadTypes
<1>4. \A v \in Upload : acked'[v] <= ChunksOf[v]
  BY <1>1, <1>3 DEF UploadTypes
<1>5. Progress'
  BY <1>1, <1>3 DEF UploadTypes, Progress
<1> QED  BY <1>2, <1>4, <1>5 DEF UploadTypes

\* The same by variables, as the steps disturb them
TypeParts ==
  /\ epoch \in 1 .. MaxEpoch
  /\ VaultTypes /\ UploadTypes /\ Downloads
  /\ posts \in [Chat -> 0 .. MaxPosts]
  /\ packets \subseteq [req : ChunkReq \cup Chat, read : Read, under : 1 .. MaxEpoch]
  /\ replies \subseteq ChunkReq

LEMMA TypesAre == TypeInv <=> TypeParts
<1>1. Downloads => \A d \in Download :
        \/ download[d].state \in {"idle", "failed"}
        \/ /\ download[d].state \in {"fetching", "saved"}
           /\ download[d].got \in Seq(ChunkReq \cup {Missing})
           /\ Len(download[d].got) <= download[d].total
  <2> SUFFICES ASSUME Downloads, NEW d \in Download, download[d] \in Assembling,
                      download[d].state = "fetching" => Len(download[d].got) < download[d].total,
                      download[d].state = "saved" => Len(download[d].got) = download[d].total
               PROVE  /\ download[d].state \in {"fetching", "saved"}
                      /\ download[d].got \in Seq(ChunkReq \cup {Missing})
                      /\ Len(download[d].got) <= download[d].total
    BY DEF Downloads
  <2>1. /\ download[d].state \in {"fetching", "saved"}
        /\ download[d].got \in Seq(ChunkReq \cup {Missing})
        /\ Len(download[d].got) \in Nat /\ download[d].total \in Nat
    BY DEF Assembling
  <2> QED  BY <2>1
<1> QED  BY <1>1 DEF TypeInv, TypeOK, TypeParts, VaultTypes, UploadTypes

DownloadStep(d) ==
  \/ \E f \in FileName : \E g \in {f} \cup ReadAs[f] : AskInfo(d, f, g)
  \/ FetchChunk(d)
  \/ FetchCut(d)
  \/ FailDownload(d)

\* What the page gets for a chunk request: the chunk it asked for if the request
\* arrives whole, and in any case nothing or a chunk of the file.
Gets(d, chunk, cut) ==
  LET r == download[d]
      D == DOMAIN vault[r.file]
  IN  /\ r.state = "fetching" /\ Assemble(d, chunk, cut)
      /\ \/ cut = {} /\ chunk = ChunkAt(r.file, Len(r.got))
         \/ cut = {Len(r.got) + 1}
      /\ chunk = Missing \/ \E j \in D : chunk = <<vault[r.file][j], j>>

LEMMA FetchesOne ==
  ASSUME NEW d \in Download, FetchChunk(d) \/ FetchCut(d)
  PROVE  \E chunk, cut : Gets(d, chunk, cut)
<1> DEFINE f == download[d].file
           n == Len(download[d].got)
<1>0. \A j : ChunkAt(f, j) = Missing \/ \E i \in DOMAIN vault[f] : ChunkAt(f, j) = <<vault[f][i], i>>
  BY DEF ChunkAt
<1>1. CASE FetchChunk(d)
  <2>1. Gets(d, ChunkAt(f, n), {})
    BY <1>0, <1>1 DEF FetchChunk, Gets
  <2> QED  BY <2>1
<1>2. CASE FetchCut(d)
  <2>1. PICK chunk \in CutChunk(f, n) : Assemble(d, chunk, {n + 1})
    BY <1>2 DEF FetchCut
  <2>2. chunk = Missing \/ \E j : chunk = ChunkAt(f, j)
    BY DEF CutChunk
  <2>3. Gets(d, chunk, {n + 1})
    BY <1>0, <1>2, <2>1, <2>2 DEF FetchCut, Gets
  <2> QED  BY <2>3
<1> QED  BY <1>1, <1>2

\* What is assembled, place by place
LEMMA Assembled ==
  ASSUME NEW S, NEW old \in Seq(S), NEW chunk \in S, NEW k \in DOMAIN Append(old, chunk)
  PROVE  \/ k = Len(old) + 1 /\ Append(old, chunk)[k] = chunk
         \/ k \in DOMAIN old /\ Append(old, chunk)[k] = old[k]
  OBVIOUS

LEMMA AssembleFacts ==
  ASSUME VaultTypes, Downloads, NEW d \in Download, NEW chunk, NEW cut, Gets(d, chunk, cut)
  PROVE  /\ download[d] \in Assembling /\ download[d].state = "fetching"
         /\ Len(download[d].got) < download[d].total /\ Len(download[d].got) \in Nat
         /\ download[d].got \in Seq(ChunkReq \cup {Missing})
         /\ chunk \in ChunkReq \cup {Missing}
         /\ \A e \in Download : e # d => download'[e] = download[e]
         /\ DOMAIN download' = Download
         /\ DOMAIN download'[d] = DOMAIN download[d]
         /\ download'[d].file = download[d].file /\ download'[d].total = download[d].total
         /\ download'[d].after = download[d].after
         /\ download'[d].got = Append(download[d].got, chunk)
         /\ download'[d].cut = download[d].cut \cup cut
         /\ download'[d].state = IF Len(download[d].got) + 1 = download[d].total
                                 THEN "saved" ELSE "fetching"
<1> DEFINE r == download[d]
           new == [r EXCEPT !.got = Append(r.got, chunk), !.cut = r.cut \cup cut,
                            !.state = IF Len(r.got) + 1 = r.total THEN "saved" ELSE "fetching"]
<1>1. r.state = "fetching" /\ r \in Assembling /\ Len(r.got) < r.total
  BY DEF Gets, Downloads, Assembling
<1>2. /\ r.got \in Seq(ChunkReq \cup {Missing}) /\ Len(r.got) \in Nat /\ r.file \in FileName
      /\ DOMAIN r = {"state", "file", "total", "got", "cut", "after"}
  BY <1>1 DEF Assembling
<1>3. /\ chunk = Missing \/ \E j \in DOMAIN vault[r.file] : chunk = <<vault[r.file][j], j>>
      /\ Assemble(d, chunk, cut)
  BY DEF Gets
<1>4. chunk \in ChunkReq \cup {Missing}
  BY <1>2, <1>3 DEF VaultTypes
<1>5. download' = [download EXCEPT ![d] = new] /\ DOMAIN download = Download
  BY <1>3 DEF Assemble, Downloads
<1>6. /\ download'[d] = new /\ DOMAIN download' = Download
      /\ \A e \in Download : e # d => download'[e] = download[e]
  <2> HIDE DEF new
  <2> QED  BY <1>5
<1>7. /\ DOMAIN new = DOMAIN r
      /\ new.file = r.file /\ new.total = r.total /\ new.after = r.after
      /\ new.got = Append(r.got, chunk) /\ new.cut = r.cut \cup cut
      /\ new.state = IF Len(r.got) + 1 = r.total THEN "saved" ELSE "fetching"
  BY <1>2
<1> HIDE DEF new
<1> QED  BY <1>1, <1>2, <1>4, <1>6, <1>7

\* A step of one download leaves the others and all else alone.
LEMMA DownloadFrame ==
  ASSUME DOMAIN download = Download, NEW e \in Download, DownloadStep(e)
  PROVE  /\ UNCHANGED <<epoch, vault, posts, upload, acked, packets, replies>>
         /\ \A d \in Download : e # d => download'[d] = download[d]
  BY DEF DownloadStep, AskInfo, FetchChunk, FetchCut, Assemble, FailDownload

LEMMA DownloadStepTypes ==
  ASSUME VaultTypes, Downloads, UNCHANGED vault, NEW d \in Download, DownloadStep(d)
  PROVE  Downloads'
<1> USE DEF Downloads
<1>1. ASSUME NEW f \in FileName, NEW g \in {f} \cup ReadAs[f], AskInfo(d, f, g) PROVE Downloads'
  <2> DEFINE n == Cardinality(DOMAIN vault[g])
             new == [state |-> "fetching", file |-> f, total |-> n, got |-> <<>>,
                     cut |-> IF g = f THEN {} ELSE {0},
                     after |-> {u \in Upload : upload[u] = "done"}]
  <2>1. download' = [download EXCEPT ![d] = IF DOMAIN vault[g] = {}
                                            THEN [state |-> "failed"] ELSE new]
    BY <1>1 DEF AskInfo
  <2>2. CASE DOMAIN vault[g] = {}
    <3>1. download' = [download EXCEPT ![d] = [state |-> "failed"]]
      BY <2>1, <2>2
    <3>2. /\ DOMAIN download' = Download /\ download'[d].state = "failed"
          /\ \A e \in Download : e # d => download'[e] = download[e]
      BY <3>1
    <3> QED  BY <3>2
  <2>3. CASE DOMAIN vault[g] # {}
    <3>0. g \in FileName
      BY <1>1, CutAssumption
    <3>1. n \in Nat \ {0}
      BY <2>3, <3>0, FS_CardinalityType, FS_EmptySet DEF VaultTypes
    <3>2. new \in Assembling /\ Len(new.got) < new.total /\ new.state = "fetching"
      BY <3>1 DEF Assembling
    <3> HIDE DEF new
    <3> QED  BY <2>1, <2>3, <3>2
  <2> QED  BY <2>2, <2>3
<1>2. ASSUME FetchChunk(d) \/ FetchCut(d) PROVE Downloads'
  <2>0. PICK chunk, cut : Gets(d, chunk, cut)
    BY <1>2, FetchesOne
  <2> DEFINE r == download[d]
             new == download'[d]
  <2>1. /\ r.state = "fetching" /\ r \in Assembling /\ Len(r.got) < r.total
        /\ Len(r.got) \in Nat /\ r.got \in Seq(ChunkReq \cup {Missing})
        /\ chunk \in ChunkReq \cup {Missing}
        /\ DOMAIN download' = Download
        /\ \A e \in Download : e # d => download'[e] = download[e]
    BY <2>0, AssembleFacts
  <2>2. /\ new.file = r.file /\ new.total = r.total /\ new.after = r.after
        /\ new.got = Append(r.got, chunk) /\ new.cut = r.cut \cup cut
        /\ new.state = IF Len(r.got) + 1 = r.total THEN "saved" ELSE "fetching"
        /\ DOMAIN new = DOMAIN r
    BY <2>0, AssembleFacts
  <2>3. Append(r.got, chunk) \in Seq(ChunkReq \cup {Missing}) /\ Len(Append(r.got, chunk)) = Len(r.got) + 1
    BY <2>1
  <2>4. cut \subseteq Nat
    BY <2>0, <2>1 DEF Gets
  <2>5. new \in Assembling
    <3>1. new = [state |-> new.state, file |-> new.file, total |-> new.total,
                 got |-> new.got, cut |-> new.cut, after |-> new.after]
      <4>1. DOMAIN new = {"state", "file", "total", "got", "cut", "after"}
        BY <2>1, <2>2 DEF Assembling
      <4>2. new = [x \in DOMAIN new |-> new[x]]
        BY <2>0, <2>1 DEF Gets, Assemble, Assembling, Downloads
      <4> HIDE DEF new
      <4> QED  BY <4>1, <4>2
    <3>2. /\ new.state \in {"fetching", "saved"} /\ new.file \in FileName
          /\ new.total \in Nat \ {0} /\ new.got \in Seq(ChunkReq \cup {Missing})
          /\ new.cut \subseteq Nat /\ new.after \subseteq Upload
      <4>1. /\ r.file \in FileName /\ r.total \in Nat \ {0} /\ r.cut \subseteq Nat
            /\ r.after \subseteq Upload
        BY <2>1 DEF Assembling
      <4> HIDE DEF new
      <4> QED  BY <2>2, <2>3, <2>4, <4>1
    <3> HIDE DEF new
    <3> QED  BY <3>1, <3>2 DEF Assembling
  <2>6. /\ new.state = "fetching" => Len(new.got) < new.total
        /\ new.state = "saved" => Len(new.got) = new.total
    <3>1. r.total \in Nat
      BY <2>1 DEF Assembling
    <3> HIDE DEF new
    <3> QED  BY <2>1, <2>2, <2>3, <3>1
  <2> QED  BY <2>1, <2>5, <2>6
<1>3. ASSUME FailDownload(d) PROVE Downloads'
  BY <1>3 DEF FailDownload
<1> QED  BY <1>1, <1>2, <1>3 DEF DownloadStep

LEMMA StepTypes == TypeInv /\ [Next]_vars => TypeInv'
<1> SUFFICES ASSUME TypeInv, [Next]_vars PROVE TypeInv'
  OBVIOUS
<1>0. /\ epoch \in 1 .. MaxEpoch
      /\ VaultTypes /\ UploadTypes /\ Downloads
      /\ posts \in [Chat -> 0 .. MaxPosts]
      /\ packets \subseteq [req : ChunkReq \cup Chat, read : Read, under : 1 .. MaxEpoch]
      /\ replies \subseteq ChunkReq
  BY TypesAre DEF TypeParts
<1> SUFFICES TypeParts'
  BY TypesAre, PTL
<1> USE DEF TypeParts
<1>u. UNCHANGED <<upload, acked>> => UploadTypes'
  BY <1>0 DEF UploadTypes, Progress
<1>v. UNCHANGED vault => VaultTypes'
  BY <1>0 DEF VaultTypes
<1>d. UNCHANGED download => Downloads'
  BY <1>0 DEF Downloads
<1>1. CASE Restart
  <2>1. VaultTypes'
    BY <1>1, FS_EmptySet DEF Restart, VaultTypes, Empty
  <2>2. posts' \in [Chat -> 0 .. MaxPosts] /\ epoch' \in 1 .. MaxEpoch
    BY <1>0, <1>1 DEF Restart
  <2> QED  BY <1>0, <1>1, <1>u, <1>d, <2>1, <2>2 DEF Restart
<1>2. ASSUME NEW u \in Upload, StartUpload(u) \/ GiveUp(u)
      PROVE  UploadTypes' /\ UNCHANGED <<epoch, vault, posts, packets, replies, download>>
  BY <1>0, <1>2 DEF StartUpload, LoopAt, GiveUp, UploadTypes, Progress
<1>3. ASSUME NEW u \in Upload, NEW read \in Read, SendChunk(u, read)
      PROVE  /\ UploadTypes'
             /\ packets' \subseteq [req : ChunkReq \cup Chat, read : Read, under : 1 .. MaxEpoch]
             /\ UNCHANGED <<epoch, vault, posts, replies, download>>
  <2>1. acked[u] \in 0 .. ChunksOf[u] - 1
    BY <1>0, <1>3 DEF SendChunk, UploadTypes, Progress
  <2>2. <<u, acked[u]>> \in ChunkReq
    BY <2>1, ChunkFacts
  <2>3. UploadTypes'
    BY <1>0, <1>3 DEF SendChunk, UploadTypes, Progress
  <2> QED  BY <1>0, <1>3, <2>2, <2>3 DEF SendChunk
<1>4. ASSUME NEW u \in Upload, GetAnswer(u)
      PROVE  UploadTypes' /\ UNCHANGED <<epoch, vault, posts, packets, replies, download>>
  BY <1>0, <1>4, AdvanceTypes DEF GetAnswer
<1>5. ASSUME NEW u \in Upload, UploadDirect(u)
      PROVE  /\ UploadTypes' /\ VaultTypes'
             /\ UNCHANGED <<epoch, posts, packets, replies, download>>
  <2>1. acked[u] \in 0 .. ChunksOf[u] - 1
    BY <1>0, <1>5 DEF UploadDirect, UploadTypes, Progress
  <2> QED  BY <1>0, <1>5, <2>1, AdvanceTypes, StoredTypes DEF UploadDirect
<1>6. ASSUME NEW m \in Chat, NEW read \in Read, SendChat(m, read)
      PROVE  /\ packets' \subseteq [req : ChunkReq \cup Chat, read : Read, under : 1 .. MaxEpoch]
             /\ UNCHANGED <<epoch, vault, posts, upload, acked, replies, download>>
  BY <1>0, <1>6 DEF SendChat
<1>7. ASSUME NEW p \in packets, Handle(p)
      PROVE  /\ VaultTypes' /\ posts' \in [Chat -> 0 .. MaxPosts] /\ replies' \subseteq ChunkReq
             /\ UNCHANGED <<epoch, upload, acked, packets, download>>
  <2>1. CASE p.req \in ChunkReq /\ HandleChunk(p.req[1], p.req[2], p.read)
    <3>1. p.req[1] \in Upload /\ p.req[2] \in 0 .. ChunksOf[p.req[1]] - 1
          /\ <<p.req[1], p.req[2]>> \in ChunkReq
      BY <2>1, ChunkFacts
    <3> QED  BY <1>0, <1>7, <1>v, <2>1, <3>1, StoredTypes DEF Handle, HandleChunk
  <2>2. CASE p.req \in Chat /\ HandleChat(p.req, p.read)
    BY <1>0, <1>7, <1>v, <2>2 DEF Handle, HandleChat
  <2> QED  BY <1>7, <2>1, <2>2 DEF Handle
<1>8. ASSUME NEW d \in Download, DownloadStep(d)
      PROVE  Downloads' /\ UNCHANGED <<epoch, vault, posts, upload, acked, packets, replies>>
  <2>1. UNCHANGED <<epoch, vault, posts, upload, acked, packets, replies>>
    BY <1>8 DEF DownloadStep, AskInfo, FetchChunk, FetchCut, Assemble, FailDownload
  <2> QED  BY <1>0, <1>8, <2>1, DownloadStepTypes
<1>9. ASSUME NEW m \in Chat, PostDirect(m)
      PROVE  /\ posts' \in [Chat -> 0 .. MaxPosts]
             /\ UNCHANGED <<epoch, vault, upload, acked, packets, replies, download>>
  BY <1>0, <1>9 DEF PostDirect
<1>10. CASE UNCHANGED vars
  BY <1>0, <1>10, <1>u, <1>v, <1>d DEF vars
<1> QED  BY <1>0, <1>1, <1>2, <1>3, <1>4, <1>5, <1>6, <1>7, <1>8, <1>9, <1>10, <1>u, <1>v, <1>d
         DEF Next, DownloadStep

-----------------------------------------------------------------------------
(* What a step can do, by what it is about *)

\* Packets stay; at most one is new, and asks for the chunk after the last
\* acknowledged one, of an upload that from now on waits for the answer.
PacketsMove ==
  /\ packets \subseteq packets'
  /\ \A p, q \in packets' \ packets : p = q
  /\ \A p \in packets' \ packets :
       /\ p.under = epoch
       /\ p.req \in ChunkReq => /\ p.req[1] \in Upload \ Direct
                                /\ p.req[2] = acked[p.req[1]]
                                /\ upload[p.req[1]] = "sending"
                                /\ upload'[p.req[1]] = "waiting"

\* Answers stay; a new one is for a request that has arrived, and stored if whole.
RepliesMove ==
  /\ replies \subseteq replies'
  /\ \A r \in replies' \ replies : \E p \in packets :
       /\ p.req = r
       /\ p.read = "whole" => vault' = Stored(NameOf[r[1]], r[2], r[1])

\* Uploads do not begin again.  They go on after an answer, or, at the API, when
\* the chunk is stored.
UploadsMove ==
  \A u \in Upload :
    /\ upload[u] # "idle" => upload'[u] # "idle"
    /\ acked'[u] = acked[u] /\ upload[u] \in {"waiting", "failed"}
       => upload'[u] \in {"waiting", "failed"}
    /\ acked'[u] # acked[u] =>
         /\ acked'[u] = acked[u] + 1
         /\ \/ <<u, acked[u]>> \in replies
            \/ u \in Direct /\ vault' = Stored(NameOf[u], acked[u], u)

\* A chunk comes from an upload that has begun; a restart takes them all.
VaultMoves ==
  \/ UNCHANGED <<vault, epoch>>
  \/ epoch' = epoch + 1 /\ vault' = Empty /\ UNCHANGED packets
  \/ /\ UNCHANGED <<epoch, packets>>
     /\ \E u \in Upload : \E i \in 0 .. ChunksOf[u] - 1 :
          /\ vault' = Stored(NameOf[u], i, u)
          /\ \/ u \in Direct /\ upload[u] # "idle" /\ i = acked[u]
             \/ \E p \in packets : p.req = <<u, i>> /\ p.under = epoch

DownloadsMove ==
  \/ UNCHANGED download
  \/ /\ UNCHANGED <<epoch, vault, upload, acked, packets, replies>>
     /\ \E d \in Download : DownloadStep(d)

Moves == PacketsMove /\ RepliesMove /\ UploadsMove /\ VaultMoves /\ DownloadsMove

LEMMA AdvanceMoves ==
  ASSUME TypeInv, NEW u \in Upload, upload[u] # "idle", Advance(u),
         \/ <<u, acked[u]>> \in replies
         \/ u \in Direct /\ vault' = Stored(NameOf[u], acked[u], u)
  PROVE  UploadsMove
<1>1. /\ acked' = [acked EXCEPT ![u] = @ + 1]
      /\ upload' = [upload EXCEPT ![u] = IF acked[u] + 1 = ChunksOf[u] THEN "done" ELSE "sending"]
      /\ DOMAIN acked = Upload /\ DOMAIN upload = Upload
  BY DEF Advance, LoopAt, TypeInv, TypeOK
<1>2. /\ acked'[u] = acked[u] + 1 /\ upload'[u] # "idle"
      /\ \A v \in Upload : v # u => acked'[v] = acked[v] /\ upload'[v] = upload[v]
  BY <1>1
<1>3. acked[u] \in Nat
  BY DEF TypeInv, TypeOK
<1> QED  BY <1>2, <1>3 DEF UploadsMove

LEMMA StepMoves == TypeInv /\ [Next]_vars => Moves
<1> SUFFICES ASSUME TypeInv, [Next]_vars PROVE Moves
  OBVIOUS
<1>u. UNCHANGED <<upload, acked>> => UploadsMove
  BY DEF UploadsMove
<1>p. UNCHANGED packets => PacketsMove
  BY DEF PacketsMove
<1>r. UNCHANGED replies => RepliesMove
  BY DEF RepliesMove
<1>v. UNCHANGED <<vault, epoch>> => VaultMoves
  BY DEF VaultMoves
<1>d. UNCHANGED download => DownloadsMove
  BY DEF DownloadsMove
<1>1. CASE Restart
  BY <1>1, <1>u, <1>p, <1>r, <1>d DEF Restart, VaultMoves, Moves
<1>2. ASSUME NEW u \in Upload, StartUpload(u) \/ GiveUp(u) PROVE Moves
  <2>1. UploadsMove
    BY <1>2 DEF StartUpload, LoopAt, GiveUp, UploadsMove, TypeInv, TypeOK
  <2> QED  BY <1>2, <2>1, <1>p, <1>r, <1>v, <1>d DEF StartUpload, GiveUp, Moves
<1>3. ASSUME NEW u \in Upload, NEW read \in Read, SendChunk(u, read) PROVE Moves
  <2>1. upload'[u] = "waiting"
    BY <1>3 DEF SendChunk, TypeInv, TypeOK
  <2>2. PacketsMove
    BY <1>3, <2>1 DEF SendChunk, PacketsMove
  <2>3. UploadsMove
    BY <1>3 DEF SendChunk, UploadsMove, TypeInv, TypeOK
  <2> QED  BY <1>3, <2>2, <2>3, <1>r, <1>v, <1>d DEF SendChunk, Moves
<1>4. ASSUME NEW u \in Upload, GetAnswer(u) PROVE Moves
  <2>1. UploadsMove
    BY <1>4, AdvanceMoves DEF GetAnswer
  <2> QED  BY <1>4, <2>1, <1>p, <1>r, <1>v, <1>d DEF GetAnswer, Moves
<1>5. ASSUME NEW u \in Upload, UploadDirect(u) PROVE Moves
  <2>1. UploadsMove
    BY <1>5, AdvanceMoves DEF UploadDirect
  <2>2. acked[u] \in 0 .. ChunksOf[u] - 1
    BY <1>5 DEF UploadDirect, TypeInv, TypeOK, Progress
  <2>3. VaultMoves
    BY <1>5, <2>2 DEF UploadDirect, VaultMoves
  <2> QED  BY <1>5, <2>1, <2>3, <1>p, <1>r, <1>d DEF UploadDirect, Moves
<1>6. ASSUME NEW m \in Chat, NEW read \in Read, SendChat(m, read) PROVE Moves
  <2>1. m \notin ChunkReq
    BY ChatAssumption
  <2>2. PacketsMove
    BY <1>6, <2>1 DEF SendChat, PacketsMove
  <2> QED  BY <1>6, <2>2, <1>u, <1>r, <1>v, <1>d DEF SendChat, Moves
<1>7. ASSUME NEW p \in packets, Handle(p) PROVE Moves
  <2>1. CASE p.req \in ChunkReq /\ HandleChunk(p.req[1], p.req[2], p.read)
    <3>1. /\ p.req[1] \in Upload /\ p.req[2] \in 0 .. ChunksOf[p.req[1]] - 1
          /\ p.req = <<p.req[1], p.req[2]>>
      BY <2>1, ChunkFacts
    <3>2. RepliesMove
      BY <2>1, <3>1 DEF HandleChunk, RepliesMove
    <3>3. VaultMoves
      <4>1. CASE p.read = "whole"
        BY <1>7, <2>1, <3>1, <4>1 DEF Handle, HandleChunk, VaultMoves
      <4>2. CASE p.read # "whole"
        BY <1>7, <2>1, <4>2, <1>v DEF Handle, HandleChunk
      <4> QED  BY <4>1, <4>2
    <3> QED  BY <1>7, <3>2, <3>3, <1>u, <1>p, <1>d DEF Handle, Moves
  <2>2. CASE p.req \in Chat /\ HandleChat(p.req, p.read)
    BY <1>7, <2>2, <1>u, <1>p, <1>r, <1>v, <1>d DEF Handle, HandleChat, Moves
  <2> QED  BY <1>7, <2>1, <2>2 DEF Handle
<1>8. ASSUME NEW d \in Download, DownloadStep(d)
      PROVE  Moves
  <2>1. UNCHANGED <<epoch, vault, posts, upload, acked, packets, replies>>
    BY <1>8 DEF DownloadStep, AskInfo, FetchChunk, FetchCut, Assemble, FailDownload
  <2>2. DownloadsMove
    BY <1>8, <2>1 DEF DownloadsMove
  <2> QED  BY <2>1, <2>2, <1>u, <1>p, <1>r, <1>v DEF Moves
<1>9. ASSUME NEW m \in Chat, PostDirect(m) PROVE Moves
  BY <1>9, <1>u, <1>p, <1>r, <1>v, <1>d DEF PostDirect, Moves
<1>10. CASE UNCHANGED vars
  BY <1>10, <1>u, <1>p, <1>r, <1>v, <1>d DEF vars, Moves
<1> QED  BY <1>1, <1>2, <1>3, <1>4, <1>5, <1>6, <1>7, <1>8, <1>9, <1>10 DEF Next, DownloadStep

-----------------------------------------------------------------------------
(* Requests, answers and acknowledged chunks *)

\* A packet asks for a chunk that the page has reached, and is the only one to.
Requested ==
  \A p \in packets :
    /\ p.under <= epoch
    /\ p.req \in ChunkReq => /\ p.req[1] \notin Direct /\ upload[p.req[1]] # "idle"
                             /\ p.req[2] <= acked[p.req[1]]
                             /\ p.req[2] = acked[p.req[1]] =>
                                  upload[p.req[1]] \in {"waiting", "failed"}
OnePerChunk ==
  \A p, q \in packets : p.req \in ChunkReq /\ p.req = q.req => p = q

\* Only what arrived is answered, and only what is answered is acknowledged.
Answered == \A r \in replies : \E p \in packets : p.req = r
Counted  == \A u \in Upload \ Direct : \A i \in 0 .. acked[u] - 1 : <<u, i>> \in replies

\* What is stored under the name of the only upload is its own and was requested
\* from the running server.
Own ==
  \A u \in Upload : Sole(u) =>
    \A i \in DOMAIN vault[NameOf[u]] :
      vault[NameOf[u]][i] = u /\ \E p \in packets : p.req = <<u, i>> /\ p.under = epoch

\* What the running server has answered to it, it keeps.
Kept ==
  \A u \in Upload : Sole(u) /\ ReadWhole(u) =>
    \A p \in packets :
      p.req \in ChunkReq /\ p.req[1] = u /\ p.under = epoch /\ p.req \in replies
      => p.req[2] \in DOMAIN vault[NameOf[u]]

\* The chunks that a download has counted are there, and it assembles them.
FetchedFor(d, u) ==
  LET r == download[d]
  IN  /\ 0 .. r.total - 1 \subseteq DOMAIN vault[r.file]
      /\ \A k \in DOMAIN r.got \ r.cut : r.got[k] = <<u, k - 1>>
      /\ u \in r.after => r.total = ChunksOf[u]
Fetched ==
  \A d \in Download, u \in Upload :
    LET r == download[d]
    IN  /\ r.state \in {"fetching", "saved"} /\ r.file = NameOf[u]
        /\ Alone(u) /\ ReadWhole(u) /\ 0 \notin r.cut
        => FetchedFor(d, u)

\* Nothing else can be got under the name of the only upload.
Unmixed ==
  \A d \in Download, u \in Upload :
    LET r == download[d]
    IN  r.state \in {"fetching", "saved"} /\ r.file = NameOf[u] /\ Sole(u)
        => \A k \in DOMAIN r.got : r.got[k] = Missing \/ r.got[k][1] = u

SoleInv == /\ TypeInv /\ Requested /\ OnePerChunk /\ Answered /\ Counted
           /\ Own /\ Kept

\* Under one name and one server the chunks are numbered from 0 without gaps, as
\* far at least as any upload of that name has come.
Undisturbed(f) == epoch = 1 /\ NameReadWhole(f)
Gapless ==
  \A f \in FileName : Undisturbed(f) =>
    /\ \E n \in Nat : DOMAIN vault[f] = 0 .. n - 1
    /\ \A u \in Upload : NameOf[u] = f =>
         /\ \A i \in Nat : <<u, i>> \in replies => i \in DOMAIN vault[f]
         /\ 0 .. acked[u] - 1 \subseteq DOMAIN vault[f]

\* A download finds what it has counted, whoever overwrites it meanwhile.
FilledFor(d) ==
  LET r == download[d]
  IN  /\ 0 .. r.total - 1 \subseteq DOMAIN vault[r.file]
      /\ \A k \in DOMAIN r.got \ r.cut : /\ r.got[k] \in ChunkReq /\ r.got[k][2] = k - 1
                                        /\ NameOf[r.got[k][1]] = r.file
      /\ \A u \in r.after : NameOf[u] = r.file => ChunksOf[u] <= r.total
Filled ==
  \A d \in Download :
    LET r == download[d]
    IN  r.state \in {"fetching", "saved"} /\ Undisturbed(r.file) /\ 0 \notin r.cut => FilledFor(d)

IInv == SoleInv /\ Fetched /\ Unmixed /\ Gapless /\ Filled

LEMMA InitIInv == Init => IInv
<1> SUFFICES ASSUME Init PROVE IInv
  OBVIOUS
<1>1. TypeInv
  BY InitTypes
<1>2. packets = {} /\ replies = {} /\ \A u \in Upload : acked[u] = 0
  BY DEF Init
<1>3. \A u \in Upload : NameOf[u] \in FileName /\ DOMAIN vault[NameOf[u]] = {}
  BY DEF Init, Empty, FileName
<1>4. \A d \in Download : download[d].state = "idle"
  BY DEF Init
<1>5. SoleInv
  BY <1>1, <1>2, <1>3 DEF SoleInv, Requested, OnePerChunk, Answered, Counted, Own, Kept
<1>6. Fetched /\ Unmixed /\ Filled
  BY <1>4 DEF Fetched, Unmixed, Filled
<1>7. Gapless
  <2>1. \A f \in FileName : DOMAIN vault[f] = {}
    BY DEF Init, Empty
  <2>2. {} = 0 .. 0 - 1 /\ \A u \in Upload : 0 .. acked[u] - 1 = {}
    BY <1>2
  <2> QED  BY <1>2, <2>1, <2>2 DEF Gapless
<1> QED  BY <1>5, <1>6, <1>7 DEF IInv

LEMMA RequestsKept ==
  ASSUME SoleInv, TypeInv', Moves
  PROVE  Requested' /\ OnePerChunk' /\ Answered' /\ Counted'
<1>1. /\ \A u \in Upload : acked[u] \in Nat /\ acked'[u] \in Nat /\ acked[u] <= acked'[u]
      /\ \A u \in Upload : upload[u] # "idle" => upload'[u] # "idle"
      /\ \A u \in Upload \ Direct : acked'[u] # acked[u] =>
           acked'[u] = acked[u] + 1 /\ <<u, acked[u]>> \in replies
  <2>1. acked \in [Upload -> Nat] /\ acked' \in [Upload -> Nat]
    BY DEF IInv, SoleInv, TypeInv, TypeOK
  <2>2. UploadsMove
    BY DEF Moves
  <2>3. ASSUME NEW u \in Upload
        PROVE  acked[u] \in Nat /\ acked'[u] \in Nat /\ acked[u] <= acked'[u]
    <3>1. acked[u] \in Nat /\ acked'[u] \in Nat
      BY <2>1
    <3>2. acked'[u] = acked[u] \/ acked'[u] = acked[u] + 1
      BY <2>2 DEF UploadsMove
    <3> QED  BY <3>1, <3>2
  <2>4. /\ \A u \in Upload : upload[u] # "idle" => upload'[u] # "idle"
        /\ \A u \in Upload \ Direct : acked'[u] # acked[u] =>
             acked'[u] = acked[u] + 1 /\ <<u, acked[u]>> \in replies
    BY <2>2 DEF UploadsMove
  <2> QED  BY <2>3, <2>4
<1>2. epoch \in Nat /\ epoch' \in Nat /\ epoch <= epoch'
  BY DEF IInv, SoleInv, TypeInv, TypeOK, Moves, VaultMoves
<1>3. Requested'
  <2> SUFFICES ASSUME NEW p \in packets'
               PROVE  /\ p.under <= epoch'
                      /\ p.req \in ChunkReq =>
                           /\ p.req[1] \notin Direct /\ upload'[p.req[1]] # "idle"
                           /\ p.req[2] <= acked'[p.req[1]]
                           /\ p.req[2] = acked'[p.req[1]] =>
                                upload'[p.req[1]] \in {"waiting", "failed"}
    BY DEF Requested
  <2>1. p.under \in Nat /\ (p.req \in ChunkReq => p.req[1] \in Upload /\ p.req[2] \in Nat)
    BY ChunkFacts DEF TypeInv, TypeOK
  <2>2. CASE p \in packets
    <3>1. /\ p.under <= epoch
          /\ p.req \in ChunkReq => /\ p.req[1] \notin Direct /\ upload[p.req[1]] # "idle"
                                   /\ p.req[2] <= acked[p.req[1]]
                                   /\ p.req[2] = acked[p.req[1]] =>
                                        upload[p.req[1]] \in {"waiting", "failed"}
      BY <2>2 DEF SoleInv, Requested
    <3>2. p.under <= epoch'
      BY <1>2, <2>1, <3>1
    <3>3. ASSUME NEW u \in Upload, p.req \in ChunkReq, p.req[1] = u
          PROVE  /\ p.req[2] <= acked'[u]
                 /\ p.req[2] = acked'[u] => upload'[u] \in {"waiting", "failed"}
      <4>1. p.req[2] \in Nat /\ acked[u] \in Nat /\ acked'[u] \in Nat /\ acked[u] <= acked'[u]
        BY <1>1, <2>1, <3>3
      <4>2. /\ p.req[2] <= acked[u]
            /\ p.req[2] = acked[u] => upload[u] \in {"waiting", "failed"}
        BY <3>1, <3>3
      <4>3. acked'[u] = acked[u] /\ upload[u] \in {"waiting", "failed"} =>
              upload'[u] \in {"waiting", "failed"}
        BY DEF Moves, UploadsMove
      <4> QED  BY <4>1, <4>2, <4>3
    <3> QED  BY <1>1, <2>1, <3>1, <3>2, <3>3
  <2>3. CASE p \notin packets
    <3>1. /\ p.under = epoch
          /\ p.req \in ChunkReq => /\ p.req[1] \in Upload \ Direct
                                   /\ p.req[2] = acked[p.req[1]]
                                   /\ upload'[p.req[1]] = "waiting"
      BY <2>3 DEF Moves, PacketsMove
    <3> QED  BY <1>1, <1>2, <2>1, <3>1
  <2> QED  BY <2>2, <2>3
<1>6. OnePerChunk'
  <2> SUFFICES ASSUME NEW p \in packets', NEW q \in packets',
                      p.req \in ChunkReq, p.req = q.req
               PROVE  p = q
    BY DEF OnePerChunk
  <2>1. ASSUME NEW a \in packets, NEW b \in packets' \ packets, b.req \in ChunkReq,
               a.req = b.req
        PROVE  FALSE
    <3>1. b.req[1] \in Upload /\ b.req[2] = acked[b.req[1]] /\ upload[b.req[1]] = "sending"
      BY <2>1 DEF Moves, PacketsMove
    <3>2. upload[a.req[1]] \in {"waiting", "failed"}
      BY <2>1, <3>1 DEF SoleInv, Requested
    <3> QED  BY <2>1, <3>1, <3>2
  <2>2. CASE p \in packets /\ q \in packets
    BY <2>2 DEF SoleInv, OnePerChunk
  <2>3. CASE p \notin packets /\ q \notin packets
    BY <2>3 DEF Moves, PacketsMove
  <2> QED  BY <2>1, <2>2, <2>3
<1>4. Answered'
  BY DEF IInv, SoleInv, Answered, Moves, PacketsMove, RepliesMove
<1>5. Counted'
  <2> SUFFICES ASSUME NEW u \in Upload \ Direct, NEW i \in 0 .. acked'[u] - 1
               PROVE  <<u, i>> \in replies
    BY DEF Counted, Moves, RepliesMove
  <2>1. CASE i \in 0 .. acked[u] - 1
    BY <2>1 DEF IInv, SoleInv, Counted
  <2>2. CASE i \notin 0 .. acked[u] - 1
    <3>1. acked'[u] = acked[u] + 1 /\ <<u, acked[u]>> \in replies
      BY <1>1, <2>2
    <3>2. i = acked[u]
      BY <1>1, <2>2, <3>1
    <3> QED  BY <3>1, <3>2
  <2> QED  BY <2>1, <2>2
<1> QED  BY <1>3, <1>4, <1>5, <1>6

-----------------------------------------------------------------------------
(* An upload that is alone under its name, and one that is so since a restart *)

LEMMA SoleStays ==
  ASSUME Moves, NEW u \in Upload, Sole(u)'
  PROVE  Sole(u)
  BY DEF Sole, Moves, UploadsMove

\* To be alone and read whole is lost for good, and as long as an upload is alone
\* no chunk under its name goes.
LEMMA AloneStays ==
  ASSUME SoleInv, TypeInv', Moves, NEW u \in Upload, Alone(u)'
  PROVE  /\ Alone(u)
         /\ ReadWhole(u)' => ReadWhole(u)
         /\ NameOf[u] \in FileName
         /\ DOMAIN vault[NameOf[u]] \subseteq DOMAIN vault'[NameOf[u]]
<1>0. packets \subseteq packets' /\ NameOf[u] \in FileName
  BY DEF Moves, PacketsMove, FileName
<1>1. Alone(u)
  <2>1. Sole(u)
    BY SoleStays DEF Alone
  <2>2. ASSUME NEW p \in packets, p.req \in ChunkReq /\ p.req[1] = u PROVE p.under = epoch
    <3>1. p.under = epoch' /\ p.under <= epoch /\ epoch \in Nat
      BY <1>0, <2>2 DEF Alone, SoleInv, Requested, TypeInv, TypeOK
    <3>2. epoch' = epoch \/ epoch' = epoch + 1
      BY DEF Moves, VaultMoves
    <3> QED  BY <3>1, <3>2
  <2> QED  BY <2>1, <2>2 DEF Alone
<1>2. ReadWhole(u)' => ReadWhole(u)
  BY <1>0 DEF ReadWhole
<1>3. DOMAIN vault[NameOf[u]] \subseteq DOMAIN vault'[NameOf[u]]
  <2>0. DOMAIN vault = FileName
    BY DEF IInv, SoleInv, TypeInv, TypeOK
  <2>1. CASE UNCHANGED vault
    BY <2>1
  <2>2. CASE epoch' = epoch + 1 /\ UNCHANGED packets
    <3> SUFFICES ASSUME NEW i \in DOMAIN vault[NameOf[u]] PROVE FALSE
      OBVIOUS
    <3>1. PICK p \in packets : p.req = <<u, i>>
      BY <1>1 DEF SoleInv, Own, Alone
    <3>2. vault[NameOf[u]][i] = u /\ <<vault[NameOf[u]][i], i>> \in ChunkReq
      BY <1>0, <1>1 DEF SoleInv, Own, Alone, TypeInv, TypeOK
    <3>3. p.req \in ChunkReq /\ p.req[1] = u /\ p \in packets'
      BY <1>0, <3>1, <3>2
    <3>4. p.under = epoch'
      BY <3>3 DEF Alone
    <3>5. p.under <= epoch /\ epoch \in Nat
      BY DEF IInv, SoleInv, Requested, TypeInv, TypeOK
    <3> QED  BY <2>2, <3>4, <3>5
  <2>3. ASSUME NEW v \in Upload, NEW i, vault' = Stored(NameOf[v], i, v)
        PROVE  DOMAIN vault[NameOf[u]] \subseteq DOMAIN vault'[NameOf[u]]
    <3>1. /\ DOMAIN vault'[NameOf[v]] = DOMAIN vault[NameOf[v]] \cup {i}
          /\ \A g \in FileName : g # NameOf[v] => vault'[g] = vault[g]
      BY <2>0, <2>3, StoredFacts
    <3> QED  BY <1>0, <3>1
  <2> QED  BY <2>1, <2>2, <2>3 DEF Moves, VaultMoves
<1> QED  BY <1>0, <1>1, <1>2, <1>3

LEMMA OwnKept ==
  ASSUME SoleInv, TypeInv', Moves
  PROVE  Own'
<1> SUFFICES ASSUME NEW u \in Upload, Sole(u)', NEW i \in DOMAIN vault'[NameOf[u]]
             PROVE  /\ vault'[NameOf[u]][i] = u
                    /\ \E p \in packets' : p.req = <<u, i>> /\ p.under = epoch'
  BY DEF Own
<1>0. /\ Sole(u) /\ NameOf[u] \in FileName /\ packets \subseteq packets'
      /\ DOMAIN vault = FileName
  BY SoleStays DEF Moves, PacketsMove, FileName, SoleInv, TypeInv, TypeOK
<1>4. i \in DOMAIN vault[NameOf[u]] =>
        vault[NameOf[u]][i] = u /\ \E p \in packets' : p.req = <<u, i>> /\ p.under = epoch
  <2>1. i \in DOMAIN vault[NameOf[u]] =>
          vault[NameOf[u]][i] = u /\ \E p \in packets : p.req = <<u, i>> /\ p.under = epoch
    <3>1. Own
      BY DEF SoleInv
    <3> QED  BY <1>0, <3>1 DEF Own
  <2> QED  BY <1>0, <2>1
<1>1. CASE UNCHANGED <<vault, epoch>>
  BY <1>1, <1>4
<1>2. CASE vault' = Empty
  BY <1>0, <1>2 DEF Empty
<1>3. ASSUME NEW v \in Upload, NEW j \in 0 .. ChunksOf[v] - 1, epoch' = epoch,
             vault' = Stored(NameOf[v], j, v),
             \/ v \in Direct /\ upload[v] # "idle"
             \/ \E p \in packets : p.req = <<v, j>> /\ p.under = epoch
      PROVE  /\ vault'[NameOf[u]][i] = u
             /\ \E p \in packets' : p.req = <<u, i>> /\ p.under = epoch'
  <2>1. /\ vault'[NameOf[v]][j] = v
        /\ DOMAIN vault'[NameOf[v]] = DOMAIN vault[NameOf[v]] \cup {j}
        /\ \A k \in DOMAIN vault[NameOf[v]] : k # j => vault'[NameOf[v]][k] = vault[NameOf[v]][k]
        /\ \A g \in FileName : g # NameOf[v] => vault'[g] = vault[g]
    BY <1>0, <1>3, StoredFacts
  <2>2. upload[v] # "idle"
    <3>1. <<v, j>> \in ChunkReq
      BY ChunkFacts
    <3> QED  BY <1>3, <3>1 DEF SoleInv, Requested
  <2>3. CASE NameOf[v] = NameOf[u]
    <3>1. v = u
      BY <1>0, <2>2, <2>3 DEF Sole
    <3>2. \E p \in packets : p.req = <<u, j>> /\ p.under = epoch
      BY <1>0, <1>3, <3>1 DEF Sole
    <3>3. CASE i = j
      BY <1>0, <1>3, <2>1, <3>1, <3>2, <3>3
    <3>4. CASE i # j
      <4>1. i \in DOMAIN vault[NameOf[u]] /\ vault'[NameOf[u]][i] = vault[NameOf[u]][i]
        BY <2>1, <3>1, <3>4
      <4> QED  BY <1>3, <1>4, <4>1
    <3> QED  BY <3>3, <3>4
  <2>4. CASE NameOf[v] # NameOf[u]
    <3>1. vault'[NameOf[u]] = vault[NameOf[u]]
      BY <1>0, <2>1, <2>4
    <3> QED  BY <1>3, <1>4, <3>1
  <2> QED  BY <2>3, <2>4
<1> QED  BY <1>1, <1>2, <1>3 DEF Moves, VaultMoves

LEMMA KeptKept ==
  ASSUME SoleInv, TypeInv', OnePerChunk', Moves
  PROVE  Kept'
<1> SUFFICES ASSUME NEW u \in Upload, Sole(u)', ReadWhole(u)', NEW p \in packets',
                    p.req \in ChunkReq, p.req[1] = u, p.under = epoch', p.req \in replies'
             PROVE  p.req[2] \in DOMAIN vault'[NameOf[u]]
  BY DEF Kept
<1>0. /\ Sole(u) /\ ReadWhole(u) /\ NameOf[u] \in FileName
      /\ DOMAIN vault = FileName /\ packets \subseteq packets'
  BY SoleStays DEF ReadWhole, Moves, PacketsMove, FileName, SoleInv, TypeInv, TypeOK
\* The one packet for this chunk has already arrived.
<1>1. CASE p.req \in replies
  <2>1. p \in packets
    <3>1. PICK q \in packets : q.req = p.req
      BY <1>1 DEF SoleInv, Answered
    <3> QED  BY <1>0, <3>1 DEF OnePerChunk
  <2>2. epoch' = epoch
    <3>1. p.under <= epoch /\ epoch \in Nat
      BY <2>1 DEF SoleInv, Requested, TypeInv, TypeOK
    <3> QED  BY <3>1 DEF Moves, VaultMoves
  <2>3. p.req[2] \in DOMAIN vault[NameOf[u]]
    BY <1>0, <1>1, <2>1, <2>2 DEF SoleInv, Kept
  <2>4. CASE UNCHANGED vault
    BY <2>3, <2>4
  <2>5. ASSUME NEW v \in Upload, NEW i, vault' = Stored(NameOf[v], i, v)
        PROVE  p.req[2] \in DOMAIN vault'[NameOf[u]]
    <3>1. /\ DOMAIN vault'[NameOf[v]] = DOMAIN vault[NameOf[v]] \cup {i}
          /\ \A g \in FileName : g # NameOf[v] => vault'[g] = vault[g]
      BY <1>0, <2>5, StoredFacts
    <3> QED  BY <1>0, <2>3, <3>1
  <2>6. epoch \in Nat
    BY DEF SoleInv, TypeInv, TypeOK
  <2> QED  BY <2>2, <2>4, <2>5, <2>6 DEF Moves, VaultMoves
<1>2. CASE p.req \notin replies
  <2>1. PICK q \in packets :
          /\ q.req = p.req
          /\ q.read = "whole" => vault' = Stored(NameOf[u], p.req[2], u)
    BY <1>2 DEF Moves, RepliesMove
  <2>2. q.read = "whole"
    BY <1>0, <2>1 DEF ReadWhole
  <2> QED  BY <1>0, <2>1, <2>2, StoredFacts
<1> QED  BY <1>1, <1>2

-----------------------------------------------------------------------------
(* Downloads *)

\* The chunks under the name of an upload that is alone are numbered from 0, up
\* to the last acknowledged one or the one after it.
LEMMA Stocked ==
  ASSUME SoleInv, NEW u \in Upload, Alone(u), ReadWhole(u)
  PROVE  LET D == DOMAIN vault[NameOf[u]]
         IN  /\ 0 .. acked[u] - 1 \subseteq D
             /\ D \subseteq 0 .. acked[u]
             /\ D \subseteq 0 .. ChunksOf[u] - 1
<1> DEFINE D == DOMAIN vault[NameOf[u]]
<1>0. u \notin Direct /\ NameOf[u] \in FileName /\ acked[u] \in Nat
  BY DEF Alone, Sole, FileName, IInv, SoleInv, TypeInv, TypeOK
<1>1. ASSUME NEW i \in 0 .. acked[u] - 1 PROVE i \in D
  <2>1. i \in Nat /\ <<u, i>> \in replies
    BY <1>0 DEF SoleInv, Counted
  <2>2. <<u, i>> \in ChunkReq
    BY <2>1 DEF SoleInv, TypeInv, TypeOK
  <2>3. PICK p \in packets : p.req = <<u, i>>
    BY <2>1 DEF SoleInv, Answered
  <2>4. p.under = epoch
    BY <2>2, <2>3 DEF Alone
  <2> QED  BY <2>1, <2>2, <2>3, <2>4 DEF SoleInv, Kept, Alone
<1>2. ASSUME NEW i \in D PROVE i \in 0 .. acked[u] /\ i \in 0 .. ChunksOf[u] - 1
  <2>1. /\ i \in Nat /\ vault[NameOf[u]][i] = u
        /\ <<vault[NameOf[u]][i], i>> \in ChunkReq
    BY <1>0 DEF SoleInv, Own, Alone, TypeInv, TypeOK
  <2>2. i \in 0 .. ChunksOf[u] - 1
    BY <2>1, ChunkFacts
  <2>3. PICK p \in packets : p.req = <<u, i>>
    BY DEF SoleInv, Own, Alone
  <2>4. p.req \in ChunkReq /\ p.req[1] = u /\ p.req[2] = i
    BY <2>1, <2>3
  <2>5. i <= acked[u]
    BY <2>4 DEF IInv, SoleInv, Requested
  <2> QED  BY <1>0, <2>1, <2>2, <2>5
<1> QED  BY <1>1, <1>2

LEMMA IntervalSize ==
  ASSUME NEW n \in Nat
  PROVE  Cardinality(0 .. n - 1) = n
<1>1. 0 \in Int /\ n - 1 \in Int
  OBVIOUS
<1>2. Cardinality(0 .. n - 1) = IF 0 > n - 1 THEN 0 ELSE n - 1 - 0 + 1
  BY <1>1, FS_Interval
<1> QED  BY <1>2

LEMMA IntervalInside ==
  ASSUME NEW n \in Nat, NEW k \in Nat, 0 .. k - 1 \subseteq 0 .. n - 1
  PROVE  k <= n
<1>1. CASE k = 0
  BY <1>1
<1>2. CASE k > 0
  <2>1. k - 1 \in 0 .. n - 1
    BY <1>2
  <2> QED  BY <2>1
<1> QED  BY <1>1, <1>2

LEMMA IntervalOrOneMore ==
  ASSUME NEW n \in Nat, NEW D, 0 .. n - 1 \subseteq D, D \subseteq 0 .. n
  PROVE  \E m \in Nat : D = 0 .. m - 1 /\ m \in {n, n + 1}
<1>1. CASE n \in D
  <2>1. \A i : i \in D <=> i \in 0 .. (n + 1) - 1
    <3>1. \A i : i \in 0 .. n => i \in 0 .. n - 1 \/ i = n
      OBVIOUS
    <3>2. 0 .. (n + 1) - 1 = 0 .. n
      OBVIOUS
    <3> QED  BY <1>1, <3>1, <3>2
  <2>2. D = 0 .. (n + 1) - 1
    BY <2>1
  <2> QED  BY <2>2
<1>2. CASE n \notin D
  <2>1. \A i : i \in D <=> i \in 0 .. n - 1
    <3>1. \A i : i \in 0 .. n => i \in 0 .. n - 1 \/ i = n
      OBVIOUS
    <3> QED  BY <1>2, <3>1
  <2>2. D = 0 .. n - 1
    BY <2>1
  <2> QED  BY <2>2
<1> QED  BY <1>1, <1>2

\* A download that has changed did so by a step of its own.
LEMMA OwnStep ==
  ASSUME DOMAIN download = Download, Moves, NEW d \in Download, download'[d] # download[d]
  PROVE  DownloadStep(d) /\ UNCHANGED <<epoch, vault, posts, upload, acked, packets, replies>>
<1>1. PICK e \in Download : DownloadStep(e)
  BY DEF Moves, DownloadsMove
<1>2. e = d
  BY <1>1, DownloadFrame
<1> QED  BY <1>1, <1>2, DownloadFrame

\* A download that goes on after asking for the number of chunks
LEMMA AskedFacts ==
  ASSUME DOMAIN download = Download, NEW d \in Download, NEW f, NEW g, AskInfo(d, f, g),
         download'[d].state \in {"fetching", "saved"}
  PROVE  /\ DOMAIN vault[g] # {}
         /\ download'[d].file = f /\ download'[d].total = Cardinality(DOMAIN vault[g])
         /\ download'[d].got = <<>> /\ download'[d].cut = IF g = f THEN {} ELSE {0}
         /\ download'[d].after = {v \in Upload : upload[v] = "done"}
<1> DEFINE new == [state |-> "fetching", file |-> f, total |-> Cardinality(DOMAIN vault[g]),
                   got |-> <<>>, cut |-> IF g = f THEN {} ELSE {0},
                   after |-> {v \in Upload : upload[v] = "done"}]
<1>1. download'[d] = IF DOMAIN vault[g] = {} THEN [state |-> "failed"] ELSE new
  BY DEF AskInfo
<1>2. DOMAIN vault[g] # {} /\ download'[d] = new
  BY <1>1
<1> QED  BY <1>2

LEMMA FetchedKept ==
  ASSUME IInv, TypeInv', Moves
  PROVE  Fetched'
<1> SUFFICES ASSUME NEW d \in Download, NEW u \in Upload,
                    download'[d].state \in {"fetching", "saved"}, download'[d].file = NameOf[u],
                    Alone(u)', ReadWhole(u)', 0 \notin download'[d].cut
             PROVE  FetchedFor(d, u)'
  BY DEF Fetched
<1>0. /\ Alone(u) /\ ReadWhole(u) /\ NameOf[u] \in FileName
      /\ DOMAIN vault[NameOf[u]] \subseteq DOMAIN vault'[NameOf[u]]
      /\ DOMAIN download = Download /\ VaultTypes /\ Downloads
  BY AloneStays DEF IInv, SoleInv, TypeInv, TypeOK, VaultTypes, Downloads
<1>1. CASE download'[d] = download[d]
  <2>1. FetchedFor(d, u)
    BY <1>0, <1>1 DEF IInv, Fetched
  <2> QED  BY <1>0, <1>1, <2>1 DEF FetchedFor
<1>2. CASE download'[d] # download[d]
  <2>0. DownloadStep(d) /\ UNCHANGED vault
    BY <1>0, <1>2, OwnStep
  <2>1. ASSUME NEW f \in FileName, NEW g, AskInfo(d, f, g) PROVE FetchedFor(d, u)'
    <3> DEFINE D == DOMAIN vault[g]
    <3>1. /\ D # {} /\ download'[d].total = Cardinality(D) /\ download'[d].got = <<>>
          /\ download'[d].file = f /\ download'[d].after = {v \in Upload : upload[v] = "done"}
          /\ download'[d].cut = IF g = f THEN {} ELSE {0}
      BY <1>0, <2>1, AskedFacts
    <3>2. g = f /\ f = NameOf[u]
      BY <3>1
    <3>3. /\ 0 .. acked[u] - 1 \subseteq D /\ D \subseteq 0 .. acked[u]
          /\ D \subseteq 0 .. ChunksOf[u] - 1 /\ acked[u] \in Nat /\ ChunksOf[u] \in Nat
      BY <1>0, <3>2, Stocked DEF IInv, SoleInv, TypeInv, TypeOK
    <3>4. PICK n \in Nat : D = 0 .. n - 1 /\ n \in {acked[u], acked[u] + 1}
      BY <3>3, IntervalOrOneMore
    <3>5. Cardinality(D) = n
      BY <3>4, IntervalSize
    <3>6. upload[u] = "done" => n = ChunksOf[u]
      <4>1. upload[u] = "done" => acked[u] = ChunksOf[u]
        BY DEF IInv, SoleInv, TypeInv, Progress
      <4> QED  BY <3>3, <3>4, <4>1
    <3> QED  BY <2>0, <3>1, <3>2, <3>4, <3>5, <3>6 DEF FetchedFor
  <2>2. ASSUME FetchChunk(d) \/ FetchCut(d) PROVE FetchedFor(d, u)'
    <3> DEFINE r == download[d]
    <3>0. PICK chunk, cut : Gets(d, chunk, cut)
      BY <2>2, FetchesOne
    <3>1. /\ r \in Assembling /\ r.state = "fetching" /\ Len(r.got) < r.total
          /\ Len(r.got) \in Nat /\ r.got \in Seq(ChunkReq \cup {Missing})
          /\ chunk \in ChunkReq \cup {Missing}
      BY <1>0, <3>0, AssembleFacts
    <3>2. /\ download'[d].file = r.file /\ download'[d].total = r.total
          /\ download'[d].after = r.after /\ download'[d].got = Append(r.got, chunk)
          /\ download'[d].cut = r.cut \cup cut
      BY <1>0, <3>0, AssembleFacts
    <3>3. FetchedFor(d, u) /\ r.file = NameOf[u]
      BY <1>0, <3>1, <3>2 DEF IInv, Fetched
    <3>4. Len(r.got) \in DOMAIN vault[NameOf[u]]
      <4>1. Len(r.got) \in 0 .. r.total - 1
        BY <3>1 DEF Assembling
      <4> QED  BY <3>3, <4>1 DEF FetchedFor
    <3>5. cut = {} => chunk = <<u, Len(r.got)>>
      <4>1. vault[NameOf[u]][Len(r.got)] = u
        BY <1>0, <3>4 DEF IInv, SoleInv, Own, Alone
      <4> QED  BY <3>0, <3>3, <3>4, <4>1 DEF Gets, ChunkAt
    <3>6. ASSUME NEW k \in DOMAIN Append(r.got, chunk) \ (r.cut \cup cut)
          PROVE  Append(r.got, chunk)[k] = <<u, k - 1>>
      <4>1. CASE k = Len(r.got) + 1 /\ Append(r.got, chunk)[k] = chunk
        <5>1. cut = {}
          BY <3>0, <3>6, <4>1 DEF Gets
        <5> QED  BY <3>1, <3>5, <4>1, <5>1
      <4>2. CASE k \in DOMAIN r.got /\ Append(r.got, chunk)[k] = r.got[k]
        BY <3>3, <3>6, <4>2 DEF FetchedFor
      <4> QED  BY <3>1, <4>1, <4>2, Assembled
    <3> QED  BY <2>0, <3>2, <3>3, <3>6 DEF FetchedFor
  <2>3. ASSUME FailDownload(d) PROVE FALSE
    BY <1>0, <2>3 DEF FailDownload
  <2> QED  BY <2>0, <2>1, <2>2, <2>3 DEF DownloadStep
<1> QED  BY <1>1, <1>2

LEMMA UnmixedKept ==
  ASSUME IInv, TypeInv', Moves
  PROVE  Unmixed'
<1> SUFFICES ASSUME NEW d \in Download, NEW u \in Upload,
                    download'[d].state \in {"fetching", "saved"}, download'[d].file = NameOf[u],
                    Sole(u)', NEW k \in DOMAIN download'[d].got
             PROVE  download'[d].got[k] = Missing \/ download'[d].got[k][1] = u
  BY DEF Unmixed
<1>0. Sole(u) /\ DOMAIN download = Download /\ VaultTypes /\ Downloads
  BY SoleStays DEF IInv, SoleInv, TypeInv, TypeOK, VaultTypes, Downloads
<1>1. CASE download'[d] = download[d]
  BY <1>0, <1>1 DEF IInv, Unmixed
<1>2. CASE download'[d] # download[d]
  <2>0. DownloadStep(d)
    BY <1>0, <1>2, OwnStep
  <2>1. ASSUME NEW f, NEW g, AskInfo(d, f, g) PROVE FALSE
    BY <1>0, <2>1, AskedFacts
  <2>2. CASE FetchChunk(d) \/ FetchCut(d)
    <3> DEFINE r == download[d]
    <3>0. PICK chunk, cut : Gets(d, chunk, cut)
      BY <2>2, FetchesOne
    <3>1. /\ r \in Assembling /\ r.state = "fetching"
          /\ r.got \in Seq(ChunkReq \cup {Missing})
          /\ chunk \in ChunkReq \cup {Missing}
      BY <1>0, <3>0, AssembleFacts
    <3>2. download'[d].file = r.file /\ download'[d].got = Append(r.got, chunk)
      BY <1>0, <3>0, AssembleFacts
    <3>3. chunk = Missing \/ chunk[1] = u
      <4>1. chunk = Missing \/ \E j \in DOMAIN vault[r.file] : chunk = <<vault[r.file][j], j>>
        BY <3>0 DEF Gets
      <4>2. \A j \in DOMAIN vault[NameOf[u]] : vault[NameOf[u]][j] = u
        BY <1>0 DEF IInv, SoleInv, Own
      <4>3. r.file = NameOf[u]
        BY <3>2
      <4> QED  BY <4>1, <4>2, <4>3
    <3>4. CASE k = Len(r.got) + 1 /\ Append(r.got, chunk)[k] = chunk
      BY <3>2, <3>3, <3>4
    <3>5. CASE k \in DOMAIN r.got /\ Append(r.got, chunk)[k] = r.got[k]
      <4>1. r.file = NameOf[u]
        BY <3>2
      <4>2. r.got[k] = Missing \/ r.got[k][1] = u
        BY <1>0, <3>1, <3>5, <4>1 DEF IInv, Unmixed
      <4> QED  BY <3>2, <3>5, <4>2
    <3> QED  BY <3>1, <3>2, <3>4, <3>5, Assembled
  <2>3. ASSUME FailDownload(d) PROVE FALSE
    BY <1>0, <2>3 DEF FailDownload
  <2> QED  BY <2>0, <2>1, <2>2, <2>3 DEF DownloadStep
<1> QED  BY <1>1, <1>2

-----------------------------------------------------------------------------
(* Uploads under one name, in any mixture *)

\* A server that is the first one now has been so before, and under a name whose
\* requests were all read whole no chunk goes.
LEMMA UndisturbedStays ==
  ASSUME SoleInv, TypeInv', Moves, NEW f \in FileName, Undisturbed(f)'
  PROVE  /\ Undisturbed(f)
         /\ vault' # vault => \E u \in Upload : \E i \in 0 .. ChunksOf[u] - 1 :
              vault' = Stored(NameOf[u], i, u) /\ i <= acked[u]
         /\ DOMAIN vault[f] \subseteq DOMAIN vault'[f]
<1>0. epoch \in Nat \ {0} /\ packets \subseteq packets' /\ DOMAIN vault = FileName
  BY DEF SoleInv, TypeInv, TypeOK, Moves, PacketsMove
<1>1. epoch' = 1
  BY DEF Undisturbed
<1>2. epoch = 1
  <2>1. epoch' = epoch \/ epoch' = epoch + 1
    BY DEF Moves, VaultMoves
  <2> QED  BY <1>0, <1>1, <2>1
<1>3. Undisturbed(f)
  BY <1>0, <1>2 DEF Undisturbed, NameReadWhole
<1>4. ASSUME vault' # vault
      PROVE  \E u \in Upload : \E i \in 0 .. ChunksOf[u] - 1 :
               vault' = Stored(NameOf[u], i, u) /\ i <= acked[u]
  <2>0. PICK u \in Upload : \E i \in 0 .. ChunksOf[u] - 1 :
          /\ vault' = Stored(NameOf[u], i, u)
          /\ \/ i = acked[u]
             \/ \E p \in packets : p.req = <<u, i>>
    BY <1>0, <1>1, <1>2, <1>4 DEF Moves, VaultMoves
  <2>1. PICK i \in 0 .. ChunksOf[u] - 1 :
          /\ vault' = Stored(NameOf[u], i, u)
          /\ \/ i = acked[u]
             \/ \E p \in packets : p.req = <<u, i>>
    BY <2>0
  <2>2. acked[u] \in Nat /\ <<u, i>> \in ChunkReq
    BY ChunkFacts DEF SoleInv, TypeInv, TypeOK
  <2>3. i <= acked[u]
    BY <2>1, <2>2 DEF SoleInv, Requested
  <2> QED  BY <2>1, <2>3
<1>5. DOMAIN vault[f] \subseteq DOMAIN vault'[f]
  <2>1. ASSUME NEW u \in Upload, NEW i, vault' = Stored(NameOf[u], i, u)
        PROVE  DOMAIN vault[f] \subseteq DOMAIN vault'[f]
    <3>1. /\ DOMAIN vault'[NameOf[u]] = DOMAIN vault[NameOf[u]] \cup {i}
          /\ \A g \in FileName : g # NameOf[u] => vault'[g] = vault[g]
      BY <1>0, <2>1, StoredFacts
    <3> QED  BY <3>1
  <2> QED  BY <1>4, <2>1
<1> QED  BY <1>1, <1>2, <1>3, <1>4, <1>5

LEMMA GaplessKept ==
  ASSUME SoleInv, Gapless, TypeInv', Moves
  PROVE  Gapless'
<1> SUFFICES ASSUME NEW f \in FileName, Undisturbed(f)'
             PROVE  /\ \E n \in Nat : DOMAIN vault'[f] = 0 .. n - 1
                    /\ \A u \in Upload : NameOf[u] = f =>
                         /\ \A i \in Nat : <<u, i>> \in replies' => i \in DOMAIN vault'[f]
                         /\ 0 .. acked'[u] - 1 \subseteq DOMAIN vault'[f]
  BY DEF Gapless
<1>0. /\ Undisturbed(f) /\ DOMAIN vault[f] \subseteq DOMAIN vault'[f]
      /\ vault' # vault => \E u \in Upload : \E i \in 0 .. ChunksOf[u] - 1 :
           vault' = Stored(NameOf[u], i, u) /\ i <= acked[u]
      /\ DOMAIN vault = FileName
      /\ \A u \in Upload : acked[u] \in Nat /\ acked'[u] \in Nat
  BY UndisturbedStays DEF SoleInv, TypeInv, TypeOK
<1>1. PICK n \in Nat : DOMAIN vault[f] = 0 .. n - 1
  BY <1>0 DEF Gapless
<1>2. ASSUME NEW u \in Upload, NameOf[u] = f
      PROVE  /\ \A i \in Nat : <<u, i>> \in replies => i \in DOMAIN vault[f]
             /\ 0 .. acked[u] - 1 \subseteq DOMAIN vault[f]
  BY <1>0, <1>2 DEF Gapless
<1>3. \E m \in Nat : DOMAIN vault'[f] = 0 .. m - 1
  <2>1. CASE vault' = vault
    BY <1>1, <2>1
  <2>2. ASSUME NEW u \in Upload, NEW i \in 0 .. ChunksOf[u] - 1,
               vault' = Stored(NameOf[u], i, u), i <= acked[u]
        PROVE  \E m \in Nat : DOMAIN vault'[f] = 0 .. m - 1
    <3>1. /\ DOMAIN vault'[NameOf[u]] = DOMAIN vault[NameOf[u]] \cup {i}
          /\ \A g \in FileName : g # NameOf[u] => vault'[g] = vault[g]
      BY <1>0, <2>2, StoredFacts
    <3>2. CASE NameOf[u] # f
      BY <1>1, <3>1, <3>2
    <3>3. CASE NameOf[u] = f
      <4>1. 0 .. acked[u] - 1 \subseteq 0 .. n - 1 /\ acked[u] \in Nat
        BY <1>0, <1>1, <1>2, <3>3
      <4>2. acked[u] <= n
        <5>1. CASE acked[u] = 0
          BY <5>1
        <5>2. CASE acked[u] # 0
          <6>1. acked[u] - 1 \in 0 .. acked[u] - 1
            BY <4>1, <5>2
          <6>2. acked[u] - 1 \in 0 .. n - 1
            BY <4>1, <6>1
          <6> QED  BY <4>1, <6>2
        <5> QED  BY <5>1, <5>2
      <4>3. i \in Nat /\ i <= n
        BY <2>2, <4>1, <4>2
      <4>4. 0 .. n - 1 \subseteq DOMAIN vault'[f] /\ DOMAIN vault'[f] \subseteq 0 .. n
        BY <1>1, <3>1, <3>3, <4>3
      <4> QED  BY <4>4, IntervalOrOneMore
    <3> QED  BY <3>2, <3>3
  <2> QED  BY <1>0, <2>1, <2>2
<1>4. ASSUME NEW u \in Upload, NameOf[u] = f, NEW i \in Nat, <<u, i>> \in replies'
      PROVE  i \in DOMAIN vault'[f]
  <2>1. CASE <<u, i>> \in replies
    BY <1>0, <1>2, <1>4, <2>1
  <2>2. CASE <<u, i>> \notin replies
    <3>1. PICK p \in packets : /\ p.req = <<u, i>>
                               /\ p.read = "whole" => vault' = Stored(NameOf[u], i, u)
      BY <1>4, <2>2 DEF Moves, RepliesMove
    <3>2. <<u, i>> \in ChunkReq
      BY <1>4 DEF TypeInv, TypeOK
    <3>3. p.read = "whole"
      BY <1>0, <1>4, <3>1, <3>2 DEF Undisturbed, NameReadWhole
    <3> QED  BY <1>0, <1>4, <3>1, <3>3, StoredFacts
  <2> QED  BY <2>1, <2>2
<1>5. ASSUME NEW u \in Upload, NameOf[u] = f, NEW i \in 0 .. acked'[u] - 1
      PROVE  i \in DOMAIN vault'[f]
  <2>1. CASE i \in 0 .. acked[u] - 1
    BY <1>0, <1>2, <1>5, <2>1
  <2>2. CASE i \notin 0 .. acked[u] - 1
    <3>1. /\ acked'[u] = acked[u] + 1
          /\ \/ <<u, acked[u]>> \in replies
             \/ vault' = Stored(NameOf[u], acked[u], u)
      BY <1>0, <1>5, <2>2 DEF Moves, UploadsMove
    <3>2. i = acked[u] /\ i \in Nat
      BY <1>0, <1>5, <2>2, <3>1
    <3>3. CASE <<u, acked[u]>> \in replies
      BY <1>0, <1>2, <1>5, <3>2, <3>3
    <3>4. CASE vault' = Stored(NameOf[u], acked[u], u)
      BY <1>0, <1>5, <3>2, <3>4, StoredFacts
    <3> QED  BY <3>1, <3>3, <3>4
  <2> QED  BY <2>1, <2>2
<1> QED  BY <1>3, <1>4, <1>5

LEMMA FilledKept ==
  ASSUME SoleInv, Gapless, Filled, TypeInv', Moves
  PROVE  Filled'
<1> SUFFICES ASSUME NEW d \in Download, download'[d].state \in {"fetching", "saved"},
                    Undisturbed(download[d].file)', 0 \notin download'[d].cut
             PROVE  FilledFor(d)'
  BY DEF Filled
<1>0. DOMAIN download = Download /\ VaultTypes /\ Downloads
  BY DEF SoleInv, TypeInv, TypeOK, VaultTypes, Downloads
<1>1. CASE download'[d] = download[d]
  <2>1. download[d].file \in FileName
    BY <1>1 DEF SoleInv, TypeInv, Downloads, Assembling
  <2>2. /\ Undisturbed(download[d].file)
        /\ DOMAIN vault[download[d].file] \subseteq DOMAIN vault'[download[d].file]
    BY <1>1, <2>1, UndisturbedStays
  <2>3. FilledFor(d)
    BY <1>1, <2>2 DEF Filled
  <2> QED  BY <1>1, <2>2, <2>3 DEF FilledFor
<1>2. CASE download'[d] # download[d]
  <2>0. DownloadStep(d) /\ UNCHANGED <<epoch, vault, packets>>
    BY <1>0, <1>2, OwnStep
  <2>u. \A f \in FileName : download'[d].file = f => Undisturbed(f)
    BY <2>0 DEF Undisturbed, NameReadWhole
  <2>1. ASSUME NEW f \in FileName, NEW g, AskInfo(d, f, g) PROVE FilledFor(d)'
    <3> DEFINE D == DOMAIN vault[g]
    <3>1. /\ D # {} /\ download'[d].total = Cardinality(D) /\ download'[d].got = <<>>
          /\ download'[d].file = f /\ download'[d].after = {v \in Upload : upload[v] = "done"}
          /\ download'[d].cut = IF g = f THEN {} ELSE {0}
      BY <1>0, <2>1, AskedFacts
    <3>2. g = f /\ Undisturbed(f)
      BY <2>u, <3>1
    <3>3. PICK n \in Nat : D = 0 .. n - 1
      BY <3>2 DEF Gapless
    <3>4. Cardinality(D) = n
      BY <3>3, IntervalSize
    <3>5. ASSUME NEW u \in Upload, upload[u] = "done", NameOf[u] = f
          PROVE  ChunksOf[u] <= n
      <4>1. acked[u] = ChunksOf[u] /\ ChunksOf[u] \in Nat
        BY <3>5 DEF SoleInv, TypeInv, Progress
      <4>2. 0 .. acked[u] - 1 \subseteq 0 .. n - 1
        BY <3>2, <3>3, <3>5 DEF Gapless
      <4> QED  BY <4>1, <4>2, IntervalInside
    <3> QED  BY <2>0, <3>1, <3>2, <3>3, <3>4, <3>5 DEF FilledFor
  <2>2. ASSUME FetchChunk(d) \/ FetchCut(d) PROVE FilledFor(d)'
    <3> DEFINE r == download[d]
    <3>0. PICK chunk, cut : Gets(d, chunk, cut)
      BY <2>2, FetchesOne
    <3>1. /\ r \in Assembling /\ r.state = "fetching" /\ Len(r.got) < r.total
          /\ Len(r.got) \in Nat /\ r.got \in Seq(ChunkReq \cup {Missing})
          /\ chunk \in ChunkReq \cup {Missing} /\ r.file \in FileName
      BY <1>0, <3>0, AssembleFacts DEF Assembling
    <3>2. /\ download'[d].file = r.file /\ download'[d].total = r.total
          /\ download'[d].after = r.after /\ download'[d].got = Append(r.got, chunk)
          /\ download'[d].cut = r.cut \cup cut
      BY <1>0, <3>0, AssembleFacts
    <3>3. FilledFor(d)
      BY <2>u, <3>1, <3>2 DEF Filled
    <3>4. Len(r.got) \in DOMAIN vault[r.file]
      <4>1. Len(r.got) \in 0 .. r.total - 1
        BY <3>1 DEF Assembling
      <4> QED  BY <3>3, <4>1 DEF FilledFor
    <3>5. cut = {} => chunk \in ChunkReq /\ chunk[2] = Len(r.got) /\ NameOf[chunk[1]] = r.file
      <4>1. /\ <<vault[r.file][Len(r.got)], Len(r.got)>> \in ChunkReq
            /\ NameOf[vault[r.file][Len(r.got)]] = r.file
        BY <1>0, <3>1, <3>4 DEF VaultTypes
      <4>2. cut = {} => chunk = <<vault[r.file][Len(r.got)], Len(r.got)>>
        BY <3>0, <3>1, <3>4 DEF Gets, ChunkAt
      <4> QED  BY <4>1, <4>2
    <3>6. ASSUME NEW k \in DOMAIN Append(r.got, chunk) \ (r.cut \cup cut)
          PROVE  LET v == Append(r.got, chunk)[k]
                 IN  v \in ChunkReq /\ v[2] = k - 1 /\ NameOf[v[1]] = r.file
      <4>1. CASE k = Len(r.got) + 1 /\ Append(r.got, chunk)[k] = chunk
        <5>1. cut = {}
          BY <3>0, <3>6, <4>1 DEF Gets
        <5> QED  BY <3>1, <3>5, <4>1, <5>1
      <4>2. CASE k \in DOMAIN r.got /\ Append(r.got, chunk)[k] = r.got[k]
        BY <3>3, <3>6, <4>2 DEF FilledFor
      <4> QED  BY <3>1, <4>1, <4>2, Assembled
    <3> QED  BY <2>0, <3>2, <3>3, <3>6 DEF FilledFor
  <2>3. ASSUME FailDownload(d) PROVE FALSE
    BY <1>0, <2>3 DEF FailDownload
  <2> QED  BY <2>0, <2>1, <2>2, <2>3 DEF DownloadStep
<1> QED  BY <1>1, <1>2

-----------------------------------------------------------------------------
LEMMA StepIInv == IInv /\ [Next]_vars => IInv'
<1> SUFFICES ASSUME IInv, [Next]_vars PROVE IInv'
  OBVIOUS
<1>1. TypeInv'
  BY StepTypes DEF IInv, SoleInv
<1>2. Moves
  BY StepMoves DEF IInv, SoleInv
<1>3. SoleInv /\ Gapless /\ Filled
  BY DEF IInv, SoleInv
<1>4. Requested' /\ OnePerChunk' /\ Answered' /\ Counted'
  BY <1>1, <1>2, <1>3, RequestsKept
<1>5. Own' /\ Kept'
  BY <1>1, <1>2, <1>3, <1>4, OwnKept, KeptKept
<1>6. Gapless' /\ Filled'
  BY <1>1, <1>2, <1>3, GaplessKept, FilledKept
<1> QED  BY <1>1, <1>2, <1>4, <1>5, <1>6, FetchedKept, UnmixedKept DEF IInv, SoleInv

\* The whole inductive invariant holds in every reachable state.
THEOREM Invariance == Spec => []IInv
  BY InitIInv, StepIInv, PTL DEF Spec

\* Vault, uploads, packets and downloads are what they seem.
THEOREM Types == Spec => []TypeOK
<1>1. IInv => TypeOK
  BY DEF IInv, SoleInv, TypeInv
<1> QED  BY <1>1, Invariance, PTL

\* Whatever is lost, repeated or late: of the chunks that uploadFile has got
\* answers for, those sent to the running server are in the vault, and no earlier
\* one; beside them at most the one that it waits for.
THEOREM NothingIsMissing == Spec => []AckedIsStored
<1>1. IInv => AckedIsStored
  <2> SUFFICES ASSUME IInv, NEW u \in Upload, Sole(u), ReadWhole(u)
               PROVE  /\ \A i \in 0 .. acked[u] - 1 :
                           i \in DOMAIN vault[NameOf[u]]
                           <=> \E p \in packets : p.req = <<u, i>> /\ p.under = epoch
                      /\ DOMAIN vault[NameOf[u]] \subseteq 0 .. acked[u]
    BY DEF AckedIsStored
  <2>1. ASSUME NEW i \in 0 .. acked[u] - 1, NEW p \in packets,
               p.req = <<u, i>>, p.under = epoch
        PROVE  i \in DOMAIN vault[NameOf[u]]
    <3>1. <<u, i>> \in replies /\ <<u, i>> \in ChunkReq
      BY DEF Sole, IInv, SoleInv, Counted, TypeInv, TypeOK
    <3> QED  BY <2>1, <3>1 DEF IInv, SoleInv, Kept
  <2>2. ASSUME NEW i \in DOMAIN vault[NameOf[u]]
        PROVE  /\ \E p \in packets : p.req = <<u, i>> /\ p.under = epoch
               /\ i \in 0 .. acked[u]
    <3>1. PICK p \in packets : p.req = <<u, i>> /\ p.under = epoch
      BY DEF IInv, SoleInv, Own
    <3>2. i \in Nat /\ <<u, i>> \in ChunkReq /\ acked[u] \in Nat
      <4>1. NameOf[u] \in FileName
        BY DEF FileName
      <4> QED  BY <4>1 DEF IInv, SoleInv, TypeInv, TypeOK, Own
    <3>3. i <= acked[u]
      BY <3>1, <3>2 DEF IInv, SoleInv, Requested
    <3> QED  BY <3>1, <3>2, <3>3
  <2> QED  BY <2>1, <2>2
<1> QED  BY <1>1, Invariance, PTL

\* downloadFile saves what was uploaded, for as far as the server has counted and
\* but for the places whose request was cut; nothing foreign gets into the file.
THEOREM DownloadsAreUploads == Spec => []SavedIsUploaded
<1>1. IInv => SavedIsUploaded
  <2> SUFFICES ASSUME IInv, NEW d \in Download, NEW u \in Upload,
                      download[d].state = "saved", download[d].file = NameOf[u]
               PROVE  LET r == download[d]
                      IN  /\ Sole(u) => \A k \in DOMAIN r.got : r.got[k] = Missing \/ r.got[k][1] = u
                          /\ Alone(u) /\ ReadWhole(u) /\ 0 \notin r.cut
                             => /\ \A k \in DOMAIN r.got \ r.cut : r.got[k] = <<u, k - 1>>
                                /\ u \in r.after => Len(r.got) = ChunksOf[u]
    BY DEF SavedIsUploaded
  <2>1. Alone(u) /\ ReadWhole(u) /\ 0 \notin download[d].cut => FetchedFor(d, u)
    BY DEF IInv, Fetched
  <2>2. Len(download[d].got) = download[d].total
    BY DEF IInv, SoleInv, TypeInv, Downloads
  <2>3. Sole(u) => \A k \in DOMAIN download[d].got :
                     download[d].got[k] = Missing \/ download[d].got[k][1] = u
    BY DEF IInv, Unmixed
  <2> QED  BY <2>1, <2>2, <2>3 DEF FetchedFor
<1> QED  BY <1>1, Invariance, PTL

\* The exact condition under which the page's "securely transferred" is true: the
\* upload was alone, the server went on, and every request was read to its end.
THEOREM TransferredWhenReadWhole ==
  Spec => [](\A u \in Upload : Alone(u) /\ ReadWhole(u) /\ upload[u] = "done" =>
               0 .. ChunksOf[u] - 1 = DOMAIN vault[NameOf[u]])
<1>1. IInv => \A u \in Upload : Alone(u) /\ ReadWhole(u) /\ upload[u] = "done" =>
                0 .. ChunksOf[u] - 1 = DOMAIN vault[NameOf[u]]
  <2> SUFFICES ASSUME IInv, NEW u \in Upload, Alone(u), ReadWhole(u), upload[u] = "done"
               PROVE  0 .. ChunksOf[u] - 1 = DOMAIN vault[NameOf[u]]
    OBVIOUS
  <2>1. acked[u] = ChunksOf[u]
    BY DEF IInv, SoleInv, TypeInv, Progress
  <2>2. /\ 0 .. acked[u] - 1 \subseteq DOMAIN vault[NameOf[u]]
        /\ DOMAIN vault[NameOf[u]] \subseteq 0 .. ChunksOf[u] - 1
    BY Stocked DEF IInv
  <2> QED  BY <2>1, <2>2
<1> QED  BY <1>1, Invariance, PTL

\* In whatever order uploads under one name overwrite each other, while the
\* server runs a download has no gap but those its own cut requests leave, and is
\* not shorter than a finished upload.
THEOREM DownloadsHaveNoGaps == Spec => []SavedHasNoGaps
<1>1. IInv => SavedHasNoGaps
  <2> SUFFICES ASSUME IInv, NEW d \in Download, download[d].state = "saved",
                      epoch = 1, NameReadWhole(download[d].file), 0 \notin download[d].cut
               PROVE  LET r == download[d]
                      IN  /\ \A k \in DOMAIN r.got \ r.cut :
                               /\ r.got[k] \in ChunkReq /\ r.got[k][2] = k - 1
                               /\ NameOf[r.got[k][1]] = r.file
                          /\ \A u \in r.after : NameOf[u] = r.file => ChunksOf[u] <= Len(r.got)
    BY DEF SavedHasNoGaps
  <2>1. FilledFor(d)
    BY DEF IInv, Filled, Undisturbed
  <2>2. Len(download[d].got) = download[d].total
    BY DEF IInv, SoleInv, TypeInv, Downloads
  <2> QED  BY <2>1, <2>2 DEF FilledFor
<1> QED  BY <1>1, Invariance, PTL
=============================================================================
