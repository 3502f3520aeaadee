# Z-Protocol: models, checks and proofs

TLA+ modules that model the Z-Protocol programs of this repository, the TLC
configurations that check them on small instances, and theorems about them that
TLAPS proves for every instance. Everything is translated from the Python (and,
for the dashboard, JavaScript) source; `PROJECT.json` maps each definition to
the lines it stands for.

## 1. The system

Z-Protocol is a one-packet ("0-RTT") encrypted exchange over UDP. The client
reads the server's two public keys from files, derives a session key by
ML-KEM-1024 and X25519, encrypts its message, and sends key-exchange data,
proof of work, timestamp and ciphertext in one datagram. Nothing retransmits.
The repository holds several programs built on this idea.

| Part (source) | State | Operations | Interacts with |
|---|---|---|---|
| Replay filter (`phase3/zreplay.py` = `phase4/zreplay.py`) | `seen`: nonce to timestamp | `is_replay`, `_evict_expired` | called by `zserver_v2`, reads the wall clock |
| Server v2 (`phase4/zserver_v2.py`) | key pair, filter, session store, two key files on disk | `main`, `datagram_received` | clients by UDP and key files |
| Client v2 (`phase4/zclient_v2.py`) | keys read, packet | `main` | server |
| Ratchet (`zratchet.py`) | chain key, counter | `next_message_key`, `encrypt`, `decrypt` | the server uses a new object per packet and another for its ACK |
| Session store (`zsession.py`) | sessions with creation times | `create`, `get`, `evict_expired` | the server calls `create` only; reads the wall clock |
| Primitives (`zkem.py`, `zpow.py`, `zcrypto.py`, `zpacket.py`) | none | encapsulate, mine, encrypt, pack | all programs |
| Demo server and client (`demo/`) | `SEEN_NONCES`: nonce to arrival time; the client's future | `datagram_received`, `run` | each other by UDP, answer with 10 s timeout |
| Two-machine chat (`demo_twomachine/`) | `SEEN_NONCES`, `SESSIONS`, `FRAG_BUFFERS`, sequence counters | handshake, data, `handle_input` on both sides | each other by UDP |
| Browser proxies and dashboard (`browser/`) | `stats`: vault, chat, counters; the page's upload and download loops | `handle_browser_request`, `process_packet`, HTTP API, `uploadFile`, `downloadFile`, `sendChat` | page - TCP - client proxy - UDP - server proxy |
| Phase 2 prototype (`phase2/`) | key pair, two key files | `datagram_received`, both `main`s | each other by UDP and key files; the client reads no answer |
| Phase 1 baseline, measuring and drawing scripts | none | - | not modelled |

### What is hard, and what makes each part correct

* **Replay filter.** It forgets. It is correct if it forgets a nonce only when
  the window check refuses its packet, although one call of the handler reads
  the clock three times and the nonce is stored under the *sender's* timestamp.
* **Server v2.** Its registry, sessions and private keys die with it while
  packets and key files live on; the nonce is registered before anything is
  decrypted; two key files are written one after the other while clients read
  them. It is correct if a message is acted on at most once, ever, sessions are
  kept only with clients that hold the same key, no ratchet key is used twice,
  and an intact packet for the running server is never wasted.
* **Demo.** It has a registry of its own that stores *arrival* times, and a
  client that waits for an answer that may be lost, damaged, late or repeated.
* **Chat.** Fragments are lost, reordered, repeated and mixed with those of
  other messages; sessions and sequence numbers restart with the server.
* **Browser demo.** Requests are read in pieces from TCP, carried by datagrams
  without retransmission, and given up after two seconds although they may
  still be on their way; files are assembled from chunks that are stored and
  fetched one by one, and a request read in part is often answered as if it were
  whole. At the server proxy every datagram is a task; tasks
  overlap while they wait for a web server that may never send the byte they
  wait for, and the dashboard reads their shared figures at any moment.
* **Ratchet.** Its messages carry no number in the clear and every call, also a
  failed one, moves the chain. It is correct if no object uses a key twice, if
  used keys cannot be derived any more, and if what is read is exactly what
  arrives in step with the sender.
* **Session store.** Two methods decide expiry with `<` and `>` and at different
  readings of the clock. It is correct if no caller can tell: a session can be
  used for its ttl and never again, whoever uses or evicts it.
* **Phase 2.** It has no registry. What is left of replay protection is the
  window and the life of the key pair.

`PROJECT.json` lists the hazards with their lines and the properties that would
catch each of them.

## 2. The modules

| Module | Models | Notes |
|---|---|---|
| `WallClock` | `time.time()` | shared by the modules that extend it |
| `AtMostOnce` | abstract | what a server promises about submitted messages |
| `ReplayFilter` | `zreplay.py` | one action per outcome of `is_replay` |
| `ReplaySetBack` | the same filter under a wall clock that is set back | extends `ReplayFilter` by one action, the clock's |
| `ZeroRtt` | `zserver_v2`, `zclient_v2`, key files, network | extends `ReplayFilter`: `Accept` and `DropReplayed` contain its `Admit` and `Reject` |
| `DemoExchange` | `demo/` | |
| `Phase2` | `phase2/` | |
| `DoubleRatchet` | `zratchet.py` | any number of objects of one session key |
| `SessionLease` | abstract | what a session store promises |
| `SessionStore` | `zsession.py` | one action per method and outcome |
| `FragChat` | `demo_twomachine/` | |
| `Vault` | `browser/`: page, client proxy, and what the server proxy stores | |
| `ServerProxy` | `browser/z_server_proxy.py`: tasks, forwarding, figures | the answers' contents are `Vault`'s business |
| `*Proofs` | - | theorems, one module per model; those about `ReplayFilter` and `ReplaySetBack` stand in `ZeroRttProofs` |
| `MC*` and `*.cfg` | - | small instances |

`ZeroRtt`, `DemoExchange` and `FragChat` instantiate `AtMostOnce` with a
refinement mapping (`sent` is the set of packets sent, `executed` the number of
times a server has decrypted each) and state `AtMostOnce!Spec` as a property.
`ZeroRtt` is also shown to implement `ReplayFilter!FilterSpec`, and
`SessionStore` to implement `SessionLease`: there a session disappears at the
tick at which it expires, while in the code it stays until `evict_expired` runs;
the mapping takes the sessions that `get` would return.

### How state and actions correspond to the code

* A handler (`datagram_received`, `process_packet`, one call of `is_replay`) is
  one action, because it contains no `await` on the paths modelled: asyncio runs
  it to its end. The one path that has some, the forwarding branch of
  `process_packet`, is split at them: `Forward`, `Open`, `Read`, `ReadEof`,
  `BackendFails`. Where a handler reads the clock several times the action takes the
  readings as parameters, `now <= t1 <= t2`.
* What the code does in several steps that others can observe is several
  actions: the server's `main` truncates and fills each key file (`Start`,
  `WriteKem`, `OpenX`, `WriteXAndListen`); the client reads one file and then
  the other (`ReadKem`, `ReadX`); an upload sends, waits and goes on
  (`SendChunk`, `GetAnswer`, `GiveUp`); a download asks for the number of chunks
  and then for one after the other, each request whole or cut (`AskInfo`,
  `FetchChunk`, `FetchCut`).
* The network is a set of datagrams that is never emptied: a datagram may be
  delivered never, late, in any order and again. `ZeroRtt` and `DemoExchange`
  also let it damage copies: in the part the proof of work covers (`"header"`)
  or in the part the AEAD and the key exchange cover (`"sealed"`).
* A key pair is named by the server incarnation that drew it, a client run by
  its fresh random nonce and session id. Cryptography is ideal: both sides
  derive the same key exactly if the client read both public keys of that
  incarnation, and only an intact message under that key decrypts.
* Variables marked "history" count what the properties talk about (how often a
  packet was admitted, a message decrypted, a fragment buffered); no guard of
  the program reads them. The bounds `MaxRepeats` and `MaxPosts` do.

## 3. What TLC checks

| Run | Instance | Checks | Distinct states |
|---|---|---|---|
| `zero_rtt` | 2 clients, 2 incarnations, clock 0..3, timestamps 0..2, window 1 | types; the filter's `AdmittedOnce`, `ForgottenIsStale`, `RegisteredWasAdmitted`, `AdmitPrunes`; `SessionsShareKeys`, `FreshMessageKeys`, `OnlyDamageWastesANonce`; refinement of `AtMostOnce` | 159 932 |
| `replay_set_back` | 2 nonces, clock 0..3 set back twice, timestamps 0 and 1, window 1 | `AdmittedPerSetBack` | 4 385 |
| `demo_exchange` | a punctual client and one whose clock is one tick ahead, 2 incarnations, clock 0, 1, 2, 4, calls of up to 2 ticks, window 1, fair timer | types, refinement of `AtMostOnce` for the punctual client, `AtMostTwice`, `AnsweredWasRead`, `EveryRunEnds` | 1 392 336 |
| `demo_ahead` | the same clients, 1 incarnation, clock 0..3, calls without delay | refinement of `AtMostOnce`: **violated** | - |
| `phase2` | 1 client run, 3 incarnations, clock 0..5, timestamps 1 and 2, window 1 | types, `RepeatsAreClose`, `AckMeansRead` | 42 818 |
| `ratchet` | 2 objects, 2 texts, chains of 4 keys | types, `FreshKeys`, `SpentKeysAreGone`, `ReadsInPlace`, `ReadsForward` | 361 034 |
| `session_store` | 2 sessions, ttl 2, clock 0..5, two uses each | types, refinement of `SessionLease` | 5 449 |
| `frag_chat` | 2 clients, 2 incarnations, messages of 1 or 2 fragments, one repeated delivery | types, refinement of `AtMostOnce` for greetings, `ShownPerArrival`, `CompleteIsShown` | 1 466 814 |
| `vault` | a tunnelled upload of 3 chunks, a direct one of 1 under the same name and one of 1 under a name that is a beginning of it, a download whose requests can be cut, a chat message, 2 incarnations, fair loops | types, `AckedIsStored`, `SavedIsUploaded`, `SavedHasNoGaps`, `UploadEnds` | 1 261 473 |
| `vault_cut` | the same, one incarnation | `TransferredIsStored`: **violated** | - |
| `vault_replay` | the same, one incarnation, the chat message handled up to twice | `PostedOnce`: **violated** | - |
| `server_proxy` | 4 datagrams of 4 requests (local, cut, forwarded with a reply of 3 and of 4 bytes), block 2, limits 2, fair web server | types, `BooksBalance`, `LogIsNewest`, `ActiveSessions`, `CutWithinBlock`, `ForwardEnds` | 292 561 |

Every property of a passing run has a mutant: a changed definition, of the kind
a plausible bug would be, under which TLC finds the property violated. The
mutants stand beside the definitions they change, marked `mutant`.

**Why the bounds are enough.** The hazards need two clients (or nonces) that
meet in one registry, dictionary or buffer, one restart, and one repeat. The
clock of each instance runs past window and timestamps, so that packets are
admitted, expire, are forgotten and come back; timestamps may lie ahead of the
clock, behind it, and at both edges of the window. Two fragments and one repeat
are the least with which a message can be incomplete, out of order and
completed twice; a three-chunk upload is the least with a gap that has chunks on
both sides, and one of one chunk under the same name is outlasted by it and
can overwrite its beginning. The index 2 is the first that a request cut between
its digits turns into another one, since requests count in `Base` 2 there and not
in 10. The readings of `demo_exchange` skip one, so
that a stalled call forgets the nonce it registers and its packet can come back,
once inside the window and once outside; those of `replay_set_back` leave every
window, and the clock comes back twice. The prototype's server keeps nothing between packets, so one client
run shows all that can happen to a message there. Chains of four keys let a
message be skipped, repeated and caught up with. The proxy's limits (4096 bytes,
20 lines, 10 keys) become 2, so that four datagrams overrun each, and a reply of
two full blocks and one that ends within its second are both read in every
possible cut. Symmetry is used where only safety is checked. `CHECK_DEADLOCK FALSE` stands where the
system may stop: every client has run and the clock has reached its last tick.
The proofs in section 4 remove the bounds for every module, but not for liveness.

**Fairness.** `DemoExchange!FairSpec` asks for the ten-second timer of
`asyncio.wait_for` only: nothing of the network or of the server.
`Vault!FairSpec` asks for the page's loop, for the client proxy's two-second
timer, and, for an upload at the HTTP API, that the browser's connection ends,
with an answer or in failure. It asks nothing of the tunnel, and not that any
request be answered.
`ServerProxy!FairSpec` asks more, because `process_packet` has no timer of its
own: that the web server accepts the connection and sends the bytes of its
reply, and that the event loop resumes a task whose wait is over (`Continue`). It
does not ask that the web server close the connection (`ReadEof`), which an
HTTP/1.1 server need not do; therefore `ForwardEnds` excludes replies that are a
multiple of the block, and with them TLC finds the task that waits for ever.

### What the violated runs show

* `demo_ahead`: `demo/zdemo_server.py` forgets a nonce 30 s after *arrival* but
  accepts the packet until 30 s after its *timestamp*. With a client clock that
  is ahead, a repeated packet is read twice. The packets of the other clients are
  not (`PunctualRefinement`), and this one is not read a third time
  (`ReadAtMostTwice`).
  `ReplayFilter`, which stores the timestamp, does not have this (theorem
  `FilterAdmitsOnce`).
* `vault_cut`: the client proxy forwards a partly read request; the server
  answers "ok" to a chunk it could not parse, and the page reports a transfer
  that lacks the chunk. Nothing else can bring that about: a transfer whose
  requests were all read to their end is complete, whatever is lost, repeated or
  late (`TransferredWhenReadWhole`). A download has the same fault at
  `browser/z_server_proxy.py:197`: a request cut in its first line is answered
  with an empty chunk, or with that of a shorter index, and the page assembles
  it. `SavedIsUploaded` and `SavedHasNoGaps` say how far that reaches: to the
  place whose own request was cut, and no further.
* `vault_replay`: the dashboard lists a "30s nonce window" for a tunnel that has
  no registry; a repeated datagram posts its chat message twice.

Further differences between text and code, which need no run to be seen: the
table of `src/README.md` (line 93) claims replay prevention by "Nonce registry +
30s timestamp window", but the chat's data packets carry neither, so that a
repeated message is shown again, if each of its fragments is repeated
(`OnlyRepeatsShowTwice`); after its timeout the demo client still prints "Z-Protocol two-machine exchange
successful" (`demo/zdemo_client.py:167`), and the chat server's prompt promises
"the last active client" (`demo_twomachine/zdemo_server.py:50`) while line 146
takes the session that was inserted last.

## 4. What TLAPS proves

All theorems hold for every value of the constants that satisfies the named
assumptions beside the CONSTANTS of each module: clock readings and timestamps
are integers, windows, limits and bounds natural numbers (those the code divides
by or cuts at are not 0), and the kinds of uploads and requests are subsets of
all of them that exclude each other.

* **`ZeroRttProofs`, the filter.** The invariant says that an admitted packet is
  registered under its own timestamp or its timestamp has left the window for
  good (`ForgottenIsStale`), that registered packets were admitted, and that no
  packet was admitted twice. `AdmittedOnce` is not inductive alone: that a nonce
  is unknown says nothing about the past until `ForgottenIsStale` ties the
  registry to it; then `Admit`'s window check contradicts the second case.
  `FilterPrunes` is the action property.
* **`ZeroRttProofs`, the clock that is set back.** `ForgottenIsStale` is lost then.
  What stays true is an account: a packet was admitted at most once more than the
  clock was set back, and no more often than that unless it would be refused now.
  An admission pays with "not refused before, refused from now on", setting the
  clock back with its own count. `SetBackAdmits` is the bound.
* **`ZeroRttProofs`, the exchange.** `FilterRefined` first shows that every step of the system
  is a step of the filter or a stutter, so the filter's invariant holds in the
  composition. On top of it: a message is decrypted only by the incarnation
  that holds its keys, while it was admitted by that incarnation's filter. A
  restart empties the filter but changes the incarnation. From this follow
  `FreshKeys`, `SharedSessions`, `NoWaste` and `Refinement`; `ActsOnce` reads the
  refinement back as an invariant of the system.
* **`DemoExchangeProofs`.** `AnsweredIsRead` needs no assumption on clocks.
  `PunctualRefinement` is about the clients whose `Lead` has no positive element:
  a timestamp of theirs is never later than the arrival, so the registry of
  arrival times forgets late enough, whoever else's packets prune it. The run
  `demo_ahead` shows that the others cannot be included. `ReadAtMostTwice` is
  about all: a packet is let in no earlier than a window
  before its timestamp, so when its first arrival is forgotten the timestamp is
  past; a second arrival is therefore later than the timestamp, and when that one
  is forgotten the packet is stale (`ReadTwice`).
* **`DoubleRatchetProofs`.** A sealed message lies behind its sealer's chain, a
  read one behind its reader's; `FreshKeys` and `SpentKeysAreGone` follow. For an
  object that only receives, the chain counts its arrivals, so the message that
  arrives n-th is tried with the n-th key: `ReadsInPlace`.
* **`SessionStoreProofs`.** Every call maps to a step of `SessionLease` or to a
  stutter: `evict_expired` deletes only what `get` refuses already, because
  `> ttl` implies `>= ttl`. `Thoroughness`, which no run checks, says that
  what it leaves can be used, or is exactly as old as the ttl.
* **`Phase2Proofs`.** A reading happened within the window of its packet's
  timestamp and in the incarnation whose keys the client had read; both are fixed
  when the packet is sent. `RepeatsAreClose` is the difference of two of them.
* **`FragChatProofs`.** Three arguments. For greetings: within an incarnation the
  registry, across incarnations the key. `ShownPerArrival`: the showings of a
  message and a buffer that holds one of its fragments are paid for by different
  arrivals of that fragment (`SavedUp`), which `OnlyRepeatsShowTwice` reads for one
  message. `CompleteIsShown`: as long as a message
  that has its buffer for itself was not shown, each of its fragments that has
  arrived waits there (`Pending`), and a buffer is never left full (`NotFull`).
* **`VaultProofs`.** A lemma first reduces every step to what it can do to
  packets, answers, uploads, vault and downloads. The invariant: a packet asks
  for a chunk that was reached, an answer is for a packet, an acknowledged chunk
  was answered. While an upload has its name for itself (`Sole`), what lies there
  is its own and was sent to the running server (`Own`), and what that server has
  answered stays (`Kept`): the two halves of `AckedIsStored`. If moreover no
  restart came between (`Alone`), the stored indices are an interval from 0, and a
  download that counted them finds each that it asks for with an uncut request
  (`Fetched`); `TransferredWhenReadWhole` follows too. A cut request still reads
  from this name only, so that nothing foreign gets into the file (`Unmixed`). To be alone is lost for good (`AloneStays`), also by a restart: the
  packets of an upload that has stored anything are of an earlier incarnation
  then. `SavedHasNoGaps` cannot rest on this, as its uploads share a name: its
  invariant says that under one server the indices are an interval from 0 that
  covers what any of these uploads was answered (`Gapless`), because a chunk is
  sent only when all before it were answered, and that overwriting removes no
  index, so that an uncut request of a download finds what was counted (`Filled`).

* **`ServerProxyProofs`.** A new task joins the sets of its state, one that goes
  on moves within them; so the counters keep up (`BooksBalance`), and the line of
  every request moves down by one with each later one (`LogIsNewest`). For
  `ActiveSessions` the invariant adds that the key list holds nothing twice and,
  while it is short, every key so far (`KeysInv`). For `CutWithinBlock` it adds
  that a task which reads on has read full blocks (`WholeBlocks`): a last read of
  `n` bytes, less than a block, then leaves the remainder `n`.

Only model-checked: liveness (`EveryRunEnds`, `UploadEnds`, `ForwardEnds`), which
is out of the prover's reach. Every other property of a passing run is a theorem.

## 5. Assumptions and what is not modelled

* **The wall clock never runs backwards.** If an administrator sets it back, an
  evicted nonce's timestamp is inside the window again. `ReplaySetBack` shows what
  that costs the filter of the v2 server; the other results that rest on
  the clock may fail then. A clock set back while a call of the filter runs is left out.
* **Random values do not collide** (nonces and session ids of 64 bits), and
  cryptography is ideal.
* **`FragChat`** leaves out the handshake's timestamp and proof-of-work checks
  (a packet they refuse behaves as one that is lost) and damaged datagrams.
  In both chat and vault, key files of another incarnation make every message
  unreadable, which `FragChat` models by `key` and `Vault` as loss.
* **`Vault`** leaves out the contents of the read-only listings. A download's
  request and its answer are one step, taken when the server answers: the request
  changes nothing there, and the page's loop waits for it. How a request is cut decides its effect:
  within an upload's or a chat message's headers it gets no answer (`"head"`), in
  its body an "ok" (`"body"`); in the first line of a download's it gets an empty
  chunk or that of a shorter index (`CutChunk`), the count of a file whose name is
  a beginning of the one asked for (`ReadAs`), or an answer that fails the
  download (`FailDownload`). A file without chunks is "transferred" as soon as its
  upload starts, and leaves nothing that could be downloaded. The page's upload
  button, which a failed upload leaves disabled until the page is reloaded, is
  layout.
* **`ServerProxy`** represents an answer by its size. `bytes_tunneled` and
  `last_enc_time`, set where `packets_decrypted` is, are shown and never used.
* **`DoubleRatchet`** states freshness per object. Two objects of one session key
  share their keys; the v2 server relies on advancing the second by hand, which
  `ZeroRtt!FreshMessageKeys` covers, and would repeat the ACK's key if it
  continued a stored session, which no code does.
* **`Phase2`** gives a client the keys of one incarnation or none that fit; how a
  reader meets half-written key files is `ZeroRtt`'s business.
* **Not modelled:** the old server and client in phases 3 and 4 (byte for byte
  the files of phase 2 beside another packet module: the server does not start
  and no server accepts the client's packet), `zdemo_interactive.py` (raises
  `NameError` before it sends anything), the TLS baseline, the measuring and
  drawing scripts (sequential, and without state of the protocol), colours and
  saved copies. The display of the dashboard page is left out.

## 6. Plan

Done, in this order: `WallClock`, `ReplayFilter` and its proofs; `AtMostOnce`,
`ZeroRtt` and its proofs; `DemoExchange` and its proofs; `FragChat`; `Vault`;
`DoubleRatchet`, `SessionStore` and `Phase2` with their proofs; `ServerProxy`;
the proofs of `FragChat`, `Vault` and `ServerProxy`; `ReplaySetBack`, and the
exact conditions of what the violated runs show.

Left: a module for `znetem.py`, whose measuring process kills whoever holds its
port, possibly itself, before it removes the netem rule.
