# TLA+ models of keyring-store

keyring-store (`src/store/src`) is a storage co-process. A host (an Elixir
application) starts it and talks to it over stdin/stdout in length-prefixed
bincode frames. It keeps a content-addressed blob store and a document store
in one redb database, and it offers the primitives of a Merkle-style
anti-entropy sync between peers. These modules model the program's control
and state, and TLC checks the properties that make it correct.

## 1. Inventory

### Components

| Component | Source | State | Operations |
|---|---|---|---|
| Digest | `store.rs`, `merkle.rs` (blake3) | none | `blake3::hash`, `Hasher::update/finalize` |
| Storage | `store.rs` | four redb tables: `blobs` (digest → bytes), `documents` (id → meta), `doc_data` (id → CRDT state), `doc_hashes` (id → digest of state) | `open`, `put_blob`, `get_blob`, `has_blob`, `put_document`, `get_document`, `delete_document`, `list_documents`, `get_doc_hash`, `get_doc_hashes`, `all_doc_hashes` |
| Protocol | `protocol.rs` | none | catalogue: 10 request variants, 11 response variants, `Root`, `Change` |
| Framing | `main.rs` `read_frame`, `write_frame` | the stdin/stdout byte streams | read a 4-byte big-endian length and a body; write length, body, flush |
| Dispatcher | `main.rs` `handle_request`, `main` | the loop position; the store it borrows | one arm per request. Each arm calls Storage and maps `Err` to `Response::Error` |
| Merkle | `merkle.rs` | none (pure) | `compute_root`, `diff_roots` (main.rs calls neither) |
| CLI, logging | `main.rs` | none | clap parsing, tracing to stderr |

### How the parts interact

The host writes frames to stdin. The serial loop in `main` reads one frame
(`read_frame`) and decodes `(ref_id, Request)`. A decode error ends the
process. The loop then calls `handle_request`, which calls the Store, and
writes `(ref_id, Response)` with `write_frame`. Each store method runs its own
redb transaction. Some handlers run several transactions:
- `GetChanges` runs one read per unknown document.
- `ApplyChanges` runs one `get_doc_hash` and at most one `put_document` per change.

Sync is done by the host: it calls GetRoots on one peer, GetChanges on the
other, and ApplyChanges back on the first. The store processes never talk to
each other.

### What is hard here

- Failure partway through a request. A storage error can hit any store call.
  In `ApplyChanges`, changes before the failing one are already committed.
- Retries. After an Error, or after a crash between two commits, the host
  resends a batch to a store that has only part of it applied.
- Trusting peer data. The hash advertised in a `Change` is never checked.
  The skip test compares it with the stored hash.
- Sync semantics. GetChanges decides what the remote lacks from hash values
  alone.
- Merkle math. The tree shape for odd layer lengths, sorting, leaf/node
  ambiguity, and a HashSet iteration order that changes between runs.
- Stream edges. EOF inside a length header, the `u32` cast of a response
  length, a 4 GiB allocation driven by the header, and blocking on full pipes.

### What each component must guarantee

- Storage: the three document tables hold the same ids, and each stored hash
  is the digest of its stored state (spec invariants 1 and 2). Blobs are
  content-addressed (invariant 3).
- Dispatcher:
  - Every frame read is answered with its own ref id, in order, unless a
    decode error ends the session.
  - A storage error is reported as `Error`.
  - A retried ApplyChanges converges to the result of one clean run.
- Merkle:
  - `compute_root` depends only on the set of pairs, and a different tree
    gives a different root.
  - `diff_roots` is exact and canonical.
- Sync: a round gives the destination every document of the source, and
  rounds repeated once writes stop leave both peers with the same documents.

The hazards are listed with their source lines in `PROJECT.json` under
`hazards`.

## 2. Modules

| Module | Models | Composes |
|---|---|---|
| `Digest` | blake3 as an injective term constructor `[b3 |-> bytes]`; `ZeroRoot` | — |
| `Protocol` | the message catalogue of `protocol.rs` (requests, frames, responses, `Change`, `Root`) over the model's constants | EXTENDS Digest |
| `Store` | the four tables, each write transaction, each read | EXTENDS Protocol |
| `Dispatcher` | the loop of `main` and every arm of `handle_request`, the stdin/stdout pipes, the host as environment | EXTENDS Store |
| `DocumentService` | the abstract service: documents as ⟨meta, state⟩, blobs as a set, requests executed in order with one answer each; no tables, no cached hashes | EXTENDS Protocol |
| `MC_Dispatcher` | instantiates Dispatcher (ids 1, 2) | EXTENDS Dispatcher |
| `PortRestart` | the port dying anywhere in the loop (also between the commits of one ApplyChanges), `main` starting again with `Store::open` on the same directory, and a host that writes its unanswered requests again | EXTENDS Dispatcher |
| `MC_PortRestart` | instantiates PortRestart (ids 1, 2) | EXTENDS PortRestart |
| `Framing` | `read_frame`, `write_frame` and the loop at byte level: stdin written in pieces and closed anywhere, the header arithmetic, the host parsing stdout | — |
| `MC_Framing` | instantiates Framing with 2-bit bytes | EXTENDS Framing |
| `Merkle` | `compute_root`, `diff_roots` as (recursive) operators | EXTENDS Digest |
| `MC_Merkle` | bounded input enumeration, reference definitions, properties | EXTENDS Merkle |
| `Sync` | two peers, application writes and deletes, the host's round split into a fetch (GetRoots on dst, GetChanges on src) and an apply (ApplyChanges on dst) that may fail after any prefix | INSTANCE Dispatcher (its operators) |
| `MC_Sync` | instantiates Sync | EXTENDS Sync |
| `SyncConverge` | Sync after the applications stop writing: any state the writes can leave, then only rounds, run one at a time or crossing; convergence | EXTENDS Sync |
| `MC_SyncConverge` | instantiates SyncConverge | EXTENDS MC_Sync, SyncConverge |

### Correspondence with the code

- Byte strings are abstract values: model values for payloads and metadata,
  and `<<>>` for the empty meta that ApplyChanges writes. A digest is the
  record `[b3 |-> s]`. It can itself be part of a byte string: the 64 bytes
  `a ++ b` of two digests are the sequence `<<a, b>>`, and the Merkle node is
  `Digest(<<a, b>>)`, exactly as `Hasher::update(a); update(b)` hashes the
  concatenation.
- A table is a function whose domain is the set of keys present. Document ids
  are naturals, and `<` stands for redb's bytewise key order, which decides
  `list_documents` and `all_doc_hashes` order.
- A redb write transaction is one step that commits all of its writes. A
  failed transaction changes nothing.
- Each `Handle*` action is one whole arm of `handle_request`, with every store
  call it makes. The loop is serial, so nothing interleaves inside a handler.
  The action consumes the head frame and stores the result in `reply`.
  `WriteResponse` is a separate step because `write_frame` blocks while
  stdout is full.
- Storage errors: every store call may return `Err`.
  - A read-only handler answers either its result or `Error` (`ReadOnly`).
  - A single-transaction writer either commits and answers, or changes
    nothing and answers `Error` (`Fail`).
  - `HandleApplyChanges` either applies the whole batch and answers `Ok`, or
    picks the change `n+1` whose get or put fails, commits the first `n`
    changes (`ApplyPrefix`), and answers `Error`.
- `Shutdown` is `read_frame` returning `None` on EOF. `DecodeFailure` is the
  `?` on `bincode::deserialize`. A `Garbled` frame stands for any payload
  bincode rejects.
- The host sends requests with ref ids it is not waiting on, drains stdout,
  and may close stdin. `awaiting` is its list of unanswered ref ids.
- In `Framing` a stream is the list of its frames' body sizes and a count
  of bytes written. Header bytes are computed: `ToBeBytes`/`FromBeBytes`
  are `u32::to_be_bytes`/`from_be_bytes`, and `WriteFrameHeader(n)` is
  `ToBeBytes(n % 2^32)`, the `as u32` cast. `ReadFrame` is one loop
  iteration that finds a whole frame (`read_exact` blocks until then) and
  writes one response. `EofInHeader` is the `UnexpectedEof → Ok(None)`
  arm (main.rs:37), `EofInBody` the `?` on the body read. The host writes a
  frame whole or in a first piece of any length (`HostWrite(s, k)`),
  finishes it (`HostWriteRest`), closes stdin at any point (`HostClose`),
  and parses stdout (`HostRead`): at a response boundary it reads the header
  written there, elsewhere four body bytes read as any length.
- Refinement. `Dispatcher` defines `Svc == INSTANCE DocumentService WITH`
  a mapping:
  - a document is what DOCUMENTS and DOC_DATA hold for its id, and
    DOC_HASHES is hidden;
  - the blob set is the range of BLOBS;
  - the pending responses are the stdout pipe followed by the reply not yet
    written;
  - the host's `awaiting` is hidden.
  `ImplementsService == Svc!Spec` is checked as a PROPERTY. Every handler
  step is an abstract `Execute`, `DecodeFailure` is `Abort`, `Shutdown` is
  `Stop`, and `WriteResponse` is a stuttering step. The abstract spec
  answers GetRoots, GetChanges and the skip test from `digest(state)`, so
  the check shows the cached hashes never give a different answer.
- Sync. `Fetch(src, dst)` computes GetRoots on dst and GetChanges on src in
  one step and records the batch, src's hashes and whether the content test
  is unambiguous. `LocalPut` and `LocalDelete` on dst while a round is in
  flight are recorded in its `written` set. `Apply(dst)` commits the whole
  batch (Ok) or a prefix (Error). `lastRound` keeps the round last applied
  with Ok until the next local write; it is history for the properties.
- Convergence (`SyncConverge`). `Quiescent` is the set of tables a peer can
  hold when its application stops writing: each document has a meta (empty
  after ApplyChanges), a state, and the digest of that state, as
  `put_document` writes them. The behaviour starts in any pair of such
  tables with no round in flight, and then only `Fetch` and `Apply` run.
  `HostFetch` adds the host's choice: a serial host (`SerialHost = TRUE`)
  starts a round only when none is in flight.
- Crash and restart (`PortRestart`). The loop's actions are Dispatcher's,
  unchanged. `Crash` is the death of the process at any point: redb keeps
  what committed, while the stdin pipe, the frame in hand and the reply not
  yet written are lost. `CrashInApply` is a death inside `ApplyChanges`
  after `n` of the batch's per-change transactions committed. A behaviour
  starts with no process (`session = "down"`) and a fresh directory.
  `Restart` is `main` from its first line, at the first start or after a
  death: `Store::open` on the same directory keeps the tables
  (`StoreOpen`), and the new process gets fresh pipes. `RestartFails` is
  `Store::open` returning `Err` (exit 1, counted as a death).
  The host (outside the repository) reads what the dead process wrote,
  then queues every ref id it is still waiting on (`resend`) and writes
  those requests again, in order, before new ones. `sent` keeps each
  request with the documents as they were when it was first written; this
  is history for the properties.
- `GetChanges.known_roots` is collected into a `HashSet` before use, so the
  model takes it as a set.

## 3. Runs

| Run | Config | Expect | What it shows |
|---|---|---|---|
| `dispatcher_safety` | `MC_Dispatcher.cfg` | pass | `TypeOK` and `StoreConsistent` hold for every mix of pipelined requests of all 10 kinds, storage errors at every call, garbled frames and EOF (about 2.3 M states). |
| `dispatcher_service` | `MC_Dispatcher_live.cfg` | pass | With a serial host. `RetryConverges`: resending a failed ApplyChanges batch over any committed prefix gives the same tables as one clean run. `EveryRequestAnswered`: every request is eventually answered unless a garbled frame ends the session. `ImplementsService`: every behaviour of the loop, the handlers and the tables, with storage errors, is a behaviour of `DocumentService`; each answer is the catalogue's answer on the documents as earlier requests left them. |
| `apply_partial_error` | `MC_Dispatcher_error.cfg` | violation | `ErrorLeavesStoreUnchanged` fails. ApplyChanges of two changes commits the first, fails on the second, and answers Error. |
| `framing` | `MC_Framing.cfg` | pass | `HostDecodesResponses`: with responses of 0, 1 and 255 bytes (255 is the largest length the scaled header holds) the host parses exactly the responses written, in order. `CompleteFramesHandled`: a frame the host wrote in full, in one write or two, is read, unless stdin ended inside an earlier frame. |
| `framing_eof_in_header` | `MC_Framing_eof.cfg` | violation | `CleanExitAtFrameBoundary` fails. The host writes 1 byte of a header and closes stdin; the port ends in the clean-EOF state (exit 0). |
| `framing_oversize_response` | `MC_Framing_oversize.cfg` | violation | `HostDecodesResponses` fails. A response of `2^32` (scaled: 256) bytes goes out with the length 0, and the host parses its body as further frames. |
| `merkle_reference` | `MC_Merkle.cfg` | pass | `RootIsOrderedTree`: `compute_root` equals the left-complete binary tree over the id-sorted leaves, for every input permutation, up to 5 leaves. `DiffIsExact`: `diff_roots` returns exactly the differing ids, sorted, for every HashSet iteration order. |
| `restart_resend` | `MC_PortRestart.cfg` | pass | `AnsweredAcrossRestarts`: with one death (any point, also inside a batch, or a failed `Store::open`) every request the host writes is answered. `ResendKeepsOutcome`: a request answered with anything but Error left the documents as one run of it would, though it may have committed, died and run again (456 K states, under 3 minutes). |
| `restart_delete_notfound` | `MC_PortRestart_delete.cfg` | violation | `DeleteNotFoundMeansAbsent` fails. The host puts doc 1, then deletes it; the delete commits and the port dies before the response. The resent delete is answered NotFound. |
| `sync_round` | `MC_Sync.cfg` | violation | `RoundDeliversSource` fails. A holds doc 1 = p1 and B holds doc 2 = p1. A clean round from B to A sends nothing, because p1's hash is already among A's hashes, so A never gets doc 2. |
| `sync_converge` | `MC_SyncConverge.cfg` | pass | `Reconciles`: from each of the 625 states the writes can leave, a serial host that keeps running rounds brings both peers to the same documents for good, unless a hash sits under different ids on the two peers. `DeliversWhenUnambiguous`: each Ok round delivers src's documents when the content test is unambiguous. |
| `sync_crossed` | `MC_SyncConverge_crossed.cfg` | violation | `Reconciles` fails. A holds doc 1 = p1 and B holds doc 1 = p2. Rounds A→B and B→A are both fetched, then both applied: A now holds p2 and B holds p1. Crossing again swaps them back, forever. |

### Findings

1. **ApplyChanges is not atomic** (`main.rs:159`). An `Error` answer can
   follow committed changes. Spec §7's "no partial state" holds for each
   transaction but not for the request. The retry run shows that resending
   the batch is safe.
2. **GetChanges keys on content, not identity** (`main.rs:126`). A document
   whose content equals another document the remote holds is never sent.
   Peers that hold equal content under different ids never reconcile.
3. **No leaf/node domain separation in `compute_root`** (`merkle.rs:28`).
   Two leaves `h, h` have the root `blake3(h ++ h)`, which is also the
   one-leaf root of a document whose state is the 64 bytes `h ++ h`. This
   contradicts the rationale in spec §4.3. No run checks it: the port never
   calls `compute_root`, and `RootIsOrderedTree` already pins the tree
   shape that makes the collision possible.

4. **EOF inside a header exits 0** (`main.rs:37`). Spec §6 and §7 make a
   short read fatal with a non-zero exit; `read_frame` treats any
   `UnexpectedEof` on the header as clean EOF.
5. **Response lengths wrap** (`main.rs:48`). `data.len() as u32` silently
   truncates a response of 4 GiB or more (a large `Changes` list; a `GetBlob` response cannot get there, because the
   `PutBlob` request that stored the blob carries the same bincode overhead
   and requests are capped below 4 GiB), and
   the host loses the frame boundaries; spec §7 calls an oversize length a
   framing error.

6. **Crossed rounds swap versions forever** (`main.rs:159`). ApplyChanges
   upserts every change whose hash differs, with empty meta, and has no
   notion of which version is newer. Two rounds in opposite directions that
   overlap each install the other peer's old state, so peers that disagree
   on a document swap versions instead of converging. Spec §1 promises
   reconciliation. That holds only when the host runs rounds one at a time
   (`sync_converge` passes), which the spec does not require. The same
   overwrite loses a document the application writes on dst during a round.
   The comment at `main.rs:157` says a real app would merge there.

7. **A resent delete answers NotFound** (`main.rs:90`). Requests carry no
   identity the store remembers, so a request resent after the port died
   runs again. The documents end up right (`ResendKeepsOutcome` holds), but
   a delete that removed the document is answered NotFound. Spec §3 makes
   NotFound the answer for an absent id, so the host cannot tell the two
   apart.

### Bounds and why they are enough

- Dispatcher:
  - 2 ids, 2 payloads, 1 meta plus the empty meta, batches of up to 2
    changes, GetRoots queries of up to 2 ids, and pipes of capacity 1.
  - `dispatcher_safety` uses 2 ref ids, so two requests can be in flight
    (one in the pipe, one being handled).
  - Two ids and two payloads cover every branch of the skip test: same id
    with the same or another hash, an absent id, and a lying hash.
  - Batches of 2 give a failure after a committed change and two changes to
    the same id.
  - `dispatcher_service` uses 1 ref id (serial host) to keep the
    liveness check small. Pipelining does not change what a handler does.
- PortRestart: the Dispatcher's bounds with 1 ref id, queries of 1 id and
  `MaxCrashes = 1`. One death already lands at every point of the loop:
  idle, before a handler, after its commit and before the reply, between
  the two changes of a batch, or as a failed open. Two deaths, such as a
  second death while a half-applied batch is resent, are left out to keep
  the run under 5 minutes. A single ref id makes the
  host serial, so `sent` pins the documents each answer is compared with.
- Merkle:
  - Leaf sequences of up to 5 leaves cover layer lengths 1 to 5, so odd
    promotion happens at more than one level (5 → 3 → 2 → 1).
  - Leaves are drawn from the digests of 3 atoms, so a misordered pair
    changes the root.
  - Diff inputs have up to 2 pairs per side over 3 ids, including duplicate
    ids (the HashMap keeps the last one).
- Sync: 2 peers, 2 ids, 2 payloads, 1 meta. This gives content
  collisions across ids, writes on dst between fetch and apply, deletes,
  and failures after 0 or 1 of 2 changes.
  - Rounds run both ways, and both can be in flight at once.
  - `sync_round` uses symmetry on peers and payloads (`MC_Symmetry`): it
    checks only an invariant, and no definition names a peer or a payload.
    Document ids are ordered, so they are not permuted.
  - `SyncConverge` starts from all 625 pairs of quiescent tables: each peer
    holds each of the 2 ids absent, or with meta m1 or empty, and state p1
    or p2. This covers the conflicts (one id, two states), the collisions
    (one state, two ids) and documents on one side only. It uses no
    symmetry, because it checks liveness.
- Refinement (in `dispatcher_service`): 1 ref id. With 2 (pipelined), it checks the same 2.3 M
  states as `dispatcher_safety` in about 4.5 minutes, close to the time
  limit. Handlers are atomic and serial, so pipelining changes only when a
  frame waits, not what a handler answers.
- Framing: bytes of 2 bits, so the 4-byte header spans 0..255. TLC's
  integers are 32-bit signed and cannot hold `2^32`; the arithmetic is the
  same at any byte width, and the edge cases keep their place (largest
  length `2^(4w) - 1`, first oversize length `2^(4w)`). Requests of 0 and 2
  bytes with every split point, up to 3 frames: EOF lands before, inside
  and right after a header, inside a body and at a boundary.
- `CHECK_DEADLOCK FALSE`:
  - Dispatcher: the process really stops, after EOF or a decode error.
  - PortRestart: the same clean EOF stop. A dead process is always
    restarted, because `Restart` needs only stdout drained.
  - MC_Merkle: the input enumeration ends at its bounds.
  - Framing: the port stops after EOF; the host stops at `MaxFrames`.
  - Sync checks deadlock: local writes are always enabled. SyncConverge
    checks it too: a round can always be fetched or applied.

### Fairness

- `WF_vars(Port)`: the loop is the process's only thread, and it runs
  whenever a frame, a pending reply or EOF lets it.
- `WF_vars(HostReceive)`: the Elixir port driver reads stdout as data
  arrives. Without it, a full stdout blocks `write_frame` forever (the
  deadlock hazard).
- Framing: `WF_vars(Port)` for the same reason, and `WF_vars(HostRead)`
  for the port driver draining stdout.
- PortRestart keeps both and adds `WF(Restart)`: the supervisor always
  starts a dead port again. It also adds `WF(HostResend)`: the host writes
  its queued requests. Deaths are bounded by `MaxCrashes`, so the fairness
  is not defeated by endless deaths.
- The host is under no obligation to send or to close stdin.
- SyncConverge: strong fairness on `HostFetch(src, dst)` for each pair, for
  a host that keeps running rounds both ways. A serial host disables one
  direction while the other is in flight, so weak fairness would not do.
  It also has strong fairness on `Committed(dst)`, an `Apply` whose
  ApplyChanges returns Ok, because storage errors are transient: a batch
  retried often enough commits. These are assumptions about the host and
  the disk. The code itself does not schedule rounds.

## 4. Not modelled, and the plan

Not modelled:
- CLI and logging, since they change no state the properties distinguish.
- bincode's byte layout. Encode and decode are taken as inverses.
- The 4 GiB allocation in `read_frame` as memory. Its effect is an abort,
  and `PortRestart` has that as a death at any point. A frame that kills
  every process it is resent to is outside the bound on deaths.

Done: `Framing`, the abstract `DocumentService` with its refinement,
`Sync` with split rounds, crash and restart (`PortRestart`), and sync
convergence (`SyncConverge`).

Left out on purpose:
- Blob content addressing (spec invariant 3). `put_blob` computes the key
  from the data in the same statement that inserts it. A property would
  restate that one line, and `ImplementsService` already checks that every
  blob answer matches the stored set.
- Merkle collisions (finding 3). The port never calls `compute_root`, so
  no behaviour of the program reaches them.
