-------------------------------- MODULE Sync --------------------------------
(***************************************************************************)
(* Anti-entropy between two store processes, driven by the host as the    *)
(* spec describes.  To bring dst up to date with src the host asks dst    *)
(* GetRoots{doc_ids: []}, sends the hashes of the roots to src as         *)
(* GetChanges{known_roots} (Fetch), and later forwards the changes to dst *)
(* as ApplyChanges (Apply).  Between the two the application may write or *)
(* delete documents on either peer, and ApplyChanges may fail after any   *)
(* prefix of the batch.  The handlers are those of Dispatcher (main.rs),  *)
(* run against each peer's own document tables.                          *)
(***************************************************************************)
EXTENDS Naturals, Sequences, SequencesExt

CONSTANTS
    Peers,      \* the store processes the host syncs
    DocIds,     \* as in Protocol
    Payloads,
    Metas

\* The store and handler operators.  They read only the tables passed to
\* them, so the loop's variables are given placeholder values.
D == INSTANCE Dispatcher WITH
        blobs <- <<>>, documents <- <<>>, doc_data <- <<>>, doc_hashes <- <<>>,
        inbox <- <<>>, outbox <- <<>>, reply <- "none", stdinOpen <- TRUE,
        session <- "running", awaiting <- <<>>, RefIds <- {},
        PipeCapacity <- 0, MaxBatch <- 0, MaxQuery <- 0,
        Garbled <- "garbled", NoReply <- "none"

VARIABLES
    db,         \* peer -> its document tables (DocTables of its store)
    inflight,   \* dst -> {the round fetched for it and not yet applied}, or {}
    lastRound   \* {the round just applied with Ok}, or {} (history)

syncVars == <<db, inflight, lastRound>>

NoDocs == [documents |-> <<>>, doc_data |-> <<>>, doc_hashes |-> <<>>]

\* The hash values of a peer's roots: what GetRoots{[]} returns.
RootHashes(t) == {r[2] : r \in ToSet(D!AllDocHashes(t))}

SyncInit ==
    /\ db = [p \in Peers |-> NoDocs]
    /\ inflight = [p \in Peers |-> {}]
    /\ lastRound = {}

\* No hash of src is held by dst under another id: GetChanges' content
\* test then decides by id as well.
Unambiguous(have, dstRoots) ==
    \A i \in DOMAIN have, j \in DOMAIN dstRoots : have[i] = dstRoots[j] => i = j

\* A local write on p is remembered by a round in flight to p.
Touch(p, id) ==
    inflight' = [inflight EXCEPT ![p] =
                    {[r EXCEPT !.written = @ \cup {id}] : r \in @}]

\* PutDocument{id, meta, crdt_state} on one peer.
LocalPut(p, id, meta, s) ==
    /\ db' = [db EXCEPT ![p] = D!PutDocument(@, id, meta, s)]
    /\ Touch(p, id)
    /\ lastRound' = {}

\* DeleteDocument{id} on one peer.
LocalDelete(p, id) ==
    /\ db' = [db EXCEPT ![p] = [documents  |-> D!RemoveKey(@.documents, id),
                                doc_data   |-> D!RemoveKey(@.doc_data, id),
                                doc_hashes |-> D!RemoveKey(@.doc_hashes, id)]]
    /\ Touch(p, id)
    /\ lastRound' = {}

\* GetRoots{[]} on dst, then GetChanges on src with the root hashes as
\* known_roots; the host holds the changes.  `have` is src's roots then.
Fetch(src, dst) ==
    /\ src # dst
    /\ inflight[dst] = {}
    /\ inflight' = [inflight EXCEPT ![dst] =
          {[src |-> src,
           changes |-> D!ChangesFor(db[src], RootHashes(db[dst])),
           have |-> db[src].doc_hashes,
           unambiguous |-> Unambiguous(db[src].doc_hashes, db[dst].doc_hashes),
           written |-> {}]}]
    /\ UNCHANGED <<db, lastRound>>

\* ApplyChanges on dst with the fetched changes: Ok after the whole batch,
\* or Error after the first n changes committed.
Apply(dst) ==
    \E r \in inflight[dst] :
        /\ inflight' = [inflight EXCEPT ![dst] = {}]
        /\ \/ /\ db' = [db EXCEPT ![dst] = D!ApplyPrefix(@, r.changes, Len(r.changes))]
              /\ lastRound' = {[dst |-> dst, have |-> r.have,
                                unambiguous |-> r.unambiguous, written |-> r.written]}
           \/ \E n \in 0..(Len(r.changes) - 1) :
                 /\ db' = [db EXCEPT ![dst] = D!ApplyPrefix(@, r.changes, n)]
                 /\ lastRound' = {}

SyncNext ==
    \/ \E p \in Peers, id \in DocIds, m \in Metas, s \in Payloads :
          LocalPut(p, id, m, s)
    \/ \E p \in Peers, id \in DocIds : LocalDelete(p, id)
    \/ \E src, dst \in Peers : Fetch(src, dst)
    \/ \E dst \in Peers : Apply(dst)

SyncSpec == SyncInit /\ [][SyncNext]_syncVars

(***************************************************************************)
(* Properties, about the round applied last.                              *)
(***************************************************************************)

\* When GetChanges' content test is unambiguous, a round reconciles: if
\* no state hash src had at the fetch was held by dst under another id,
\* a round that returned Ok with no write on dst since its GetRoots leaves
\* dst holding every document src had, under its id, with src's hash.
\* The skip test, the known_roots filter and the per-change puts must
\* agree for this to hold.
DeliversWhenUnambiguous ==
    \A r \in lastRound :
        r.written = {} /\ r.unambiguous
        => \A id \in DOMAIN r.have :
               /\ id \in DOMAIN db[r.dst].doc_hashes
               /\ db[r.dst].doc_hashes[id] = r.have[id]

\* Spec 4.4: GetChanges yields a change for "every local document whose
\* state hash is absent from" known_roots, "including documents the remote
\* has never seen", so that a clean round reconciles dst with src: dst
\* then holds every document src had, under its id, with src's hash.
RoundDeliversSource ==
    \A r \in lastRound :
        r.written = {} =>
            \A id \in DOMAIN r.have :
                /\ id \in DOMAIN db[r.dst].doc_hashes
                /\ db[r.dst].doc_hashes[id] = r.have[id]

=============================================================================
