--------------------------- MODULE DocumentService ---------------------------
(***************************************************************************)
(* What the port promises its host, stated over the documents and blobs  *)
(* themselves (spec 3, 4.4, 4.5 and 5), with no tables and no cached      *)
(* hashes: a document is its meta and its CRDT state, the blob store is   *)
(* the set of blobs stored.  Requests queue on stdin and are executed one *)
(* at a time in order; each gets one response with its ref id, computed   *)
(* from the documents as they stand when it runs, or Error.  Error leaves *)
(* the documents as they were, except that ApplyChanges may keep the      *)
(* changes before the one that failed (spec 7 says a failed transaction   *)
(* is rolled back; ApplyChanges runs one per change).                     *)
(***************************************************************************)
EXTENDS Protocol, Naturals, Sequences, SequencesExt, Functions

VARIABLES
    docs,       \* id -> [meta, state]
    stored,     \* the set of blobs stored
    requests,   \* frames written to stdin and not yet executed
    responses,  \* (ref, response) produced and not yet read by the host
    open,       \* stdin not closed
    status      \* "running", "closed" or "failed"

svcVars == <<docs, stored, requests, responses, open, status>>

\* Document ids in ascending order.
SortedIds == SetToSortSeq(DOMAIN docs, <)

StateHash(id) == Digest(docs[id].state)

\* Upsert a remote change unless the document already has that hash.
Merge(d, c) ==
    IF c.doc_id \in DOMAIN d /\ Digest(d[c.doc_id].state) = c.hash THEN d
    ELSE (c.doc_id :> [meta |-> EmptyBytes, state |-> c.data]) @@ d

Init ==
    /\ docs = <<>>
    /\ stored = {}
    /\ requests = <<>>
    /\ responses = <<>>
    /\ open = TRUE
    /\ status = "running"

Answer(r) ==
    responses' = Append(responses, [ref |-> Head(requests).ref, resp |-> r])

Query(r) == UNCHANGED <<docs, stored>> /\ Answer(r)

\* The effect and the response of a request that succeeds.
Serve(q) ==
    CASE q.type = "PutBlob" ->
            /\ stored' = stored \cup {q.data} /\ UNCHANGED docs
            /\ Answer([type |-> "BlobStored", hash |-> Digest(q.data)])
      [] q.type = "GetBlob" ->
            Query(IF \E b \in stored : Digest(b) = q.hash
                  THEN [type |-> "Blob",
                        data |-> CHOOSE b \in stored : Digest(b) = q.hash]
                  ELSE Resp("NotFound"))
      [] q.type = "HasBlob" ->
            Query([type |-> "BlobExists",
                   exists |-> \E b \in stored : Digest(b) = q.hash])
      [] q.type = "PutDocument" ->
            /\ docs' = (q.id :> [meta |-> q.meta, state |-> q.crdt_state]) @@ docs
            /\ UNCHANGED stored /\ Answer(Resp("Ok"))
      [] q.type = "GetDocument" ->
            Query(IF q.id \in DOMAIN docs
                  THEN [type |-> "Document", id |-> q.id,
                        meta |-> docs[q.id].meta,
                        crdt_state |-> docs[q.id].state]
                  ELSE Resp("NotFound"))
      [] q.type = "DeleteDocument" ->
            /\ docs' = Restrict(docs, DOMAIN docs \ {q.id})
            /\ UNCHANGED stored
            /\ Answer(IF q.id \in DOMAIN docs THEN Resp("Ok") ELSE Resp("NotFound"))
      [] q.type = "ListDocuments" ->
            Query([type |-> "DocumentList", ids |-> SortedIds])
      [] q.type = "GetRoots" ->
            LET ids == IF q.doc_ids = <<>> THEN SortedIds
                       ELSE SelectSeq(q.doc_ids, LAMBDA id : id \in DOMAIN docs)
            IN  Query([type |-> "Roots",
                       roots |-> [i \in 1..Len(ids) |->
                                    [doc_id |-> ids[i], hash |-> StateHash(ids[i])]]])
      [] q.type = "GetChanges" ->
            LET ids == SelectSeq(SortedIds, LAMBDA id : StateHash(id) \notin q.known_roots)
            IN  Query([type |-> "Changes",
                       changes |-> [i \in 1..Len(ids) |->
                                      [doc_id |-> ids[i], data |-> docs[ids[i]].state,
                                       hash |-> StateHash(ids[i])]]])
      [] q.type = "ApplyChanges" ->
            /\ docs' = FoldLeft(Merge, docs, q.changes)
            /\ UNCHANGED stored /\ Answer(Resp("Ok"))

\* A request that fails: Error, and for ApplyChanges some prefix kept.
Refuse(q) ==
    /\ UNCHANGED stored
    /\ Answer(ErrorResp)
    /\ IF q.type = "ApplyChanges"
       THEN \E n \in 0..(Len(q.changes) - 1) :
               docs' = FoldLeft(Merge, docs, SubSeq(q.changes, 1, n))
       ELSE UNCHANGED docs

Execute ==
    /\ status = "running"
    /\ requests # <<>>
    /\ Head(requests) # Garbled
    /\ Serve(Head(requests).req) \/ Refuse(Head(requests).req)
    /\ requests' = Tail(requests)
    /\ UNCHANGED <<open, status>>

Abort ==
    /\ status = "running"
    /\ requests # <<>>
    /\ Head(requests) = Garbled
    /\ requests' = Tail(requests)
    /\ status' = "failed"
    /\ UNCHANGED <<docs, stored, responses, open>>

Stop ==
    /\ status = "running"
    /\ requests = <<>>
    /\ ~open
    /\ status' = "closed"
    /\ UNCHANGED <<docs, stored, requests, responses, open>>

Submit(f) ==
    /\ open
    /\ requests' = Append(requests, f)
    /\ UNCHANGED <<docs, stored, responses, open, status>>

Close ==
    /\ open
    /\ open' = FALSE
    /\ UNCHANGED <<docs, stored, requests, responses, status>>

Consume ==
    /\ responses # <<>>
    /\ responses' = Tail(responses)
    /\ UNCHANGED <<docs, stored, requests, open, status>>

Next ==
    \/ Execute \/ Abort \/ Stop
    \/ \E f \in Frames : Submit(f)
    \/ Close \/ Consume

Spec == Init /\ [][Next]_svcVars

=============================================================================
