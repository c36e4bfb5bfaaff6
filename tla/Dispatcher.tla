----------------------------- MODULE Dispatcher -----------------------------
(***************************************************************************)
(* The port process of src/store/src/main.rs: the serial loop of main()   *)
(* that reads one frame from stdin, decodes (ref_id, Request), runs       *)
(* handle_request against the Store, and writes (ref_id, Response) back.  *)
(*                                                                         *)
(* stdin and stdout are pipes of bounded capacity.  The host (the Elixir  *)
(* side) writes frames, reads responses and may close stdin; it is the    *)
(* environment of this module.  A handler is one step: the loop is serial *)
(* and every store call a handler makes runs before the response exists.  *)
(* Writing the response is a step of its own, since write_frame blocks   *)
(* on a full stdout.  Every store call may fail (redb I/O or commit       *)
(* error); a failed transaction changes nothing and the handler returns   *)
(* Error{message}.                                                         *)
(***************************************************************************)
EXTENDS Store

CONSTANTS
    PipeCapacity,   \* frames a pipe holds before its writer blocks
    NoReply         \* no response waiting to be written

VARIABLES
    inbox,      \* frames in the stdin pipe, oldest first
    outbox,     \* frames in the stdout pipe, oldest first
    reply,      \* the response handle_request returned, not yet written
    stdinOpen,  \* the host has not closed stdin
    session,    \* "running", "closed" (clean EOF) or "failed" (fatal error)
    awaiting    \* host side: ref ids sent and not yet answered, in order

vars == <<storeVars, inbox, outbox, reply, stdinOpen, session, awaiting>>

TypeOK ==
    /\ StoreTypeOK
    /\ inbox \in Seq(Frames) /\ Len(inbox) <= PipeCapacity
    /\ Len(outbox) <= PipeCapacity
    /\ \A i \in 1..Len(outbox) : outbox[i].ref \in RefIds
    /\ reply = NoReply \/ reply.ref \in RefIds
    /\ stdinOpen \in BOOLEAN
    /\ session \in {"running", "closed", "failed"}
    /\ awaiting \in Seq(RefIds)

Init ==
    /\ StoreInit
    /\ inbox = <<>>
    /\ outbox = <<>>
    /\ reply = NoReply
    /\ stdinOpen = TRUE
    /\ session = "running"
    /\ awaiting = <<>>

(***************************************************************************)
(* One iteration of the loop takes the head frame: read_frame returned   *)
(* Some(frame) and bincode decoded it.                                    *)
(***************************************************************************)

Frame == Head(inbox)
Req == Frame.req

Accept(t) ==
    /\ session = "running"
    /\ reply = NoReply
    /\ inbox # <<>>
    /\ Frame # Garbled
    /\ Req.type = t
    /\ inbox' = Tail(inbox)
    /\ UNCHANGED <<outbox, stdinOpen, session, awaiting>>

Reply(resp) == reply' = [ref |-> Frame.ref, resp |-> resp]

\* A store call returned Err: nothing committed, Response::Error.
Fail == UNCHANGED storeVars /\ Reply(ErrorResp)

\* A handler that only reads: the store is unchanged whatever it returns.
ReadOnly(resp) ==
    UNCHANGED storeVars /\ (Reply(resp) \/ Reply(ErrorResp))

HandlePutBlob ==
    /\ Accept("PutBlob")
    /\ \/ /\ PutBlobTx(Req.data)
          /\ Reply([type |-> "BlobStored", hash |-> Digest(Req.data)])
       \/ Fail

HandleGetBlob ==
    /\ Accept("GetBlob")
    /\ ReadOnly(IF GetBlob(blobs, Req.hash) # {}
                THEN [type |-> "Blob", data |-> CHOOSE b \in GetBlob(blobs, Req.hash) : TRUE]
                ELSE Resp("NotFound"))

HandleHasBlob ==
    /\ Accept("HasBlob")
    /\ ReadOnly([type |-> "BlobExists", exists |-> HasBlob(blobs, Req.hash)])

HandlePutDocument ==
    /\ Accept("PutDocument")
    /\ \/ PutDocumentTx(Req.id, Req.meta, Req.crdt_state) /\ Reply(Resp("Ok"))
       \/ Fail

HandleGetDocument ==
    /\ Accept("GetDocument")
    /\ ReadOnly(IF HasDocument(DocTables, Req.id)
                THEN [type |-> "Document", id |-> Req.id,
                      meta |-> documents[Req.id],
                      crdt_state |-> doc_data[Req.id]]
                ELSE Resp("NotFound"))

\* Mutation: `Ok(_) => Response::Ok`, NotFound never reported.
HandleDeleteDocumentAlwaysOk ==
    /\ Accept("DeleteDocument")
    /\ \/ DeleteDocumentTx(Req.id) /\ Reply(Resp("Ok"))
       \/ Fail

HandleDeleteDocument ==
    /\ Accept("DeleteDocument")
    /\ \/ /\ DeleteDocumentTx(Req.id)
          /\ Reply(IF Existed(Req.id) THEN Resp("Ok") ELSE Resp("NotFound"))
       \/ Fail

HandleListDocuments ==
    /\ Accept("ListDocuments")
    /\ ReadOnly([type |-> "DocumentList", ids |-> ListDocuments(DocTables)])

\* GetRoots: all hashes when doc_ids is empty, else the present ones.
HandleGetRoots ==
    /\ Accept("GetRoots")
    /\ ReadOnly([type |-> "Roots",
                 roots |-> RootsOf(IF Req.doc_ids = <<>>
                                   THEN AllDocHashes(DocTables)
                                   ELSE GetDocHashes(DocTables, Req.doc_ids))])

\* Mutation: the `!` of `!known_set.contains(hash)` dropped.
ChangesForNegated(db, known) ==
    LET unknown == SelectSeq(AllDocHashes(db),
                             LAMBDA p : p[2] \in known /\ HasDocument(db, p[1]))
    IN  [i \in 1..Len(unknown) |->
            [doc_id |-> unknown[i][1], data |-> db.doc_data[unknown[i][1]],
             hash |-> unknown[i][2]]]

\* GetChanges: one Change per (id, hash) of all_doc_hashes whose hash is
\* not in known_roots and whose document get_document finds.
ChangesFor(db, known) ==
    LET unknown == SelectSeq(AllDocHashes(db),
                             LAMBDA p : p[2] \notin known /\ HasDocument(db, p[1]))
    IN  [i \in 1..Len(unknown) |->
            [doc_id |-> unknown[i][1], data |-> db.doc_data[unknown[i][1]],
             hash |-> unknown[i][2]]]

HandleGetChanges ==
    /\ Accept("GetChanges")
    /\ ReadOnly([type |-> "Changes", changes |-> ChangesFor(DocTables, Req.known_roots)])

(***************************************************************************)
(* ApplyChanges: for each change in order, get_doc_hash; skip when the   *)
(* stored hash equals the advertised one, else put_document with empty    *)
(* meta.  Each get and put is its own transaction, and the first Err      *)
(* returns Response::Error with the earlier puts already committed.       *)
(***************************************************************************)

\* Mutation: `Ok(Some(_)) => continue`, any stored version kept.
SkipIfPresent(db, c) == GetDocHash(db, c.doc_id) # {}

\* The stored hash already equals the advertised one: `continue`.
Skip(db, c) == GetDocHash(db, c.doc_id) = {c.hash}

\* Mutation: store the advertised hash instead of the computed digest.
ApplyChangeTrustingHash(db, c) ==
    IF Skip(db, c) THEN db
    ELSE [documents  |-> Insert(db.documents, c.doc_id, EmptyBytes),
          doc_data   |-> Insert(db.doc_data, c.doc_id, c.data),
          doc_hashes |-> Insert(db.doc_hashes, c.doc_id, c.hash)]

ApplyChange(db, c) ==
    IF Skip(db, c) THEN db
    ELSE PutDocument(db, c.doc_id, EmptyBytes, c.data)

\* Mutation: `break` instead of `continue` at the first skipped change.
RECURSIVE StopAtSkip(_, _)
StopAtSkip(db, cs) ==
    IF cs = <<>> \/ Skip(db, Head(cs)) THEN db
    ELSE StopAtSkip(ApplyChange(db, Head(cs)), Tail(cs))
ApplyPrefixStopAtSkip(db, changes, n) == StopAtSkip(db, SubSeq(changes, 1, n))

\* The document tables after the first n changes of a batch were applied.
ApplyPrefix(db, changes, n) == FoldLeft(ApplyChange, db, SubSeq(changes, 1, n))

HandleApplyChanges ==
    /\ Accept("ApplyChanges")
    /\ UNCHANGED blobs
    /\ \/ /\ SetDocTables(ApplyPrefix(DocTables, Req.changes, Len(Req.changes)))
          /\ Reply(Resp("Ok"))
       \/ \E n \in 0..(Len(Req.changes) - 1) :
             /\ SetDocTables(ApplyPrefix(DocTables, Req.changes, n))
             /\ Reply(ErrorResp)

(***************************************************************************)
(* The rest of the loop.                                                  *)
(***************************************************************************)

\* write_frame(stdout, serialize((ref_id, response))); blocks while full.
WriteResponse ==
    /\ reply # NoReply
    /\ Len(outbox) < PipeCapacity
    /\ outbox' = Append(outbox, reply)
    /\ reply' = NoReply
    /\ UNCHANGED <<storeVars, inbox, stdinOpen, session, awaiting>>

\* Mutation: leave the loop once stdin is closed, unread frames or not.
ShutdownUndrained ==
    /\ session = "running"
    /\ reply = NoReply
    /\ ~stdinOpen
    /\ session' = "closed"
    /\ UNCHANGED <<storeVars, inbox, outbox, reply, stdinOpen, awaiting>>

\* read_frame returned None: EOF on stdin, break out of the loop, exit 0.
Shutdown ==
    /\ session = "running"
    /\ reply = NoReply
    /\ inbox = <<>>
    /\ ~stdinOpen
    /\ session' = "closed"
    /\ UNCHANGED <<storeVars, inbox, outbox, reply, stdinOpen, awaiting>>

\* bincode::deserialize failed: `?` returns the error from main, exit 1.
DecodeFailure ==
    /\ session = "running"
    /\ reply = NoReply
    /\ inbox # <<>>
    /\ Frame = Garbled
    /\ inbox' = Tail(inbox)
    /\ session' = "failed"
    /\ UNCHANGED <<storeVars, outbox, reply, stdinOpen, awaiting>>

(***************************************************************************)
(* The host: writes requests with a ref id it is not waiting on, reads   *)
(* responses, closes stdin.                                               *)
(***************************************************************************)

HostSend ==
    /\ stdinOpen
    /\ Len(inbox) < PipeCapacity
    /\ \E r \in RefIds \ ToSet(awaiting), q \in Requests :
          /\ inbox' = Append(inbox, [ref |-> r, req |-> q])
          /\ awaiting' = Append(awaiting, r)
    /\ UNCHANGED <<storeVars, outbox, reply, stdinOpen, session>>

HostSendGarbled ==
    /\ stdinOpen
    /\ Len(inbox) < PipeCapacity
    /\ inbox' = Append(inbox, Garbled)
    /\ UNCHANGED <<storeVars, outbox, reply, stdinOpen, session, awaiting>>

HostReceive ==
    /\ outbox # <<>>
    /\ outbox' = Tail(outbox)
    /\ awaiting' = RemoveFirst(awaiting, Head(outbox).ref)
    /\ UNCHANGED <<storeVars, inbox, reply, stdinOpen, session>>

HostClose ==
    /\ stdinOpen
    /\ stdinOpen' = FALSE
    /\ UNCHANGED <<storeVars, inbox, outbox, reply, session, awaiting>>

Handle ==
    \/ HandlePutBlob \/ HandleGetBlob \/ HandleHasBlob
    \/ HandlePutDocument \/ HandleGetDocument \/ HandleDeleteDocument
    \/ HandleListDocuments \/ HandleGetRoots \/ HandleGetChanges
    \/ HandleApplyChanges

Port == Handle \/ WriteResponse \/ Shutdown \/ DecodeFailure

Host == HostSend \/ HostSendGarbled \/ HostReceive \/ HostClose

Next == Port \/ Host

\* The loop runs whenever it can: weak fairness on each of its steps.  The
\* Elixir port driver reads stdout as data arrives: weak fairness on
\* HostReceive.
Fairness == WF_vars(Port) /\ WF_vars(HostReceive)

Spec == Init /\ [][Next]_vars /\ Fairness

(***************************************************************************)
(* Properties.                                                            *)
(***************************************************************************)

\* Spec invariants 1 and 2, which no handler checks at run time: the three
\* document tables hold the same ids, and every stored hash is the blake3
\* of the stored state.  ApplyChanges receives an advertised hash with
\* every change and must store the digest it computes, not that one.
StoreConsistent ==
    /\ DOMAIN documents = DOMAIN doc_data
    /\ DOMAIN doc_data = DOMAIN doc_hashes
    /\ \A id \in DOMAIN doc_hashes : doc_hashes[id] = Digest(doc_data[id])

\* A host that gets Error for an ApplyChanges sends the same batch again.
\* Whatever prefix of the batch the failed attempt committed, the retry
\* leaves the document tables as one uninterrupted run of the batch would:
\* the skip test of main.rs must not turn the half-applied state into a
\* different result.
RetryConverges ==
    \A b \in BoundedSeq(Change, MaxBatch) :
        LET whole == ApplyPrefix(DocTables, b, Len(b))
        IN  \A n \in 0..(Len(b) - 1) :
                ApplyPrefix(ApplyPrefix(DocTables, b, n), b, Len(b)) = whole

\* Every request the host writes is answered, with its own ref id, unless a
\* garbled frame ends the session first: the loop neither drops a frame
\* nor stops on EOF before it has answered what it read.
EveryRequestAnswered ==
    \A r \in RefIds :
        r \in ToSet(awaiting) ~> (r \notin ToSet(awaiting) \/ session = "failed")

\* Spec section 7: a storage error is reported as Error and "the failed
\* transaction is rolled back", so a request answered with Error leaves the
\* store as it was.
ErrorLeavesStoreUnchanged ==
    [][reply' # NoReply /\ reply = NoReply /\ reply'.resp = ErrorResp
         => UNCHANGED storeVars]_vars



(***************************************************************************)
(* Refinement: the loop implements DocumentService.  A document is what   *)
(* DOCUMENTS and DOC_DATA hold for its id; DOC_HASHES is hidden, so every *)
(* answer computed from it (GetRoots, GetChanges, the skip test) must     *)
(* agree with the digest of the stored state.  A response exists once the *)
(* handler returned it: the one waiting to be written follows those in    *)
(* the pipe.  The host's bookkeeping (awaiting) is hidden.                *)
(***************************************************************************)

Svc == INSTANCE DocumentService WITH
        docs <- [id \in DOMAIN documents \cap DOMAIN doc_data |->
                    [meta |-> documents[id], state |-> doc_data[id]]],
        stored <- {blobs[h] : h \in DOMAIN blobs},
        requests <- inbox,
        responses <- IF reply = NoReply THEN outbox ELSE Append(outbox, reply),
        open <- stdinOpen,
        status <- session

\* Spec 4.4, 4.5 and 5: every response the port writes is the answer the
\* catalogue defines for its request, computed from the documents and
\* blobs as the earlier requests left them, in request order, with the
\* request's ref id; Error changes nothing but the kept prefix of an
\* ApplyChanges.  The handlers of main.rs and the table code of store.rs
\* together must produce exactly these answers.
ImplementsService == Svc!Spec

=============================================================================
