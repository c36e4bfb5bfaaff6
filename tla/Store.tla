-------------------------------- MODULE Store --------------------------------
(***************************************************************************)
(* The redb-backed store of src/store/src/store.rs: four ordered tables in *)
(* one database file, and one write transaction per mutating method.       *)
(*                                                                         *)
(* The constants and messages are Protocol's; Digest is blake3.         *)
(* A table is a function whose domain is the set of keys present; redb    *)
(* iterates keys in ascending order, so document ids are naturals and the *)
(* iteration order is <.                                                  *)
(*                                                                         *)
(* A transaction either commits all its writes or, when redb reports an   *)
(* error at begin, open, insert or commit, leaves every table as it was;  *)
(* the failing branch is the Dispatcher's, which turns it into Error.     *)
(***************************************************************************)
EXTENDS Protocol, Naturals, Sequences, SequencesExt, Functions, TLC

VARIABLES
    blobs,      \* BLOBS:      digest -> raw bytes
    documents,  \* DOCUMENTS:  id -> metadata
    doc_data,   \* DOC_DATA:   id -> CRDT state
    doc_hashes  \* DOC_HASHES: id -> digest of the CRDT state

storeVars == <<blobs, documents, doc_data, doc_hashes>>

\* Table insert and remove.
Insert(t, k, v) == (k :> v) @@ t
RemoveKey(t, k) == Restrict(t, DOMAIN t \ {k})

\* Keys of a table in redb iteration order.
Keys(t) == SetToSortSeq(DOMAIN t, <)

StoreTypeOK ==
    /\ DOMAIN blobs \subseteq Hashes
    /\ \A h \in DOMAIN blobs : blobs[h] \in Payloads
    /\ DOMAIN documents \subseteq DocIds
    /\ DOMAIN doc_data \subseteq DocIds
    /\ DOMAIN doc_hashes \subseteq DocIds
    /\ \A id \in DOMAIN documents : documents[id] \in Metas \cup {EmptyBytes}
    /\ \A id \in DOMAIN doc_data : doc_data[id] \in Payloads
    /\ \A id \in DOMAIN doc_hashes : doc_hashes[id] \in Hashes

\* Store::open on a fresh directory creates the four tables empty.
StoreInit ==
    /\ blobs = <<>>
    /\ documents = <<>>
    /\ doc_data = <<>>
    /\ doc_hashes = <<>>

(***************************************************************************)
(* Write transactions (committed).                                        *)
(***************************************************************************)

\* put_blob: hash the data, insert (hash, data) into BLOBS, commit.
PutBlobTx(data) ==
    /\ blobs' = Insert(blobs, Digest(data), data)
    /\ UNCHANGED <<documents, doc_data, doc_hashes>>

\* The three document tables as one value, for handlers that run several
\* document transactions in a row.
DocTables == [documents |-> documents, doc_data |-> doc_data,
              doc_hashes |-> doc_hashes]

SetDocTables(db) ==
    /\ documents' = db.documents
    /\ doc_data' = db.doc_data
    /\ doc_hashes' = db.doc_hashes

\* Mutation: meta and state swapped between DOCUMENTS and DOC_DATA.
PutDocumentSwapped(db, id, meta, crdt_state) ==
    [documents  |-> Insert(db.documents, id, crdt_state),
     doc_data   |-> Insert(db.doc_data, id, meta),
     doc_hashes |-> Insert(db.doc_hashes, id, Digest(crdt_state))]

\* put_document: hash the state, insert into all three document tables
\* inside one transaction, commit.
PutDocument(db, id, meta, crdt_state) ==
    [documents  |-> Insert(db.documents, id, meta),
     doc_data   |-> Insert(db.doc_data, id, crdt_state),
     doc_hashes |-> Insert(db.doc_hashes, id, Digest(crdt_state))]

PutDocumentTx(id, meta, crdt_state) ==
    /\ SetDocTables(PutDocument(DocTables, id, meta, crdt_state))
    /\ UNCHANGED blobs

\* delete_document: remove the id from all three tables, commit even when
\* the id was absent.
DeleteDocumentTx(id) ==
    /\ documents' = RemoveKey(documents, id)
    /\ doc_data' = RemoveKey(doc_data, id)
    /\ doc_hashes' = RemoveKey(doc_hashes, id)
    /\ UNCHANGED blobs

\* The value delete_document returns: whether DOCUMENTS held the id.
Existed(id) == id \in DOMAIN documents

(***************************************************************************)
(* Read transactions.                                                     *)
(***************************************************************************)

\* get_blob: the bytes stored under the hash, if any; has_blob: whether
\* there are any.
GetBlob(t, hash) == IF hash \in DOMAIN t THEN {t[hash]} ELSE {}
HasBlob(t, hash) == hash \in DOMAIN t

\* The read methods take the document tables as one value (DocTables).

\* get_doc_hash: the stored hash of the id, if any.
GetDocHash(db, id) == IF id \in DOMAIN db.doc_hashes THEN {db.doc_hashes[id]} ELSE {}

\* get_document: Some((meta, state)) only when both tables hold the id.
HasDocument(db, id) == id \in DOMAIN db.documents /\ id \in DOMAIN db.doc_data

\* list_documents: the keys of DOCUMENTS in order.
ListDocuments(db) == Keys(db.documents)

\* all_doc_hashes: every (id, hash) of DOC_HASHES in key order.
AllDocHashes(db) ==
    [i \in 1..Len(Keys(db.doc_hashes)) |->
        <<Keys(db.doc_hashes)[i], db.doc_hashes[Keys(db.doc_hashes)[i]]>>]

\* get_doc_hashes: the (id, hash) of each requested id that is present,
\* in request order, duplicates kept.
GetDocHashes(db, ids) ==
    LET present == SelectSeq(ids, LAMBDA id : id \in DOMAIN db.doc_hashes)
    IN  [i \in 1..Len(present) |-> <<present[i], db.doc_hashes[present[i]]>>]

=====
