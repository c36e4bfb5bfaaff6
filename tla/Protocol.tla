------------------------------ MODULE Protocol ------------------------------
(***************************************************************************)
(* The message catalogue of src/store/src/protocol.rs over the model's    *)
(* small sets: what a frame carries in each direction.  Byte strings are  *)
(* abstract values (payloads, metadata), digests are Digest terms.        *)
(***************************************************************************)
EXTENDS Digest, Sequences, SequencesExt

CONSTANTS
    DocIds,     \* document ids (naturals: redb orders &str keys bytewise)
    Payloads,   \* byte strings used as blobs and CRDT states
    Metas,      \* byte strings used as document metadata
    RefIds,     \* correlation ids the host uses
    MaxBatch,   \* longest changes list of an ApplyChanges request
    MaxQuery,   \* longest doc_ids list of a GetRoots request
    Garbled     \* a frame whose payload bincode cannot decode

\* The empty byte string (the meta of a document written by ApplyChanges).
EmptyBytes == <<>>

Hashes == {Digest(p) : p \in Payloads}

Change == [doc_id : DocIds, data : Payloads, hash : Hashes]

Requests ==
    [type : {"PutBlob"}, data : Payloads]
    \cup [type : {"GetBlob", "HasBlob"}, hash : Hashes]
    \cup [type : {"PutDocument"}, id : DocIds, meta : Metas,
          crdt_state : Payloads]
    \cup [type : {"GetDocument", "DeleteDocument"}, id : DocIds]
    \cup [type : {"ListDocuments"}]
    \cup [type : {"GetRoots"}, doc_ids : BoundedSeq(DocIds, MaxQuery)]
    \* known_roots is collected into a HashSet before use: only its set
    \* of values matters.
    \cup [type : {"GetChanges"}, known_roots : SUBSET Hashes]
    \cup [type : {"ApplyChanges"}, changes : BoundedSeq(Change, MaxBatch)]

\* A frame on stdin: bincode of (ref_id, Request), or bytes it rejects.
Frames == [ref : RefIds, req : Requests] \cup {Garbled}

\* Responses without fields; the others are written out where produced.
Resp(t) == [type |-> t]
ErrorResp == [type |-> "Error"]

\* Root { doc_id, hash } for each (id, hash) pair.
RootsOf(pairs) == [i \in 1..Len(pairs) |->
                      [doc_id |-> pairs[i][1], hash |-> pairs[i][2]]]

=============================================================================
