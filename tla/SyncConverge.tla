---------------------------- MODULE SyncConverge ----------------------------
(***************************************************************************)
(* Whether host-driven rounds reconcile two peers once their applications *)
(* stop writing.  A behaviour starts in any state the writes can leave    *)
(* (each peer's tables as PutDocument and ApplyChanges write them) with   *)
(* no round in flight; after that the host only runs rounds: Fetch        *)
(* (GetRoots on dst, GetChanges on src) and Apply (ApplyChanges on dst),  *)
(* which may fail after any prefix.  A serial host starts a round only    *)
(* when no other is in flight; otherwise rounds in opposite directions    *)
(* may cross.                                                              *)
(***************************************************************************)
EXTENDS Sync

CONSTANT SerialHost     \* TRUE: the host runs one round at a time

\* The tables of a peer whose application has stopped writing: every
\* document has a meta (empty after ApplyChanges), a state and the digest
\* of that state.
Quiescent ==
    UNION {{[documents  |-> m, doc_data |-> s,
             doc_hashes |-> [id \in ids |-> D!Digest(s[id])]] :
                m \in [ids -> Metas \cup {D!EmptyBytes}], s \in [ids -> Payloads]} :
           ids \in SUBSET DocIds}

ConvergeInit ==
    /\ db \in [Peers -> Quiescent]
    /\ inflight = [p \in Peers |-> {}]
    /\ lastRound = {}

HostFetch(src, dst) ==
    /\ SerialHost => \A p \in Peers : inflight[p] = {}
    /\ Fetch(src, dst)

\* An Apply whose ApplyChanges returned Ok.
Committed(dst) == Apply(dst) /\ lastRound' # {}

ConvergeNext ==
    \/ \E src, dst \in Peers : HostFetch(src, dst)
    \/ \E dst \in Peers : Apply(dst)

\* The host keeps running rounds in both directions, and a storage error
\* is not permanent: a batch retried often enough commits.
ConvergeSpec ==
    /\ ConvergeInit /\ [][ConvergeNext]_syncVars
    /\ \A src, dst \in Peers : SF_syncVars(HostFetch(src, dst))
    /\ \A dst \in Peers : SF_syncVars(Committed(dst))

\* Every peer holds the same documents with the same states.
Converged == \A p, q \in Peers : db[p].doc_data = db[q].doc_data

\* A state hash one peer holds under an id is held by the other under
\* another id: GetChanges' content test then withholds the document.
Ambiguous ==
    \E p, q \in Peers, i, j \in DocIds :
        /\ p # q /\ i # j
        /\ i \in DOMAIN db[p].doc_hashes /\ j \in DOMAIN db[q].doc_hashes
        /\ db[p].doc_hashes[i] = db[q].doc_hashes[j]

\* Spec 1: the sync primitives "reconcile two peers".  Once writes stop and
\* the host keeps running rounds, the peers end up holding the same
\* documents for good, unless the content test is ambiguous (finding 2).
\* GetChanges must offer what dst lacks, the skip test must not drop it,
\* and an applied batch must not undo what an earlier round delivered.
Reconciles == <>[](Converged \/ Ambiguous)

=============================================================================
