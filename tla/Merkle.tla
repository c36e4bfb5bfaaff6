------------------------------- MODULE Merkle -------------------------------
(***************************************************************************)
(* src/store/src/merkle.rs: the combined root of a set of (doc_id, hash)  *)
(* pairs and the two-way diff of two such sets.  Both are pure functions; *)
(* main.rs does not call them (SyncDiff is never produced), they are the  *)
(* library the sync layer is to be built on.  Pairs are <<id, digest>>    *)
(* with natural ids, ordered as String::cmp orders them.                  *)
(***************************************************************************)
EXTENDS Digest, Naturals, Sequences, SequencesExt, TLC

\* hasher.update(a); hasher.update(b); hasher.finalize(): the blake3 of the
\* 64-byte concatenation a ++ b.
HashPair(a, b) == Digest(<<a, b>>)

\* Mutation: an unpaired last element is hashed with itself, as in
\* Bitcoin's tree, instead of being promoted.
RECURSIVE NextLayerDupLast(_)
NextLayerDupLast(layer) ==
    CASE Len(layer) = 0 -> layer
      [] Len(layer) = 1 -> <<HashPair(layer[1], layer[1])>>
      [] OTHER -> <<HashPair(layer[1], layer[2])>>
                     \o NextLayerDupLast(SubSeq(layer, 3, Len(layer)))

\* One pass of the inner loop: hash layer[i], layer[i+1] for i = 1, 3, ...
\* and promote an unpaired last element unchanged.
RECURSIVE NextLayer(_)
NextLayer(layer) ==
    IF Len(layer) < 2 THEN layer
    ELSE <<HashPair(layer[1], layer[2])>> \o NextLayer(SubSeq(layer, 3, Len(layer)))

\* The outer loop: while layer.len() > 1.
RECURSIVE ReduceLayers(_)
ReduceLayers(layer) ==
    IF Len(layer) = 1 THEN layer[1] ELSE ReduceLayers(NextLayer(layer))

\* sorted.sort_by(|a, b| a.0.cmp(&b.0)): a stable sort by doc_id.
SortById(pairs) == SortSeq(pairs, LAMBDA a, b : a[1] < b[1])

\* compute_root: all zeros for no pairs; else sort, keep the hashes, reduce.
ComputeRoot(pairs) ==
    IF pairs = <<>> THEN ZeroRoot
    ELSE LET sorted == SortById(pairs)
         IN  ReduceLayers([i \in 1..Len(sorted) |-> sorted[i][2]])

\* pairs.iter().collect::<HashMap<_, _>>(): a later pair for the same id
\* replaces an earlier one.
AsMap(pairs) ==
    [k \in {p[1] : p \in ToSet(pairs)} |->
        pairs[Max({i \in 1..Len(pairs) : pairs[i][1] = k})][2]]

\* Mutation: a conflicting id only goes to to_send.
DiffStepConflictSendOnly(l, r, acc, key) ==
    CASE key \in DOMAIN l /\ key \in DOMAIN r /\ l[key] = r[key] -> acc
      [] key \in DOMAIN l -> <<Append(acc[1], key), acc[2]>>
      [] OTHER -> <<acc[1], Append(acc[2], key)>>

\* One iteration of the loop of diff_roots over the key `key`: push it to
\* to_send, to_request or both, by the match arms of merkle.rs.
DiffStep(l, r, acc, key) ==
    CASE key \in DOMAIN l /\ key \in DOMAIN r /\ l[key] = r[key] -> acc
      [] key \in DOMAIN l /\ key \in DOMAIN r ->
            <<Append(acc[1], key), Append(acc[2], key)>>
      [] key \in DOMAIN l -> <<Append(acc[1], key), acc[2]>>
      [] OTHER -> <<acc[1], Append(acc[2], key)>>

\* diff_roots, with `order` the order in which the HashSet of all keys
\* happens to iterate (it depends on the hasher's random seed).  Both lists
\* are sorted at the end.
DiffRoots(local, remote, order) ==
    LET l == AsMap(local)
        r == AsMap(remote)
        acc == FoldLeft(LAMBDA a, k : DiffStep(l, r, a, k), <<<<>>, <<>>>>, order)
    IN  <<SortSeq(acc[1], <), SortSeq(acc[2], <)>>

\* The orders a HashSet over the keys of both sides may iterate in.
KeyOrders(local, remote) ==
    SetToSeqs({p[1] : p \in ToSet(local) \cup ToSet(remote)})

=============================================================================
