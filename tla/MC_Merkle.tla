----------------------------- MODULE MC_Merkle -----------------------------
(***************************************************************************)
(* Bounded check of the pure functions of merkle.rs.  The state is one    *)
(* input: a leaf sequence for compute_root, or two root lists for         *)
(* diff_roots; a step appends one element to the input, so the states    *)
(* are exactly the bounded inputs and every invariant sees each of them.  *)
(***************************************************************************)
EXTENDS Merkle, FiniteSets

CONSTANTS
    Atoms,      \* byte strings stored as CRDT states
    MaxLeaves,  \* longest leaf sequence given to compute_root
    DiffIds,    \* document ids of the diff inputs
    MaxPairs    \* longest root list given to diff_roots

\* Digests of stored states, the leaves compute_root is given.
AtomDigests == {Digest(<<a>>) : a \in Atoms}
Leaves == AtomDigests

Inputs ==
    [kind : {"root"}, leaves : BoundedSeq(Leaves, MaxLeaves)]
    \cup [kind : {"diff"}, local : BoundedSeq(DiffIds \X AtomDigests, MaxPairs),
          remote : BoundedSeq(DiffIds \X AtomDigests, MaxPairs)]

VARIABLE input

Init == input \in {[kind |-> "root", leaves |-> <<>>],
                    [kind |-> "diff", local |-> <<>>, remote |-> <<>>]}

AddLeaf ==
    /\ input.kind = "root"
    /\ Len(input.leaves) < MaxLeaves
    /\ \E x \in Leaves : input' = [input EXCEPT !.leaves = Append(@, x)]

AddLocal ==
    /\ input.kind = "diff"
    /\ Len(input.local) < MaxPairs
    /\ \E p \in DiffIds \X AtomDigests : input' = [input EXCEPT !.local = Append(@, p)]

AddRemote ==
    /\ input.kind = "diff"
    /\ Len(input.remote) < MaxPairs
    /\ \E p \in DiffIds \X AtomDigests : input' = [input EXCEPT !.remote = Append(@, p)]

Next == AddLeaf \/ AddLocal \/ AddRemote
Spec == Init /\ [][Next]_input

\* Pairs with ids 1..n in the given order, carrying the leaves in id order.
Labelled(leaves, perm) == [i \in 1..Len(leaves) |-> <<perm[i], leaves[perm[i]]>>]

(***************************************************************************)
(* Reference definitions.                                                 *)
(***************************************************************************)

\* The left-complete binary tree: the left subtree takes the largest power
\* of two below n leaves, the right subtree the rest.
RECURSIVE SplitPoint(_, _)
SplitPoint(n, k) == IF 2 * k >= n THEN k ELSE SplitPoint(n, 2 * k)

RECURSIVE TreeRoot(_)
TreeRoot(leaves) ==
    IF Len(leaves) = 1 THEN leaves[1]
    ELSE LET k == SplitPoint(Len(leaves), 1)
         IN  HashPair(TreeRoot(SubSeq(leaves, 1, k)),
                      TreeRoot(SubSeq(leaves, k + 1, Len(leaves))))

\* The ids each side must ship: held here and absent or different there.
Differing(a, b) == {k \in DOMAIN a : k \notin DOMAIN b \/ a[k] # b[k]}

(***************************************************************************)
(* Properties.                                                            *)
(***************************************************************************)

\* compute_root's layer-by-layer pairing, with an odd last element promoted
\* unchanged, builds the left-complete binary tree over the leaves in id
\* order, whatever order the pairs arrive in; no pairs give 32 zero bytes.
RootIsOrderedTree ==
    input.kind = "root" =>
        \A perm \in SetToSeqs(1..Len(input.leaves)) :
            ComputeRoot(Labelled(input.leaves, perm)) =
                IF input.leaves = <<>> THEN ZeroRoot ELSE TreeRoot(input.leaves)

\* diff_roots puts in to_send exactly the ids the remote lacks or holds with
\* another hash, in to_request the mirror set, each list strictly
\* ascending, whatever order the HashSet of keys iterates in.
DiffIsExact ==
    input.kind = "diff" =>
        LET l == AsMap(input.local)
            r == AsMap(input.remote)
        IN  \A order \in KeyOrders(input.local, input.remote) :
                DiffRoots(input.local, input.remote, order) =
                    <<SetToSortSeq(Differing(l, r), <),
                      SetToSortSeq(Differing(r, l), <)>>

=============================================================================
