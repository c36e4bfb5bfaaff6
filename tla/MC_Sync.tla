------------------------------ MODULE MC_Sync ------------------------------
EXTENDS Sync, TLC

CONSTANTS A, B, p1, p2

MC_Peers == {A, B}
MC_Payloads == {p1, p2}
MC_DocIds == {1, 2}

\* Peers and payloads are interchangeable: no property names one of them.
\* Document ids are ordered (redb key order), so they are not permuted.
MC_Symmetry == Permutations(MC_Peers) \cup Permutations(MC_Payloads)

=============================================================================
