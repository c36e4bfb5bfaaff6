CONSTANTS
    A = A
    B = B
    p1 = p1
    p2 = p2
    Peers <- MC_Peers
    DocIds <- MC_DocIds
    Payloads <- MC_Payloads
    Metas = {m1}

SPECIFICATION SyncSpec
SYMMETRY MC_Symmetry

INVARIANT RoundDeliversSource
