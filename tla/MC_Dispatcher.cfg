CONSTANTS
    DocIds <- MC_DocIds
    Payloads = {p1, p2}
    Metas = {m1}
    RefIds = {r1, r2}
    PipeCapacity = 1
    MaxBatch = 2
    MaxQuery = 2
    Garbled = Garbled
    NoReply = NoReply

SPECIFICATION Spec

INVARIANT TypeOK
INVARIANT StoreConsistent
\* INVARIANT RetryConverges

\* PROPERTY EveryRequestAnswered

CHECK_DEADLOCK FALSE
