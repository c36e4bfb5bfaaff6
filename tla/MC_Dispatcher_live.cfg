CONSTANTS
    DocIds <- MC_DocIds
    Payloads = {p1, p2}
    Metas = {m1}
    RefIds = {r1}
    PipeCapacity = 1
    MaxBatch = 2
    MaxQuery = 2
    Garbled = Garbled
    NoReply = NoReply

SPECIFICATION Spec

INVARIANT RetryConverges

PROPERTY EveryRequestAnswered ImplementsService

CHECK_DEADLOCK FALSE
