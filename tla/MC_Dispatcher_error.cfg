CONSTANTS
    DocIds <- MC_DocIds
    Payloads = {p1, p2}
    Metas = {m1}
    RefIds = {r1}
    PipeCapacity = 1
    MaxBatch = 2
    MaxQuery = 1
    Garbled = Garbled
    NoReply = NoReply

SPECIFICATION Spec

PROPERTY ErrorLeavesStoreUnchanged

CHECK_DEADLOCK FALSE
