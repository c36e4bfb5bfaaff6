CONSTANTS
    Atoms = {a1, a2, a3}
    MaxLeaves = 5
    DiffIds = {1, 2, 3}
    MaxPairs = 2

SPECIFICATION Spec

INVARIANT RootIsOrderedTree
INVARIANT DiffIsExact
CHECK_DEADLOCK FALSE
