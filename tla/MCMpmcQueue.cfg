\* Two callers, two values, a ring of two cells that wraps.
SPECIFICATION FairSpec
CONSTANTS
    Threads = {t1, t2}
    Values = {a, b}
    InitialSize = 2
    Sizes = {4}
    MaxPos = 3
INVARIANTS CellExclusive IInv
PROPERTIES ImplementsQueueSpec CallsReturn
CHECK_DEADLOCK FALSE
