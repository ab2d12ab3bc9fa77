SPECIFICATION Spec
CONSTANTS
    Workers = {w1, w2}
    MainThread = main
    Nodes <- AtoD
    Graphs <- SplitAndSingle
    NewQueueSize = 1
    MaxTokens = 3
SYMMETRY WorkersAlike
INVARIANT RechainFindsNothingQueued
CHECK_DEADLOCK FALSE
