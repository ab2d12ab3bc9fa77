SPECIFICATION Spec
CONSTANTS
    Workers = {w1, w2}
    MainThread = main
    Nodes <- AtoD
    Graphs <- SplitAndJoin
    NewQueueSize = 1
    MaxTokens = 3
SYMMETRY WorkersAlike
INVARIANT SleepersStayIdle
CHECK_DEADLOCK FALSE
