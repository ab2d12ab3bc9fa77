SPECIFICATION FairSpec
CONSTANTS
    Workers = {w1}
    MainThread = main
    Nodes <- AtoD
    Graphs <- SplitAndJoin
    NewQueueSize = 1
    MaxTokens = 2
PROPERTY TerminationCompletes
CHECK_DEADLOCK FALSE
