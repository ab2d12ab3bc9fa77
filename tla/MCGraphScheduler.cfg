SPECIFICATION FairSpec
CONSTANTS
    Workers = {w1, w2}
    MainThread = main
    Nodes <- AtoD
    Graphs <- CrossedAndSingle
    NewQueueSize = 1
    MaxTokens = 2
CONSTRAINT NotOvertaken
INVARIANTS TypeOK NothingQueuedAtEnd SomebodyAwake PushNeverFails RefcountsRestored BetweenCyclesQuiet
PROPERTIES ImplementsGraphCycle CycleCompletes QuietTermination
CHECK_DEADLOCK FALSE
