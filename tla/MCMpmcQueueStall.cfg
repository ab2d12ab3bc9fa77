\* One caller runs on while another may have stopped anywhere.
SPECIFICATION StallSpec
CONSTANTS
    Threads = {t1, t2}
    Values = {a}
    InitialSize = 2
    Sizes = {4}
    MaxPos = 3
PROPERTY SurvivorReturns
CHECK_DEADLOCK FALSE
