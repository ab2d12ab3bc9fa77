\* The last count of pushes at which pos + 1 is still a gint.
SPECIFICATION WrapSpec
CONSTANTS
    Threads = {t1, t2}
    Values = {a}
    InitialSize = 2
    Sizes = {4}
    MaxPos = 100
    IntMax = 7
    MaxPushes = 6
PROPERTIES ImplementsMpmcQueue CallsReturn
CHECK_DEADLOCK FALSE
