\* One caller alone, one push past G_MAXINT: positions are negative.
SPECIFICATION WrapSpec
CONSTANTS
    Threads = {t1}
    Values = {a}
    InitialSize = 2
    Sizes = {}
    MaxPos = 100
    IntMax = 3
    MaxPushes = 5
PROPERTY PushReturns
CHECK_DEADLOCK FALSE
