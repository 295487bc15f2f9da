CONSTANTS
    w1 = w1
    w2 = w2
    Nil = Nil
    Callers = {w1, w2}
    Weights = {2, 6}
    Rate = 2
    MinuteRate = 1
    Burst = 4
    MinuteBurst = 8
    Jitters = {0}
    FullAfter = 8
SPECIFICATION AllSpec
INVARIANTS
    NeverOverdrawn
    ChargedOnce
PROPERTIES
    WaitReturns
    Settles
    EventuallyWritten
    RunEnds
CHECK_DEADLOCK FALSE
