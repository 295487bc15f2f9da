CONSTANTS
    Callers = {c1}
    Weights = {2, 6}
    Rate = 2
    MinuteRate = 1
    Burst = 4
    MinuteBurst = 8
    Jitters = {0, 1, 2}
    FullAfter = 8
SPECIFICATION Spec
INVARIANT ChargedOnce
