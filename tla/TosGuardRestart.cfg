SPECIFICATION OrderlySpec
CONSTANTS
    s1 = s1
    s2 = s2
    Sources <- MCSources
    Cost = 2
    Burst = 3
    FlushInterval = 2
    MaxTime = 4
    MaxRestarts = 1
    MaxSetBacks = 0
INVARIANT LimitsSurviveRestarts
SYMMETRY Symmetry
CHECK_DEADLOCK FALSE
