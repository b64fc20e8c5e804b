SPECIFICATION Spec
CONSTANTS
    m1 = m1
    s1 = s1
    s2 = s2
    r1 = r1
    Plain <- MCPlain
    Sources <- MCSources
    Refused <- MCRefused
    Permits = 2
    MaxAttempts = 3
INVARIANT EveryQueryAudited
CHECK_DEADLOCK FALSE
