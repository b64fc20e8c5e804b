\* A plan of six sources, of which five may be asked, two at a time.
CONSTANTS
    Steps = 6
    MaxSources = 5
    Wave = 2
SPECIFICATION Spec
INVARIANT AlternateIsTried
CHECK_DEADLOCK FALSE
