\* The docstring on restarts. Two slots, three jobs, two of them with a case, a clock that may step back.
CONSTANTS
    j1 = j1
    j2 = j2
    j3 = j3
    Jobs = {j1, j2, j3}
    CaseJobs = {j1, j2}
    MaxPersistedJobs = 2
    MaxTime = 2
    NoJob = NoJob
SPECIFICATION Spec
PROPERTIES
    RestartKeepsResults
