\* The docstring of wait.
SPECIFICATION Spec
CONSTANTS
    h1 = h1
    Tasks = {}
    Threads <- MCThreads
    Cost = 2
    Burst = 5
INVARIANT RequestsArePaid
