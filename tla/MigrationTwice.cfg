SPECIFICATION Spec
CONSTANTS
    Sources <- AnyStore
    Limits = {1, 2, 5}
    MaxRuns = 2
    MaxFaults = 1
INVARIANT NewestStaysNewest
CHECK_DEADLOCK FALSE
