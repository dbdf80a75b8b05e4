CONSTANTS
    PC = {1, 2}
    Save = {alpha, beta}
    None = none
    Part = part
    MaxVersions = 1
    MaxUploads = 3
    MaxClock = 2
    MaxCalls = 3
    MaxFaults = 1
SPECIFICATION Spec
INVARIANT HeldWhole
PROPERTY IsVersionStore
SYMMETRY AlikeSaves
CHECK_DEADLOCK FALSE
