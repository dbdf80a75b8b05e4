CONSTANTS
    MaxId = 3
    Here = here
    There = there
SPECIFICATION Spec
INVARIANTS
    ForkedIsFork
    PassesNothingUsable
    RecordNamesStored
PROPERTY OtherSystemsIgnored
CHECK_DEADLOCK FALSE
