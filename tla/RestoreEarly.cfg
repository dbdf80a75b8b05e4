SPECIFICATION Spec
CONSTANTS
    PC = {"desk", "deck"}
    Kinds <- PlainKinds
    KnownSets <- PlainPlaces
    Chosen = {"desk", "deck"}
    Owners = {"desk"}
    Early = TRUE
    MaxDeeds = 3
    MaxBackups = 1
INVARIANTS
    RestoredIsRead
CHECK_DEADLOCK FALSE
