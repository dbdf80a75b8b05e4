CONSTANTS
    desk = desk
    deck = deck
    mac = mac
    PC = {desk, deck}
    PlatformOf <- AllWindows
    MaxVersions = 1
    Sessions = 2
    MaxUploads = 3
    Events = {"lock", "delete", "half-delete", "history", "skip"}
SPECIFICATION StoreSpec
INVARIANT TypeOK
PROPERTY PruningSpares
SYMMETRY Alike
CHECK_DEADLOCK FALSE
