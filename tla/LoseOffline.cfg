CONSTANTS
    desk = desk
    deck = deck
    mac = mac
    PC = {desk, deck}
    PlatformOf <- AllWindows
    MaxVersions = 2
    Sessions = 3
    MaxUploads = 4
    Events = {"outage"}
SPECIFICATION Spec
PROPERTY ProgressKept
SYMMETRY Alike
CHECK_DEADLOCK FALSE
