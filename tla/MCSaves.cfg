CONSTANTS
    desk = desk
    deck = deck
    mac = mac
    Sessions = 3
    Few = 2
    Retention = 2
SPECIFICATION Spec
INVARIANT BackedUpIsBackedUp
PROPERTIES
    ProgressKept
    LineageKept
SYMMETRY Alike
CHECK_DEADLOCK FALSE
