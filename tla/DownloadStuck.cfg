CONSTANTS
    Zip = {}
    Odd = {}
    Tar = {}
    Other = {rar}
    Size = 2
    Servers = {"ranges"}
    None = none
    LateStops = TRUE
    MaxInterruptions = 1
    MaxChanges = 0
SPECIFICATION FairSpec
PROPERTY Finishes
CHECK_DEADLOCK FALSE
