SPECIFICATION Spec
CONSTANTS
    Absent = Absent
    GameyfinWine = GameyfinWine
    Task = {"t1", "t2", "t3"}
    MaxClaims = 3
    Helper = {"h1", "h2"}
    MaxTime = 2
    MaxLaunches = 2
    MainSetup = {"game"}
    Extra = {"patch", "dlc"}
    Silent = {"game", "patch"}
    MaxSteps = 2
    MaxRuns = 1
    MaxWrites = 3
    Entries = 3
    MaxStops = 1
    Pipe = 1
    MaxLines = 2
    PrefixGame = {"g1"}
    Family = {"umu"}
    DefaultFamily = "umu"
    Host <- Machines
    MaxVersion = 2
    MaxRescale = 0
    MaxKills = 1
INVARIANTS
    TypeOK
    AloneByHand
    ExitedIsOver
    UnpackedIsWhole
    StartsPrepared
PROPERTIES
    NothingLost
    ComesToRest
    PendingUploaded
    Told
    ComesBack
CHECK_DEADLOCK FALSE
