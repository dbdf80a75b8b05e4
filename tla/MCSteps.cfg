SPECIFICATION Spec
CONSTANTS
    None = None
    Server = {"home", "work"}
    MaxTokens = 1
    MaxClients = 3
    OwnServer = "home"
    Folder = {"f1", "f2"}
    Limit = {0, 100}
    Caller = {"c1"}
    Attempts = 2
    MaxGeneration = 2
    MaxSignIns = 2
    Reveal = {"r1", "r2"}
    Watch = {"w1"}
    MaxChanges = 2
    MaxGames = 1
    TitleTask = {"overview", "page"}
    TitleEntry = {"game", "remake"}
    OwnTitle = "game"
    Editions <- KnownEditions
    MaxEditions = 2
    MaxAnswers = 2
    Direction = {"up", "left"}
    Delay = 3
    Every = 1
    IdleTime = 2
    MaxPresses = 2
    Parts = 2
    MaxVersions = 2
    MaxGame = 2
    MaxTime = 4
    Batch = 1
    PageSize = 1
    ImageRequest = {"r1", "r2"}
    Image = {"cover"}
    MaxBytes = 2
    MaxUses = 5
    MaxFaults = 1
INVARIANTS
    TypeOK
    InOrder
    SavesTravel
    Identified
    EveryGame
    SettingsObeyed
    Reachable
    PrunedLeastRecent
PROPERTIES
    OldKept
    SessionKept
    EntriesKept
    NoPhantom
CHECK_DEADLOCK FALSE
