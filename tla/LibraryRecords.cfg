CONSTANTS
    Task = {t1, t2, t3}
    Nobody = nobody
    Game = {hades, celeste}
    MaxChanges = 2
SPECIFICATION FairSpec
INVARIANTS
    TypeOK
    Durable
    LastWriteCarriesAll
PROPERTY Saved
CHECK_DEADLOCK FALSE
