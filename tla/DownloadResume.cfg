CONSTANTS
    Zip = {zip1, zip2}
    Odd = {odd}
    Tar = {tar}
    Other = {rar}
    Size = 3
    Servers = {"ranges", "plain", "no-etag"}
    None = none
    LateStops = FALSE
    MaxInterruptions = 3
    MaxChanges = 2
SPECIFICATION FairSpec
INVARIANTS
    MarkHolds
    DoneIsOneArchive
PROPERTY EndsClean
