------------------------------ MODULE MCSteps ------------------------------
(***************************************************************************)
(* The components of which only safety is asked, for TLC: a game's files,  *)
(* the choice of its setups, the save versions a migration copies, where   *)
(* saves go on another PC and the entry they are kept under, the session   *)
(* with the server, the catalogue, the settings, the sign-in profile,      *)
(* Steam's and the desktop's shortcuts, the gamepad, the window and the    *)
(* image cache.  They are checked side by side: a behaviour is of one of   *)
(* them, whose variables it keeps in s1, s2, ... (None where it has        *)
(* fewer).                                                                 *)
(***************************************************************************)
EXTENDS Integers, Sequences

CONSTANTS
    None,
    Server, MaxTokens, MaxClients,   \* of the session
    OwnServer, Folder, Limit, Caller,  \* of the settings, whose server stays
    Attempts, MaxGeneration, MaxSignIns,  \* of the sign-in profile
    Reveal, Watch, MaxChanges, MaxGames,  \* of the window
    TitleTask, TitleEntry, OwnTitle, Editions, MaxEditions, MaxAnswers,  \* of a title
    Direction, Delay, Every, IdleTime, MaxPresses,  \* of the gamepad
    Parts, MaxVersions,              \* of a game's files
    MaxGame, MaxTime, Batch, PageSize,  \* of the catalogue, whose pages rest
    ImageRequest, Image, MaxBytes, MaxUses,  \* of the image cache
    MaxFaults                        \* of the parts whose failures are counted

VARIABLES
    part,  \* the component this behaviour is of
    s1, s2, s3, s4, s5, s6, s7, s8, s9, s10, s11, s12, s13, s14

vars == <<part, s1, s2, s3, s4, s5, s6, s7, s8, s9, s10, s11, s12, s13, s14>>

after5 == <<part, s6, s7, s8, s9, s10, s11, s12, s13, s14>>
after6 == <<part, s7, s8, s9, s10, s11, s12, s13, s14>>
after8 == <<part, s9, s10, s11, s12, s13, s14>>
after9 == <<part, s10, s11, s12, s13, s14>>
after10 == <<part, s11, s12, s13, s14>>
after11 == <<part, s12, s13, s14>>
after12 == <<part, s13, s14>>
after13 == <<part, s14>>
after14 == <<part>>

(* The programs a download may hold: what their names say and where they   *)
(* lie.                                                                    *)
Named(title, words, marker, depth) ==
    [title |-> title, words |-> words, marker |-> marker, depth |-> depth,
     autorun |-> FALSE, version |-> 0, to |-> 0, kind |-> "setup"]

Plain == Named("no", <<>>, "none", 0)

Programs ==
    {[Named("is", <<>>, "none", 0) EXCEPT !.version = 2],
     Named("begins", <<>>, "none", 0), Plain, [Plain EXCEPT !.words = <<"a">>],
     [Plain EXCEPT !.marker = "dlc"], [Plain EXCEPT !.autorun = TRUE],
     [Plain EXCEPT !.kind = "uninstaller"], [Plain EXCEPT !.kind = "program", !.depth = 1],
     [Named("is", <<>>, "patch", 0) EXCEPT !.to = 1],
     [Named("is", <<>>, "patch", 1) EXCEPT !.to = 3],
     [Named("is", <<>>, "patch", 0) EXCEPT !.to = 4, !.kind = "patch program"]}

NeedAnswers == {p \in Programs : p.title = "is" /\ p.to # 1}

Heads ==
    {[starts |-> x, disc |-> FALSE, tar |-> FALSE] : x \in {"shebang", "elf", "mz", "nothing"}}
    \cup {[starts |-> "mz", disc |-> TRUE, tar |-> FALSE]}

(* Save stores to migrate from: the newest version first.                  *)
Saved(h, l) == [hash |-> h, locked |-> l]

Sources ==
    {<<Saved("c", FALSE), Saved("b", FALSE), Saved("a", x)>> : x \in BOOLEAN}
    \cup {<<Saved("a", FALSE), Saved("b", TRUE), Saved("a", FALSE)>>,
          <<Saved("b", TRUE), Saved("a", FALSE)>>}

(* Five kinds of PC: Windows with its Documents in place or moved, Proton  *)
(* in a prefix that Wine has used too, Wine, and a native build on Linux.  *)
Linux(accounts, account, linked) ==
    [system |-> "linux", build |-> "windows", accounts |-> accounts,
     account |-> account, linked |-> linked, moved |-> FALSE, inside |-> TRUE]

Proton == Linux({"steamuser", "user"}, "steamuser", FALSE)

Windows == [Proton EXCEPT !.system = "windows"]

AllKinds ==
    {Windows, [Windows EXCEPT !.moved = TRUE, !.inside = FALSE],
     Proton, Linux({"user"}, "user", TRUE),
     [Proton EXCEPT !.build = "native", !.inside = FALSE]}

KnownPlaces == {{}, {"progress", "options", "stray"}}

(* A game the save database may not know, know by its Steam id or its      *)
(* title, or know two entries like.                                        *)
Unknown == [lookup \in {"steam-id", "exact", "normalized", "fuzzy"} |-> {}]

KnownEditions ==
    {Unknown,
     [Unknown EXCEPT !["steam-id"] = {"game"}],
     [Unknown EXCEPT !["exact"] = {"game", "remake"}, !["normalized"] = {"game", "remake"}],
     [Unknown EXCEPT !["normalized"] = {"remake"}, !["fuzzy"] = {"game", "remake"}],
     [Unknown EXCEPT !["fuzzy"] = {"remake"}]}
-----------------------------------------------------------------------------
Files == INSTANCE GameFiles WITH
    Parts <- Parts, MaxVersions <- MaxVersions, MaxFaults <- MaxFaults,
    archive <- s1, disk <- s2, record <- s3, fetched <- s4, seen <- s5,
    pc <- s6, discard <- s7, faults <- s8

Choice == INSTANCE SetupChoice WITH
    Windows <- FALSE, Heads <- Heads, Program <- Programs,
    Manual <- NeedAnswers, MaxFiles <- 3, MaxGoes <- 2,
    head <- s1, rank <- s2, silent <- s3, at <- s4, queue <- s5,
    installed <- s6, done <- s7, goes <- s8, go <- s9, before <- s10

Migration == INSTANCE SaveMigration WITH
    Sources <- Sources, Limits <- {1, 2, 5}, MaxRuns <- 2, MaxFaults <- 1,
    source <- s1, limit <- s2, held <- s3, pc <- s4, all <- s5, chosen <- s6,
    present <- s7, problems <- s8, killed <- s9, modes <- s10, pruned <- s11,
    runs <- s12, faults <- s13

Paths == INSTANCE SavePaths WITH
    PC <- {"desk", "deck"}, Kinds <- AllKinds, KnownSets <- KnownPlaces,
    Chosen <- {"desk", "deck"}, Owners <- {"desk"}, Early <- FALSE,
    MaxDeeds <- 3, MaxBackups <- 1,
    kind <- s1, known <- s2, booted <- s3, files <- s4, custom <- s5,
    mapped <- s6, tagged <- s7, archive <- s8, back <- s9, writes <- s10,
    backups <- s11, mappings <- s12

Titles == INSTANCE SaveTitle WITH
    None <- None, Task <- TitleTask, Entry <- TitleEntry, OwnTitle <- OwnTitle,
    Editions <- Editions, Steady <- TRUE,
    MaxEditions <- MaxEditions, MaxAnswers <- MaxAnswers,
    published <- s1, manifest <- s2, record <- s3, lock <- s4, task <- s5,
    stored <- s6, picked <- s7, told <- s8, answers <- s9

SignIn == INSTANCE ServerSession WITH
    None <- None, Server <- Server, Modes <- {"apart"},
    MaxTokens <- MaxTokens, MaxClients <- MaxClients,
    mode <- s1, offers <- s2, valid <- s3, issued <- s4, up <- s5, mem <- s6,
    file <- s7, broken <- s8, client <- s9, generation <- s10,
    checked <- s11, start <- s12, login <- s13, out <- s14

Catalog == INSTANCE Catalogue WITH
    MaxGame <- MaxGame, MaxTime <- MaxTime, Kinds <- {"sync", "getAll", "pages"},
    PagesRest <- TRUE, Batch <- Batch, PageSize <- PageSize,
    kind <- s1, server <- s2, now <- s3, signedIn <- s4, mirror <- s5,
    disk <- s6, fetch <- s7, settled <- s8

Prefs == INSTANCE Preferences WITH
    None <- None, Server <- {OwnServer}, Folder <- Folder, Limit <- Limit,
    Caller <- Caller, Syncs <- FALSE, Killed <- FALSE,
    settings <- s1, synced <- s2, syncing <- s3, limit <- s4, transfer <- s5,
    command <- s6

Login == INSTANCE LoginProfile WITH
    None <- None, Windows <- TRUE, Together <- FALSE,
    Faults <- {"kill", "write"}, Attempts <- Attempts,
    MaxGeneration <- MaxGeneration, MaxSignIns <- MaxSignIns,
    MaxFaults <- MaxFaults,
    number <- s1, saved <- s2, present <- s3, held <- s4, window <- s5,
    up <- s6, signIns <- s7, reset <- s8, sweep <- s9, cleared <- s10,
    faults <- s11

Steam == INSTANCE SteamShortcuts WITH
    None <- None, Game <- {"g1"}, Account <- {"ada", "ben"},
    Title <- {"old", "new"}, Unreadable <- FALSE, Overlapping <- FALSE,
    MaxForeign <- 1, MaxRequests <- 3, MaxFaults <- 1,
    title <- s1, file <- s2, readable <- s3, art <- s4, task <- s5,
    foreign <- s6, requests <- s7, faults <- s8

Shortcuts == INSTANCE DesktopShortcuts WITH
    Game <- {"g1", "g2"}, Title <- {"old", "new"}, Windows <- TRUE,
    Users <- {}, Overlapping <- FALSE, MaxRequests <- 4, MaxRenames <- 1,
    title <- s1, shortcut <- s2, icon <- s3, task <- s4, shows <- s5,
    made <- s6, requests <- s7, renames <- s8

Pad == INSTANCE Gamepad WITH
    None <- None, Direction <- Direction, Triggers <- {"axis"},
    Delay <- Delay, Every <- Every, IdleTime <- IdleTime, MaxPresses <- MaxPresses,
    pad <- s1, waiting <- s2, enabled <- s3, focused <- s4, connected <- s5,
    held <- s6, pulled <- s7, out <- s8, owed <- s9

Tray == INSTANCE Window WITH
    Reveal <- Reveal, Watch <- Watch, MaxChanges <- MaxChanges,
    MaxGames <- MaxGames,
    tray <- s1, settings <- s2, login <- s3, start <- s4, window <- s5,
    made <- s6, focused <- s7, visibility <- s8, timers <- s9, reveal <- s10,
    games <- s11, watch <- s12, quitting <- s13, asked <- s14

Images == INSTANCE ImageCache WITH
    None <- None, Request <- ImageRequest, Image <- Image, Turns <- 1,
    MaxBytes <- MaxBytes, MaxUses <- MaxUses, MaxFaults <- MaxFaults,
    file <- s1, now <- s2, req <- s3, prune <- s4, faults <- s5

ASSUME MCStepsAssumption ==
    /\ Files!GameFilesAssumption
    /\ Paths!SavePathsAssumption
    /\ Titles!SaveTitleAssumption
    /\ SignIn!ServerSessionAssumption
    /\ Catalog!CatalogueAssumption
    /\ Prefs!PreferencesAssumption
    /\ \A c, d \in Caller : c = d
    /\ Login!LoginProfileAssumption
    /\ Steam!SteamShortcutsAssumption
    /\ Shortcuts!DesktopShortcutsAssumption
    /\ Pad!GamepadAssumption
    /\ Images!ImageCacheAssumption
-----------------------------------------------------------------------------
Init ==
    \/ part = "files" /\ Files!Init
       /\ s9 = None /\ s10 = None /\ s11 = None /\ s12 = None /\ s13 = None
       /\ s14 = None
    \/ part = "choice" /\ Choice!Init
       /\ s11 = None /\ s12 = None /\ s13 = None /\ s14 = None
    \/ part = "migration" /\ Migration!Init
       /\ s14 = None
    \/ part = "paths" /\ Paths!Init
       /\ s13 = None /\ s14 = None
    \/ part = "title" /\ Titles!Init
       /\ s10 = None /\ s11 = None /\ s12 = None /\ s13 = None /\ s14 = None
    \/ part = "server" /\ SignIn!Init
    \/ part = "catalogue" /\ Catalog!Init
       /\ s9 = None /\ s10 = None /\ s11 = None /\ s12 = None /\ s13 = None
       /\ s14 = None
    \/ part = "preferences" /\ Prefs!Init
       /\ s7 = None /\ s8 = None /\ s9 = None /\ s10 = None /\ s11 = None
       /\ s12 = None /\ s13 = None /\ s14 = None
    \/ part = "login" /\ Login!Init
       /\ s12 = None /\ s13 = None /\ s14 = None
    \/ part = "steam" /\ Steam!Init
       /\ s9 = None /\ s10 = None /\ s11 = None /\ s12 = None /\ s13 = None
       /\ s14 = None
    \/ part = "shortcuts" /\ Shortcuts!Init
       /\ s9 = None /\ s10 = None /\ s11 = None /\ s12 = None /\ s13 = None
       /\ s14 = None
    \/ part = "gamepad" /\ Pad!Init
       /\ s10 = None /\ s11 = None /\ s12 = None /\ s13 = None /\ s14 = None
    \/ part = "window" /\ Tray!Init
    \/ part = "images" /\ Images!Init
       /\ s6 = None /\ s7 = None /\ s8 = None /\ s9 = None /\ s10 = None
       /\ s11 = None /\ s12 = None /\ s13 = None /\ s14 = None

FilesStep == part = "files" /\ Files!Next /\ UNCHANGED after8
ChoiceStep == part = "choice" /\ Choice!Next /\ UNCHANGED after10
MigrationStep == part = "migration" /\ Migration!Next /\ UNCHANGED after13
PathsStep == part = "paths" /\ Paths!Next /\ UNCHANGED after12
TitlesStep == part = "title" /\ Titles!Next /\ UNCHANGED after9
SignInStep == part = "server" /\ SignIn!Next /\ UNCHANGED after14
CatalogStep == part = "catalogue" /\ Catalog!Next /\ UNCHANGED after8
PrefsStep == part = "preferences" /\ Prefs!Next /\ UNCHANGED after6
LoginStep == part = "login" /\ Login!Next /\ UNCHANGED after11
SteamStep == part = "steam" /\ Steam!Next /\ UNCHANGED after8
ShortcutsStep == part = "shortcuts" /\ Shortcuts!Next /\ UNCHANGED after8
PadStep == part = "gamepad" /\ Pad!Next /\ UNCHANGED after9
TrayStep == part = "window" /\ Tray!Next /\ UNCHANGED after14
ImagesStep == part = "images" /\ Images!Next /\ UNCHANGED after5

Next == FilesStep \/ ChoiceStep \/ MigrationStep \/ PathsStep \/ TitlesStep
        \/ SignInStep \/ CatalogStep \/ PrefsStep \/ LoginStep \/ SteamStep
        \/ ShortcutsStep \/ PadStep \/ TrayStep \/ ImagesStep

Spec == Init /\ [][Next]_vars
-----------------------------------------------------------------------------
(* The types of every component's state, with the limits that belong to    *)
(* them: no more images are scaled at once than there are turns.           *)
TypeOK ==
    /\ part = "files" => Files!TypeOK
    /\ part = "choice" => Choice!TypeOK
    /\ part = "migration" => Migration!TypeOK
    /\ part = "paths" => Paths!TypeOK
    /\ part = "title" => Titles!TypeOK
    /\ part = "server" => SignIn!TypeOK
    /\ part = "catalogue" => Catalog!TypeOK
    /\ part = "preferences" => Prefs!TypeOK
    /\ part = "login" => Login!TypeOK
    /\ part = "steam" => Steam!TypeOK
    /\ part = "shortcuts" => Shortcuts!TypeOK
    /\ part = "gamepad" => Pad!TypeOK
    /\ part = "window" => Tray!TypeOK
    /\ part = "images" => Images!TypeOK

(* An installed game is there, in its folder or set aside, until it is     *)
(* uninstalled or another stands in its place, whatever fails in moving    *)
(* files and wherever the app ends (move_into_place, install.rs).          *)
OldKept == [][part = "files" => Files!OldKept]_vars

(* What has an order keeps it.  Setups the app chooses run in theirs and   *)
(* once (setups.rs); a migration of everything into an empty store keeps   *)
(* the versions, their order and their locks, also when it was killed and  *)
(* is repeated (migrate_game, save_migration.rs).                          *)
InOrder ==
    /\ part = "choice" => Choice!RunsInOrder
    /\ part = "migration" => Migration!CopiesKeepOrder

(* Saves cross between PCs: what a restore says is back is where the game  *)
(* reads it here, whatever is stored is stored by a name that all PCs      *)
(* share, and folders set by hand on one become the game's folders on      *)
(* another (portable_roots and read_carried, saves.rs).                    *)
SavesTravel ==
    part = "paths" => Paths!RestoredIsRead /\ Paths!StoredIsNeutral /\ Paths!FoldersTravel

(* The entry a game's saves are kept under is no guess, and an old answer  *)
(* never stands for a search in the database at hand (identify, saves.rs). *)
Identified == part = "title" => Titles!NeverGuessed /\ Titles!SearchedAgain

(* A sign-in ends when the user ends it, and then it does: the stored      *)
(* session is given up only by leaving it, a token in use is one that is   *)
(* stored (state.rs: restore, update_settings, adopt), and no window works *)
(* with a sign-in the user was told is cleared (auth_flow.rs).             *)
SessionKept ==
    /\ [][part = "server" => SignIn!SessionKept]_vars
    /\ [](part = "server" => SignIn!TokenStored)
    /\ [](part = "login" => Login!ClearedIsGone)

(* A fetch during which the server's library rests lists exactly what the  *)
(* server has, whatever the mirror held before (v1.rs, state.rs).          *)
EveryGame == part = "catalogue" => Catalog!EveryGame

(* Between commands a version id on record is of the store saves go to     *)
(* now, and transfers obey the limit that is stored (settings.rs).         *)
SettingsObeyed == part = "preferences" => Prefs!SettingsObeyed

(* Shortcuts: Steam's files keep what other programs put there, in order   *)
(* and without a hole, and the game's own entry with what the user changed *)
(* in it (steam.rs); one on the desktop or in the menu stays until it is   *)
(* removed, with its icon (shortcuts.rs).                                  *)
EntriesKept ==
    /\ [](part = "steam" => Steam!OthersKept)
    /\ [][part = "steam" => Steam!EntryKept]_vars
    /\ [](part = "shortcuts" => Shortcuts!ShortcutsKept)

(* A press the page is told of was made (gamepad.rs).                      *)
NoPhantom == [][part = "gamepad" => Pad!NoPhantom]_vars

(* A window that is not there can be had back from the tray (lib.rs).      *)
Reachable == part = "window" => Tray!Reachable

(* The image cache drops what was used least recently, and no more than it *)
(* must (image_cache.rs).                                                  *)
PrunedLeastRecent == part = "images" => Images!PrunedLeastRecent
=============================================================================
