----------------------------- MODULE MCProgress ----------------------------
(***************************************************************************)
(* The components that must come to an end, for TLC: the claims of a       *)
(* game's commands, a session of it, a run of its setups, the unpacking of *)
(* its download, a program that is waited for, its Windows prefix, the     *)
(* sync of its saves, the watch over the server, the updater and the       *)
(* rendering.  They are checked side by side: a behaviour is of one of     *)
(* them, whose variables it keeps in s1, s2, ... (Absent where it has      *)
(* fewer).                                                                 *)
(***************************************************************************)
EXTENDS Integers, Sequences

CONSTANTS
    Absent, GameyfinWine,
    Task, MaxClaims,                     \* commands at a game, claims ever taken
    Helper, MaxTime, MaxLaunches,        \* of a session; launches also of a prefix
    MainSetup, Extra, Silent, MaxSteps, MaxRuns, MaxWrites,  \* of setups
    Entries, MaxStops,                   \* of an archive, and of unpacking it
    Pipe, MaxLines,                      \* of a program that is read
    PrefixGame, Family, DefaultFamily, Host, MaxVersion, MaxRescale, MaxKills

VARIABLES
    part,  \* the component this behaviour is of
    s1, s2, s3, s4, s5, s6, s7, s8, s9, s10, s11, s12, s13, s14, s15, s16,
    s17, s18

vars == <<part, s1, s2, s3, s4, s5, s6, s7, s8, s9, s10, s11, s12, s13, s14,
                s15, s16, s17, s18>>

after4 == <<part, s5, s6, s7, s8, s9, s10, s11, s12, s13, s14, s15, s16, s17,
            s18>>
after12 == <<part, s13, s14, s15, s16, s17, s18>>
after14 == <<part, s15, s16, s17, s18>>
after15 == <<part, s16, s17, s18>>
after16 == <<part, s17, s18>>
after18 == <<part>>

(* The machines: one that can do everything, one without Proton's          *)
(* preflight and Direct3D 12, one without Vulkan.                          *)
Machines ==
    {[umu |-> TRUE, lib32 |-> FALSE, dxvk |-> TRUE, d3d12 |-> TRUE],
     [umu |-> FALSE, lib32 |-> TRUE, dxvk |-> TRUE, d3d12 |-> FALSE],
     [umu |-> TRUE, lib32 |-> FALSE, dxvk |-> FALSE, d3d12 |-> FALSE]}
-----------------------------------------------------------------------------
Claims == INSTANCE GameClaims WITH
    Modes <- {"by-hand", "automatic", "apart"}, None <- Absent,
    mode <- s1, slot <- s2, claims <- s3, task <- s4

Session == INSTANCE GameSession WITH
    sys <- s1, nature <- s2, needs <- s3, activity <- s4, at <- s5,
    elevated <- s6, tried <- s7, stop <- s8, child <- s9, alive <- s10,
    signalled <- s11, duration <- s12, lived <- s13, session <- s14,
    record <- s15, launches <- s16

Setup == INSTANCE SetupRun WITH
    Game <- MainSetup,
    wine <- s1, pc <- s2, run <- s3, index <- s4, wow64 <- s5, before <- s6,
    folder <- s7, place <- s8, installed <- s9, failures <- s10,
    download <- s11, offered <- s12, stop <- s13, result <- s14, runs <- s15

Unpack == INSTANCE Unpacking WITH
    Size <- Entries, Platforms <- {"linux", "windows"}, Tools <- {"unar", "7z", "bsdtar"},
    marks <- s1, entries <- s2, way <- s3, platform <- s4, installed <- s5,
    password <- s6, disk <- s7, runnable <- s8, pc <- s9, at <- s10,
    mark <- s11, tools <- s12, worker <- s13, sampler <- s14,
    finished <- s15, attached <- s16, mounted <- s17, stops <- s18

Process == INSTANCE Subprocess WITH
    Modes <- {"stoppable", "timed"},
    mode <- s1, wine <- s2, wants <- s3, child <- s4, group <- s5,
    daemon <- s6, written <- s7, pipe <- s8, text <- s9, stopped <- s10,
    teardown <- s11, run <- s12, status <- s13, captured <- s14

Prefix == INSTANCE WindowsPrefix WITH
    Game <- PrefixGame, Wine <- GameyfinWine, Unset <- Absent,
    host <- s1, feed <- s2, protons <- s3, wine <- s4, graphics <- s5,
    lock <- s6, swap <- s7, announced <- s8, dpi <- s9, kills <- s10,
    launches <- s11, run <- s12, pin <- s13, prefix <- s14, marker <- s15

Saves == INSTANCE SaveSync WITH
    PC <- {"desk", "deck"}, PlatformOf <- [p \in {"desk", "deck"} |-> "windows"],
    MaxVersions <- 2, Sessions <- 2, MaxUploads <- 1,
    Events <- {"race", "outage", "crash", "lag", "skip", "skip-upload", "defer",
               "failed", "failing", "by-hand"},
    store <- s1, locked <- s2, minted <- s3, removed <- s4, record <- s5,
    live <- s6, staging <- s7, archive <- s8, unsynced <- s9, answered <- s10,
    reach <- s11, game <- s12, upload <- s13, asked <- s14, sessions <- s15,
    settled <- s16

Watcher == INSTANCE ServerWatch WITH
    None <- Absent, Game <- {"g1"}, Owned <- {"g1"}, Account <- {"ann"},
    MaxSize <- 2, OutageAfter <- 2, CatalogEvery <- 2, MaxKills <- 1,
    size <- s1, down <- s2, user <- s3, expired <- s4, local <- s5,
    list <- s6, seen <- s7, file <- s8, link <- s9, at <- s10, account <- s11,
    ticks <- s12, told <- s13, kills <- s14

Updater == INSTANCE Updates WITH
    None <- Absent, MaxVersion <- 3, MaxChecks <- 2, Reuse <- 1, Polls <- 2,
    Prompt <- TRUE, HostAnswers <- TRUE,
    channel <- s1, origin <- s2, feed <- s3, repo <- s4, deployed <- s5,
    running <- s6, answer <- s7, checks <- s8, install <- s9, outcome <- s10,
    relaunch <- s11, leaving <- s12

Drawing == INSTANCE Rendering WITH
    None <- Absent, MaxBoots <- 2, MaxKills <- 2, MaxChoices <- 2,
    MaxCopies <- 1,
    machine <- s1, env <- s2, prefs <- s3, pending <- s4, boot <- s5,
    app <- s6, startup <- s7, drew <- s8, died <- s9, kills <- s10,
    choices <- s11, copies <- s12

ASSUME MCProgressAssumption ==
    /\ Claims!GameClaimsAssumption
    /\ Absent \notin Claims!Names /\ Absent \notin [claim : Nat, kind : Claims!Kinds]
    /\ Session!GameSessionAssumption
    /\ Setup!SetupRunAssumption
    /\ Unpack!UnpackingAssumption
    /\ Prefix!PrefixAssumption
    /\ Watcher!ServerWatchAssumption
-----------------------------------------------------------------------------
Init ==
    \/ part = "claims" /\ Claims!Init
       /\ s5 = Absent /\ s6 = Absent /\ s7 = Absent /\ s8 = Absent /\ s9 = Absent
       /\ s10 = Absent /\ s11 = Absent /\ s12 = Absent /\ s13 = Absent /\ s14 = Absent
       /\ s15 = Absent /\ s16 = Absent /\ s17 = Absent /\ s18 = Absent
    \/ part = "session" /\ Session!Init
       /\ s17 = Absent /\ s18 = Absent
    \/ part = "setup" /\ Setup!Init
       /\ s16 = Absent /\ s17 = Absent /\ s18 = Absent
    \/ part = "unpacking" /\ Unpack!Init
    \/ part = "subprocess" /\ Process!Init
       /\ s15 = Absent /\ s16 = Absent /\ s17 = Absent /\ s18 = Absent
    \/ part = "prefix" /\ Prefix!Init
       /\ s16 = Absent /\ s17 = Absent /\ s18 = Absent
    \/ part = "saves" /\ Saves!Init
       /\ s17 = Absent /\ s18 = Absent
    \/ part = "watch" /\ Watcher!Init
       /\ s15 = Absent /\ s16 = Absent /\ s17 = Absent /\ s18 = Absent
    \/ part = "updates" /\ Updater!Init
       /\ s13 = Absent /\ s14 = Absent /\ s15 = Absent /\ s16 = Absent /\ s17 = Absent
       /\ s18 = Absent
    \/ part = "rendering" /\ Drawing!Init
       /\ s13 = Absent /\ s14 = Absent /\ s15 = Absent /\ s16 = Absent /\ s17 = Absent
       /\ s18 = Absent

ClaimsStep == part = "claims" /\ Claims!Next /\ UNCHANGED after4
SessionStep == part = "session" /\ Session!Next /\ UNCHANGED after16
SetupStep == part = "setup" /\ Setup!Next /\ UNCHANGED after15
UnpackStep == part = "unpacking" /\ Unpack!Next /\ UNCHANGED after18
ProcessStep == part = "subprocess" /\ Process!Next /\ UNCHANGED after14
PrefixStep == part = "prefix" /\ Prefix!Next /\ UNCHANGED after15
SavesStep == part = "saves" /\ Saves!Next /\ UNCHANGED after16
WatcherStep == part = "watch" /\ Watcher!Next /\ UNCHANGED after14
UpdaterStep == part = "updates" /\ Updater!Next /\ UNCHANGED after12
DrawingStep == part = "rendering" /\ Drawing!Next /\ UNCHANGED after12

Next == ClaimsStep \/ SessionStep \/ SetupStep \/ UnpackStep \/ ProcessStep
        \/ PrefixStep \/ SavesStep \/ WatcherStep \/ UpdaterStep \/ DrawingStep

(* The fairness of each component, as its module states it.  Only one of   *)
(* them moves in a behaviour, so the actions of several are fair together  *)
(* as each of them is alone.                                               *)
Fairness ==
    /\ \A t \in Task : WF_vars(part = "claims" /\ Claims!TaskStep(t) /\ UNCHANGED after4)
    /\ WF_vars(
        \/ part = "saves" /\ Saves!Retry("desk") /\ UNCHANGED after16
        \/ part = "session" /\ Session!LaunchStep /\ UNCHANGED after16
        \/ part = "setup" /\ Setup!RunStep /\ UNCHANGED after15
        \/ part = "unpacking" /\ Unpack!Reads /\ UNCHANGED after18
        \/ part = "subprocess" /\ Process!RunStep /\ UNCHANGED after14
        \/ part = "prefix" /\ Prefix!ReplaceBuild /\ UNCHANGED after15
        \/ part = "watch" /\ Watcher!Tick /\ UNCHANGED after14
        \/ part = "updates" /\ Updater!Gone /\ UNCHANGED after12
        \/ part = "rendering" /\ Drawing!Prepare /\ UNCHANGED after12)
    /\ WF_vars(
        \/ part = "saves" /\ Saves!UploadStep("desk") /\ UNCHANGED after16
        \/ part = "session" /\ Session!Supervise /\ UNCHANGED after16
        \/ /\ part = "unpacking" /\ UNCHANGED after18
           /\ (Unpack!SamplerSends \/ Unpack!SamplerLoops)
        \/ part = "subprocess" /\ Process!Collect /\ UNCHANGED after14
        \/ part = "prefix" /\ Prefix!RenameBuild /\ UNCHANGED after15
        \/ part = "updates" /\ Updater!Wait /\ UNCHANGED after12
        \/ part = "rendering" /\ Drawing!Arm /\ UNCHANGED after12)
    /\ WF_vars(
        \/ part = "saves" /\ Saves!Retry("deck") /\ UNCHANGED after16
        \/ /\ part = "unpacking" /\ UNCHANGED after18
           /\ (Unpack!WorkWrites \/ Unpack!WorkFails \/ Unpack!BsdtarLies \/ Unpack!WorkEnds)
        \/ part = "updates" /\ Updater!Start /\ UNCHANGED after12
        \/ part = "rendering" /\ Drawing!KeepPrefs /\ UNCHANGED after12)
    /\ WF_vars(
        \/ part = "saves" /\ Saves!UploadStep("deck") /\ UNCHANGED after16
        \/ part = "rendering" /\ Drawing!Mark /\ UNCHANGED after12)
    /\ \A g \in PrefixGame : SF_vars(
        \/ part = "prefix" /\ Prefix!Step(g) /\ UNCHANGED after15
        \/ part = "rendering" /\ (Drawing!Draw \/ Drawing!Dies) /\ UNCHANGED after12)

Spec == Init /\ [][Next]_vars /\ Fairness
-----------------------------------------------------------------------------
(* The types of every component's state, with what belongs together in it: *)
(* a line written is read or in the pipe, a claim no later than the last.  *)
TypeOK ==
    /\ part = "claims" => Claims!TypeOK
    /\ part = "session" => Session!TypeOK
    /\ part = "setup" => Setup!TypeOK
    /\ part = "unpacking" => Unpack!TypeOK
    /\ part = "subprocess" => Process!TypeOK
    /\ part = "prefix" => Prefix!TypeOK
    /\ part = "saves" => Saves!TypeOK
    /\ part = "watch" => Watcher!TypeOK
    /\ part = "updates" => Updater!TypeOK
    /\ part = "rendering" => Drawing!TypeOK

(* A game the user's commands find busy is at work for one of them only    *)
(* (claim, library_state.rs).                                              *)
AloneByHand == part = "claims" => Claims!AloneByHand

(* A session that ended by itself left nothing of its process group        *)
(* running (supervise_linux, process.rs).                                  *)
ExitedIsOver == part = "session" => Session!ExitedIsOver

(* An unpack that ends well leaves whole every entry but what is passed    *)
(* over and a tar's links, and every program executable, after stops,      *)
(* resumes and tools that failed; bsdtar's word is not taken (extract.rs). *)
UnpackedIsWhole == part = "unpacking" => Unpack!UnpackedIsWhole /\ Unpack!ModesRestored

(* What a command must not lose: the download before its setups are in,    *)
(* the output of a program that ended, the time a game's group ran, the    *)
(* busy state of a newer command, and the disc image the user attached;    *)
(* nor does a setup run after the game's own failed or one was stopped.    *)
NothingLost ==
    /\ [][part = "setup" => Setup!DownloadKept /\ Setup!NothingAfter]_vars
    /\ [][part = "subprocess" => Process!OutputKept]_vars
    /\ [][part = "session" => Session!PlaytimeCounts]_vars
    /\ [][part = "claims" => Claims!NewerKept]_vars
    /\ [][part = "unpacking" => Unpack!ImageAsFound]_vars

(* A prefix whose marker says it is prepared is, whatever failed before    *)
(* (prefix.rs, graphics.rs).                                               *)
StartsPrepared == part = "prefix" => Prefix!StartsPrepared

(* What was begun: a game busy by the user's commands, a session asked to  *)
(* stop, an unpack, a program that is over, stopped or out of time, a      *)
(* launch that waits for the runtime lock.                                 *)
Begun ==
    \/ part = "claims" /\ Claims!BusyByHand
    \/ part = "session" /\ Session!AskedToStop
    \/ part = "unpacking" /\ Unpack!Begun
    \/ part = "subprocess" /\ Process!MustReturn
    \/ part = "prefix" /\ \E g \in PrefixGame : Prefix!At(g) = "ensure"

Ended ==
    \/ part = "claims" /\ ~Claims!GameBusy
    \/ part = "session" /\ ~Session!ShownRunning
    \/ part = "unpacking" /\ Unpack!Ended
    \/ part = "subprocess" /\ Process!Returned
    \/ part = "prefix" /\ \A g \in PrefixGame : Prefix!At(g) \in {"run", "idle"}

HeldBack == part = "session" /\ Session!HeldBack

(* What was begun ends: no game stays busy, a stopped one is not shown as  *)
(* running, an unpack and a program the app waits for end, no stopper      *)
(* keeps uploads back for good, a launch runs or fails whoever else wants  *)
(* the lock, and a run of setups ends unless one of them never does.       *)
ComesToRest ==
    /\ Begun ~> Ended
    /\ HeldBack ~> ~HeldBack
    /\ \/ []<>(part = "setup" => Setup!Idle)
       \/ <>[](part = "setup" /\ Setup!Works)

(* An upload that could not reach the store is made in the end, once the   *)
(* store can be reached for good and the game and the app are left alone   *)
(* (retry_pending_uploads, saves.rs).  The PCs are alike: asked of one.    *)
PendingUploaded ==
    /\ <>[](part = "saves" /\ Saves!LeftAlone("desk"))
    /\ <>[][part = "saves" => ~Saves!Crash("desk")]_vars
    => []<>(part = "saves" /\ ~Saves!Waits("desk"))

(* A change of a game's files is told once, restarts included, and an      *)
(* outage that lasts is told and called off (server_watch.rs).             *)
Told ==
    /\ [][part = "watch" => Watcher!ToldOnce]_vars
    /\ <>[](part = "watch" /\ Watcher!Out) => <>[](part = "watch" /\ Watcher!Outage)
    /\ <>[](part = "watch" /\ Watcher!Accepted) => <>[](part = "watch" /\ ~Watcher!Outage)

Away ==
    \/ part = "updates" /\ Updater!Leaves
    \/ part = "rendering" /\ Drawing!NotForced

Back ==
    \/ part = "updates" /\ Updater!Up
    \/ part = "rendering" /\ Drawing!Drew

(* An app that restarts to be updated comes back, and what was reported as *)
(* updated is newer than what ran (updater.rs); one whose graphics crash   *)
(* shows a window in the end, and falls back to drawing by software only   *)
(* after such a crash (rendering.rs).                                      *)
ComesBack ==
    /\ [](part = "updates" => Updater!UpdatedIsNew)
    /\ [](part = "rendering" => Drawing!FallBackDeserved)
    /\ Away ~> Back
=============================================================================
