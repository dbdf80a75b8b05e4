----------------------------- MODULE GameSession ----------------------------
(***************************************************************************)
(* One game being played: the launch (src-tauri/src/ipc/launch.rs) and the *)
(* supervisor that watches and ends its processes                          *)
(* (gameyfin-core/src/process.rs).                                         *)
(*                                                                         *)
(* The program that is started may be a bootstrapper: it starts others and *)
(* exits.  On unix they stay in its process group, which is what the       *)
(* supervisor waits for and signals; the processes of a Wine prefix belong *)
(* to a wineserver outside it and are ended by a teardown; on Windows only *)
(* the program itself is known (the job object does nothing).  A game that *)
(* asks for administrator rights is first started without them, in up to   *)
(* three attempts; started with them it is no child of ours at all.        *)
(*                                                                         *)
(* What the saves do before and after is SaveSync's; who else may claim    *)
(* the game is GameClaims'.                                                *)
(***************************************************************************)
EXTENDS Integers, FiniteSets

CONSTANTS
    Helper,       \* the processes a game's program starts
    MaxTime,      \* bound: the ticks a session lasts; a tick is ten seconds
    MaxLaunches   \* bound: launches clicked

GameSessionAssumption == MaxTime \in Nat /\ MaxLaunches \in Nat

VARIABLES
    sys,       \* the system the app runs on, for good
    nature,    \* how each helper takes SIGTERM, or that it is outside the group
    needs,     \* which attempts to start the game without rights are refused
    activity,  \* the game's activity
    at,        \* how far the launch is
    elevated,  \* whether it was asked to run as administrator
    tried,     \* attempts to start it
    stop,      \* the registered stopper: none, armed or stopped
    child,     \* the program the supervisor started
    alive,     \* the helpers that run
    signalled, \* those a SIGTERM is on its way to
    duration,  \* ticks since the program was started
    lived,     \* ghost: the ticks in which something of its group ran
    session,   \* how the session ended
    record,    \* what the game's record says of it
    launches   \* launches clicked

launchVars == <<activity, at, elevated, tried, stop, session, record, launches>>
processVars == <<child, alive, signalled>>
timeVars == <<duration, lived>>
vars == <<sys, nature, needs, launchVars, processVars, timeVars>>

Under == {"heeds", "ignores"}

Grouped(h) == nature[h] \in Under

Wine == \E h \in Helper : nature[h] = "detached"

NoSession == [end |-> "none", duration |-> 0, over |-> FALSE]

Init ==
    /\ sys \in {"unix", "windows"}
    /\ nature \in [Helper -> IF sys = "unix" THEN Under \cup {"detached"} ELSE {"heeds"}]
    /\ needs \in (IF sys = "unix" THEN {0} ELSE 0 .. 4)
    /\ activity = "none"
    /\ at = "idle"
    /\ elevated = FALSE
    /\ tried = 0
    /\ stop = "none"
    /\ child = "none"
    /\ alive = {}
    /\ signalled = {}
    /\ duration = 0
    /\ lived = 0
    /\ session = NoSession
    /\ record = [elevation |-> FALSE, cleared |-> FALSE, played |-> 0, suggested |-> FALSE]
    /\ launches = 0

TypeOK ==
    /\ sys \in {"unix", "windows"}
    /\ nature \in [Helper -> Under \cup {"detached"}]
    /\ needs \in 0 .. 4
    /\ activity \in {"none", "preparing", "running", "failed"}
    /\ at \in {"idle", "checks", "saves", "spawn", "watch", "handed", "teardown",
               "signal", "kill", "elevated", "ended", "after"}
    /\ elevated \in BOOLEAN
    /\ tried \in 0 .. 3
    /\ stop \in {"none", "armed", "stopped"}
    /\ child \in {"none", "runs", "gone"}
    /\ alive \subseteq Helper
    /\ signalled \subseteq Helper
    /\ duration \in 0 .. MaxTime
    /\ lived \in 0 .. MaxTime
    /\ session \in [end : {"none", "exited", "terminated", "error"},
                    duration : 0 .. MaxTime, over : BOOLEAN]
    /\ record \in [elevation : BOOLEAN, cleared : BOOLEAN, suggested : BOOLEAN,
                   played : 0 .. MaxLaunches * MaxTime]
    /\ launches \in 0 .. MaxLaunches

(* Whether something the supervisor's wait is about still runs. *)
GroupRuns == child = "runs" \/ \E h \in alive : Grouped(h)
-----------------------------------------------------------------------------
(* The launch. *)

Goes(from, to) == at = from /\ at' = to

(* launch_game, launch_game_elevated: ignored while the game is busy; the  *)
(* second is refused anywhere but on Windows.  The processes of an earlier *)
(* session that outlived it are not this one's.                            *)
Click(asAdmin) ==
    /\ at = "idle"
    /\ activity \in {"none", "failed"}
    /\ asAdmin => sys = "windows"
    /\ launches < MaxLaunches
    /\ at' = "checks"
    /\ activity' = "preparing"
    /\ elevated' = asAdmin
    /\ tried' = 0
    /\ session' = NoSession
    /\ child' = "none"
    /\ alive' = {}
    /\ signalled' = {}
    /\ duration' = 0
    /\ lived' = 0
    /\ launches' = launches + 1
    /\ UNCHANGED <<sys, nature, needs, stop, record>>

(* Not installed, no program chosen, gone, or no runtime or prefix for it: *)
(* the error drops the claim, as does a question about the saves.          *)
Refused ==
    /\ at \in {"checks", "saves"}
    /\ at' = "idle"
    /\ activity' = "none"
    /\ UNCHANGED <<sys, nature, needs, elevated, tried, stop, session, record, launches,
                   processVars, timeVars>>

(* The runtime and the prefix are ready. *)
Prepared ==
    /\ Goes("checks", "saves")
    /\ UNCHANGED <<sys, nature, needs, activity, elevated, tried, stop, session, record,
                   launches, processVars, timeVars>>

(* before_launch let it pass: the stopper is registered before the program *)
(* is started, and what an earlier launch offered is withdrawn.            *)
Register ==
    /\ at = "saves"
    /\ stop' = "armed"
    /\ record' = [record EXCEPT !.elevation = FALSE]
    /\ IF elevated
       THEN at' = "elevated" /\ activity' = "running"
       ELSE at' = "spawn" /\ UNCHANGED activity
    /\ UNCHANGED <<sys, nature, needs, elevated, tried, session, launches,
                   processVars, timeVars>>

(* Which of spawn_without_elevation's attempts Windows refuses: as it is,  *)
(* with RUN_AS_INVOKER set, and after unticking the compatibility setting. *)
AttemptRefused == needs > tried

Started ==
    /\ at' = "watch"
    /\ child' = "runs"
    /\ activity' = "running"
    /\ tried' = tried + 1
    /\ UNCHANGED <<sys, nature, elevated, stop, session, launches, alive, signalled, timeVars>>

Spawn ==
    /\ at = "spawn"
    /\ ~AttemptRefused
    /\ Started
    /\ UNCHANGED <<needs, record>>

(* The game did not start: finish the stopper, say so. *)
SpawnFailed(offer) ==
    /\ at' = "idle"
    /\ activity' = "failed"
    /\ stop' = "none"
    /\ record' = [record EXCEPT !.elevation = offer]
    /\ UNCHANGED <<sys, nature, elevated, tried, session, launches, processVars, timeVars>>

SpawnRefused ==
    /\ at = "spawn"
    /\ AttemptRefused
    /\ tried = 0
    /\ tried' = 1
    /\ UNCHANGED <<sys, nature, needs, activity, at, elevated, stop, session, record,
                   launches, processVars, timeVars>>

(* clear_run_as_admin: nothing to untick, or unticked and started again. *)
NothingToUntick ==
    /\ at = "spawn"
    /\ AttemptRefused
    /\ tried = 1
    /\ needs = 3
    /\ SpawnFailed(TRUE)
    /\ UNCHANGED needs

Untick ==
    /\ at = "spawn"
    /\ AttemptRefused
    /\ tried = 1
    /\ needs # 3
    /\ tried' = 2
    /\ needs' = IF needs = 2 THEN 0 ELSE needs
    /\ record' = [record EXCEPT !.cleared = TRUE]
    /\ UNCHANGED <<sys, nature, activity, at, elevated, stop, session, launches,
                   processVars, timeVars>>

StillRefused ==
    /\ at = "spawn"
    /\ AttemptRefused
    /\ tried = 2
    /\ SpawnFailed(TRUE)
    /\ UNCHANGED needs

(* Any other error of an attempt. *)
SpawnError ==
    /\ at = "spawn"
    /\ SpawnFailed(FALSE)
    /\ UNCHANGED needs
-----------------------------------------------------------------------------
(* The processes. *)

Lives == at \in {"watch", "handed", "teardown", "signal", "kill", "elevated", "ended"}

(* Whoever runs may start another, unless it is about to end; what leaves  *)
(* the group starts nothing within it.                                     *)
StartHelper(h) ==
    /\ h \notin alive
    /\ child = "runs" \/ \E g \in alive \ signalled : Grouped(h) => Grouped(g)
    /\ alive' = alive \cup {h}
    /\ UNCHANGED <<sys, nature, needs, launchVars, child, signalled, timeVars>>

ChildExits ==
    /\ child = "runs"
    /\ child' = "gone"
    /\ UNCHANGED <<sys, nature, needs, launchVars, alive, signalled, timeVars>>

HelperExits(h) ==
    /\ h \in alive
    /\ alive' = alive \ {h}
    /\ signalled' = signalled \ {h}
    /\ UNCHANGED <<sys, nature, needs, launchVars, child, timeVars>>

Tick ==
    /\ Lives
    /\ duration < MaxTime
    /\ duration' = duration + 1
    /\ lived' = IF GroupRuns THEN lived + 1 ELSE lived
    /\ UNCHANGED <<sys, nature, needs, launchVars, processVars>>

(* stop_game finds a stopper, or does nothing. *)
Stop ==
    /\ stop = "armed"
    /\ stop' = "stopped"
    /\ UNCHANGED <<sys, nature, needs, activity, at, elevated, tried, session, record,
                   launches, processVars, timeVars>>
-----------------------------------------------------------------------------
(* The supervisor: wait_or_stop, terminate. *)

Ended(end, over) ==
    /\ at' = "ended"
    /\ session' = [end |-> end, duration |-> duration, over |-> over]

(* A mistake to check against: the program's own exit ends the session. *)
ChildExitEnds ==
    /\ at = "watch"
    /\ child = "gone"
    /\ Ended("exited", ~GroupRuns)
    /\ UNCHANGED <<sys, nature, needs, activity, elevated, tried, stop, record, launches,
                   processVars, timeVars>>

(* child.wait: on unix the group is waited for next. *)
ChildWaited ==
    /\ at = "watch"
    /\ child = "gone"
    /\ IF sys = "unix" THEN at' = "handed" /\ UNCHANGED session ELSE Ended("exited", ~GroupRuns)
    /\ UNCHANGED <<sys, nature, needs, activity, elevated, tried, stop, record, launches,
                   processVars, timeVars>>

(* wait_for_empty_group, a poll of killpg(group, 0) *)
GroupEmpty ==
    /\ at = "handed"
    /\ ~GroupRuns
    /\ Ended("exited", ~GroupRuns)
    /\ UNCHANGED <<sys, nature, needs, activity, elevated, tried, stop, record, launches,
                   processVars, timeVars>>

HeedStop ==
    /\ at \in {"watch", "handed"}
    /\ stop = "stopped"
    /\ at' = IF Wine THEN "teardown" ELSE "signal"
    /\ UNCHANGED <<sys, nature, needs, activity, elevated, tried, stop, session, record,
                   launches, processVars, timeVars>>

(* The prefix's wineserver ends its processes, fails, or takes too long. *)
TornDown(works) ==
    /\ Goes("teardown", "signal")
    /\ alive' = IF works THEN {h \in alive : Grouped(h)} ELSE alive
    /\ UNCHANGED <<sys, nature, needs, activity, elevated, tried, stop, session, record,
                   launches, child, signalled, timeVars>>

(* killpg(group, SIGTERM); on Windows Job::terminate does nothing. *)
Signal ==
    /\ Goes("signal", "kill")
    /\ signalled' = IF sys = "unix" THEN {h \in alive : nature[h] = "heeds"} ELSE {}
    /\ UNCHANGED <<sys, nature, needs, activity, elevated, tried, stop, session, record,
                   launches, child, alive, timeVars>>

(* child.kill *)
Kill ==
    /\ at = "kill"
    /\ child' = "gone"
    /\ UNCHANGED <<alive, signalled>>
    /\ Ended("terminated", FALSE)
    /\ UNCHANGED <<sys, nature, needs, activity, elevated, tried, stop, record, launches,
                   timeVars>>

(* run_elevated: the prompt dismissed, or the program run to its end by    *)
(* the shell.  It has no stopper and no group.                             *)
RunElevated(end) ==
    /\ at = "elevated"
    /\ Ended(end, FALSE)
    /\ UNCHANGED <<sys, nature, needs, activity, elevated, tried, stop, record, launches,
                   processVars, timeVars>>
-----------------------------------------------------------------------------
(* What a session leaves: the stopper is finished first. *)

Meaningful == session.duration >= 1

Finished ==
    /\ at = "ended"
    /\ stop' = "none"
    /\ UNCHANGED <<sys, nature, needs, elevated, tried, session, launches,
                   processVars, timeVars>>

(* Long enough: the time counts, and after_exit uploads the saves. *)
Played ==
    /\ Finished
    /\ session.end # "error"
    /\ Meaningful
    /\ record' = [record EXCEPT !.played = @ + session.duration, !.suggested = FALSE]
    /\ activity' = "none"
    /\ at' = "after"

Lowered == IF tried = 1 THEN record.cleared ELSE TRUE

(* failed_to_start: over within seconds, and nobody stopped it. *)
FailedToStart(suggests) ==
    /\ Finished
    /\ session.end = "exited"
    /\ ~Meaningful
    /\ record' = [record EXCEPT !.suggested = suggests,
                                !.elevation = @ \/ (~elevated /\ Lowered)]
    /\ activity' = "failed"
    /\ at' = "idle"

StoppedEarly ==
    /\ Finished
    /\ session.end = "terminated"
    /\ ~Meaningful
    /\ activity' = "none"
    /\ at' = "idle"
    /\ UNCHANGED record

(* The consent dialog was dismissed: the same button offers it again. *)
Dismissed ==
    /\ Finished
    /\ session.end = "error"
    /\ record' = [record EXCEPT !.elevation = @ \/ elevated]
    /\ activity' = "failed"
    /\ at' = "idle"

(* after_exit *)
AfterExit ==
    /\ Goes("after", "idle")
    /\ UNCHANGED <<sys, nature, needs, activity, elevated, tried, stop, session, record,
                   launches, processVars, timeVars>>
-----------------------------------------------------------------------------
Supervise ==
    \/ ChildWaited \/ GroupEmpty \/ HeedStop
    \/ \E works \in BOOLEAN : TornDown(works)
    \/ Signal \/ Kill

LaunchStep ==
    \/ Refused \/ Prepared \/ Register
    \/ Spawn \/ SpawnRefused \/ NothingToUntick \/ Untick \/ StillRefused \/ SpawnError
    \/ Played \/ StoppedEarly \/ Dismissed \/ AfterExit
    \/ \E suggests \in BOOLEAN : FailedToStart(suggests)

Next ==
    \/ \E asAdmin \in BOOLEAN : Click(asAdmin)
    \/ LaunchStep
    \/ Supervise
    \/ \E end \in {"exited", "error"} : RunElevated(end)
    \/ \E h \in Helper : StartHelper(h) \/ HelperExits(h)
    \/ ChildExits
    \/ Tick
    \/ Stop

(* The launch's task and the supervisor are scheduled; nobody promises     *)
(* that a game exits or that a user answers.                               *)
Spec ==
    /\ Init /\ [][Next]_vars
    /\ WF_vars(LaunchStep)
    /\ WF_vars(Supervise)
-----------------------------------------------------------------------------
(* A session on unix that ended by itself left nothing of its group        *)
(* running: a launcher that handed off to the game did not end it.         *)
ExitedIsOver == sys = "unix" /\ ~elevated /\ session.end = "exited" => session.over

(* The time that is added to the record is at least the time something of  *)
(* the game's group ran.                                                   *)
PlaytimeCounts ==
    record'.played # record.played /\ sys = "unix" /\ session.end = "exited"
        => record'.played - record.played >= lived

AskedToStop == stop = "stopped" /\ ~elevated

ShownRunning == activity = "running"

HeldBack == stop # "none" /\ ~elevated /\ ~GroupRuns
=============================================================================
