------------------------------ MODULE SetupRun ------------------------------
(***************************************************************************)
(* A run of setup programs (src-tauri/src/ipc/install.rs): the game's,     *)
(* then its patches and DLC, one after another, each in its Wine prefix    *)
(* where it needs one, watched, stopped, retried under WOW64, asked for    *)
(* administrator rights, and judged by what it changed in the game's       *)
(* folder.  The download is deleted only after a run in which everything   *)
(* went in.                                                                *)
(*                                                                         *)
(* In a prefix C:\Games\<title> is a link to the game's folder.  It is     *)
(* removed for a first install, and an installer may put a folder of its   *)
(* own in its place: either is moved into the game's folder afterwards.    *)
(***************************************************************************)
EXTENDS Integers, FiniteSets, SequencesExt

CONSTANTS
    Game,       \* the setup programs whose role is the game
    Extra,      \* those that are patches or DLC
    Silent,     \* those whose toolkit has silent switches
    MaxSteps,   \* bound: steps in one run
    MaxRuns,    \* bound: runs started
    MaxWrites   \* bound: changes to the game's folder

SetupRunAssumption ==
    /\ Game \cap Extra = {}
    /\ Silent \subseteq Game \cup Extra
    /\ MaxSteps \in Nat /\ MaxRuns \in Nat /\ MaxWrites \in Nat

Setup == Game \cup Extra

None == "none"

VARIABLES
    wine,       \* whether the programs run in a prefix (else on Windows), for good
    pc,         \* how far the run is
    run,        \* the run: steps, as administrator, who may be asked, deletion
    index,      \* the step it is at
    wow64,      \* whether the attempt is the one under WOW64
    before,     \* the game's folder before a patch or DLC
    folder,     \* the game's folder: 0 without content, else what it holds
    place,      \* what is at C:\Games\<title>: nothing, a link, or a folder with files
    installed,  \* installed_setups of the record
    failures,   \* the steps of the run that failed
    download,   \* whether the download is still there
    offered,    \* elevation_program of the record
    stop,       \* the stopper of the program that runs
    result,     \* how the program ended, and whether it lacked a graphics driver
    runs        \* runs started

stepVars == <<wine, run, index, installed, failures, download, runs>>
vars == <<wine, pc, run, index, wow64, before, folder, place, installed, failures,
          download, offered, stop, result, runs>>

NoRun == [steps |-> <<>>, elevated |-> FALSE, ask |-> FALSE, delete |-> "no"]

NoResult == [end |-> "none", lacksGl |-> FALSE]

Step == run.steps[index]

Judged == Step \in Extra

Runs == {steps \in BoundedSeq(Setup, MaxSteps) : steps # <<>> /\ IsInjective(steps)}

Init ==
    /\ wine \in BOOLEAN
    /\ pc = "idle"
    /\ run = NoRun
    /\ index = 0
    /\ wow64 = FALSE
    /\ before = -1
    /\ folder = 0
    /\ place = "nothing"
    /\ installed = {}
    /\ failures = {}
    /\ download = TRUE
    /\ offered = None
    /\ stop = "none"
    /\ result = NoResult
    /\ runs = 0

TypeOK ==
    /\ wine \in BOOLEAN
    /\ pc \in {"idle", "first", "begin", "prepare", "works", "ended", "judge", "settle"}
    /\ run.steps \in Runs \cup {<<>>}
    /\ index \in 0 .. MaxSteps + 1
    /\ wow64 \in BOOLEAN
    /\ before \in -1 .. MaxWrites
    /\ folder \in 0 .. MaxWrites
    /\ place \in {"nothing", "link", "own"}
    /\ installed \subseteq Setup
    /\ failures \subseteq Setup
    /\ download \in BOOLEAN
    /\ offered \in Setup \cup {None}
    /\ stop \in {"none", "armed", "heard"}
    /\ result \in [end : {"none", "ok", "failed", "elevation", "refused", "error"},
                   lacksGl : BOOLEAN]
    /\ runs \in 0 .. MaxRuns
-----------------------------------------------------------------------------
(* Who starts a run. *)

(* run_setups: the files are checked, the game claimed. *)
RunSetups(steps, elevated, ask, delete) ==
    /\ pc = "idle"
    /\ runs < MaxRuns
    /\ download
    /\ pc' = "first"
    /\ run' = [steps |-> steps, elevated |-> elevated, ask |-> ask, delete |-> delete]
    /\ index' = 1
    /\ failures' = {}
    /\ wow64' = FALSE
    /\ result' = NoResult
    /\ runs' = runs + 1
    /\ UNCHANGED <<wine, before, folder, place, installed, download, offered, stop>>

(* Setups that are still to run keep the download, unless the user chose. *)
Pending == Setup \ installed

(* install_setups, run_setup_path: in the order the user gave them. *)
InstallSetups(steps, delete) == RunSetups(steps, FALSE, TRUE, delete)

RunSetupElevated ==
    /\ ~wine
    /\ offered # None
    /\ RunSetups(<<offered>>, TRUE, TRUE, "setting")

(* auto_run_setups: what cannot run silently is left to the user, and so   *)
(* is everything when that is the game.  None at all is no run.            *)
AutoRunSetups(steps) ==
    LET silent == SelectSeq(steps, LAMBDA s : s \in Silent)
    IN  /\ silent \in Runs
        /\ \A s \in Range(steps) : s \in Game => s \in Silent
        /\ RunSetups(silent, FALSE, FALSE, "setting")
-----------------------------------------------------------------------------
(* The prefix: C:\Games\<title>. *)

(* merge_into and link_folder: what is in a real folder joins the game's,  *)
(* and the link takes its place.                                           *)
Settled ==
    /\ folder' = IF place = "own" THEN folder + 1 ELSE folder
    /\ place' = "link"

(* Could not be moved or linked, which is only logged. *)
NotSettled == UNCHANGED <<folder, place>>

(* The game's folder has room for one more change, within the bound. *)
Room == folder < MaxWrites

(* clear_game_link: a folder with files stays, for the move to pick up. *)
Cleared ==
    /\ place' = IF place = "own" THEN "own" ELSE "nothing"
    /\ UNCHANGED folder

(* prepare_installer: on Windows there is no link. *)
Linked ==
    \/ ~wine /\ UNCHANGED <<folder, place>>
    \/ wine /\ folder > 0 /\ (place = "own" => Room) /\ Settled
    \/ wine /\ folder > 0 /\ place = "own" /\ NotSettled
    \/ wine /\ folder = 0 /\ Cleared

Prepare ==
    /\ Linked
    /\ offered' = None

(* The first program is prepared before the command returns: a prefix that *)
(* cannot be built is the caller's error, and the claim is dropped.        *)
PrepareFirst ==
    /\ pc = "first"
    /\ Prepare
    /\ pc' = "begin"
    /\ UNCHANGED <<stepVars, wow64, before, stop, result>>

FirstFails ==
    /\ pc = "first"
    /\ pc' = "idle"
    /\ UNCHANGED <<stepVars, wow64, before, folder, place, offered, stop, result>>

(* run_step: the folder is measured before a patch or DLC. *)
BeginStep ==
    /\ pc = "begin"
    /\ before' = IF Judged THEN folder ELSE -1
    /\ wow64' = FALSE
    /\ result' = NoResult
    /\ IF index = 1
       THEN /\ pc' = "works"
            /\ stop' = "armed"
       ELSE /\ pc' = "prepare"
            /\ UNCHANGED stop
    /\ UNCHANGED <<stepVars, folder, place, offered>>

PrepareNext ==
    /\ pc = "prepare"
    /\ Prepare
    /\ pc' = "works"
    /\ stop' = "armed"
    /\ result' = NoResult
    /\ UNCHANGED <<stepVars, wow64, before>>
-----------------------------------------------------------------------------
(* The program. *)

Works == pc = "works"

(* Into the game's folder, or through the link to it. *)
WriteInFolder ==
    /\ Works
    /\ Room
    /\ wine => place = "link"
    /\ folder' = folder + 1
    /\ UNCHANGED <<stepVars, pc, wow64, before, place, offered, stop, result>>

(* Into a folder of its own at C:\Games\<title>, in place of the link. *)
WriteInPrefix ==
    /\ Works
    /\ wine
    /\ place' = "own"
    /\ UNCHANGED <<stepVars, pc, wow64, before, folder, offered, stop, result>>

Ended(end, lacksGl) ==
    /\ pc' = "ended"
    /\ result' = [end |-> end, lacksGl |-> lacksGl]
    /\ UNCHANGED <<stepVars, wow64, before, folder, place, offered, stop>>

(* By itself, whether or not a stop has come in meanwhile. *)
Exit ==
    /\ Works
    /\ \E end \in {"ok", "failed", "error"}, lacksGl \in BOOLEAN :
          /\ lacksGl => wine /\ end # "error"
          /\ Ended(end, lacksGl)

(* Windows will not start it without administrator rights. *)
NeedsElevation ==
    /\ Works
    /\ ~wine
    /\ ~run.elevated
    /\ Ended("elevation", FALSE)

(* stop_game: there is a stopper only while a program runs. *)
Stop ==
    /\ Works
    /\ stop = "armed"
    /\ stop' = "heard"
    /\ UNCHANGED <<stepVars, pc, wow64, before, folder, place, offered, result>>

(* run_capturing_stoppable: signals, the wineserver's end, a kill after    *)
(* the grace.  A program the shell runs as administrator has no stopper.   *)
StopProgram ==
    /\ Works
    /\ stop = "heard"
    /\ ~run.elevated
    /\ \E lacksGl \in BOOLEAN : (lacksGl => wine) /\ Ended("failed", lacksGl)

(* A consent dialog, when a user is there to answer it. *)
AskConsent ==
    /\ pc = "ended"
    /\ result.end = "elevation"
    /\ run.ask
    /\ \E end \in {"ok", "failed", "refused"} : result' = [result EXCEPT !.end = end]
    /\ UNCHANGED <<stepVars, pc, wow64, before, folder, place, offered, stop>>

(* What the same button retries as administrator. *)
RightsLacking ==
    \/ result.end \in {"elevation", "refused"}
    \/ result.end = "error" /\ run.elevated

(* The stopper is finished; a program that did not succeed is judged as it *)
(* is.                                                                     *)
NotOk ==
    /\ pc = "ended"
    /\ result.end # "ok"
    /\ result.end = "elevation" => ~run.ask
    /\ offered' = IF RightsLacking THEN Step ELSE offered
    /\ pc' = "judge"
    /\ UNCHANGED <<stepVars, wow64, before, folder, place, stop, result>>

(* execute_installer after a clean exit: what was written to the prefix is *)
(* moved, and the folder must hold something.                              *)
Ok ==
    /\ pc = "ended"
    /\ result.end = "ok"
    /\ \/ ~wine /\ UNCHANGED <<folder, place>>
       \/ wine /\ (place = "own" => Room) /\ Settled
       \/ wine /\ place = "own" /\ NotSettled
    /\ pc' = "judge"
    /\ UNCHANGED <<stepVars, wow64, before, offered, stop, result>>
-----------------------------------------------------------------------------
(* The verdict on a step. *)

(* Under WOW64, once. *)
Retries == result.lacksGl /\ ~wow64

Stopped == stop = "heard" /\ result.end # "ok"

(* A clean exit that left something, and for a patch or DLC something new. *)
WentIn == result.end = "ok" /\ folder > 0 /\ (Judged => folder # before)

Retry ==
    /\ pc = "judge"
    /\ ~WentIn
    /\ ~Stopped
    /\ Retries
    /\ wow64' = TRUE
    /\ pc' = "prepare"
    /\ stop' = "none"
    /\ UNCHANGED <<stepVars, before, folder, place, offered, result>>

NextStep == IF index < Len(run.steps) THEN "begin" ELSE "settle"

Succeeded(newFolder) ==
    /\ folder' = newFolder
    /\ installed' = installed \cup {Step}
    /\ pc' = NextStep
    /\ index' = index + 1
    /\ stop' = "none"
    /\ UNCHANGED <<wine, run, failures, download, runs, wow64, before, place, offered, result>>

StepSucceeds ==
    /\ pc = "judge"
    /\ WentIn
    /\ Succeeded(folder)

(* A long, clean run of no known toolkit that left nothing: the download   *)
(* was the game itself, and is kept as it.                                 *)
KeepProgram ==
    /\ pc = "judge"
    /\ result.end = "ok"
    /\ folder = 0
    /\ Room
    /\ Step \notin Silent
    /\ Succeeded(folder + 1)

(* Stopped by the user, or it was the game. *)
EndsRun == Stopped \/ Step \in Game

StepFails ==
    /\ pc = "judge"
    /\ ~WentIn
    /\ Stopped \/ ~Retries
    /\ failures' = failures \cup {Step}
    /\ pc' = IF EndsRun THEN "settle" ELSE NextStep
    /\ index' = index + 1
    /\ stop' = "none"
    /\ UNCHANGED <<wine, run, installed, download, runs, wow64, before, folder, place,
                   offered, result>>

(* A prefix that cannot be made ready for a later step or a retry. *)
PrepareFails ==
    /\ pc = "prepare"
    /\ result' = [result EXCEPT !.lacksGl = FALSE, !.end = "error"]
    /\ pc' = "judge"
    /\ UNCHANGED <<stepVars, wow64, before, folder, place, offered, stop>>
-----------------------------------------------------------------------------
(* The end of a run. *)

(* A mistake to check against: whatever failed, the download goes. *)
DiscardAsked == run.delete = "yes" \/ (run.delete = "setting" /\ Pending = {})

Discard ==
    /\ failures = {}
    /\ run.delete = "yes" \/ (run.delete = "setting" /\ Pending = {})

(* Only a clean run may take the download a retry would need. *)
Settle ==
    /\ pc = "settle"
    /\ download' \in (IF Discard THEN {FALSE, download} ELSE {download})
    /\ pc' = "idle"
    /\ UNCHANGED <<wine, run, index, installed, failures, runs, wow64, before, folder, place,
                   offered, stop, result>>

RunStep ==
    \/ PrepareFirst \/ FirstFails \/ BeginStep \/ PrepareNext \/ PrepareFails
    \/ StopProgram \/ AskConsent \/ NotOk \/ Ok
    \/ Retry \/ StepSucceeds \/ KeepProgram \/ StepFails \/ Settle

Next ==
    \/ \E steps \in Runs, delete \in {"yes", "no", "setting"} : InstallSetups(steps, delete)
    \/ \E steps \in Runs : AutoRunSetups(steps)
    \/ RunSetupElevated
    \/ RunStep
    \/ WriteInFolder \/ WriteInPrefix \/ Exit \/ NeedsElevation \/ Stop

(* The run's task is scheduled; no program has to exit by itself. *)
Spec == Init /\ [][Next]_vars /\ WF_vars(RunStep)
-----------------------------------------------------------------------------
(* The download is deleted only at the end of a run all of whose setups    *)
(* are in, and where the user did not choose to, only when none is left.   *)
DownloadKept ==
    download /\ ~download' =>
        /\ Range(run.steps) \subseteq installed
        /\ run.delete = "setting" => Setup \subseteq installed

(* No patch or DLC is run on a game whose setup failed in the same run,    *)
(* and nothing after a program that was stopped and did not finish.        *)
NothingAfter ==
    pc # "works" /\ pc' = "works" => failures \cap Game = {} /\ ~Stopped

Idle == pc = "idle"
=============================================================================
