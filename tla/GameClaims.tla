----------------------------- MODULE GameClaims -----------------------------
(***************************************************************************)
(* What one game is busy with, and who may start what: the claims of       *)
(* LibraryState (src-tauri/src/library_state.rs) as every command uses     *)
(* them.  A task claims the game, shows activities, and lets go of it by   *)
(* clearing the activity, by turning it into a failure, or by dropping its *)
(* claim.  Only the drop looks at whose activity it removes.               *)
(*                                                                         *)
(* A command is what it shows, how it may let go, and what it still does   *)
(* afterwards, while its claim is alive but no longer keeps others out.    *)
(* What the commands do to the files is GameFiles', SetupRun's and         *)
(* DownloadResume's.                                                       *)
(***************************************************************************)
EXTENDS Integers, FiniteSets

CONSTANTS
    Task,         \* the commands that may be under way at once
    None,         \* no activity, no task
    Modes,        \* "by-hand": every command is one the user starts;
                  \* "automatic": a finished download is extracted or installed
                  \* by itself (auto_extract, auto_install);
                  \* "apart": another thread may get between the last two calls
                  \* of delete_download and of cancel_download
    MaxClaims     \* bound: claims ever taken

GameClaimsAssumption ==
    /\ Modes \subseteq {"by-hand", "automatic", "apart"}
    /\ MaxClaims \in Nat

VARIABLES
    mode,    \* one of Modes, for good
    slot,    \* the game's activity and the claim that holds it
    claims,  \* claims ever taken
    task     \* each task: its command, its claim, how far it is

vars == <<mode, slot, claims, task>>

Kinds == {"downloading", "extracting", "installing", "preparing", "running", "failed"}

Slot(claim, kind) == [claim |-> claim, kind |-> kind]

Busy(kind) == kind # "failed"
-----------------------------------------------------------------------------
(* A command: what it claims the game with, what it shows while it is at   *)
(* it, how it may end (an error drops the claim), and what follows.        *)
Command(first, shows, ends, after) ==
    [first |-> first, shows |-> shows, ends |-> ends, after |-> after]

StartDownload ==
    Command("downloading", {"downloading"}, {"drop", "clear", "fail"}, "install")

ExtractDownload ==
    Command("extracting", {"extracting"}, {"clear", "fail"}, "install")

MoveIntoPlace == Command("installing", {}, {"drop", "clear"}, "discard")

CopyExecutable == Command("installing", {}, {"drop", "clear"}, "discard")

(* The download is discarded before the activity is cleared. *)
RunSetups ==
    Command("preparing", {"preparing", "installing"}, {"drop", "clear", "fail"}, "nothing")

LocateInstall == Command("installing", {}, {"clear"}, "nothing")

UninstallGame == Command("preparing", {}, {"drop", "clear"}, "nothing")

DeleteStaging == Command("preparing", {}, {"drop"}, "nothing")

DeleteDownload == Command("preparing", {}, {"drop"}, "clear")

CancelPaused == Command("preparing", {}, {"drop"}, "clear")

Launch ==
    Command("preparing", {"preparing", "running"}, {"drop", "clear", "fail"}, "upload")

Commands ==
    [download |-> StartDownload, extract |-> ExtractDownload, move |-> MoveIntoPlace,
     copy |-> CopyExecutable, setups |-> RunSetups, locate |-> LocateInstall,
     uninstall |-> UninstallGame, deleteStaging |-> DeleteStaging,
     deleteDownload |-> DeleteDownload, cancelPaused |-> CancelPaused, launch |-> Launch]

Names == DOMAIN Commands

(* What installing a download automatically starts, once it is there:      *)
(* auto_install_download, or record_extracted after it was unpacked.       *)
Follows(name) ==
    IF name = "download" THEN {"extract", "copy", "setups", "move"} ELSE {"setups", "move"}
-----------------------------------------------------------------------------
Idle == [command |-> None, claim |-> 0, at |-> "idle"]

Init ==
    /\ mode \in Modes
    /\ slot = None
    /\ claims = 0
    /\ task = [t \in Task |-> Idle]

TypeOK ==
    /\ mode \in Modes
    /\ slot = None \/ slot \in [claim : 0 .. MaxClaims, kind : Kinds]
    /\ claims \in 0 .. MaxClaims
    /\ task \in [Task -> [command : Names \cup {None}, claim : 0 .. MaxClaims,
                          at : {"idle", "work", "after", "clear"}]]

GameBusy == slot # None /\ Busy(slot.kind)

(* claim: refused while the game is busy, and in place of a failure. *)
Claimed(t, name) ==
    /\ ~GameBusy
    /\ claims < MaxClaims
    /\ claims' = claims + 1
    /\ slot' = Slot(claims + 1, Commands[name].first)
    /\ task' = [task EXCEPT ![t] = [command |-> name, claim |-> claims + 1, at |-> "work"]]
    /\ UNCHANGED mode

(* A mistake to check against: an activity that nobody's claim holds. *)
ShownByNobody(kind) == slot' = Slot(0, kind)

(* set_activity keeps whichever claim holds the game, or none. *)
Shown(kind) == slot' = Slot(IF slot = None THEN 0 ELSE slot.claim, kind)

(* A mistake to check against: a drop that does not ask whose it is. *)
DroppedAnyone(t) ==
    slot' = IF GameBusy THEN None ELSE slot

(* Claim::drop *)
Dropped(t) ==
    slot' = IF GameBusy /\ slot.claim = task[t].claim THEN None ELSE slot

At(t, at) == task[t].at = at

Does(t) == Commands[task[t].command]

Moves(t, at) == task' = [task EXCEPT ![t].at = at]

Start(t, name) ==
    /\ At(t, "idle")
    /\ Claimed(t, name)

Show(t) ==
    /\ At(t, "work")
    /\ \E kind \in Does(t).shows : Shown(kind)
    /\ UNCHANGED <<mode, claims, task>>

(* An error, or a command with nothing to clear. *)
LetGo(t) ==
    /\ At(t, "work")
    /\ "drop" \in Does(t).ends
    /\ Dropped(t)
    /\ IF Does(t).after = "clear" /\ mode = "apart"
       THEN Moves(t, "clear")
       ELSE task' = [task EXCEPT ![t] = Idle]
    /\ UNCHANGED <<mode, claims>>

(* delete_download and cancel_download clear the activity once more. *)
ClearLate(t) ==
    /\ At(t, "clear")
    /\ slot' = None
    /\ task' = [task EXCEPT ![t] = Idle]
    /\ UNCHANGED <<mode, claims>>

Fail(t) ==
    /\ At(t, "work")
    /\ "fail" \in Does(t).ends
    /\ Shown("failed")
    /\ task' = [task EXCEPT ![t] = Idle]
    /\ UNCHANGED <<mode, claims>>

(* clear_activity, and on to what is left to do. *)
Clear(t) ==
    /\ At(t, "work")
    /\ "clear" \in Does(t).ends
    /\ slot' = None
    /\ Moves(t, "after")
    /\ UNCHANGED <<mode, claims>>

(* The end of a task that let go before: its claim is not the game's. *)
End(t) ==
    /\ At(t, "after")
    /\ Dropped(t)
    /\ task' = [task EXCEPT ![t] = Idle]
    /\ UNCHANGED <<mode, claims>>

(* The next command of an automatic install claims the game anew ...       *)
GoOn(t) ==
    /\ At(t, "after")
    /\ mode = "automatic" /\ Does(t).after = "install"
    /\ \E name \in Follows(task[t].command) : Claimed(t, name)

(* ... and its refusal is recorded as a failure of the game; extracting    *)
(* and moving are refused without a word on the row.                       *)
GoOnRefused(t) ==
    /\ At(t, "after")
    /\ mode = "automatic" /\ Does(t).after = "install"
    /\ GameBusy
    /\ Follows(task[t].command) \cap {"copy", "setups"} # {}
    /\ Shown("failed")
    /\ task' = [task EXCEPT ![t] = Idle]
    /\ UNCHANGED <<mode, claims>>

(* A task's way to its end, one step at each place it may be at. *)
TaskStep(t) ==
    \/ LetGo(t) \/ Fail(t) \/ Clear(t)
    \/ ClearLate(t)
    \/ End(t) \/ GoOn(t) \/ GoOnRefused(t)

Next ==
    \E t \in Task :
        \/ \E name \in Names : Start(t, name)
        \/ Show(t)
        \/ TaskStep(t)

(* Nothing a command does goes on for ever, a game being played included. *)
Fairness == \A t \in Task : WF_vars(TaskStep(t))

Spec == Init /\ [][Next]_vars /\ Fairness
-----------------------------------------------------------------------------
AtWork(t) == At(t, "work")

(* A game's busy state keeps other commands out: no two commands are at    *)
(* work on one game at once (claim, by start_download to uninstall_game).  *)
Alone == \A t, u \in Task : AtWork(t) /\ AtWork(u) => t = u

(* So it is for the commands the user starts.                              *)
AloneByHand == mode = "by-hand" => Alone

(* A command that ends frees the game of its own activity only: while      *)
(* another is at work that claimed it later, the game stays as busy as it  *)
(* was (Claim::drop, and the test a_stale_claim_does_not_clear_a_newer_one). *)
NewerKept ==
    \A t, u \in Task :
        /\ AtWork(u) /\ AtWork(u)' /\ t # u
        /\ ~At(t, "idle") /\ At(t, "idle")' /\ ~At(t, "clear")
        /\ task[t].claim < task[u].claim
        /\ GameBusy /\ slot.claim = task[u].claim
        => slot' # None

BusyByHand == mode = "by-hand" /\ GameBusy
=============================================================================
