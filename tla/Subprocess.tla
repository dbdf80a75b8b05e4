----------------------------- MODULE Subprocess -----------------------------
(***************************************************************************)
(* Running a program for its output                                        *)
(* (run_capturing_stoppable in crates/gameyfin-core/src/process.rs, for    *)
(* installers; ProcessRunner in crates/gameyfin-saves/src/runner.rs, for   *)
(* Ludusavi).  The program, and helpers it starts, write to a pipe that    *)
(* holds so much and no more; a task reads it.  An installer can be        *)
(* stopped: its group is signalled, its Wine prefix ended, and it is       *)
(* killed if it will not go.  Ludusavi is given a time instead.            *)
(*                                                                         *)
(* One pipe stands for the two of a program, its output and its errors.    *)
(* A program that cannot be started is an error at once and not a run.     *)
(* Reading what is in the pipe takes less than the two seconds allowed     *)
(* for it: that timer fires only when the pipe is empty or held open.      *)
(* Lines are text: the reader of an installer's output ends at one that    *)
(* is not.  On Windows nothing is signalled, which is a program that does  *)
(* not heed the signal.                                                    *)
(***************************************************************************)
EXTENDS Integers, FiniteSets

CONSTANTS
    Modes,      \* of "stoppable" and "timed"
    Pipe,       \* lines the pipe holds
    MaxLines    \* bound: lines written

VARIABLES
    mode,       \* one of Modes, for good
    wine,       \* the program runs in a Wine prefix that can be ended
    wants,      \* lines the program writes before it exits of its own accord
    child,      \* the program itself: running or over
    group,      \* a helper in its process group runs
    daemon,     \* a helper that left the group runs, as wineserver does
    written,    \* lines written by any of them
    pipe,       \* lines in the pipe
    text,       \* lines the reader has put in the buffer
    stopped,    \* the user stopped it
    teardown,   \* ending the prefix: not begun, running, returned
    run,        \* where the run is
    status,     \* what it was found to be: an exit, an end, or out of time
    captured    \* the lines it returns

program == <<wants, child, group, daemon>>
output == <<written, pipe, text>>
result == <<status, captured>>
vars == <<mode, wine, program, output, stopped, teardown, run, result>>

Init ==
    /\ mode \in Modes /\ wine \in BOOLEAN /\ (wine => mode = "stoppable")
    /\ wants \in 0 .. MaxLines
    /\ child = "running" /\ group = FALSE /\ daemon = FALSE
    /\ written = 0 /\ pipe = 0 /\ text = 0
    /\ stopped \in BOOLEAN /\ (stopped => mode = "stoppable")
    /\ teardown = "none"
    /\ run = "wait" /\ status = "none" /\ captured = 0
-----------------------------------------------------------------------------
(* The program, which nobody promises will ever end. *)

Running == child = "running"
HeldOpen == Running \/ group \/ daemon

(* Blocked as long as the pipe is full; what comes after the return does not *)
(* matter.                                                                   *)
Writes ==
    /\ HeldOpen /\ run # "done" /\ pipe < Pipe /\ written < MaxLines
    /\ written' = written + 1 /\ pipe' = pipe + 1
    /\ UNCHANGED <<mode, wine, program, text, stopped, teardown, run, result>>

StartsHelper ==
    /\ Running
    /\ \/ ~group /\ group' = TRUE /\ UNCHANGED daemon
       \/ wine /\ ~daemon /\ daemon' = TRUE /\ UNCHANGED group
    /\ UNCHANGED <<mode, wine, wants, child, output, stopped, teardown, run, result>>

(* Having written what it wants to, or heeding a signal late. *)
Exits ==
    /\ Running /\ (written >= wants \/ status = "ended")
    /\ child' = "over"
    /\ UNCHANGED <<mode, wine, wants, group, daemon, output, stopped, teardown, run, result>>

HelperExits ==
    /\ \/ group /\ group' = FALSE /\ UNCHANGED daemon
       \/ daemon /\ daemon' = FALSE /\ UNCHANGED group
    /\ UNCHANGED <<mode, wine, wants, child, output, stopped, teardown, run, result>>
-----------------------------------------------------------------------------
(* A mistake to check against: what is read is dropped. *)
CollectNothing ==
    /\ pipe > 0
    /\ pipe' = pipe - 1
    /\ UNCHANGED <<mode, wine, program, written, text, stopped, teardown, run, result>>

(* The reader runs from the start.  An installer's goes on, on a task of its *)
(* own, when the run has returned; Ludusavi's ends with the call.            *)
Reading == mode = "timed" => run # "done"

Collect ==
    /\ pipe > 0 /\ Reading
    /\ pipe' = pipe - 1 /\ text' = text + 1
    /\ UNCHANGED <<mode, wine, program, written, stopped, teardown, run, result>>

AtEnd == pipe = 0 /\ ~HeldOpen
-----------------------------------------------------------------------------
(* run_capturing_stoppable *)

(* At any time, before the run waits for it included; too late, nothing *)
(* looks at it.                                                         *)
Stop ==
    /\ ~stopped /\ mode = "stoppable" /\ run # "done"
    /\ stopped' = TRUE
    /\ UNCHANGED <<mode, wine, program, output, teardown, run, result>>

ChildWaited ==
    /\ mode = "stoppable" /\ run = "wait" /\ ~Running
    /\ run' = "finish" /\ status' = "exit"
    /\ UNCHANGED <<mode, wine, program, output, stopped, teardown, captured>>

(* SIGTERM and SIGINT to the group: each process in it may heed them. *)
HeedStop ==
    /\ run = "wait" /\ stopped
    /\ status' = "ended"
    /\ child' \in {child, "over"}
    /\ group' \in {group, FALSE}
    /\ run' = IF wine THEN "teardown" ELSE "grace"
    /\ teardown' = IF wine THEN "running" ELSE teardown
    /\ UNCHANGED <<mode, wine, wants, daemon, output, stopped, captured>>

(* wineserver -k, when it returns, has ended every process of the prefix. *)
TeardownReturns ==
    /\ teardown = "running"
    /\ teardown' = "returned"
    /\ child' = "over" /\ group' = FALSE /\ daemon' = FALSE
    /\ UNCHANGED <<mode, wine, wants, output, stopped, run, result>>

(* Waited for, but not for long: "this runs on the path out of a hang".  *)
(* One that fails, or returns late, holds nothing up.                    *)
TornDown ==
    /\ run = "teardown"
    /\ run' = "grace"
    /\ UNCHANGED <<mode, wine, program, output, stopped, teardown, result>>

(* It goes within the grace, or it is killed; its helpers are not. *)
Grace ==
    /\ run = "grace"
    /\ child' = "over"
    /\ run' = "finish"
    /\ UNCHANGED <<mode, wine, wants, group, daemon, output, stopped, teardown, result>>

(* The reader is waited for; a pipe some process keeps open is given up. *)
Finish ==
    /\ run = "finish" /\ (pipe = 0 \/ HeldOpen)
    /\ captured' = text
    /\ run' = "done"
    /\ UNCHANGED <<mode, wine, program, output, stopped, teardown, status>>
-----------------------------------------------------------------------------
(* ProcessRunner::run: the exit and the end of the output, or the time is up. *)

OutputRead ==
    /\ mode = "timed" /\ run = "wait" /\ ~Running /\ AtEnd
    /\ captured' = text /\ status' = "exit"
    /\ run' = "done"
    /\ UNCHANGED <<mode, wine, program, output, stopped, teardown>>

(* The output is looked at before the time.  The future is dropped, and the *)
(* child killed with it.                                                    *)
TimedOut ==
    /\ mode = "timed" /\ run = "wait" /\ ~(~Running /\ AtEnd)
    /\ child' = "over" /\ status' = "timed-out"
    /\ run' = "done"
    /\ UNCHANGED <<mode, wine, wants, group, daemon, output, stopped, teardown, captured>>

RunStep ==
    \/ ChildWaited \/ HeedStop \/ TornDown \/ Grace \/ Finish
    \/ OutputRead \/ TimedOut

Next ==
    \/ Writes \/ StartsHelper \/ Exits \/ HelperExits \/ Collect \/ Stop \/ TeardownReturns
    \/ RunStep

(* The app's own tasks run; the program, its helpers and the user need not. *)
Spec == Init /\ [][Next]_vars /\ WF_vars(RunStep) /\ WF_vars(Collect)
-----------------------------------------------------------------------------

TypeOK ==
    /\ mode \in Modes /\ wine \in BOOLEAN /\ wants \in 0 .. MaxLines
    /\ child \in {"running", "over"} /\ group \in BOOLEAN /\ daemon \in BOOLEAN
    /\ written \in 0 .. MaxLines /\ pipe \in 0 .. Pipe /\ text \in 0 .. MaxLines
    /\ written = text + pipe
    /\ stopped \in BOOLEAN /\ teardown \in {"none", "running", "returned"}
    /\ run \in {"wait", "teardown", "grace", "finish", "done"}
    /\ status \in {"none", "exit", "ended", "timed-out"} /\ captured \in 0 .. MaxLines

(***************************************************************************)
(* A run that returns leaves no program running, and returns every line    *)
(* written, unless it ran out of time or a helper still holds the pipe:    *)
(* "the output is what explains a failure afterwards".                     *)
(***************************************************************************)
OutputKept ==
    run # "done" /\ run' = "done" =>
        /\ child' = "over"
        /\ status' # "timed-out" /\ ~HeldOpen => captured' = written

Returned == run = "done"

MustReturn == stopped \/ ~Running \/ mode = "timed"
=============================================================================
