---------------------------- MODULE LoginProfile ----------------------------
(***************************************************************************)
(* The sign-in window and the browser profile it keeps                     *)
(* (src-tauri/src/auth_flow.rs, the login commands of                      *)
(* src-tauri/src/ipc/session.rs).  A profile remembers who signed in at    *)
(* the provider.  Clearing it destroys the window, deletes the profile, or *)
(* where Windows keeps its files locked moves on to the next number, and   *)
(* sweeps what is left; the sweep runs again when the app starts.  The     *)
(* webview lets go of the files some time after its window is gone.        *)
(***************************************************************************)
EXTENDS Integers, FiniteSets

CONSTANTS
    None,           \* no window
    Windows,        \* files that are held cannot be deleted
    Together,       \* the user may ask for the window while it is cleared
    Faults,         \* of "kill", "write" (the number cannot be written), "open" (the
                    \* window does not close in time), "torn" (killed while it is written)
    Attempts,       \* how often deleting the profile is tried
    MaxGeneration,  \* bound: moves to a fresh profile
    MaxSignIns,     \* bound: sign-ins at the provider
    MaxFaults       \* bound: faults

LoginProfileAssumption ==
    /\ Windows \in BOOLEAN /\ Together \in BOOLEAN
    /\ Faults \subseteq {"kill", "write", "open", "torn"}
    /\ Attempts \in Nat \ {0} /\ MaxGeneration \in Nat
    /\ MaxSignIns \in Nat /\ MaxFaults \in Nat
    /\ None \notin 0 .. MaxGeneration

VARIABLES
    number,     \* login-profile.generation, 0 when absent or unreadable
    saved,      \* the sign-ins each profile remembers
    present,    \* the profiles that exist
    held,       \* the profiles the webview has files open of
    window,     \* the profile the sign-in window uses
    up,         \* the app runs
    signIns,    \* sign-ins so far, each with a number of its own
    reset,      \* reset_login_profile: where it is, and what it has read
    sweep,      \* sweep_stale_profiles at startup: the profiles it has yet to see
    cleared,    \* the sign-ins the user was told are cleared
    faults

disk == <<number, saved, present>>
webview == <<held, window>>
tasks == <<reset, sweep>>
vars == <<disk, webview, up, signIns, tasks, cleared, faults>>

Fault(kind) == kind \in Faults /\ faults < MaxFaults /\ faults' = faults + 1

Profile == 0 .. MaxGeneration
Idle == [at |-> "idle", of |-> 0, tries |-> 0, deleted |-> FALSE, before |-> 0]

(* The profile the next sign-in window will use. *)
ProfileDir == number

Deletable(p) == ~Windows \/ p \notin held

Init ==
    /\ number = 0 /\ saved = [p \in Profile |-> {}] /\ present = {}
    /\ held = {} /\ window = None
    /\ up = FALSE /\ signIns = 0
    /\ reset = Idle /\ sweep = {}
    /\ cleared = {} /\ faults = 0

(* restore is done; the sweep reads the number and the folder. *)
Start ==
    /\ ~up /\ up' = TRUE
    /\ sweep' = present \ {ProfileDir}
    /\ UNCHANGED <<disk, webview, signIns, reset, cleared, faults>>

Emptied(p) == saved' = [saved EXCEPT ![p] = {}] /\ present' = present \ {p}

(* A stale profile that is still in use is left for the next start. *)
Sweep ==
    \E p \in sweep :
        /\ sweep' = sweep \ {p}
        /\ \/ Deletable(p) /\ Emptied(p)
           \/ ~Deletable(p) /\ UNCHANGED <<saved, present>>
        /\ UNCHANGED <<number, webview, up, signIns, reset, cleared, faults>>

(* begin_login: an open window is focused, a new one opens the profile in use. *)
OpenLoginWindow ==
    /\ up /\ window = None
    /\ Together \/ reset.at = "idle"
    /\ window' = ProfileDir
    /\ held' = held \cup {ProfileDir}
    /\ present' = present \cup {ProfileDir}
    /\ UNCHANGED <<number, saved, up, signIns, tasks, cleared, faults>>

(* The user signs in at the provider, which the profile remembers. *)
SignIn ==
    /\ window # None /\ signIns < MaxSignIns
    /\ signIns' = signIns + 1
    /\ saved' = [saved EXCEPT ![window] = @ \cup {signIns + 1}]
    /\ present' = present \cup {window}
    /\ UNCHANGED <<number, webview, up, tasks, cleared, faults>>

(* poll_login with cookies that work, cancel_login, or the user: it closes, *)
(* and the webview still holds its files.                                   *)
CloseLoginWindow ==
    /\ window # None
    /\ window' = None
    /\ UNCHANGED <<disk, held, up, signIns, tasks, cleared, faults>>

(* The webview lets go of a profile no window uses. *)
Release ==
    /\ held \ {window} # {}
    /\ \E p \in held \ {window} : held' = held \ {p}
    /\ UNCHANGED <<disk, window, up, signIns, tasks, cleared, faults>>

(* reset_login or sign_out: the session is forgotten, the window destroyed. *)
ResetLoginProfile ==
    /\ up /\ reset.at = "idle"
    /\ reset' = [Idle EXCEPT !.at = "destroy"]
    /\ UNCHANGED <<disk, webview, up, signIns, sweep, cleared, faults>>

(* Waited for until it is gone, but not for long. *)
DestroyLoginWindow ==
    /\ reset.at = "destroy"
    /\ \/ window' = None /\ UNCHANGED faults
       \/ window # None /\ Fault("open") /\ UNCHANGED window
    /\ reset' = [reset EXCEPT !.at = "delete", !.of = number, !.before = signIns]
    /\ UNCHANGED <<disk, held, up, signIns, sweep, cleared>>

DeleteWithRetries ==
    /\ reset.at = "delete"
    /\ \/ /\ Deletable(reset.of)
          /\ Emptied(reset.of)
          /\ reset' = [reset EXCEPT !.at = "move", !.deleted = TRUE]
       \/ /\ ~Deletable(reset.of)
          /\ reset' = [reset EXCEPT !.tries = @ + 1,
                                    !.at = IF reset.tries + 1 = Attempts THEN "move" ELSE @]
          /\ UNCHANGED <<saved, present>>
    /\ UNCHANGED <<number, webview, up, signIns, sweep, cleared, faults>>

(* The next number was never in use. *)
Following(n) == n + 1

(* The profile could not be deleted: the number moves on, or the reset fails. *)
MoveOn ==
    /\ reset.at = "move"
    /\ \/ reset.deleted /\ reset' = [reset EXCEPT !.at = "sweep"] /\ UNCHANGED <<number, faults>>
       \/ /\ ~reset.deleted /\ reset.of < MaxGeneration
          /\ number' = Following(reset.of)
          /\ reset' = [reset EXCEPT !.at = "sweep"] /\ UNCHANGED faults
       \/ /\ ~reset.deleted /\ Fault("write")
          /\ reset' = Idle /\ UNCHANGED number
    /\ UNCHANGED <<saved, present, webview, up, signIns, sweep, cleared>>

(* Every other profile that can be deleted goes; the user is told it is done. *)
SweepAndTell ==
    /\ reset.at = "sweep"
    /\ LET gone == {p \in present \ {ProfileDir} : Deletable(p)}
       IN  /\ saved' = [p \in Profile |-> IF p \in gone THEN {} ELSE saved[p]]
           /\ present' = present \ gone
    /\ cleared' = cleared \cup 1 .. reset.before
    /\ reset' = Idle
    /\ UNCHANGED <<number, webview, up, signIns, sweep, faults>>

(* Killed: the tasks are gone, and a number being written may be cut off, *)
(* which reads as the first profile.                                      *)
Kill(torn) ==
    /\ up /\ Fault(IF torn THEN "torn" ELSE "kill")
    /\ up' = FALSE /\ window' = None /\ reset' = Idle /\ sweep' = {}
    /\ \/ ~torn /\ UNCHANGED number
       \/ torn /\ reset.at = "move" /\ ~reset.deleted /\ number' = 0
    /\ UNCHANGED <<saved, present, held, signIns, cleared>>

Next ==
    \/ Start \/ Sweep \/ OpenLoginWindow \/ SignIn \/ CloseLoginWindow \/ Release
    \/ ResetLoginProfile \/ DestroyLoginWindow \/ DeleteWithRetries \/ MoveOn
    \/ SweepAndTell \/ Kill(FALSE) \/ Kill(TRUE)

Spec == Init /\ [][Next]_vars
-----------------------------------------------------------------------------

TypeOK ==
    /\ number \in Profile
    /\ saved \in [Profile -> SUBSET (1 .. MaxSignIns)]
    /\ present \subseteq Profile /\ held \subseteq Profile
    /\ window \in Profile \cup {None}
    /\ up \in BOOLEAN /\ signIns \in 0 .. MaxSignIns
    /\ reset.at \in {"idle", "destroy", "delete", "move", "sweep"}
    /\ reset.of \in Profile /\ reset.tries \in 0 .. Attempts /\ reset.deleted \in BOOLEAN
    /\ reset.before \in 0 .. MaxSignIns
    /\ sweep \subseteq Profile
    /\ cleared \subseteq 1 .. MaxSignIns /\ faults \in 0 .. MaxFaults

(***************************************************************************)
(* No sign-in window ever works with a sign-in the user was told is        *)
(* cleared: "Clears saved sign-in data so the next sign-in cannot reuse    *)
(* the provider's session" (reset_login_profile).                          *)
(***************************************************************************)
ClearedIsGone == window # None => saved[window] \cap cleared = {}
=============================================================================
