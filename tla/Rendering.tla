------------------------------ MODULE Rendering ------------------------------
(***************************************************************************)
(* Which renderer the window is drawn with (src-tauri/src/rendering.rs).   *)
(* On some machines WebKit's GPU renderer kills the process, so a marker   *)
(* is left before the window draws and removed once it has, and a start    *)
(* that finds the marker of its own boot draws in software from then on.   *)
(* NVIDIA machines try the GPU once more, with the driver's explicit sync  *)
(* off.  A second copy of the app chooses as well, hands over and exits    *)
(* without its exit handlers.  Not here: what the settings page shows.     *)
(***************************************************************************)
EXTENDS Integers

CONSTANTS
    None,
    MaxBoots,     \* bound: times the machine is started again
    MaxKills,     \* bound: times the app is killed otherwise, or cannot write
    MaxChoices,   \* bound: times the user switches the GPU on or off
    MaxCopies     \* bound: second copies that arm, in the mistake below

Prefs == [software : BOOLEAN, fellBack : BOOLEAN, retried : BOOLEAN]

Default == [software |-> FALSE, fellBack |-> FALSE, retried |-> FALSE]

VARIABLES
    machine,   \* whether it has NVIDIA's driver; what kills the GPU renderer
    env,       \* the variable set outside the app: None, "gpu" or "software"
    prefs,     \* rendering.json: Prefs, or None when it is not there or torn
    pending,   \* rendering-pending: the boot it was left in, or None
    boot,      \* the boot's id
    app,       \* "none", "prepared", "keeping", "marking", "drawing", "drawn"
    startup,   \* this run's mode, and the choice to keep
    drew,      \* history: a window was drawn
    died,      \* history: a copy that keeps going died before its window drew
    kills, choices, copies

vars == <<machine, env, prefs, pending, boot, app, startup, drew, died, kills, choices, copies>>

bounds == <<kills, choices, copies>>
history == <<drew, died>>
fixed == <<machine, env>>

NoStartup == [gpu |-> FALSE, fromEnvironment |-> FALSE, persist |-> None]

TypeOK ==
    /\ machine \in [nvidia : BOOLEAN, kills : {"never", "always", "explicit sync"}]
    /\ env \in {None, "gpu", "software"}
    /\ prefs \in Prefs \cup {None} /\ pending \in 1 .. MaxBoots \cup {None}
    /\ boot \in 1 .. MaxBoots
    /\ app \in {"none", "prepared", "keeping", "marking", "drawing", "drawn"}
    /\ startup \in [gpu : BOOLEAN, fromEnvironment : BOOLEAN, persist : Prefs \cup {None}]
    /\ drew \in BOOLEAN /\ died \in BOOLEAN
    /\ kills \in 0 .. MaxKills /\ choices \in 0 .. MaxChoices /\ copies \in 0 .. MaxCopies

(* An earlier version of the app may have fallen back without the retry.   *)
Init ==
    /\ machine \in [nvidia : BOOLEAN, kills : {"never", "always", "explicit sync"}]
    /\ machine.kills = "explicit sync" => machine.nvidia
    /\ env \in {None, "gpu", "software"}
    /\ prefs \in {None, [software |-> TRUE, fellBack |-> TRUE, retried |-> FALSE]}
    /\ pending = None /\ boot = 1
    /\ app = "none" /\ startup = NoStartup
    /\ drew = FALSE /\ died = (prefs # None)
    /\ kills = 0 /\ choices = 0 /\ copies = 0

Read == IF prefs = None THEN Default ELSE prefs
-----------------------------------------------------------------------------
(* decide *)
Crashed == ~Read.software /\ pending = boot

Retry == ~Crashed /\ machine.nvidia /\ Read.software /\ Read.fellBack /\ ~Read.retried

Decided ==
    CASE Crashed -> [Read EXCEPT !.software = TRUE, !.fellBack = TRUE]
      [] Retry -> [software |-> FALSE, fellBack |-> FALSE, retried |-> TRUE]
      [] OTHER -> Read

Kept == IF Crashed \/ Retry THEN Decided ELSE None

(* start: nothing is written yet. *)
Started ==
    IF env # None
    THEN [gpu |-> env = "gpu", fromEnvironment |-> TRUE, persist |-> None]
    ELSE [gpu |-> ~Decided.software, fromEnvironment |-> FALSE, persist |-> Kept]

Prepare ==
    /\ app = "none"
    /\ startup' = Started
    /\ app' = "prepared"
    /\ UNCHANGED <<fixed, prefs, pending, boot, history, bounds>>

(* A mistake to check against: the marker is left before it is known       *)
(* whether this copy keeps going.                                          *)
SecondCopyArms ==
    /\ app \in {"drawing", "drawn"} /\ copies < MaxCopies
    /\ copies' = copies + 1
    /\ pending' = IF Started.gpu THEN boot ELSE None
    /\ UNCHANGED <<fixed, prefs, boot, app, startup, history, kills, choices>>

(* A second copy chooses, hands over and exits. *)
SecondCopy ==
    /\ app \in {"drawing", "drawn"} /\ copies < MaxCopies
    /\ copies' = copies + 1
    /\ UNCHANGED <<fixed, prefs, pending, boot, app, startup, history, kills, choices>>

(* arm: only in the copy that keeps going, and before any window.          *)
Arm ==
    /\ app = "prepared"
    /\ app' = IF startup.fromEnvironment THEN "drawing"
              ELSE IF startup.persist # None THEN "keeping" ELSE "marking"
    /\ UNCHANGED <<fixed, prefs, pending, boot, startup, history, bounds>>

KeepPrefs ==
    /\ app = "keeping"
    /\ prefs' = startup.persist
    /\ app' = "marking"
    /\ UNCHANGED <<fixed, pending, boot, startup, history, bounds>>

Mark ==
    /\ app = "marking"
    /\ pending' = IF startup.gpu THEN boot ELSE None
    /\ app' = "drawing"
    /\ UNCHANGED <<fixed, prefs, boot, startup, history, bounds>>

WriteFails == kills < MaxKills /\ kills' = kills + 1

(* Preferences or a marker that cannot be written, or not in full, are     *)
(* only warned of; one cut short says nothing.                             *)
CannotKeepPrefs ==
    /\ app = "keeping"
    /\ WriteFails
    /\ prefs' \in {prefs, None}
    /\ app' = "marking"
    /\ UNCHANGED <<fixed, pending, boot, startup, history, choices, copies>>

CannotMark ==
    /\ app = "marking" /\ startup.gpu
    /\ WriteFails
    /\ pending' \in {pending, None}
    /\ app' = "drawing"
    /\ UNCHANGED <<fixed, prefs, boot, startup, history, choices, copies>>

(* What draws with the GPU when an NVIDIA driver is there does so without  *)
(* its explicit sync.                                                      *)
Deadly == startup.gpu /\ (machine.kills = "always" \/ (machine.kills = "explicit sync" /\ ~machine.nvidia))

(* The window draws and confirms it, or the renderer kills the process.    *)
Draw ==
    /\ app = "drawing" /\ ~Deadly
    /\ app' = "drawn" /\ drew' = TRUE
    /\ pending' = None
    /\ UNCHANGED <<fixed, prefs, boot, startup, died, bounds>>

Dies ==
    /\ app = "drawing" /\ Deadly
    /\ app' = "none" /\ died' = TRUE
    /\ UNCHANGED <<fixed, prefs, pending, boot, startup, drew, bounds>>

(* set_gpu_rendering *)
Choose ==
    /\ app = "drawn"
    /\ choices < MaxChoices
    /\ choices' = choices + 1
    /\ \E on \in BOOLEAN : prefs' = [Read EXCEPT !.software = ~on, !.fellBack = FALSE]
    /\ UNCHANGED <<fixed, pending, boot, app, startup, history, kills, copies>>

(* RunEvent::Exit settles as drawing does. *)
Exit ==
    /\ app \in {"drawing", "drawn"}
    /\ app' = "none" /\ pending' = None
    /\ UNCHANGED <<fixed, prefs, boot, startup, history, bounds>>

Kill ==
    /\ app # "none" /\ kills < MaxKills
    /\ kills' = kills + 1
    /\ app' = "none"
    /\ died' = (died \/ app \in {"keeping", "marking", "drawing"})
    /\ prefs' \in IF app = "keeping" THEN {prefs, None} ELSE {prefs}
    /\ UNCHANGED <<fixed, pending, boot, startup, drew, choices, copies>>

(* The machine goes down with the app, or without it. *)
Reboot ==
    /\ boot < MaxBoots
    /\ boot' = boot + 1
    /\ app' = "none"
    /\ UNCHANGED <<fixed, prefs, pending, startup, history, bounds>>

Next ==
    \/ Prepare \/ SecondCopy \/ Arm \/ KeepPrefs \/ Mark \/ CannotKeepPrefs \/ CannotMark
    \/ Draw \/ Dies
    \/ Choose \/ Exit \/ Kill \/ Reboot

(* The user starts the app until there is a window, and waits for it. *)
Spec ==
    /\ Init /\ [][Next]_vars
    /\ WF_vars(Prepare) /\ WF_vars(Arm) /\ WF_vars(KeepPrefs) /\ WF_vars(Mark)
    /\ SF_vars(Draw \/ Dies)
-----------------------------------------------------------------------------
NotForced == env # "gpu"

Drew == drew

(* Software drawing is no punishment for a second start, a normal exit or  *)
(* a reboot: it is fallen back to only after a copy that kept going died   *)
(* before its window drew (prepare, settled, decide).                      *)
FallBackDeserved == Read.fellBack => died
=============================================================================
