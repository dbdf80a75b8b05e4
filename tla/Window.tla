------------------------------- MODULE Window --------------------------------
(***************************************************************************)
(* The main window: shown, hidden in the tray, let go and rebuilt          *)
(* (src-tauri/src/tray.rs), by the user, by another start of the program   *)
(* (cli.rs and the single-instance callback of lib.rs), by start_up once   *)
(* the session is restored, and around a game (ipc/launch.rs).  Every      *)
(* reveal, every release timer and every watch over a running game is a    *)
(* task of its own, and every call on the window waits for the event loop, *)
(* so others get in between.  Not here: routes, what the window shows.     *)
(***************************************************************************)
EXTENDS Integers, FiniteSets

CONSTANTS
    Reveal,      \* reveals that may be under way at once
    Watch,       \* watches over running games that may be under way at once
    MaxChanges,  \* bound: times the window is hidden, asked for or rebuilt
    MaxGames     \* bound: games running at once

VARIABLES
    tray,        \* whether the desktop gave the app a tray icon, for good
    settings,    \* close to tray; bring the window back after a game
    login,       \* whether this is a start at login that hides, for good
    start,       \* start_up: "restoring" or "done"
    window,      \* "none", "hidden", "shown" or "minimised"
    made,        \* windows built so far: the newest is the one there is
    focused,     \* whether the user looks at it
    visibility,  \* VISIBILITY
    timers,      \* the release timers: when they were set, how far they are
    reveal,      \* each reveal: how far it is, and the window it holds
    games,       \* GAMES_RUNNING
    watch,       \* each watch: whether it is on, and saw the window behind
    quitting,    \* QUITTING
    asked        \* history: the last thing the user did was to ask for it

vars == <<tray, settings, login, start, window, made, focused, visibility, timers, reveal,
          games, watch, quitting, asked>>

fixed == <<tray, settings, login>>

Resting == [at |-> "idle", win |-> 0]

Unwatched == [on |-> FALSE, behind |-> FALSE]

TypeOK ==
    /\ tray \in BOOLEAN /\ login \in BOOLEAN /\ quitting \in BOOLEAN /\ asked \in BOOLEAN
    /\ settings \in [toTray : BOOLEAN, bringBack : BOOLEAN]
    /\ start \in {"restoring", "done"}
    /\ window \in {"none", "hidden", "shown", "minimised"}
    /\ made \in 1 .. MaxChanges + 1 /\ focused \in BOOLEAN
    /\ visibility \in 0 .. MaxChanges
    /\ timers \subseteq [set : 1 .. MaxChanges, at : {"sleeping", "due", "letting go"}]
    /\ reveal \in [Reveal -> [at : {"idle", "getting", "building", "showing", "focusing",
                                    "checking", "mapping"},
                              win : 0 .. MaxChanges + 1]]
    /\ games \in 0 .. MaxGames
    /\ watch \in [Watch -> [on : BOOLEAN, behind : BOOLEAN]]

(* The first window is there, and visible, before the settings are read. *)
Init ==
    /\ tray \in BOOLEAN /\ login \in BOOLEAN
    /\ settings \in [toTray : BOOLEAN, bringBack : BOOLEAN]
    /\ start = "restoring"
    /\ window = "shown" /\ made = 1 /\ focused = FALSE
    /\ visibility = 0 /\ timers = {}
    /\ reveal = [r \in Reveal |-> Resting]
    /\ games = 0 /\ watch = [w \in Watch |-> Unwatched]
    /\ quitting = FALSE /\ asked = FALSE

Visible == window \in {"shown", "minimised"}

(* notify::is_focused *)
IsFocused == window = "shown" /\ focused

Changed == visibility < MaxChanges /\ visibility' = visibility + 1
-----------------------------------------------------------------------------
(* Hiding                                                                  *)

(* hide: a window that is let go already is not hidden again. *)
Hide ==
    IF window = "none" THEN UNCHANGED <<window, focused, visibility, timers>>
    ELSE /\ Changed
         /\ window' = "hidden" /\ focused' = FALSE
         /\ timers' = timers \cup {[set |-> visibility + 1, at |-> "sleeping"]}

(* A mistake to check against: with the setting on, whatever there is. *)
HidesTo(toTray) == toTray

(* Only a tray gives the window back. *)
Hides(toTray) == tray /\ toTray

(* The close button: intercept_close hides, or the app exits. *)
Close ==
    /\ Visible
    /\ asked' = FALSE
    /\ IF Hides(settings.toTray) THEN Hide /\ UNCHANGED quitting
       ELSE quitting' = TRUE /\ UNCHANGED <<window, focused, visibility, timers>>
    /\ UNCHANGED <<fixed, start, made, reveal, games, watch>>

(* start_up, once the session is restored, which waits for the server. *)
StartUp ==
    /\ start = "restoring"
    /\ start' = "done"
    /\ IF login /\ tray THEN Hide ELSE UNCHANGED <<window, focused, visibility, timers>>
    /\ UNCHANGED <<fixed, made, reveal, games, watch, quitting, asked>>

Timer(t, to) == timers' = (timers \ {t}) \cup to

(* A timer after RELEASE_AFTER: the window has moved on, or not.           *)
TimerDue(t) ==
    /\ t.at = "sleeping"
    /\ Timer(t, IF visibility # t.set THEN {} ELSE {[t EXCEPT !.at = "due"]})
    /\ UNCHANGED <<fixed, start, window, made, focused, visibility, reveal, games, watch,
                   quitting, asked>>

(* Whether it is still hidden is asked, ...                                *)
TimerAsks(t) ==
    /\ t.at = "due"
    /\ Timer(t, IF window = "hidden" THEN {[t EXCEPT !.at = "letting go"]} ELSE {})
    /\ UNCHANGED <<fixed, start, window, made, focused, visibility, reveal, games, watch,
                   quitting, asked>>

(* ... and it is destroyed, whatever it is by then.                        *)
TimerLetsGo(t) ==
    /\ t.at = "letting go"
    /\ Timer(t, {})
    /\ window' = "none" /\ focused' = FALSE
    /\ UNCHANGED <<fixed, start, made, visibility, reveal, games, watch, quitting, asked>>
-----------------------------------------------------------------------------
(* Showing                                                                 *)

Begins(r) == reveal' = [reveal EXCEPT ![r] = [at |-> "getting", win |-> 0]]

Goes(r, at) == reveal' = [reveal EXCEPT ![r].at = at]

(* reveal_activated: the tray's menu, a notification, another start of the *)
(* program by hand, a shortcut's launch.                                   *)
Ask(r) ==
    /\ reveal[r] = Resting
    /\ Changed /\ Begins(r)
    /\ asked' = TRUE
    /\ UNCHANGED <<fixed, start, window, made, focused, timers, games, watch, quitting>>

(* A left click on the tray icon. *)
Toggle(r) ==
    /\ tray
    /\ IF window = "shown"
       THEN Hide /\ asked' = FALSE /\ UNCHANGED reveal
       ELSE /\ reveal[r] = Resting /\ Changed /\ Begins(r) /\ asked' = TRUE
            /\ UNCHANGED <<window, focused, timers>>
    /\ UNCHANGED <<fixed, start, made, games, watch, quitting>>

GetWindow(r) ==
    /\ reveal[r].at = "getting"
    /\ reveal' = [reveal EXCEPT ![r] =
           [at |-> IF window = "none" THEN "building" ELSE "showing", win |-> made]]
    /\ UNCHANGED <<fixed, start, window, made, focused, visibility, timers, games, watch,
                   quitting, asked>>

(* rebuild: hidden at first, guarded, with the gamepad following it; it    *)
(* fails when another reveal was faster.                                   *)
Rebuild(r) ==
    /\ reveal[r].at = "building" /\ made <= MaxChanges
    /\ \/ /\ window = "none"
          /\ window' = "hidden" /\ made' = made + 1
          /\ reveal' = [reveal EXCEPT ![r] = [at |-> "showing", win |-> made + 1]]
       \/ /\ window # "none"
          /\ reveal' = [reveal EXCEPT ![r] = Resting]
          /\ UNCHANGED <<window, made>>
    /\ UNCHANGED <<fixed, start, focused, visibility, timers, games, watch, quitting, asked>>

(* Whether the window a reveal holds is still the one there is. *)
Holds(r) == window # "none" /\ reveal[r].win = made

Show(r) ==
    /\ reveal[r].at = "showing"
    /\ Goes(r, "focusing")
    /\ window' = IF Holds(r) THEN "shown" ELSE window
    /\ UNCHANGED <<fixed, start, made, focused, visibility, timers, games, watch, quitting, asked>>

(* raise: focus is asked for, which Wayland refuses without a token, ...   *)
Focus(r) ==
    /\ reveal[r].at = "focusing"
    /\ Goes(r, "checking")
    /\ focused' \in IF Holds(r) /\ window = "shown" THEN {focused, TRUE} ELSE {focused}
    /\ UNCHANGED <<fixed, start, window, made, visibility, timers, games, watch, quitting, asked>>

(* ... and a window that did not get it ...                                *)
Check(r) ==
    /\ reveal[r].at = "checking"
    /\ reveal' = [reveal EXCEPT ![r] =
           IF Holds(r) /\ ~IsFocused THEN [@ EXCEPT !.at = "mapping"] ELSE Resting]
    /\ UNCHANGED <<fixed, start, window, made, focused, visibility, timers, games, watch,
                   quitting, asked>>

(* ... is hidden and shown once more, whatever became of it meanwhile.     *)
Remap(r) ==
    /\ reveal[r].at = "mapping"
    /\ reveal' = [reveal EXCEPT ![r] = Resting]
    /\ window' = IF Holds(r) THEN "shown" ELSE window
    /\ focused' \in IF Holds(r) THEN BOOLEAN ELSE {focused}
    /\ UNCHANGED <<fixed, start, made, visibility, timers, games, watch, quitting, asked>>
-----------------------------------------------------------------------------
(* Around a game                                                           *)

(* game_started: the first game's watch lasts as long as any runs. *)
GameStarts ==
    /\ games < MaxGames
    /\ games' = games + 1
    /\ IF games > 0 THEN UNCHANGED watch
       ELSE \E w \in Watch : /\ ~watch[w].on
                             /\ watch' = [watch EXCEPT ![w] = [on |-> TRUE, behind |-> FALSE]]
    /\ UNCHANGED <<fixed, start, window, made, focused, visibility, timers, reveal, quitting, asked>>

(* game_ended, and the window back if that is on. *)
GameEnds ==
    /\ games > 0
    /\ games' = games - 1
    /\ IF settings.bringBack
       THEN Changed /\ \E r \in Reveal : reveal[r] = Resting /\ Begins(r)
       ELSE UNCHANGED <<visibility, reveal>>
    /\ UNCHANGED <<fixed, start, window, made, focused, timers, watch, quitting, asked>>

Behind == window # "none" /\ tray /\ ~IsFocused

(* Every five seconds; whether a game runs is asked before the wait.       *)
Watches(w) ==
    /\ watch[w].on
    /\ watch' = [watch EXCEPT ![w] = IF games > 0 THEN [@ EXCEPT !.behind = Behind] ELSE Unwatched]
    /\ UNCHANGED <<fixed, start, window, made, focused, visibility, timers, reveal, games,
                   quitting, asked>>

(* Behind for GAME_RELEASE_AFTER: it is let go, hidden or not.             *)
LetsGo(w) ==
    /\ watch[w].on /\ watch[w].behind /\ Behind
    /\ Changed
    /\ window' = "none" /\ focused' = FALSE
    /\ watch' = [watch EXCEPT ![w] = IF games > 0 THEN [@ EXCEPT !.behind = FALSE] ELSE Unwatched]
    /\ UNCHANGED <<fixed, start, made, timers, reveal, games, quitting, asked>>
-----------------------------------------------------------------------------
(* The user turns to the window or away from it, or minimises it. *)
Turn ==
    /\ window \in {"shown", "minimised"}
    /\ \/ window' = "shown" /\ focused' = ~focused
       \/ window' = "minimised" /\ focused' = FALSE
    /\ UNCHANGED <<fixed, start, made, visibility, timers, reveal, games, watch, quitting, asked>>

Quit ==
    /\ tray \/ Visible
    /\ quitting' = TRUE
    /\ UNCHANGED <<fixed, start, window, made, focused, visibility, timers, reveal, games, watch, asked>>

(* Nothing after app.exit; a window destroyed is no reason to exit. *)
Next ==
    /\ ~quitting
    /\ \/ Close \/ StartUp \/ GameStarts \/ GameEnds \/ Turn \/ Quit
       \/ \E t \in timers : TimerDue(t) \/ TimerAsks(t) \/ TimerLetsGo(t)
       \/ \E r \in Reveal : \/ Ask(r) \/ Toggle(r) \/ GetWindow(r) \/ Rebuild(r)
                            \/ Show(r) \/ Focus(r) \/ Check(r) \/ Remap(r)
       \/ \E w \in Watch : Watches(w) \/ LetsGo(w)

Spec == Init /\ [][Next]_vars
-----------------------------------------------------------------------------
(* A window that is hidden or let go can be had back from the tray: on a   *)
(* desktop without one it is never either, whatever hides, watches or      *)
(* rebuilds it (intercept_close, start_up, game_started).                  *)
Reachable == window \in {"none", "hidden"} => tray

(* "Only a login start hides: one by hand, or the restart after an update, *)
(* must show the window" (start_up): a start by hand that reached the copy *)
(* running already is one as well.                                         *)
ByHandShows ==
    [][ start = "restoring" /\ start' = "done" /\ asked /\ Visible => window' = window ]_vars
=============================================================================
