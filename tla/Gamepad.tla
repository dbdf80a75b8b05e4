------------------------------ MODULE Gamepad ------------------------------
(***************************************************************************)
(* The thread that reads a controller (src-tauri/src/gamepad.rs): run()'s  *)
(* loop is one action, Poll, between which the player, the window's focus  *)
(* and the settings move on.  Time is counted in polls of the fast pace;   *)
(* a poll of the idle pace lets IdleTime of them pass.                     *)
(*                                                                         *)
(* A trigger's travel is cut where the code and the library look at it:    *)
(* 0 below TRIGGER_RELEASE, 1 between the two, 2 above TRIGGER_PRESS, 3    *)
(* where the library reports the button too.                               *)
(***************************************************************************)
EXTENDS Integers, Sequences, FiniteSets

CONSTANTS
    Direction,      \* directions of the d-pad and the left stick
    None,           \* no direction
    Triggers,       \* how a pad may report its trigger: "axis" or "button"
    Delay,          \* REPEAT_DELAY, in polls
    Every,          \* REPEAT_INTERVAL, in polls
    IdleTime,       \* IDLE_POLL_INTERVAL, in polls
    MaxPresses      \* bound: presses waiting for a poll

GamepadAssumption ==
    /\ None \notin Direction /\ Direction \cap {"south", "trigger"} = {}
    /\ Triggers \subseteq {"axis", "button"}
    /\ {Delay, Every, IdleTime, MaxPresses} \subseteq Nat \ {0} /\ Every <= Delay

VARIABLES
    pad,        \* the controller: attached, how its trigger reports, its travel, the direction held
    waiting,    \* events of the library the thread has not drained
    enabled,    \* gamepad_enabled
    focused,    \* whether the window is in front, as follow_focus heard it
    connected,  \* whether a controller is read, as the page was told
    held,       \* Repeater: the direction held, how long, and how long since it fired
    pulled,     \* TriggerState of the one trigger modelled
    out,        \* what this step sent to the page
    owed        \* presses of each kind the page may still be told of

vars == <<pad, waiting, enabled, focused, connected, held, pulled, out, owed>>

Press == {"south", "trigger"}
Idle == [direction |-> None, since |-> 0, fired |-> 0]
Event(button, repeat) == [button |-> button, repeat |-> repeat]

Init ==
    /\ \E t \in Triggers :
           pad = [attached |-> FALSE, trigger |-> t, travel |-> 0, direction |-> None]
    /\ waiting = <<>>
    /\ enabled \in BOOLEAN
    /\ focused = TRUE
    /\ connected = FALSE
    /\ held = Idle
    /\ pulled = FALSE
    /\ out = <<>>
    /\ owed = [p \in Press \cup Direction |-> 0]

TypeOK ==
    /\ pad \in [attached : BOOLEAN, trigger : Triggers, travel : 0 .. 3,
                direction : Direction \cup {None}]
    /\ waiting \in Seq(Press) /\ Len(waiting) <= MaxPresses
    /\ {enabled, focused, connected, pulled} \subseteq BOOLEAN
    /\ held \in [direction : Direction \cup {None}, since : 0 .. Delay, fired : 0 .. Delay]
    /\ out \in Seq([button : Press \cup Direction, repeat : BOOLEAN])
    /\ owed \in [Press \cup Direction -> 0 .. MaxPresses]
-----------------------------------------------------------------------------
(* The player, the desktop and the settings. *)

thread == <<connected, held, pulled>>

Quiet == UNCHANGED thread /\ out' = <<>>

Plug ==
    /\ pad' = [pad EXCEPT !.attached = ~@, !.travel = 0, !.direction = None]
    /\ UNCHANGED <<waiting, enabled, focused, owed>> /\ Quiet

PushButton ==
    /\ pad.attached /\ Len(waiting) < MaxPresses
    /\ waiting' = Append(waiting, "south")
    /\ owed' = [owed EXCEPT !["south"] = @ + 1]
    /\ UNCHANGED <<pad, enabled, focused>> /\ Quiet

(* The library reports a trigger that is a button when it is pulled far.   *)
MoveTrigger(travel) ==
    /\ pad.attached /\ travel \in {pad.travel - 1, pad.travel + 1} \cap 0 .. 3
    /\ pad' = [pad EXCEPT !.travel = travel]
    /\ IF pad.trigger = "button" /\ travel = 3
       THEN Len(waiting) < MaxPresses /\ waiting' = Append(waiting, "trigger")
       ELSE UNCHANGED waiting
    /\ owed' = IF pad.travel = 0 THEN [owed EXCEPT !["trigger"] = 1] ELSE owed
    /\ UNCHANGED <<enabled, focused>> /\ Quiet

Hold(d) ==
    /\ pad.attached /\ d # pad.direction
    /\ pad' = [pad EXCEPT !.direction = d]
    /\ owed' = [b \in DOMAIN owed |->
                   IF b \in Direction THEN (IF b = d THEN 1 ELSE 0) ELSE owed[b]]
    /\ UNCHANGED <<waiting, enabled, focused>> /\ Quiet

Focus == focused' = ~focused /\ UNCHANGED <<pad, waiting, enabled, owed>> /\ Quiet

Enable == enabled' = ~enabled /\ UNCHANGED <<pad, waiting, focused, owed>> /\ Quiet
-----------------------------------------------------------------------------
(* The thread. *)

Later(age, time) == IF age + time < Delay THEN age + time ELSE Delay

(* How long the poll slept: fast only for a pad that drives the window.    *)
Slept == IF connected /\ enabled /\ focused THEN {1} ELSE {1, IdleTime}

UpdateForgets(direction, time) ==
    IF direction = None THEN [held |-> Idle, fires |-> <<>>]
    ELSE IF held.direction = direction /\ held.since < Delay
    THEN [held |-> [held EXCEPT !.since = Later(@, time)], fires |-> <<>>]
    ELSE [held |-> [Idle EXCEPT !.direction = direction], fires |-> <<Event(direction, FALSE)>>]

(* Repeater::update. *)
Update(direction, time) ==
    LET aged == [held EXCEPT !.since = Later(@, time), !.fired = Later(@, time)]
    IN IF direction = None THEN [held |-> Idle, fires |-> <<>>]
       ELSE IF direction # held.direction
       THEN [held |-> [Idle EXCEPT !.direction = direction],
             fires |-> <<Event(direction, FALSE)>>]
       ELSE IF aged.since < Delay \/ aged.fired < Every
       THEN [held |-> aged, fires |-> <<>>]
       ELSE [held |-> [aged EXCEPT !.fired = 0], fires |-> <<Event(direction, TRUE)>>]

(* TriggerState::update: the trigger counts as pulled now.                 *)
Pulled(was, travel) == IF was THEN travel # 0 ELSE travel >= 2

(* The library's presses, as this poll sends them.                         *)
Pressed(events) == [i \in DOMAIN events |-> Event(events[i], FALSE)]

(* What is left waiting after a poll.                                      *)
Drained(events) == <<>>

(* What a poll leaves owed: what it drained, and what it has seen.         *)
Settled(left, pulledNow, heldNow) ==
    [b \in DOMAIN owed |->
        CASE b = "south"   -> 0
          [] b = "trigger" -> IF pulledNow \/ pad.travel = 0 THEN 0 ELSE owed[b]
          [] OTHER         -> IF heldNow.direction = b THEN 0 ELSE owed[b]]

(* A poll that reads no pad: reading is off, or there is none.             *)
PollNothing ==
    /\ ~enabled \/ ~pad.attached
    /\ waiting' = Drained(waiting)
    /\ connected' = FALSE
    /\ out' = <<>>
    /\ owed' = Settled(<<>>, FALSE, held)
    /\ UNCHANGED <<pad, enabled, focused, held, pulled>>

Poll ==
    /\ enabled /\ pad.attached
    /\ \E time \in Slept :
           LET repeater == Update(pad.direction, time)
               trigger == Pulled(pulled, pad.travel)
               events == Pressed(waiting)
                         \o (IF trigger /\ ~pulled THEN <<Event("trigger", FALSE)>> ELSE <<>>)
                         \o repeater.fires
           IN /\ waiting' = Drained(waiting)
              /\ connected' = TRUE
              /\ held' = repeater.held
              /\ pulled' = trigger
              /\ out' = IF focused THEN events ELSE <<>>
              /\ owed' = Settled(waiting, trigger, repeater.held)
    /\ UNCHANGED <<pad, enabled, focused>>

Next ==
    \/ Plug
    \/ PushButton
    \/ \E travel \in 0 .. 3 : MoveTrigger(travel)
    \/ \E d \in Direction \cup {None} : Hold(d)
    \/ Focus
    \/ Enable
    \/ PollNothing
    \/ Poll

Spec == Init /\ [][Next]_vars
-----------------------------------------------------------------------------
(* Properties. *)

Sent(events, button) ==
    Cardinality({i \in DOMAIN events : events[i] = Event(button, FALSE)})

(* Every press the page is told of as a fresh one answers a press of its   *)
(* own: nothing pressed while reading was off comes back when it is turned *)
(* on, a direction held fires once as a press and then only repeats, and a *)
(* trigger half held does not chatter.                                     *)
NoPhantom ==
    \A b \in Press \cup Direction : Sent(out', b) <= owed[b]
=============================================================================
