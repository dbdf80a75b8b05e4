--------------------------- MODULE DesktopShortcuts ---------------------------
(***************************************************************************)
(* A game's shortcut on the desktop and in the menu: set_shortcut          *)
(* (src-tauri/src/integrations.rs) over gameyfin-core/src/shortcuts.rs and *)
(* icon.rs.  Elsewhere than on Windows a shortcut's file is named by the   *)
(* game's id and title; on Windows by the title alone, and whose it is is  *)
(* read from the file.  Both locations share one icon.  Not here: what the *)
(* files say and how it is quoted, and Steam (SteamShortcuts).             *)
(***************************************************************************)
EXTENDS Integers, FiniteSets

CONSTANTS
    Game,
    Title,        \* titles a game may have on the server
    Windows,      \* whether this is Windows
    Users,        \* titles the user may have a shortcut of their own for
    Overlapping,  \* whether a game's two switches may run at once
    MaxRequests, MaxRenames

DesktopShortcutsAssumption ==
    /\ IsFiniteSet(Game) /\ IsFiniteSet(Title) /\ Users \subseteq Title
    /\ Windows \in BOOLEAN /\ Overlapping \in BOOLEAN
    /\ MaxRequests \in Nat /\ MaxRenames \in Nat

Location == {"desktop", "menu"}

User == "user"

Nobody == "nobody"

VARIABLES
    title,     \* of each game, on the server
    shortcut,  \* whose each file is: by location and name
    icon,      \* the games whose icon file is there
    task,      \* what each switch is doing
    shows,     \* the shortcuts that name the icon
    made,      \* history: the games last added there, by location
    requests, renames

vars == <<title, shortcut, icon, task, made, shows, requests, renames>>

(* The name of a file; Windows shows it, so there it is the title alone. *)
Stem(g, t) == [game |-> IF Windows THEN Nobody ELSE g, title |-> t, beside |-> FALSE]

Name == [game : Game \cup {Nobody}, title : Title, beside : BOOLEAN]

NoTask == [pc |-> "idle", enabled |-> FALSE, title |-> CHOOSE t \in Title : TRUE, icon |-> FALSE]

TypeOK ==
    /\ title \in [Game -> Title]
    /\ shortcut \in [Location -> [Name -> Game \cup {User, Nobody}]]
    /\ icon \subseteq Game
    /\ task \in [Game \X Location ->
          [pc : {"idle", "drawing", "clearing", "writing", "removing", "tidying"},
           enabled : BOOLEAN, title : Title, icon : BOOLEAN]]
    /\ made \subseteq Game \X Location /\ shows \subseteq Game \X Location
    /\ requests \in 0 .. MaxRequests /\ renames \in 0 .. MaxRenames

Init ==
    /\ title \in [Game -> Title]
    /\ \E own \in SUBSET Users :
        shortcut = [l \in Location |-> [n \in Name |->
            IF n \in {[game |-> Nobody, title |-> t, beside |-> FALSE] : t \in own}
            THEN User ELSE Nobody]]
    /\ icon = {}
    /\ task = [k \in Game \X Location |-> NoTask]
    /\ made = {} /\ shows = {}
    /\ requests = 0 /\ renames = 0

(* existing_shortcut, installed_for: found by what the name or the file    *)
(* says, so a game renamed on the server is still recognised.              *)
Files(g, l) == {n \in Name : shortcut[l][n] = g}

InstalledFor(g) == {l \in Location : Files(g, l) # {}}

(* Never over a file of something else: ours goes beside it. *)
Destination(g, l, t) ==
    IF shortcut[l][Stem(g, t)] \in {Nobody, g} THEN Stem(g, t)
    ELSE [Stem(g, t) EXCEPT !.beside = TRUE]
-----------------------------------------------------------------------------
Ask(g, l, enabled) ==
    /\ task[g, l].pc = "idle"
    /\ Overlapping \/ \A other \in Location : task[g, other].pc = "idle"
    /\ requests < MaxRequests
    /\ requests' = requests + 1
    /\ task' = [task EXCEPT ![<<g, l>>] = [pc |-> IF enabled THEN "drawing" ELSE "removing",
                                       enabled |-> enabled, title |-> title[g], icon |-> FALSE]]
    /\ UNCHANGED <<title, shortcut, icon, made, shows, renames>>

WithIcon(g, drawn) == IF drawn THEN icon \cup {g} ELSE icon

(* The icon of the executable, the cover or the app's own; a shortcut is   *)
(* made without one if it cannot be written.                               *)
WriteIcon(g, l) ==
    /\ task[g, l].pc = "drawing"
    /\ \E drawn \in BOOLEAN :
        /\ icon' = WithIcon(g, drawn)
        /\ task' = [task EXCEPT ![<<g, l>>].pc = "clearing", ![<<g, l>>].icon = drawn]
    /\ UNCHANGED <<title, shortcut, made, shows, requests, renames>>

Without(g, l) ==
    IF Files(g, l) = {} THEN shortcut
    ELSE [shortcut EXCEPT ![l][CHOOSE n \in Files(g, l) : TRUE] = Nobody]

(* A renamed game gets a renamed shortcut. *)
RemovePrevious(g, l) ==
    /\ task[g, l].pc = "clearing"
    /\ shortcut' = Without(g, l)
    /\ task' = [task EXCEPT ![<<g, l>>].pc = "writing"]
    /\ UNCHANGED <<title, icon, made, shows, requests, renames>>

(* What is written into it: the icon is named only if it was drawn. *)
Showing(g, l) == IF task[g, l].icon THEN shows \cup {<<g, l>>} ELSE shows \ {<<g, l>>}

Create(g, l) ==
    /\ task[g, l].pc = "writing"
    /\ \/ /\ shortcut' = [shortcut EXCEPT ![l][Destination(g, l, task[g, l].title)] = g]
          /\ made' = made \cup {<<g, l>>}
          /\ shows' = Showing(g, l)
       \/ shortcut' = shortcut /\ made' = made \ {<<g, l>>} /\ shows' = shows \ {<<g, l>>}
    /\ task' = [task EXCEPT ![<<g, l>>] = NoTask]
    /\ UNCHANGED <<title, icon, requests, renames>>

Remove(g, l) ==
    /\ task[g, l].pc = "removing"
    /\ shortcut' = Without(g, l)
    /\ made' = made \ {<<g, l>>} /\ shows' = shows \ {<<g, l>>}
    /\ task' = [task EXCEPT ![<<g, l>>].pc = "tidying"]
    /\ UNCHANGED <<title, icon, requests, renames>>

(* The icon goes with the last of a game's shortcuts. *)
Tidy(g, l) ==
    /\ task[g, l].pc = "tidying"
    /\ icon' = IF InstalledFor(g) = {} THEN icon \ {g} ELSE icon
    /\ task' = [task EXCEPT ![<<g, l>>] = NoTask]
    /\ UNCHANGED <<title, shortcut, made, shows, requests, renames>>

Retitle(g) ==
    /\ renames < MaxRenames
    /\ renames' = renames + 1
    /\ \E t \in Title \ {title[g]} : title' = [title EXCEPT ![g] = t]
    /\ UNCHANGED <<shortcut, icon, task, made, shows, requests>>

Next ==
    \E g \in Game :
        \/ Retitle(g)
        \/ \E l \in Location :
            \/ \E enabled \in BOOLEAN : Ask(g, l, enabled)
            \/ WriteIcon(g, l) \/ RemovePrevious(g, l) \/ Create(g, l)
            \/ Remove(g, l) \/ Tidy(g, l)

Spec == Init /\ [][Next]_vars
-----------------------------------------------------------------------------
(* A shortcut that was made stays until it is removed or replaced, with    *)
(* the icon it names, and is the game's only one there, whatever the game  *)
(* is renamed to and although another has the same title.                  *)
ShortcutsKept ==
    \A g \in Game, l \in Location :
        /\ Cardinality(Files(g, l)) <= 1
        /\ task[g, l].pc = "idle" =>
            /\ <<g, l>> \in made => Files(g, l) # {}
            /\ <<g, l>> \in shows => g \in icon
=============================================================================
