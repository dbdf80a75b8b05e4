---------------------------- MODULE ServerWatch -----------------------------
(***************************************************************************)
(* The watch over the server (src-tauri/src/server_watch.rs): a tick asks  *)
(* whether the session still holds, every few of them compare the          *)
(* catalogue with what the last comparison saw, which is kept in           *)
(* server-watch.json.  What it finds is told the user at once (notify.rs); *)
(* games that are new are left out.                                        *)
(*                                                                         *)
(* A tick is up to three actions, in the order of run(): the session       *)
(* check, the comparison, the file.  Whose games they are is read before   *)
(* the check, and the list compared may be an older one: games() answers   *)
(* with the last it had for a while, and while the server does not.        *)
(* A notification goes out before the file is written.                     *)
(***************************************************************************)
EXTENDS Integers, FiniteSets

CONSTANTS
    Game,           \* games of the server
    Owned,          \* those the user may install
    Account,        \* whom the user signs in as
    None,           \* nothing there
    MaxSize,        \* bound: sizes a game has on the server, 0 not measured
    OutageAfter,    \* OUTAGE_AFTER
    CatalogEvery,   \* CATALOG_EVERY
    MaxKills        \* bound: times the app is killed

ServerWatchAssumption ==
    /\ None \notin Account /\ Owned \subseteq Game
    /\ {MaxSize, MaxKills} \subseteq Nat
    /\ {OutageAfter, CatalogEvery} \subseteq Nat \ {0}

VARIABLES
    size,       \* the size of each game the server has, None where it has it not
    down,       \* whether the server does not answer
    user,       \* the account signed in, None where the session is gone
    expired,    \* whether the server no longer accepts that session
    local,      \* source_bytes of each installed game, None where not installed
    list,       \* the sizes compared last, None where the app has no list
    seen,       \* what the last comparison saw
    file,       \* server-watch.json
    link,       \* the connection as this run has seen it
    at,         \* where the tick is
    account,    \* whose games it compares, None when it does not
    ticks,      \* ticks, modulo CatalogEvery
    told,       \* ghost: the size each game was told of, None once that is past
    kills       \* times the app was killed

world == <<size, down, user, expired, local>>
watch == <<seen, file, link, at, account, ticks>>
vars == <<world, list, watch, told, kills>>

Size == 0 .. MaxSize
Sizes == [Game -> Size \cup {None}]
Unseen == [account |-> None, announced |-> [g \in Game |-> None]]
Nothing == [g \in Game |-> None]
NoLink == [failures |-> 0, outage |-> FALSE, signOut |-> FALSE]

Init ==
    /\ size = [g \in Game |-> None]
    /\ down = FALSE
    /\ user \in Account /\ expired = FALSE
    /\ local = [g \in Game |-> None]
    /\ list = None
    /\ seen = Unseen
    /\ file = Unseen
    /\ link = NoLink
    /\ at = "tick" /\ account = None
    /\ ticks = 0
    /\ told = Nothing
    /\ kills = 0

TypeOK ==
    /\ {size, local, told} \subseteq Sizes /\ list \in Sizes \cup {None}
    /\ down \in BOOLEAN /\ expired \in BOOLEAN
    /\ {user, account} \subseteq Account \cup {None}
    /\ {seen, file} \subseteq [account : Account \cup {None}, announced : Sizes]
    /\ link \in [failures : 0 .. OutageAfter, outage : BOOLEAN, signOut : BOOLEAN]
    /\ at \in {"tick", "compare", "write"}
    /\ ticks \in 0 .. (CatalogEvery - 1)
    /\ kills \in 0 .. MaxKills
-----------------------------------------------------------------------------
(* The server and the user. *)

Resize(g, s) ==
    /\ size[g] # s
    /\ size' = [size EXCEPT ![g] = s]
    /\ UNCHANGED <<down, user, expired, local, list, watch, told, kills>>

ServerStops ==
    /\ down' = ~down
    /\ UNCHANGED <<size, user, expired, local, list, watch, told, kills>>

SessionExpires ==
    /\ user # None /\ ~expired
    /\ expired' = TRUE
    /\ UNCHANGED <<size, down, user, local, list, watch, told, kills>>

SignIn(a) ==
    /\ user' = a
    /\ expired' = FALSE
    /\ UNCHANGED <<size, down, local, list, watch, told, kills>>

(* The catalogue of the account is forgotten with it. *)
SignOut ==
    /\ user # None
    /\ user' = None
    /\ expired' = FALSE
    /\ list' = None
    /\ UNCHANGED <<size, down, local, watch, told, kills>>

(* A game downloaded at the size the server has it at, or taken away; 0    *)
(* for one installed before sizes were recorded.                           *)
Install(g, s) ==
    /\ g \in Owned /\ s \in {None, 0, size[g]} \ {local[g]}
    /\ local' = [local EXCEPT ![g] = s]
    /\ told' = [told EXCEPT ![g] = None]
    /\ UNCHANGED <<size, down, user, expired, list, watch, kills>>

Answers == user # None /\ ~down /\ ~expired
-----------------------------------------------------------------------------
(* A tick. *)

(* Signed out on purpose: nothing to watch. *)
TickIdle ==
    /\ at = "tick"
    /\ user = None
    /\ link' = NoLink
    /\ UNCHANGED <<world, list, seen, file, at, account, ticks, told, kills>>

NextTick == (ticks + 1) % CatalogEvery

(* No answer: the second in a row is an outage, told once. *)
TickOffline ==
    /\ at = "tick"
    /\ user # None /\ down
    /\ LET failures == IF link.failures < OutageAfter THEN link.failures + 1 ELSE OutageAfter
       IN  link' = [link EXCEPT !.failures = failures, !.outage = @ \/ failures >= OutageAfter]
    /\ ticks' = NextTick
    /\ UNCHANGED <<world, list, seen, file, at, account, told, kills>>

(* Back but signed out: signing in is the news. *)
TickRefused ==
    /\ at = "tick"
    /\ user # None /\ ~down /\ expired
    /\ link' = [failures |-> 0, outage |-> FALSE, signOut |-> TRUE]
    /\ ticks' = NextTick
    /\ UNCHANGED <<world, list, seen, file, at, account, told, kills>>

(* What an accepted session leaves of the link. *)
LinkOnceBack == NoLink

TickAccepted ==
    /\ at = "tick"
    /\ Answers
    /\ link' = LinkOnceBack
    /\ IF ticks = 0 THEN at' = "compare" /\ account' = user ELSE UNCHANGED <<at, account>>
    /\ ticks' = NextTick
    /\ UNCHANGED <<world, list, seen, file, told, kills>>
-----------------------------------------------------------------------------
(* check_catalog, of a list l of the games and their sizes. *)

There(l) == {g \in Game : l[g] # None}

(* Another account starts afresh; an empty answer is more likely a hiccup. *)
Recorded(l) ==
    IF There(l) = {} THEN seen
    ELSE [account |-> account,
          announced |-> IF seen.account = account THEN seen.announced ELSE Nothing]

(* Installed games the server has at another size than was downloaded. *)
Measured(l) == {g \in There(l) : l[g] # 0}
Baselines(l) == {g \in Measured(l) : local[g] = 0}
Outdated(l) == {g \in Measured(l) : local[g] \notin {None, 0, l[g]}}
ChangedSizes(l) == {g \in Outdated(l) : Recorded(l).announced[g] # l[g]}

(* A mistake to check against: what was told is not remembered. *)
AnnouncedAfresh(l) == Nothing

Announced(l) ==
    [g \in Game |-> IF g \in Outdated(l) THEN l[g]
                    ELSE IF g \in Measured(l) \ Baselines(l) THEN None
                    ELSE Recorded(l).announced[g]]

Remembered(l) == [Recorded(l) EXCEPT !.announced = Announced(l)]

(* The list it has, which may be old, or a new one. *)
Known == (IF list = None THEN {} ELSE {list}) \cup (IF Answers THEN {size} ELSE {})

(* What was told is past when the account is another, or the size.         *)
StillTold(l) ==
    [g \in Game |-> IF g \in ChangedSizes(l) THEN l[g]
                    ELSE IF There(l) # {} /\ seen.account # account THEN None
                    ELSE IF g \in Measured(l) /\ told[g] # l[g] THEN None
                    ELSE told[g]]

Compare(l) ==
    /\ at = "compare"
    /\ user # None
    /\ list' = l
    /\ seen' = Remembered(l)
    /\ local' = [g \in Game |-> IF g \in Baselines(l) THEN l[g] ELSE local[g]]
    /\ told' = StillTold(l)
    /\ at' = (IF seen' = seen THEN "tick" ELSE "write") /\ account' = None
    /\ UNCHANGED <<size, down, user, expired, file, link, ticks, kills>>

(* There is no list to be had, or the user has signed out meanwhile. *)
CompareFails ==
    /\ at = "compare"
    /\ user = None \/ list = None
    /\ at' = "tick" /\ account' = None
    /\ UNCHANGED <<world, list, seen, file, link, ticks, told, kills>>

(* It may fail, and is not tried again before something else has changed. *)
Write ==
    /\ at = "write"
    /\ file' \in {file, seen}
    /\ at' = "tick"
    /\ UNCHANGED <<world, list, seen, link, account, ticks, told, kills>>

(* The app is killed and started again: run() reads the file.              *)
Kill ==
    /\ kills < MaxKills
    /\ kills' = kills + 1
    /\ seen' = file
    /\ link' = NoLink
    /\ at' = "tick" /\ account' = None
    /\ ticks' = 0
    /\ told' = IF file = seen THEN told ELSE Nothing
    /\ UNCHANGED <<world, list, file>>
-----------------------------------------------------------------------------
Compares == \E l \in Known : Compare(l)

Tick == TickIdle \/ TickOffline \/ TickRefused \/ TickAccepted \/ Compares \/ CompareFails \/ Write

Next ==
    \/ \E g \in Game, s \in Size \cup {None} : Resize(g, s) \/ Install(g, s)
    \/ ServerStops \/ SessionExpires \/ SignOut \/ Kill
    \/ \E a \in Account : SignIn(a)
    \/ TickIdle \/ TickOffline \/ TickRefused \/ TickAccepted
    \/ Compares \/ CompareFails \/ Write

Spec == Init /\ [][Next]_vars /\ WF_vars(Tick)
-----------------------------------------------------------------------------
(* A change of a game's files is told once, over restarts too: not again   *)
(* until it is installed anew, its size is another, or the account, or the *)
(* file was not written before the app ended.                              *)
ToldOnce ==
    \A l \in Known : Compare(l) => \A g \in ChangedSizes(l) : told[g] # l[g]

Out == down /\ user # None

Outage == link.outage

Accepted == ~down /\ user # None /\ ~expired
=============================================================================
