------------------------------ MODULE Catalogue -----------------------------
(***************************************************************************)
(* The list of games and its offline mirror: AppState::games, remember and *)
(* forget_catalog (src-tauri/src/state.rs), and how the client lists them  *)
(* (gameyfin-api/src/catalog.rs and v1.rs): a delta since the last sync    *)
(* with the full games asked for in batches, everything at once on an      *)
(* older server, or page after page through the REST API.                  *)
(*                                                                         *)
(* A game is told by its id and by the time of its last change; every      *)
(* request is an action, between which the server's library may change.    *)
(* games() holds catalog_fetch, so one fetch runs at a time.  How long an  *)
(* answer is used again is left out: a fetch may start at any time.        *)
(***************************************************************************)
EXTENDS Integers, FiniteSets

CONSTANTS
    MaxGame,    \* bound: the games are 1 .. MaxGame
    MaxTime,    \* bound: changes of the server's library
    Kinds,      \* how the server lists: "sync", "getAll" or "pages"
    PagesRest,  \* whether the library rests while its pages are read
    Batch,      \* DETAILS_BATCH
    PageSize    \* PAGE_SIZE

CatalogueAssumption ==
    /\ MaxGame \in Nat \ {0} /\ MaxTime \in Nat
    /\ Kinds \subseteq {"sync", "getAll", "pages"}
    /\ PagesRest \in BOOLEAN
    /\ Batch \in Nat \ {0} /\ PageSize \in Nat \ {0}

VARIABLES
    kind,       \* one of Kinds, for good
    server,     \* the time each game was last changed, 0 where it is not there
    now,        \* the server's clock
    signedIn,   \* whether the app has a client
    mirror,     \* the offline mirror: the games held, and synced_at (0: none)
    disk,       \* catalogue.json
    fetch,      \* games(), under way
    settled     \* the server's library has not changed since the fetch began

vars == <<kind, server, now, signedIn, mirror, disk, fetch, settled>>

Game == 1 .. MaxGame
Time == 0 .. MaxTime
Listed == [Game -> Time]

Nothing == [g \in Game |-> 0]
NoMirror == [games |-> Nothing, at |-> 0]

Held(list) == {g \in Game : list[g] # 0}

(* The newest change in a catalogue. *)
NewestUpdate(list) == CHOOSE t \in Time : /\ \E g \in Game : list[g] = t
                                          /\ \A g \in Game : list[g] <= t

(* A fetch that has not been asked for. *)
NoFetch == [step |-> "none", previous |-> NoMirror, got |-> Nothing, at |-> 0,
            ids |-> {}, all |-> {}, page |-> 0, read |-> 0]

Init ==
    /\ kind \in Kinds
    /\ server = Nothing
    /\ now = 0
    /\ signedIn = TRUE
    /\ mirror = NoMirror
    /\ disk = NoMirror
    /\ fetch = NoFetch
    /\ settled = TRUE

TypeOK ==
    /\ kind \in Kinds
    /\ server \in Listed
    /\ now \in Time
    /\ signedIn \in BOOLEAN
    /\ {mirror, disk, fetch.previous} \subseteq [games : Listed, at : Time]
    /\ fetch.step \in {"none", "asked", "details", "delta", "whole", "fetched"}
    /\ fetch.got \in Listed /\ fetch.at \in Time
    /\ fetch.ids \subseteq Game /\ fetch.all \subseteq Game
    /\ fetch.page \in 0 .. MaxGame /\ fetch.read \in 0 .. (MaxGame * MaxGame + MaxGame)
    /\ settled \in BOOLEAN
-----------------------------------------------------------------------------
(* The server's library: a game added, changed or removed. *)

MayChange == PagesRest => fetch.step \notin {"delta", "whole"}

Change(g) ==
    /\ now < MaxTime
    /\ MayChange
    /\ now' = now + 1
    /\ server' = [server EXCEPT ![g] = now']
    /\ settled' = FALSE
    /\ UNCHANGED <<kind, signedIn, mirror, disk, fetch>>

RemoveGame(g) ==
    /\ now < MaxTime
    /\ server[g] # 0
    /\ MayChange
    /\ now' = now + 1
    /\ server' = [server EXCEPT ![g] = 0]
    /\ settled' = FALSE
    /\ UNCHANGED <<kind, signedIn, mirror, disk, fetch>>
-----------------------------------------------------------------------------
(* games(). *)

Fetching(next) ==
    /\ fetch' = next
    /\ UNCHANGED <<kind, server, now, signedIn, mirror, disk, settled>>

(* A delta needs the games it applies to, so an empty mirror starts over. *)
Ask ==
    /\ signedIn
    /\ fetch.step = "none"
    /\ fetch' = [NoFetch EXCEPT !.step = "asked",
                                !.previous = IF Held(mirror.games) = {} THEN NoMirror ELSE mirror]
    /\ settled' = TRUE
    /\ UNCHANGED <<kind, server, now, signedIn, mirror, disk>>

Fetched(list, at) == [fetch EXCEPT !.step = "fetched", !.got = list, !.at = at]

(* An older server has no deltas. *)
GetAll ==
    /\ fetch.step = "asked"
    /\ kind = "getAll"
    /\ Fetching(Fetched(server, 0))

(* GameEndpoint.sync: what changed since, and what there is. *)
Sync(full) ==
    /\ fetch.step = "asked"
    /\ kind = "sync"
    /\ (fetch.previous.at = 0 => full)
    /\ LET since == IF full THEN 0 ELSE fetch.previous.at
       IN  Fetching([fetch EXCEPT
               !.step = "details",
               !.previous = IF full THEN NoMirror ELSE @,
               !.ids = {g \in Game : server[g] > since},
               !.all = Held(server),
               !.at = now])

(* getByIds: the games of a batch that are still there, as they are now. *)
Details(batch) ==
    /\ fetch.step = "details"
    /\ batch # {} /\ batch \subseteq fetch.ids
    /\ Cardinality(batch) <= Batch
    /\ Fetching([fetch EXCEPT !.ids = @ \ batch,
                              !.got = [g \in Game |-> IF g \in batch THEN server[g] ELSE @[g]]])

(* A mistake to check against: games the server has removed are kept. *)
MergedAll(previous, changed, all) ==
    [g \in Game |-> IF changed[g] # 0 THEN changed[g] ELSE previous[g]]

(* The previous games that are there still and unchanged, then the changed. *)
Merged(previous, changed, all) ==
    [g \in Game |-> IF changed[g] # 0 THEN changed[g]
                    ELSE IF g \in all THEN previous[g] ELSE 0]

ApplySync ==
    /\ fetch.step = "details"
    /\ fetch.ids = {}
    /\ Fetching(Fetched(Merged(fetch.previous.games, fetch.got, fetch.all), fetch.at))
-----------------------------------------------------------------------------
(* The REST API: pages of a list that may change between them. *)

(* A list is sorted by time, the newest first, or by id. *)
Before(a, b) == IF fetch.step = "delta" THEN server[a] > server[b] ELSE a < b

Place(g) == Cardinality({h \in Held(server) : Before(h, g)})

Page == {g \in Held(server) :
            Place(g) \in fetch.page * PageSize .. (fetch.page + 1) * PageSize - 1}

Size(page) == Cardinality(page)

TakenIn(page, list) == [g \in Game |-> IF g \in page THEN server[g] ELSE list[g]]

LastPage(page) ==
    Size(page) < PageSize \/ fetch.read + Size(page) >= Cardinality(Held(server))

Turned(page) == [fetch EXCEPT !.got = TakenIn(page, @), !.page = @ + 1, !.read = @ + Size(page)]

(* The start of a list: newest first down to the last sync, or all by id.  *)
ListPages ==
    /\ fetch.step = "asked"
    /\ kind = "pages"
    /\ Fetching([fetch EXCEPT !.step = IF fetch.previous.at = 0 THEN "whole" ELSE "delta"])

(* Equal counts as changed; a count that does not fit shows a removal.     *)
DeltaPage ==
    /\ fetch.step = "delta"
    /\ LET since == fetch.previous.at
           next == Turned(Page)
           changed == [g \in Game |-> IF next.got[g] >= since THEN next.got[g] ELSE 0]
           games == Merged(fetch.previous.games, changed, Game)
       IN  IF ~LastPage(Page) /\ \A g \in Page : server[g] >= since
           THEN Fetching(next)
           ELSE IF Cardinality(Held(games)) = Cardinality(Held(server))
           THEN Fetching(Fetched(games, IF Held(games) = {} THEN since ELSE NewestUpdate(games)))
           ELSE Fetching([NoFetch EXCEPT !.step = "whole"])

WholePage ==
    /\ fetch.step = "whole"
    /\ LET next == Turned(Page)
       IN  IF ~LastPage(Page)
           THEN Fetching(next)
           ELSE Fetching(Fetched(next.got, NewestUpdate(next.got)))
-----------------------------------------------------------------------------
(* The mirror. *)

(* remember: games and the time they are of in one, and in one file.       *)
Remember(written) ==
    /\ fetch.step = "fetched"
    /\ mirror' = [games |-> fetch.got, at |-> fetch.at]
    /\ disk' = IF written THEN mirror' ELSE disk
    /\ fetch' = NoFetch
    /\ UNCHANGED <<kind, server, now, signedIn, settled>>

(* No answer, or an error: the mirror is shown. *)
FetchFails ==
    /\ fetch.step \notin {"none", "fetched"}
    /\ Fetching(NoFetch)

(* forget_session: forget_catalog, with the client gone already. *)
SignOut ==
    /\ signedIn
    /\ signedIn' = FALSE
    /\ mirror' = NoMirror
    /\ disk' = NoMirror
    /\ UNCHANGED <<kind, server, now, fetch, settled>>

SignIn ==
    /\ ~signedIn
    /\ signedIn' = TRUE
    /\ UNCHANGED <<kind, server, now, mirror, disk, fetch, settled>>

Restart ==
    /\ mirror' = disk
    /\ fetch' = NoFetch
    /\ UNCHANGED <<kind, server, now, signedIn, disk, settled>>
-----------------------------------------------------------------------------
Next ==
    \/ \E g \in Game : Change(g) \/ RemoveGame(g)
    \/ Ask \/ GetAll \/ ApplySync \/ ListPages \/ DeltaPage \/ WholePage
    \/ \E yes \in BOOLEAN : Sync(yes) \/ Remember(yes)
    \/ \E batch \in SUBSET Game : Details(batch)
    \/ FetchFails \/ SignOut \/ SignIn \/ Restart

Spec == Init /\ [][Next]_vars
-----------------------------------------------------------------------------
(* However the library changed before, during earlier fetches or while the *)
(* app was closed, a fetch during which it rests lists exactly what the    *)
(* server has: a delta loses no change and keeps no removed game.          *)
EveryGame == fetch.step = "fetched" /\ settled => fetch.got = server

(* What forget_catalog says: one account's titles never outlive it.        *)
TitlesForgotten == ~signedIn => mirror = NoMirror /\ disk = NoMirror
=============================================================================
