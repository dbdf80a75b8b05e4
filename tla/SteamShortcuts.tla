---------------------------- MODULE SteamShortcuts ----------------------------
(***************************************************************************)
(* Games added to Steam: set_steam_shortcut (src-tauri/src/integrations.rs)*)
(* over gameyfin-core/src/steam.rs.  Each Steam account keeps one file of  *)
(* all shortcuts, which other launchers and Steam write as well; this app  *)
(* reads it into a tree, changes its own entry and replaces the file, and  *)
(* keeps art for the entry beside it.  An entry is found by an id made of  *)
(* the program and the title.  A request is one task; the reads and writes *)
(* of a file are apart.  Not here: the bytes of the format, drawing icons. *)
(***************************************************************************)
EXTENDS Integers, Sequences, FiniteSets, SequencesExt

CONSTANTS
    Game, Account,
    Title,        \* titles a game may have on the server
    None,         \* no file, no title
    Unreadable,   \* whether a file may be one this app cannot read or parse
    Overlapping,  \* whether requests and other programs may run in between
    MaxForeign,   \* bound: entries others add to a file
    MaxRequests, MaxFaults

SteamShortcutsAssumption ==
    /\ IsFiniteSet(Game) /\ IsFiniteSet(Account) /\ IsFiniteSet(Title)
    /\ Unreadable \in BOOLEAN /\ Overlapping \in BOOLEAN
    /\ MaxForeign \in Nat /\ MaxRequests \in Nat /\ MaxFaults \in Nat

Other == "other"

VARIABLES
    title,     \* of each game, on the server
    file,      \* the shortcuts of each account: a sequence of entries, or None
    readable,  \* whether the file can be read and parsed
    art,       \* the games whose icon is beside each file
    task,      \* what each game's request is doing
    foreign,   \* history: the entries other programs have put in each file
    requests, faults

vars == <<title, file, readable, art, task, foreign, requests, faults>>

(* An entry: the position it is under, whose it is and for which title,    *)
(* whether Steam or the user changed a field of it, and which of theirs.   *)
Entry ==
    [key : Nat, owner : Game \cup {Other}, title : Title \cup {None},
     kept : BOOLEAN, number : Nat]

NoTask == [pc |-> "idle", enabled |-> FALSE, title |-> None, todo |-> {}, doc |-> <<>>,
           written |-> {}, failed |-> {}]

Files == Seq(Entry) \cup {None}

TypeOK ==
    /\ title \in [Game -> Title]
    /\ \A a \in Account : file[a] \in Files /\ foreign[a] \in Seq(Entry)
    /\ readable \in [Account -> BOOLEAN]
    /\ art \in [Account -> SUBSET Game]
    /\ \A g \in Game :
        /\ task[g].pc \in {"idle", "artwork", "reading", "changing", "writing", "renaming"}
        /\ task[g].enabled \in BOOLEAN /\ task[g].title \in Title \cup {None}
        /\ task[g].todo \cup task[g].written \cup task[g].failed \subseteq Account
        /\ task[g].doc \in Seq(Entry)
    /\ requests \in 0 .. MaxRequests /\ faults \in 0 .. MaxFaults

Theirs(number, key) ==
    [key |-> key, owner |-> Other, title |-> None, kept |-> TRUE, number |-> number]

Init ==
    /\ title \in [Game -> Title]
    /\ file \in [Account -> {None, <<>>, <<Theirs(0, 0)>>}]
    /\ readable \in [Account -> IF Unreadable THEN BOOLEAN ELSE {TRUE}]
    /\ art = [a \in Account |-> {}]
    /\ task = [g \in Game |-> NoTask]
    /\ foreign = [a \in Account |-> IF file[a] = None THEN <<>> ELSE file[a]]
    /\ requests = 0 /\ faults = 0

Busy == \E g \in Game : task[g].pc # "idle"

Quiet == Overlapping \/ ~Busy

Fault == faults < MaxFaults /\ faults' = faults + 1
-----------------------------------------------------------------------------
(* The switch of a game's Steam entry; the art is fetched before any file. *)
Request(g, enabled) ==
    /\ task[g].pc = "idle" /\ Quiet
    /\ requests < MaxRequests
    /\ requests' = requests + 1
    /\ task' = [task EXCEPT ![g] = [NoTask EXCEPT !.pc = IF enabled THEN "artwork" ELSE "reading",
                                                  !.enabled = enabled, !.title = title[g],
                                                  !.todo = Account]]
    /\ UNCHANGED <<title, file, readable, art, foreign, faults>>

FetchArtwork(g) ==
    /\ task[g].pc = "artwork"
    /\ task' = [task EXCEPT ![g].pc = "reading"]
    /\ UNCHANGED <<title, file, readable, art, foreign, requests, faults>>

(* A file that is missing or cannot be read counts as an empty one. *)
Document(a) == IF file[a] = None \/ ~readable[a] THEN <<>> ELSE file[a]

(* Files are taken one after another, in the order of their names. *)
Current(g) == CHOOSE a \in task[g].todo : TRUE

Read(g) ==
    /\ task[g].pc = "reading" /\ task[g].todo # {}
    /\ task' = [task EXCEPT ![g].pc = "changing", ![g].doc = Document(Current(g))]
    /\ UNCHANGED <<title, file, readable, art, foreign, requests, faults>>

(* The entry's id is made of the launcher and the title. *)
SameId(entry, g) == entry.owner = g /\ entry.title = task[g].title

Places(doc, g) == {i \in 1 .. Len(doc) : SameId(doc[i], g)}

(* Steam keys the list by position: the next is its length. *)
Added(doc, g) ==
    Append(doc, [key |-> Len(doc), owner |-> g, title |-> task[g].title, kept |-> FALSE,
                 number |-> 0])

(* What Steam keeps in an entry and what the user chose there stays. *)
Updated(entry, g) == [entry EXCEPT !.title = task[g].title]

Upsert(doc, g) ==
    LET at == Places(doc, g) IN
    IF at = {} THEN Added(doc, g)
    ELSE LET i == CHOOSE i \in at : \A j \in at : i <= j
         IN [doc EXCEPT ![i] = Updated(@, g)]

(* A mistake to check against: the positions after it are left as they are. *)
Closed(doc) == doc

(* The list has no hole: every entry after one would be invisible. *)
Renumbered(doc) == [i \in 1 .. Len(doc) |-> [doc[i] EXCEPT !.key = i - 1]]

Removed(doc, g) ==
    LET at == Places(doc, g)
        i == CHOOSE i \in at : \A j \in at : i <= j
    IN Renumbered(RemoveAt(doc, i))

(* The next file, or the end: the request fails only if no file was        *)
(* written.                                                                *)
Advanced(t, a) ==
    LET todo == t.todo \ {a}
    IN IF todo = {} THEN NoTask ELSE [t EXCEPT !.todo = todo, !.pc = "reading", !.doc = <<>>]

(* Art is written unless some is there, and only what can be drawn. *)
WithArt(a, g, drawn) == [art EXCEPT ![a] = IF drawn THEN @ \cup {g} ELSE @]

(* The entry's art, and the entry put in the tree. *)
Change(g) ==
    /\ task[g].pc = "changing" /\ task[g].enabled
    /\ \E drawn \in BOOLEAN : art' = WithArt(Current(g), g, drawn)
    /\ task' = [task EXCEPT ![g].pc = "writing", ![g].doc = Upsert(@, g)]
    /\ UNCHANGED <<title, file, readable, foreign, requests, faults>>

(* Its art is removed, and the entry if there is one. *)
ChangeBack(g) ==
    /\ task[g].pc = "changing" /\ ~task[g].enabled
    /\ art' = [art EXCEPT ![Current(g)] = @ \ {g}]
    /\ task' = IF Places(task[g].doc, g) = {}
               THEN [task EXCEPT ![g] = Advanced(@, Current(g))]
               ELSE [task EXCEPT ![g].pc = "writing", ![g].doc = Removed(@, g)]
    /\ UNCHANGED <<title, file, readable, foreign, requests, faults>>

(* A backup of the file, if it can be made, and the new one beside it:     *)
(* what was read may be out of date by now.                                *)
Write(g) ==
    /\ task[g].pc = "writing"
    /\ task' = [task EXCEPT ![g].pc = "renaming"]
    /\ UNCHANGED <<title, file, readable, art, foreign, requests, faults>>

(* A file that cannot be written does not stop the others. *)
WriteFails(g) ==
    /\ task[g].pc \in {"writing", "renaming"}
    /\ Fault
    /\ task' = [task EXCEPT ![g] = Advanced([@ EXCEPT !.failed = @ \cup {Current(g)}], Current(g))]
    /\ UNCHANGED <<title, file, readable, art, foreign, requests>>

(* The whole file takes the place of the old one. *)
Rename(g) ==
    /\ task[g].pc = "renaming"
    /\ file' = [file EXCEPT ![Current(g)] = task[g].doc]
    /\ readable' = [readable EXCEPT ![Current(g)] = TRUE]
    /\ task' = [task EXCEPT ![g] = Advanced([@ EXCEPT !.written = @ \cup {Current(g)}], Current(g))]
    /\ UNCHANGED <<title, art, foreign, requests, faults>>

(* The app is killed: nothing of its requests remains in memory. *)
Kill ==
    /\ Busy
    /\ Fault
    /\ task' = [g \in Game |-> NoTask]
    /\ UNCHANGED <<title, file, readable, art, foreign, requests>>
-----------------------------------------------------------------------------
(* Another launcher adds an entry, as this app does. *)
AddForeign(a) ==
    /\ Quiet /\ readable[a]
    /\ Len(foreign[a]) < MaxForeign
    /\ LET doc == Document(a)
           entry == Theirs(Len(foreign[a]), Len(doc)) IN
       /\ file' = [file EXCEPT ![a] = Append(doc, entry)]
       /\ foreign' = [foreign EXCEPT ![a] = Append(@, entry)]
    /\ UNCHANGED <<title, readable, art, task, requests, faults>>

(* Steam records play, or the user picks an icon there. *)
Touch(a, i) ==
    /\ Quiet /\ readable[a]
    /\ file[a] # None /\ i <= Len(file[a])
    /\ ~file[a][i].kept
    /\ file' = [file EXCEPT ![a][i].kept = TRUE]
    /\ UNCHANGED <<title, readable, art, task, foreign, requests, faults>>

(* The game is renamed on the server. *)
Retitle(g) ==
    /\ \E t \in Title \ {title[g]} : title' = [title EXCEPT ![g] = t]
    /\ Fault
    /\ UNCHANGED <<file, readable, art, task, foreign, requests>>

Next ==
    \/ \E g \in Game, enabled \in BOOLEAN : Request(g, enabled)
    \/ \E g \in Game :
        \/ FetchArtwork(g) \/ Read(g) \/ Change(g) \/ ChangeBack(g) \/ Write(g)
        \/ WriteFails(g) \/ Rename(g) \/ Retitle(g)
    \/ Kill
    \/ \E a \in Account : AddForeign(a) \/ \E i \in 1 .. MaxForeign + Cardinality(Game) : Touch(a, i)

Spec == Init /\ [][Next]_vars
-----------------------------------------------------------------------------
Unnumbered(doc) == [i \in 1 .. Len(doc) |-> [doc[i] EXCEPT !.key = 0]]

(* Whatever this app adds, removes or fails to write, and wherever it is   *)
(* killed, every file holds the other launchers' entries as they put them  *)
(* there, in their order and without a hole in the positions Steam reads.  *)
OthersKept ==
    \A a \in Account : file[a] # None =>
        /\ Unnumbered(SelectSeq(file[a], LAMBDA e : e.owner = Other)) = Unnumbered(foreign[a])
        /\ \A i \in 1 .. Len(file[a]) : file[a][i].key = i - 1

(* A title of a game has one entry at most, and what Steam or the user     *)
(* changed in it is still there when the game is added once more.          *)
EntryKept ==
    \A a \in Account, g \in Game, t \in Title :
        LET Of(doc) == IF doc = None THEN {} ELSE {i \in 1 .. Len(doc) : doc[i].owner = g /\ doc[i].title = t}
        IN /\ Cardinality(Of(file'[a])) <= 1
           /\ \A i \in Of(file[a]), j \in Of(file'[a]) : file[a][i].kept => file'[a][j].kept
=============================================================================
