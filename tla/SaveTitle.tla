------------------------------ MODULE SaveTitle ------------------------------
(***************************************************************************)
(* Under which entry of Ludusavi's database a game's saves are kept        *)
(* (resolve_saves and identify in src-tauri/src/saves.rs, resolve.rs in    *)
(* gameyfin-saves): searches that take turns at the helper, the database   *)
(* that is renewed under them, the user who picks, and the entry that      *)
(* another PC's saves name.  One game; what is remembered of it is a       *)
(* cache, valid for the database it was searched in.                       *)
(***************************************************************************)
EXTENDS Naturals, Sequences, FiniteSets, Functions

CONSTANTS
    None,
    Task,       \* refreshes and backups that may run at once
    Entry,      \* entries of the database that may be meant
    OwnTitle,   \* the one named like the game
    Editions,   \* what a database may say of the game, see IsEdition
    Steady,     \* whether no check for a newer one falls between two lookups
    MaxEditions, MaxAnswers

IsEdition(d) ==
    d \in [{"steam-id", "exact", "normalized", "fuzzy"} -> SUBSET Entry]

SaveTitleAssumption ==
    /\ None \notin Entry \cup Task /\ OwnTitle \in Entry /\ IsFiniteSet(Entry)
    /\ \A d \in Editions : IsEdition(d)
    /\ Steady \in BOOLEAN /\ MaxEditions \in Nat /\ MaxAnswers \in Nat

VARIABLES
    published, \* the editions there are
    manifest,  \* the number of the one on disk, or 0
    record,    \* what is remembered of the game
    lock,      \* whose turn at the helper it is
    task,      \* where each of them is, and what it found
    stored,    \* the entry that the newest save naming one was made under
    picked,    \* history: the user's answer
    told,      \* history: entries a user named, here or on another PC
    answers    \* how often a user did

vars == <<published, manifest, record, lock, task, stored, picked, told, answers>>

NeverLookedUp ==
    [title |-> None, attempted |-> FALSE, candidates |-> {}, stamp |-> 0, paths |-> FALSE]

Idle == [at |-> "idle", left |-> <<>>, began |-> 0, title |-> None, candidates |-> {}]
-----------------------------------------------------------------------------
(* In this order, until one is certain or several are likely.              *)
Lookups == <<"steam-id", "exact", "normalized", "fuzzy">>

(* A mistake to check against: a single likely entry is taken for certain. *)
CertainWhenSingle(lookup, found) == Cardinality(found) = 1

Certain(lookup, found) == lookup # "fuzzy" /\ Cardinality(found) = 1

Final(lookup, found) ==
    \/ Certain(lookup, found) \/ lookup = "fuzzy"
    \/ lookup = "normalized" /\ found # {}

TheOnly(found) == CHOOSE e \in found : TRUE

(* What a search in edition d of the database comes to.                    *)
Outcome(d) ==
    LET n == CHOOSE i \in DOMAIN Lookups :
               /\ Final(Lookups[i], d[Lookups[i]])
               /\ \A j \in 1 .. i - 1 : ~Final(Lookups[j], d[Lookups[j]])
        found == d[Lookups[n]]
    IN  IF Certain(Lookups[n], found)
        THEN [title |-> TheOnly(found), candidates |-> {}]
        ELSE [title |-> None, candidates |-> found]

(* A mistake to check against: a game is searched for once.                *)
SearchedOnce(r) == r.attempted

(* What is remembered answers a refresh only for the database at hand.     *)
Remembered(r) == r.attempted /\ r.stamp # 0 /\ r.stamp = manifest

Init ==
    /\ published \in {<<d>> : d \in Editions} /\ manifest = 0
    /\ record = NeverLookedUp
    /\ lock = None /\ task = [t \in Task |-> Idle]
    /\ stored = None /\ picked = None /\ told = {} /\ answers = 0
-----------------------------------------------------------------------------
Goto(t, place) == task' = [task EXCEPT ![t].at = place]

(* Whoever needs the entry reads the record.  An entry, or folders set by  *)
(* hand, which go by the game's own title, are an answer, and a backup     *)
(* goes on to scan and upload under it.                                    *)
BackUp(t) ==
    /\ task[t].at = "idle"
    /\ record.title # None \/ record.paths
    /\ LET title == IF record.title # None THEN record.title ELSE OwnTitle
       IN  /\ task' = [task EXCEPT ![t] = [Idle EXCEPT !.at = "uploading", !.title = title]]
           /\ told' = IF record.title = None THEN told \cup {title} ELSE told
    /\ UNCHANGED <<published, manifest, record, lock, stored, picked, answers>>

(* Otherwise the store is asked at once, or the helper is waited for.      *)
Refresh(t) ==
    /\ task[t].at = "idle"
    /\ record.title = None /\ ~record.paths
    /\ Goto(t, IF Remembered(record) THEN "asking" ELSE "waiting")
    /\ UNCHANGED <<published, manifest, record, lock, stored, picked, told, answers>>

(* A mistake to check against: the helper runs for two at once.            *)
BargeIn(t) ==
    /\ task[t].at = "waiting"
    /\ lock' = t
    /\ task' = [task EXCEPT ![t] =
                   [Idle EXCEPT !.at = "searching", !.left = Lookups, !.began = manifest]]
    /\ UNCHANGED <<published, manifest, record, stored, picked, told, answers>>

TakeTurn(t) ==
    /\ task[t].at = "waiting" /\ lock = None
    /\ lock' = t
    /\ task' = [task EXCEPT ![t] =
                   [Idle EXCEPT !.at = "searching", !.left = Lookups, !.began = manifest]]
    /\ UNCHANGED <<published, manifest, record, stored, picked, told, answers>>

(* Any run of the helper may first renew the database, if it was not       *)
(* looked for within a day, and goes on with the old one if it cannot.     *)
Renewals(t) ==
    IF manifest # task[t].began \/ (Steady /\ task[t].left # Lookups) THEN {manifest}
    ELSE {manifest, Len(published)} \ {0}

(* What task w has of the entries a lookup found.                          *)
Searched(w, lookup, found) ==
    IF Certain(lookup, found) THEN [Idle EXCEPT !.at = "found", !.title = TheOnly(found)]
    ELSE IF Final(lookup, found) THEN [Idle EXCEPT !.at = "found", !.candidates = found]
    ELSE [w EXCEPT !.left = Tail(@)]

Lookup(t) ==
    /\ task[t].at = "searching"
    /\ manifest' \in Renewals(t)
    /\ LET lookup == Head(task[t].left)
       IN  task' = [task EXCEPT ![t] =
                      Searched(task[t], lookup, published[manifest'][lookup])]
    /\ UNCHANGED <<published, record, lock, stored, picked, told, answers>>

(* What the entry was wanted for goes on with it, or is over. *)
GoesOn(title) == {Idle, [Idle EXCEPT !.at = "uploading", !.title = title]}

(* The answer replaces what was remembered, with the edition on disk now.  *)
Remember(t) ==
    /\ task[t].at = "found"
    /\ record' = [record EXCEPT !.title = task[t].title, !.candidates = task[t].candidates,
                                !.attempted = TRUE, !.stamp = manifest]
    /\ lock' = None
    /\ \E next \in IF task[t].title # None THEN GoesOn(task[t].title)
                   ELSE {[Idle EXCEPT !.at = "asking"]} :
           task' = [task EXCEPT ![t] = next]
    /\ UNCHANGED <<published, manifest, stored, picked, told, answers>>

(* The entry travels with the saves.  The store may not answer, and no     *)
(* save may name one.                                                     *)
AskStore(t) ==
    /\ task[t].at = "asking"
    /\ \/ stored # None
          /\ task' = [task EXCEPT ![t] = [Idle EXCEPT !.at = "adopting", !.title = stored]]
       \/ task' = [task EXCEPT ![t] = Idle]
    /\ UNCHANGED <<published, manifest, record, lock, stored, picked, told, answers>>

Adopt(t) ==
    /\ task[t].at = "adopting"
    /\ record' = [record EXCEPT !.title = task[t].title, !.candidates = {}]
    /\ \E next \in GoesOn(task[t].title) : task' = [task EXCEPT ![t] = next]
    /\ UNCHANGED <<published, manifest, lock, stored, picked, told, answers>>

(* The save is uploaded under the entry that was in force when its backup  *)
(* began.                                                                  *)
Upload(t) ==
    /\ task[t].at = "uploading"
    /\ stored' = task[t].title
    /\ task' = [task EXCEPT ![t] = Idle]
    /\ UNCHANGED <<published, manifest, record, lock, picked, told, answers>>

(* The helper is missing or fails, and nothing is remembered; or there is  *)
(* nothing to upload, or the upload fails.                                 *)
Fail(t) ==
    /\ task[t].at \in {"waiting", "searching", "uploading"}
    /\ lock' = IF lock = t THEN None ELSE lock
    /\ task' = [task EXCEPT ![t] = Idle]
    /\ UNCHANGED <<published, manifest, record, stored, picked, told, answers>>
-----------------------------------------------------------------------------
Publish(d) ==
    /\ Len(published) < MaxEditions
    /\ published' = Append(published, d)
    /\ UNCHANGED <<manifest, record, lock, task, stored, picked, told, answers>>

(* A mistake to check against: the database is renewed beside a search.    *)
UpdateBeside ==
    /\ manifest' = Len(published)
    /\ UNCHANGED <<published, record, lock, task, stored, picked, told, answers>>

(* The user renews the database, or another run of the helper does.        *)
Update ==
    /\ lock = None
    /\ manifest' = Len(published)
    /\ UNCHANGED <<published, record, lock, task, stored, picked, told, answers>>

(* The user picks the entry, or asks for another look.                     *)
SetSaveTitle(e) ==
    /\ answers < MaxAnswers /\ answers' = answers + 1
    /\ record' = [record EXCEPT !.title = e, !.attempted = e # None, !.candidates = {}]
    /\ picked' = e /\ told' = told \cup ({e} \ {None})
    /\ UNCHANGED <<published, manifest, lock, task, stored>>

(* Naming a folder answers the question, and taking it back asks again.    *)
SetFolders(any) ==
    /\ answers < MaxAnswers /\ answers' = answers + 1
    /\ record' = IF any
                 THEN [record EXCEPT !.paths = TRUE, !.attempted = FALSE, !.candidates = {}]
                 ELSE [record EXCEPT !.paths = FALSE]
    /\ UNCHANGED <<published, manifest, lock, task, stored, picked, told>>

(* Another PC's user picked an entry and saved under it.                   *)
StoredElsewhere(e) ==
    /\ answers < MaxAnswers /\ answers' = answers + 1
    /\ stored' = e /\ told' = told \cup {e}
    /\ UNCHANGED <<published, manifest, record, lock, task, picked>>

(* The versions that name an entry are deleted or pruned.                  *)
VersionsDeleted ==
    /\ stored' = None
    /\ UNCHANGED <<published, manifest, record, lock, task, picked, told, answers>>

(* The app ends; the record is on disk.                                    *)
Crash ==
    /\ lock' = None /\ task' = [t \in Task |-> Idle]
    /\ UNCHANGED <<published, manifest, record, stored, picked, told, answers>>

Next ==
    \/ \E t \in Task :
          \/ Refresh(t) \/ TakeTurn(t) \/ Lookup(t) \/ Remember(t) \/ AskStore(t)
          \/ Adopt(t) \/ BackUp(t) \/ Upload(t) \/ Fail(t)
    \/ \E d \in Editions : Publish(d)
    \/ Update
    \/ \E e \in Entry \cup {None} : SetSaveTitle(e)
    \/ \E e \in Entry : StoredElsewhere(e)
    \/ VersionsDeleted
    \/ \E any \in BOOLEAN : SetFolders(any)
    \/ Crash

Spec == Init /\ [][Next]_vars
-----------------------------------------------------------------------------
(* Types, and that one search at a time has the helper: two on one         *)
(* configuration block each other.                                         *)
TypeOK ==
    /\ published \in Seq(Editions) /\ manifest \in 0 .. Len(published)
    /\ record \in [title : Entry \cup {None}, attempted : BOOLEAN,
                   candidates : SUBSET Entry, stamp : 0 .. Len(published), paths : BOOLEAN]
    /\ \A t \in Task : task[t].at \in {"idle", "waiting", "searching", "found", "asking",
                                  "adopting", "uploading"}
    /\ {t \in Task : task[t].at \in {"searching", "found"}} = {lock} \ {None}
    /\ stored \in Entry \cup {None} /\ picked \in Entry \cup {None}
    /\ told \subseteq Entry /\ answers \in 0 .. MaxAnswers

(* The app never guesses: the entry a game's saves are kept under is one   *)
(* that a user named, here or on another PC, or one that the database gave *)
(* alone, and not just for a title that is alike.                          *)
NeverGuessed ==
    record.title \notin {None} \cup told =>
       \E d \in Range(published), lookup \in {"steam-id", "exact", "normalized"} :
          d[lookup] = {record.title}

(* A game that was not recognised is looked up again after each update:    *)
(* what is remembered in place of a search is what a search in the         *)
(* database on disk would come to.                                         *)
SearchedAgain ==
    record.title = None /\ ~record.paths /\ Remembered(record) =>
       Outcome(published[manifest]) = [title |-> None, candidates |-> record.candidates]

(* The title a user picked stays until the user picks another.             *)
PickKept == picked # None => record.title = picked
=============================================================================
