---------------------------- MODULE SaveMigration ---------------------------
(***************************************************************************)
(* Copying one game's saves into the store in use                          *)
(* (crates/gameyfin-core/src/save_migration.rs, migrate_saves in           *)
(* src-tauri/src/saves.rs), over the calls of crates/gameyfin-core/src/    *)
(* save_store.rs and crates/gameyfin-api/src/saves.rs.  Games are copied   *)
(* one after the other and share nothing but the count, so one is kept.    *)
(* A call may fail, an upload may be stored without an answer, and the app *)
(* may be killed; the user may then migrate again.                         *)
(***************************************************************************)
EXTENDS Integers, Sequences, SequencesExt, FiniteSets

CONSTANTS
    Sources,    \* what the source may list, newest first, never changed
    Limits,     \* how many unlocked versions the destination keeps
    MaxRuns,    \* bound: migrations
    MaxFaults   \* bound: calls that fail, and kills

VARIABLES
    source,     \* the versions of the source: hash and lock, newest first
    limit,      \* one of Limits, for good
    held,       \* the versions of the destination, newest first
    pc,         \* where the migration is
    all,        \* it copies every version
    chosen,     \* the versions it has still to see to
    present,    \* the hashes the destination held when it began
    problems,   \* calls it noted as failed
    killed,     \* a migration was killed
    modes,      \* the choices of all made so far
    pruned,     \* retention has deleted something here
    runs, faults

run == <<pc, all, chosen, present, problems>>
history == <<killed, modes, pruned, runs, faults>>
vars == <<source, limit, held, run, history>>

Hashes(versions) == {versions[i].hash : i \in DOMAIN versions}

(* FolderStore::prune, WebDavStore::prune: a locked version takes no slot. *)
Kept(versions) ==
    LET Before(i) == {j \in 1 .. i : ~versions[j].locked}
        stays == {i \in DOMAIN versions : versions[i].locked \/ Cardinality(Before(i)) <= limit}
        at == SetToSortSeq(stays, <)
    IN  [k \in DOMAIN at |-> versions[at[k]]]

(* The newest at the destination already holds these bytes. *)
SameAsNewest(version) == held # <<>> /\ held[1].hash = version.hash

Init ==
    /\ source \in Sources
    /\ limit \in Limits
    /\ held = <<>>
    /\ pc = "idle" /\ all = FALSE /\ chosen = <<>> /\ present = {} /\ problems = 0
    /\ killed = FALSE /\ modes = {} /\ pruned = FALSE /\ runs = 0 /\ faults = 0

(* The two places differ, both can be opened, and the source names its games. *)
Begin ==
    /\ pc \in {"idle", "done"} /\ runs < MaxRuns
    /\ pc' = "list" /\ problems' = 0 /\ runs' = runs + 1
    /\ all' \in BOOLEAN /\ modes' = modes \cup {all'}
    /\ UNCHANGED <<source, limit, held, chosen, present, killed, pruned, faults>>

(* A mistake to check against: copied in the order the source lists them. *)
ChooseNewestFirst(versions) ==
    IF all THEN versions ELSE SubSeq(versions, 1, 1)

(* Oldest first, so that the destination ends up in the order of the source. *)
Choose(versions) ==
    IF all THEN Reverse(versions) ELSE SubSeq(versions, 1, 1)

List ==
    /\ pc = "list"
    /\ chosen' = Choose(source)
    /\ present' = Hashes(held)
    /\ pc' = "next"
    /\ UNCHANGED <<source, limit, held, all, problems, history>>

Fails ==
    /\ faults < MaxFaults
    /\ faults' = faults + 1
    /\ problems' = problems + 1

(* A game that cannot be listed, at either end, is left out. *)
ListFails ==
    /\ pc = "list" /\ Fails
    /\ pc' = "done"
    /\ UNCHANGED <<source, limit, held, all, chosen, present, killed, modes, pruned, runs>>

Skipped ==
    /\ pc = "next" /\ chosen # <<>>
    /\ chosen[1].hash \in present
    /\ chosen' = Tail(chosen)
    /\ UNCHANGED <<source, limit, held, pc, all, present, problems, history>>

Fetch ==
    /\ pc = "next" /\ chosen # <<>>
    /\ chosen[1].hash \notin present
    /\ pc' = "upload"
    /\ UNCHANGED <<source, limit, held, all, chosen, present, problems, history>>

FetchFails ==
    /\ pc = "next" /\ chosen # <<>>
    /\ chosen[1].hash \notin present
    /\ Fails
    /\ chosen' = Tail(chosen)
    /\ UNCHANGED <<source, limit, held, pc, all, present, killed, modes, pruned, runs>>

(* Stored as the newest, unlocked, and retention runs before the answer. *)
Stores ==
    LET longer == <<[chosen[1] EXCEPT !.locked = FALSE]>> \o held
    IN  /\ held' = Kept(longer)
        /\ pruned' = (pruned \/ Len(held') < Len(longer))

Upload ==
    /\ pc = "upload" /\ ~SameAsNewest(chosen[1])
    /\ Stores
    /\ \/ chosen[1].locked /\ pc' = "lock" /\ UNCHANGED chosen
       \/ ~chosen[1].locked /\ pc' = "next" /\ chosen' = Tail(chosen)
    /\ UNCHANGED <<source, limit, all, present, problems, killed, modes, runs, faults>>

(* The same archive that is the newest already: nothing is stored, and the *)
(* version there is not locked either.                                     *)
UploadUnchanged ==
    /\ pc = "upload" /\ SameAsNewest(chosen[1])
    /\ pc' = "next" /\ chosen' = Tail(chosen)
    /\ UNCHANGED <<source, limit, held, all, present, problems, history>>

(* The call fails; for want of a readable answer or because retention      *)
(* failed, the version may be there all the same.                          *)
UploadFails ==
    /\ pc = "upload" /\ Fails
    /\ pc' = "next" /\ chosen' = Tail(chosen)
    /\ \/ UNCHANGED <<held, pruned>>
       \/ ~SameAsNewest(chosen[1]) /\ Stores
    /\ UNCHANGED <<source, limit, all, present, killed, modes, runs>>

(* A lock that fails is not noted. *)
Lock ==
    /\ pc = "lock"
    /\ pc' = "next" /\ chosen' = Tail(chosen)
    /\ \/ held' = [held EXCEPT ![1].locked = TRUE] /\ UNCHANGED faults
       \/ faults < MaxFaults /\ faults' = faults + 1 /\ UNCHANGED held
    /\ UNCHANGED <<source, limit, all, present, problems, killed, modes, pruned, runs>>

Finish ==
    /\ pc = "next" /\ chosen = <<>>
    /\ pc' = "done"
    /\ UNCHANGED <<source, limit, held, all, chosen, present, problems, history>>

Kill ==
    /\ pc \notin {"idle", "done"} /\ faults < MaxFaults
    /\ faults' = faults + 1 /\ killed' = TRUE
    /\ pc' = "idle" /\ chosen' = <<>>
    /\ UNCHANGED <<source, limit, held, all, present, problems, modes, pruned, runs>>

Next ==
    \/ Begin \/ List \/ ListFails \/ Skipped \/ Fetch \/ FetchFails
    \/ Upload \/ UploadUnchanged \/ UploadFails \/ Lock \/ Finish \/ Kill

Spec == Init /\ [][Next]_vars
-----------------------------------------------------------------------------

TypeOK ==
    /\ source \in Sources /\ limit \in Limits
    /\ \A i \in DOMAIN held : held[i].hash \in Hashes(source) /\ held[i].locked \in BOOLEAN
    /\ pc \in {"idle", "list", "next", "upload", "lock", "done"}
    /\ all \in BOOLEAN /\ present \subseteq Hashes(source)
    /\ problems \in 0 .. MaxFaults /\ faults \in 0 .. MaxFaults /\ runs \in 0 .. MaxRuns

HashesOf(versions) == [i \in DOMAIN versions |-> versions[i].hash]

(* What is left of the source's versions, in the source's order. *)
InSourceOrder(versions) ==
    \E kept \in SUBSET DOMAIN source :
        versions = [i \in 1 .. Cardinality(kept) |-> source[SetToSortSeq(kept, <)[i]]]

(***************************************************************************)
(* A migration of everything into an empty store, met by no failure,       *)
(* leaves the source's versions in the source's order, the newest as the   *)
(* newest, every locked one there and locked, and no room unused.  One     *)
(* that was killed and is repeated completes that order, as long as        *)
(* retention deleted nothing and no two versions hold the same bytes.      *)
(***************************************************************************)
ArrivesAsItWas ==
    pc = "done" /\ all /\ faults = 0 /\ runs = 1 =>
        /\ InSourceOrder(held)
        /\ held[1] = source[1]
        /\ \A i \in DOMAIN source : source[i].locked => source[i] \in Range(held)
        /\ pruned \/ held = source

ResumesInOrder ==
    pc = "done" /\ modes = {TRUE} /\ killed /\ ~pruned /\ faults = 1
            /\ IsInjective(HashesOf(source))
        => HashesOf(held) = HashesOf(source)

CopiesKeepOrder == ArrivesAsItWas /\ ResumesInOrder

(***************************************************************************)
(* After a migration that reports no problem the destination's newest      *)
(* version is the source's newest, so that no PC is handed an old save:    *)
(* "a failed run can be repeated", as the comment on migrate_saves has it. *)
(***************************************************************************)
NewestStaysNewest ==
    pc = "done" /\ problems = 0 /\ faults = 0 => held # <<>> /\ held[1].hash = source[1].hash
=============================================================================
