--------------------------- MODULE LibraryRecords ---------------------------
(***************************************************************************)
(* library.json, the app's record of every game: LibraryState in           *)
(* src-tauri/src/library_state.rs over the atomic writes of                *)
(* src-tauri/src/persist.rs.  Many tasks change records in memory and then *)
(* save the whole map; the app may end at any point and start again.       *)
(*                                                                         *)
(* A game's record is the number of changes made to it, so `<=` on records *)
(* is "at least as recent", and a map of records is one number per game.   *)
(* Tasks change records once startup has loaded them.                      *)
(***************************************************************************)
EXTENDS Integers

CONSTANTS
    Task,         \* the tasks of the app that change records
    Nobody,       \* no task
    Game,
    MaxChanges    \* bound: changes made to one game's record

ASSUME LibraryRecordsAssumption ==
    /\ Nobody \notin Task
    /\ MaxChanges \in Nat

VARIABLES
    loading,   \* how far startup is with the records
    read,      \* what startup read from the file
    records,   \* the records in memory
    disk,      \* the records in library.json
    at,        \* where each task is in its change
    snap,      \* the copy of the records each task writes
    writer,    \* the task holding the writer lock
    mine,      \* ghost: the records right after each task's change
    acked,     \* ghost: the changes whose save succeeded, since a misread if any
    apart      \* ghost: whether the last save failed or the file was misread

vars == <<loading, read, records, disk, at, snap, writer, mine, acked, apart>>

Records == [Game -> Nat]

(* A mistake to check against: records only for the games there are some   *)
(* of.                                                                     *)
EmptyRecords == [g \in {} |-> 0]

NoRecords == [g \in Game |-> 0]

a \preceq b == \A g \in Game : a[g] <= b[g]

Later(a, b) == [g \in Game |-> IF a[g] <= b[g] THEN b[g] ELSE a[g]]

TypeOK ==
    /\ loading \in {"no", "read", "ready", "done"}
    /\ read \in Records
    /\ records \in Records
    /\ disk \in Records
    /\ at \in [Task -> {"idle", "changed", "writing", "written"}]
    /\ snap \in [Task -> Records]
    /\ writer \in Task \cup {Nobody}
    /\ mine \in [Task -> Records]
    /\ acked \in Records
    /\ apart \in BOOLEAN

Init ==
    /\ loading = "no"
    /\ read = NoRecords /\ records = NoRecords /\ disk = NoRecords
    /\ at = [t \in Task |-> "idle"]
    /\ snap = [t \in Task |-> NoRecords]
    /\ writer = Nobody
    /\ mine = [t \in Task |-> NoRecords]
    /\ acked = NoRecords
    /\ apart = FALSE
-----------------------------------------------------------------------------
(* load: the file, or nothing when it is missing or cannot be read, which  *)
(* only a warning in the log tells from a new installation.                *)
Read ==
    /\ loading = "no"
    /\ loading' = "read"
    /\ \/ read' = disk /\ apart' = FALSE /\ UNCHANGED acked
       \/ read' = NoRecords /\ apart' = TRUE /\ acked' = NoRecords
    /\ UNCHANGED <<records, disk, at, snap, writer, mine>>

(* From here persist knows where the file is ... *)
SetDir ==
    /\ loading = "read"
    /\ loading' = "ready"
    /\ UNCHANGED <<read, records, disk, at, snap, writer, mine, acked, apart>>

Bump(rs, games) == [g \in Game |-> IF g \in games THEN rs[g] + 1 ELSE rs[g]]

MayChange(rs, games) == \A g \in games : rs[g] < MaxChanges

(* ... and from here on the records are the ones read, but for the partial *)
(* downloads whose files say otherwise, which are saved at once.           *)
Adopt(t) ==
    /\ loading = "ready"
    /\ loading' = "done"
    /\ \E moved \in SUBSET Game :
           /\ MayChange(read, moved)
           /\ records' = Bump(read, moved)
           /\ mine' = [mine EXCEPT ![t] = IF moved = {} THEN NoRecords ELSE records']
           /\ at' = [at EXCEPT ![t] = IF moved = {} THEN "idle" ELSE "changed"]
    /\ read' = NoRecords
    /\ UNCHANGED <<disk, snap, writer, acked, apart>>

(* update_record, forget_synced_save_ids and rescan: the records change in *)
(* memory, and persist follows.                                            *)
Change(t) ==
    /\ loading = "done"
    /\ at[t] = "idle"
    /\ \E games \in SUBSET Game \ {{}} :
           /\ MayChange(records, games)
           /\ records' = Bump(records, games)
    /\ mine' = [mine EXCEPT ![t] = records']
    /\ at' = [at EXCEPT ![t] = "changed"]
    /\ UNCHANGED <<loading, read, disk, snap, writer, acked, apart>>

(* A mistake to check against: copying the records before the lock. *)
SnapshotOfMine(t) ==
    /\ at[t] = "changed"
    /\ writer = Nobody
    /\ writer' = t
    /\ snap' = [snap EXCEPT ![t] = mine[t]]
    /\ at' = [at EXCEPT ![t] = "writing"]
    /\ UNCHANGED <<loading, read, records, disk, mine, acked, apart>>

(* persist: the lock, then the copy. *)
Snapshot(t) ==
    /\ at[t] = "changed"
    /\ writer = Nobody
    /\ writer' = t
    /\ snap' = [snap EXCEPT ![t] = records]
    /\ at' = [at EXCEPT ![t] = "writing"]
    /\ UNCHANGED <<loading, read, records, disk, mine, acked, apart>>

(* A mistake to check against: writing library.json in place. *)
WriteInPlace(t) ==
    /\ at[t] = "writing"
    /\ disk' = NoRecords
    /\ at' = [at EXCEPT ![t] = "written"]
    /\ UNCHANGED <<loading, read, records, snap, writer, mine, acked, apart>>

(* write_atomic: all of it into a file of its own, flushed ... *)
WriteTemp(t) ==
    /\ at[t] = "writing"
    /\ at' = [at EXCEPT ![t] = "written"]
    /\ UNCHANGED <<loading, read, records, disk, snap, writer, mine, acked, apart>>

(* A mistake to check against: returning with the lock held. *)
FinishHolding(t) ==
    /\ at' = [at EXCEPT ![t] = "idle"]
    /\ snap' = [snap EXCEPT ![t] = NoRecords]
    /\ mine' = [mine EXCEPT ![t] = NoRecords]
    /\ UNCHANGED <<loading, read, records, writer>>

(* The task is done with its change and lets go of the lock. *)
Finish(t) ==
    /\ writer' = Nobody
    /\ at' = [at EXCEPT ![t] = "idle"]
    /\ snap' = [snap EXCEPT ![t] = NoRecords]
    /\ mine' = [mine EXCEPT ![t] = NoRecords]
    /\ UNCHANGED <<loading, read, records>>

(* ... which then takes the place of library.json. *)
Rename(t) ==
    /\ at[t] = "written"
    /\ disk' = snap[t]
    /\ acked' = Later(acked, mine[t])
    /\ apart' = FALSE
    /\ Finish(t)

(* A full disk, say: the temporary file goes, the change stays in memory.  *)
FailWrite(t) ==
    /\ at[t] \in {"writing", "written"}
    /\ apart' = TRUE
    /\ UNCHANGED <<disk, acked>>
    /\ Finish(t)

(* The app ends: what is left is the file. *)
Crash ==
    /\ loading' = "no"
    /\ records' = NoRecords
    /\ at' = [t \in Task |-> "idle"]
    /\ writer' = Nobody
    /\ read' = NoRecords
    /\ snap' = [t \in Task |-> NoRecords]
    /\ mine' = [t \in Task |-> NoRecords]
    /\ UNCHANGED <<disk, acked, apart>>
-----------------------------------------------------------------------------
Next ==
    \/ Read \/ SetDir \/ Crash
    \/ \E t \in Task :
           \/ Adopt(t) \/ Change(t) \/ Snapshot(t) \/ WriteTemp(t) \/ Rename(t)
           \/ FailWrite(t)

Spec == Init /\ [][Next]_vars

(* The writer lock is fair to those waiting, and a write ends.             *)
Fairness ==
    \A t \in Task : SF_vars(Snapshot(t)) /\ WF_vars(WriteTemp(t) \/ Rename(t))

FairSpec == Spec /\ Fairness
-----------------------------------------------------------------------------
(* A change whose save succeeded is in the file from then on, whatever     *)
(* other tasks write and whenever the app ends, unless it starts one day   *)
(* without being able to read the file: what was in it is lost then.       *)
Durable == acked \preceq disk

(* "the last write always carries every change": with no task left to save *)
(* and neither a failed save nor a misread file, the file holds the        *)
(* records in memory.                                                      *)
LastWriteCarriesAll ==
    (loading = "done" /\ (\A t \in Task : at[t] = "idle") /\ ~apart)
        => disk = records

(* A task that changed a record gets to save it, unless the app ends.      *)
Saved == \A t \in Task : at[t] = "changed" ~> at[t] = "idle"
=============================================================================
