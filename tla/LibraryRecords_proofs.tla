----------------------- MODULE LibraryRecords_proofs -----------------------
(***************************************************************************)
(* What LibraryRecords guarantees for any number of games and tasks.  What *)
(* was saved is in the file, in the copy the lock holder writes and in the *)
(* records in memory, each as recent as the last; and what is not in the   *)
(* file yet is in the hands of a task that will still write.               *)
(***************************************************************************)
EXTENDS LibraryRecords, TLAPS

Busy(t) == at[t] \in {"writing", "written"}

(* The task writing is the one that holds the lock. *)
LockHeld == \A t \in Task : Busy(t) <=> writer = t

(* No task saves before startup is done. *)
QuietStart == loading # "done" => \A t \in Task : at[t] = "idle"

(* Startup adopts what is in the file, unless it could not read it. *)
ReadFromDisk ==
    loading \in {"read", "ready"} => acked \preceq read /\ (~apart => read = disk)

(* What was saved is in the file, in memory and in the copy that will take *)
(* the file's place, and so is a change from the moment it gets there.     *)
Ordered ==
    /\ acked \preceq disk
    /\ loading = "done" => acked \preceq records
    /\ \A t \in Task : at[t] = "changed" => mine[t] \preceq records
    /\ \A t \in Task : Busy(t) => /\ mine[t] \preceq snap[t]
                                  /\ acked \preceq snap[t]
                                  /\ snap[t] \preceq records

(* With no task waiting to save, the copy being written is all there is,   *)
(* and without one the file is, unless the last save failed or the file    *)
(* was misread.                                                            *)
NothingLeftOut ==
    (loading = "done" /\ \A t \in Task : at[t] # "changed") =>
        /\ \A t \in Task : Busy(t) => snap[t] = records
        /\ (writer = Nobody /\ ~apart) => disk = records

Inv ==
    /\ TypeOK
    /\ LockHeld
    /\ QuietStart
    /\ ReadFromDisk
    /\ Ordered
    /\ NothingLeftOut
-----------------------------------------------------------------------------
LEMMA BumpLater ==
    ASSUME NEW rs \in Records, NEW games \in SUBSET Game
    PROVE  Bump(rs, games) \in Records /\ rs \preceq Bump(rs, games)
BY DEF Bump, Records, \preceq

LEMMA BumpNone ==
    ASSUME NEW rs \in Records
    PROVE  Bump(rs, {}) = rs
BY DEF Bump, Records

LEMMA NoRecordsLeast ==
    /\ NoRecords \in Records
    /\ \A rs \in Records : NoRecords \preceq rs
BY DEF NoRecords, Records, \preceq

LEMMA PrecReflexive ==
    ASSUME NEW a \in Records
    PROVE  a \preceq a
BY DEF Records, \preceq

LEMMA PrecTransitive ==
    ASSUME NEW a \in Records, NEW b \in Records, NEW c \in Records,
           a \preceq b, b \preceq c
    PROVE  a \preceq c
BY DEF Records, \preceq

LEMMA LaterLeast ==
    ASSUME NEW a \in Records, NEW b \in Records, NEW c \in Records,
           a \preceq c, b \preceq c
    PROVE  Later(a, b) \in Records /\ Later(a, b) \preceq c
BY DEF Records, Later, \preceq
-----------------------------------------------------------------------------
LEMMA TypeInit == Init => TypeOK
BY LibraryRecordsAssumption, NoRecordsLeast DEF Init, TypeOK

(* Every step keeps the types. *)
LEMMA TypeNext == TypeOK /\ [Next]_vars => TypeOK'
<1> SUFFICES ASSUME TypeOK, [Next]_vars PROVE TypeOK'
  OBVIOUS
<1> USE NoRecordsLeast DEF TypeOK
<1>1. CASE Read
  BY <1>1 DEF Read
<1>2. CASE SetDir
  BY <1>2 DEF SetDir
<1>3. CASE Crash
  BY <1>3, LibraryRecordsAssumption DEF Crash
<1>4. ASSUME NEW t \in Task, Adopt(t) PROVE TypeOK'
  <2> PICK moved \in SUBSET Game :
           /\ records' = Bump(read, moved)
           /\ mine' = [mine EXCEPT ![t] = IF moved = {} THEN NoRecords ELSE records']
           /\ at' = [at EXCEPT ![t] = IF moved = {} THEN "idle" ELSE "changed"]
    BY <1>4 DEF Adopt
  <2>1. records' \in Records
    BY BumpLater
  <2> QED BY <1>4, <2>1 DEF Adopt
<1>5. ASSUME NEW t \in Task, Change(t) PROVE TypeOK'
  <2>1. records' \in Records
    BY <1>5, BumpLater DEF Change
  <2> QED BY <1>5, <2>1 DEF Change
<1>6. ASSUME NEW t \in Task, Snapshot(t) PROVE TypeOK'
  BY <1>6 DEF Snapshot
<1>7. ASSUME NEW t \in Task, WriteTemp(t) PROVE TypeOK'
  BY <1>7 DEF WriteTemp
<1>8. ASSUME NEW t \in Task, Rename(t) PROVE TypeOK'
  <2>1. acked' \in Records
    BY <1>8 DEF Rename, Later, Records
  <2> QED BY <1>8, <2>1, LibraryRecordsAssumption DEF Rename, Finish
<1>9. ASSUME NEW t \in Task, FailWrite(t) PROVE TypeOK'
  BY <1>9, LibraryRecordsAssumption DEF FailWrite, Finish
<1>10. CASE UNCHANGED vars
  BY <1>10 DEF vars
<1> QED BY <1>1, <1>2, <1>3, <1>4, <1>5, <1>6, <1>7, <1>8, <1>9, <1>10 DEF Next

(* Whatever startup reads and however saves fail, the records in memory    *)
(* and in the file are maps of records, and every task is at one step of   *)
(* its save.                                                               *)
THEOREM TypeCorrect == Spec => []TypeOK
<1>1. Init => TypeOK
  BY TypeInit
<1>2. TypeOK /\ [Next]_vars => TypeOK'
  BY TypeNext
<1> QED BY <1>1, <1>2, PTL DEF Spec
-----------------------------------------------------------------------------
LEMMA InvInit == Init => Inv
<1> SUFFICES ASSUME Init PROVE Inv
  OBVIOUS
<1>1. TypeOK
  BY TypeInit
<1>2. LockHeld
  BY LibraryRecordsAssumption DEF Init, LockHeld, Busy
<1>3. Ordered
  BY NoRecordsLeast DEF Init, Ordered, Busy
<1> QED BY <1>1, <1>2, <1>3 DEF Init, Inv, QuietStart, ReadFromDisk, NothingLeftOut

(* A write that takes the place of the file was copied under the lock, so  *)
(* it holds all that was saved before.                                     *)
LEMMA InvRename ==
    ASSUME Inv, TypeOK', NEW t \in Task, Rename(t)
    PROVE  Inv'
<1> USE DEF Inv, TypeOK
<1>1. Busy(t) /\ writer = t /\ writer' = Nobody
  BY DEF Rename, Finish, Busy, LockHeld
<1>2. \A u \in Task : ~Busy(u)'
  BY <1>1, LibraryRecordsAssumption DEF Rename, Finish, Busy, LockHeld
<1>3. LockHeld'
  BY <1>1, <1>2, LibraryRecordsAssumption DEF LockHeld
<1>4. loading = "done" /\ loading' = "done" /\ records' = records
  BY DEF Rename, Finish, QuietStart
<1>5. Ordered'
  <2>1. mine[t] \preceq snap[t] /\ acked \preceq snap[t] /\ snap[t] \preceq records
    BY <1>1 DEF Ordered
  <2>3. acked' \preceq disk'
    BY <2>1, LaterLeast DEF Rename
  <2>4. acked' \preceq records'
    BY <1>4, <2>1, <2>3, PrecTransitive DEF Rename
  <2>5. ASSUME NEW u \in Task, at'[u] = "changed"
        PROVE  mine'[u] \preceq records'
    <3>1. u # t /\ at[u] = "changed" /\ mine'[u] = mine[u]
      BY <2>5 DEF Rename, Finish
    <3> QED BY <1>4, <3>1 DEF Ordered
  <2> QED BY <1>2, <2>3, <2>4, <2>5 DEF Ordered
<1>6. NothingLeftOut'
  <2> SUFFICES ASSUME \A u \in Task : at'[u] # "changed"
               PROVE  disk' = records'
    BY <1>2 DEF NothingLeftOut
  <2>1. \A u \in Task : at[u] # "changed"
    BY <1>1 DEF Rename, Finish, Busy
  <2> QED BY <1>1, <1>4, <2>1 DEF NothingLeftOut, Rename
<1> QED BY <1>3, <1>4, <1>5, <1>6 DEF QuietStart, ReadFromDisk

(* A write that fails leaves the file and the memory as they are. *)
LEMMA InvFailWrite ==
    ASSUME Inv, TypeOK', NEW t \in Task, FailWrite(t)
    PROVE  Inv'
<1> USE DEF Inv, TypeOK
<1>1. Busy(t) /\ writer = t /\ writer' = Nobody
  BY DEF FailWrite, Finish, Busy, LockHeld
<1>2. \A u \in Task : ~Busy(u)'
  BY <1>1, LibraryRecordsAssumption DEF FailWrite, Finish, Busy, LockHeld
<1>3. LockHeld'
  BY <1>1, <1>2, LibraryRecordsAssumption DEF LockHeld
<1>4. loading = "done" /\ loading' = "done"
  BY DEF FailWrite, Finish, QuietStart
<1>5. Ordered'
  <2>1. ASSUME NEW u \in Task, at'[u] = "changed"
        PROVE  mine'[u] \preceq records'
    <3>1. u # t /\ at[u] = "changed" /\ mine'[u] = mine[u]
      BY <2>1 DEF FailWrite, Finish
    <3> QED BY <3>1 DEF Ordered, FailWrite, Finish
  <2> QED BY <1>2, <2>1 DEF Ordered, FailWrite, Finish
<1>6. NothingLeftOut'
  BY <1>2 DEF NothingLeftOut, FailWrite
<1> QED BY <1>3, <1>4, <1>5, <1>6 DEF QuietStart, ReadFromDisk

(* A change only makes memory more recent than the file and the copies.    *)
LEMMA InvChange ==
    ASSUME Inv, TypeOK', NEW t \in Task, Change(t)
    PROVE  Inv'
<1> USE DEF Inv, TypeOK
<1>1. records \preceq records'
  BY BumpLater DEF Change
<1>2. at' = [at EXCEPT ![t] = "changed"] /\ mine' = [mine EXCEPT ![t] = records']
  BY DEF Change
<1>3. \A u \in Task : Busy(u)' <=> Busy(u)
  BY <1>2 DEF Busy, Change
<1>4. LockHeld'
  BY <1>3 DEF LockHeld, Change
<1>5. Ordered'
  <2>1. acked' \preceq records'
    BY <1>1, PrecTransitive DEF Ordered, Change
  <2>2. ASSUME NEW u \in Task, at'[u] = "changed"
        PROVE  mine'[u] \preceq records'
    <3>1. CASE u = t
      BY <1>2, <3>1, PrecReflexive
    <3>2. CASE u # t
      BY <1>1, <1>2, <2>2, <3>2, PrecTransitive DEF Ordered
    <3> QED BY <3>1, <3>2
  <2>3. ASSUME NEW u \in Task, Busy(u)'
        PROVE  /\ mine'[u] \preceq snap'[u]
               /\ acked' \preceq snap'[u]
               /\ snap'[u] \preceq records'
    <3>1. Busy(u) /\ u # t
      BY <1>3, <2>3 DEF Busy, Change
    <3>2. mine'[u] = mine[u] /\ snap' = snap /\ acked' = acked
      BY <1>2, <3>1 DEF Change
    <3> QED BY <1>1, <3>1, <3>2, PrecTransitive DEF Ordered
  <2> QED BY <2>1, <2>2, <2>3 DEF Ordered, Change
<1>6. NothingLeftOut'
  BY <1>2 DEF NothingLeftOut
<1> QED BY <1>4, <1>5, <1>6 DEF QuietStart, ReadFromDisk, Change

(* The copy is made with the lock held, of all the records there are.      *)
LEMMA InvSnapshot ==
    ASSUME Inv, TypeOK', NEW t \in Task, Snapshot(t)
    PROVE  Inv'
<1> USE DEF Inv, TypeOK
<1>1. \A u \in Task : ~Busy(u)
  BY LibraryRecordsAssumption DEF Snapshot, LockHeld
<1>2. \A u \in Task : Busy(u)' <=> u = t
  BY <1>1 DEF Snapshot, Busy
<1>3. LockHeld'
  BY <1>2 DEF LockHeld, Snapshot
<1>4. loading = "done" /\ loading' = "done"
  BY DEF Snapshot, QuietStart
<1>5. Ordered'
  <2>1. mine[t] \preceq records /\ acked \preceq records
    BY <1>4 DEF Snapshot, Ordered
  <2>2. snap'[t] = records
    BY DEF Snapshot
  <2>3. /\ mine'[t] \preceq snap'[t]
        /\ acked' \preceq snap'[t]
        /\ snap'[t] \preceq records'
    BY <2>1, <2>2, PrecReflexive DEF Snapshot
  <2>4. \A u \in Task : at'[u] = "changed" => mine'[u] \preceq records'
    BY DEF Ordered, Snapshot
  <2> QED BY <1>2, <2>1, <2>3, <2>4 DEF Ordered, Snapshot
<1>6. NothingLeftOut'
  BY <1>2, LibraryRecordsAssumption DEF NothingLeftOut, Snapshot
<1> QED BY <1>3, <1>4, <1>5, <1>6 DEF QuietStart, ReadFromDisk

(* Startup adopts the file; what it changes by itself it saves.            *)
LEMMA InvAdopt ==
    ASSUME Inv, TypeOK', NEW t \in Task, Adopt(t)
    PROVE  Inv'
<1> USE DEF Inv, TypeOK
<1> PICK moved \in SUBSET Game :
       /\ records' = Bump(read, moved)
       /\ mine' = [mine EXCEPT ![t] = IF moved = {} THEN NoRecords ELSE records']
       /\ at' = [at EXCEPT ![t] = IF moved = {} THEN "idle" ELSE "changed"]
  BY DEF Adopt
<1>1. \A u \in Task : at[u] = "idle"
  BY DEF Adopt, QuietStart
<1>2. \A u \in Task : ~Busy(u) /\ ~Busy(u)'
  BY <1>1 DEF Busy
<1>3. LockHeld'
  BY <1>2 DEF LockHeld, Adopt
<1>4. /\ acked \preceq read /\ (~apart => read = disk)
      /\ acked' = acked /\ apart' = apart /\ disk' = disk /\ loading' = "done"
  BY DEF Adopt, ReadFromDisk
<1>5. Ordered'
  <2>1. acked' \preceq records'
    BY <1>4, BumpLater, PrecTransitive
  <2>2. ASSUME NEW u \in Task, at'[u] = "changed"
        PROVE  mine'[u] \preceq records'
    <3>1. u = t /\ mine'[u] = records'
      BY <1>1, <2>2
    <3> QED BY <3>1, PrecReflexive
  <2> QED BY <1>2, <1>4, <2>1, <2>2 DEF Ordered, Adopt
<1>6. NothingLeftOut'
  <2>1. moved = {} /\ ~apart' => records' = disk'
    BY <1>4, BumpNone
  <2>2. moved # {} => at'[t] = "changed"
    OBVIOUS
  <2> QED BY <1>2, <2>1, <2>2 DEF NothingLeftOut
<1> QED BY <1>3, <1>4, <1>5, <1>6 DEF QuietStart, ReadFromDisk

(* Startup reads the file, or takes what it cannot read for nothing. *)
LEMMA InvRead ==
    ASSUME Inv, TypeOK', Read
    PROVE  Inv'
<1> USE DEF Inv, TypeOK
<1>1. \A u \in Task : at'[u] = "idle" /\ ~Busy(u)'
  BY DEF Read, QuietStart, Busy
<1>2. LockHeld'
  BY <1>1 DEF Read, LockHeld, Busy
<1>3. ReadFromDisk' /\ acked' \preceq disk'
  <2>1. CASE read' = disk /\ apart' = FALSE /\ UNCHANGED acked
    BY <2>1 DEF Read, ReadFromDisk, Ordered
  <2>2. CASE read' = NoRecords /\ apart' = TRUE /\ acked' = NoRecords
    BY <2>2, NoRecordsLeast DEF Read, ReadFromDisk
  <2> QED BY <2>1, <2>2 DEF Read
<1> QED BY <1>1, <1>2, <1>3 DEF Read, QuietStart, Ordered, NothingLeftOut

LEMMA InvCrash ==
    ASSUME Inv, TypeOK', Crash
    PROVE  Inv'
<1> USE DEF Inv, TypeOK
<1>1. \A u \in Task : at'[u] = "idle" /\ ~Busy(u)'
  BY DEF Crash, Busy
<1>2. LockHeld'
  BY <1>1, LibraryRecordsAssumption DEF LockHeld, Crash
<1>3. Ordered'
  BY <1>1 DEF Ordered, Crash
<1> QED BY <1>1, <1>2, <1>3 DEF QuietStart, ReadFromDisk, NothingLeftOut, Crash

(* Every step keeps the invariant. *)
LEMMA InvNext == Inv /\ [Next]_vars => Inv'
<1> SUFFICES ASSUME Inv, [Next]_vars PROVE Inv'
  OBVIOUS
<1> TypeOK'
  BY TypeNext DEF Inv
<1>1. CASE Read
  BY <1>1, InvRead
<1>2. CASE SetDir
  BY <1>2 DEF SetDir, Inv, LockHeld, Busy, QuietStart, ReadFromDisk, Ordered, NothingLeftOut
<1>3. CASE Crash
  BY <1>3, InvCrash
<1>4. ASSUME NEW t \in Task, Adopt(t) PROVE Inv'
  BY <1>4, InvAdopt
<1>5. ASSUME NEW t \in Task, Change(t) PROVE Inv'
  BY <1>5, InvChange
<1>6. ASSUME NEW t \in Task, Snapshot(t) PROVE Inv'
  BY <1>6, InvSnapshot
<1>7. ASSUME NEW t \in Task, WriteTemp(t) PROVE Inv'
  <2>1. \A u \in Task : /\ Busy(u)' <=> Busy(u)
                        /\ at'[u] = "changed" <=> at[u] = "changed"
                        /\ at'[u] = "idle" <=> at[u] = "idle"
    BY <1>7 DEF WriteTemp, Busy, Inv, TypeOK
  <2> QED BY <1>7, <2>1 DEF WriteTemp, Inv, LockHeld, QuietStart, ReadFromDisk, Ordered,
                            NothingLeftOut
<1>8. ASSUME NEW t \in Task, Rename(t) PROVE Inv'
  BY <1>8, InvRename
<1>9. ASSUME NEW t \in Task, FailWrite(t) PROVE Inv'
  BY <1>9, InvFailWrite
<1>10. CASE UNCHANGED vars
  BY <1>10 DEF vars, Inv, LockHeld, Busy, QuietStart, ReadFromDisk, Ordered, NothingLeftOut
<1> QED BY <1>1, <1>2, <1>3, <1>4, <1>5, <1>6, <1>7, <1>8, <1>9, <1>10 DEF Next

LEMMA InvAlways == Spec => []Inv
<1>1. Init => Inv
  BY InvInit
<1>2. Inv /\ [Next]_vars => Inv'
  BY InvNext
<1> QED BY <1>1, <1>2, PTL DEF Spec

(* While the app can read its file, a change whose save succeeded is never *)
(* lost: not to another task's older copy, a failed write or a crash.      *)
THEOREM NeverLost == Spec => []Durable
<1>1. Inv => Durable
  BY DEF Inv, Ordered, Durable
<1> QED BY <1>1, InvAlways, PTL

(* The last write carries every change: once no task is left to save, the  *)
(* file is what memory holds, whatever the tasks did in between.           *)
THEOREM NothingLeft == Spec => []LastWriteCarriesAll
<1>1. Inv => LastWriteCarriesAll
  <2> SUFFICES ASSUME Inv, loading = "done", \A t \in Task : at[t] = "idle", ~apart
               PROVE  disk = records
    BY DEF LastWriteCarriesAll
  <2>1. writer = Nobody
    BY DEF Inv, TypeOK, LockHeld, Busy
  <2> QED BY <2>1 DEF Inv, NothingLeftOut
<1> QED BY <1>1, InvAlways, PTL
=============================================================================
