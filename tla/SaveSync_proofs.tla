-------------------------- MODULE SaveSync_proofs --------------------------
(***************************************************************************)
(* What SaveSync guarantees for any number of PCs, sessions and uploads,   *)
(* whichever events may happen.                                            *)
(***************************************************************************)
EXTENDS SaveSync, FiniteSetTheorems, WellFoundedInduction, TLAPS

IdsOf(versions) == {v.id : v \in versions}

(* A finite set of numbers has a largest one: among the sets of those      *)
(* above each of them, one holds no other.                                 *)
LEMMA LargestExists ==
    ASSUME NEW S \in SUBSET Nat, IsFiniteSet(S), S # {}
    PROVE  \E m \in S : \A n \in S : n <= m
<1> DEFINE Above(m) == {n \in S : n > m}
           T == {Above(m) : m \in S}
<1>1. IsWellFoundedOn(StrictSubsetOrdering(S), FiniteSubsetsOf(S))
  BY FS_StrictSubsetOrderingWellFounded
<1>2. T \subseteq FiniteSubsetsOf(S) /\ T # {}
  <2>1. ASSUME NEW m \in S PROVE Above(m) \in FiniteSubsetsOf(S)
    BY FS_Subset DEF FiniteSubsetsOf
  <2> QED BY <2>1
<1>3. PICK x \in T : \A y \in T : ~(<<y, x>> \in StrictSubsetOrdering(S))
  <2> HIDE DEF T
  <2> QED BY <1>1, <1>2, WFMin
<1>4. PICK m \in S : x = Above(m)
  BY <1>3
<1>5. ASSUME NEW n \in S, n > m PROVE FALSE
  <2> m \in Nat /\ \A k \in S : k \in Nat
    OBVIOUS
  <2>1. n \in Above(m) /\ n \notin Above(n)
    BY <1>5
  <2>2. ASSUME NEW k \in Above(n) PROVE k \in Above(m)
    BY <1>5, <2>2
  <2>3. <<Above(n), Above(m)>> \in StrictSubsetOrdering(S)
    BY <2>1, <2>2 DEF StrictSubsetOrdering
  <2> QED BY <1>3, <1>4, <2>3
<1> QED BY <1>5

(* The first entry of a listing is its newest version.                     *)
LEMMA NewestIsLargest ==
    ASSUME NEW versions, versions # {},
           IdsOf(versions) \subseteq Nat, IsFiniteSet(IdsOf(versions))
    PROVE  /\ Newest(versions) \in versions
           /\ \A w \in versions : w.id <= Newest(versions).id
<1>1. PICK m \in IdsOf(versions) : \A n \in IdsOf(versions) : n <= m
  BY LargestExists DEF IdsOf
<1>2. PICK v \in versions : v.id = m
  BY DEF IdsOf
<1>3. \A w \in versions : w.id <= v.id
  BY <1>1, <1>2 DEF IdsOf
<1> QED BY <1>3 DEF Newest

LEMMA UsableIds ==
    ASSUME NEW versions, NEW here,
           IdsOf(versions) \subseteq Nat, IsFiniteSet(IdsOf(versions))
    PROVE  /\ Usable(versions, here) \subseteq versions
           /\ IdsOf(Usable(versions, here)) \subseteq Nat
           /\ IsFiniteSet(IdsOf(Usable(versions, here)))
<1>1. IdsOf(Usable(versions, here)) \subseteq IdsOf(versions)
  BY DEF IdsOf, Usable
<1> QED BY <1>1, FS_Subset DEF Usable
-----------------------------------------------------------------------------
(* Every stored version was stored by some upload, of which there are      *)
(* finitely many: so every listing has a newest version.                   *)
StoredWasMinted ==
    /\ IsFiniteSet(minted)
    /\ \A p \in PC : IdsOf(store[p]) \subseteq minted

TypeInv == TypeOK /\ StoredWasMinted
-----------------------------------------------------------------------------
LEMMA SharedKept ==
    ASSUME StoredWasMinted, UNCHANGED <<store, minted>>
    PROVE  StoredWasMinted'
BY DEF StoredWasMinted

(* The newest version a PC sees, and the newest one it can use. *)
LEMMA NewestTyped ==
    ASSUME TypeInv, NEW p \in PC
    PROVE  /\ NewestId(store[p]) \in Nat
           /\ NewestUsableId(store[p], HereOf(p)) \in Nat
           /\ store[p] # {} => Newest(store[p]) \in Version
           /\ Usable(store[p], HereOf(p)) # {} =>
                  /\ NewestUsable(store[p], HereOf(p)) \in Version
                  /\ NewestUsable(store[p], HereOf(p)) \in store[p]
<1>1. store[p] \subseteq Version
  BY DEF TypeInv, TypeOK
<1>2. IdsOf(store[p]) \subseteq Nat /\ IsFiniteSet(IdsOf(store[p]))
  BY <1>1, FS_Subset DEF TypeInv, TypeOK, StoredWasMinted, IdsOf, Version
<1>3. store[p] # {} => Newest(store[p]) \in store[p]
  BY <1>2, NewestIsLargest
<1>4. Usable(store[p], HereOf(p)) # {} =>
          NewestUsable(store[p], HereOf(p)) \in Usable(store[p], HereOf(p))
  BY <1>2, UsableIds, NewestIsLargest DEF NewestUsable
<1>5. Usable(store[p], HereOf(p)) \subseteq store[p]
  BY DEF Usable
<1>6. \A v \in store[p] : v.id \in Nat
  BY <1>1 DEF Version
<1> QED BY <1>1, <1>3, <1>4, <1>5, <1>6 DEF NewestId, NewestUsableId, NewestUsable, NoId

LEMMA VersionFields ==
    ASSUME NEW v \in Version
    PROVE  v.id \in Nat /\ v.base \in Nat /\ v.data \in Save
BY DEF Version

(* What the parts of a step leave behind is of its type. *)

LEMMA FetchTyped ==
    ASSUME TypeOK, NEW p \in PC, NEW version \in Version, Fetch(p, version)
    PROVE  archive' \in [PC -> Save] /\ staging' \in [PC -> Save]
BY VersionFields DEF TypeOK, Fetch

LEMMA RecordSyncTyped ==
    ASSUME TypeOK, NEW p \in PC, NEW id \in Nat, NEW hash \in Save,
           RecordSync(p, id, hash)
    PROVE  record' \in [PC -> Record]
<1> DEFINE named == [record EXCEPT ![p].lastSynced = IF id = NoId THEN @ ELSE id]
           marked == [named EXCEPT ![p].backedUp = TRUE]
<1>1. named \in [PC -> Record]
  BY DEF TypeOK, Record
<1>2. marked \in [PC -> Record]
  <2> HIDE DEF named
  <2> QED BY <1>1 DEF Record
<1>3. record' = [marked EXCEPT ![p].hash = hash]
  BY DEF RecordSync
<1> HIDE DEF marked
<1> QED BY <1>2, <1>3 DEF Record

LEMMA GameTyped ==
    ASSUME TypeOK, NEW p \in PC
    PROVE  /\ NoGame \in Game
           /\ [NoGame EXCEPT !.at = "ready"] \in Game
           /\ [NoGame EXCEPT !.at = "offered"] \in Game
           /\ BackToIdle(p) => game' \in [PC -> Game]
BY DEF TypeOK, NoGame, NoId, Game, BackToIdle

LEMMA BeginTyped ==
    ASSUME TypeOK, NEW p \in PC, NEW force \in BOOLEAN,
           NEW why \in {"exit", "retry", "manual", "offer", "choice"}, Begin(p, why, force)
    PROVE  upload' \in [PC -> Upload]
<1>1. record[p] \in Record
  BY DEF TypeOK
<1>2. record[p].lastSynced \in Nat /\ record[p].pending \in BOOLEAN
  BY <1>1 DEF Record
<1>3. [NoUpload EXCEPT !.at = "scan", !.why = why, !.force = force,
                       !.base = record[p].lastSynced,
                       !.wasPending = record[p].pending] \in Upload
  BY <1>2 DEF NoUpload, Upload, NoId
<1> QED BY <1>3 DEF TypeOK, Begin

LEMMA TypeInit == Init => TypeInv
<1> SUFFICES ASSUME Init PROVE TypeInv
  OBVIOUS
<1>1. StoredWasMinted
  BY FS_EmptySet DEF Init, StoredWasMinted, IdsOf
<1>2. NoGame \in Game /\ NoUpload \in Upload /\ NeverRecorded({}) \in Record
  BY DEF NoGame, Game, NoUpload, Upload, NeverRecorded, Record, NoId, Save
<1>3. sessions \in 0..Sessions /\ live \in [PC -> Save]
  BY SaveSyncAssumption DEF Init, Save
<1> QED BY <1>1, <1>2, <1>3 DEF Init, TypeInv, TypeOK, Save
-----------------------------------------------------------------------------
(* Steps of a launch. *)

LEMMA TypeLaunchSteps ==
    ASSUME TypeInv, NEW p \in PC, LaunchStep(p)
    PROVE  TypeInv'
<1> USE DEF TypeInv, TypeOK, shared, disk, memory, flows, ghosts
<1> StoredWasMinted'
  BY SharedKept DEF LaunchStep, Launch, LaunchOffline, Check, Compare, FetchNewest,
     SkipRestore, PutBack, FailRestore, StartGame, FailGame, Play, ExitGame
<1>1. CASE Launch(p)
  BY <1>1, SMTT(60) DEF Launch, To, Game
<1>2. CASE LaunchOffline(p)
  BY <1>2 DEF LaunchOffline, To, Game
<1>3. CASE Check(p)
  <2>1. \A scanned \in Scans :
            JudgeLaunch(p, scanned) \in {"ready", "restoring", "comparing", "idle"}
    BY DEF JudgeLaunch, FirstStart
  <2>2. NewestUsableId(store[p], HereOf(p)) \in Nat
    BY NewestTyped
  <2> QED BY <1>3, <2>1, <2>2 DEF Check, Game, NoId
<1>4. CASE Compare(p)
  <2>1. game' \in [PC -> Game]
    BY <1>4, GameTyped DEF Compare
  <2>2. CASE UNCHANGED <<record, staging, archive>>
    BY <1>4, <2>1, <2>2 DEF Compare
  <2>3. ASSUME NEW version \in WithId(store[p], game[p].newest), Fetch(p, version),
               \/ RecordSync(p, version.id, version.data)
               \/ UNCHANGED record
        PROVE  TypeOK'
    <3>1. version \in Version
      BY DEF WithId
    <3>2. archive' \in [PC -> Save] /\ staging' \in [PC -> Save]
      BY <2>3, <3>1, FetchTyped
    <3>3. record' \in [PC -> Record]
      BY <2>3, <3>1, RecordSyncTyped, VersionFields
    <3> QED BY <1>4, <2>1, <3>2, <3>3 DEF Compare
  <2> QED BY <1>4, <2>2, <2>3 DEF Compare
<1>5. CASE FetchNewest(p)
  <2>1. CASE BackToIdle(p) /\ UNCHANGED <<staging, archive>>
    BY <1>5, <2>1, GameTyped DEF FetchNewest
  <2>2. ASSUME Usable(store[p], HereOf(p)) # {},
               Fetch(p, NewestUsable(store[p], HereOf(p))),
               game' = [game EXCEPT ![p] =
                           [at |-> "fetched", newest |-> NewestUsableId(store[p], HereOf(p))]]
        PROVE  TypeOK'
    <3>1. archive' \in [PC -> Save] /\ staging' \in [PC -> Save]
      BY <2>2, NewestTyped, FetchTyped
    <3>2. game' \in [PC -> Game]
      BY <2>2, NewestTyped DEF Game
    <3> QED BY <1>5, <3>1, <3>2 DEF FetchNewest
  <2> QED BY <1>5, <2>1, <2>2 DEF FetchNewest, NewestUsable, NewestUsableId
<1>6. CASE SkipRestore(p)
  BY <1>6, GameTyped DEF SkipRestore
<1>7. CASE PutBack(p)
  <2>1. record' \in [PC -> Record]
    <3>1. game[p].newest \in Nat
      BY DEF Game
    <3> QED BY <1>7, <3>1, RecordSyncTyped DEF PutBack
  <2> QED BY <1>7, <2>1, GameTyped DEF PutBack
<1>8. CASE StartGame(p)
  BY <1>8 DEF StartGame, To, Game
<1>9. CASE FailGame(p)
  BY <1>9, GameTyped DEF FailGame
<1>10. CASE Play(p)
  <2>1. sessions' \in 1..Sessions
    BY <1>10, SaveSyncAssumption DEF Play
  <2>2. live' \in [PC -> Save]
    BY <1>10, <2>1 DEF Play, Save
  <2> QED BY <1>10, <2>1, <2>2 DEF Play
<1>11. CASE ExitGame(p)
  BY <1>11, GameTyped, BeginTyped DEF ExitGame
<1>12. CASE FailRestore(p)
  <2>1. live' \in [PC -> Save]
    BY <1>12 DEF FailRestore
  <2> QED BY <1>12, <2>1, GameTyped DEF FailRestore
<1> QED BY <1>1, <1>2, <1>3, <1>4, <1>5, <1>6, <1>7, <1>8, <1>9, <1>10, <1>11, <1>12
       DEF LaunchStep
-----------------------------------------------------------------------------
(* Steps of an upload. *)

(* Ids are fresh: of one more number than there are ids some is not taken. *)
LEMMA NewIdsTyped ==
    ASSUME TypeInv
    PROVE  NewIds \subseteq (Nat \ {NoId}) \ minted
<1> USE DEF TypeInv, TypeOK, StoredWasMinted
<1>1. Cardinality(minted) \in Nat /\ Cardinality(PC) \in Nat
  BY FS_CardinalityType, SaveSyncAssumption
<1>2. ~(1 .. Cardinality(minted) + 1 \subseteq minted)
  <2> DEFINE c == Cardinality(minted)
  <2>1. Cardinality(1 .. c + 1) = c + 1
    BY <1>1, FS_Interval
  <2>2. 1 .. c + 1 \in SUBSET minted => Cardinality(1 .. c + 1) <= c
    BY FS_Subset
  <2> QED BY <1>1, <2>1, <2>2
<1>3. CASE "skew" \in Events
  BY <1>1, <1>3, SaveSyncAssumption DEF NewIds, NoId
<1>4. CASE "skew" \notin Events
  BY <1>1, <1>2, <1>4 DEF NewIds, NoId
<1> QED BY <1>3, <1>4

(* What p's upload adds to the store. *)
Added(p, id) ==
    [id |-> id, base |-> NewestId(store[p]), platform |-> PlatformOf[p],
     installation |-> p, data |-> staging[p]]

LEMMA AddedTyped ==
    ASSUME TypeInv, NEW p \in PC, NEW id \in Nat \ {NoId}
    PROVE  Added(p, id) \in Version
BY NewestTyped, SaveSyncAssumption DEF TypeInv, TypeOK, Added, Version

(* Whatever is written is made of versions some PC saw, or a new one. *)
LEMMA WriteTyped ==
    ASSUME TypeInv, NEW p \in PC, NEW versions \in SUBSET Version, Write(p, versions)
    PROVE  store' \in [PC -> SUBSET Version] /\ removed' \subseteq Nat
<1>1. store[p] \subseteq Version
  BY DEF TypeInv, TypeOK
<1>2. {v.id : v \in store[p]} \subseteq Nat
  BY <1>1 DEF Version
<1> QED BY <1>2 DEF TypeInv, TypeOK, Write

LEMMA WriteMinted ==
    ASSUME TypeInv, NEW p \in PC, NEW versions, Write(p, versions),
           IdsOf(versions) \subseteq minted', minted \subseteq minted'
    PROVE  \A q \in PC : IdsOf(store'[q]) \subseteq minted'
BY DEF TypeInv, TypeOK, Write, StoredWasMinted

LEMMA TypeStoreUpload ==
    ASSUME TypeInv, NEW p \in PC, StoreUpload(p)
    PROVE  TypeInv'
<1> DEFINE answer == Verdict(store[p], p, upload[p].base, upload[p].force)
           after(id) == Pruned(store[p] \cup {Added(p, id)})
<1> USE DEF TypeInv
<1>1. PICK id \in IF answer = "stored" THEN NewIds ELSE {NoId} :
          /\ upload' = [upload EXCEPT ![p].at = "stored",
                                      ![p].outcome = answer, ![p].id = id]
          /\ IF answer = "stored"
             THEN minted' = minted \cup {id} /\ Write(p, after(id))
             ELSE UNCHANGED <<store, removed, minted>>
  BY DEF StoreUpload, Added
<1>2. id \in Nat
  BY <1>1, NewIdsTyped DEF NoId
<1>3. upload' \in [PC -> Upload]
  <2>1. answer \in {"stored", "unchanged", "conflict"}
    BY DEF Verdict
  <2> HIDE DEF answer
  <2> DEFINE there    == [upload EXCEPT ![p].at = "stored"]
             told == [there EXCEPT ![p].outcome = answer]
  <2>2. there \in [PC -> Upload]
    BY DEF TypeOK, Upload
  <2>3. told \in [PC -> Upload]
    <3> HIDE DEF there
    <3> QED BY <2>1, <2>2 DEF Upload
  <2>4. upload' = [told EXCEPT ![p].id = id]
    BY <1>1
  <2> HIDE DEF told
  <2> QED BY <1>2, <2>3, <2>4 DEF Upload
<1>4. /\ store' \in [PC -> SUBSET Version] /\ removed' \subseteq Nat
      /\ minted' \subseteq Nat /\ StoredWasMinted'
  <2>1. CASE answer = "stored"
    <3>1. id \in Nat \ {NoId} /\ minted' = minted \cup {id} /\ Write(p, after(id))
      BY <1>1, <2>1, NewIdsTyped
    <3>2. after(id) \subseteq Version
      BY <3>1, AddedTyped DEF Pruned, TypeOK
    <3>3. IdsOf(after(id)) \subseteq minted'
      <4>1. after(id) \subseteq store[p] \cup {Added(p, id)} /\ Added(p, id).id = id
        BY DEF Pruned, Added
      <4>2. IdsOf(store[p]) \subseteq minted
        BY DEF StoredWasMinted
      <4> HIDE DEF after
      <4> QED BY <3>1, <4>1, <4>2 DEF IdsOf
    <3>4. store' \in [PC -> SUBSET Version] /\ removed' \subseteq Nat
      BY <3>1, <3>2, WriteTyped
    <3>5. \A q \in PC : IdsOf(store'[q]) \subseteq minted'
      BY <3>1, <3>3, WriteMinted
    <3>6. IsFiniteSet(minted') /\ minted' \subseteq Nat
      BY <3>1, FS_AddElement DEF StoredWasMinted, TypeOK
    <3> QED BY <3>4, <3>5, <3>6 DEF StoredWasMinted
  <2>2. CASE answer # "stored"
    BY <1>1, <2>2 DEF StoredWasMinted, TypeOK
  <2> QED BY <2>1, <2>2
<1>5. settled' \in Save
  <2>1. Usable(store[p], HereOf(p)) # {} =>
            NewestUsable(store[p], HereOf(p)).data \in Save
    BY NewestTyped, VersionFields
  <2>2. settled \in Save /\ staging[p] \in Save
    BY DEF TypeOK
  <2> QED BY <2>1, <2>2 DEF StoreUpload, Save
<1>6. archive' \in [PC -> Save]
  BY DEF StoreUpload, TypeOK
<1>7. UNCHANGED <<locked, record, live, staging, unsynced, answered, reach, game, asked,
                  sessions>>
  BY DEF StoreUpload, memory
<1> QED BY <1>3, <1>4, <1>5, <1>6, <1>7 DEF TypeOK

LEMMA UploadEndsTyped ==
    ASSUME TypeOK, NEW p \in PC, UploadEnds(p)
    PROVE  /\ upload' \in [PC -> Upload]
           /\ answered' \subseteq PC
           /\ game' \in [PC -> Game]
<1>1. NoUpload \in Upload
  BY DEF NoUpload, Upload, NoId
<1> QED BY <1>1, GameTyped DEF TypeOK, UploadEnds

LEMMA ForceTyped ==
    ASSUME NEW uploads \in [PC -> Upload], NEW p \in PC, NEW force \in BOOLEAN
    PROVE  [uploads EXCEPT ![p].force = force] \in [PC -> Upload]
BY DEF Upload

LEMMA TypeUploadSteps ==
    ASSUME TypeInv, NEW p \in PC, UploadStep(p)
    PROVE  TypeInv'
<1> USE DEF TypeInv, TypeOK, shared, disk, memory, flows, ghosts
<1>1. CASE BackUp(p)
  <2>1. StoredWasMinted'
    BY <1>1, SharedKept DEF BackUp
  <2>2. CASE UploadEnds(p) /\ UNCHANGED staging
    BY <1>1, <2>1, <2>2, UploadEndsTyped DEF BackUp
  <2>3. CASE /\ staging' = [staging EXCEPT ![p] = live[p]]
             /\ upload' = [upload EXCEPT ![p].at = "staged"]
             /\ UNCHANGED <<answered, game>>
    BY <1>1, <2>1, <2>3 DEF BackUp, Upload
  <2> QED BY <1>1, <2>2, <2>3 DEF BackUp
<1>2. CASE ListForUpload(p)
  <2>1. StoredWasMinted'
    BY <1>2, SharedKept DEF ListForUpload
  <2>2. upload[p].force \in BOOLEAN
    BY DEF Upload
  <2>3. upload' \in [PC -> Upload]
    <3> DEFINE there == [upload EXCEPT ![p].at = "listed"]
               passes == upload[p].force
                         \/ PassesOtherSystems(store[p], upload[p].base, HereOf(p))
    <3>1. there \in [PC -> Upload] /\ there[p].force = upload[p].force
      BY DEF Upload
    <3>2. upload' = [there EXCEPT ![p].force = passes]
      BY <1>2, <3>1 DEF ListForUpload
    <3>3. passes \in BOOLEAN
      BY <2>2
    <3> HIDE DEF there, passes
    <3> QED BY <3>1, <3>2, <3>3, ForceTyped
  <2> QED BY <1>2, <2>1, <2>3 DEF ListForUpload
<1>3. CASE StoreUpload(p)
  BY <1>3, TypeStoreUpload
<1>4. CASE RecordUpload(p)
  <2>1. StoredWasMinted'
    BY <1>4, SharedKept DEF RecordUpload
  <2> DEFINE known == [record EXCEPT ![p].pending = StillPending(p)]
             id == IF upload[p].outcome = "stored" THEN upload[p].id
                   ELSE known[p].lastSynced
  <2>2. known \in [PC -> Record]
    <3>1. StillPending(p) \in BOOLEAN
      BY DEF StillPending, Record, Upload
    <3> QED BY <3>1 DEF Record
  <2>3. id \in Nat
    <3> HIDE DEF known
    <3> QED BY <2>2 DEF Upload, Record
  <2>4. record' \in [PC -> Record]
    <3>1. CASE upload[p].outcome = "conflict"
      BY <1>4, <2>2, <3>1 DEF RecordUpload
    <3>2. CASE upload[p].outcome # "conflict"
      <4> DEFINE named == [known EXCEPT ![p].lastSynced = id]
                 marked == [named EXCEPT ![p].backedUp = TRUE]
      <4>1. record' = [marked EXCEPT ![p].hash = archive[p]]
        BY <1>4, <3>2 DEF RecordUpload
      <4> HIDE DEF known, id
      <4>2. named \in [PC -> Record]
        BY <2>2, <2>3 DEF Record
      <4> HIDE DEF named
      <4>3. marked \in [PC -> Record]
        BY <4>2 DEF Record
      <4> HIDE DEF marked
      <4> QED BY <4>1, <4>3 DEF Record
    <3> QED BY <3>1, <3>2
  <2>5. asked' \in [PC -> {"no", "launch", "upload"}]
    BY <1>4 DEF RecordUpload
  <2>6. upload' \in [PC -> Upload] /\ answered' \subseteq PC /\ game' \in [PC -> Game]
    BY <1>4, UploadEndsTyped DEF RecordUpload
  <2>7. UNCHANGED <<shared, live, staging, archive, unsynced, reach, ghosts>>
    BY <1>4 DEF RecordUpload
  <2> QED BY <2>1, <2>4, <2>5, <2>6, <2>7
<1>5. CASE UploadUnreached(p)
  <2>1. StoredWasMinted'
    BY <1>5, SharedKept DEF UploadUnreached
  <2>2. record' \in [PC -> Record]
    BY <1>5 DEF UploadUnreached, Record
  <2> QED BY <1>5, <2>1, <2>2, UploadEndsTyped DEF UploadUnreached
<1>6. CASE UploadFails(p)
  <2>1. StoredWasMinted'
    BY <1>6, SharedKept DEF UploadFails
  <2>2. record' \in [PC -> Record]
    BY <1>6 DEF UploadFails, Record
  <2> QED BY <1>6, <2>1, <2>2, UploadEndsTyped DEF UploadFails
<1> QED BY <1>1, <1>2, <1>3, <1>4, <1>5, <1>6 DEF UploadStep

LEMMA TypeRetry ==
    ASSUME TypeInv, NEW p \in PC, Retry(p)
    PROVE  TypeInv'
BY SharedKept, BeginTyped
   DEF Retry, TypeInv, TypeOK, shared, disk, memory, flows, ghosts
-----------------------------------------------------------------------------
(* What the user does. *)

LEMMA RestoreChosenTyped ==
    ASSUME TypeInv, NEW p \in PC, NEW version \in store[p], RestoreChosen(p, version)
    PROVE  /\ archive' \in [PC -> Save] /\ staging' \in [PC -> Save]
           /\ live' \in [PC -> Save]
           /\ settled' \in Save
<1>1. version \in Version
  BY DEF TypeInv, TypeOK
<1>2. archive' \in [PC -> Save] /\ staging' \in [PC -> Save]
  BY <1>1, FetchTyped DEF RestoreChosen, TypeInv
<1>3. version.data \in Save
  BY <1>1, VersionFields
<1>4. NewestUsable(store[p], HereOf(p)).data \in Save
  <2>1. version \in Usable(store[p], HereOf(p))
    BY DEF RestoreChosen, Usable
  <2> QED BY <2>1, NewestTyped, VersionFields
<1>5. settled \in Save /\ live \in [PC -> Save]
  BY DEF TypeInv, TypeOK
<1> QED BY <1>2, <1>3, <1>4, <1>5 DEF RestoreChosen, Save

LEMMA TypeRestoreByHand ==
    ASSUME TypeInv, NEW p \in PC, NEW version \in store[p], RestoreByHand(p, version)
    PROVE  TypeInv'
<1>1. /\ archive' \in [PC -> Save] /\ staging' \in [PC -> Save]
      /\ live' \in [PC -> Save] /\ settled' \in Save
  BY RestoreChosenTyped DEF RestoreByHand
<1>2. record' \in [PC -> Record]
  <2>1. NewestUsableId(store[p], HereOf(p)) \in Nat /\ archive'[p] \in Save
    BY <1>1, NewestTyped
  <2> QED BY <2>1, RecordSyncTyped DEF RestoreByHand, TypeInv
<1>3. StoredWasMinted'
  BY SharedKept DEF RestoreByHand, TypeInv, shared
<1> QED BY <1>1, <1>2, <1>3
        DEF RestoreByHand, TypeInv, TypeOK, shared, memory

LEMMA TypeAnswers ==
    ASSUME TypeInv, NEW p \in PC,
           AnswerRestore(p) \/ AnswerKeep(p) \/ DismissOffer(p)
    PROVE  TypeInv'
<1> USE DEF TypeInv
<1> StoredWasMinted'
  BY SharedKept DEF AnswerRestore, AnswerKeep, DismissOffer, shared
<1>1. CASE AnswerRestore(p)
  <2>1. /\ archive' \in [PC -> Save] /\ staging' \in [PC -> Save]
        /\ live' \in [PC -> Save] /\ settled' \in Save
    BY <1>1, RestoreChosenTyped DEF AnswerRestore
  <2>2. record' \in [PC -> Record]
    <3>1. NewestUsableId(store[p], HereOf(p)) \in Nat /\ archive'[p] \in Save
      BY <2>1, NewestTyped
    <3> DEFINE now == [record[p] EXCEPT
                          !.lastSynced = NewestUsableId(store[p], HereOf(p)),
                          !.backedUp = TRUE, !.hash = archive'[p], !.declined = NoId]
    <3>2. now \in Record
      BY <3>1 DEF TypeOK, Record, NoId
    <3>3. record' = [record EXCEPT ![p] = now]
      BY <1>1 DEF AnswerRestore
    <3> HIDE DEF now
    <3> QED BY <3>2, <3>3 DEF TypeOK
  <2>3. game' \in [PC -> Game]
    BY <1>1, GameTyped DEF AnswerRestore
  <2> QED BY <1>1, <2>1, <2>2, <2>3 DEF AnswerRestore, TypeOK, shared
<1>2. CASE AnswerKeep(p)
  <2> DEFINE newest == NewestUsableId(store[p], HereOf(p))
  <2>1. newest \in Nat
    BY NewestTyped
  <2>2. record' \in [PC -> Record]
    <3> DEFINE named == [record EXCEPT ![p].lastSynced = newest]
    <3>1. record' = [named EXCEPT ![p].declined = newest]
      BY <1>2 DEF AnswerKeep
    <3> HIDE DEF newest
    <3>2. named \in [PC -> Record]
      BY <2>1 DEF TypeOK, Record
    <3> HIDE DEF named
    <3> QED BY <2>1, <3>1, <3>2 DEF Record
  <2>3. upload' \in [PC -> Upload]
    <3> DEFINE begun == [NoUpload EXCEPT !.at = "scan", !.why = "offer", !.base = newest,
                                         !.wasPending = record[p].pending]
    <3>1. upload' = [upload EXCEPT ![p] = begun]
      BY <1>2 DEF AnswerKeep
    <3> HIDE DEF newest
    <3>2. begun \in Upload
      BY <2>1 DEF TypeOK, Record, NoUpload, Upload, NoId
    <3> HIDE DEF begun
    <3> QED BY <3>1, <3>2 DEF TypeOK
  <2>4. settled' \in Save
    <3>1. \A v \in WithId(store[p], newest) : v.data \in Save
      BY VersionFields DEF TypeOK, WithId
    <3>2. UNION {v.data : v \in WithId(store[p], newest)} \in Save
      BY <3>1 DEF Save
    <3> QED BY <1>2, <3>2 DEF AnswerKeep, TypeOK, Save
  <2> QED BY <1>2, <2>2, <2>3, <2>4 DEF AnswerKeep, TypeOK, shared, memory
<1>3. CASE DismissOffer(p)
  BY <1>3, GameTyped DEF DismissOffer, TypeOK, shared, disk, memory, ghosts
<1> QED BY <1>1, <1>2, <1>3

LEMMA TypeChoices ==
    ASSUME TypeInv, NEW p \in PC,
           KeepLocal(p) \/ KeepBoth(p) \/ KeepRemote(p) \/ DismissConflict(p) \/ RestoreOld(p)
    PROVE  TypeInv'
<1> USE DEF TypeInv
<1>1. CASE KeepLocal(p)
  BY <1>1, SharedKept, BeginTyped DEF KeepLocal, TypeOK, shared, disk, memory, ghosts
<1>2. CASE KeepBoth(p)
  <2>1. locked' \subseteq Nat
    BY <1>2, NewestTyped DEF KeepBoth, TypeOK
  <2>2. StoredWasMinted'
    BY <1>2, SharedKept DEF KeepBoth
  <2> QED BY <1>2, <2>1, <2>2, BeginTyped DEF KeepBoth, TypeOK, disk, memory, ghosts
<1>3. CASE KeepRemote(p)
  BY <1>3, NewestTyped, TypeRestoreByHand DEF KeepRemote
<1>4. CASE DismissConflict(p)
  BY <1>4, SharedKept DEF DismissConflict, TypeOK, shared, disk, memory, ghosts
<1>5. CASE RestoreOld(p)
  BY <1>5, TypeRestoreByHand DEF RestoreOld
<1> QED BY <1>1, <1>2, <1>3, <1>4, <1>5

LEMMA ForgetTyped ==
    ASSUME NEW local \in Record, NEW deleted, NEW left \in Nat
    PROVE  ForgetVersions(local, deleted, left) \in Record
<1> DEFINE named == [local EXCEPT !.lastSynced = IF @ # NoId /\ @ \in deleted THEN left ELSE @]
<1>1. named \in Record
  BY DEF Record
<1>2. ForgetVersions(local, deleted, left)
          = [named EXCEPT !.declined = IF @ # NoId /\ @ \in deleted THEN NoId ELSE @]
  BY DEF ForgetVersions
<1> HIDE DEF named
<1> QED BY <1>1, <1>2 DEF Record, NoId

LEMMA TypeDelete ==
    ASSUME TypeInv, NEW p \in PC, Delete(p)
    PROVE  TypeInv'
<1> USE DEF TypeInv
<1>1. PICK left \in SUBSET store[p] :
          /\ Write(p, left)
          /\ \/ record' = [record EXCEPT ![p] =
                    ForgetVersions(@, {v.id : v \in store[p] \ left}, NewestId(left))]
             \/ UNCHANGED record
  BY DEF Delete
<1>2. left \subseteq Version /\ IdsOf(left) \subseteq IdsOf(store[p])
  BY DEF TypeOK, IdsOf
<1>3. NewestId(left) \in Nat
  <2>1. IdsOf(left) \subseteq Nat /\ IsFiniteSet(IdsOf(left))
    BY <1>2, FS_Subset DEF TypeOK, StoredWasMinted
  <2>2. left # {} => Newest(left) \in left
    BY <2>1, NewestIsLargest
  <2> QED BY <1>2, <2>2, VersionFields DEF NewestId, NoId
<1>4. record' \in [PC -> Record]
  BY <1>1, <1>3, ForgetTyped DEF TypeOK
<1>5. store' \in [PC -> SUBSET Version] /\ removed' \subseteq Nat
  BY <1>1, <1>2, WriteTyped
<1>6. StoredWasMinted'
  <2>1. minted' = minted /\ IdsOf(left) \subseteq minted
    BY <1>2 DEF Delete, StoredWasMinted
  <2> QED BY <1>1, <2>1, WriteMinted DEF StoredWasMinted
<1>7. UNCHANGED <<locked, minted, live, staging, archive, memory, reach, flows, ghosts>>
  BY DEF Delete
<1> QED BY <1>4, <1>5, <1>6, <1>7 DEF TypeOK, memory, flows, ghosts

LEMMA TypeUserSteps ==
    ASSUME TypeInv, NEW p \in PC, UserStep(p)
    PROVE  TypeInv'
<1> USE DEF TypeInv
<1>1. CASE AnswerRestore(p) \/ AnswerKeep(p) \/ DismissOffer(p)
  BY <1>1, TypeAnswers
<1>2. CASE KeepLocal(p) \/ KeepBoth(p) \/ KeepRemote(p) \/ DismissConflict(p) \/ RestoreOld(p)
  BY <1>2, TypeChoices
<1>3. CASE BackUpByHand(p)
  BY <1>3, SharedKept, BeginTyped DEF BackUpByHand, TypeOK, shared, disk, memory, ghosts
<1>4. CASE SetLocked(p)
  <2>1. locked' \subseteq Nat
    BY <1>4, VersionFields DEF SetLocked, TypeOK
  <2> QED BY <1>4, <2>1, SharedKept DEF SetLocked, TypeOK, disk, memory, flows, ghosts
<1>5. CASE Delete(p)
  BY <1>5, TypeDelete
<1>6. CASE SkipUpload(p)
  BY <1>6, SharedKept, UploadEndsTyped DEF SkipUpload, TypeOK, shared, disk, ghosts
<1> QED BY <1>1, <1>2, <1>3, <1>4, <1>5, <1>6 DEF UserStep
-----------------------------------------------------------------------------
(* What happens around a PC. *)

LEMMA TypeCatchUp ==
    ASSUME TypeInv, NEW p \in PC, CatchUp(p)
    PROVE  TypeInv'
<1> DEFINE caught == {v \in UNION {store[q] : q \in PC} : v.id \notin removed}
<1>1. caught \subseteq Version /\ IdsOf(caught) \subseteq minted
  BY DEF TypeInv, TypeOK, StoredWasMinted, IdsOf
<1>2. store' = [store EXCEPT ![p] = caught]
  BY DEF CatchUp
<1> HIDE DEF caught
<1>3. store' \in [PC -> SUBSET Version] /\ \A q \in PC : IdsOf(store'[q]) \subseteq minted
  BY <1>1, <1>2 DEF TypeInv, TypeOK, StoredWasMinted
<1> QED BY <1>3 DEF CatchUp, TypeInv, TypeOK, StoredWasMinted, disk, memory, flows, ghosts

LEMMA TypeOutside ==
    ASSUME TypeInv, NEW p \in PC, LoseStore(p) \/ FindStore(p) \/ Crash(p)
    PROVE  TypeInv'
<1>1. NoGame \in Game /\ NoUpload \in Upload
  BY GameTyped DEF TypeInv, NoUpload, Upload, NoId
<1> QED BY <1>1, SharedKept, ZenonT(60)
        DEF LoseStore, FindStore, Crash, TypeInv, TypeOK, shared, disk, memory, flows, ghosts
-----------------------------------------------------------------------------
LEMMA TypeNext == TypeInv /\ [Next]_vars => TypeInv'
<1> SUFFICES ASSUME TypeInv, [Next]_vars PROVE TypeInv'
  OBVIOUS
<1>1. ASSUME NEW p \in PC, LaunchStep(p) PROVE TypeInv'
  BY <1>1, TypeLaunchSteps
<1>2. ASSUME NEW p \in PC, UploadStep(p) PROVE TypeInv'
  BY <1>2, TypeUploadSteps
<1>3. ASSUME NEW p \in PC, Retry(p) PROVE TypeInv'
  BY <1>3, TypeRetry
<1>4. ASSUME NEW p \in PC, UserStep(p) PROVE TypeInv'
  BY <1>4, TypeUserSteps
<1>5. ASSUME NEW p \in PC, CatchUp(p) PROVE TypeInv'
  BY <1>5, TypeCatchUp
<1>6. ASSUME NEW p \in PC, LoseStore(p) \/ FindStore(p) \/ Crash(p) PROVE TypeInv'
  BY <1>6, TypeOutside
<1>7. CASE UNCHANGED vars
  BY <1>7, SharedKept DEF vars, TypeInv, TypeOK, shared, disk, memory, flows, ghosts
<1> QED BY <1>1, <1>2, <1>3, <1>4, <1>5, <1>6, <1>7 DEF Next

LEMMA TypeAlways == Spec => []TypeInv
BY TypeInit, TypeNext, PTL DEF Spec

(* Whatever users do and whatever goes wrong, every launch and upload is   *)
(* in one of its stages with a base that is an id, and every store holds   *)
(* versions: no listing a flow acts on lacks a newest one.                 *)
THEOREM TypeCorrect == Spec => []TypeOK
<1>1. TypeInv => TypeOK
  BY DEF TypeInv
<1> QED BY <1>1, TypeAlways, PTL
-----------------------------------------------------------------------------
(* Clocks that agree make ids grow: each is one more than all before it.   *)
Consecutive ==
    "skew" \notin Events => minted = 1 .. Cardinality(minted)

Inv == TypeInv /\ Consecutive

(* What the store makes of an upload it stores. *)
LEMMA StoredIsPruned ==
    ASSUME TypeInv, NEW p \in PC, StoreUpload(p), upload'[p].outcome = "stored"
    PROVE  \E id \in NewIds :
               /\ upload'[p].id = id
               /\ minted' = minted \cup {id}
               /\ store'[p] = Pruned(store[p] \cup {Added(p, id)})
<1> DEFINE answer == Verdict(store[p], p, upload[p].base, upload[p].force)
<1>1. PICK id \in IF answer = "stored" THEN NewIds ELSE {NoId} :
          /\ upload' = [upload EXCEPT ![p].at = "stored",
                                      ![p].outcome = answer, ![p].id = id]
          /\ IF answer = "stored"
             THEN /\ minted' = minted \cup {id}
                  /\ Write(p, Pruned(store[p] \cup {Added(p, id)}))
             ELSE UNCHANGED <<store, removed, minted>>
  BY DEF StoreUpload, Added
<1>2. upload[p] \in Upload /\ upload \in [PC -> Upload]
  BY DEF TypeInv, TypeOK
<1>3. upload'[p].outcome = answer /\ upload'[p].id = id
  <2> HIDE DEF answer
  <2> QED BY <1>1, <1>2 DEF Upload
<1>4. answer = "stored"
  BY <1>3
<1>5. store'[p] = Pruned(store[p] \cup {Added(p, id)})
  BY <1>1, <1>4 DEF Write, TypeInv, TypeOK
<1> QED BY <1>1, <1>3, <1>4, <1>5

LEMMA NextIdIsLast ==
    ASSUME Inv, "skew" \notin Events
    PROVE  NewIds = {Cardinality(minted) + 1}
<1>1. Cardinality(minted) \in Nat
  BY FS_CardinalityType DEF Inv, TypeInv, StoredWasMinted
<1>2. \A n \in 1 .. Cardinality(minted) + 1 :
          n \notin minted <=> n = Cardinality(minted) + 1
  BY <1>1 DEF Inv, Consecutive
<1> QED BY <1>1, <1>2 DEF NewIds

LEMMA ConsecutiveNext ==
    ASSUME Inv, [Next]_vars
    PROVE  Consecutive'
<1>1. ASSUME NEW p \in PC, StoreUpload(p), "skew" \notin Events
      PROVE  minted' = 1 .. Cardinality(minted')
  <2> DEFINE c == Cardinality(minted)
  <2>1. c \in Nat /\ minted = 1..c
    BY <1>1, FS_CardinalityType DEF Inv, TypeInv, StoredWasMinted, Consecutive
  <2>2. CASE minted' = minted
    BY <2>1, <2>2
  <2>3. CASE minted' # minted
    <3>1. PICK id \in NewIds : minted' = minted \cup {id}
      BY <1>1, <2>3 DEF StoreUpload
    <3>2. id = c + 1
      BY <1>1, <3>1, NextIdIsLast
    <3> HIDE DEF c
    <3>3. minted' = 1 .. c + 1
      BY <2>1, <3>1, <3>2
    <3>4. Cardinality(1 .. c + 1) = c + 1
      BY <2>1, FS_Interval
    <3> QED BY <3>3, <3>4
  <2> QED BY <2>2, <2>3
<1>2. (\A p \in PC : ~StoreUpload(p)) => minted' = minted
  BY ZenonT(60) DEF Next, LaunchStep, UploadStep, UserStep, Launch, LaunchOffline, Check, Compare,
     FetchNewest, SkipRestore, PutBack, FailRestore, StartGame, FailGame, Play, ExitGame, BackUp,
     ListForUpload, RecordUpload, UploadUnreached, UploadFails, Retry, AnswerRestore, AnswerKeep,
     DismissOffer, KeepLocal, KeepBoth, KeepRemote, RestoreByHand, DismissConflict,
     RestoreOld, BackUpByHand, SetLocked, Delete, SkipUpload, LoseStore, FindStore,
     CatchUp, Crash, vars, shared
<1> QED BY <1>1, <1>2 DEF Inv, Consecutive

LEMMA InvAlways == Spec => []Inv
<1>1. Init => Inv
  <2>1. Init => Cardinality(minted) = 0
    BY FS_EmptySet DEF Init
  <2>2. Init => Consecutive
    BY <2>1 DEF Init, Consecutive
  <2> QED BY <2>2, TypeInit DEF Inv
<1>2. Inv /\ [Next]_vars => Inv'
  BY TypeNext, ConsecutiveNext DEF Inv
<1> QED BY <1>1, <1>2, PTL DEF Spec

(* With clocks that agree, the cleanup after an upload never takes a       *)
(* locked version, nor the one just uploaded, for any retention limit.     *)
THEOREM CleanupSpares ==
    ASSUME "skew" \notin Events
    PROVE  Spec => PruningSpares
<1>1. ASSUME Inv, NEW p \in PC, StoreUpload(p), upload'[p].outcome = "stored"
      PROVE  (locked \cap {v.id : v \in store[p]}) \cup {upload'[p].id}
                 \subseteq {v.id : v \in store'[p]}
  <2>1. PICK id \in NewIds :
            /\ upload'[p].id = id
            /\ store'[p] = Pruned(store[p] \cup {Added(p, id)})
    BY <1>1, StoredIsPruned DEF Inv
  <2> DEFINE all == store[p] \cup {Added(p, id)}
  <2>2. \A w \in all : w.id \in Nat /\ w.id <= id
    <3>1. Cardinality(minted) \in Nat /\ minted = 1 .. Cardinality(minted)
      BY <1>1, FS_CardinalityType DEF Inv, TypeInv, StoredWasMinted, Consecutive
    <3>2. id = Cardinality(minted) + 1
      BY <1>1, <2>1, NextIdIsLast
    <3>3. \A w \in store[p] : w.id \in minted
      BY <1>1 DEF Inv, TypeInv, StoredWasMinted, IdsOf
    <3>4. Added(p, id).id = id
      BY DEF Added
    <3> QED BY <3>1, <3>2, <3>3, <3>4
  <2>3. Added(p, id) \in Pruned(all)
    <3>1. Added(p, id).id = id
      BY DEF Added
    <3>2. {w \in all : w.id \notin locked /\ w.id > Added(p, id).id} = {}
      BY <2>2, <3>1
    <3>3. Cardinality({w \in all : w.id \notin locked /\ w.id > Added(p, id).id}) < MaxVersions
      BY <3>2, FS_EmptySet, SaveSyncAssumption
    <3> QED BY <3>3 DEF Pruned
  <2>4. \A v \in store[p] : v.id \in locked => v \in Pruned(all)
    BY DEF Pruned
  <2>5. upload'[p].id \in {v.id : v \in store'[p]}
    BY <2>1, <2>3 DEF Added
  <2> HIDE DEF all
  <2> QED BY <2>1, <2>4, <2>5 DEF all
<1>2. Inv /\ [Next]_vars =>
          [\A p \in PC :
              (StoreUpload(p) /\ upload'[p].outcome = "stored")
                  => (locked \cap {v.id : v \in store[p]}) \cup {upload'[p].id}
                         \subseteq {v.id : v \in store'[p]}]_vars
  BY <1>1
<1> QED BY <1>2, InvAlways, PTL DEF Spec, PruningSpares
-----------------------------------------------------------------------------
(* Every version any PC sees. *)
Listed == UNION {store[q] : q \in PC}

OneSystem == \A p, q \in PC : InterchangeableWith(PlatformOf[p], PlatformOf[q])

(* What keeps uploads in line: no deletion by hand moves a record to a     *)
(* version its PC never held, no launch restores into the staging          *)
(* directory an upload packs, and either saves of all PCs restore on each  *)
(* other or nothing is stored between an upload's listing and the upload.  *)
InLineEvents ==
    /\ {"delete", "overlap"} \cap Events = {}
    /\ OneSystem \/ {"race", "lag", "failing"} \cap Events = {}

(* The version with this id, wherever it is listed, restores on p, and     *)
(* `data` holds what it holds but for what users chose against.            *)
Covers(p, id, data) ==
    \A v \in Listed :
        v.id = id => RestorableHere(v, HereOf(p)) /\ v.data \subseteq data \cup settled

(* p has seen this version, and its listing never falls back behind it.    *)
Reached(p, id) == id = NoId \/ (id \in minted /\ \E v \in store[p] : v.id >= id)

(* p's record names no version its next upload could go on top of.         *)
Behind(p, synced) == "failing" \in Events /\ \E v \in store[p] : v.id > synced

(* Where the versions are. *)
StoreSound ==
    /\ removed \subseteq minted
    /\ \A v, w \in Listed : v.id = w.id => v = w
    /\ \A v \in Listed : v.id \in removed => \E w \in Listed : w.id > v.id
    /\ \A v \in Listed : \E q \in PC : v.platform = PlatformOf[q]
    /\ "lag" \in Events \/ \A p, q \in PC : store[p] = store[q]

OneLists ==
    "race" \in Events \/
        \A p, q \in PC : upload[p].at = "listed" /\ upload[q].at = "listed" => p = q

(* One PC: its record, its save files and its staging directory beside its *)
(* launch and its upload.                                                  *)
InStep(p, synced, files, staged, g, u) ==
    /\ Reached(p, synced) /\ Reached(p, g.newest) /\ Reached(p, u.id)
    /\ u.at # "idle" => g.at \in {"idle", "offered"} /\ u.base = synced
    /\ u.at \in {"staged", "listed"} => staged = files
    /\ u.at = "stored" /\ u.outcome = "stored" => Covers(p, u.id, files)
    /\ u.force => u.why = "choice" \/ (u.at \in {"listed", "stored"} /\ ~OneSystem)
    /\ (u.at = "listed" /\ u.force /\ u.why # "choice") =>
           NewestUsableId(store[p], HereOf(p)) = u.base
    /\ Covers(p, synced, files) \/ Behind(p, synced)
    /\ g.at = "fetched" =>
           /\ g.newest # NoId /\ Covers(p, g.newest, staged)
           /\ "failing" \in Events => g.newest >= synced
    /\ g.at = "comparing" =>
           \A v \in Listed : v.id = g.newest => RestorableHere(v, HereOf(p))

InStepHere(p) ==
    InStep(p, record[p].lastSynced, live[p], staging[p], game[p], upload[p])

LineInv ==
    /\ TypeInv /\ StoreSound /\ OneLists
    /\ \A p \in PC : InStepHere(p)
-----------------------------------------------------------------------------
(* Every version that is listed is one, and its id was given out.          *)
LEMMA ListedTyped ==
    ASSUME TypeInv
    PROVE  /\ Listed \subseteq Version
           /\ \A v \in Listed : v.id \in minted /\ v.id \in Nat /\ v.id # NoId
           /\ IsFiniteSet(IdsOf(Listed)) /\ IdsOf(Listed) \subseteq Nat
<1>1. Listed \subseteq Version
  BY DEF TypeInv, TypeOK, Listed
<1>2. \A v \in Listed : v.id \in minted
  BY DEF TypeInv, StoredWasMinted, Listed, IdsOf
<1>3. \A v \in Listed : v.id \in Nat /\ v.id # NoId
  BY <1>1 DEF Version
<1>4. IdsOf(Listed) \in SUBSET minted
  BY <1>2 DEF IdsOf
<1>5. IsFiniteSet(IdsOf(Listed))
  BY <1>4, FS_Subset DEF TypeInv, StoredWasMinted
<1>6. IdsOf(Listed) \subseteq Nat
  BY <1>3 DEF IdsOf
<1> QED BY <1>1, <1>2, <1>3, <1>5, <1>6

LEMMA NothingCovered ==
    ASSUME TypeInv, NEW p \in PC, NEW data
    PROVE  Covers(p, NoId, data) /\ Reached(p, NoId)
BY ListedTyped DEF Covers, Reached

(* The newest version p sees, and the newest one it can use. *)
LEMMA NewestHere ==
    ASSUME TypeInv, NEW p \in PC
    PROVE  /\ \A v \in store[p] :
                  /\ Newest(store[p]) \in store[p]
                  /\ NewestId(store[p]) = Newest(store[p]).id
                  /\ v.id <= NewestId(store[p])
           /\ \A v \in Usable(store[p], HereOf(p)) :
                  /\ NewestUsable(store[p], HereOf(p)) \in Usable(store[p], HereOf(p))
                  /\ NewestUsableId(store[p], HereOf(p))
                         = NewestUsable(store[p], HereOf(p)).id
                  /\ v.id <= NewestUsableId(store[p], HereOf(p))
           /\ Reached(p, NewestUsableId(store[p], HereOf(p)))
<1>1. IdsOf(store[p]) \subseteq IdsOf(Listed)
  BY DEF IdsOf, Listed
<1>2. IdsOf(store[p]) \subseteq Nat /\ IsFiniteSet(IdsOf(store[p]))
  BY <1>1, ListedTyped, FS_Subset
<1>3. store[p] # {} =>
          /\ Newest(store[p]) \in store[p]
          /\ \A w \in store[p] : w.id <= Newest(store[p]).id
  BY <1>2, NewestIsLargest
<1> DEFINE usable == Usable(store[p], HereOf(p))
<1>4. usable # {} =>
          /\ Newest(usable) \in usable
          /\ \A w \in usable : w.id <= Newest(usable).id
  <2>1. IdsOf(usable) \subseteq Nat /\ IsFiniteSet(IdsOf(usable))
    BY <1>2, UsableIds
  <2> HIDE DEF usable
  <2> QED BY <2>1, NewestIsLargest
<1>5. \A v \in store[p] : v.id \in Nat /\ v.id \in minted
  BY <1>2 DEF IdsOf, TypeInv, StoredWasMinted
<1>6. usable \subseteq store[p]
  BY DEF Usable
<1>7. Reached(p, NewestUsableId(store[p], HereOf(p)))
  BY <1>4, <1>5, <1>6 DEF Reached, NewestUsableId, NewestId
<1> QED BY <1>3, <1>4, <1>7 DEF NewestId, NewestUsableId, NewestUsable

LEMMA AllUsable ==
    ASSUME LineInv, OneSystem, NEW p \in PC
    PROVE  Usable(store[p], HereOf(p)) = store[p]
<1>1. \A v \in store[p] : \E q \in PC : v.platform = PlatformOf[q]
  BY DEF LineInv, StoreSound, Listed
<1> QED BY <1>1 DEF Usable, RestorableHere, HereOf, OneSystem

(* Versions p can use are in line with a save that holds the newest one's  *)
(* progress.                                                               *)
LEMMA NewestCovered ==
    ASSUME LineInv, NEW p \in PC, NEW data,
           Usable(store[p], HereOf(p)) # {} =>
               NewestUsable(store[p], HereOf(p)).data \subseteq data \cup settled
    PROVE  Covers(p, NewestUsableId(store[p], HereOf(p)), data)
<1>1. CASE Usable(store[p], HereOf(p)) = {}
  BY <1>1, NothingCovered DEF LineInv, NewestUsableId, NewestId
<1>2. CASE Usable(store[p], HereOf(p)) # {}
  <2> DEFINE n == NewestUsable(store[p], HereOf(p))
  <2>1. n \in Usable(store[p], HereOf(p)) /\ n.id = NewestUsableId(store[p], HereOf(p))
    BY <1>2, NewestHere DEF LineInv
  <2>2. n \in Listed /\ RestorableHere(n, HereOf(p))
    BY <2>1 DEF Usable, Listed
  <2>3. n.data \subseteq data \cup settled
    BY <1>2
  <2> HIDE DEF n
  <2> QED BY <2>1, <2>2, <2>3 DEF Covers, LineInv, StoreSound
<1> QED BY <1>1, <1>2
-----------------------------------------------------------------------------
(* Steps that leave the stored versions alone.                             *)

LEMMA SoundKept ==
    ASSUME StoreSound, UNCHANGED <<store, minted, removed>>
    PROVE  StoreSound'
BY DEF StoreSound, Listed

LEMMA InStepKept ==
    ASSUME NEW p \in PC, NEW synced, NEW files, NEW staged, NEW g, NEW u,
           InStep(p, synced, files, staged, g, u),
           UNCHANGED <<store, minted>>, settled \subseteq settled'
    PROVE  InStep(p, synced, files, staged, g, u)'
<1>1. Listed' = Listed
  BY DEF Listed
<1>2. ASSUME NEW id, NEW data, Covers(p, id, data) PROVE Covers(p, id, data)'
  BY <1>1, <1>2 DEF Covers, HereOf
<1> QED BY <1>1, <1>2 DEF InStep, Reached, Behind, HereOf

Elsewhere(p) ==
    \A q \in PC \ {p} :
        /\ record'[q].lastSynced = record[q].lastSynced
        /\ live'[q] = live[q] /\ staging'[q] = staging[q]
        /\ game'[q] = game[q] /\ upload'[q] = upload[q]

LEMMA LineStep ==
    ASSUME LineInv, TypeInv', NEW p \in PC, Elsewhere(p),
           UNCHANGED <<store, minted, removed>>, settled \subseteq settled',
           InStepHere(p)', OneLists'
    PROVE  LineInv'
<1>1. ASSUME NEW q \in PC, q # p PROVE InStepHere(q)'
  BY <1>1, InStepKept DEF LineInv, InStepHere, Elsewhere
<1> QED BY <1>1, SoundKept DEF LineInv

LEMMA NotListing ==
    ASSUME OneLists, NEW p \in PC, Elsewhere(p),
           upload'[p].at = "listed" => upload[p].at = "listed"
    PROVE  OneLists'
BY DEF OneLists, Elsewhere

(* A step of p that leaves it at these values, which are in step.          *)
LEMMA LineMoves ==
    ASSUME LineInv, TypeInv', NEW p \in PC, Elsewhere(p),
           UNCHANGED <<store, minted, removed>>, settled \subseteq settled',
           NEW synced, NEW files, NEW staged, NEW g, NEW u,
           record'[p].lastSynced = synced, live'[p] = files, staging'[p] = staged,
           game'[p] = g, upload'[p] = u,
           InStep(p, synced, files, staged, g, u),
           u.at = "listed" => upload[p].at = "listed"
    PROVE  LineInv'
<1>1. InStep(p, synced, files, staged, g, u)'
  BY InStepKept
<1>2. InStepHere(p)'
  BY <1>1 DEF InStepHere
<1>3. OneLists'
  BY NotListing DEF LineInv
<1> QED BY <1>2, <1>3, LineStep

(* record_sync notes an id that is one. *)
LEMMA RecordSynced ==
    ASSUME TypeInv, NEW p \in PC, NEW id, NEW hash, RecordSync(p, id, hash)
    PROVE  /\ record'[p].lastSynced = IF id = NoId THEN record[p].lastSynced ELSE id
           /\ \A q \in PC \ {p} : record'[q] = record[q]
<1> DEFINE named == [record EXCEPT ![p].lastSynced = IF id = NoId THEN @ ELSE id]
           marked == [named EXCEPT ![p].backedUp = TRUE]
<1>1. /\ \A q \in PC \ {p} : named[q] = record[q]
      /\ named[p].lastSynced = IF id = NoId THEN record[p].lastSynced ELSE id
      /\ DOMAIN named = PC /\ "lastSynced" \in DOMAIN named[p]
  BY DEF TypeInv, TypeOK, Record
<1>2. marked[p].lastSynced = named[p].lastSynced /\ \A q \in PC \ {p} : marked[q] = named[q]
      /\ DOMAIN marked = PC
  <2> HIDE DEF named
  <2> QED BY <1>1
<1>3. record' = [marked EXCEPT ![p].hash = hash]
  BY DEF RecordSync
<1>4. record'[p].lastSynced = marked[p].lastSynced /\ \A q \in PC \ {p} : record'[q] = marked[q]
  <2> HIDE DEF marked
  <2> QED BY <1>2, <1>3
<1> HIDE DEF named, marked
<1> QED BY <1>1, <1>2, <1>4

(* A launch that goes on: nothing but where it is, and staging, changes.   *)
LEMMA LaunchMoves ==
    ASSUME LineInv, TypeInv', NEW p \in PC, NEW g, NEW staged,
           game' = [game EXCEPT ![p] = g],
           staging' = [staging EXCEPT ![p] = staged],
           UNCHANGED <<store, minted, removed, record, live, upload, settled>>,
           g.at \in {"idle", "offered"} \/ upload[p].at = "idle",
           upload[p].at = "idle" \/ staged = staging[p],
           Reached(p, g.newest),
           g.at = "fetched" =>
               /\ g.newest # NoId /\ Covers(p, g.newest, staged)
               /\ "failing" \in Events => g.newest >= record[p].lastSynced,
           g.at = "comparing" =>
               \A v \in Listed : v.id = g.newest => RestorableHere(v, HereOf(p))
    PROVE  LineInv'
<1>1. Elsewhere(p) /\ game'[p] = g /\ staging'[p] = staged
  BY DEF Elsewhere, LineInv, TypeInv, TypeOK
<1>2. InStep(p, record[p].lastSynced, live[p], staging[p], game[p], upload[p])
  BY DEF LineInv, InStepHere
<1>3. InStep(p, record[p].lastSynced, live[p], staged, g, upload[p])
  BY <1>2, SMTT(30) DEF InStep
<1> QED BY <1>1, <1>3, LineMoves

(* While a launch is beyond its first step no upload runs. *)
LEMMA LaunchAlone ==
    ASSUME LineInv, NEW p \in PC
    PROVE  /\ upload[p] \in Upload /\ game[p] \in Game
           /\ game[p].at \notin {"idle", "offered"} => upload[p].at = "idle"
           /\ Reached(p, game[p].newest)
BY DEF LineInv, InStepHere, InStep, TypeInv, TypeOK

LEMMA LineLaunchSteps ==
    ASSUME LineInv, TypeInv', InLineEvents, NEW p \in PC,
           \/ Launch(p) \/ LaunchOffline(p) \/ Check(p) \/ Compare(p) \/ FetchNewest(p)
           \/ SkipRestore(p) \/ FailGame(p) \/ StartGame(p) \/ DismissOffer(p)
    PROVE  LineInv'
<1> USE DEF shared, disk, memory, ghosts
<1>1. Reached(p, game[p].newest) /\ Reached(p, NoGame.newest)
  BY LaunchAlone, NothingCovered DEF NoGame, LineInv
<1>2. game \in [PC -> Game] /\ staging \in [PC -> Save]
  BY DEF LineInv, TypeInv, TypeOK
<1>3. staging = [staging EXCEPT ![p] = staging[p]]
  BY <1>2
<1>4. ASSUME NEW at \in {"idle", "ready", "offered", "checking", "running", "restoring"}, NEW g,
             game' = [game EXCEPT ![p] = g], g.at = at, g.newest \in {game[p].newest, NoId},
             UNCHANGED <<store, minted, removed, record, live, upload, settled, staging>>,
             at \in {"idle", "offered"} \/ upload[p].at = "idle"
      PROVE  LineInv'
  BY <1>1, <1>3, <1>4, LaunchMoves DEF NoGame
<1>5. \A at : To(p, at) => \E g : g.at = at /\ g.newest = game[p].newest /\ game' = [game EXCEPT ![p] = g]
  BY <1>2 DEF To, Game
<1>6. NoGame.at = "idle" /\ NoGame.newest = NoId
      /\ \A at : [NoGame EXCEPT !.at = at].at = at /\ [NoGame EXCEPT !.at = at].newest = NoId
  BY DEF NoGame
<1>7. CASE Launch(p)
  <2>1. upload[p].at = "idle"
    BY <1>7 DEF Launch, InLineEvents
  <2> QED BY <1>7, <2>1, <1>4, <1>5 DEF Launch
<1>8. CASE LaunchOffline(p)
  BY <1>8, <1>4, <1>5, LaunchAlone DEF LaunchOffline
<1>9. CASE SkipRestore(p)
  BY <1>9, <1>4, <1>6, LaunchAlone DEF SkipRestore
<1>10. CASE FailGame(p) \/ DismissOffer(p)
  BY <1>10, <1>4, <1>6 DEF FailGame, DismissOffer, BackToIdle
<1>11. CASE StartGame(p)
  BY <1>11, <1>4, <1>5, LaunchAlone DEF StartGame
<1>12. CASE Check(p)
  <2>0. PICK g : \E scanned \in Scans :
                     /\ g = [at |-> JudgeLaunch(p, scanned),
                             newest |-> IF JudgeLaunch(p, scanned) = "comparing"
                                        THEN NewestUsableId(store[p], HereOf(p)) ELSE NoId]
                     /\ game' = [game EXCEPT ![p] = g]
                     /\ asked' = [asked EXCEPT ![p] =
                                     IF JudgeLaunch(p, scanned) = "idle" THEN "launch" ELSE @]
    BY <1>12 DEF Check
  <2>1. g.at \in {"ready", "restoring", "comparing", "idle"}
    BY <2>0 DEF JudgeLaunch, FirstStart
  <2>2. /\ g = [at |-> g.at, newest |-> IF g.at = "comparing"
                                        THEN NewestUsableId(store[p], HereOf(p)) ELSE NoId]
        /\ asked' = [asked EXCEPT ![p] = IF g.at = "idle" THEN "launch" ELSE @]
    BY <2>0
  <2>3. game' = [game EXCEPT ![p] = g]
    BY <2>0
  <2>4. CASE g.at # "comparing"
    BY <1>12, <1>4, <2>1, <2>2, <2>3, <2>4, LaunchAlone DEF Check
  <2>5. CASE g.at = "comparing"
    <3>1. g.newest = NewestUsableId(store[p], HereOf(p))
      BY <2>2, <2>5
    <3>2. Covers(p, g.newest, NewestUsable(store[p], HereOf(p)).data)
      BY <3>1, NewestCovered
    <3>3. Reached(p, g.newest)
      BY <3>1, NewestHere DEF LineInv
    <3> QED BY <1>3, <1>12, <2>3, <2>5, <3>2, <3>3, LaunchAlone, LaunchMoves DEF Check, Covers
  <2> QED BY <2>4, <2>5
<1>13. CASE FetchNewest(p)
  <2>1. CASE BackToIdle(p) /\ UNCHANGED <<staging, archive>>
    BY <1>13, <1>4, <1>6, <2>1 DEF FetchNewest, BackToIdle
  <2>2. CASE /\ Usable(store[p], HereOf(p)) # {}
             /\ Fetch(p, NewestUsable(store[p], HereOf(p)))
             /\ game' = [game EXCEPT ![p] =
                    [at |-> "fetched", newest |-> NewestUsableId(store[p], HereOf(p))]]
    <3> DEFINE n == NewestUsable(store[p], HereOf(p))
    <3>1. PICK g : g = [at |-> "fetched", newest |-> NewestUsableId(store[p], HereOf(p))]
      OBVIOUS
    <3>2. Covers(p, g.newest, n.data)
      BY <3>1, NewestCovered
    <3>3. Reached(p, g.newest)
      BY <3>1, NewestHere DEF LineInv
    <3>4. ASSUME "failing" \in Events PROVE g.newest >= record[p].lastSynced
      <4>1. Reached(p, record[p].lastSynced)
        BY DEF LineInv, InStepHere, InStep
      <4>2. \A v \in store[p] : v.id <= NewestUsableId(store[p], HereOf(p))
        BY <3>4, AllUsable, NewestHere DEF LineInv, InLineEvents
      <4>3. /\ record[p].lastSynced \in Nat /\ \A v \in store[p] : v.id \in Nat
            /\ NewestUsableId(store[p], HereOf(p)) \in Nat
        BY NewestTyped DEF LineInv, TypeInv, TypeOK, Record, Version
      <4> QED BY <3>1, <4>1, <4>2, <4>3 DEF Reached, NoId
    <3>5. staging' = [staging EXCEPT ![p] = n.data] /\ game' = [game EXCEPT ![p] = g]
      BY <2>2, <3>1 DEF Fetch
    <3>6. UNCHANGED <<store, minted, removed, record, live, upload, settled>>
          /\ game[p].at = "restoring" /\ g.at = "fetched"
      BY <1>13, <3>1 DEF FetchNewest
    <3>7. g.newest # NoId
      <4>1. n \in Listed /\ g.newest = n.id
        BY <2>2, <3>1, NewestHere DEF LineInv, Usable, Listed
      <4> QED BY <4>1, ListedTyped DEF LineInv
    <3> HIDE DEF n
    <3> QED BY <3>2, <3>3, <3>4, <3>5, <3>6, <3>7, LaunchAlone, LaunchMoves
  <2> QED BY <1>13, <2>1, <2>2 DEF FetchNewest, NewestUsable, NewestUsableId
<1>14. CASE Compare(p)
  <2>1. /\ game[p].at = "comparing" /\ upload[p].at = "idle"
        /\ UNCHANGED <<store, minted, removed, live, upload, settled>>
    BY <1>14, LaunchAlone DEF Compare
  <2>2. CASE /\ game' = [game EXCEPT ![p] = [NoGame EXCEPT !.at = "ready"]]
             /\ UNCHANGED <<record, staging, archive>>
    BY <1>4, <1>6, <2>1, <2>2
  <2>3. CASE /\ game' = [game EXCEPT ![p] = [NoGame EXCEPT !.at = "offered"]]
             /\ UNCHANGED <<record, staging, archive>>
    BY <1>4, <1>6, <2>1, <2>3
  <2>4. ASSUME NEW version \in WithId(store[p], game[p].newest), Fetch(p, version),
               game' = [game EXCEPT ![p] = [NoGame EXCEPT !.at = "offered"]],
               UNCHANGED record
        PROVE  LineInv'
    <3>1. staging' = [staging EXCEPT ![p] = version.data]
      BY <2>4 DEF Fetch
    <3> QED BY <1>1, <1>6, <2>1, <2>4, <3>1, LaunchMoves
  <2>5. ASSUME NEW version \in WithId(store[p], game[p].newest), Fetch(p, version),
               live[p] = version.data, RecordSync(p, version.id, version.data),
               game' = [game EXCEPT ![p] = [NoGame EXCEPT !.at = "ready"]]
        PROVE  LineInv'
    <3>1. version \in Listed /\ version \in store[p] /\ version.id = game[p].newest
      BY DEF WithId, Listed
    <3>2. version.id \in Nat /\ version.id # NoId /\ version.id \in minted
      BY <3>1, ListedTyped DEF LineInv
    <3>3. Covers(p, version.id, live[p])
      <4>1. RestorableHere(version, HereOf(p))
        BY <2>1, <3>1 DEF LineInv, InStepHere, InStep
      <4> QED BY <2>5, <3>1, <4>1 DEF Covers, LineInv, StoreSound
    <3>4. Reached(p, version.id)
      BY <3>1, <3>2 DEF Reached
    <3>5. /\ record'[p].lastSynced = version.id
          /\ \A q \in PC \ {p} : record'[q] = record[q]
      BY <2>5, <3>2, RecordSynced DEF LineInv
    <3>6. staging'[p] = version.data /\ \A q \in PC \ {p} : staging'[q] = staging[q]
      BY <1>2, <2>5 DEF Fetch
    <3>7. PICK g : g = [NoGame EXCEPT !.at = "ready"]
      OBVIOUS
    <3>8. game'[p] = g /\ g.at = "ready" /\ g.newest = NoId
          /\ \A q \in PC \ {p} : game'[q] = game[q]
      BY <1>2, <1>6, <2>5, <3>7
    <3>9. InStep(p, version.id, live[p], version.data, g, upload[p])
      <4>1. InStepHere(p)
        BY DEF LineInv
      <4> QED BY <1>1, <1>6, <2>1, <3>3, <3>4, <3>8, <4>1 DEF InStep, InStepHere, NoGame
    <3> QED BY <2>1, <3>5, <3>6, <3>8, <3>9, LineMoves DEF Elsewhere
  <2> QED BY <1>14, <2>2, <2>3, <2>4, <2>5 DEF Compare
<1> QED BY <1>7, <1>8, <1>9, <1>10, <1>11, <1>12, <1>13, <1>14

LEMMA LinePutBack ==
    ASSUME LineInv, TypeInv', NEW p \in PC, PutBack(p)
    PROVE  LineInv'
<1>1. /\ game[p].at = "fetched" /\ upload[p].at = "idle"
      /\ UNCHANGED <<store, minted, removed, staging, upload, settled>>
  BY LaunchAlone DEF PutBack, shared, ghosts
<1>2. InStep(p, record[p].lastSynced, live[p], staging[p], game[p], upload[p])
  BY DEF LineInv, InStepHere
<1>3. /\ record'[p].lastSynced = game[p].newest
      /\ \A q \in PC \ {p} : record'[q] = record[q]
  BY <1>1, <1>2, RecordSynced DEF PutBack, LineInv, InStep
<1>4. live'[p] = staging[p] /\ \A q \in PC \ {p} : live'[q] = live[q]
  BY DEF PutBack, LineInv, TypeInv, TypeOK
<1>5. PICK g : g = [NoGame EXCEPT !.at = "ready"]
  OBVIOUS
<1>6. g.at = "ready" /\ g.newest = NoId
  BY <1>5 DEF NoGame
<1>7. game'[p] = g /\ \A q \in PC \ {p} : game'[q] = game[q]
  BY <1>5 DEF PutBack, LineInv, TypeInv, TypeOK
<1>8. InStep(p, game[p].newest, staging[p], staging[p], g, upload[p])
  BY <1>1, <1>2, <1>6, NothingCovered DEF InStep, LineInv
<1> QED BY <1>1, <1>3, <1>4, <1>6, <1>7, <1>8, LineMoves DEF Elsewhere

LEMMA LineFailRestore ==
    ASSUME LineInv, TypeInv', NEW p \in PC, FailRestore(p)
    PROVE  LineInv'
<1>1. /\ game[p].at = "fetched" /\ upload[p].at = "idle" /\ "failing" \in Events
      /\ UNCHANGED <<store, minted, removed, record, staging, upload, settled>>
  BY LaunchAlone DEF FailRestore, shared, ghosts
<1>2. InStep(p, record[p].lastSynced, live[p], staging[p], game[p], upload[p])
  BY DEF LineInv, InStepHere
<1>3. live'[p] \in {live[p], staging[p]} /\ \A q \in PC \ {p} : live'[q] = live[q]
  BY DEF FailRestore, LineInv, TypeInv, TypeOK
<1>4. game'[p] = NoGame /\ \A q \in PC \ {p} : game'[q] = game[q]
  BY DEF FailRestore, BackToIdle, LineInv, TypeInv, TypeOK
<1>5. Covers(p, record[p].lastSynced, staging[p]) \/ Behind(p, record[p].lastSynced)
  <2>1. CASE game[p].newest = record[p].lastSynced
    BY <1>1, <1>2, <2>1 DEF InStep
  <2>2. CASE game[p].newest # record[p].lastSynced
    <3>1. /\ game[p].newest \in Nat /\ record[p].lastSynced \in Nat
          /\ \A v \in store[p] : v.id \in Nat
      BY DEF LineInv, TypeInv, TypeOK, Record, Version, Game
    <3> QED BY <1>1, <1>2, <2>2, <3>1 DEF InStep, Reached, Behind
  <2> QED BY <2>1, <2>2
<1>6. \A files \in {live[p], staging[p]} :
          InStep(p, record[p].lastSynced, files, staging[p], NoGame, upload[p])
  BY <1>1, <1>2, <1>5, NothingCovered DEF InStep, LineInv, NoGame
<1> QED BY <1>1, <1>3, <1>4, <1>6, LineMoves DEF Elsewhere

LEMMA LinePlay ==
    ASSUME LineInv, TypeInv', NEW p \in PC, Play(p)
    PROVE  LineInv'
<1>1. /\ game[p].at = "running" /\ upload[p].at = "idle"
      /\ UNCHANGED <<store, minted, removed, record, staging, game, upload, settled>>
  BY LaunchAlone DEF Play, shared, flows
<1>2. live[p] \subseteq live'[p] /\ \A q \in PC \ {p} : live'[q] = live[q]
  BY DEF Play, LineInv, TypeInv, TypeOK
<1>3. PICK files : files = live'[p]
  OBVIOUS
<1>4. InStep(p, record[p].lastSynced, live[p], staging[p], game[p], upload[p])
  BY DEF LineInv, InStepHere
<1>5. Covers(p, record[p].lastSynced, live[p]) => Covers(p, record[p].lastSynced, files)
  BY <1>2, <1>3 DEF Covers
<1>6. InStep(p, record[p].lastSynced, files, staging[p], game[p], upload[p])
  BY <1>1, <1>4, <1>5 DEF InStep
<1> QED BY <1>1, <1>2, <1>3, <1>6, LineMoves DEF Elsewhere
-----------------------------------------------------------------------------
(* Uploads.  One begins on the version the record names, and is forced     *)
(* from the start only when a user chose what it uploads.                  *)
LEMMA Begun ==
    ASSUME TypeInv, NEW p \in PC, NEW why, NEW force, Begin(p, why, force)
    PROVE  /\ upload'[p].at = "scan" /\ upload'[p].why = why /\ upload'[p].force = force
           /\ upload'[p].base = record[p].lastSynced
           /\ upload'[p].id = NoId /\ upload'[p].outcome = "none"
           /\ \A q \in PC \ {p} : upload'[q] = upload[q]
BY DEF Begin, TypeInv, TypeOK, NoUpload

LEMMA LineBegins ==
    ASSUME LineInv, TypeInv', NEW p \in PC, NEW why, NEW force, Begin(p, why, force),
           force => why = "choice", NEW g, game'[p] = g, g.at \in {"idle", "offered"},
           g.newest \in {game[p].newest, NoId},
           \A q \in PC \ {p} : game'[q] = game[q],
           UNCHANGED <<store, minted, removed, record, live, staging, settled>>
    PROVE  LineInv'
<1>1. PICK u : u = upload'[p]
  OBVIOUS
<1>2. InStep(p, record[p].lastSynced, live[p], staging[p], game[p], upload[p])
  BY DEF LineInv, InStepHere
<1>3. /\ u.at = "scan" /\ u.why = why /\ u.force = force /\ u.base = record[p].lastSynced
      /\ u.id = NoId /\ \A q \in PC \ {p} : upload'[q] = upload[q]
  BY <1>1, Begun DEF LineInv
<1>4. InStep(p, record[p].lastSynced, live[p], staging[p], g, u)
  BY <1>2, <1>3, NothingCovered DEF InStep, LineInv
<1> QED BY <1>1, <1>3, <1>4, LineMoves DEF Elsewhere

LEMMA LineExit ==
    ASSUME LineInv, TypeInv', NEW p \in PC, ExitGame(p)
    PROVE  LineInv'
<1>1. game'[p] = NoGame /\ \A q \in PC \ {p} : game'[q] = game[q]
  BY DEF ExitGame, BackToIdle, LineInv, TypeInv, TypeOK
<1>2. UNCHANGED <<store, minted, removed, record, live, staging, settled>>
  BY DEF ExitGame, shared, disk, ghosts
<1>3. NoGame.at = "idle" /\ NoGame.newest = NoId
  BY DEF NoGame
<1>4. CASE UNCHANGED upload
  <2>1. upload[p].at = "idle" /\ game' = [game EXCEPT ![p] = NoGame]
        /\ staging' = [staging EXCEPT ![p] = staging[p]]
    BY <1>2 DEF ExitGame, BackToIdle, LineInv, TypeInv, TypeOK
  <2> QED BY <1>2, <1>3, <1>4, <2>1, LaunchMoves, NothingCovered DEF LineInv
<1>5. CASE Begin(p, "exit", FALSE)
  BY <1>1, <1>2, <1>3, <1>5, LineBegins
<1> QED BY <1>4, <1>5 DEF ExitGame

LEMMA LineBeginSteps ==
    ASSUME LineInv, TypeInv', InLineEvents, NEW p \in PC,
           Retry(p) \/ KeepLocal(p) \/ KeepBoth(p) \/ BackUpByHand(p)
    PROVE  LineInv'
<1> USE DEF shared, disk, memory, ghosts
<1>1. CASE Retry(p)
  <2>1. game[p].at = "idle"
    BY <1>1 DEF Retry, InLineEvents
  <2> QED BY <1>1, <2>1, LineBegins DEF Retry
<1>2. CASE KeepLocal(p)
  BY <1>2, LineBegins DEF KeepLocal, MayChoose, Quiet
<1>3. CASE KeepBoth(p)
  BY <1>3, LineBegins DEF KeepBoth, MayChoose, Quiet
<1>4. CASE BackUpByHand(p)
  BY <1>4, LineBegins DEF BackUpByHand, Quiet
<1> QED BY <1>1, <1>2, <1>3, <1>4

(* An upload that is over leaves a PC in step whose record is.             *)
LEMMA LineEnds ==
    ASSUME LineInv, TypeInv', NEW p \in PC, upload'[p] = NoUpload,
           \A q \in PC \ {p} : upload'[q] = upload[q],
           NEW g, g \in {game[p], NoGame}, game'[p] = g, g.at \in {"idle", "offered"},
           \A q \in PC \ {p} : game'[q] = game[q],
           NEW synced, record'[p].lastSynced = synced,
           \A q \in PC \ {p} : record'[q].lastSynced = record[q].lastSynced,
           Reached(p, synced), Covers(p, synced, live[p]) \/ Behind(p, synced),
           UNCHANGED <<store, minted, removed, live, staging, settled>>
    PROVE  LineInv'
<1>1. InStep(p, record[p].lastSynced, live[p], staging[p], game[p], upload[p])
  BY DEF LineInv, InStepHere
<1>2. InStep(p, synced, live[p], staging[p], g, NoUpload)
  BY <1>1, NothingCovered DEF InStep, LineInv, NoUpload, NoGame
<1> QED BY <1>2, LineMoves DEF Elsewhere, NoUpload

LEMMA UploadOver ==
    ASSUME TypeInv, NEW p \in PC, UploadEnds(p)
    PROVE  /\ upload'[p] = NoUpload /\ \A q \in PC \ {p} : upload'[q] = upload[q]
           /\ game'[p] \in {game[p], NoGame} /\ \A q \in PC \ {p} : game'[q] = game[q]
BY DEF UploadEnds, TypeInv, TypeOK

(* While an upload runs, the launch rests and the record is what it was.   *)
LEMMA UploadAlone ==
    ASSUME LineInv, NEW p \in PC
    PROVE  /\ upload[p] \in Upload /\ game[p] \in Game
           /\ upload[p].at # "idle" => game[p].at \in {"idle", "offered"}
           /\ NoGame.at = "idle" /\ Reached(p, record[p].lastSynced)
           /\ Covers(p, record[p].lastSynced, live[p]) \/ Behind(p, record[p].lastSynced)
BY DEF LineInv, InStepHere, InStep, TypeInv, TypeOK, NoGame

LEMMA LineEndSteps ==
    ASSUME LineInv, TypeInv', NEW p \in PC, upload[p].at # "idle", UploadEnds(p),
           \A q \in PC : record'[q].lastSynced = record[q].lastSynced,
           UNCHANGED <<store, minted, removed, live, staging, settled>>
    PROVE  LineInv'
<1>1. PICK g : g = game'[p]
  OBVIOUS
<1>2. g \in {game[p], NoGame} /\ g.at \in {"idle", "offered"}
  BY <1>1, UploadOver, UploadAlone DEF LineInv
<1> QED BY <1>1, <1>2, UploadOver, UploadAlone, LineEnds DEF LineInv

LEMMA LineUploadSteps ==
    ASSUME LineInv, TypeInv', NEW p \in PC,
           BackUp(p) \/ SkipUpload(p) \/ UploadUnreached(p) \/ UploadFails(p)
    PROVE  LineInv'
<1> USE DEF shared, disk, memory, ghosts
<1>1. \A b : \A q \in PC : [record EXCEPT ![p].pending = b][q].lastSynced = record[q].lastSynced
  BY DEF LineInv, TypeInv, TypeOK, Record
<1>2. CASE BackUp(p) /\ UploadEnds(p) /\ UNCHANGED staging
  BY <1>2, LineEndSteps DEF BackUp
<1>3. CASE BackUp(p) /\ staging' = [staging EXCEPT ![p] = live[p]]
           /\ upload' = [upload EXCEPT ![p].at = "staged"] /\ UNCHANGED <<answered, game>>
  <2>1. PICK u : u = [upload[p] EXCEPT !.at = "staged"]
    OBVIOUS
  <2>2. /\ upload'[p] = u /\ \A q \in PC \ {p} : upload'[q] = upload[q]
        /\ staging'[p] = live[p] /\ \A q \in PC \ {p} : staging'[q] = staging[q]
    BY <1>3, <2>1 DEF LineInv, TypeInv, TypeOK
  <2>3. /\ u.at = "staged" /\ u.why = upload[p].why /\ u.force = upload[p].force
        /\ u.base = upload[p].base /\ u.id = upload[p].id
    BY <2>1, UploadAlone DEF Upload
  <2>4. UNCHANGED <<store, minted, removed, record, live, settled>> /\ upload[p].at = "scan"
    BY <1>3 DEF BackUp
  <2>5. InStep(p, record[p].lastSynced, live[p], live[p], game[p], u)
    <3>1. InStep(p, record[p].lastSynced, live[p], staging[p], game[p], upload[p])
      BY DEF LineInv, InStepHere
    <3> QED BY <2>3, <2>4, <3>1, UploadAlone DEF InStep
  <2> QED BY <1>3, <2>2, <2>3, <2>4, <2>5, LineMoves DEF Elsewhere
<1>4. CASE SkipUpload(p)
  BY <1>4, LineEndSteps DEF SkipUpload
<1>5. CASE UploadUnreached(p)
  BY <1>1, <1>5, LineEndSteps DEF UploadUnreached
<1>6. CASE UploadFails(p)
  BY <1>1, <1>6, LineEndSteps DEF UploadFails
<1> QED BY <1>2, <1>3, <1>4, <1>5, <1>6 DEF BackUp

LEMMA LineRecordUpload ==
    ASSUME LineInv, TypeInv', NEW p \in PC, RecordUpload(p)
    PROVE  LineInv'
<1>1. /\ UploadEnds(p) /\ upload[p].at = "stored"
      /\ UNCHANGED <<store, minted, removed, live, staging, settled>>
  BY DEF RecordUpload, shared, ghosts
<1> DEFINE known == [record EXCEPT ![p].pending = StillPending(p)]
           named == [known EXCEPT
                        ![p].lastSynced = IF upload[p].outcome = "stored"
                                          THEN upload[p].id ELSE @]
           marked == [named EXCEPT ![p].backedUp = TRUE]
           synced == IF upload[p].outcome = "stored" THEN upload[p].id
                     ELSE record[p].lastSynced
<1>2. /\ \A q \in PC : known[q].lastSynced = record[q].lastSynced
      /\ DOMAIN known = PC /\ \A q \in PC : "lastSynced" \in DOMAIN known[q]
  BY DEF LineInv, TypeInv, TypeOK, Record
<1>3. /\ \A q \in PC \ {p} : named[q].lastSynced = known[q].lastSynced
      /\ named[p].lastSynced = synced /\ DOMAIN named = PC
  <2> HIDE DEF known
  <2> QED BY <1>2
<1>4. \A q \in PC : marked[q].lastSynced = named[q].lastSynced /\ DOMAIN marked = PC
  <2> HIDE DEF named
  <2> QED BY <1>3
<1>5. CASE upload[p].outcome = "conflict"
  <2>1. record' = known
    BY <1>5 DEF RecordUpload
  <2> HIDE DEF known
  <2> QED BY <1>1, <1>2, <2>1, LineEndSteps
<1>6. CASE upload[p].outcome # "conflict"
  <2>1. record' = [marked EXCEPT ![p].hash = archive[p]]
    BY <1>6 DEF RecordUpload
  <2>2. \A q \in PC : record'[q].lastSynced = marked[q].lastSynced
    <3> HIDE DEF marked
    <3> QED BY <1>4, <2>1
  <2>3. record'[p].lastSynced = synced
        /\ \A q \in PC \ {p} : record'[q].lastSynced = record[q].lastSynced
    <3> HIDE DEF known, named, marked, synced
    <3> QED BY <1>2, <1>3, <1>4, <2>2
  <2>4. Reached(p, synced) /\ (Covers(p, synced, live[p]) \/ Behind(p, synced))
    BY <1>1, UploadAlone DEF LineInv, InStepHere, InStep
  <2>5. PICK g : g = game'[p]
    OBVIOUS
  <2>6. g \in {game[p], NoGame} /\ g.at \in {"idle", "offered"}
    BY <1>1, <2>5, UploadOver, UploadAlone DEF LineInv
  <2> HIDE DEF known, named, marked, synced
  <2> QED BY <1>1, <2>3, <2>4, <2>5, <2>6, UploadOver, LineEnds DEF LineInv
<1> QED BY <1>5, <1>6

LEMMA LineListForUpload ==
    ASSUME LineInv, TypeInv', NEW p \in PC, ListForUpload(p)
    PROVE  LineInv'
<1>1. /\ upload[p].at = "staged"
      /\ UNCHANGED <<store, minted, removed, record, live, staging, game, settled>>
  BY DEF ListForUpload, shared, disk, ghosts
<1> DEFINE passes == upload[p].force
                     \/ PassesOtherSystems(store[p], upload[p].base, HereOf(p))
           there == [upload EXCEPT ![p].at = "listed"]
<1>2. PICK u : u = upload'[p]
  OBVIOUS
<1>3. /\ \A q \in PC \ {p} : there[q] = upload[q]
      /\ there[p].at = "listed" /\ there[p].why = upload[p].why
      /\ there[p].base = upload[p].base /\ there[p].id = upload[p].id
      /\ there[p].force = upload[p].force
      /\ DOMAIN there = PC /\ "force" \in DOMAIN there[p]
  BY DEF LineInv, TypeInv, TypeOK, Upload
<1>4. upload' = [there EXCEPT ![p].force = passes]
  BY <1>3 DEF ListForUpload
<1>5. /\ \A q \in PC \ {p} : upload'[q] = upload[q]
      /\ u.at = "listed" /\ u.why = upload[p].why
      /\ u.base = upload[p].base /\ u.id = upload[p].id
      /\ u.force = passes
  <2> HIDE DEF there, passes
  <2> QED BY <1>2, <1>3, <1>4
<1>6. InStep(p, record[p].lastSynced, live[p], staging[p], game[p], upload[p])
  BY DEF LineInv, InStepHere
<1>7. u.force => u.why = "choice" \/
          (~OneSystem /\ NewestUsableId(store[p], HereOf(p)) = u.base)
  <2>1. upload[p].force => u.why = "choice"
    BY <1>1, <1>5, <1>6 DEF InStep
  <2>2. PassesOtherSystems(store[p], upload[p].base, HereOf(p)) =>
            ~OneSystem /\ NewestUsableId(store[p], HereOf(p)) = u.base
    BY <1>5, AllUsable DEF PassesOtherSystems, NewestUsableId
  <2> QED BY <1>5, <2>1, <2>2
<1>8. InStep(p, record[p].lastSynced, live[p], staging[p], game[p], u)
  BY <1>1, <1>5, <1>6, <1>7 DEF InStep
<1>9. Elsewhere(p)
  BY <1>1, <1>5 DEF Elsewhere
<1>10. InStepHere(p)'
  BY <1>1, <1>2, <1>8, InStepKept DEF InStepHere
<1>11. OneLists'
  BY <1>5 DEF ListForUpload, OneLists
<1> QED BY <1>1, <1>9, <1>10, <1>11, LineStep
-----------------------------------------------------------------------------
(* Choices of a user.  What they give up is settled with the choice.       *)
LEMMA ChosenCovers ==
    ASSUME LineInv, NEW p \in PC, NEW data, UNCHANGED store, settled \subseteq settled',
           Usable(store[p], HereOf(p)) # {} =>
               NewestUsable(store[p], HereOf(p)).data \subseteq data \cup settled',
           NEW id, id = NewestUsableId(store[p], HereOf(p))
    PROVE  Covers(p, id, data)'
<1>1. Listed' = Listed
  BY DEF Listed
<1>2. CASE Usable(store[p], HereOf(p)) = {}
  <2>1. id = NoId
    BY <1>2 DEF NewestUsableId, NewestId
  <2> QED BY <1>1, <2>1, NothingCovered, ListedTyped DEF LineInv, Covers
<1>3. CASE Usable(store[p], HereOf(p)) # {}
  <2> DEFINE n == NewestUsable(store[p], HereOf(p))
  <2>1. n \in Usable(store[p], HereOf(p)) /\ n.id = id
    BY <1>3, NewestHere DEF LineInv
  <2>2. n \in Listed /\ RestorableHere(n, HereOf(p))
    BY <2>1 DEF Usable, Listed
  <2>3. n.data \subseteq data \cup settled'
    BY <1>3
  <2>4. \A v \in Listed : v.id = id => v = n
    <3> HIDE DEF n
    <3> QED BY <2>1, <2>2 DEF LineInv, StoreSound
  <2> HIDE DEF n
  <2> QED BY <1>1, <2>2, <2>3, <2>4 DEF Covers, HereOf
<1> QED BY <1>2, <1>3

(* While p's upload rests, a choice leaves it in step with the version it  *)
(* was about.                                                              *)
LEMMA LineChoice ==
    ASSUME LineInv, TypeInv', NEW p \in PC, NEW synced, NEW files, NEW staged, NEW g, NEW u,
           record'[p].lastSynced = synced, live'[p] = files, staging'[p] = staged,
           game'[p] = g, upload'[p] = u, Elsewhere(p),
           UNCHANGED <<store, minted, removed>>, settled \subseteq settled',
           synced = NewestUsableId(store[p], HereOf(p)),
           Usable(store[p], HereOf(p)) # {} =>
               NewestUsable(store[p], HereOf(p)).data \subseteq files \cup settled',
           u.at \in {"idle", "scan"}, u.force => u.why = "choice", Reached(p, u.id),
           u.at = "scan" => u.base = synced,
           g.at \in {"idle", "offered"}, Reached(p, g.newest)
    PROVE  LineInv'
<1>1. Covers(p, synced, files)' /\ Reached(p, synced)
  BY ChosenCovers, NewestHere DEF LineInv
<1>2. InStep(p, synced, files, staged, g, u)'
  BY <1>1 DEF InStep, Reached
<1>3. InStepHere(p)'
  BY <1>2 DEF InStepHere
<1>4. OneLists'
  BY NotListing DEF LineInv
<1> QED BY <1>3, <1>4, LineStep

LEMMA Idle ==
    ASSUME LineInv, NEW p \in PC, upload[p].at = "idle"
    PROVE  /\ upload[p].force => upload[p].why = "choice"
           /\ Reached(p, upload[p].id) /\ Reached(p, game[p].newest)
BY DEF LineInv, InStepHere, InStep

(* What RestoreChosen puts back, and what it gives up. *)
LEMMA Chosen ==
    ASSUME LineInv, NEW p \in PC, NEW version \in store[p], RestoreChosen(p, version)
    PROVE  /\ live'[p] = version.data /\ staging'[p] = version.data
           /\ archive'[p] = version.data
           /\ \A q \in PC \ {p} : live'[q] = live[q] /\ staging'[q] = staging[q]
           /\ settled \subseteq settled'
           /\ NewestUsable(store[p], HereOf(p)).data \subseteq version.data \cup settled'
BY DEF RestoreChosen, Fetch, LineInv, TypeInv, TypeOK

LEMMA LineByHand ==
    ASSUME LineInv, TypeInv', NEW p \in PC, NEW version \in store[p],
           RestoreByHand(p, version)
    PROVE  LineInv'
<1>1. /\ game[p].at = "idle" /\ upload[p].at = "idle" /\ RestoreChosen(p, version)
      /\ RecordSync(p, NewestUsableId(store[p], HereOf(p)), archive'[p])
      /\ UNCHANGED <<store, minted, removed, game, upload>>
  BY DEF RestoreByHand, Quiet, shared
<1>2. version \in Usable(store[p], HereOf(p))
  BY <1>1 DEF RestoreChosen, Usable
<1>3. NewestUsableId(store[p], HereOf(p)) # NoId
  <2>1. NewestUsable(store[p], HereOf(p)) \in Listed
    BY <1>2, NewestHere DEF LineInv, Usable, Listed
  <2> QED BY <1>2, <2>1, NewestHere, ListedTyped DEF LineInv
<1>4. /\ record'[p].lastSynced = NewestUsableId(store[p], HereOf(p))
      /\ \A q \in PC \ {p} : record'[q] = record[q]
  BY <1>1, <1>3, RecordSynced DEF LineInv
<1> QED BY <1>1, <1>4, Chosen, Idle, LineChoice DEF Elsewhere

LEMMA LineAnswerRestore ==
    ASSUME LineInv, TypeInv', NEW p \in PC, AnswerRestore(p)
    PROVE  LineInv'
<1>1. /\ upload[p].at = "idle" /\ game' = [game EXCEPT ![p] = NoGame]
      /\ UNCHANGED <<store, minted, removed, upload>>
  BY DEF AnswerRestore, BackToIdle, shared
<1>2. PICK version \in store[p] : RestoreChosen(p, version)
  BY DEF AnswerRestore
<1>3. /\ record'[p].lastSynced = NewestUsableId(store[p], HereOf(p))
      /\ \A q \in PC \ {p} : record'[q] = record[q]
  BY DEF AnswerRestore, LineInv, TypeInv, TypeOK, Record
<1>4. game'[p] = NoGame /\ \A q \in PC \ {p} : game'[q] = game[q]
  BY <1>1 DEF LineInv, TypeInv, TypeOK
<1>5. NoGame.at = "idle" /\ Reached(p, NoGame.newest)
  BY NothingCovered DEF NoGame, LineInv
<1> QED BY <1>1, <1>2, <1>3, <1>4, <1>5, Chosen, Idle, LineChoice DEF Elsewhere

LEMMA LineAnswerKeep ==
    ASSUME LineInv, TypeInv', NEW p \in PC, AnswerKeep(p)
    PROVE  LineInv'
<1> DEFINE newest == NewestUsableId(store[p], HereOf(p))
<1>1. /\ game[p].at = "offered" /\ upload[p].at = "idle"
      /\ UNCHANGED <<store, minted, removed, live, staging, game>>
  BY DEF AnswerKeep, shared
<1>2. /\ record'[p].lastSynced = newest
      /\ \A q \in PC \ {p} : record'[q] = record[q]
  <2> DEFINE named == [record EXCEPT ![p].lastSynced = newest]
  <2>1. record' = [named EXCEPT ![p].declined = newest]
    BY DEF AnswerKeep
  <2> HIDE DEF newest
  <2>2. /\ named[p].lastSynced = newest /\ \A q \in PC \ {p} : named[q] = record[q]
        /\ DOMAIN named = PC
    BY DEF LineInv, TypeInv, TypeOK, Record
  <2> HIDE DEF named
  <2> QED BY <2>1, <2>2
<1>3. PICK u : u = upload'[p]
  OBVIOUS
<1>4. /\ u.at = "scan" /\ u.force = FALSE /\ u.base = newest /\ u.id = NoId
      /\ \A q \in PC \ {p} : upload'[q] = upload[q]
  <2> DEFINE begun == [NoUpload EXCEPT !.at = "scan", !.why = "offer", !.base = newest,
                                       !.wasPending = record[p].pending]
  <2>1. upload' = [upload EXCEPT ![p] = begun]
    BY DEF AnswerKeep
  <2>2. begun.at = "scan" /\ begun.force = FALSE /\ begun.base = newest /\ begun.id = NoId
    <3> HIDE DEF newest
    <3> QED BY DEF NoUpload
  <2> HIDE DEF begun
  <2> QED BY <1>3, <2>1, <2>2 DEF LineInv, TypeInv, TypeOK
<1>5. /\ settled \subseteq settled'
      /\ Usable(store[p], HereOf(p)) # {} =>
             NewestUsable(store[p], HereOf(p)).data \subseteq live[p] \cup settled'
  <2> DEFINE kept == WithId(store[p], newest)
             offered == UNION {v.data : v \in kept}
  <2>1. settled' = settled \cup (offered \ live[p])
    BY DEF AnswerKeep
  <2>2. ASSUME Usable(store[p], HereOf(p)) # {}
        PROVE  NewestUsable(store[p], HereOf(p)) \in kept
    BY <2>2, NewestHere DEF LineInv, Usable, WithId
  <2>3. \A v \in kept : v.data \subseteq offered
    OBVIOUS
  <2> HIDE DEF kept, offered
  <2> QED BY <2>1, <2>2, <2>3
<1>6. Elsewhere(p)
  BY <1>1, <1>2, <1>4 DEF Elsewhere
<1>7. Reached(p, u.id) /\ Reached(p, game[p].newest)
  BY <1>1, <1>4, Idle, NothingCovered DEF LineInv
<1> HIDE DEF newest
<1> QED BY <1>1, <1>2, <1>3, <1>4, <1>5, <1>6, <1>7, LineChoice DEF newest

LEMMA LineUserSteps ==
    ASSUME LineInv, TypeInv', InLineEvents, NEW p \in PC, UserStep(p)
    PROVE  LineInv'
<1>1. CASE AnswerRestore(p) \/ AnswerKeep(p)
  BY <1>1, LineAnswerRestore, LineAnswerKeep
<1>2. CASE DismissOffer(p)
  BY <1>2, LineLaunchSteps
<1>3. CASE KeepLocal(p) \/ KeepBoth(p) \/ BackUpByHand(p)
  BY <1>3, LineBeginSteps
<1>4. CASE KeepRemote(p)
  <2>1. NewestUsable(store[p], HereOf(p)) \in store[p]
    BY <1>4, NewestTyped DEF KeepRemote, LineInv
  <2> QED BY <1>4, <2>1, LineByHand DEF KeepRemote
<1>5. CASE RestoreOld(p)
  BY <1>5, LineByHand DEF RestoreOld
<1>6. CASE SkipUpload(p)
  BY <1>6, LineUploadSteps
<1>7. CASE Delete(p)
  BY <1>7 DEF Delete, InLineEvents
<1>8. CASE DismissConflict(p) \/ SetLocked(p)
  <2>1. UNCHANGED <<store, minted, removed, record, live, staging, game, upload, settled>>
    BY <1>8, ZenonT(30) DEF DismissConflict, SetLocked, shared, disk, flows, ghosts
  <2>2. \A q \in PC : InStepHere(q)'
    BY <2>1, InStepKept DEF LineInv, InStepHere
  <2> QED BY <2>1, <2>2, SoundKept DEF LineInv, OneLists
<1> QED BY <1>1, <1>2, <1>3, <1>4, <1>5, <1>6, <1>7, <1>8 DEF UserStep
-----------------------------------------------------------------------------
(* Steps that change what is stored.                                       *)

(* No listing falls back: each keeps a version as new as any it had.       *)
KeptTop == \A q \in PC : \A v \in store[q] : \E w \in store'[q] : w.id >= v.id

(* Any version listed now was listed before, or its id is new. *)
OnlyNewIds == \A v \in Listed' : v \in Listed \/ (v.id \notin minted /\ v.id # NoId)

LEMMA InStepMore ==
    ASSUME TypeInv, NEW p \in PC, NEW synced, NEW files, NEW staged, NEW g, NEW u,
           InStep(p, synced, files, staged, g, u), synced \in Nat, g.newest \in Nat, u.id \in Nat,
           TypeInv', KeptTop, OnlyNewIds, minted \subseteq minted', settled \subseteq settled',
           (u.at = "listed" /\ u.force /\ u.why # "choice") => store'[p] = store[p]
    PROVE  InStep(p, synced, files, staged, g, u)'
<1>1. \A q \in PC : \A v \in store[q] : v.id \in Nat
  BY DEF TypeInv, TypeOK, Version
<1>2. \A v \in store'[p] : v.id \in Nat
  BY DEF TypeInv, TypeOK, Version
<1>3. ASSUME NEW id \in Nat, Reached(p, id) PROVE Reached(p, id)'
  BY <1>1, <1>2, <1>3 DEF Reached, KeptTop, NoId
<1>4. ASSUME NEW id, NEW data, Reached(p, id), Covers(p, id, data) PROVE Covers(p, id, data)'
  BY <1>4 DEF Reached, Covers, OnlyNewIds, HereOf
<1>5. Behind(p, synced) => Behind(p, synced)'
  BY <1>1, <1>2 DEF Behind, KeptTop
<1>6. (u.at = "listed" /\ u.force /\ u.why # "choice") =>
          NewestUsableId(store'[p], HereOf(p)) = u.base
  BY DEF InStep
<1>7. g.at = "comparing" =>
          \A v \in Listed' : v.id = g.newest => RestorableHere(v, HereOf(p))
  BY DEF InStep, Reached, OnlyNewIds
<1> QED BY <1>3, <1>4, <1>5, <1>6, <1>7 DEF InStep, HereOf

(* What the store answers an upload, and what becomes of the versions.     *)
Answered(p, id, answer) ==
    /\ upload'[p].at = "stored" /\ upload'[p].outcome = answer /\ upload'[p].id = id
    /\ upload'[p].why = upload[p].why /\ upload'[p].base = upload[p].base
    /\ upload'[p].force = upload[p].force
    /\ \A q \in PC \ {p} : upload'[q] = upload[q]
    /\ \/ answer # "stored" /\ id = NoId /\ UNCHANGED <<store, removed, minted>>
       \/ /\ answer = "stored" /\ id \in NewIds /\ minted' = minted \cup {id}
          /\ Write(p, Pruned(store[p] \cup {Added(p, id)}))

LEMMA UploadAnswered ==
    ASSUME TypeInv, NEW p \in PC, StoreUpload(p)
    PROVE  \E id :
               Answered(p, id, Verdict(store[p], p, upload[p].base, upload[p].force))
<1> DEFINE answer == Verdict(store[p], p, upload[p].base, upload[p].force)
           there  == [upload EXCEPT ![p].at = "stored"]
           told   == [there EXCEPT ![p].outcome = answer]
<1>1. PICK id \in IF answer = "stored" THEN NewIds ELSE {NoId} :
          /\ upload' = [upload EXCEPT ![p].at = "stored",
                                      ![p].outcome = answer, ![p].id = id]
          /\ IF answer = "stored"
             THEN /\ minted' = minted \cup {id}
                  /\ Write(p, Pruned(store[p] \cup {Added(p, id)}))
             ELSE UNCHANGED <<store, removed, minted>>
  BY DEF StoreUpload, Added
<1> HIDE DEF answer
<1>2. /\ \A q \in PC \ {p} : there[q] = upload[q]
      /\ there[p].at = "stored" /\ there[p].why = upload[p].why
      /\ there[p].base = upload[p].base /\ there[p].force = upload[p].force
      /\ DOMAIN there = PC /\ {"outcome", "id"} \subseteq DOMAIN there[p]
  BY DEF TypeInv, TypeOK, Upload
<1>3. /\ \A q \in PC \ {p} : told[q] = there[q]
      /\ told[p].at = there[p].at /\ told[p].why = there[p].why
      /\ told[p].base = there[p].base /\ told[p].force = there[p].force
      /\ told[p].outcome = answer
      /\ DOMAIN told = PC /\ "id" \in DOMAIN told[p]
  <2> HIDE DEF there
  <2> QED BY <1>2
<1>4. upload' = [told EXCEPT ![p].id = id]
  BY <1>1
<1>5. /\ \A q \in PC \ {p} : upload'[q] = told[q]
      /\ upload'[p].at = told[p].at /\ upload'[p].why = told[p].why
      /\ upload'[p].base = told[p].base /\ upload'[p].force = told[p].force
      /\ upload'[p].outcome = told[p].outcome /\ upload'[p].id = id
  <2> HIDE DEF told
  <2> QED BY <1>3, <1>4
<1> HIDE DEF there, told
<1>6. Answered(p, id, answer)
  BY <1>1, <1>2, <1>3, <1>5 DEF Answered
<1> QED BY <1>6 DEF answer

LEMMA StoredTop ==
    ASSUME LineInv, NEW p \in PC, NEW id \in NewIds, NEW all, all = store[p] \cup {Added(p, id)},
           Write(p, Pruned(all))
    PROVE  /\ KeptTop
           /\ \E w \in store'[p] : w.id >= id
           /\ store'[p] = Pruned(all) /\ Listed' \subseteq Listed \cup {Added(p, id)}
           /\ "lag" \in Events \/ \A q \in PC : store'[q] = store'[p]
<1>1. id \in Nat \ {NoId} /\ id \notin minted
  BY NewIdsTyped DEF LineInv
<1>2. IdsOf(all) = IdsOf(store[p]) \cup {id}
  <2>1. PICK new : new = Added(p, id)
    OBVIOUS
  <2>2. new.id = id /\ all = store[p] \cup {new}
    BY <2>1 DEF Added
  <2> QED BY <2>2 DEF IdsOf
<1>3. IdsOf(all) \subseteq Nat /\ IsFiniteSet(IdsOf(all))
  <2>1. IdsOf(store[p]) \subseteq minted /\ minted \subseteq Nat /\ IsFiniteSet(minted)
    BY DEF LineInv, TypeInv, TypeOK, StoredWasMinted
  <2>2. IsFiniteSet(IdsOf(store[p]))
    BY <2>1, FS_Subset
  <2>3. IsFiniteSet(IdsOf(store[p]) \cup {id})
    BY <2>2, FS_AddElement
  <2> QED BY <1>1, <1>2, <2>1, <2>3
<1>4. PICK m \in all : \A v \in all : v.id <= m.id
  <2>1. PICK n \in IdsOf(all) : \A k \in IdsOf(all) : k <= n
    BY <1>2, <1>3, LargestExists
  <2> QED BY <2>1 DEF IdsOf
<1>5. m \in Pruned(all)
  <2>1. \A v \in all : v.id \in Nat
    BY <1>3 DEF IdsOf
  <2>2. {w \in all : w.id \notin locked /\ w.id > m.id} = {}
    BY <1>4, <2>1
  <2>3. Cardinality({w \in all : w.id \notin locked /\ w.id > m.id}) < MaxVersions
    BY <2>2, FS_EmptySet, SaveSyncAssumption
  <2> QED BY <2>3 DEF Pruned
<1>6. store \in [PC -> SUBSET Version] /\ \A v \in all : v.id \in Nat
  BY <1>3 DEF IdsOf, LineInv, TypeInv, TypeOK
<1>7. \A v \in all : v.id <= m.id /\ m.id >= v.id
  BY <1>4, <1>6
<1>8. Added(p, id).id = id /\ Added(p, id) \in all /\ store[p] \subseteq all
      /\ Pruned(all) \subseteq store[p] \cup {Added(p, id)}
  BY DEF Added, Pruned
<1>9. CASE "lag" \in Events
  <2>1. store' = [store EXCEPT ![p] = Pruned(all)]
    BY <1>9 DEF Write
  <2>2. store'[p] = Pruned(all) /\ \A q \in PC \ {p} : store'[q] = store[q]
    BY <1>6, <2>1
  <2>3. KeptTop
    <3>1. \A q \in PC : \A v \in store[q] : v.id \in Nat
      BY <1>6 DEF Version
    <3> QED BY <1>5, <1>7, <1>8, <2>2, <3>1 DEF KeptTop
  <2>4. Listed' \subseteq Listed \cup {Added(p, id)}
    BY <1>8, <2>2 DEF Listed
  <2> QED BY <1>5, <1>7, <1>8, <1>9, <2>2, <2>3, <2>4
<1>10. CASE "lag" \notin Events
  <2>1. \A q \in PC : store'[q] = Pruned(all)
    BY <1>10 DEF Write
  <2>2. \A q \in PC : store[q] = store[p]
    BY <1>10 DEF LineInv, StoreSound
  <2>3. KeptTop
    BY <1>5, <1>7, <1>8, <2>1, <2>2 DEF KeptTop
  <2>4. Listed' \subseteq Listed \cup {Added(p, id)}
    BY <1>8, <2>1 DEF Listed
  <2> QED BY <1>5, <1>7, <1>8, <2>1, <2>3, <2>4
<1> QED BY <1>9, <1>10

LEMMA SoundAfterStored ==
    ASSUME LineInv, TypeInv', NEW p \in PC, NEW id \in NewIds,
           minted' = minted \cup {id}, Write(p, Pruned(store[p] \cup {Added(p, id)}))
    PROVE  StoreSound' /\ OnlyNewIds
<1>1. PICK all : all = store[p] \cup {Added(p, id)}
  OBVIOUS
<1>2. PICK new : new = Added(p, id)
  OBVIOUS
<1>3. /\ KeptTop /\ store'[p] = Pruned(all) /\ Listed' \subseteq Listed \cup {new}
      /\ "lag" \in Events \/ \A q \in PC : store'[q] = store'[p]
  BY <1>1, <1>2, StoredTop
<1>4. new.id = id /\ new.platform = PlatformOf[p] /\ id \notin minted /\ id # NoId
  BY <1>2, NewIdsTyped DEF Added, LineInv
<1>5. /\ \A v \in Listed : v.id \in minted /\ v.id \in Nat
      /\ \A v \in Listed' : v.id \in Nat
  <2>1. Listed' \subseteq Version
    BY DEF TypeInv, TypeOK, Listed
  <2> QED BY <2>1, ListedTyped DEF LineInv, Version
<1>6. removed' = removed \cup ({v.id : v \in store[p]} \ {v.id : v \in store'[p]})
  BY <1>1, <1>3 DEF Write
<1>7. OnlyNewIds
  BY <1>3, <1>4 DEF OnlyNewIds
<1>8. \A w \in Listed : \E m \in Listed' : m.id >= w.id
  BY <1>3 DEF KeptTop, Listed
<1>9. removed' \subseteq minted'
  BY <1>5, <1>6 DEF LineInv, StoreSound, Listed
<1>10. ASSUME NEW v \in Listed', v.id \in removed'
       PROVE  \E w \in Listed' : w.id > v.id
  <2>1. CASE v.id \in removed
    <3>1. v \in Listed
      BY <1>4, <1>3, <2>1 DEF LineInv, StoreSound
    <3>2. PICK w \in Listed : w.id > v.id
      BY <2>1, <3>1 DEF LineInv, StoreSound
    <3>3. PICK m \in Listed' : m.id >= w.id
      BY <1>8
    <3> QED BY <1>5, <3>2, <3>3
  <2>2. CASE v.id \notin removed
    <3>1. PICK u \in store[p] : u.id = v.id
      BY <1>6, <1>10, <2>2
    <3>2. PICK m \in store'[p] : m.id >= u.id
      BY <1>3 DEF KeptTop
    <3>3. m.id # v.id
      BY <1>6, <1>10, <2>2
    <3>4. m \in Listed'
      BY DEF Listed
    <3> QED BY <1>5, <3>1, <3>2, <3>3, <3>4
  <2> QED BY <2>1, <2>2
<1>11. \A v, w \in Listed' : v.id = w.id => v = w
  BY <1>3, <1>4, <1>5 DEF LineInv, StoreSound
<1>12. \A v \in Listed' : \E q \in PC : v.platform = PlatformOf[q]
  BY <1>3, <1>4 DEF LineInv, StoreSound
<1>13. "lag" \in Events \/ \A q, r \in PC : store'[q] = store'[r]
  BY <1>3
<1> QED BY <1>7, <1>9, <1>10, <1>11, <1>12, <1>13 DEF StoreSound

(* One listing at a time: what other PCs are about to store waits.         *)
LEMMA OthersNotListing ==
    ASSUME LineInv, InLineEvents, NEW p \in PC, NEW q \in PC, q # p,
           upload[p].at = "listed"
    PROVE  ~(upload[q].at = "listed" /\ upload[q].force /\ upload[q].why # "choice")
<1>1. OneSystem \/ upload[q].at # "listed"
  BY DEF LineInv, OneLists, InLineEvents
<1>2. upload[q].at = "listed" /\ upload[q].force /\ upload[q].why # "choice" => ~OneSystem
  BY DEF LineInv, InStepHere, InStep
<1> QED BY <1>1, <1>2

LEMMA LineStoreUpload ==
    ASSUME LineInv, TypeInv', InLineEvents, NEW p \in PC, StoreUpload(p)
    PROVE  LineInv'
<1>1. PICK answer : answer = Verdict(store[p], p, upload[p].base, upload[p].force)
  OBVIOUS
<1>2. PICK id : Answered(p, id, answer)
  BY <1>1, UploadAnswered DEF LineInv
<1>3. /\ upload[p].at = "listed" /\ UNCHANGED <<record, live, staging, game>>
      /\ settled \subseteq settled'
  BY DEF StoreUpload
<1>4. /\ StoreSound' /\ OnlyNewIds /\ KeptTop /\ minted \subseteq minted'
      /\ \A q \in PC : store'[q] = store[q] \/ answer = "stored"
  <2>1. CASE answer = "stored"
    BY <1>2, <2>1, SoundAfterStored, StoredTop DEF Answered
  <2>2. CASE answer # "stored"
    <3>1. UNCHANGED <<store, minted, removed>>
      BY <1>2, <2>2 DEF Answered
    <3>2. Listed' = Listed
      BY <3>1 DEF Listed
    <3>3. \A v \in Listed : v.id \in Nat
      BY ListedTyped DEF LineInv
    <3>4. \A q \in PC : \A v \in store[q] : v.id >= v.id
      BY <3>3 DEF Listed
    <3> QED BY <3>1, <3>2, <3>4, SoundKept DEF LineInv, OnlyNewIds, KeptTop
  <2> QED BY <2>1, <2>2
<1>5. \A q \in PC : /\ record[q].lastSynced \in Nat /\ game[q].newest \in Nat
                    /\ upload[q].id \in Nat
  BY DEF LineInv, TypeInv, TypeOK, Record, Game, Upload
<1>6. ASSUME NEW q \in PC, q # p PROVE InStepHere(q)'
  <2>1. InStep(q, record[q].lastSynced, live[q], staging[q], game[q], upload[q])
    BY DEF LineInv, InStepHere
  <2>2. InStep(q, record[q].lastSynced, live[q], staging[q], game[q], upload[q])'
    <3>1. PICK s, f, d, g, u : /\ s = record[q].lastSynced /\ f = live[q] /\ d = staging[q]
                               /\ g = game[q] /\ u = upload[q]
      OBVIOUS
    <3>2. record'[q].lastSynced = s /\ live'[q] = f /\ staging'[q] = d /\ game'[q] = g
          /\ upload'[q] = u
      BY <1>2, <1>3, <1>6, <3>1 DEF Answered
    <3>3. InStep(q, s, f, d, g, u)'
      BY <1>3, <1>4, <1>5, <1>6, <2>1, <3>1, OthersNotListing, InStepMore DEF LineInv
    <3> QED BY <3>2, <3>3
  <2> QED BY <2>2 DEF InStepHere
<1>7. InStepHere(p)'
  <2>1. InStep(p, record[p].lastSynced, live[p], staging[p], game[p], upload[p])
    BY DEF LineInv, InStepHere
  <2>2. PICK s, f, d, g, u : /\ s = record[p].lastSynced /\ f = live[p] /\ d = staging[p]
                             /\ g = game[p] /\ u = upload'[p]
    OBVIOUS
  <2>3. /\ u.at = "stored" /\ u.outcome = answer /\ u.id = id /\ u.why = upload[p].why
        /\ u.base = upload[p].base /\ u.force = upload[p].force
    BY <1>2, <2>2 DEF Answered
  <2>4. PICK rest : rest = [at |-> "stored", why |-> u.why, base |-> u.base,
                            force |-> u.force, outcome |-> "none", id |-> NoId]
    OBVIOUS
  <2>5. /\ rest.at = "stored" /\ rest.why = u.why /\ rest.base = u.base
        /\ rest.force = u.force /\ rest.outcome = "none" /\ rest.id = NoId
    BY <2>4
  <2>6. InStep(p, s, f, d, g, rest)
    BY <1>3, <2>1, <2>2, <2>3, <2>5, NothingCovered DEF InStep, LineInv
  <2>7. InStep(p, s, f, d, g, rest)'
    <3>1. rest.id \in Nat /\ s \in Nat /\ g.newest \in Nat
      BY <1>5, <2>2, <2>5 DEF NoId
    <3> QED BY <1>3, <1>4, <2>5, <2>6, <3>1, InStepMore DEF LineInv
  <2>8. Reached(p, u.id)' /\ (u.outcome = "stored" => Covers(p, u.id, f)')
    <3>1. CASE answer # "stored"
      BY <1>2, <2>3, <3>1, NothingCovered DEF Answered, Reached
    <3>2. CASE answer = "stored"
      <4>1. /\ id \in NewIds /\ minted' = minted \cup {id}
            /\ Write(p, Pruned(store[p] \cup {Added(p, id)}))
        BY <1>2, <3>2 DEF Answered
      <4>2. PICK new : new = Added(p, id)
        OBVIOUS
      <4>3. Listed' \subseteq Listed \cup {new} /\ \E w \in store'[p] : w.id >= id
        BY <4>1, <4>2, StoredTop
      <4>4. id \notin minted /\ \A v \in Listed : v.id \in minted
        BY <4>1, NewIdsTyped, ListedTyped DEF LineInv
      <4>5. new.installation = p /\ new.data = staging[p]
        BY <4>2 DEF Added
      <4>6. staging[p] = f
        BY <1>3, <2>1, <2>2 DEF InStep
      <4>7. RestorableHere(new, HereOf(p))
        BY <4>5 DEF RestorableHere, HereOf
      <4>8. Covers(p, id, f)'
        BY <4>3, <4>4, <4>5, <4>6, <4>7 DEF Covers, HereOf
      <4> QED BY <2>3, <4>1, <4>3, <4>8 DEF Reached
    <3> QED BY <3>1, <3>2
  <2>9. InStep(p, s, f, d, g, u)'
    BY <2>3, <2>5, <2>7, <2>8 DEF InStep
  <2>10. /\ record'[p].lastSynced = s /\ live'[p] = f /\ staging'[p] = d /\ game'[p] = g
    BY <1>3, <2>2
  <2> QED BY <2>2, <2>9, <2>10 DEF InStepHere
<1>8. OneLists'
  <2>1. Elsewhere(p)
    BY <1>2, <1>3 DEF Answered, Elsewhere
  <2>2. upload'[p].at = "stored"
    BY <1>2 DEF Answered
  <2> QED BY <2>1, <2>2, NotListing DEF LineInv
<1> QED BY <1>4, <1>6, <1>7, <1>8 DEF LineInv

LEMMA LineCatchUp ==
    ASSUME LineInv, TypeInv', InLineEvents, NEW p \in PC, CatchUp(p)
    PROVE  LineInv'
<1> DEFINE caught == {v \in Listed : v.id \notin removed}
<1>1. /\ "lag" \in Events /\ store' = [store EXCEPT ![p] = caught]
      /\ UNCHANGED <<minted, removed, record, live, staging, game, upload, settled>>
  BY DEF CatchUp, Listed, disk, flows, ghosts
<1>2. OneSystem
  BY <1>1 DEF InLineEvents
<1>3. store'[p] = caught /\ \A q \in PC \ {p} : store'[q] = store[q]
  BY <1>1 DEF LineInv, TypeInv, TypeOK
<1>4. \A v \in Listed : v.id \in Nat
  BY ListedTyped DEF LineInv
<1>5. ASSUME NEW v \in Listed PROVE \E w \in caught : w.id >= v.id
  <2> DEFINE newer == {w \in Listed : w.id >= v.id}
  <2>1. IdsOf(newer) \in SUBSET Nat /\ IsFiniteSet(IdsOf(newer))
    <3>1. IdsOf(newer) \in SUBSET IdsOf(Listed)
      BY DEF IdsOf
    <3>2. IsFiniteSet(IdsOf(Listed)) /\ IdsOf(Listed) \subseteq Nat
      BY ListedTyped DEF LineInv
    <3> HIDE DEF newer
    <3> QED BY <3>1, <3>2, FS_Subset
  <2>2. v.id \in IdsOf(newer)
    BY <1>4 DEF IdsOf
  <2>3. PICK m \in IdsOf(newer) : \A k \in IdsOf(newer) : k <= m
    <3> HIDE DEF newer
    <3> QED BY <2>1, <2>2, LargestExists
  <2>4. PICK w \in newer : w.id = m
    BY <2>3 DEF IdsOf
  <2>5. \A k \in newer : k.id <= w.id
    BY <2>3, <2>4 DEF IdsOf
  <2>6. w.id \notin removed
    <3> SUFFICES ASSUME w.id \in removed PROVE FALSE
      OBVIOUS
    <3>1. PICK k \in Listed : k.id > w.id
      BY DEF LineInv, StoreSound
    <3>2. w.id >= v.id /\ v.id \in Nat /\ w.id \in Nat /\ k.id \in Nat
      BY <1>4
    <3>3. k \in newer
      BY <3>1, <3>2
    <3> QED BY <2>5, <3>1, <3>2, <3>3
  <2> QED BY <2>6
<1>6. Listed' \subseteq Listed
  BY <1>3 DEF Listed
<1> HIDE DEF caught
<1>7. KeptTop
  <2>1. \A q \in PC : \A v \in store[q] : v \in Listed /\ v.id >= v.id
    BY <1>4 DEF Listed
  <2> QED BY <1>3, <1>5, <2>1 DEF KeptTop
<1>8. OnlyNewIds
  BY <1>6 DEF OnlyNewIds
<1>9. StoreSound'
  <2>1. ASSUME NEW v \in Listed', v.id \in removed PROVE \E w \in Listed' : w.id > v.id
    <3>1. v \in Listed
      BY <1>6
    <3>2. PICK w \in Listed : w.id > v.id
      BY <2>1, <3>1 DEF LineInv, StoreSound
    <3>3. PICK m \in caught : m.id >= w.id
      BY <1>5
    <3>4. m \in Listed' /\ m \in Listed
      BY <1>3, <1>6 DEF Listed
    <3> QED BY <1>4, <3>1, <3>2, <3>3, <3>4
  <2> QED BY <1>1, <1>6, <2>1 DEF LineInv, StoreSound
<1>10. ASSUME NEW q \in PC PROVE InStepHere(q)'
  <2>1. PICK s, f, d, g, u : /\ s = record[q].lastSynced /\ f = live[q] /\ d = staging[q]
                             /\ g = game[q] /\ u = upload[q]
    OBVIOUS
  <2>2. s \in Nat /\ g.newest \in Nat /\ u.id \in Nat
    BY <2>1 DEF LineInv, TypeInv, TypeOK, Record, Game, Upload
  <2>3. InStep(q, s, f, d, g, u)
    BY <2>1 DEF LineInv, InStepHere
  <2>4. ~(u.at = "listed" /\ u.force /\ u.why # "choice")
    BY <1>2, <2>3 DEF InStep
  <2>5. InStep(q, s, f, d, g, u)'
    BY <1>1, <1>7, <1>8, <2>2, <2>3, <2>4, InStepMore DEF LineInv
  <2>6. record'[q].lastSynced = s /\ live'[q] = f /\ staging'[q] = d /\ game'[q] = g
        /\ upload'[q] = u
    BY <1>1, <2>1
  <2> QED BY <2>5, <2>6 DEF InStepHere
<1> QED BY <1>1, <1>9, <1>10 DEF LineInv, OneLists

LEMMA LineOutside ==
    ASSUME LineInv, TypeInv', NEW p \in PC, LoseStore(p) \/ FindStore(p) \/ Crash(p)
    PROVE  LineInv'
<1>1. CASE LoseStore(p) \/ FindStore(p)
  <2>1. UNCHANGED <<store, minted, removed, record, live, staging, game, upload, settled>>
    BY <1>1, ZenonT(30) DEF LoseStore, FindStore, shared, disk, flows, ghosts
  <2>2. \A q \in PC : InStepHere(q)'
    BY <2>1, InStepKept DEF LineInv, InStepHere
  <2> QED BY <2>1, <2>2, SoundKept DEF LineInv, OneLists
<1>2. CASE Crash(p)
  <2>1. UNCHANGED <<store, minted, removed, record, live, staging, settled>>
    BY <1>2 DEF Crash, shared, disk, ghosts
  <2>2. /\ game'[p] = NoGame /\ \A q \in PC \ {p} : game'[q] = game[q]
        /\ upload'[p] = NoUpload /\ \A q \in PC \ {p} : upload'[q] = upload[q]
    BY <1>2 DEF Crash, LineInv, TypeInv, TypeOK
  <2> QED BY <2>1, <2>2, UploadAlone, LineEnds
<1> QED BY <1>1, <1>2
-----------------------------------------------------------------------------
LEMMA LineInit == Init => LineInv
<1> SUFFICES ASSUME Init PROVE LineInv
  OBVIOUS
<1>1. TypeInv
  BY TypeInit
<1>2. Listed = {}
  BY DEF Init, Listed
<1>3. StoreSound /\ OneLists
  BY <1>2 DEF Init, StoreSound, OneLists, NoUpload
<1>4. ASSUME NEW p \in PC PROVE InStepHere(p)
  <2>1. /\ record[p].lastSynced = NoId /\ game[p] = NoGame /\ upload[p] = NoUpload
    BY DEF Init, NeverRecorded
  <2> QED BY <1>1, <2>1, NothingCovered DEF InStepHere, InStep, NoGame, NoUpload
<1> QED BY <1>1, <1>3, <1>4 DEF LineInv

LEMMA LineNext == InLineEvents /\ LineInv /\ [Next]_vars => LineInv'
<1> SUFFICES ASSUME InLineEvents, LineInv, [Next]_vars PROVE LineInv'
  OBVIOUS
<1>1. TypeInv'
  BY TypeNext DEF LineInv
<1>2. ASSUME NEW p \in PC, LaunchStep(p) PROVE LineInv'
  BY <1>1, <1>2, LineLaunchSteps, LinePutBack, LineFailRestore, LinePlay, LineExit
     DEF LaunchStep
<1>3. ASSUME NEW p \in PC, UploadStep(p) PROVE LineInv'
  BY <1>1, <1>3, LineUploadSteps, LineListForUpload, LineStoreUpload, LineRecordUpload
     DEF UploadStep
<1>4. ASSUME NEW p \in PC, Retry(p) PROVE LineInv'
  BY <1>1, <1>4, LineBeginSteps
<1>5. ASSUME NEW p \in PC, UserStep(p) PROVE LineInv'
  BY <1>1, <1>5, LineUserSteps
<1>6. ASSUME NEW p \in PC, CatchUp(p) PROVE LineInv'
  BY <1>1, <1>6, LineCatchUp
<1>7. ASSUME NEW p \in PC, LoseStore(p) \/ FindStore(p) \/ Crash(p) PROVE LineInv'
  BY <1>1, <1>7, LineOutside
<1>8. CASE UNCHANGED vars
  <2>1. UNCHANGED <<store, minted, removed, record, live, staging, game, upload, settled>>
    BY <1>8 DEF vars, shared, disk, flows, ghosts
  <2>2. \A q \in PC : InStepHere(q)'
    BY <2>1, InStepKept DEF LineInv, InStepHere
  <2> QED BY <1>1, <2>1, <2>2, SoundKept DEF LineInv, OneLists
<1> QED BY <1>2, <1>3, <1>4, <1>5, <1>6, <1>7, <1>8 DEF Next

LEMMA StoredInLine ==
    ASSUME InLineEvents, LineInv, NEW p \in PC, StoreUpload(p),
           upload[p].why # "choice", upload'[p].outcome = "stored",
           NEW v \in Usable(store[p], HereOf(p)), v = NewestUsable(store[p], HereOf(p))
    PROVE  v.data \subseteq staging[p] \cup settled
<1>1. InStep(p, record[p].lastSynced, live[p], staging[p], game[p], upload[p])
  BY DEF LineInv, InStepHere
<1>2. /\ upload[p].at = "listed" /\ staging[p] = live[p]
      /\ upload[p].base = record[p].lastSynced
  BY <1>1 DEF StoreUpload, InStep
<1>3. Verdict(store[p], p, upload[p].base, upload[p].force) = "stored"
  BY UploadAnswered DEF Answered, LineInv
<1>4. v \in store[p] /\ v \in Listed /\ v.id = NewestUsableId(store[p], HereOf(p))
  BY NewestHere DEF Usable, Listed, LineInv
<1>5. \A w \in store[p] : w.id \in Nat /\ NewestId(store[p]) \in Nat
  BY NewestTyped DEF LineInv, TypeInv, TypeOK, Version
<1>6. v.id = record[p].lastSynced
  <2>1. CASE upload[p].force
    BY <1>1, <1>2, <1>4, <2>1 DEF InStep
  <2>2. CASE ~upload[p].force
    <3>1. NewestId(store[p]) = record[p].lastSynced
      BY <1>2, <1>3, <1>4, <2>2 DEF Verdict
    <3>2. PICK n : n = Newest(store[p])
      OBVIOUS
    <3>3. n \in store[p] /\ n.id = NewestId(store[p]) /\ v.id <= n.id
      BY <1>4, <3>2, NewestHere DEF LineInv
    <3>4. ~Behind(p, record[p].lastSynced)
      BY <1>5, <3>1, NewestHere DEF Behind, LineInv
    <3>5. RestorableHere(n, HereOf(p))
      BY <1>1, <3>1, <3>3, <3>4 DEF InStep, Covers, Listed
    <3>6. n \in Usable(store[p], HereOf(p))
      BY <3>3, <3>5 DEF Usable
    <3>7. n.id <= v.id
      BY <1>4, <3>6, NewestHere DEF LineInv
    <3> QED BY <1>4, <1>5, <3>1, <3>3, <3>7
  <2> QED BY <2>1, <2>2
<1>7. CASE Covers(p, record[p].lastSynced, live[p])
  BY <1>2, <1>4, <1>6, <1>7 DEF Covers
<1>8. CASE Behind(p, record[p].lastSynced)
  <2>1. OneSystem
    BY <1>8 DEF Behind, InLineEvents
  <2>2. \A w \in store[p] : w.id <= v.id
    BY <1>4, <2>1, AllUsable, NewestHere DEF LineInv
  <2> QED BY <1>4, <1>5, <1>6, <1>8, <2>2 DEF Behind
<1> QED BY <1>1, <1>7, <1>8 DEF InStep

LEMMA LineAlways == InLineEvents => (Spec => []LineInv)
<1> SUFFICES ASSUME InLineEvents PROVE Spec => []LineInv
  OBVIOUS
<1>1. LineInv /\ [Next]_vars => LineInv'
  BY LineNext
<1> QED BY <1>1, LineInit, PTL DEF Spec

(* An upload nobody forced goes on top of the newest save its PC could     *)
(* have restored, and holds all its progress but for what users chose      *)
(* against.                                                                *)
THEOREM UploadsStayInLine ==
    ASSUME InLineEvents
    PROVE  Spec => LineageKept
<1>1. LineInv /\ [Next]_vars => [UploadsInLine]_vars
  BY StoredInLine DEF UploadsInLine
<1> QED BY <1>1, LineAlways, PTL DEF Spec, LineageKept
-----------------------------------------------------------------------------
(* Nothing goes wrong and nobody puts off an answer: what may happen is    *)
(* races, skipped restores, old versions put back and locks; and between   *)
(* systems, which keep apart, no races.                                    *)
CalmEvents ==
    /\ Events \subseteq {"race", "skip", "history", "lock"}
    /\ \/ OneSystem
       \/ "race" \notin Events /\ \A p \in PC : PlatformOf[p] # "unknown"

(* The limit took no version that is the newest of its system.             *)
Unpruned == OneSystem \/ removed = {}

MadeThere == \A v \in Listed : v.platform = PlatformOf[v.installation]

AllListed == \A p \in PC : minted \subseteq removed \cup IdsOf(store[p])

(* Where the versions are, and what LineInv says of them.                  *)
Ground == LineInv /\ Consecutive /\ Unpruned /\ MadeThere /\ AllListed

UsableTo(p) == Usable(store[p], HereOf(p))

(* The progress the newest version p can use holds, or users chose         *)
(* against.                                                                *)
Saved(p) == Newest(UsableTo(p)).data \cup settled

InStore(p, data) == UsableTo(p) # {} /\ data \subseteq Saved(p)

Older(p, synced) == synced = NoId \/ \E v \in UsableTo(p) : v.id > synced

(* A record that names the newest version stands for what it holds, ...    *)
Even(p, synced, files) ==
    (synced # NoId /\ synced = NewestId(UsableTo(p))) => InStore(p, files)

(* ... and so does a staging directory no scan finds changes against.      *)
Scanned(p, files, staged) == (files = staged /\ files # {}) => InStore(p, files)

(* One PC, as InStep, with the prompt open on it, the PCs whose sessions   *)
(* started unsynced, and those that answered an offer.                     *)
Kept(p, synced, files, staged, g, u, prompt, behind, passes) ==
    /\ files = {} => synced = NoId
    /\ files \subseteq 1..sessions /\ staged \subseteq 1..sessions
    /\ p \in behind => g.at \in {"ready", "running"} /\ Scanned(p, files, staged)
    /\ prompt = "upload" => g.at = "idle" /\ u.at = "idle" /\ p \notin passes
    /\ g.at # "idle" => p \notin passes
    /\ u.at # "idle" => u.why \in {"exit", "offer", "choice"}
    /\ (u.at # "idle" /\ u.why = "exit") => g.at = "idle" /\ p \notin passes
    /\ (u.at # "idle" /\ u.why = "choice") => u.force
    /\ u.at \in {"staged", "listed", "stored"} => files # {}
    /\ (u.at = "listed" /\ ~u.force) =>
           OneSystem \/ NewestId(UsableTo(p)) # synced \/ NewestId(store[p]) = synced
    /\ (u.at = "stored" /\ u.outcome = "conflict") =>
           u.why # "choice" /\ Older(p, synced) /\ UsableTo(p) # {}
    /\ (u.at = "stored" /\ u.outcome # "conflict") => InStore(p, files)
    /\ (u.at = "idle" /\ g.at = "idle" /\ prompt # "upload") =>
           Even(p, synced, files) /\ (p \notin passes => Scanned(p, files, staged))
    /\ (u.at = "idle" /\ g.at \in {"checking", "comparing", "offered"}) =>
           Even(p, synced, files) /\ Scanned(p, files, staged)
    /\ g.at \in {"comparing", "offered"} => files # {}
    /\ (g.at \in {"restoring", "fetched"} \/ p \in behind) => Older(p, synced)
    /\ g.at = "restoring" => files = {} \/ InStore(p, files)
    /\ g.at = "fetched" =>
           staged # {} /\ files \subseteq staged \cup settled /\ InStore(p, staged)

KeptHere(p) ==
    Kept(p, record[p].lastSynced, live[p], staging[p], game[p], upload[p], asked[p],
         unsynced, answered)

(* Each version p can use holds the progress of those before it.           *)
LineHeld ==
    \A p \in PC : \A v \in UsableTo(p) :
        v.data # {} /\ v.data \subseteq 1..sessions /\ InStore(p, v.data)

NothingWaits == reach = PC /\ \A p \in PC : record[p].pending = FALSE

KeptInv ==
    /\ Ground /\ NothingWaits /\ LineHeld
    /\ \A p \in PC : KeptHere(p)
-----------------------------------------------------------------------------
(* The newest version p can use. *)
LEMMA UsableHere ==
    ASSUME LineInv, NEW p \in PC
    PROVE  /\ UsableTo(p) \subseteq store[p] /\ store[p] \subseteq Listed
           /\ \A v \in UsableTo(p) :
                  /\ Newest(UsableTo(p)) \in UsableTo(p)
                  /\ NewestId(UsableTo(p)) = Newest(UsableTo(p)).id
                  /\ v.id <= NewestId(UsableTo(p)) /\ v.id \in Nat /\ v.id # NoId
           /\ UsableTo(p) = {} => NewestId(UsableTo(p)) = NoId
           /\ NewestId(UsableTo(p)) \in Nat
<1>1. UsableTo(p) \subseteq store[p] /\ store[p] \subseteq Listed
  BY DEF UsableTo, Usable, Listed
<1>2. \A v \in UsableTo(p) :
          /\ Newest(UsableTo(p)) \in UsableTo(p)
          /\ NewestId(UsableTo(p)) = Newest(UsableTo(p)).id
          /\ v.id <= NewestId(UsableTo(p))
  BY NewestHere DEF LineInv, UsableTo, NewestUsable, NewestUsableId
<1>3. \A v \in UsableTo(p) : v.id \in Nat /\ v.id # NoId
  BY <1>1, ListedTyped DEF LineInv
<1>4. UsableTo(p) = {} => NewestId(UsableTo(p)) = NoId
  BY DEF NewestId
<1>5. NewestId(UsableTo(p)) \in Nat
  <2>1. CASE UsableTo(p) = {}
    BY <1>4, <2>1 DEF NoId
  <2>2. CASE UsableTo(p) # {}
    BY <1>2, <1>3, <2>2
  <2> QED BY <2>1, <2>2
<1> QED BY <1>1, <1>2, <1>3, <1>4, <1>5

LEMMA UsableSame ==
    ASSUME NEW p, UNCHANGED store
    PROVE  UsableTo(p)' = UsableTo(p) /\ NewestId(UsableTo(p))' = NewestId(UsableTo(p))
BY DEF UsableTo, Usable, RestorableHere, HereOf, NewestId, Newest

(* The newest version of all is the newest p can use, if it is one. *)
LEMMA TopUsable ==
    ASSUME LineInv, NEW p \in PC, NEW n \in UsableTo(p), n = Newest(store[p])
    PROVE  Newest(UsableTo(p)) = n
<1>1. PICK m : m = Newest(UsableTo(p))
  OBVIOUS
<1>2. m \in UsableTo(p) /\ n.id <= m.id /\ m.id \in Nat /\ n.id \in Nat
  BY <1>1, UsableHere
<1>3. m \in Listed /\ n \in Listed /\ m \in store[p]
  BY <1>2, UsableHere
<1>4. m.id <= n.id
  BY <1>3, NewestHere DEF LineInv
<1>5. m.id = n.id
  BY <1>2, <1>4
<1> QED BY <1>1, <1>3, <1>5 DEF LineInv, StoreSound

(* What p can use of what its store holds stays in it. *)
Grows(p) ==
    /\ UsableTo(p) # {} => UsableTo(p)' # {} /\ Saved(p) \subseteq Saved(p)'
    /\ \/ NewestId(UsableTo(p))' = NewestId(UsableTo(p))
       \/ NewestId(UsableTo(p))' \notin minted \cup {NoId}
    /\ \A v \in UsableTo(p) : \E w \in UsableTo(p)' : w.id >= v.id

LEMMA SameGrows ==
    ASSUME LineInv, NEW p \in PC, UNCHANGED store, settled \subseteq settled'
    PROVE  Grows(p)
<1>1. \A v \in UsableTo(p) : v.id \in Nat
  BY UsableHere
<1>2. UsableTo(p)' = UsableTo(p) /\ NewestId(UsableTo(p))' = NewestId(UsableTo(p))
  BY UsableSame
<1>3. Saved(p) \subseteq Saved(p)'
  BY <1>2 DEF Saved
<1> QED BY <1>1, <1>2, <1>3 DEF Grows

LEMMA KeptStays ==
    ASSUME NEW p \in PC, NEW synced, NEW files, NEW staged, NEW g, NEW u, NEW prompt,
           NEW behind, NEW passes, NEW behind2, NEW passes2,
           Kept(p, synced, files, staged, g, u, prompt, behind, passes),
           p \in behind <=> p \in behind2, p \in passes <=> p \in passes2,
           synced \in Nat, synced \in minted \cup {NoId}, LineInv, LineInv',
           u.at = "listed" => OneSystem \/ UNCHANGED store,
           Grows(p), 1..sessions \subseteq 1..sessions', settled \subseteq settled'
    PROVE  Kept(p, synced, files, staged, g, u, prompt, behind2, passes2)'
<1>1. ASSUME NEW data, InStore(p, data) PROVE InStore(p, data)'
  BY <1>1 DEF InStore, Grows
<1>2. Older(p, synced) => Older(p, synced)'
  <2>1. \A v \in UsableTo(p) : v.id \in Nat
    BY UsableHere
  <2>2. \A v \in UsableTo(p)' : v.id \in Nat
    <3>1. UsableTo(p)' \subseteq store'[p]
      BY DEF UsableTo, Usable
    <3> QED BY <3>1 DEF LineInv, TypeInv, TypeOK, Version
  <2> QED BY <2>1, <2>2 DEF Older, Grows
<1>3. Even(p, synced, files) => Even(p, synced, files)'
  <2>1. (synced # NoId /\ synced = NewestId(UsableTo(p))') => synced = NewestId(UsableTo(p))
    BY DEF Grows
  <2> QED BY <1>1, <2>1 DEF Even
<1>4. Scanned(p, files, staged) => Scanned(p, files, staged)'
  BY <1>1 DEF Scanned
<1>5. UsableTo(p) # {} => UsableTo(p)' # {}
  BY DEF Grows
<1>6. u.at = "listed" =>
          \/ OneSystem
          \/ /\ NewestId(store[p])' = NewestId(store[p])
             /\ NewestId(UsableTo(p))' = NewestId(UsableTo(p))
  BY UsableSame DEF NewestId
<1> HIDE DEF Even
<1> QED BY <1>1, <1>2, <1>3, <1>4, <1>5, <1>6 DEF Kept

(* Where nothing of the other PCs changes but what their stores hold. *)
Apart(p) ==
    \A q \in PC \ {p} :
        /\ record'[q] = record[q] /\ live'[q] = live[q] /\ staging'[q] = staging[q]
        /\ game'[q] = game[q] /\ upload'[q] = upload[q] /\ asked'[q] = asked[q]
        /\ q \in unsynced' <=> q \in unsynced
        /\ q \in answered' <=> q \in answered

LEMMA SyncedMinted ==
    ASSUME LineInv, NEW p \in PC
    PROVE  record[p].lastSynced \in Nat /\ record[p].lastSynced \in minted \cup {NoId}
BY DEF LineInv, InStepHere, InStep, Reached, TypeInv, TypeOK, Record

LEMMA KeptStep ==
    ASSUME KeptInv, Ground', NEW p \in PC, Apart(p),
           \A q \in PC \ {p} : upload[q].at = "listed" => OneSystem \/ UNCHANGED store,
           \A q \in PC : Grows(q), 1..sessions \subseteq 1..sessions', settled \subseteq settled',
           reach' = PC, record'[p].pending = FALSE, LineHeld', KeptHere(p)'
    PROVE  KeptInv'
<1>1. ASSUME NEW q \in PC, q # p PROVE KeptHere(q)'
  <2>1. PICK s, f, d, g, u, a :
            /\ s = record[q].lastSynced /\ f = live[q] /\ d = staging[q]
            /\ g = game[q] /\ u = upload[q] /\ a = asked[q]
    OBVIOUS
  <2>2. Kept(q, s, f, d, g, u, a, unsynced, answered)
    BY <2>1 DEF KeptInv, Ground, KeptHere
  <2>3. PICK uns, ans : uns = unsynced' /\ ans = answered'
    OBVIOUS
  <2>4. (q \in unsynced <=> q \in uns) /\ (q \in answered <=> q \in ans)
    BY <1>1, <2>3 DEF Apart
  <2>5. PICK uns0, ans0 : uns0 = unsynced /\ ans0 = answered
    OBVIOUS
  <2>6. Kept(q, s, f, d, g, u, a, uns, ans)'
    BY <1>1, <2>1, <2>2, <2>4, <2>5, SyncedMinted, KeptStays DEF KeptInv, Ground, LineInv
  <2>7. record'[q].lastSynced = s /\ live'[q] = f /\ staging'[q] = d /\ game'[q] = g
        /\ upload'[q] = u /\ asked'[q] = a
    BY <1>1, <2>1 DEF Apart
  <2> QED BY <2>3, <2>6, <2>7 DEF KeptHere
<1>2. NothingWaits'
  BY DEF KeptInv, Ground, NothingWaits, Apart
<1> QED BY <1>1, <1>2 DEF KeptInv, Ground

(* A step that leaves the stored versions alone. *)
LEMMA KeptMoves ==
    ASSUME KeptInv, Ground', NEW p \in PC, Apart(p), UNCHANGED store,
           1..sessions \subseteq 1..sessions', settled \subseteq settled',
           reach' = PC, record'[p].pending = FALSE, KeptHere(p)'
    PROVE  KeptInv'
<1>1. \A q \in PC : Grows(q)
  BY SameGrows DEF KeptInv, Ground, LineInv
<1>2. LineHeld'
  <2>1. ASSUME NEW q \in PC, NEW v \in UsableTo(q)
        PROVE  v.data # {} /\ v.data \subseteq 1..sessions' /\ InStore(q, v.data)'
    <3>1. v.data # {} /\ v.data \subseteq 1..sessions /\ InStore(q, v.data)
      BY DEF KeptInv, Ground, LineHeld
    <3>2. Saved(q) \subseteq Saved(q)' /\ UsableTo(q)' = UsableTo(q)
      BY UsableSame DEF Saved
    <3>3. InStore(q, v.data)'
      BY <3>1, <3>2 DEF InStore
    <3> QED BY <3>1, <3>3
  <2> QED BY <2>1, UsableSame DEF LineHeld
<1> QED BY <1>1, <1>2, KeptStep

(* ... and settles nothing: p is kept if it is with what it has now.       *)
LEMMA KeptAt ==
    ASSUME KeptInv, Ground', NEW p \in PC, Apart(p),
           UNCHANGED <<store, minted, settled, sessions>>, reach' = PC,
           record'[p].pending = FALSE,
           NEW synced, NEW files, NEW staged, NEW g, NEW u, NEW prompt, NEW behind, NEW passes,
           record'[p].lastSynced = synced, live'[p] = files, staging'[p] = staged,
           game'[p] = g, upload'[p] = u, asked'[p] = prompt, p \in unsynced' <=> p \in behind,
           p \in answered' <=> p \in passes,
           Kept(p, synced, files, staged, g, u, prompt, behind, passes)
    PROVE  KeptInv'
<1>1. Grows(p)
  BY SameGrows DEF KeptInv, Ground, LineInv
<1>2. synced \in Nat /\ synced \in minted \cup {NoId}
  BY DEF Ground, LineInv, InStepHere, InStep, Reached, TypeInv, TypeOK, Record
<1>3. PICK uns, ans : uns = unsynced' /\ ans = answered'
  OBVIOUS
<1>4. Kept(p, synced, files, staged, g, u, prompt, uns, ans)'
  BY <1>1, <1>2, <1>3, KeptStays DEF KeptInv, Ground, LineInv
<1>5. KeptHere(p)'
  BY <1>3, <1>4 DEF KeptHere
<1> QED BY <1>5, KeptMoves
-----------------------------------------------------------------------------
LEMMA KeptNow ==
    ASSUME KeptInv, NEW p \in PC
    PROVE  /\ Kept(p, record[p].lastSynced, live[p], staging[p], game[p], upload[p],
                   asked[p], unsynced, answered)
           /\ reach = PC /\ record[p].pending = FALSE
           /\ upload[p] \in Upload /\ game[p] \in Game
           /\ upload[p].at # "idle" => game[p].at \in {"idle", "offered"}
BY UploadAlone DEF KeptInv, Ground, KeptHere, NothingWaits

(* A version newer than the one a record names is there.                   *)
LEMMA OlderWhen ==
    ASSUME CalmEvents, Ground, NEW p \in PC,
           record[p].lastSynced # NewestId(UsableTo(p))
    PROVE  Older(p, record[p].lastSynced) /\ UsableTo(p) # {}
<1>1. PICK s : s = record[p].lastSynced
  OBVIOUS
<1>2. s \in Nat /\ Reached(p, s) /\ Covers(p, s, live[p])
  BY <1>1 DEF Ground, LineInv, InStepHere, InStep, TypeInv, TypeOK, Record, Behind, CalmEvents
<1>3. CASE s = NoId
  BY <1>1, <1>3, UsableHere DEF Older, Ground
<1>4. CASE s # NoId
  <2>1. \E v \in UsableTo(p) : v.id >= s
    <3>1. CASE OneSystem
      BY <1>2, <1>4, <3>1, AllUsable DEF Reached, UsableTo, Ground
    <3>2. CASE ~OneSystem
      <4>1. PICK v \in store[p] : v.id = s
        BY <1>2, <1>4, <3>2 DEF Reached, Ground, AllListed, Unpruned, IdsOf
      <4>2. RestorableHere(v, HereOf(p))
        BY <1>2, <4>1 DEF Covers, Listed
      <4> QED BY <1>2, <4>1, <4>2 DEF UsableTo, Usable
    <3> QED BY <3>1, <3>2
  <2>2. PICK v \in UsableTo(p) : v.id >= s
    BY <2>1
  <2>3. PICK n : n = Newest(UsableTo(p))
    OBVIOUS
  <2>4. /\ n \in UsableTo(p) /\ n.id = NewestId(UsableTo(p)) /\ v.id <= n.id
        /\ n.id \in Nat /\ v.id \in Nat
    BY <2>2, <2>3, UsableHere DEF Ground
  <2>5. n.id > s
    BY <1>1, <1>2, <2>2, <2>4
  <2> QED BY <1>1, <2>4, <2>5 DEF Older
<1> QED BY <1>3, <1>4

LEMMA OlderIsNotEven ==
    ASSUME LineInv, NEW p \in PC, NEW synced, NEW files, Older(p, synced)
    PROVE  Even(p, synced, files)
BY UsableHere DEF Older, Even

(* What is stored is in the store. *)
LEMMA HeldInStore ==
    ASSUME KeptInv, NEW p \in PC, NEW v \in UsableTo(p)
    PROVE  v.data # {} /\ v.data \subseteq 1..sessions /\ InStore(p, v.data)
BY DEF KeptInv, Ground, LineHeld

(* A step of the launch, and of what the user is asked.                    *)
LEMMA KeptLaunchMoves ==
    ASSUME KeptInv, Ground', NEW p \in PC, NEW g, NEW prompt, NEW behind, NEW passes,
           game' = [game EXCEPT ![p] = g], asked' = [asked EXCEPT ![p] = prompt],
           UNCHANGED <<store, minted, settled, sessions, reach, record, live, staging, upload>>,
           unsynced' = behind, answered' = passes,
           \A q \in PC \ {p} : (q \in behind <=> q \in unsynced) /\ (q \in passes <=> q \in answered),
           Kept(p, record[p].lastSynced, live[p], staging[p], g, upload[p], prompt, behind, passes)
    PROVE  KeptInv'
<1>1. game'[p] = g /\ asked'[p] = prompt
      /\ \A q \in PC \ {p} : game'[q] = game[q] /\ asked'[q] = asked[q]
  BY DEF KeptInv, Ground, LineInv, TypeInv, TypeOK
<1>2. Apart(p)
  BY <1>1 DEF Apart
<1>3. reach' = PC /\ record'[p].pending = FALSE
  BY KeptNow
<1> QED BY <1>1, <1>2, <1>3, KeptAt
-----------------------------------------------------------------------------
(* What the steps of a launch make of it. *)
LEMMA KeptLaunch ==
    ASSUME CalmEvents, KeptInv, Ground', NEW p \in PC, Launch(p)
    PROVE  KeptInv'
<1>1. /\ game[p].at = "idle" /\ (asked[p] = "no" \/ p \in answered)
      /\ upload[p].at = "idle"
      /\ UNCHANGED <<store, minted, settled, sessions, reach, record, live, staging, upload,
                     unsynced, asked>>
  BY DEF Launch, CalmEvents, shared, disk, ghosts
<1>2. PICK at : To(p, at) /\ (at = "ready" \/ (at = "checking" /\ p \notin answered))
  BY DEF Launch, CalmEvents
<1>3. PICK g : g = [game[p] EXCEPT !.at = at]
  OBVIOUS
<1>4. PICK passes : passes = answered \ {p}
  OBVIOUS
<1>5. g.at = at /\ game' = [game EXCEPT ![p] = g]
  BY <1>2, <1>3, KeptNow DEF To, Game
<1>6. asked' = [asked EXCEPT ![p] = asked[p]] /\ answered' = passes
  BY <1>1, <1>4 DEF Launch, KeptInv, Ground, LineInv, TypeInv, TypeOK
<1>7. Kept(p, record[p].lastSynced, live[p], staging[p], game[p], upload[p],
           asked[p], unsynced, answered)
  BY KeptNow
<1>8. Kept(p, record[p].lastSynced, live[p], staging[p], g, upload[p],
           asked[p], unsynced, passes)
  BY <1>1, <1>2, <1>4, <1>5, <1>7 DEF Kept
<1>9. PICK behind : behind = unsynced
  OBVIOUS
<1>10. \A q \in PC \ {p} : (q \in behind <=> q \in unsynced) /\ (q \in passes <=> q \in answered)
  BY <1>4, <1>9
<1> QED BY <1>1, <1>5, <1>6, <1>8, <1>9, <1>10, KeptLaunchMoves

LEMMA KeptSkipRestore ==
    ASSUME CalmEvents, KeptInv, Ground', NEW p \in PC, SkipRestore(p)
    PROVE  KeptInv'
<1>1. /\ game[p].at \in {"restoring", "fetched"}
      /\ UNCHANGED <<store, minted, settled, sessions, reach, record, live, staging, upload,
                     answered, asked>>
  BY DEF SkipRestore, shared, disk, ghosts
<1>2. PICK g : g = [NoGame EXCEPT !.at = "ready"]
  OBVIOUS
<1>3. PICK behind : behind = unsynced \cup {p}
  OBVIOUS
<1>4. g.at = "ready" /\ game' = [game EXCEPT ![p] = g] /\ unsynced' = behind
  BY <1>2, <1>3 DEF SkipRestore, NoGame
<1>5. asked' = [asked EXCEPT ![p] = asked[p]]
  BY <1>1 DEF KeptInv, Ground, LineInv, TypeInv, TypeOK
<1>6. Kept(p, record[p].lastSynced, live[p], staging[p], game[p], upload[p],
           asked[p], unsynced, answered)
      /\ upload[p].at = "idle"
  BY <1>1, KeptNow
<1>7. Kept(p, record[p].lastSynced, live[p], staging[p], g, upload[p],
           asked[p], behind, answered)
  BY <1>1, <1>4, <1>6 DEF Kept, Scanned
<1>8. PICK passes : passes = answered
  OBVIOUS
<1>9. \A q \in PC \ {p} : (q \in behind <=> q \in unsynced) /\ (q \in passes <=> q \in answered)
  BY <1>3, <1>8
<1> QED BY <1>1, <1>4, <1>5, <1>7, <1>8, <1>9, KeptLaunchMoves

LEMMA KeptGoesOn ==
    ASSUME KeptInv, Ground', NEW p \in PC, NEW g,
           game' = [game EXCEPT ![p] = g],
           UNCHANGED <<store, minted, settled, sessions, reach, record, live, staging, upload,
                       unsynced, answered, asked>>,
           \/ game[p].at = "ready" /\ g.at = "running"
           \/ game[p].at = "offered" /\ upload[p].at = "idle" /\ g.at = "idle"
           \/ game[p].at = "comparing" /\ g.at \in {"ready", "offered"}
           \/ game[p].at = "restoring" /\ g.at = "idle"
    PROVE  KeptInv'
<1>1. asked' = [asked EXCEPT ![p] = asked[p]]
  BY DEF KeptInv, Ground, LineInv, TypeInv, TypeOK
<1>2. Kept(p, record[p].lastSynced, live[p], staging[p], game[p], upload[p],
           asked[p], unsynced, answered)
      /\ (game[p].at \notin {"idle", "offered"} => upload[p].at = "idle")
  BY KeptNow
<1>3. Older(p, record[p].lastSynced) => Even(p, record[p].lastSynced, live[p])
  BY OlderIsNotEven DEF KeptInv, Ground
<1>4. Kept(p, record[p].lastSynced, live[p], staging[p], g, upload[p],
           asked[p], unsynced, answered)
  BY <1>2, <1>3 DEF Kept, Scanned
<1> QED BY <1>1, <1>4, KeptLaunchMoves

LEMMA KeptStartGame ==
    ASSUME KeptInv, Ground', NEW p \in PC, StartGame(p) \/ DismissOffer(p)
    PROVE  KeptInv'
<1> USE DEF shared, disk, memory, ghosts
<1>1. CASE StartGame(p)
  <2>1. PICK g : g = [game[p] EXCEPT !.at = "running"]
    OBVIOUS
  <2>2. g.at = "running" /\ game' = [game EXCEPT ![p] = g]
    BY <1>1, <2>1, KeptNow DEF StartGame, To, Game
  <2> QED BY <1>1, <2>2, KeptGoesOn DEF StartGame
<1>2. CASE DismissOffer(p)
  <2>1. NoGame.at = "idle"
    BY DEF NoGame
  <2> QED BY <1>2, <2>1, KeptGoesOn DEF DismissOffer, BackToIdle
<1> QED BY <1>1, <1>2

LEMMA KeptCheck ==
    ASSUME CalmEvents, KeptInv, Ground', NEW p \in PC, Check(p)
    PROVE  KeptInv'
<1>1. /\ game[p].at = "checking"
      /\ UNCHANGED <<store, minted, settled, sessions, reach, record, live, staging, upload,
                     unsynced, answered>>
  BY DEF Check, shared, disk, memory, ghosts
<1>2. PICK g : g = [at |-> JudgeLaunch(p, TRUE),
                    newest |-> IF JudgeLaunch(p, TRUE) = "comparing"
                               THEN NewestUsableId(store[p], HereOf(p)) ELSE NoId]
  OBVIOUS
<1>3. PICK prompt : prompt = IF g.at = "idle" THEN "launch" ELSE asked[p]
  OBVIOUS
<1> Scans = {TRUE}
  BY DEF Scans, CalmEvents
<1>4. g.at = JudgeLaunch(p, TRUE) /\ game' = [game EXCEPT ![p] = g]
      /\ asked' = [asked EXCEPT ![p] = prompt]
  BY <1>2, <1>3 DEF Check, KeptInv, Ground, LineInv, TypeInv, TypeOK
<1>5. Kept(p, record[p].lastSynced, live[p], staging[p], game[p], upload[p],
           asked[p], unsynced, answered)
      /\ upload[p].at = "idle"
  BY <1>1, KeptNow
<1>6. /\ g.at \in {"ready", "restoring", "comparing", "idle"}
      /\ g.at = "comparing" => live[p] # {}
  BY <1>4 DEF JudgeLaunch, FirstStart
<1>7. g.at = "restoring" =>
          /\ Older(p, record[p].lastSynced)
          /\ live[p] = {} \/ InStore(p, live[p])
  <2> SUFFICES ASSUME g.at = "restoring"
               PROVE  /\ Older(p, record[p].lastSynced)
                      /\ live[p] = {} \/ InStore(p, live[p])
    OBVIOUS
  <2>1. CASE live[p] = {}
    BY <1>5, <2>1 DEF Kept, Older
  <2>2. CASE live[p] # {}
    <3>1. JudgedHere(p, TRUE) = "remote-newer"
      BY <1>4, <2>2 DEF JudgeLaunch, FirstStart
    <3>2. Decide(record[p], store[p], ChangedHere(p), HereOf(p)) = "remote-newer"
      BY <2>2, <3>1 DEF JudgedHere, MissingHere
    <3>3. PICK remote : remote = NewestUsable(store[p], HereOf(p))
      OBVIOUS
    <3>4. /\ UsableTo(p) # {} /\ ~ChangedHere(p)
          /\ record[p].lastSynced # remote.id
      BY <3>2, <3>3 DEF Decide, UsableTo
    <3>5. Older(p, record[p].lastSynced)
      BY <3>3, <3>4, OlderWhen DEF NewestId, NewestUsable, UsableTo, KeptInv
    <3> QED BY <1>1, <1>5, <2>2, <3>4, <3>5 DEF Kept, Scanned, ChangedHere
  <2> QED BY <2>1, <2>2
<1>8. Kept(p, record[p].lastSynced, live[p], staging[p], g, upload[p],
           prompt, unsynced, answered)
  BY <1>1, <1>3, <1>5, <1>6, <1>7 DEF Kept
<1> QED BY <1>1, <1>4, <1>8, KeptLaunchMoves

(* A restore puts a version in the staging directory; nothing else of what *)
(* p holds changes with it.                                                *)
LEMMA KeptFetches ==
    ASSUME KeptInv, Ground', NEW p \in PC, NEW v \in store[p], Fetch(p, v),
           NEW g, game' = [game EXCEPT ![p] = g],
           NEW synced, record'[p].lastSynced = synced, record'[p].pending = FALSE,
           \A q \in PC \ {p} : record'[q] = record[q],
           UNCHANGED <<store, minted, settled, sessions, reach, live, upload,
                       unsynced, answered, asked>>,
           Kept(p, synced, live[p], v.data, g, upload[p], asked[p], unsynced, answered)
    PROVE  KeptInv'
<1>1. game'[p] = g /\ staging'[p] = v.data
      /\ \A q \in PC \ {p} : game'[q] = game[q] /\ staging'[q] = staging[q]
  BY DEF Fetch, KeptInv, Ground, LineInv, TypeInv, TypeOK
<1>2. Apart(p)
  BY <1>1 DEF Apart
<1>3. reach' = PC
  BY KeptNow
<1> QED BY <1>1, <1>2, <1>3, KeptAt

LEMMA KeptFetchNewest ==
    ASSUME CalmEvents, KeptInv, Ground', NEW p \in PC, FetchNewest(p)
    PROVE  KeptInv'
<1>1. /\ game[p].at = "restoring"
      /\ UNCHANGED <<store, minted, settled, sessions, reach, record, live, upload,
                     unsynced, answered, asked>>
  BY DEF FetchNewest, shared, disk, memory, ghosts
<1>2. NoGame.at = "idle"
  BY DEF NoGame
<1>3. CASE BackToIdle(p) /\ UNCHANGED staging
  BY <1>1, <1>2, <1>3, KeptGoesOn DEF BackToIdle
<1>4. CASE /\ Usable(store[p], HereOf(p)) # {}
           /\ Fetch(p, Newest(Usable(store[p], HereOf(p))))
           /\ game' = [game EXCEPT ![p] = [at |-> "fetched",
                                           newest |-> NewestId(Usable(store[p], HereOf(p)))]]
  <2>1. Usable(store[p], HereOf(p)) = UsableTo(p)
    BY DEF UsableTo
  <2>2. PICK v : v = Newest(UsableTo(p))
    OBVIOUS
  <2>3. v \in UsableTo(p) /\ v \in store[p]
    BY <1>4, <2>1, <2>2, UsableHere DEF KeptInv, Ground
  <2>4. PICK g : g = [at |-> "fetched", newest |-> NewestId(UsableTo(p))]
    OBVIOUS
  <2>5. Kept(p, record[p].lastSynced, live[p], staging[p], game[p], upload[p],
             asked[p], unsynced, answered)
        /\ upload[p].at = "idle" /\ record[p].pending = FALSE
    BY <1>1, KeptNow
  <2>6. live[p] \subseteq v.data \cup settled
    BY <1>1, <2>2, <2>5 DEF Kept, InStore, Saved
  <2>7. g.at = "fetched" /\ v.data # {} /\ v.data \subseteq 1..sessions /\ InStore(p, v.data)
    BY <2>3, <2>4, HeldInStore
  <2>8. Kept(p, record[p].lastSynced, live[p], v.data, g, upload[p],
             asked[p], unsynced, answered)
    BY <1>1, <2>5, <2>6, <2>7 DEF Kept
  <2>9. Fetch(p, v) /\ game' = [game EXCEPT ![p] = g]
    BY <1>4, <2>1, <2>2, <2>4
  <2> QED BY <1>1, <2>3, <2>5, <2>8, <2>9, KeptFetches
<1> QED BY <1>3, <1>4 DEF FetchNewest

LEMMA RecordWaits ==
    ASSUME TypeInv, NEW p \in PC, NEW id, NEW hash, RecordSync(p, id, hash)
    PROVE  record'[p].pending = record[p].pending
<1> DEFINE named == [record EXCEPT ![p].lastSynced = IF id = NoId THEN @ ELSE id]
           marked == [named EXCEPT ![p].backedUp = TRUE]
<1>1. named[p].pending = record[p].pending /\ DOMAIN named = PC
  BY DEF TypeInv, TypeOK, Record
<1>2. marked[p].pending = named[p].pending /\ DOMAIN marked = PC
  <2> HIDE DEF named
  <2> QED BY <1>1
<1>3. record' = [marked EXCEPT ![p].hash = hash]
  BY DEF RecordSync
<1>4. record'[p].pending = marked[p].pending
  <2> HIDE DEF marked
  <2> QED BY <1>2, <1>3
<1> HIDE DEF named, marked
<1> QED BY <1>1, <1>2, <1>4

LEMMA KeptCompare ==
    ASSUME CalmEvents, KeptInv, Ground', NEW p \in PC, Compare(p)
    PROVE  KeptInv'
<1>1. /\ game[p].at = "comparing"
      /\ UNCHANGED <<store, minted, settled, sessions, reach, live, upload,
                     unsynced, answered, asked>>
  BY DEF Compare, shared, memory, ghosts
<1>2. ~Failing(p)
  BY KeptNow DEF Failing, Reaches, CalmEvents
<1>3. Kept(p, record[p].lastSynced, live[p], staging[p], game[p], upload[p],
           asked[p], unsynced, answered)
      /\ upload[p].at = "idle" /\ record[p].pending = FALSE
  BY <1>1, KeptNow
<1>4. \A at : [NoGame EXCEPT !.at = at].at = at
  BY DEF NoGame
<1>8. WithId(store[p], game[p].newest) \subseteq UsableTo(p)
  BY <1>1 DEF WithId, UsableTo, Usable, Listed, KeptInv, Ground, LineInv, InStepHere, InStep
<1>5. ASSUME NEW at \in {"ready", "offered"},
             game' = [game EXCEPT ![p] = [NoGame EXCEPT !.at = at]],
             UNCHANGED <<record, staging, archive>>
      PROVE  KeptInv'
  BY <1>1, <1>4, <1>5, KeptGoesOn
<1>6. ASSUME NEW v \in WithId(store[p], game[p].newest), Fetch(p, v), UNCHANGED record,
             game' = [game EXCEPT ![p] = [NoGame EXCEPT !.at = "offered"]]
      PROVE  KeptInv'
  <2>1. PICK g : g = [NoGame EXCEPT !.at = "offered"]
    OBVIOUS
  <2>2. v \in store[p] /\ v \in UsableTo(p) /\ g.at = "offered"
    BY <1>4, <1>8, <2>1 DEF WithId
  <2>3. v.data # {} /\ v.data \subseteq 1..sessions /\ InStore(p, v.data)
    BY <2>2, HeldInStore
  <2>4. Kept(p, record[p].lastSynced, live[p], v.data, g, upload[p],
             asked[p], unsynced, answered)
    BY <1>1, <1>3, <2>2, <2>3 DEF Kept, Scanned
  <2> QED BY <1>1, <1>3, <1>6, <2>1, <2>2, <2>4, KeptFetches
<1>7. ASSUME NEW v \in WithId(store[p], game[p].newest), Fetch(p, v),
             RecordSync(p, v.id, v.data),
             game' = [game EXCEPT ![p] = [NoGame EXCEPT !.at = "ready"]]
      PROVE  KeptInv'
  <2>1. PICK g : g = [NoGame EXCEPT !.at = "ready"]
    OBVIOUS
  <2>2. v \in store[p] /\ v \in UsableTo(p) /\ g.at = "ready"
    BY <1>4, <1>8, <2>1 DEF WithId
  <2>3. v.data # {} /\ v.data \subseteq 1..sessions /\ InStore(p, v.data)
    BY <2>2, HeldInStore
  <2>4. PICK synced : synced = record'[p].lastSynced
    OBVIOUS
  <2>5. Kept(p, synced, live[p], v.data, g, upload[p], asked[p], unsynced, answered)
    BY <1>1, <1>3, <2>2, <2>3 DEF Kept, Scanned
  <2>6. record'[p].pending = FALSE /\ \A q \in PC \ {p} : record'[q] = record[q]
    BY <1>3, <1>7, RecordSynced, RecordWaits DEF KeptInv, Ground, LineInv
  <2> QED BY <1>1, <1>7, <2>1, <2>2, <2>4, <2>5, <2>6, KeptFetches
<1> QED BY <1>2, <1>5, <1>6, <1>7 DEF Compare

LEMMA KeptPutBack ==
    ASSUME KeptInv, Ground', NEW p \in PC, PutBack(p)
    PROVE  KeptInv'
<1>1. /\ game[p].at = "fetched"
      /\ UNCHANGED <<store, minted, settled, sessions, reach, staging, upload,
                     unsynced, answered, asked>>
  BY DEF PutBack, shared, memory, ghosts
<1>2. Kept(p, record[p].lastSynced, live[p], staging[p], game[p], upload[p],
           asked[p], unsynced, answered)
      /\ upload[p].at = "idle" /\ record[p].pending = FALSE
  BY <1>1, KeptNow
<1>3. PICK g : g = [NoGame EXCEPT !.at = "ready"]
  OBVIOUS
<1>4. g.at = "ready" /\ game'[p] = g /\ live'[p] = staging[p]
      /\ \A q \in PC \ {p} : game'[q] = game[q] /\ live'[q] = live[q]
  BY <1>3 DEF PutBack, NoGame, KeptInv, Ground, LineInv, TypeInv, TypeOK
<1>5. PICK synced : synced = record'[p].lastSynced
  OBVIOUS
<1>6. record'[p].pending = FALSE /\ \A q \in PC \ {p} : record'[q] = record[q]
  BY <1>2, RecordSynced, RecordWaits DEF PutBack, KeptInv, Ground, LineInv
<1>7. Kept(p, synced, staging[p], staging[p], g, upload[p], asked[p], unsynced, answered)
  BY <1>1, <1>2, <1>4 DEF Kept
<1>8. Apart(p)
  BY <1>1, <1>4, <1>6 DEF Apart
<1>9. reach' = PC
  BY <1>1, KeptNow
<1> QED BY <1>1, <1>4, <1>5, <1>6, <1>7, <1>8, <1>9, KeptAt

(* A new session is in no staging directory. *)
LEMMA KeptPlay ==
    ASSUME KeptInv, Ground', NEW p \in PC, Play(p)
    PROVE  KeptInv'
<1>1. /\ game[p].at = "running" /\ sessions' = sessions + 1
      /\ UNCHANGED <<store, minted, settled, reach, record, staging, upload, game,
                     unsynced, answered, asked>>
  BY DEF Play, shared, memory, flows
<1>2. Kept(p, record[p].lastSynced, live[p], staging[p], game[p], upload[p],
           asked[p], unsynced, answered)
      /\ upload[p].at = "idle" /\ record[p].pending = FALSE
  BY <1>1, KeptNow
<1>3. PICK files : files = live'[p]
  OBVIOUS
<1>4. files = live[p] \cup {sessions + 1} /\ \A q \in PC \ {p} : live'[q] = live[q]
  BY <1>1, <1>3 DEF Play, KeptInv, Ground, LineInv, TypeInv, TypeOK
<1>5. sessions \in Nat
  BY SaveSyncAssumption DEF KeptInv, Ground, LineInv, TypeInv, TypeOK
<1>6. 1..sessions \subseteq 1..sessions' /\ sessions' \in 1..sessions'
      /\ sessions' \notin 1..sessions
  BY <1>1, <1>5
<1>7. PICK s, d, g, u, a : /\ s = record[p].lastSynced /\ d = staging[p]
                           /\ g = game[p] /\ u = upload[p] /\ a = asked[p]
  OBVIOUS
<1>8. PICK uns, ans : uns = unsynced /\ ans = answered
  OBVIOUS
<1>9. Kept(p, s, live[p], d, g, u, a, uns, ans)
  BY <1>2, <1>7, <1>8
<1>10. files # {} /\ files # d /\ files \subseteq 1..sessions' /\ d \subseteq 1..sessions'
  <2>1. live[p] \subseteq 1..sessions /\ d \subseteq 1..sessions
    BY <1>9 DEF Kept
  <2> QED BY <1>1, <1>4, <1>6, <2>1
<1>11. Older(p, s) => Older(p, s)'
  BY <1>1, UsableSame DEF Older
<1>12. Kept(p, s, files, d, g, u, a, uns, ans)'
  BY <1>1, <1>2, <1>7, <1>9, <1>10, <1>11 DEF Kept, Scanned
<1>13. /\ record'[p].lastSynced = s /\ live'[p] = files /\ staging'[p] = d /\ game'[p] = g
       /\ upload'[p] = u /\ asked'[p] = a /\ unsynced' = uns /\ answered' = ans
  BY <1>1, <1>3, <1>7, <1>8
<1>14. KeptHere(p)'
  BY <1>12, <1>13 DEF KeptHere
<1>15. Apart(p) /\ reach' = PC /\ record'[p].pending = FALSE
  BY <1>1, <1>2, <1>4, KeptNow DEF Apart
<1> QED BY <1>1, <1>6, <1>14, <1>15, KeptMoves

LEMMA KeptExit ==
    ASSUME KeptInv, Ground', NEW p \in PC, ExitGame(p)
    PROVE  KeptInv'
<1>1. /\ game[p].at = "running" /\ upload[p].at = "idle"
      /\ UNCHANGED <<store, minted, settled, sessions, reach, record, live, staging,
                     answered, asked>>
  BY DEF ExitGame, shared, disk, ghosts
<1>2. Kept(p, record[p].lastSynced, live[p], staging[p], game[p], upload[p],
           asked[p], unsynced, answered)
      /\ record[p].pending = FALSE
  BY <1>1, KeptNow
<1>3. game'[p] = NoGame /\ NoGame.at = "idle" /\ \A q \in PC \ {p} : game'[q] = game[q]
  BY DEF ExitGame, BackToIdle, NoGame, KeptInv, Ground, LineInv, TypeInv, TypeOK
<1>4. PICK behind : behind = unsynced \ {p}
  OBVIOUS
<1>5. PICK u : u = upload'[p]
  OBVIOUS
<1>6. \/ p \in unsynced /\ u = upload[p] /\ \A q \in PC \ {p} : upload'[q] = upload[q]
      \/ p \notin unsynced /\ u.at = "scan" /\ u.why = "exit"
         /\ \A q \in PC \ {p} : upload'[q] = upload[q]
  BY <1>5, Begun DEF ExitGame, KeptInv, Ground, LineInv
<1>7. Older(p, record[p].lastSynced) => Even(p, record[p].lastSynced, live[p])
  BY OlderIsNotEven DEF KeptInv, Ground
<1>8. p \notin behind /\ unsynced' = behind
  BY <1>4 DEF ExitGame
<1>9. Kept(p, record[p].lastSynced, live[p], staging[p], NoGame, u, asked[p], behind, answered)
  BY <1>1, <1>2, <1>3, <1>6, <1>7, <1>8 DEF Kept
<1>10. Apart(p)
  BY <1>1, <1>3, <1>4, <1>6, <1>8 DEF Apart
<1>11. reach' = PC
  BY <1>1, KeptNow
<1> QED BY <1>1, <1>2, <1>3, <1>5, <1>8, <1>9, <1>10, <1>11, KeptAt
-----------------------------------------------------------------------------
(* What an upload makes of it. *)
LEMMA KeptUploadMoves ==
    ASSUME KeptInv, Ground', NEW p \in PC,
           NEW u, upload'[p] = u, \A q \in PC \ {p} : upload'[q] = upload[q],
           NEW staged, staging' = [staging EXCEPT ![p] = staged],
           UNCHANGED <<store, minted, settled, sessions, reach, record, live, game,
                       unsynced, answered, asked>>,
           u.at # "idle" /\ u.why \in {"exit", "offer", "choice"},
           u.at \in {"staged", "listed"} /\ live[p] # {},
           u.why = "choice" => u.force,
           upload[p].at \in {"scan", "staged"} /\ u.why = upload[p].why,
           (u.at = "listed" /\ ~u.force) =>
               \/ OneSystem
               \/ NewestId(UsableTo(p)) # record[p].lastSynced
               \/ NewestId(store[p]) = record[p].lastSynced,
           staged \in {live[p], staging[p]}
    PROVE  KeptInv'
<1>1. staging'[p] = staged /\ \A q \in PC \ {p} : staging'[q] = staging[q]
  BY DEF KeptInv, Ground, LineInv, TypeInv, TypeOK
<1>2. Kept(p, record[p].lastSynced, live[p], staging[p], game[p], upload[p],
           asked[p], unsynced, answered)
      /\ record[p].pending = FALSE /\ game[p].at \in {"idle", "offered"}
  BY KeptNow
<1>3. Kept(p, record[p].lastSynced, live[p], staged, game[p], u, asked[p], unsynced, answered)
  BY <1>2 DEF Kept
<1>4. Apart(p)
  BY <1>1 DEF Apart
<1>5. reach' = PC
  BY KeptNow
<1> QED BY <1>1, <1>2, <1>3, <1>4, <1>5, KeptAt

LEMMA KeptBackUp ==
    ASSUME KeptInv, Ground', NEW p \in PC, BackUp(p)
    PROVE  KeptInv'
<1>1. /\ upload[p].at = "scan"
      /\ UNCHANGED <<store, minted, settled, sessions, reach, record, live,
                     unsynced, asked>>
  BY DEF BackUp, shared, ghosts
<1>2. Kept(p, record[p].lastSynced, live[p], staging[p], game[p], upload[p],
           asked[p], unsynced, answered)
      /\ record[p].pending = FALSE /\ game[p].at \in {"idle", "offered"}
      /\ upload[p] \in Upload
  BY <1>1, KeptNow
<1>3. CASE live[p] # {}
  <2>1. PICK u : u = [upload[p] EXCEPT !.at = "staged"]
    OBVIOUS
  <2>2. /\ upload'[p] = u /\ u.at = "staged" /\ u.why = upload[p].why
        /\ u.force = upload[p].force /\ \A q \in PC \ {p} : upload'[q] = upload[q]
    BY <1>2, <1>3, <2>1 DEF BackUp, Upload, KeptInv, Ground, LineInv, TypeInv, TypeOK
  <2>3. staging' = [staging EXCEPT ![p] = live[p]] /\ UNCHANGED <<answered, game>>
    BY <1>3 DEF BackUp
  <2>4. upload[p].why \in {"exit", "offer", "choice"}
        /\ (upload[p].why = "choice" => upload[p].force)
    BY <1>1, <1>2 DEF Kept
  <2> QED BY <1>1, <1>3, <2>2, <2>3, <2>4, KeptUploadMoves
<1>4. CASE live[p] = {}
  <2>1. UploadEnds(p) /\ UNCHANGED staging
    BY <1>4 DEF BackUp
  <2>2. PICK g : g = game'[p]
    OBVIOUS
  <2>3. g \in {game[p], NoGame} /\ upload'[p] = NoUpload
        /\ \A q \in PC \ {p} : game'[q] = game[q] /\ upload'[q] = upload[q]
    BY <2>1, <2>2, UploadOver DEF KeptInv, Ground, LineInv
  <2>4. game[p].at = "idle"
    BY <1>2, <1>4 DEF Kept
  <2>5. g.at = "idle" /\ NoUpload.at = "idle"
    BY <2>3, <2>4 DEF NoGame, NoUpload
  <2>6. PICK passes : passes = answered'
    OBVIOUS
  <2>7. \A q \in PC \ {p} : q \in passes <=> q \in answered
    BY <2>1, <2>6 DEF UploadEnds
  <2>8. Kept(p, record[p].lastSynced, live[p], staging[p], g, NoUpload, asked[p],
             unsynced, passes)
    BY <1>1, <1>2, <1>4, <2>4, <2>5 DEF Kept, Even, Scanned
  <2>9. Apart(p)
    BY <1>1, <2>1, <2>3, <2>6, <2>7 DEF Apart
  <2>10. reach' = PC
    BY <1>1, KeptNow
  <2> QED BY <1>1, <1>2, <2>1, <2>2, <2>3, <2>6, <2>8, <2>9, <2>10, KeptAt
<1> QED BY <1>3, <1>4

LEMMA KeptListForUpload ==
    ASSUME KeptInv, Ground', NEW p \in PC, ListForUpload(p)
    PROVE  KeptInv'
<1>1. /\ upload[p].at = "staged"
      /\ UNCHANGED <<store, minted, settled, sessions, reach, record, live, staging, game,
                     unsynced, answered, asked>>
  BY DEF ListForUpload, shared, disk, memory, ghosts
<1>2. Kept(p, record[p].lastSynced, live[p], staging[p], game[p], upload[p],
           asked[p], unsynced, answered)
  BY KeptNow
<1> DEFINE passes == upload[p].force
                     \/ PassesOtherSystems(store[p], upload[p].base, HereOf(p))
           there == [upload EXCEPT ![p].at = "listed"]
<1>3. PICK u : u = upload'[p]
  OBVIOUS
<1>4. /\ \A q \in PC \ {p} : there[q] = upload[q]
      /\ there[p].at = "listed" /\ there[p].why = upload[p].why
      /\ there[p].force = upload[p].force
      /\ DOMAIN there = PC /\ "force" \in DOMAIN there[p]
  BY DEF KeptInv, Ground, LineInv, TypeInv, TypeOK, Upload
<1>5. upload' = [there EXCEPT ![p].force = passes]
  BY <1>4 DEF ListForUpload
<1>6. /\ \A q \in PC \ {p} : upload'[q] = upload[q]
      /\ u.at = "listed" /\ u.why = upload[p].why /\ (upload[p].force => u.force)
      /\ ~u.force => ~PassesOtherSystems(store[p], upload[p].base, HereOf(p))
  <2>1. u.force = passes /\ u.at = "listed" /\ u.why = upload[p].why
        /\ \A q \in PC \ {p} : upload'[q] = upload[q]
    <3> HIDE DEF there, passes
    <3> QED BY <1>3, <1>4, <1>5
  <2> QED BY <2>1 DEF passes
<1> HIDE DEF there, passes
<1>7. /\ u.why \in {"exit", "offer", "choice"} /\ live[p] # {}
      /\ u.why = "choice" => u.force
  BY <1>1, <1>2, <1>6 DEF Kept
<1>8. staging' = [staging EXCEPT ![p] = staging[p]]
  BY <1>1 DEF KeptInv, Ground, LineInv, TypeInv, TypeOK
<1>9. ~u.force => \/ NewestId(UsableTo(p)) # record[p].lastSynced
                  \/ NewestId(store[p]) = record[p].lastSynced
  <2>1. upload[p].base = record[p].lastSynced
    BY <1>1 DEF KeptInv, Ground, LineInv, InStepHere, InStep
  <2> QED BY <1>6, <2>1 DEF PassesOtherSystems, NewestUsableId, UsableTo
<1> QED BY <1>1, <1>3, <1>6, <1>7, <1>8, <1>9, KeptUploadMoves

LEMMA KeptRecordUpload ==
    ASSUME CalmEvents, KeptInv, Ground', NEW p \in PC, RecordUpload(p)
    PROVE  KeptInv'
<1>1. /\ UploadEnds(p) /\ upload[p].at = "stored"
      /\ UNCHANGED <<store, minted, settled, sessions, reach, live, staging, unsynced>>
  BY DEF RecordUpload, shared, ghosts
<1>2. Kept(p, record[p].lastSynced, live[p], staging[p], game[p], upload[p],
           asked[p], unsynced, answered)
      /\ record[p].pending = FALSE /\ game[p].at \in {"idle", "offered"}
      /\ upload[p] \in Upload
  BY <1>1, KeptNow
<1> DEFINE known == [record EXCEPT ![p].pending = StillPending(p)]
           named == [known EXCEPT
                        ![p].lastSynced = IF upload[p].outcome = "stored"
                                          THEN upload[p].id ELSE @]
           marked == [named EXCEPT ![p].backedUp = TRUE]
<1>3. /\ \A q \in PC \ {p} : known[q] = record[q]
      /\ known[p].lastSynced = record[p].lastSynced /\ known[p].pending = StillPending(p)
      /\ DOMAIN known = PC
  BY DEF KeptInv, Ground, LineInv, TypeInv, TypeOK, Record
<1>4. ~StillPending(p)
  BY <1>2 DEF StillPending
<1>5. /\ known[p].pending = FALSE
  <2> HIDE DEF known
  <2>1. StillPending(p) = FALSE
    BY <1>4 DEF StillPending
  <2> QED BY <1>3, <2>1
<1>6. /\ record'[p].pending = FALSE
      /\ upload[p].outcome = "conflict" => record'[p].lastSynced = record[p].lastSynced
      /\ \A q \in PC \ {p} : record'[q] = record[q]
  <2>1. CASE upload[p].outcome = "conflict"
    <3>1. record' = known
      BY <2>1 DEF RecordUpload
    <3> HIDE DEF known
    <3> QED BY <1>3, <1>5, <3>1
  <2>2. CASE upload[p].outcome # "conflict"
    <3>1. record' = [marked EXCEPT ![p].hash = archive[p]]
      BY <2>2 DEF RecordUpload
    <3>2. named[p].pending = known[p].pending /\ DOMAIN named = PC
          /\ \A q \in PC \ {p} : named[q] = known[q]
      <4> HIDE DEF known
      <4> QED BY <1>3
    <3>3. marked[p].pending = named[p].pending /\ DOMAIN marked = PC
          /\ \A q \in PC \ {p} : marked[q] = named[q]
      <4> HIDE DEF named
      <4> QED BY <3>2
    <3>4. record'[p].pending = marked[p].pending /\ \A q \in PC \ {p} : record'[q] = marked[q]
      <4> HIDE DEF marked
      <4> QED BY <3>1, <3>3
    <3> HIDE DEF known, named, marked
    <3> QED BY <1>3, <1>5, <2>2, <3>2, <3>3, <3>4
  <2> QED BY <2>1, <2>2
<1> HIDE DEF known, named, marked
<1>7. PICK g, synced, prompt, passes :
          /\ g = game'[p] /\ synced = record'[p].lastSynced
          /\ prompt = asked'[p] /\ passes = answered'
  OBVIOUS
<1>8. g \in {game[p], NoGame} /\ upload'[p] = NoUpload
      /\ \A q \in PC \ {p} : game'[q] = game[q] /\ upload'[q] = upload[q]
  BY <1>1, <1>7, UploadOver DEF KeptInv, Ground, LineInv
<1>9. /\ upload[p].why = "offer" => g = NoGame /\ p \in passes
      /\ upload[p].why # "offer" => g = game[p] /\ (p \in passes <=> p \in answered)
      /\ \A q \in PC \ {p} : q \in passes <=> q \in answered
  BY <1>1, <1>7 DEF UploadEnds, KeptInv, Ground, LineInv, TypeInv, TypeOK
<1>10. /\ prompt = IF AsksUser(p) THEN "upload" ELSE asked[p]
       /\ \A q \in PC \ {p} : asked'[q] = asked[q]
  BY <1>7 DEF RecordUpload, KeptInv, Ground, LineInv, TypeInv, TypeOK
<1>11. NoGame.at = "idle" /\ NoUpload.at = "idle"
  BY DEF NoGame, NoUpload
<1>12. asked[p] # "upload" /\ p \notin unsynced /\ live[p] # {}
  BY <1>1, <1>2 DEF Kept
<1>13. Kept(p, synced, live[p], staging[p], g, NoUpload, prompt, unsynced, passes)
  <2>1. CASE upload[p].outcome = "conflict"
    <3>1. /\ Older(p, synced) /\ UsableTo(p) # {}
          /\ upload[p].why \in {"exit", "offer"}
      BY <1>1, <1>2, <1>6, <1>7, <2>1 DEF Kept
    <3>2. Even(p, synced, live[p])
      BY <3>1, OlderIsNotEven DEF KeptInv, Ground
    <3>3. CASE upload[p].why = "exit"
      <4>1. AsksUser(p)
        BY <2>1, <3>1, <3>3 DEF AsksUser, UsableTo
      <4>2. game[p].at = "idle" /\ p \notin answered
        BY <1>1, <1>2, <3>3 DEF Kept
      <4> QED BY <1>2, <1>9, <1>10, <1>11, <1>12, <3>3, <4>1, <4>2 DEF Kept
    <3>4. CASE upload[p].why = "offer"
      <4>1. ~AsksUser(p)
        BY <3>4 DEF AsksUser
      <4> QED BY <1>2, <1>9, <1>10, <1>11, <1>12, <3>2, <3>4, <4>1 DEF Kept
    <3> QED BY <3>1, <3>3, <3>4
  <2>2. CASE upload[p].outcome # "conflict"
    <3>1. InStore(p, live[p]) /\ ~AsksUser(p)
      BY <1>1, <1>2, <2>2 DEF Kept, AsksUser
    <3>2. Even(p, synced, live[p]) /\ Scanned(p, live[p], staging[p])
      BY <3>1 DEF Even, Scanned
    <3> QED BY <1>2, <1>8, <1>9, <1>10, <1>11, <1>12, <3>1, <3>2 DEF Kept
  <2> QED BY <2>1, <2>2
<1>14. Apart(p)
  BY <1>1, <1>6, <1>7, <1>8, <1>9, <1>10 DEF Apart
<1>15. reach' = PC
  BY <1>1, KeptNow
<1> QED BY <1>1, <1>6, <1>7, <1>8, <1>13, <1>14, <1>15, KeptAt
-----------------------------------------------------------------------------
(* What the store answers an upload. *)
LEMMA KeptNotStored ==
    ASSUME CalmEvents, KeptInv, Ground', NEW p \in PC, StoreUpload(p),
           NEW id, NEW answer, answer # "stored", Answered(p, id, answer),
           answer = Verdict(store[p], p, upload[p].base, upload[p].force)
    PROVE  KeptInv'
<1>1. /\ upload[p].at = "listed" /\ settled \subseteq settled'
      /\ UNCHANGED <<store, minted, sessions, reach, record, live, staging, game, asked,
                     unsynced, answered>>
  BY DEF StoreUpload, Answered, memory
<1>2. Kept(p, record[p].lastSynced, live[p], staging[p], game[p], upload[p],
           asked[p], unsynced, answered)
      /\ record[p].pending = FALSE
  BY KeptNow
<1>3. PICK u : u = upload'[p]
  OBVIOUS
<1>4. /\ u.at = "stored" /\ u.outcome = answer /\ u.why = upload[p].why
      /\ u.force = upload[p].force /\ \A q \in PC \ {p} : upload'[q] = upload[q]
  BY <1>3 DEF Answered
<1>5. staging[p] = live[p] /\ upload[p].base = record[p].lastSynced
  BY <1>1 DEF KeptInv, Ground, LineInv, InStepHere, InStep
<1>6. \/ /\ answer = "conflict" /\ ~upload[p].force
         /\ NewestId(store[p]) # record[p].lastSynced
      \/ /\ answer = "unchanged" /\ store[p] # {}
         /\ SameArchive(Newest(store[p]), p, live[p])
  BY <1>5 DEF Verdict
<1>7. answer = "conflict" => Older(p, record[p].lastSynced) /\ UsableTo(p) # {}
  <2> SUFFICES ASSUME answer = "conflict"
               PROVE  NewestId(UsableTo(p)) # record[p].lastSynced
    BY OlderWhen DEF KeptInv
  <2>1. OneSystem => UsableTo(p) = store[p]
    BY AllUsable DEF KeptInv, Ground, UsableTo
  <2> QED BY <1>1, <1>2, <1>6, <2>1 DEF Kept
<1>8. answer = "conflict" => upload[p].why # "choice"
  BY <1>1, <1>2, <1>6 DEF Kept
<1>9. answer # "conflict" => InStore(p, live[p])
  <2> SUFFICES ASSUME answer # "conflict" PROVE InStore(p, live[p])
    OBVIOUS
  <2>1. PICK n : n = Newest(store[p])
    OBVIOUS
  <2>2. n \in store[p] /\ n.platform = PlatformOf[p] /\ n.data = live[p]
    BY <1>6, <2>1, NewestHere DEF SameArchive, KeptInv, Ground, LineInv
  <2>3. n \in UsableTo(p)
    BY <2>2 DEF UsableTo, Usable, RestorableHere, InterchangeableWith, HereOf
  <2>4. Newest(UsableTo(p)) = n
    BY <2>1, <2>3, TopUsable DEF KeptInv, Ground
  <2> QED BY <2>2, <2>3, <2>4 DEF InStore, Saved
<1>10. Kept(p, record[p].lastSynced, live[p], staging[p], game[p], u,
            asked[p], unsynced, answered)
  BY <1>1, <1>2, <1>4, <1>7, <1>8, <1>9 DEF Kept
<1>11. Apart(p) /\ reach' = PC
  BY <1>1, <1>4, KeptNow DEF Apart
<1>12. Grows(p)
  BY <1>1, SameGrows DEF KeptInv, Ground, LineInv
<1>13. PICK s, f, d, g, a, uns, ans :
           /\ s = record[p].lastSynced /\ f = live[p] /\ d = staging[p]
           /\ g = game[p] /\ a = asked[p] /\ uns = unsynced /\ ans = answered
  OBVIOUS
<1>14. Kept(p, s, f, d, g, u, a, uns, ans)
  BY <1>10, <1>13
<1>15. s \in Nat /\ s \in minted \cup {NoId}
  BY <1>13, SyncedMinted DEF KeptInv, Ground
<1>16. Kept(p, s, f, d, g, u, a, uns, ans)'
  BY <1>1, <1>12, <1>14, <1>15, KeptStays DEF KeptInv, Ground, LineInv
<1>17. /\ record'[p].lastSynced = s /\ live'[p] = f /\ staging'[p] = d /\ game'[p] = g
       /\ asked'[p] = a /\ unsynced' = uns /\ answered' = ans
  BY <1>1, <1>13
<1>18. KeptHere(p)'
  BY <1>3, <1>16, <1>17 DEF KeptHere
<1> QED BY <1>1, <1>2, <1>11, <1>18, KeptMoves

(* PCs that one of them can restore a new version of the other's on can    *)
(* use the same versions.                                                  *)
LEMMA SameLine ==
    ASSUME CalmEvents, Ground, NEW p \in PC, NEW q \in PC, NEW id,
           RestorableHere(Added(p, id), HereOf(q)), store[q] = store[p]
    PROVE  UsableTo(q) = UsableTo(p)
<1>1. CASE OneSystem
  BY <1>1, AllUsable DEF Ground, UsableTo
<1>2. CASE ~OneSystem
  <2>1. InterchangeableWith(PlatformOf[p], PlatformOf[q])
    BY DEF Added, RestorableHere, HereOf, InterchangeableWith
  <2>2. \A r \in PC : PlatformOf[r] # "unknown" /\ PlatformOf[r] \in SavePlatforms
    BY <1>2, SaveSyncAssumption DEF CalmEvents
  <2>3. ASSUME NEW v \in store[p]
        PROVE  RestorableHere(v, HereOf(q)) <=> RestorableHere(v, HereOf(p))
    <3>1. v.platform = PlatformOf[v.installation] /\ v.installation \in PC
      BY DEF Ground, MadeThere, Listed, LineInv, TypeInv, TypeOK, Version
    <3>2. \A r \in PC : RestorableHere(v, HereOf(r))
                            <=> InterchangeableWith(PlatformOf[v.installation], PlatformOf[r])
      BY <3>1 DEF RestorableHere, HereOf, InterchangeableWith
    <3>3. InterchangeableWith(PlatformOf[v.installation], PlatformOf[q])
              <=> InterchangeableWith(PlatformOf[v.installation], PlatformOf[p])
      BY <2>1, <2>2, <3>1 DEF InterchangeableWith
    <3> QED BY <3>2, <3>3
  <2> QED BY <2>3 DEF UsableTo, Usable
<1> QED BY <1>1, <1>2

(* A version that is stored is the newest, and holds what the one before   *)
(* it held.                                                                *)
LEMMA StoredNewest ==
    ASSUME CalmEvents, KeptInv, Ground', NEW p \in PC, StoreUpload(p), NEW id, Answered(p, id, "stored")
    PROVE  /\ \A q \in PC : Grows(q)
           /\ InStore(p, staging[p])' /\ LineHeld'
<1>1. /\ id \in NewIds /\ Write(p, Pruned(store[p] \cup {Added(p, id)}))
      /\ upload[p].at = "listed" /\ UNCHANGED <<live, staging, sessions>>
      /\ settled \subseteq settled' /\ upload'[p].outcome = "stored"
  BY DEF Answered, StoreUpload
<1>2. PICK new : new = Added(p, id)
  OBVIOUS
<1>3. new.id = id /\ new.data = staging[p]
  BY <1>2 DEF Added
<1>4. PICK all : all = store[p] \cup {new}
  OBVIOUS
<1>5. /\ KeptTop /\ \E w \in store'[p] : w.id >= id
      /\ store'[p] = Pruned(all) /\ \A q \in PC : store'[q] = store'[p]
  BY <1>1, <1>2, <1>4, StoredTop DEF KeptInv, Ground, CalmEvents
<1>6. id = Cardinality(minted) + 1 /\ minted = 1 .. Cardinality(minted)
      /\ Cardinality(minted) \in Nat
  <2>1. "skew" \notin Events /\ Inv
    BY DEF CalmEvents, KeptInv, Ground, LineInv, Inv
  <2>2. Cardinality(minted) \in Nat
    BY FS_CardinalityType DEF KeptInv, Ground, LineInv, TypeInv, StoredWasMinted
  <2> QED BY <1>1, <2>1, <2>2, NextIdIsLast DEF Inv, Consecutive
<1>7. \A v \in store[p] : v.id \in minted /\ v.id \in Nat
  BY DEF KeptInv, Ground, LineInv, TypeInv, TypeOK, StoredWasMinted, IdsOf, Version
<1>8. \A v \in store[p] : v.id < id
  BY <1>6, <1>7
<1>9. store'[p] \subseteq all
  BY <1>5 DEF Pruned
<1>10. new \in store'[p] /\ \A v \in store'[p] : v.id <= id /\ (v.id = id => v = new)
  <2>1. PICK w \in store'[p] : w.id >= id
    BY <1>5
  <2>2. w = new
    BY <1>4, <1>6, <1>7, <1>8, <1>9, <2>1
  <2> QED BY <1>3, <1>4, <1>6, <1>7, <1>8, <1>9, <2>1, <2>2
<1>11. \A q \in PC : store[q] = store[p]
  BY DEF KeptInv, Ground, LineInv, StoreSound, CalmEvents
<1>12. UsableTo(p) # {} => Newest(UsableTo(p)).data \subseteq staging[p] \cup settled'
  <2> SUFFICES ASSUME UsableTo(p) # {}
               PROVE  Newest(UsableTo(p)).data \subseteq staging[p] \cup settled'
    OBVIOUS
  <2>1. PICK n : n = NewestUsable(store[p], HereOf(p))
    OBVIOUS
  <2>2. n = Newest(UsableTo(p)) /\ n \in Usable(store[p], HereOf(p))
    BY <2>1, UsableHere DEF NewestUsable, UsableTo, KeptInv, Ground
  <2>3. CASE upload[p].why = "choice"
    BY <2>1, <2>2, <2>3 DEF StoreUpload
  <2>4. CASE upload[p].why # "choice"
    <3>1. InLineEvents /\ LineInv
      BY DEF InLineEvents, CalmEvents, KeptInv, Ground
    <3>2. n.data \subseteq staging[p] \cup settled
      BY <1>1, <2>1, <2>2, <2>4, <3>1, StoredInLine
    <3> QED BY <1>1, <2>2, <3>2
  <2> QED BY <2>3, <2>4
<1>13. id \notin minted \cup {NoId}
  BY <1>1, NewIdsTyped DEF KeptInv, Ground, LineInv
<1>14. staging[p] # {} /\ staging[p] \subseteq 1..sessions
  <2>1. Kept(p, record[p].lastSynced, live[p], staging[p], game[p], upload[p],
             asked[p], unsynced, answered)
    BY KeptNow
  <2>2. staging[p] = live[p]
    BY <1>1 DEF KeptInv, Ground, LineInv, InStepHere, InStep
  <2> QED BY <1>1, <2>1, <2>2 DEF Kept
(* Where it can be used, ... *)
<1>15. ASSUME NEW q \in PC, RestorableHere(new, HereOf(q))
       PROVE  /\ Grows(q) /\ InStore(q, staging[p])'
              /\ \A v \in UsableTo(q)' :
                     v.data # {} /\ v.data \subseteq 1..sessions' /\ InStore(q, v.data)'
  <2>1. UsableTo(q) = UsableTo(p)
    BY <1>2, <1>11, <1>15, SameLine DEF KeptInv
  <2>2. new \in UsableTo(q)' /\ UsableTo(q)' \subseteq store'[p]
    BY <1>5, <1>10, <1>15 DEF UsableTo, Usable, HereOf
  <2>3. UsableTo(q)' \subseteq UsableTo(q) \cup {new}
    BY <1>4, <1>5, <1>9, <1>11 DEF UsableTo, Usable, HereOf
  <2>4. Newest(UsableTo(q)') = new
    <3>1. PICK usable : usable = UsableTo(q)'
      OBVIOUS
    <3>2. new \in usable /\ \A v \in usable : v.id <= id /\ (v.id = id => v = new) /\ v.id \in Nat
      BY <1>3, <1>4, <1>6, <1>7, <1>9, <1>10, <2>2, <3>1
    <3> DEFINE top == CHOOSE v \in usable : \A w \in usable : w.id <= v.id
    <3>3. top \in usable /\ \A w \in usable : w.id <= top.id
      BY <1>3, <3>2
    <3>4. new.id <= top.id /\ top.id <= id
      BY <3>2, <3>3
    <3> HIDE DEF top
    <3>5. top = new
      BY <1>3, <1>6, <3>2, <3>3, <3>4
    <3> QED BY <3>1, <3>5 DEF top, Newest
  <2>5. NewestId(UsableTo(q))' = id
    BY <1>3, <2>2, <2>4 DEF NewestId
  <2>6. Saved(q)' = staging[p] \cup settled'
    BY <1>3, <2>4 DEF Saved
  <2>7. UsableTo(q) # {} => Saved(q) \subseteq Saved(q)'
    BY <1>1, <1>12, <2>1, <2>6 DEF Saved
  <2>8. \A v \in UsableTo(q) : new.id >= v.id
    BY <1>3, <1>6, <1>7, <1>8, <2>1, UsableHere DEF KeptInv, Ground
  <2>9. Grows(q)
    BY <1>13, <2>2, <2>5, <2>7, <2>8 DEF Grows
  <2>10. InStore(q, staging[p])'
    BY <1>1, <2>2, <2>6 DEF InStore
  <2>11. ASSUME NEW v \in UsableTo(q)'
         PROVE  v.data # {} /\ v.data \subseteq 1..sessions' /\ InStore(q, v.data)'
    <3>1. CASE v = new
      <4>1. v.data \subseteq Saved(q)'
        BY <1>3, <2>6, <3>1
      <4>2. InStore(q, v.data)'
        BY <2>2, <4>1 DEF InStore
      <4> QED BY <1>1, <1>3, <1>14, <3>1, <4>2
    <3>2. CASE v \in UsableTo(q)
      <4>1. v.data # {} /\ v.data \subseteq 1..sessions /\ v.data \subseteq Saved(q)
        BY <3>2, HeldInStore DEF InStore
      <4>2. v.data \subseteq Saved(q)'
        BY <2>7, <3>2, <4>1
      <4>3. InStore(q, v.data)'
        BY <2>2, <4>2 DEF InStore
      <4> QED BY <1>1, <4>1, <4>3
    <3> QED BY <2>3, <2>11, <3>1, <3>2
  <2> QED BY <2>9, <2>10, <2>11
(* ... and where not, nothing changes. *)
<1>16. ASSUME NEW q \in PC, ~RestorableHere(new, HereOf(q))
       PROVE  /\ Grows(q)
              /\ \A v \in UsableTo(q)' :
                     v.data # {} /\ v.data \subseteq 1..sessions' /\ InStore(q, v.data)'
  <2>1. ~OneSystem
    BY <1>2, <1>16 DEF OneSystem, Added, RestorableHere, HereOf
  <2>2. store[p] \subseteq store'[p]
    <3> SUFFICES ASSUME NEW v \in store[p] PROVE v \in store'[p]
      OBVIOUS
    <3>1. v.id \notin removed'
      BY <2>1 DEF Ground, Unpruned
    <3>2. v.id \in IdsOf(store'[p])
      <4>1. v.id \in minted'
        BY <1>7 DEF Answered
      <4> QED BY <3>1, <4>1 DEF Ground, AllListed
    <3>3. PICK w \in store'[p] : w.id = v.id
      BY <3>2 DEF IdsOf
    <3>4. w \in store[p]
      BY <1>3, <1>4, <1>6, <1>8, <1>9, <3>3
    <3> QED BY <3>3, <3>4 DEF KeptInv, Ground, LineInv, StoreSound, Listed
  <2>3. UsableTo(q)' = UsableTo(q)
    BY <1>4, <1>5, <1>9, <1>11, <1>16, <2>2 DEF UsableTo, Usable, HereOf
  <2>4. Saved(q) \subseteq Saved(q)' /\ NewestId(UsableTo(q))' = NewestId(UsableTo(q))
    BY <1>1, <2>3 DEF Saved, NewestId
  <2>5. \A v \in UsableTo(q) : v.id \in Nat
    BY UsableHere DEF KeptInv, Ground
  <2>6. Grows(q)
    BY <2>3, <2>4, <2>5 DEF Grows
  <2>7. ASSUME NEW v \in UsableTo(q)'
        PROVE  v.data # {} /\ v.data \subseteq 1..sessions' /\ InStore(q, v.data)'
    <3>1. v.data # {} /\ v.data \subseteq 1..sessions /\ InStore(q, v.data)
      BY <2>3, <2>7, HeldInStore
    <3>2. InStore(q, v.data)'
      BY <2>3, <2>4, <3>1 DEF InStore
    <3> QED BY <1>1, <3>1, <3>2
  <2> QED BY <2>6, <2>7
<1>17. RestorableHere(new, HereOf(p))
  BY <1>2 DEF Added, RestorableHere, HereOf
<1>18. LineHeld'
  BY <1>15, <1>16 DEF LineHeld
<1> QED BY <1>15, <1>16, <1>17, <1>18

LEMMA KeptStoreUpload ==
    ASSUME CalmEvents, KeptInv, Ground', NEW p \in PC, StoreUpload(p)
    PROVE  KeptInv'
<1>1. PICK answer : answer = Verdict(store[p], p, upload[p].base, upload[p].force)
  OBVIOUS
<1>2. PICK id : Answered(p, id, answer)
  BY <1>1, UploadAnswered DEF KeptInv, Ground, LineInv
<1>3. CASE answer # "stored"
  BY <1>1, <1>2, <1>3, KeptNotStored
<1>4. CASE answer = "stored"
  <2>1. /\ upload[p].at = "listed" /\ settled \subseteq settled'
        /\ UNCHANGED <<sessions, reach, record, live, staging, game, asked,
                       unsynced, answered>>
    BY DEF StoreUpload, memory
  <2>2. Kept(p, record[p].lastSynced, live[p], staging[p], game[p], upload[p],
             asked[p], unsynced, answered)
        /\ record[p].pending = FALSE
    BY KeptNow
  <2>3. /\ \A q \in PC : Grows(q)
        /\ InStore(p, staging[p])' /\ LineHeld'
    BY <1>2, <1>4, StoredNewest
  <2>4. PICK s, f, d, g, a, uns, ans :
            /\ s = record[p].lastSynced /\ f = live[p] /\ d = staging[p]
            /\ g = game[p] /\ a = asked[p] /\ uns = unsynced /\ ans = answered
    OBVIOUS
  <2>5. PICK u, v : u = upload'[p] /\ v = [upload[p] EXCEPT !.at = "staged"]
    OBVIOUS
  <2>6. /\ v.at = "staged" /\ v.why = upload[p].why /\ v.force = upload[p].force
        /\ Kept(p, s, f, d, g, v, a, uns, ans)
    <3>1. v.at = "staged" /\ v.why = upload[p].why /\ v.force = upload[p].force
      BY <2>5, KeptNow DEF Upload
    <3> QED BY <2>1, <2>2, <2>4, <3>1 DEF Kept
  <2>7. s \in Nat /\ s \in minted \cup {NoId}
    BY <2>4, SyncedMinted DEF KeptInv, Ground
  <2>8. Kept(p, s, f, d, g, v, a, uns, ans)'
    BY <2>1, <2>3, <2>6, <2>7, KeptStays DEF KeptInv, Ground, LineInv
  <2>9. /\ u.at = "stored" /\ u.outcome = "stored" /\ u.why = v.why /\ u.force = v.force
        /\ \A q \in PC \ {p} : upload'[q] = upload[q]
    BY <1>2, <1>4, <2>1, <2>5, <2>6 DEF Answered
  <2>10. f = staging[p]
    <3>1. staging[p] = live[p]
      BY <2>1 DEF KeptInv, Ground, LineInv, InStepHere, InStep
    <3> QED BY <2>4, <3>1
  <2>11. InStore(p, f)'
    BY <2>1, <2>3, <2>10
  <2>12. Kept(p, s, f, d, g, u, a, uns, ans)'
    BY <2>6, <2>8, <2>9, <2>11 DEF Kept
  <2>13. /\ record'[p].lastSynced = s /\ live'[p] = f /\ staging'[p] = d /\ game'[p] = g
         /\ asked'[p] = a /\ unsynced' = uns /\ answered' = ans
    BY <2>1, <2>4
  <2>14. KeptHere(p)'
    BY <2>5, <2>12, <2>13 DEF KeptHere
  <2>15. Apart(p) /\ reach' = PC
    BY <2>1, <2>9, KeptNow DEF Apart
  <2>16. record'[p].pending = FALSE /\ 1..sessions \subseteq 1..sessions'
    BY <2>1, <2>2
  <2>17. \A q \in PC \ {p} : upload[q].at = "listed" => OneSystem
    BY <2>1 DEF KeptInv, Ground, LineInv, OneLists, CalmEvents
  <2> QED BY <2>1, <2>3, <2>14, <2>15, <2>16, <2>17, KeptStep
<1> QED BY <1>3, <1>4
-----------------------------------------------------------------------------
(* What choices of a user make of it. *)
LEMMA KeptChosen ==
    ASSUME KeptInv, Ground', NEW p \in PC, NEW version \in store[p],
           RestoreChosen(p, version),
           NEW g, game'[p] = g, g.at = "idle", upload[p].at = "idle",
           NEW prompt, asked'[p] = prompt, prompt # "upload", NEW passes, answered' = passes,
           \A q \in PC \ {p} :
               /\ record'[q] = record[q] /\ game'[q] = game[q] /\ asked'[q] = asked[q]
               /\ q \in passes <=> q \in answered,
           p \notin unsynced, record'[p].pending = FALSE,
           UNCHANGED <<store, minted, sessions, reach, upload, unsynced>>
    PROVE  KeptInv'
<1>1. /\ live'[p] = version.data /\ staging'[p] = version.data
      /\ settled \subseteq settled'
      /\ \A q \in PC \ {p} : live'[q] = live[q] /\ staging'[q] = staging[q]
  BY Chosen DEF KeptInv, Ground
<1>2. Apart(p)
  BY <1>1 DEF Apart
<1>3. version.data # {} /\ version.data \subseteq 1..sessions'
      /\ InStore(p, version.data)'
  <2>1. version.data # {} /\ version.data \subseteq 1..sessions /\ InStore(p, version.data)
    <3>1. version \in UsableTo(p)
      BY DEF RestoreChosen, UsableTo, Usable
    <3> QED BY <3>1, HeldInStore
  <2>2. InStore(p, version.data)'
    BY <1>1, <2>1, UsableSame DEF InStore, Saved
  <2> QED BY <2>1, <2>2
<1>4. PICK s, d, u, uns :
          /\ s = record'[p].lastSynced /\ d = version.data /\ u = upload[p] /\ uns = unsynced
  OBVIOUS
<1>5. Even(p, s, d)' /\ Scanned(p, d, d)'
  BY <1>3, <1>4 DEF Even, Scanned
<1>6. Kept(p, s, d, d, g, u, prompt, uns, passes)'
  BY <1>3, <1>4, <1>5 DEF Kept
<1>7. /\ live'[p] = d /\ staging'[p] = d /\ upload'[p] = u /\ unsynced' = uns
  BY <1>1, <1>4
<1>8. KeptHere(p)'
  BY <1>4, <1>6, <1>7 DEF KeptHere
<1>9. reach' = PC
  BY KeptNow
<1> QED BY <1>1, <1>2, <1>8, <1>9, KeptMoves

LEMMA KeptAnswerRestore ==
    ASSUME KeptInv, Ground', NEW p \in PC, AnswerRestore(p)
    PROVE  KeptInv'
<1>1. /\ game[p].at = "offered" /\ upload[p].at = "idle"
      /\ UNCHANGED <<store, minted, sessions, reach, upload, unsynced, asked>>
  BY DEF AnswerRestore, shared
<1>2. PICK version \in store[p] : RestoreChosen(p, version)
  BY DEF AnswerRestore
<1>3. Kept(p, record[p].lastSynced, live[p], staging[p], game[p], upload[p],
           asked[p], unsynced, answered)
      /\ record[p].pending = FALSE
  BY KeptNow
<1>4. game'[p] = NoGame /\ NoGame.at = "idle" /\ \A q \in PC \ {p} : game'[q] = game[q]
  BY DEF AnswerRestore, BackToIdle, NoGame, KeptInv, Ground, LineInv, TypeInv, TypeOK
<1>5. record'[p].pending = FALSE /\ \A q \in PC \ {p} : record'[q] = record[q]
  BY <1>3 DEF AnswerRestore, KeptInv, Ground, LineInv, TypeInv, TypeOK, Record
<1>6. asked[p] # "upload" /\ p \notin unsynced
  BY <1>1, <1>3 DEF Kept
<1>7. PICK passes, prompt : passes = answered \cup {p} /\ prompt = asked[p]
  OBVIOUS
<1>8. answered' = passes /\ asked'[p] = prompt /\ prompt # "upload"
  BY <1>1, <1>6, <1>7 DEF AnswerRestore
<1>9. \A q \in PC \ {p} :
          /\ record'[q] = record[q] /\ game'[q] = game[q] /\ asked'[q] = asked[q]
          /\ q \in passes <=> q \in answered
  BY <1>1, <1>4, <1>5, <1>7
<1> QED BY <1>1, <1>2, <1>4, <1>5, <1>6, <1>8, <1>9, KeptChosen

LEMMA KeptByHand ==
    ASSUME KeptInv, Ground', NEW p \in PC, NEW version \in store[p],
           RestoreByHand(p, version)
    PROVE  KeptInv'
<1>1. /\ game[p].at = "idle" /\ upload[p].at = "idle" /\ RestoreChosen(p, version)
      /\ UNCHANGED <<store, minted, sessions, reach, upload, game, unsynced, answered>>
  BY DEF RestoreByHand, Quiet, shared, memory
<1>2. Kept(p, record[p].lastSynced, live[p], staging[p], game[p], upload[p],
           asked[p], unsynced, answered)
      /\ record[p].pending = FALSE
  BY KeptNow
<1>3. record'[p].pending = FALSE /\ \A q \in PC \ {p} : record'[q] = record[q]
  BY <1>2, RecordSynced, RecordWaits DEF RestoreByHand, KeptInv, Ground, LineInv
<1>4. asked'[p] = "no" /\ \A q \in PC \ {p} : asked'[q] = asked[q]
  BY DEF RestoreByHand, KeptInv, Ground, LineInv, TypeInv, TypeOK
<1>5. p \notin unsynced
  BY <1>1, <1>2 DEF Kept
<1>6. PICK passes, g : passes = answered /\ g = game[p]
  OBVIOUS
<1> QED BY <1>1, <1>3, <1>4, <1>5, <1>6, KeptChosen

LEMMA KeptAnswerKeep ==
    ASSUME KeptInv, Ground', NEW p \in PC, AnswerKeep(p)
    PROVE  KeptInv'
<1> DEFINE newest == NewestUsableId(store[p], HereOf(p))
<1>1. /\ game[p].at = "offered" /\ upload[p].at = "idle"
      /\ UNCHANGED <<store, minted, sessions, reach, live, staging, game, unsynced, answered,
                     asked>>
  BY DEF AnswerKeep, shared, memory
<1>2. Kept(p, record[p].lastSynced, live[p], staging[p], game[p], upload[p],
           asked[p], unsynced, answered)
      /\ record[p].pending = FALSE
  BY KeptNow
<1>3. /\ record'[p].pending = FALSE /\ \A q \in PC \ {p} : record'[q] = record[q]
  <2> DEFINE named == [record EXCEPT ![p].lastSynced = newest]
  <2>1. record' = [named EXCEPT ![p].declined = newest]
    BY DEF AnswerKeep
  <2> HIDE DEF newest
  <2>2. /\ named[p].pending = record[p].pending /\ \A q \in PC \ {p} : named[q] = record[q]
        /\ DOMAIN named = PC
    BY DEF KeptInv, Ground, LineInv, TypeInv, TypeOK, Record
  <2> HIDE DEF named
  <2> QED BY <1>2, <2>1, <2>2
<1>4. PICK u : u = upload'[p]
  OBVIOUS
<1>5. /\ u.at = "scan" /\ u.why = "offer"
      /\ \A q \in PC \ {p} : upload'[q] = upload[q]
  <2> DEFINE begun == [NoUpload EXCEPT !.at = "scan", !.why = "offer", !.base = newest,
                                       !.wasPending = record[p].pending]
  <2>1. upload' = [upload EXCEPT ![p] = begun]
    BY DEF AnswerKeep
  <2>2. begun.at = "scan" /\ begun.why = "offer"
    <3> HIDE DEF newest
    <3> QED BY DEF NoUpload
  <2> HIDE DEF begun
  <2> QED BY <1>4, <2>1, <2>2 DEF KeptInv, Ground, LineInv, TypeInv, TypeOK
<1>6. settled \subseteq settled'
  BY DEF AnswerKeep
<1> HIDE DEF newest
<1>7. PICK s, f, d, g, a, uns, ans :
          /\ s = record'[p].lastSynced /\ f = live[p] /\ d = staging[p]
          /\ g = game[p] /\ a = asked[p] /\ uns = unsynced /\ ans = answered
  OBVIOUS
<1>8. /\ f # {} /\ f \subseteq 1..sessions /\ d \subseteq 1..sessions
      /\ a # "upload" /\ p \notin uns /\ p \notin ans /\ g.at = "offered"
  BY <1>1, <1>2, <1>7 DEF Kept
<1>9. Kept(p, s, f, d, g, u, a, uns, ans)'
  BY <1>1, <1>5, <1>8 DEF Kept
<1>10. /\ live'[p] = f /\ staging'[p] = d /\ game'[p] = g /\ asked'[p] = a
       /\ unsynced' = uns /\ answered' = ans
  BY <1>1, <1>7
<1>11. KeptHere(p)'
  BY <1>4, <1>7, <1>9, <1>10 DEF KeptHere
<1>12. Apart(p) /\ reach' = PC
  BY <1>1, <1>3, <1>5, KeptNow DEF Apart
<1> QED BY <1>1, <1>3, <1>6, <1>11, <1>12, KeptMoves

LEMMA KeptChoices ==
    ASSUME KeptInv, Ground', NEW p \in PC, KeepLocal(p) \/ KeepBoth(p)
    PROVE  KeptInv'
<1>1. /\ game[p].at = "idle" /\ upload[p].at = "idle" /\ Begin(p, "choice", TRUE)
      /\ asked' = [asked EXCEPT ![p] = "no"]
      /\ UNCHANGED <<store, minted, settled, sessions, reach, record, live, staging, game,
                     unsynced, answered>>
  BY DEF KeepLocal, KeepBoth, MayChoose, Quiet, shared, disk, memory, ghosts
<1>2. Kept(p, record[p].lastSynced, live[p], staging[p], game[p], upload[p],
           asked[p], unsynced, answered)
      /\ record[p].pending = FALSE
  BY KeptNow
<1>3. PICK u : u = upload'[p]
  OBVIOUS
<1>4. /\ u.at = "scan" /\ u.why = "choice" /\ u.force
      /\ \A q \in PC \ {p} : upload'[q] = upload[q]
  BY <1>1, <1>3, Begun DEF KeptInv, Ground, LineInv
<1>5. asked'[p] = "no" /\ \A q \in PC \ {p} : asked'[q] = asked[q]
  BY <1>1 DEF KeptInv, Ground, LineInv, TypeInv, TypeOK
<1>6. Kept(p, record[p].lastSynced, live[p], staging[p], game[p], u, "no", unsynced, answered)
  BY <1>1, <1>2, <1>4 DEF Kept
<1>7. Apart(p) /\ reach' = PC
  BY <1>1, <1>4, <1>5, KeptNow DEF Apart
<1> QED BY <1>1, <1>2, <1>3, <1>5, <1>6, <1>7, KeptAt

LEMMA KeptDismissConflict ==
    ASSUME CalmEvents, KeptInv, Ground', NEW p \in PC, DismissConflict(p)
    PROVE  KeptInv'
<1>1. /\ asked[p] = "launch" /\ asked' = [asked EXCEPT ![p] = "no"]
      /\ UNCHANGED <<store, minted, settled, sessions, reach, record, live, staging, game,
                     upload, unsynced, answered>>
  BY DEF DismissConflict, CalmEvents, shared, disk, memory, ghosts
<1>2. Kept(p, record[p].lastSynced, live[p], staging[p], game[p], upload[p],
           asked[p], unsynced, answered)
  BY KeptNow
<1>3. PICK g, behind, passes : g = game[p] /\ behind = unsynced /\ passes = answered
  OBVIOUS
<1>4. Kept(p, record[p].lastSynced, live[p], staging[p], g, upload[p], "no", behind, passes)
  BY <1>1, <1>2, <1>3 DEF Kept
<1>5. game' = [game EXCEPT ![p] = g]
  BY <1>1, <1>3 DEF KeptInv, Ground, LineInv, TypeInv, TypeOK
<1> QED BY <1>1, <1>3, <1>4, <1>5, KeptLaunchMoves

LEMMA KeptSame ==
    ASSUME KeptInv, Ground',
           UNCHANGED <<store, minted, settled, sessions, reach, record, live, staging, game,
                       upload, unsynced, answered, asked>>
    PROVE  KeptInv'
<1>1. ASSUME NEW p \in PC PROVE KeptInv'
  <2>1. KeptHere(p)'
    <3>1. /\ UsableTo(p)' = UsableTo(p) /\ NewestId(UsableTo(p))' = NewestId(UsableTo(p))
          /\ Saved(p)' = Saved(p) /\ NewestId(store[p])' = NewestId(store[p])
      BY UsableSame DEF Saved, NewestId
    <3> QED BY <3>1 DEF KeptInv, KeptHere, Kept, Even, Scanned, Older, InStore
  <2>2. Apart(p) /\ reach' = PC /\ record'[p].pending = FALSE
    BY KeptNow DEF Apart
  <2> QED BY <2>1, <2>2, KeptMoves
<1>2. CASE PC = {}
  BY <1>2 DEF KeptInv, Ground, LineHeld, NothingWaits
<1> QED BY <1>1, <1>2
-----------------------------------------------------------------------------
LEMMA KeptInit == CalmEvents /\ Init => KeptInv
<1> SUFFICES ASSUME CalmEvents, Init PROVE KeptInv
  OBVIOUS
<1>1. LineInv
  BY LineInit
<1>2. Consecutive
  <2>1. minted = {} /\ Cardinality({}) = 0
    BY FS_EmptySet DEF Init
  <2> QED BY <2>1 DEF Consecutive
<1>3. LineHeld /\ Unpruned /\ MadeThere /\ AllListed
  BY DEF Init, LineHeld, UsableTo, Usable, Unpruned, MadeThere, AllListed, Listed
<1>4. NothingWaits
  BY DEF Init, NothingWaits, NeverRecorded
<1>5. ASSUME NEW p \in PC PROVE KeptHere(p)
  <2>1. /\ record[p].lastSynced = NoId /\ staging[p] = {} /\ game[p].at = "idle"
        /\ upload[p].at = "idle" /\ asked[p] = "no" /\ p \notin unsynced
    BY <1>5 DEF Init, NeverRecorded, NoGame, NoUpload
  <2>2. live[p] \subseteq 1..sessions
    BY <1>5 DEF Init
  <2> QED BY <2>1, <2>2 DEF KeptHere, Kept, Even, Scanned
<1> QED BY <1>1, <1>2, <1>3, <1>4, <1>5 DEF KeptInv, Ground

(* What cannot happen here. *)
LEMMA NeverHere ==
    ASSUME CalmEvents, KeptInv, NEW p \in PC
    PROVE  /\ ~LaunchOffline(p) /\ ~FailRestore(p) /\ ~FailGame(p)
           /\ ~UploadUnreached(p) /\ ~UploadFails(p) /\ ~Retry(p)
           /\ ~BackUpByHand(p) /\ ~Delete(p) /\ ~SkipUpload(p)
           /\ ~LoseStore(p) /\ ~FindStore(p) /\ ~CatchUp(p) /\ ~Crash(p)
<1>1. p \in reach /\ ~record[p].pending
  BY KeptNow
<1>2. \A e \in {"failing", "failed", "by-hand", "delete", "skip-upload", "outage", "lag",
                "crash"} : e \notin Events
  BY DEF CalmEvents
<1> QED BY <1>1, <1>2 DEF LaunchOffline, Failing, Reaches, FailRestore, FailGame, UploadUnreached,
      UploadFails, Retry, BackUpByHand, Delete, SkipUpload, LoseStore, FindStore, CatchUp, Crash

(* Nothing but a stored upload changes what there is. *)
LEMMA OnlyUploadsStore ==
    ASSUME CalmEvents, KeptInv, [Next]_vars, \A p \in PC : ~StoreUpload(p)
    PROVE  UNCHANGED <<store, minted, removed>>
<1>1. \A p \in PC : ~Delete(p) /\ ~CatchUp(p)
  BY NeverHere
<1> QED
  BY <1>1, ZenonT(60) DEF Next, LaunchStep, UploadStep, UserStep, Launch, LaunchOffline, Check,
     Compare, FetchNewest, SkipRestore, PutBack, FailRestore, StartGame, FailGame, Play, ExitGame,
     BackUp, ListForUpload, RecordUpload, UploadUnreached, UploadFails, Retry, AnswerRestore,
     AnswerKeep, DismissOffer, KeepLocal, KeepBoth, KeepRemote, RestoreByHand, DismissConflict,
     RestoreOld, BackUpByHand, SetLocked, SkipUpload, LoseStore, FindStore,
     Crash, vars, shared

LEMMA GroundNext ==
    ASSUME CalmEvents, KeptInv, [Next]_vars, Unpruned'
    PROVE  Ground'
<1>1. LineInv' /\ Consecutive'
  <2>1. InLineEvents
    BY DEF InLineEvents, CalmEvents
  <2>2. Inv /\ LineInv
    BY DEF KeptInv, Ground, LineInv, Inv
  <2> QED BY <2>1, <2>2, LineNext, ConsecutiveNext
<1>2. CASE UNCHANGED <<store, minted, removed>>
  BY <1>1, <1>2 DEF KeptInv, Ground, MadeThere, AllListed, Listed
<1>3. ASSUME NEW p \in PC, StoreUpload(p) PROVE Ground'
  <2>1. PICK answer, id : Answered(p, id, answer)
    BY <1>3, UploadAnswered DEF KeptInv, Ground, LineInv
  <2>2. CASE answer # "stored"
    BY <1>2, <2>1, <2>2 DEF Answered
  <2>3. CASE answer = "stored"
    <3>1. /\ id \in NewIds /\ minted' = minted \cup {id}
          /\ Write(p, Pruned(store[p] \cup {Added(p, id)}))
      BY <2>1, <2>3 DEF Answered
    <3>2. PICK all : all = store[p] \cup {Added(p, id)}
      OBVIOUS
    <3>3. /\ \E w \in store'[p] : w.id >= id
          /\ store'[p] = Pruned(all) /\ Listed' \subseteq Listed \cup {Added(p, id)}
          /\ \A q \in PC : store'[q] = store'[p]
      BY <3>1, <3>2, StoredTop DEF KeptInv, Ground, CalmEvents
    <3>4. PICK new : new = Added(p, id)
      OBVIOUS
    <3>5. new.id = id /\ new.platform = PlatformOf[new.installation]
      BY <3>4 DEF Added
    <3>6. MadeThere'
      BY <3>3, <3>4, <3>5 DEF KeptInv, Ground, MadeThere
    <3>7. id \in IdsOf(store'[p])
      <4>1. id = Cardinality(minted) + 1 /\ minted = 1 .. Cardinality(minted)
            /\ Cardinality(minted) \in Nat
        <5>1. "skew" \notin Events /\ Inv
          BY DEF CalmEvents, KeptInv, Ground, LineInv, Inv
        <5>2. Cardinality(minted) \in Nat
          BY FS_CardinalityType DEF KeptInv, Ground, LineInv, TypeInv, StoredWasMinted
        <5> QED BY <3>1, <5>1, <5>2, NextIdIsLast DEF Inv, Consecutive
      <4>2. \A v \in store[p] : v.id \in minted
        BY DEF KeptInv, Ground, LineInv, TypeInv, StoredWasMinted, IdsOf
      <4>3. \A v \in store[p] : v.id < id
        BY <4>1, <4>2
      <4>4. PICK w \in store'[p] : w.id >= id
        BY <3>3
      <4>5. w = new
        BY <3>2, <3>3, <3>4, <4>1, <4>2, <4>3, <4>4 DEF Pruned
      <4> QED BY <3>5, <4>4, <4>5 DEF IdsOf
    <3>8. removed' = removed \cup (IdsOf(store[p]) \ IdsOf(store'[p]))
      BY <3>1, <3>2, <3>3 DEF Write, IdsOf
    <3>9. AllListed'
      <4>1. minted' \subseteq removed' \cup IdsOf(store'[p])
        BY <3>1, <3>7, <3>8 DEF KeptInv, Ground, AllListed
      <4> QED BY <3>3, <4>1 DEF AllListed
    <3> QED BY <1>1, <3>6, <3>9 DEF Ground
  <2> QED BY <2>2, <2>3
<1> QED BY <1>2, <1>3, OnlyUploadsStore

LEMMA KeptNext == CalmEvents /\ KeptInv /\ [Next]_vars /\ Unpruned' => KeptInv'
<1> SUFFICES ASSUME CalmEvents, KeptInv, [Next]_vars, Unpruned' PROVE KeptInv'
  OBVIOUS
<1>1. Ground'
  BY GroundNext
<1>2. ASSUME NEW p \in PC, LaunchStep(p) PROVE KeptInv'
  BY <1>1, <1>2, NeverHere, KeptLaunch, KeptCheck, KeptCompare, KeptFetchNewest,
     KeptSkipRestore, KeptPutBack, KeptStartGame, KeptPlay, KeptExit
     DEF LaunchStep
<1>3. ASSUME NEW p \in PC, UploadStep(p) PROVE KeptInv'
  BY <1>1, <1>3, NeverHere, KeptBackUp, KeptListForUpload, KeptStoreUpload, KeptRecordUpload
     DEF UploadStep
<1>4. ASSUME NEW p \in PC, UserStep(p) PROVE KeptInv'
  <2>1. CASE KeepRemote(p)
    <3>1. NewestUsable(store[p], HereOf(p)) \in store[p]
      BY <2>1, NewestTyped DEF KeepRemote, KeptInv, Ground, LineInv
    <3> QED BY <1>1, <2>1, <3>1, KeptByHand DEF KeepRemote
  <2>2. CASE RestoreOld(p)
    BY <1>1, <2>2, KeptByHand DEF RestoreOld
  <2>3. CASE SetLocked(p)
    BY <1>1, <2>3, KeptSame DEF SetLocked, disk, memory, flows, ghosts
  <2> QED BY <1>1, <1>4, <2>1, <2>2, <2>3, NeverHere, KeptAnswerRestore, KeptAnswerKeep,
             KeptStartGame, KeptChoices, KeptDismissConflict DEF UserStep
<1>5. CASE UNCHANGED vars
  BY <1>1, <1>5, KeptSame DEF vars, shared, disk, memory, flows, ghosts
<1> QED BY <1>2, <1>3, <1>4, <1>5, NeverHere DEF Next

LEMMA KeptAlways == CalmEvents => (Spec /\ []Unpruned => []KeptInv)
<1> SUFFICES ASSUME CalmEvents PROVE Spec /\ []Unpruned => []KeptInv
  OBVIOUS
<1>1. Init => KeptInv
  BY KeptInit
<1>2. KeptInv /\ [Next]_vars /\ Unpruned' => KeptInv'
  BY KeptNext
<1> QED BY <1>1, <1>2, PTL DEF Spec

(* What a launch puts back unasked holds what this PC holds, but for what  *)
(* users chose against: on PCs of one system, and on those of several      *)
(* while the limit takes nothing.                                          *)
THEOREM ProgressStays ==
    ASSUME CalmEvents
    PROVE  Spec /\ []Unpruned => ProgressKept
<1>1. ASSUME KeptInv, NEW p \in PC, PutBack(p)
      PROVE  live[p] \subseteq live'[p] \cup settled
  <2>1. game[p].at = "fetched" /\ live'[p] = staging[p]
    BY <1>1 DEF PutBack, KeptInv, Ground, LineInv, TypeInv, TypeOK
  <2> QED BY <1>1, <2>1, KeptNow DEF Kept
<1>2. KeptInv /\ [Next]_vars => [RestoresProgress]_vars
  BY <1>1 DEF RestoresProgress
<1> QED BY <1>2, KeptAlways, PTL DEF Spec, ProgressKept

(* Where the Saves page says "Backed up", this PC and the newest version   *)
(* it can use hold the same, but for what users chose against.             *)
THEOREM BackedUpHolds ==
    ASSUME CalmEvents
    PROVE  Spec /\ []Unpruned => []BackedUpIsBackedUp
<1>1. ASSUME KeptInv, NEW p \in PC, Quiet(p), asked[p] = "no", live[p] # {},
             Overview(p) = "in-sync"
      PROVE  /\ live[p] \subseteq NewestUsable(store[p], HereOf(p)).data \cup settled
             /\ NewestUsable(store[p], HereOf(p)).data \subseteq live[p] \cup settled
  <2>1. PICK n : n = NewestUsable(store[p], HereOf(p))
    OBVIOUS
  <2>2. UsableTo(p) # {} /\ record[p].lastSynced = n.id
    BY <1>1, <2>1 DEF Overview, Decide, UsableTo
  <2>3. n = Newest(UsableTo(p))
    BY <2>1 DEF NewestUsable, UsableTo
  <2>4. n \in UsableTo(p) /\ n.id = NewestId(UsableTo(p)) /\ n \in Listed /\ n.id # NoId
    BY <1>1, <2>2, <2>3, UsableHere DEF KeptInv, Ground
  <2>5. live[p] \subseteq n.data \cup settled
    <3>1. Even(p, record[p].lastSynced, live[p])
      BY <1>1, KeptNow DEF Kept, Quiet
    <3> QED BY <2>2, <2>3, <2>4, <3>1 DEF Even, InStore, Saved
  <2>6. n.data \subseteq live[p] \cup settled
    <3>1. Covers(p, record[p].lastSynced, live[p])
      BY <1>1, UploadAlone DEF Behind, CalmEvents, KeptInv, Ground
    <3> QED BY <2>2, <2>4, <3>1 DEF Covers
  <2> QED BY <2>1, <2>5, <2>6
<1>2. KeptInv => BackedUpIsBackedUp
  BY <1>1 DEF BackedUpIsBackedUp
<1> QED BY <1>2, KeptAlways, PTL
-----------------------------------------------------------------------------
(* The limit leaves room for all that can be stored: nobody settles from   *)
(* the Saves page what no launch asked about.                              *)
Roomy ==
    /\ CalmEvents /\ "history" \notin Events
    /\ MaxVersions >= MaxUploads + Cardinality(PC)

(* p may store a version before its next launch. *)
Busy(p) ==
    \/ asked[p] # "no"
    \/ upload[p].at \in {"scan", "staged", "listed"}
    \/ upload[p].at = "stored" /\ upload[p].outcome = "conflict"
    \/ upload[p].at = "idle" /\ game[p].at # "idle"

BusyPCs == {p \in PC : Busy(p)}

(* A prompt is all there is, and an upload outlives its launch. *)
Prompted(p, g, u, prompt, passes) ==
    /\ prompt # "no" => g.at = "idle" /\ u.at = "idle" /\ p \notin passes
    /\ (u.at # "idle" /\ u.why # "offer") => g.at = "idle"

RoomInv ==
    /\ KeptInv /\ removed = {}
    /\ \A p \in PC : Prompted(p, game[p], upload[p], asked[p], answered)
    /\ Cardinality(minted) + Cardinality(BusyPCs) <= MaxUploads + Cardinality(PC)

LEMMA Counts ==
    ASSUME TypeInv
    PROVE  /\ IsFiniteSet(PC) /\ Cardinality(PC) \in Nat
           /\ IsFiniteSet(BusyPCs) /\ Cardinality(BusyPCs) \in Nat
           /\ Cardinality(BusyPCs) <= Cardinality(PC)
           /\ IsFiniteSet(minted) /\ Cardinality(minted) \in Nat
           /\ MaxUploads \in Nat /\ MaxVersions \in Nat
<1>1. BusyPCs \in SUBSET PC
  BY DEF BusyPCs
<1>2. IsFiniteSet(PC) /\ IsFiniteSet(minted) /\ MaxUploads \in Nat /\ MaxVersions \in Nat
  BY SaveSyncAssumption DEF TypeInv, StoredWasMinted
<1>3. IsFiniteSet(BusyPCs) /\ Cardinality(BusyPCs) <= Cardinality(PC)
  BY <1>1, <1>2, FS_Subset
<1> QED BY <1>2, <1>3, FS_CardinalityType

(* The other PCs. *)
Away(p) ==
    \A q \in PC \ {p} :
        /\ game'[q] = game[q] /\ upload'[q] = upload[q] /\ asked'[q] = asked[q]
        /\ (q \in answered' <=> q \in answered)

(* A step of p that is busy already. *)
LEMMA RoomMoves ==
    ASSUME RoomInv, KeptInv', NEW p \in PC, Away(p), UNCHANGED <<minted, removed>>,
           Busy(p) \/ ~Busy(p)',
           Prompted(p, game[p], upload[p], asked[p], answered)'
    PROVE  RoomInv'
<1>1. \A q \in PC : Prompted(q, game[q], upload[q], asked[q], answered)'
  BY DEF RoomInv, Prompted, Away
<1>2. BusyPCs' \in SUBSET BusyPCs
  BY DEF BusyPCs, Busy, Away
<1>3. Cardinality(BusyPCs') <= Cardinality(BusyPCs) /\ Cardinality(BusyPCs') \in Nat
  BY <1>2, Counts, FS_Subset, FS_CardinalityType DEF RoomInv, KeptInv, Ground, LineInv
<1>4. Cardinality(minted) \in Nat /\ Cardinality(BusyPCs) \in Nat
      /\ MaxUploads + Cardinality(PC) \in Nat
  BY Counts DEF RoomInv, KeptInv, Ground, LineInv
<1> QED BY <1>1, <1>3, <1>4 DEF RoomInv

(* A launch that goes on. *)
LEMMA RoomGoesOn ==
    ASSUME RoomInv, KeptInv', NEW p \in PC, game[p].at # "idle", upload[p].at = "idle",
           UNCHANGED <<minted, removed, upload, asked>>,
           \A q \in PC \ {p} : game'[q] = game[q] /\ (q \in answered' <=> q \in answered)
    PROVE  RoomInv'
<1>1. asked[p] = "no"
  BY DEF RoomInv, Prompted
<1>2. Away(p) /\ Prompted(p, game[p], upload[p], asked[p], answered)'
  BY <1>1 DEF Away, Prompted
<1> QED BY <1>2, RoomMoves DEF Busy

LEMMA RoomLaunchSteps ==
    ASSUME CalmEvents, RoomInv, KeptInv', UNCHANGED removed, NEW p \in PC, LaunchStep(p)
    PROVE  RoomInv'
<1> USE DEF shared, disk, memory, flows, ghosts
<1>1. /\ Kept(p, record[p].lastSynced, live[p], staging[p], game[p], upload[p],
               asked[p], unsynced, answered)
      /\ game[p].at \notin {"idle", "offered"} => upload[p].at = "idle"
      /\ Prompted(p, game[p], upload[p], asked[p], answered)
  BY KeptNow DEF RoomInv
<1>2. game \in [PC -> Game] /\ asked \in [PC -> {"no", "launch", "upload"}]
  BY DEF RoomInv, KeptInv, Ground, LineInv, TypeInv, TypeOK
<1>3. CASE Launch(p)
  <2>1. asked[p] = "no"
    BY <1>1, <1>3 DEF Launch, Prompted
  <2>2. Away(p) /\ asked'[p] = "no" /\ upload'[p].at = "idle" /\ minted' = minted
    BY <1>2, <1>3, <2>1 DEF Launch, Away, To, CalmEvents
  <2>3. \A q \in PC : Prompted(q, game[q], upload[q], asked[q], answered)'
    BY <2>2 DEF RoomInv, Prompted, Away
  <2>4. Cardinality(BusyPCs') <= Cardinality(PC) /\ Cardinality(BusyPCs') \in Nat
    <3>1. BusyPCs' \in SUBSET PC
      BY DEF BusyPCs
    <3> QED BY <3>1, SaveSyncAssumption, FS_Subset, FS_CardinalityType
  <2>5. /\ Cardinality(minted) \in Nat /\ Cardinality(PC) \in Nat /\ MaxUploads \in Nat
        /\ Cardinality(minted) < MaxUploads
    BY <1>3, Counts DEF Launch, RoomInv, KeptInv, Ground, LineInv
  <2>6. Cardinality(minted') + Cardinality(BusyPCs') <= MaxUploads + Cardinality(PC)
    BY <2>2, <2>4, <2>5
  <2> QED BY <2>3, <2>6 DEF RoomInv
<1>4. CASE Check(p)
  <2>1. game[p].at = "checking" /\ upload[p].at = "idle" /\ asked[p] = "no" /\ p \notin answered
    BY <1>1, <1>4 DEF Check, Kept, Prompted
  <2>2. /\ UNCHANGED <<minted, upload, answered>> /\ Away(p)
        /\ asked'[p] # "no" => game'[p].at = "idle"
    BY <1>2, <1>4, <2>1 DEF Check, Away
  <2> QED BY <2>1, <2>2, RoomMoves DEF Prompted, Busy
<1>5. CASE Compare(p)
  <2>1. \A q \in PC \ {p} : game'[q] = game[q]
    BY <1>2, <1>5 DEF Compare
  <2> QED BY <1>1, <1>5, <2>1, RoomGoesOn DEF Compare
<1>6. CASE FetchNewest(p)
  <2>1. \A q \in PC \ {p} : game'[q] = game[q]
    BY <1>2, <1>6 DEF FetchNewest, BackToIdle
  <2> QED BY <1>1, <1>6, <2>1, RoomGoesOn DEF FetchNewest
<1>7. CASE SkipRestore(p) \/ PutBack(p) \/ StartGame(p) \/ Play(p)
  <2>1. /\ \A q \in PC \ {p} : game'[q] = game[q]
        /\ game[p].at \notin {"idle", "offered"}
        /\ UNCHANGED <<minted, upload, asked, answered>>
    BY <1>2, <1>7 DEF SkipRestore, PutBack, StartGame, Play, To
  <2> QED BY <1>1, <2>1, RoomGoesOn
<1>8. CASE ExitGame(p)
  <2>1. /\ game[p].at = "running" /\ upload[p].at = "idle" /\ asked[p] = "no"
        /\ UNCHANGED <<minted, asked, answered>>
    BY <1>1, <1>8 DEF ExitGame, Prompted
  <2>2. game'[p].at = "idle" /\ \A q \in PC \ {p} : game'[q] = game[q]
    BY <1>2, <1>8 DEF ExitGame, BackToIdle, NoGame
  <2>3. \A q \in PC \ {p} : upload'[q] = upload[q]
    BY <1>8, Begun DEF ExitGame, RoomInv, KeptInv, Ground, LineInv
  <2> QED BY <2>1, <2>2, <2>3, RoomMoves DEF Away, Prompted, Busy
<1> QED BY <1>3, <1>4, <1>5, <1>6, <1>7, <1>8, NeverHere DEF LaunchStep, RoomInv

LEMMA RoomUploadSteps ==
    ASSUME CalmEvents, RoomInv, KeptInv', UNCHANGED removed, NEW p \in PC,
           BackUp(p) \/ ListForUpload(p) \/ RecordUpload(p)
    PROVE  RoomInv'
<1> USE DEF shared, disk, memory, flows, ghosts
<1>1. /\ Kept(p, record[p].lastSynced, live[p], staging[p], game[p], upload[p],
               asked[p], unsynced, answered)
      /\ upload[p].at # "idle" => game[p].at \in {"idle", "offered"}
      /\ upload[p] \in Upload
      /\ Prompted(p, game[p], upload[p], asked[p], answered)
  BY KeptNow DEF RoomInv
<1>2. upload[p].at # "idle" /\ asked[p] = "no"
  BY <1>1 DEF BackUp, ListForUpload, RecordUpload, Prompted
<1>3. game \in [PC -> Game] /\ asked \in [PC -> {"no", "launch", "upload"}]
      /\ upload \in [PC -> Upload]
  BY DEF RoomInv, KeptInv, Ground, LineInv, TypeInv, TypeOK
(* An upload that ends leaves no launch behind. *)
<1>4. ASSUME UploadEnds(p)
      PROVE  /\ upload'[p].at = "idle" /\ game'[p].at = "idle"
             /\ \A q \in PC \ {p} : /\ upload'[q] = upload[q] /\ game'[q] = game[q]
                                     /\ (q \in answered' <=> q \in answered)
             /\ upload[p].why # "offer" => answered' = answered
  <2>1. NoUpload.at = "idle" /\ NoGame.at = "idle"
    BY DEF NoUpload, NoGame
  <2> QED BY <1>1, <1>2, <1>3, <1>4, <2>1 DEF UploadEnds, Prompted
<1>5. CASE BackUp(p) /\ live[p] = {}
  <2>1. UploadEnds(p) /\ UNCHANGED <<minted, asked>> /\ upload[p].at = "scan"
    BY <1>5 DEF BackUp
  <2>2. Away(p) /\ asked'[p] = "no"
    BY <1>2, <1>4, <2>1 DEF Away
  <2>3. Prompted(p, game[p], upload[p], asked[p], answered)'
    BY <1>4, <2>1, <2>2 DEF Prompted
  <2>4. Busy(p)
    BY <2>1 DEF Busy
  <2> QED BY <2>1, <2>2, <2>3, <2>4, RoomMoves
<1>6. CASE (BackUp(p) /\ live[p] # {}) \/ ListForUpload(p)
  <2>1. UNCHANGED <<minted, asked, game, answered>> /\ upload[p].at \in {"scan", "staged"}
    BY <1>6 DEF BackUp, ListForUpload
  <2>2. upload'[p].why = upload[p].why /\ \A q \in PC \ {p} : upload'[q] = upload[q]
    <3>1. CASE BackUp(p) /\ live[p] # {}
      <4>1. upload' = [upload EXCEPT ![p].at = "staged"]
        BY <3>1 DEF BackUp
      <4> QED BY <1>3, <4>1 DEF Upload
    <3>2. CASE ListForUpload(p)
      <4> DEFINE there == [upload EXCEPT ![p].at = "listed"]
      <4>1. PICK force : upload' = [upload EXCEPT ![p].at = "listed", ![p].force = force]
        BY <3>2 DEF ListForUpload
      <4>2. /\ there[p].why = upload[p].why /\ DOMAIN there = PC
            /\ \A q \in PC \ {p} : there[q] = upload[q]
        BY <1>3 DEF Upload
      <4>3. upload' = [there EXCEPT ![p].force = force]
        BY <4>1
      <4> HIDE DEF there
      <4> QED BY <4>2, <4>3
    <3> QED BY <1>6, <3>1, <3>2
  <2> QED BY <1>1, <1>2, <2>1, <2>2, RoomMoves DEF Away, Prompted, Busy
<1>7. CASE RecordUpload(p)
  <2>1. /\ UploadEnds(p) /\ UNCHANGED minted /\ upload[p].at = "stored"
        /\ asked'[p] = IF AsksUser(p) THEN "upload" ELSE "no"
        /\ \A q \in PC \ {p} : asked'[q] = asked[q]
    BY <1>2, <1>3, <1>7 DEF RecordUpload
  <2>2. AsksUser(p) => upload[p].outcome = "conflict" /\ upload[p].why = "exit"
    BY DEF AsksUser
  <2>3. AsksUser(p) => p \notin answered'
    BY <1>1, <1>4, <2>1, <2>2 DEF Kept
  <2>4. Busy(p) \/ ~Busy(p)'
    BY <1>4, <2>1, <2>2 DEF Busy
  <2>5. Away(p)
    BY <1>4, <2>1 DEF Away
  <2>6. asked'[p] # "no" => p \notin answered'
    BY <2>1, <2>3
  <2>7. Prompted(p, game[p], upload[p], asked[p], answered)'
    BY <1>4, <2>1, <2>6 DEF Prompted
  <2> QED BY <2>1, <2>4, <2>5, <2>7, RoomMoves
<1> QED BY <1>5, <1>6, <1>7

LEMMA RoomUserSteps ==
    ASSUME Roomy, RoomInv, KeptInv', UNCHANGED removed, NEW p \in PC, UserStep(p)
    PROVE  RoomInv'
<1> USE DEF shared, disk, memory, flows, ghosts
<1>1. /\ Kept(p, record[p].lastSynced, live[p], staging[p], game[p], upload[p],
               asked[p], unsynced, answered)
      /\ Prompted(p, game[p], upload[p], asked[p], answered)
  BY KeptNow DEF RoomInv
<1>2. game \in [PC -> Game] /\ asked \in [PC -> {"no", "launch", "upload"}]
      /\ upload \in [PC -> Upload]
  BY DEF RoomInv, KeptInv, Ground, LineInv, TypeInv, TypeOK
<1>3. CASE AnswerRestore(p) \/ DismissOffer(p)
  <2>1. \A q \in PC \ {p} : game'[q] = game[q] /\ (q \in answered' <=> q \in answered)
    BY <1>2, <1>3 DEF AnswerRestore, DismissOffer, BackToIdle
  <2> QED BY <1>3, <2>1, RoomGoesOn DEF AnswerRestore, DismissOffer
<1>4. CASE AnswerKeep(p)
  <2>1. /\ game[p].at = "offered" /\ upload[p].at = "idle" /\ asked[p] = "no"
        /\ UNCHANGED <<minted, game, asked, answered>>
    BY <1>1, <1>4 DEF AnswerKeep, Prompted
  <2>2. upload'[p].why = "offer" /\ \A q \in PC \ {p} : upload'[q] = upload[q]
    <3> DEFINE newest == NewestUsableId(store[p], HereOf(p))
               begun == [NoUpload EXCEPT !.at = "scan", !.why = "offer", !.base = newest,
                                         !.wasPending = record[p].pending]
    <3>1. upload' = [upload EXCEPT ![p] = begun]
      BY <1>4 DEF AnswerKeep
    <3>2. begun.why = "offer"
      <4> HIDE DEF newest
      <4> QED BY DEF NoUpload
    <3> HIDE DEF begun
    <3> QED BY <1>2, <3>1, <3>2
  <2> QED BY <2>1, <2>2, RoomMoves DEF Away, Prompted, Busy
<1>5. ASSUME MayChoose(p)
      PROVE  asked[p] # "no" /\ game[p].at = "idle" /\ upload[p].at = "idle"
  BY <1>5 DEF MayChoose, Quiet, Roomy
<1>6. CASE KeepLocal(p) \/ KeepBoth(p)
  <2>1. /\ Begin(p, "choice", TRUE) /\ asked'[p] = "no"
        /\ UNCHANGED <<minted, game, answered>>
        /\ \A q \in PC \ {p} : asked'[q] = asked[q]
    BY <1>2, <1>6 DEF KeepLocal, KeepBoth
  <2>2. \A q \in PC \ {p} : upload'[q] = upload[q]
    BY <2>1, Begun DEF RoomInv, KeptInv, Ground, LineInv
  <2>3. asked[p] # "no" /\ game[p].at = "idle"
    BY <1>5, <1>6 DEF KeepLocal, KeepBoth
  <2> QED BY <2>1, <2>2, <2>3, RoomMoves DEF Away, Prompted, Busy
<1>7. CASE KeepRemote(p)
  <2>1. PICK version : RestoreByHand(p, version)
    BY <1>7 DEF KeepRemote
  <2>2. /\ asked'[p] = "no" /\ \A q \in PC \ {p} : asked'[q] = asked[q]
        /\ UNCHANGED <<minted, game, upload, answered>>
    BY <1>2, <2>1 DEF RestoreByHand
  <2>3. asked[p] # "no" /\ game[p].at = "idle"
    BY <1>5, <1>7 DEF KeepRemote
  <2> QED BY <2>2, <2>3, RoomMoves DEF Away, Prompted, Busy
<1>8. CASE DismissConflict(p)
  <2>1. /\ asked[p] # "no" /\ asked'[p] = "no" /\ \A q \in PC \ {p} : asked'[q] = asked[q]
        /\ UNCHANGED <<minted, game, upload, answered>>
    BY <1>2, <1>8 DEF DismissConflict
  <2> QED BY <1>1, <2>1, RoomMoves DEF Away, Prompted, Busy
<1>9. CASE SetLocked(p)
  <2>1. UNCHANGED <<minted, game, upload, asked, answered>>
    BY <1>9 DEF SetLocked
  <2> QED BY <1>1, <2>1, RoomMoves DEF Away, Prompted, Busy
<1>10. ~RestoreOld(p) /\ CalmEvents
  BY DEF RestoreOld, Roomy
<1> QED BY <1>3, <1>4, <1>6, <1>7, <1>8, <1>9, <1>10, NeverHere DEF UserStep, RoomInv

(* A version takes the place of the upload that was to come. *)
LEMMA RoomTaken ==
    ASSUME RoomInv, NEW p \in PC, StoreUpload(p), NEW id, Answered(p, id, "stored")
    PROVE  /\ Cardinality(minted') = Cardinality(minted) + 1
           /\ Cardinality(BusyPCs') <= Cardinality(BusyPCs) - 1
           /\ Cardinality(BusyPCs) \in Nat /\ Cardinality(BusyPCs') \in Nat
<1>1. /\ upload[p].at = "listed" /\ UNCHANGED <<game, asked, answered>>
  BY DEF StoreUpload, memory
<1>2. /\ upload'[p].at = "stored" /\ upload'[p].outcome = "stored"
      /\ \A q \in PC \ {p} : upload'[q] = upload[q]
      /\ id \in NewIds /\ minted' = minted \cup {id}
  BY DEF Answered
<1>3. asked[p] = "no"
  BY <1>1 DEF RoomInv, Prompted
<1>4. p \in BusyPCs /\ BusyPCs' \in SUBSET (BusyPCs \ {p})
  BY <1>1, <1>2, <1>3 DEF BusyPCs, Busy
<1>5. /\ IsFiniteSet(BusyPCs) /\ Cardinality(BusyPCs) \in Nat
      /\ IsFiniteSet(minted) /\ Cardinality(minted) \in Nat
  BY Counts DEF RoomInv, KeptInv, Ground, LineInv
<1>6. IsFiniteSet(BusyPCs \ {p}) /\ Cardinality(BusyPCs \ {p}) = Cardinality(BusyPCs) - 1
  BY <1>4, <1>5, FS_RemoveElement
<1>7. Cardinality(BusyPCs') <= Cardinality(BusyPCs) - 1 /\ Cardinality(BusyPCs') \in Nat
  BY <1>4, <1>6, FS_Subset, FS_CardinalityType
<1>8. id \notin minted
  BY <1>2, NewIdsTyped DEF RoomInv, KeptInv, Ground, LineInv
<1> QED BY <1>2, <1>5, <1>7, <1>8, FS_AddElement

(* So the limit is not reached and nothing goes. *)
LEMMA NothingGoes ==
    ASSUME Roomy, RoomInv, NEW p \in PC, StoreUpload(p), NEW id, Answered(p, id, "stored")
    PROVE  removed' = {}
<1>1. PICK all : all = store[p] \cup {Added(p, id)}
  OBVIOUS
<1>2. PICK new : new = Added(p, id)
  OBVIOUS
<1>3. /\ new.id = id /\ all = store[p] \cup {new}
      /\ minted' = minted \cup {id} /\ id \notin minted
  BY <1>1, <1>2, NewIdsTyped DEF Added, Answered, RoomInv, KeptInv, Ground, LineInv
<1>4. LineInv /\ CalmEvents
  BY DEF RoomInv, KeptInv, Ground, Roomy
<1>5. \A v \in store[p] : v \in Listed /\ v.id \in minted
  BY <1>4, ListedTyped DEF Listed, LineInv
<1>6. \A v, w \in all : v.id \in minted' /\ (v.id = w.id => v = w)
  BY <1>3, <1>4, <1>5 DEF LineInv, StoreSound
<1>7. IsFiniteSet(minted') /\ Cardinality(minted') \in Nat /\ Cardinality(minted') <= MaxVersions
  <2>1. /\ Cardinality(minted') = Cardinality(minted) + 1
        /\ Cardinality(BusyPCs') <= Cardinality(BusyPCs) - 1
        /\ Cardinality(BusyPCs) \in Nat /\ Cardinality(BusyPCs') \in Nat
    BY RoomTaken
  <2>2. /\ Cardinality(minted) + Cardinality(BusyPCs) <= MaxUploads + Cardinality(PC)
        /\ MaxUploads + Cardinality(PC) <= MaxVersions
    BY Counts, <1>4 DEF RoomInv, Roomy, LineInv
  <2>3. /\ Cardinality(minted) \in Nat /\ MaxUploads + Cardinality(PC) \in Nat
        /\ MaxVersions \in Nat /\ IsFiniteSet(minted)
    BY Counts, <1>4 DEF LineInv
  <2>4. IsFiniteSet(minted')
    BY <1>3, <2>3, FS_AddElement
  <2> QED BY <2>1, <2>2, <2>3, <2>4
<1>8. ASSUME NEW v \in all
      PROVE  Cardinality({w \in all : w.id \notin locked /\ w.id > v.id}) < MaxVersions
  <2>1. PICK later : later = {w \in all : w.id \notin locked /\ w.id > v.id}
    OBVIOUS
  <2>2. PICK ids : ids = minted' \ {v.id}
    OBVIOUS
  <2>3. \A w \in later : w \in all /\ w.id # v.id
    <3>1. \A w \in store[p] : w.id \in Nat
      BY <1>4, ListedTyped DEF Listed, LineInv
    <3>2. id \in Nat
      BY <1>4, NewIdsTyped DEF Answered, LineInv
    <3>3. \A w \in all : w.id \in Nat
      BY <1>3, <3>1, <3>2
    <3> QED BY <2>1, <3>3
  <2>4. IsFiniteSet(ids) /\ Cardinality(ids) = Cardinality(minted') - 1
    BY <1>6, <1>7, <2>2, FS_RemoveElement
  <2>5. [w \in later |-> w.id] \in Injection(later, ids)
    BY <1>6, <2>2, <2>3 DEF Injection, IsInjective
  <2>6. Cardinality(later) <= Cardinality(ids)
    BY <2>4, <2>5, FS_Injection
  <2>7. IsFiniteSet(later)
    BY <2>4, <2>5, FS_Injection
  <2> QED BY <1>7, <2>1, <2>4, <2>6, <2>7, FS_CardinalityType, SaveSyncAssumption
<1>9. Pruned(all) = all
  BY <1>8 DEF Pruned
<1>10. removed' = removed \cup (IdsOf(store[p]) \ IdsOf(all))
  BY <1>1, <1>9 DEF Answered, Write, IdsOf
<1>11. IdsOf(store[p]) \subseteq IdsOf(all)
  BY <1>1 DEF IdsOf
<1> QED BY <1>10, <1>11 DEF RoomInv

LEMMA RoomNext == Roomy /\ RoomInv /\ [Next]_vars => RoomInv'
<1> SUFFICES ASSUME Roomy, RoomInv, [Next]_vars PROVE RoomInv'
  OBVIOUS
<1>1. CalmEvents /\ KeptInv
  BY DEF Roomy, RoomInv
<1>2. removed' = {} => KeptInv'
  BY <1>1, KeptNext DEF Unpruned
<1>3. ASSUME NEW p \in PC, StoreUpload(p) PROVE RoomInv'
  <2>1. PICK answer, id : Answered(p, id, answer)
    BY <1>1, <1>3, UploadAnswered DEF KeptInv, Ground, LineInv
  <2>2. /\ upload[p].at = "listed" /\ UNCHANGED <<game, asked, answered>>
        /\ upload'[p].at = "stored" /\ upload'[p].why = upload[p].why
        /\ \A q \in PC \ {p} : upload'[q] = upload[q]
    BY <1>3, <2>1 DEF Answered, StoreUpload, memory
  <2>3. Away(p) /\ Prompted(p, game[p], upload[p], asked[p], answered)'
    BY <2>2 DEF Away, Prompted, RoomInv
  <2>4. CASE answer # "stored"
    <3>1. UNCHANGED <<minted, removed>>
      BY <2>1, <2>4 DEF Answered
    <3>2. KeptInv' /\ Busy(p)
      BY <1>2, <2>2, <3>1 DEF RoomInv, Busy
    <3> QED BY <2>3, <3>1, <3>2, RoomMoves
  <2>5. CASE answer = "stored"
    <3>1. removed' = {}
      BY <1>3, <2>1, <2>5, NothingGoes
    <3>2. \A q \in PC : Prompted(q, game[q], upload[q], asked[q], answered)'
      BY <2>3 DEF RoomInv, Prompted, Away
    <3>3. Cardinality(minted') + Cardinality(BusyPCs') <= MaxUploads + Cardinality(PC)
      <4>1. /\ Cardinality(minted') = Cardinality(minted) + 1
            /\ Cardinality(BusyPCs') <= Cardinality(BusyPCs) - 1
            /\ Cardinality(BusyPCs) \in Nat /\ Cardinality(BusyPCs') \in Nat
        BY <1>3, <2>1, <2>5, RoomTaken
      <4>2. Cardinality(minted) \in Nat /\ MaxUploads + Cardinality(PC) \in Nat
        BY <1>1, Counts DEF KeptInv, Ground, LineInv
      <4> QED BY <4>1, <4>2 DEF RoomInv
    <3> QED BY <1>2, <3>1, <3>2, <3>3 DEF RoomInv
  <2> QED BY <2>4, <2>5
<1>4. CASE \A p \in PC : ~StoreUpload(p)
  <2>1. UNCHANGED removed /\ UNCHANGED minted
    BY <1>1, <1>4, OnlyUploadsStore
  <2>2. KeptInv'
    BY <1>2, <2>1 DEF RoomInv
  <2>3. CASE UNCHANGED vars
    BY <2>1, <2>2, <2>3 DEF RoomInv, Prompted, BusyPCs, Busy, vars, flows, memory
  <2>4. ASSUME NEW p \in PC, LaunchStep(p) PROVE RoomInv'
    BY <1>1, <2>1, <2>2, <2>4, RoomLaunchSteps
  <2>5. ASSUME NEW p \in PC, UploadStep(p) PROVE RoomInv'
    BY <1>1, <1>4, <2>1, <2>2, <2>5, RoomUploadSteps, NeverHere DEF UploadStep
  <2>6. ASSUME NEW p \in PC, UserStep(p) PROVE RoomInv'
    BY <2>1, <2>2, <2>6, RoomUserSteps
  <2> QED BY <1>1, <2>3, <2>4, <2>5, <2>6, NeverHere DEF Next
<1> QED BY <1>3, <1>4

(* Where the limit is no smaller than the versions play can lead to,       *)
(* nothing is pruned.                                                      *)
THEOREM RoomForAll ==
    ASSUME Roomy
    PROVE  Spec => []Unpruned
<1>1. Init => RoomInv
  <2> SUFFICES ASSUME Init PROVE RoomInv
    OBVIOUS
  <2>1. KeptInv
    BY KeptInit DEF Roomy
  <2>2. \A p \in PC : /\ asked[p] = "no" /\ upload[p].at = "idle" /\ game[p].at = "idle"
    BY DEF Init, NoGame, NoUpload
  <2>3. BusyPCs = {}
    BY <2>2 DEF BusyPCs, Busy
  <2>4. removed = {} /\ minted = {}
    BY DEF Init
  <2>5. MaxUploads \in Nat /\ Cardinality(PC) \in Nat
    BY <2>1, Counts DEF KeptInv, Ground, LineInv
  <2>6. Cardinality(minted) + Cardinality(BusyPCs) <= MaxUploads + Cardinality(PC)
    BY <2>3, <2>4, <2>5, FS_EmptySet
  <2> QED BY <2>1, <2>2, <2>4, <2>6 DEF RoomInv, Prompted
<1>2. RoomInv /\ [Next]_vars => RoomInv'
  BY RoomNext
<1>3. RoomInv => Unpruned
  BY DEF RoomInv, Unpruned
<1> QED BY <1>1, <1>2, <1>3, PTL DEF Spec
=============================================================================
