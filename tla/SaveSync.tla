------------------------------ MODULE SaveSync ------------------------------
(***************************************************************************)
(* One game's saves on several PCs that share a store: the flows of        *)
(* src-tauri/src/saves.rs around a launch (src-tauri/src/ipc/launch.rs),   *)
(* with the decisions of SaveDecision.                                     *)
(*                                                                         *)
(* A save is the set of play sessions whose progress it holds, so {} is a  *)
(* PC with no save files and two saves on one system are byte for byte the *)
(* same exactly when they hold the same sessions.  Each PC has the live    *)
(* save files, the staging directory Ludusavi writes, the packed archive   *)
(* beside it and its record (library.json); and, in memory only, which     *)
(* sessions started unsynced and whether an offer was just answered.       *)
(*                                                                         *)
(* Every call on the store is one step here.  The files and the steps      *)
(* inside such a call belong to the stores of save_store.rs.  Settings are *)
(* at their defaults: sync on, restore before a launch, back up after one. *)
(***************************************************************************)
EXTENDS SaveDecision

CONSTANTS
    PC,           \* the installations that sync this game
    PlatformOf,   \* the system each of them runs the game on
    MaxVersions,  \* the retention limit of the store
    Sessions,     \* bound: how many play sessions there are in all
    MaxUploads,   \* bound: how many versions are stored before play stops
    Events        \* which of PossibleEvents may happen

(* What may go wrong or be done differently, each switched on by a run:    *)
(*   outage   a PC loses the store, or only the store's answer             *)
(*   failing  Ludusavi fails, or the store does other than by not answering  *)
(*   crash    the app ends at any point and is started again               *)
(*   skip     the user skips a restore                                     *)
(*   skip-upload  the user skips an upload                                 *)
(*   defer    the user answers "Decide later" after a rejected upload, or  *)
(*            starts the game over 120 s after answering an offer          *)
(*   race     two PCs upload at once: one stores a version between the     *)
(*            other's first listing and its upload                         *)
(*   overlap  a launch starts while an upload of the same game runs        *)
(*   failed   a launch ends before it became a session                     *)
(*   history  the user restores some stored version from the Saves page,   *)
(*            or settles there the conflict it shows                       *)
(*   by-hand  the user backs a save up from the Saves page                 *)
(*   lock     the user locks and unlocks stored versions                   *)
(*   delete   the user deletes some of the stored versions, or all         *)
(*   half-delete  the listing that follows a deletion fails                *)
(*   lag      the store is a replicated folder that takes time to catch up *)
(*   skew     the PCs' clocks differ, so newer uploads may get smaller ids *)
PossibleEvents == {"outage", "failing", "crash", "skip", "skip-upload", "defer", "race",
                   "overlap", "failed", "history", "by-hand", "lock", "delete", "half-delete",
                   "lag", "skew"}

ASSUME SaveSyncAssumption ==
    /\ IsFiniteSet(PC)
    /\ PlatformOf \in [PC -> SavePlatforms]
    /\ MaxVersions \in Nat \ {0}
    /\ Sessions \in Nat
    /\ MaxUploads \in Nat
    /\ Events \subseteq PossibleEvents

VARIABLES
    store,      \* each PC's view of the stored versions
    locked,     \* ids of locked versions
    minted,     \* ids of every version ever stored
    removed,    \* ids of versions deleted or pruned
    record,     \* each PC's LocalSaveState
    live,       \* each PC's save files
    staging,    \* each PC's staging directory
    archive,    \* each PC's packed archive, {} for none
    unsynced,   \* PCs in unsynced_sessions
    answered,   \* PCs in answered_offers
    reach,      \* PCs that reach the store
    game,       \* each PC's launch
    upload,     \* each PC's do_backup
    asked,      \* the conflict prompt open on each PC
    sessions,   \* how many sessions have been played
    settled     \* sessions some user was asked about and chose against

disk == <<record, live, staging, archive>>
shared == <<store, locked, minted, removed>>
memory == <<unsynced, answered>>
flows == <<game, upload, asked>>
ghosts == <<sessions, settled>>
vars == <<shared, disk, memory, reach, flows, ghosts>>

Save == SUBSET (1..Sessions)

Version == [id : Nat \ {NoId}, base : Nat, platform : SavePlatforms,
            installation : PC, data : Save]

Record == [lastSynced : Nat, backedUp : BOOLEAN, hash : Save, declined : Nat,
           pending : BOOLEAN]

(* A launch: idle, checking the saves, comparing on a first start, waiting *)
(* for the answer to an offer, restoring, restored into staging, ready to  *)
(* start, running.  newest is the version the restore will be based on.    *)
Game == [at : {"idle", "checking", "comparing", "offered", "restoring",
               "fetched", "ready", "running"},
         newest : Nat]

(* A do_backup: what it is for, the base its context read from the record  *)
(* and whether that record had an upload pending, whether it is forced,    *)
(* and what the store answered.                                            *)
Upload == [at : {"idle", "scan", "staged", "listed", "stored"},
           why : {"exit", "retry", "manual", "offer", "choice"},
           base : Nat, force : BOOLEAN, wasPending : BOOLEAN,
           outcome : {"none", "stored", "unchanged", "conflict"}, id : Nat]

NoGame == [at |-> "idle", newest |-> NoId]
NoUpload == [at |-> "idle", why |-> "exit", base |-> NoId, force |-> FALSE,
             wasPending |-> FALSE, outcome |-> "none", id |-> NoId]

TypeOK ==
    /\ store \in [PC -> SUBSET Version]
    /\ locked \subseteq Nat /\ minted \subseteq Nat /\ removed \subseteq Nat
    /\ record \in [PC -> Record]
    /\ live \in [PC -> Save]
    /\ staging \in [PC -> Save]
    /\ archive \in [PC -> Save]
    /\ unsynced \subseteq PC /\ answered \subseteq PC /\ reach \subseteq PC
    /\ game \in [PC -> Game]
    /\ upload \in [PC -> Upload]
    /\ asked \in [PC -> {"no", "launch", "upload"}]
    /\ sessions \in 0..Sessions
    /\ settled \in Save

(* A PC may have played before it ever ran Gameyfin: session 1 is the      *)
(* progress of such a PC.                                                  *)
Init ==
    /\ store = [p \in PC |-> {}]
    /\ locked = {} /\ minted = {} /\ removed = {}
    /\ record = [p \in PC |-> NeverRecorded({})]
    /\ \E before \in SUBSET PC :
           /\ before # {} => Sessions >= 1
           /\ sessions = IF before = {} THEN 0 ELSE 1
           /\ live = [p \in PC |-> IF p \in before THEN {1} ELSE {}]
    /\ staging = [p \in PC |-> {}]
    /\ archive = [p \in PC |-> {}]
    /\ unsynced = {} /\ answered = {} /\ reach = PC
    /\ game = [p \in PC |-> NoGame]
    /\ upload = [p \in PC |-> NoUpload]
    /\ asked = [p \in PC |-> "no"]
    /\ settled = {}
-----------------------------------------------------------------------------
(* The store, as one PC sees it. *)

HereOf(p) == [platform |-> PlatformOf[p], installation |-> p,
              anyPlatform |-> FALSE]

Reaches(p) == p \in reach

(* A mistake to check against: locked versions count and go like others. *)
PrunedWithLocked(versions) ==
    {v \in versions : Cardinality({w \in versions : w.id > v.id}) < MaxVersions}

(* Removes the oldest unlocked versions past the limit. *)
Pruned(versions) ==
    {v \in versions :
        \/ v.id \in locked
        \/ Cardinality({w \in versions : w.id \notin locked /\ w.id > v.id})
               < MaxVersions}

(* A write lands on this PC's replica, or at once everywhere.  What is     *)
(* removed here is remembered, so catching up does not bring it back.      *)
Write(p, versions) ==
    /\ store' = IF "lag" \in Events
                THEN [store EXCEPT ![p] = versions]
                ELSE [q \in PC |-> versions]
    /\ removed' = removed \cup ({v.id : v \in store[p]} \ {v.id : v \in versions})

(* The versions of any replica that nobody removed reach p. *)
CatchUp(p) ==
    /\ "lag" \in Events
    /\ store' = [store EXCEPT ![p] =
                    {v \in UNION {store[q] : q \in PC} : v.id \notin removed}]
    /\ UNCHANGED <<locked, minted, removed, disk, memory, reach, flows, ghosts>>

(* A mistake to check against: counting ids from zero. *)
NewIdsFromZero == {Cardinality(minted)}

(* Ids lead with the uploading PC's clock. *)
NewIds ==
    IF "skew" \in Events
    THEN (1 .. MaxUploads + Cardinality(PC)) \ minted
    ELSE {CHOOSE n \in 1 .. Cardinality(minted) + 1 : n \notin minted}

(* The same archive, byte for byte: systems keep their files in different  *)
(* places, so saves of two systems never pack to the same one.             *)
SameArchive(version, p, data) ==
    version.data = data /\ version.platform = PlatformOf[p]

(* A mistake to check against: storing whatever the upload is based on. *)
VerdictOfAnyBase(versions, p, base, force) ==
    IF versions # {} /\ SameArchive(Newest(versions), p, staging[p]) THEN "unchanged"
    ELSE "stored"

(* What a store answers p's upload of its staged save, built on `base`. *)
Verdict(versions, p, base, force) ==
    IF versions # {} /\ SameArchive(Newest(versions), p, staging[p]) THEN "unchanged"
    ELSE IF versions # {} /\ ~force /\ NewestId(versions) # base THEN "conflict"
    ELSE "stored"

LoseStore(p) ==
    /\ "outage" \in Events
    /\ Reaches(p)
    /\ reach' = reach \ {p}
    /\ UNCHANGED <<shared, disk, memory, flows, ghosts>>

FindStore(p) ==
    /\ ~Reaches(p)
    /\ reach' = reach \cup {p}
    /\ UNCHANGED <<shared, disk, memory, flows, ghosts>>
-----------------------------------------------------------------------------
(* Restores.  fetch unpacks a version over the staging directory.          *)

Fetch(p, version) ==
    /\ archive' = [archive EXCEPT ![p] = version.data]
    /\ staging' = [staging EXCEPT ![p] = version.data]

(* record_sync: a save id or a hash that is not known leaves what was      *)
(* recorded; here the hash always is, from the archive just used.          *)
RecordSync(p, id, hash) ==
    record' = [record EXCEPT
        ![p].lastSynced = IF id = NoId THEN @ ELSE id,
        ![p].backedUp   = TRUE,
        ![p].hash       = hash]

To(p, at) == game' = [game EXCEPT ![p].at = at]

BackToIdle(p) == game' = [game EXCEPT ![p] = NoGame]

(* A mistake to check against: fetching what the user picked, but leaving  *)
(* the save files alone.                                                   *)
OnlyFetchChosen(p, version) ==
    /\ RestorableHere(version, HereOf(p))
    /\ Fetch(p, version)
    /\ UNCHANGED live
    /\ settled' = settled \cup (live[p] \ version.data)
                    \cup (NewestUsable(store[p], HereOf(p)).data \ version.data)

(* do_restore with a version the user picked: the next upload is based on  *)
(* the newest version, whichever was put back.                             *)
RestoreChosen(p, version) ==
    /\ RestorableHere(version, HereOf(p))
    /\ Fetch(p, version)
    /\ live' = [live EXCEPT ![p] = version.data]
    /\ settled' = settled \cup (live[p] \ version.data)
                    \cup (NewestUsable(store[p], HereOf(p)).data \ version.data)
-----------------------------------------------------------------------------
(* A launch: before_launch, the game, and what follows its end.            *)

(* start: the claim keeps one launch per game.  A prompt that is open is   *)
(* answered first.  An offer just answered passes the launch by the saves, *)
(* whatever came of the upload, unless it was answered over 120 s ago.     *)
Launch(p) ==
    /\ game[p].at = "idle"
    /\ Cardinality(minted) < MaxUploads
    /\ upload[p].at # "idle" => "overlap" \in Events
    /\ asked[p] = "no" \/ p \in answered
    /\ answered' = answered \ {p}
    /\ \/ p \in answered /\ To(p, "ready")
       \/ (p \in answered => "defer" \in Events) /\ To(p, "checking")
    /\ UNCHANGED <<shared, disk, unsynced, reach, upload, asked, ghosts>>

(* Something a call on the store or on Ludusavi needs is not there. *)
Failing(p) == ~Reaches(p) \/ "failing" \in Events

(* Out of reach of the store, or when the check fails, the game starts     *)
(* with this PC's save.                                                    *)
LaunchOffline(p) ==
    /\ game[p].at = "checking"
    /\ Failing(p)
    /\ To(p, "ready")
    /\ UNCHANGED <<shared, disk, memory, reach, upload, asked, ghosts>>

(* overview's local change: the archive compared with the recorded hash. *)
RecordedChange(p) ==
    archive[p] # {} /\ (record[p].backedUp => archive[p] # record[p].hash)

(* scan_local: the live files compared with what staging holds. *)
ChangedHere(p) == live[p] # {} /\ live[p] # staging[p]

(* By the files or, when they could not be scanned, by the record of them. *)
JudgedHere(p, scanned) ==
    IF scanned
    THEN MissingHere(Decide(record[p], store[p], ChangedHere(p), HereOf(p)),
                     store[p], HereOf(p), live[p] # {})
    ELSE Decide(record[p], store[p], RecordedChange(p), HereOf(p))

(* What the saves in reach mean for this launch. *)
JudgeLaunch(p, scanned) ==
    LET here  == HereOf(p)
        first == IF NeverSynced(record[p]) /\ Usable(store[p], here) # {}
                 THEN FirstStart(record[p], NewestUsableId(store[p], here))
                 ELSE "no"
        empty == scanned /\ live[p] = {}
    IN  CASE first = "keep-local"      -> "ready"
          [] first = "ask" /\ empty    -> "restoring"
          [] first = "ask" /\ ~empty   -> "comparing"
          [] first = "no"              ->
                 CASE JudgedHere(p, scanned) = "remote-newer" -> "restoring"
                   [] JudgedHere(p, scanned) = "conflict"     -> "idle"
                   [] OTHER                                   -> "ready"

(* Ludusavi may fail to scan the files; the check goes on. *)
Scans == IF "failing" \in Events THEN BOOLEAN ELSE {TRUE}

(* state_at_launch and the choice before_launch makes on it. *)
Check(p) ==
    /\ game[p].at = "checking"
    /\ Reaches(p)
    /\ \E scanned \in Scans :
          LET judged == JudgeLaunch(p, scanned)
          IN  /\ game' = [game EXCEPT ![p] =
                             [at |-> judged,
                              newest |-> IF judged = "comparing"
                                         THEN NewestUsableId(store[p], HereOf(p))
                                         ELSE NoId]]
              /\ asked' = [asked EXCEPT ![p] = IF judged = "idle" THEN "launch" ELSE @]
    /\ UNCHANGED <<shared, disk, memory, reach, upload, ghosts>>

(* adopt_if_identical fetches the version the check saw and compares the   *)
(* live files with it; unless they are known to be the same, the user is   *)
(* offered a choice of all there are.  With nothing to offer, or without   *)
(* a listing of it, the game starts.                                       *)
Compare(p) ==
    /\ game[p].at = "comparing"
    /\ \/ /\ Failing(p) \/ Usable(store[p], HereOf(p)) = {}
          /\ game' = [game EXCEPT ![p] = [NoGame EXCEPT !.at = "ready"]]
          /\ UNCHANGED <<record, staging, archive>>
       \/ /\ Reaches(p)
          /\ \E version \in WithId(store[p], game[p].newest) :
                 /\ Fetch(p, version)
                 /\ \/ /\ live[p] = version.data
                       /\ RecordSync(p, version.id, version.data)
                       /\ game' = [game EXCEPT ![p] = [NoGame EXCEPT !.at = "ready"]]
                    \/ /\ live[p] # version.data \/ Failing(p)
                       /\ game' = [game EXCEPT ![p] = [NoGame EXCEPT !.at = "offered"]]
                       /\ UNCHANGED record
       \/ /\ Reaches(p)
          /\ WithId(store[p], game[p].newest) = {}
          /\ Usable(store[p], HereOf(p)) # {}
          /\ game' = [game EXCEPT ![p] = [NoGame EXCEPT !.at = "offered"]]
          /\ UNCHANGED <<record, staging, archive>>
    /\ UNCHANGED <<shared, live, memory, reach, upload, asked, ghosts>>

(* do_restore of the newest usable version, up to the fetched archive.  A  *)
(* restore that cannot go on holds the game.                               *)
FetchNewest(p) ==
    LET usable == Usable(store[p], HereOf(p))
    IN  /\ game[p].at = "restoring"
        /\ \/ /\ Failing(p) \/ usable = {}
              /\ BackToIdle(p)
              /\ UNCHANGED <<staging, archive>>
           \/ /\ Reaches(p) /\ usable # {}
              /\ Fetch(p, Newest(usable))
              /\ game' = [game EXCEPT ![p] = [at |-> "fetched",
                                              newest |-> NewestId(usable)]]
        /\ UNCHANGED <<shared, record, live, memory, reach, upload, asked, ghosts>>

(* The last moment stopping costs nothing is after the download. *)
SkipRestore(p) ==
    /\ "skip" \in Events
    /\ game[p].at \in {"restoring", "fetched"}
    /\ unsynced' = unsynced \cup {p}
    /\ game' = [game EXCEPT ![p] = [NoGame EXCEPT !.at = "ready"]]
    /\ UNCHANGED <<shared, disk, answered, reach, upload, asked, ghosts>>

(* Ludusavi puts the files of staging back and the sync is recorded. *)
PutBack(p) ==
    /\ game[p].at = "fetched"
    /\ live' = [live EXCEPT ![p] = staging[p]]
    /\ RecordSync(p, game[p].newest, archive[p])
    /\ game' = [game EXCEPT ![p] = [NoGame EXCEPT !.at = "ready"]]
    /\ UNCHANGED <<shared, staging, archive, memory, reach, upload, asked, ghosts>>

(* A restore that fails, in the end because files could not be placed,     *)
(* holds the game and records nothing.                                     *)
FailRestore(p) ==
    /\ game[p].at = "fetched"
    /\ "failing" \in Events
    /\ live' \in {live, [live EXCEPT ![p] = staging[p]]}
    /\ BackToIdle(p)
    /\ UNCHANGED <<shared, record, staging, archive, memory, reach, upload, asked,
                   ghosts>>

(* The game's processes are registered and the game starts. *)
StartGame(p) ==
    /\ game[p].at = "ready"
    /\ To(p, "running")
    /\ UNCHANGED <<shared, disk, memory, reach, upload, asked, ghosts>>

(* A launch that fails or ends in seconds is no session, saves nothing and *)
(* uploads nothing; what before_launch noted about it stays noted.         *)
FailGame(p) ==
    /\ "failed" \in Events
    /\ game[p].at = "ready"
    /\ BackToIdle(p)
    /\ UNCHANGED <<shared, disk, memory, reach, upload, asked, ghosts>>

(* The game writes a save with this session's progress in it. *)
Play(p) ==
    /\ game[p].at = "running"
    /\ sessions < Sessions
    /\ sessions' = sessions + 1
    /\ live' = [live EXCEPT ![p] = @ \cup {sessions'}]
    /\ UNCHANGED <<shared, record, staging, archive, memory, reach, flows, settled>>

(* A mistake to check against: forcing what waited. *)
BeginForced(p, why, force) ==
    upload' = [upload EXCEPT ![p] =
        [NoUpload EXCEPT !.at = "scan", !.why = why, !.force = TRUE,
                         !.base = record[p].lastSynced,
                         !.wasPending = record[p].pending]]

Begin(p, why, force) ==
    upload' = [upload EXCEPT ![p] =
        [NoUpload EXCEPT !.at = "scan", !.why = why, !.force = force,
                         !.base = record[p].lastSynced,
                         !.wasPending = record[p].pending]]

(* A meaningful session ends: after_exit uploads it, unless it started     *)
(* without the newer save.                                                 *)
ExitGame(p) ==
    /\ game[p].at = "running"
    /\ upload[p].at = "idle"
    /\ BackToIdle(p)
    /\ unsynced' = unsynced \ {p}
    /\ IF p \in unsynced THEN UNCHANGED upload ELSE Begin(p, "exit", FALSE)
    /\ UNCHANGED <<shared, disk, answered, reach, asked, ghosts>>
-----------------------------------------------------------------------------
(* do_backup, from the scan to the record of what the store answered.      *)

UploadEnds(p) ==
    /\ upload' = [upload EXCEPT ![p] = NoUpload]
    /\ answered' = IF upload[p].why = "offer" THEN answered \cup {p} ELSE answered
    /\ game' = IF upload[p].why = "offer" THEN [game EXCEPT ![p] = NoGame] ELSE game

(* back_up: Ludusavi brings staging up to date with the live files; a PC   *)
(* with none has nothing to back up.                                       *)
BackUp(p) ==
    /\ upload[p].at = "scan"
    /\ IF live[p] = {}
       THEN UploadEnds(p) /\ UNCHANGED staging
       ELSE /\ staging' = [staging EXCEPT ![p] = live[p]]
            /\ upload' = [upload EXCEPT ![p].at = "staged"]
            /\ UNCHANGED <<answered, game>>
    /\ UNCHANGED <<shared, record, live, archive, unsynced, reach, asked, ghosts>>

SkipUpload(p) ==
    /\ "skip-upload" \in Events
    /\ upload[p].at = "staged" /\ upload[p].why = "exit"
    /\ UploadEnds(p)
    /\ UNCHANGED <<shared, disk, unsynced, reach, asked, ghosts>>

(* The listing that decides whether to go past other systems' versions. *)
ListForUpload(p) ==
    /\ upload[p].at = "staged"
    /\ Reaches(p)
    /\ (\E q \in PC : upload[q].at = "listed") => "race" \in Events
    /\ upload' = [upload EXCEPT
           ![p].at = "listed",
           ![p].force = @ \/ PassesOtherSystems(store[p], upload[p].base, HereOf(p))]
    /\ UNCHANGED <<shared, disk, memory, reach, game, asked, ghosts>>

(* pack, then the store's own listing, check, write and pruning.  What a   *)
(* user chose to upload settles the choice against the newest usable save. *)
StoreUpload(p) ==
    LET versions == store[p]
        answer   == Verdict(versions, p, upload[p].base, upload[p].force)
    IN  /\ upload[p].at = "listed"
        /\ Reaches(p)
        /\ archive' = [archive EXCEPT ![p] = staging[p]]
        /\ \E id \in IF answer = "stored" THEN NewIds ELSE {NoId} :
               /\ upload' = [upload EXCEPT ![p].at = "stored",
                                           ![p].outcome = answer, ![p].id = id]
               /\ IF answer = "stored"
                  THEN /\ minted' = minted \cup {id}
                       /\ Write(p, Pruned(versions \cup
                              {[id |-> id, base |-> NewestId(versions),
                                platform |-> PlatformOf[p], installation |-> p,
                                data |-> staging[p]]}))
                  ELSE UNCHANGED <<store, removed, minted>>
        /\ settled' = IF upload[p].why = "choice" /\ Usable(versions, HereOf(p)) # {}
                      THEN settled \cup
                               (NewestUsable(versions, HereOf(p)).data \ staging[p])
                      ELSE settled
        /\ UNCHANGED <<locked, record, live, staging, memory, reach, game, asked,
                       sessions>>

(* Only an upload after playing asks the user to settle a conflict.  A     *)
(* retry notifies, a backup by hand shows it on the Saves page, and one    *)
(* that answers an offer says nothing.                                     *)
AsksUser(p) ==
    /\ upload[p].why = "exit"
    /\ upload[p].outcome = "conflict"
    /\ Usable(store[p], HereOf(p)) # {}

(* A mistake to check against: retrying for ever what was answered. *)
NeverCleared(p) == record[p].pending

(* The store answered, so nothing is left to retry, whatever it said.      *)
StillPending(p) == record[p].pending /\ ~upload[p].wasPending

RecordUpload(p) ==
    LET known == [record EXCEPT ![p].pending = StillPending(p)]
    IN  /\ upload[p].at = "stored"
        /\ record' = IF upload[p].outcome = "conflict"
                     THEN known
                     ELSE [known EXCEPT
                             ![p].lastSynced = IF upload[p].outcome = "stored"
                                               THEN upload[p].id ELSE @,
                             ![p].backedUp = TRUE,
                             ![p].hash = archive[p]]
        /\ asked' = IF AsksUser(p) THEN [asked EXCEPT ![p] = "upload"] ELSE asked
        /\ UploadEnds(p)
        /\ UNCHANGED <<shared, live, staging, archive, unsynced, reach, ghosts>>

(* Nobody answered, or the answer was lost: an upload after playing waits. *)
UploadUnreached(p) ==
    /\ upload[p].at \in {"staged", "listed", "stored"}
    /\ ~Reaches(p)
    /\ record' = IF upload[p].why = "exit"
                 THEN [record EXCEPT ![p].pending = TRUE]
                 ELSE record
    /\ UploadEnds(p)
    /\ UNCHANGED <<shared, live, staging, archive, unsynced, reach, asked, ghosts>>

(* Any other failure is shown; a retry that fails so is not repeated.  It  *)
(* may be the pruning that fails, with the version stored.                 *)
UploadFails(p) ==
    /\ "failing" \in Events
    /\ upload[p].at \in {"scan", "staged", "listed", "stored"}
    /\ record' = IF upload[p].why = "retry"
                 THEN [record EXCEPT ![p].pending = FALSE]
                 ELSE record
    /\ UploadEnds(p)
    /\ UNCHANGED <<shared, live, staging, archive, unsynced, reach, asked, ghosts>>

(* retry_pending_uploads, every ten minutes: not while the game runs. *)
Retry(p) ==
    /\ record[p].pending
    /\ upload[p].at = "idle"
    /\ game[p].at # "running"
    /\ game[p].at = "idle" \/ "overlap" \in Events
    /\ Begin(p, "retry", FALSE)
    /\ UNCHANGED <<shared, disk, memory, reach, game, asked, ghosts>>
-----------------------------------------------------------------------------
(* What the user does. *)

Quiet(p) == game[p].at = "idle" /\ upload[p].at = "idle"

(* answer_save_pull_offer with a version to restore. *)
AnswerRestore(p) ==
    /\ game[p].at = "offered" /\ upload[p].at = "idle"
    /\ Reaches(p)
    /\ \E version \in store[p] : RestoreChosen(p, version)
    /\ record' = [record EXCEPT
           ![p] = [@ EXCEPT !.lastSynced = NewestUsableId(store[p], HereOf(p)),
                            !.backedUp = TRUE, !.hash = archive'[p],
                            !.declined = NoId]]
    /\ answered' = answered \cup {p}
    /\ BackToIdle(p)
    /\ UNCHANGED <<shared, unsynced, reach, upload, asked, sessions>>

(* ... or with none: this PC's save goes on top of the newest version. *)
AnswerKeep(p) ==
    LET newest == NewestUsableId(store[p], HereOf(p))
    IN  /\ game[p].at = "offered" /\ upload[p].at = "idle"
        /\ Reaches(p)
        /\ record' = [record EXCEPT ![p].lastSynced = newest,
                                    ![p].declined = newest]
        /\ upload' = [upload EXCEPT ![p] =
               [NoUpload EXCEPT !.at = "scan", !.why = "offer", !.base = newest,
                                !.wasPending = record[p].pending]]
        /\ settled' = settled \cup
               ((UNION {v.data : v \in WithId(store[p], newest)}) \ live[p])
        /\ UNCHANGED <<shared, live, staging, archive, memory, reach, game, asked,
                       sessions>>

DismissOffer(p) ==
    /\ game[p].at = "offered" /\ upload[p].at = "idle"
    /\ BackToIdle(p)
    /\ UNCHANGED <<shared, disk, memory, reach, upload, asked, ghosts>>

(* What the Saves page makes of this PC: overview, without a scan. *)
Overview(p) == Decide(record[p], store[p], RecordedChange(p), HereOf(p))

(* A conflict is settled in the prompt, or on the Saves page if it shows.  *)
MayChoose(p) ==
    /\ Quiet(p)
    /\ \/ asked[p] # "no"
       \/ "history" \in Events /\ Overview(p) = "conflict"

(* resolve_save_conflict.  Keeping this PC's save uploads it over whatever *)
(* is newest; keeping both locks the newest usable version first.          *)
KeepLocal(p) ==
    /\ MayChoose(p)
    /\ Begin(p, "choice", TRUE)
    /\ asked' = [asked EXCEPT ![p] = "no"]
    /\ UNCHANGED <<shared, disk, memory, reach, game, ghosts>>

KeepBoth(p) ==
    /\ MayChoose(p)
    /\ Reaches(p)
    /\ locked' = locked \cup ({NewestUsableId(store[p], HereOf(p))} \ {NoId})
    /\ Begin(p, "choice", TRUE)
    /\ asked' = [asked EXCEPT ![p] = "no"]
    /\ UNCHANGED <<store, minted, removed, disk, memory, reach, game, ghosts>>

(* Restoring the newest version here, or any by hand. *)
RestoreByHand(p, version) ==
    /\ Quiet(p)
    /\ Reaches(p)
    /\ RestoreChosen(p, version)
    /\ RecordSync(p, NewestUsableId(store[p], HereOf(p)), archive'[p])
    /\ asked' = [asked EXCEPT ![p] = "no"]
    /\ UNCHANGED <<shared, memory, reach, game, upload, sessions>>

KeepRemote(p) ==
    /\ MayChoose(p)
    /\ Usable(store[p], HereOf(p)) # {}
    /\ RestoreByHand(p, NewestUsable(store[p], HereOf(p)))

(* "Not now" at a launch, or "Decide later" after an upload. *)
DismissConflict(p) ==
    /\ \/ asked[p] = "launch"
       \/ asked[p] = "upload" /\ "defer" \in Events
    /\ asked' = [asked EXCEPT ![p] = "no"]
    /\ UNCHANGED <<shared, disk, memory, reach, game, upload, ghosts>>

(* The Saves page. *)
RestoreOld(p) ==
    /\ "history" \in Events
    /\ \E version \in store[p] : RestoreByHand(p, version)

BackUpByHand(p) ==
    /\ "by-hand" \in Events
    /\ Quiet(p)
    /\ Cardinality(minted) < MaxUploads
    /\ Begin(p, "manual", FALSE)
    /\ UNCHANGED <<shared, disk, memory, reach, game, asked, ghosts>>

SetLocked(p) ==
    /\ "lock" \in Events
    /\ Reaches(p)
    /\ \E version \in store[p] :
           locked' = IF version.id \in locked THEN locked \ {version.id}
                     ELSE locked \cup {version.id}
    /\ UNCHANGED <<store, minted, removed, disk, memory, reach, flows, ghosts>>

(* delete_save_versions, and delete_all_saves for this game.  The record   *)
(* moves to the first version left, unless the listing of those failed.    *)
Delete(p) ==
    /\ "delete" \in Events
    /\ Quiet(p)
    /\ Reaches(p)
    /\ \E left \in SUBSET store[p] :
           /\ left # store[p]
           /\ Write(p, left)
           /\ \/ record' = [record EXCEPT ![p] =
                     ForgetVersions(@, {v.id : v \in store[p] \ left}, NewestId(left))]
              \/ "half-delete" \in Events /\ UNCHANGED record
    /\ UNCHANGED <<locked, minted, live, staging, archive, memory, reach, flows,
                   ghosts>>

(* The app ends at any point and starts again, with what was on disk. *)
Crash(p) ==
    /\ "crash" \in Events
    /\ ~Quiet(p)
    /\ game' = [game EXCEPT ![p] = NoGame]
    /\ upload' = [upload EXCEPT ![p] = NoUpload]
    /\ asked' = [asked EXCEPT ![p] = "no"]
    /\ unsynced' = unsynced \ {p}
    /\ answered' = answered \ {p}
    /\ UNCHANGED <<shared, disk, reach, ghosts>>
-----------------------------------------------------------------------------
UploadStep(p) ==
    \/ BackUp(p) \/ ListForUpload(p) \/ StoreUpload(p) \/ RecordUpload(p)
    \/ UploadUnreached(p) \/ UploadFails(p)

LaunchStep(p) ==
    \/ Launch(p) \/ LaunchOffline(p) \/ Check(p) \/ Compare(p) \/ FetchNewest(p)
    \/ SkipRestore(p) \/ PutBack(p) \/ FailRestore(p) \/ StartGame(p) \/ FailGame(p)
    \/ Play(p) \/ ExitGame(p)

UserStep(p) ==
    \/ AnswerRestore(p) \/ AnswerKeep(p) \/ DismissOffer(p) \/ KeepLocal(p)
    \/ KeepBoth(p) \/ KeepRemote(p) \/ DismissConflict(p) \/ RestoreOld(p)
    \/ BackUpByHand(p) \/ SetLocked(p) \/ Delete(p) \/ SkipUpload(p)

Next ==
    \E p \in PC :
        \/ LaunchStep(p) \/ UploadStep(p) \/ Retry(p) \/ UserStep(p)
        \/ LoseStore(p) \/ FindStore(p) \/ CatchUp(p) \/ Crash(p)

Spec == Init /\ [][Next]_vars

(* The retry loop runs while the app does and a call on the store ends,    *)
(* with its answer or without.                                             *)
Fairness == \A p \in PC : WF_vars(Retry(p)) /\ WF_vars(UploadStep(p))

FairSpec == Spec /\ Fairness
-----------------------------------------------------------------------------
RestoresProgress ==
    \A p \in PC : PutBack(p) => live[p] \subseteq live'[p] \cup settled

(* A launch restores unasked only what builds on the progress of this PC:  *)
(* no session's progress leaves its save files, unless a user chose so.    *)
ProgressKept == [][RestoresProgress]_vars

UploadsInLine ==
    \A p \in PC :
        (StoreUpload(p) /\ upload[p].why # "choice" /\ upload'[p].outcome = "stored")
            => \A v \in Usable(store[p], HereOf(p)) :
                   v = NewestUsable(store[p], HereOf(p))
                       => v.data \subseteq staging[p] \cup settled

(* An upload nobody forced goes on top of the newest save it could have    *)
(* restored: the new version holds all the progress that one did, unless a *)
(* user chose against it.                                                  *)
LineageKept == [][UploadsInLine]_vars

(* docs/saves.md:73: "Backed up" means that this PC and the store match.   *)
(* While nothing is under way here, the page says so only if the newest    *)
(* save that restores here holds what this PC has, and the other way       *)
(* round, but for what users chose against.                                *)
BackedUpIsBackedUp ==
    \A p \in PC :
        (Quiet(p) /\ asked[p] = "no" /\ live[p] # {} /\ Overview(p) = "in-sync")
            => LET newest == NewestUsable(store[p], HereOf(p)).data
               IN  live[p] \subseteq newest \cup settled
                   /\ newest \subseteq live[p] \cup settled

(* For liveness: the store is there, and nobody plays.                     *)
LeftAlone(p) == Reaches(p) /\ game[p].at = "idle"

Waits(p) == record[p].pending

(* Cleanup never removes a locked version, nor the one just uploaded.      *)
PruningSpares ==
    [][\A p \in PC :
          (StoreUpload(p) /\ upload'[p].outcome = "stored")
              => (locked \cap {v.id : v \in store[p]}) \cup {upload'[p].id}
                     \subseteq {v.id : v \in store'[p]}]_vars
=============================================================================
