---------------------------- MODULE SaveDecision ----------------------------
(***************************************************************************)
(* The pure decisions of crates/gameyfin-core/src/save_sync.rs: what one   *)
(* PC makes of a game's saves, given its record of the last sync and the   *)
(* versions a store lists.                                                 *)
(*                                                                         *)
(* A listing is a set of versions.  Every store lists newest first by id,  *)
(* so the first entry of a listing is the version with the largest id.     *)
(* Timestamps, device names and sizes are for display and are left out.    *)
(***************************************************************************)
EXTENDS Integers, FiniteSets

(* `None` for ids, titles and hashes.  Real ids start at 1. *)
NoId == 0

SavePlatforms == {"windows", "proton", "linux", "macos", "unknown"}

(* Whether a backup from one system restores onto another untranslated. *)
InterchangeableWith(a, b) ==
    \/ "unknown" \in {a, b}
    \/ a = b
    \/ {a, b} = {"windows", "proton"}

(* A stored version: its id, the version it was uploaded on top of, the    *)
(* system and the installation that made it, and the save it holds.        *)
IsVersion(v, PC, Save) ==
    v \in [id : Nat \ {NoId}, base : Nat, platform : SavePlatforms,
           installation : PC, data : Save]

(* What a PC remembers of the last sync.  backedUp and hash stand for      *)
(* last_backup_hash: whether there is one, and the save it is the hash of. *)
NeverRecorded(nothing) ==
    [lastSynced |-> NoId, backedUp |-> FALSE, hash |-> nothing,
     declined |-> NoId, pending |-> FALSE]

NeverSynced(local) == local.lastSynced = NoId /\ ~local.backedUp

FirstStart(local, newestId) ==
    IF local.declined = newestId THEN "keep-local" ELSE "ask"

(* The first entry of a listing, newest first. *)
Newest(versions) == CHOOSE v \in versions : \A w \in versions : w.id <= v.id

NewestId(versions) == IF versions = {} THEN NoId ELSE Newest(versions).id

(* Whether a stored version restores into the right places on this PC. *)
RestorableHere(v, here) ==
    \/ here.anyPlatform
    \/ v.installation = here.installation
    \/ InterchangeableWith(v.platform, here.platform)

Usable(versions, here) == {v \in versions : RestorableHere(v, here)}

(* A mistake to check against: judging by the newest version of any system. *)
NewestOfAnySystem(versions, here) == Newest(versions)

NewestUsable(versions, here) == Newest(Usable(versions, here))

NewestUsableId(versions, here) == NewestId(Usable(versions, here))

(* A mistake to check against: asking only whether anything is newer. *)
PassesAnythingNewer(versions, base, here) == NewestId(versions) # base

(* Whether an upload built on base may go past the newest stored version. *)
PassesOtherSystems(versions, base, here) ==
    /\ NewestUsableId(versions, here) = base
    /\ NewestId(versions) # base

WithId(versions, id) == {v \in versions : v.id = id}

(* The walk of `forked` down the chain of bases from `newest`, one turn    *)
(* for each version listed.                                                *)
ForkWalk[versions \in SUBSET [id : Nat, base : Nat], ours \in Nat,
         ourBase \in Nat, at \in [id : Nat, base : Nat], turns \in Nat] ==
    /\ turns > 0
    /\ at.id # ours
    /\ at.base # NoId
    /\ \/ at.base = ourBase
       \/ \E next \in WithId(versions, at.base) :
              ForkWalk[versions, ours, ourBase, next, turns - 1]

Chain(v) == [id |-> v.id, base |-> v.base]

(* A mistake to check against: taking a shared base alone for a fork. *)
ForkedByDirectBase(versions, newest, ours) ==
    \E mine \in WithId(versions, ours) :
        /\ mine.base # NoId
        /\ newest.base = mine.base

(* Whether `newest` was written without seeing `ours`, both on top of one  *)
(* earlier version.                                                        *)
Forked(versions, newest, ours) ==
    \E mine \in WithId(versions, ours) :
        /\ ours # NoId
        /\ mine.base # NoId
        /\ ForkWalk[{Chain(v) : v \in versions}, ours, mine.base,
                    Chain(newest), Cardinality(versions)]

SyncStates == {"platform-mismatch", "local-newer", "never-synced", "in-sync",
               "remote-newer", "conflict"}

(* What a game's saves need, judged against the newest version that        *)
(* restores here.                                                          *)
Decide(local, versions, changed, here) ==
    LET remote == NewestUsable(versions, here)
        ours   == local.lastSynced = remote.id
    IN  CASE Usable(versions, here) = {} ->
                 IF versions # {} /\ ~local.backedUp /\ ~changed
                 THEN "platform-mismatch"
                 ELSE IF local.backedUp THEN "local-newer" ELSE "never-synced"
          [] Usable(versions, here) # {} /\ ours ->
                 IF changed THEN "local-newer" ELSE "in-sync"
          [] OTHER ->
                 IF ~changed /\ ~Forked(versions, remote, local.lastSynced)
                 THEN "remote-newer"
                 ELSE "conflict"

(* A record that says in sync beside no save files at all. *)
MissingHere(judged, versions, here, filesHere) ==
    IF judged = "in-sync" /\ Usable(versions, here) # {} /\ ~filesHere
    THEN "remote-newer"
    ELSE judged

(* A mistake to check against: leaving the declined offer behind. *)
ForgetOnlyLastSynced(local, deleted, newestLeft) ==
    [local EXCEPT !.lastSynced = IF @ \in deleted THEN newestLeft ELSE @]

(* Drops deleted versions from what this PC remembers. *)
ForgetVersions(local, deleted, newestLeft) ==
    [local EXCEPT
        !.lastSynced = IF @ # NoId /\ @ \in deleted THEN newestLeft ELSE @,
        !.declined   = IF @ # NoId /\ @ \in deleted THEN NoId ELSE @]

NeedsAttention(judged) == judged \in {"conflict", "platform-mismatch"}
=============================================================================
