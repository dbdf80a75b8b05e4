----------------------------- MODULE FolderStore -----------------------------
(***************************************************************************)
(* One game's directory in a folder that several PCs see, at the level of  *)
(* its files: FolderStore in crates/gameyfin-core/src/save_store.rs, whose *)
(* layout WebDavStore has too.  A version is an archive, the sidecar that  *)
(* describes it and, when it is locked, a marker.                          *)
(*                                                                         *)
(* A PC has one upload or deletion under way at most, which may fail after *)
(* each of its steps or with the app.  Reading a directory is one step.    *)
(* An upload that is turned down (unchanged, or a conflict) writes nothing *)
(* and is left out: SaveSync has the answers.                              *)
(***************************************************************************)
EXTENDS Integers, FiniteSets

CONSTANTS
    PC,           \* the installations, which are numbers: their ids have an order
    Save,         \* what an archive may hold
    None,         \* no file
    Part,         \* the beginning of a file
    MaxVersions,  \* the retention limit
    MaxUploads,   \* bound: the uploads there are in all
    MaxClock      \* bound: milliseconds that pass

FolderStoreAssumption ==
    /\ PC \subseteq Nat /\ IsFiniteSet(PC)
    /\ {None, Part} \cap Save = {} /\ None # Part
    /\ MaxVersions \in Nat \ {0}
    /\ MaxUploads \in Nat \ {0}
    /\ MaxClock \in Nat

VARIABLES
    zip,       \* each version's archive
    sidecar,   \* each version's sidecar: the hash of its archive
    marker,    \* the versions with a lock marker
    clock,     \* epoch milliseconds
    call,      \* each PC's upload or deletion
    stored,    \* ghost: the versions whose upload got as far as a sidecar
    chosen,    \* ghost: the versions a user chose to delete
    doomed     \* ghost: the versions whose deletion began

files == <<zip, sidecar, marker>>
ghosts == <<stored, chosen, doomed>>
vars == <<files, clock, call, ghosts>>

(* <<millis, installation>>, as in 1700000000000_laptop. *)
Id == (1 .. MaxClock + MaxUploads - 1) \X PC

NoId == <<0, 0>>

File == Save \cup {None, Part}

After(a, b) == a[1] > b[1] \/ (a[1] = b[1] /\ a[2] > b[2])

NewestOf(ids) == CHOOSE id \in ids : \A other \in ids \ {id} : After(id, other)

(* A sidecar that cannot be parsed is skipped. *)
Listed == {id \in Id : sidecar[id] \in Save}

Call == [at : {"idle", "listed", "copying", "copied", "describing", "stored",
               "removing", "archive gone", "sidecar gone"},
         why : {"upload", "delete"},
         id : Id \cup {NoId}, save : Save \cup {None}, todo : SUBSET Id]

NoCall == [at |-> "idle", why |-> "upload", id |-> NoId, save |-> None, todo |-> {}]

TypeOK ==
    /\ zip \in [Id -> File]
    /\ sidecar \in [Id -> File]
    /\ marker \subseteq Id
    /\ clock \in 1..MaxClock
    /\ call \in [PC -> Call]
    /\ stored \subseteq Id /\ chosen \subseteq Id /\ doomed \subseteq Id

Init ==
    /\ zip = [id \in Id |-> None] /\ sidecar = [id \in Id |-> None]
    /\ marker = {}
    /\ clock = 1
    /\ call = [p \in PC |-> NoCall]
    /\ stored = {} /\ chosen = {} /\ doomed = {}

Tick ==
    /\ clock < MaxClock
    /\ clock' = clock + 1
    /\ UNCHANGED <<files, call, ghosts>>

To(p, at) == call' = [call EXCEPT ![p].at = at]
-----------------------------------------------------------------------------
(* upload. *)

(* A mistake to check against: not looking whether the id is taken. *)
IdUnchecked(existing, p) == <<clock, p>>

(* This millisecond, or the first one from it no version here has. *)
NextVersionId(existing, p) ==
    LET free == {id \in Id : id[1] >= clock /\ id[2] = p /\ id \notin existing}
    IN  CHOOSE id \in free : \A other \in free \ {id} : After(other, id)

UploadsMade == Cardinality({id \in Id : zip[id] # None} \cup stored)

(* The listing, the check against the newest version and the new id. *)
BeginUpload(p) ==
    /\ call[p].at = "idle"
    /\ UploadsMade + Cardinality({q \in PC : call[q].at = "listed"}) < MaxUploads
    /\ \E save \in Save :
           /\ Listed # {} => sidecar[NewestOf(Listed)] # save
           /\ call' = [call EXCEPT ![p] =
                  [NoCall EXCEPT !.at = "listed", !.save = save,
                                 !.id = NextVersionId(Listed, p)]]
    /\ UNCHANGED <<files, clock, ghosts>>

(* A mistake to check against: the sidecar before the archive. *)
SidecarAtOnce(p) ==
    /\ call[p].at = "listed"
    /\ sidecar' = [sidecar EXCEPT ![call[p].id] = call[p].save]
    /\ zip' = [zip EXCEPT ![call[p].id] = Part]
    /\ stored' = stored \cup {call[p].id}
    /\ To(p, "copying")
    /\ UNCHANGED <<marker, clock, chosen, doomed>>

(* fs::copy: the archive grows, then it is all there ... *)
BeginCopy(p) ==
    /\ call[p].at = "listed"
    /\ zip' = [zip EXCEPT ![call[p].id] = Part]
    /\ To(p, "copying")
    /\ UNCHANGED <<sidecar, marker, clock, ghosts>>

EndCopy(p) ==
    /\ call[p].at = "copying"
    /\ zip' = [zip EXCEPT ![call[p].id] = call[p].save]
    /\ To(p, "copied")
    /\ UNCHANGED <<sidecar, marker, clock, ghosts>>

(* ... and the sidecar lands second. *)
BeginSidecar(p) ==
    /\ call[p].at = "copied"
    /\ sidecar' = [sidecar EXCEPT ![call[p].id] = Part]
    /\ To(p, "describing")
    /\ UNCHANGED <<zip, marker, clock, ghosts>>

EndSidecar(p) ==
    /\ call[p].at = "describing"
    /\ sidecar' = [sidecar EXCEPT ![call[p].id] = call[p].save]
    /\ stored' = stored \cup {call[p].id}
    /\ To(p, "stored")
    /\ UNCHANGED <<zip, marker, clock, chosen, doomed>>

(* Past the limit among those that are not locked. *)
Stale(versions) ==
    {id \in versions \ marker :
        Cardinality({other \in versions \ marker : After(other, id)}) >= MaxVersions}

(* prune lists again; what is past the limit now is deleted one by one. *)
BeginPrune(p) ==
    /\ call[p].at = "stored"
    /\ call' = [call EXCEPT ![p].at = "removing", ![p].todo = Stale(Listed)]
    /\ UNCHANGED <<files, clock, ghosts>>
-----------------------------------------------------------------------------
(* delete, whose failures are ignored, of one version or of several. *)

BeginDelete(p) ==
    /\ call[p].at = "idle"
    /\ \E ids \in SUBSET Listed \ {{}} :
           /\ chosen' = chosen \cup ids
           /\ call' = [call EXCEPT ![p] =
                  [NoCall EXCEPT !.at = "removing", !.why = "delete", !.todo = ids]]
    /\ UNCHANGED <<files, clock, stored, doomed>>

Removing(p) == NewestOf(call[p].todo)

(* Nothing is deleted in the millisecond it was uploaded in. *)
RemoveArchive(p) ==
    /\ call[p].at = "removing" /\ call[p].todo # {}
    /\ Removing(p)[1] < clock
    /\ zip' \in {zip, [zip EXCEPT ![Removing(p)] = None]}
    /\ doomed' = doomed \cup {Removing(p)}
    /\ To(p, "archive gone")
    /\ UNCHANGED <<sidecar, marker, clock, stored, chosen>>

RemoveSidecar(p) ==
    /\ call[p].at = "archive gone"
    /\ sidecar' \in {sidecar, [sidecar EXCEPT ![Removing(p)] = None]}
    /\ To(p, "sidecar gone")
    /\ UNCHANGED <<zip, marker, clock, ghosts>>

RemoveMarker(p) ==
    /\ call[p].at = "sidecar gone"
    /\ marker' \in {marker, marker \ {Removing(p)}}
    /\ call' = [call EXCEPT ![p].at = "removing", ![p].todo = @ \ {Removing(p)}]
    /\ UNCHANGED <<zip, sidecar, clock, ghosts>>

Done(p) ==
    /\ call[p].at = "removing" /\ call[p].todo = {}
    /\ call' = [call EXCEPT ![p] = NoCall]
    /\ UNCHANGED <<files, clock, ghosts>>

(* A disk that is full, a share that is gone, an app that ends. *)
Fail(p) ==
    /\ call[p].at # "idle"
    /\ call' = [call EXCEPT ![p] = NoCall]
    /\ UNCHANGED <<files, clock, ghosts>>

(* set_locked, of a version some listing had. *)
SetLocked ==
    /\ \E id \in stored : marker' \in {marker \cup {id}, marker \ {id}}
    /\ UNCHANGED <<zip, sidecar, clock, call, ghosts>>
-----------------------------------------------------------------------------
Next ==
    \/ Tick \/ SetLocked
    \/ \E p \in PC :
           \/ BeginUpload(p) \/ BeginCopy(p) \/ EndCopy(p) \/ BeginSidecar(p)
           \/ EndSidecar(p) \/ BeginPrune(p) \/ BeginDelete(p) \/ RemoveArchive(p)
           \/ RemoveSidecar(p) \/ RemoveMarker(p) \/ Done(p) \/ Fail(p)

Spec == Init /\ [][Next]_vars
-----------------------------------------------------------------------------
(* "a half-finished upload is invisible rather than corrupt": a version    *)
(* that is listed has the archive its sidecar describes, whatever uploads  *)
(* and deletions were cut short, or, once somebody began to delete it, it  *)
(* may have none any more; a part of one or another's it never has.        *)
ListedIsWhole ==
    \A id \in Listed : zip[id] = sidecar[id] \/ (id \in doomed /\ zip[id] = None)

(* However many PCs prune at once with listings of their own, the newest   *)
(* MaxVersions of all that were ever stored are still there, but for those *)
(* a user chose to delete.                                                 *)
NewestKept ==
    \A id \in stored \ chosen :
        Cardinality({other \in stored : After(other, id)}) < MaxVersions
            => id \in Listed

Whole == {id \in Listed : zip[id] = sidecar[id]}

(* What the directory is to those who use it (VersionStore). *)
Held == {<<id, sidecar[id]>> : id \in Whole}
Locked == marker \cap Whole
Used == stored
=============================================================================
