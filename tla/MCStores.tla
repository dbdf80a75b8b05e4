------------------------------ MODULE MCStores ------------------------------
(* The two stores a game's saves may be kept in, a folder and a WebDAV     *)
(* share, for TLC: a behaviour is of one or the other, the variables the   *)
(* other alone has are None.  Installations have an order and are not      *)
(* alike; what archives hold is.                                           *)
EXTENDS Integers, FiniteSets, TLC

CONSTANTS PC, Save, None, Part, MaxVersions, MaxUploads, MaxClock, MaxCalls, MaxFaults

VARIABLES
    kind,                                           \* of the store
    zip, sidecar, marker, clock, call, doomed,      \* of both
    stored, chosen,                                 \* of the folder
    made, late, last, told, got, calls, faults      \* of the share

folderOnly == <<stored, chosen>>
shareOnly == <<made, late, last, told, got, calls, faults>>
vars == <<kind, zip, sidecar, marker, clock, call, doomed, folderOnly, shareOnly>>

Folder == INSTANCE FolderStore
WebDav == INSTANCE WebDavStore WITH json <- sidecar

ASSUME MCStoresAssumption == Folder!FolderStoreAssumption /\ WebDav!WebDavStoreAssumption

AlikeSaves == Permutations(Save)

Init ==
    \/ /\ kind = "folder" /\ Folder!Init
       /\ made = None /\ late = None /\ last = None /\ told = None
       /\ got = None /\ calls = None /\ faults = None
    \/ /\ kind = "webdav" /\ WebDav!Init
       /\ stored = None /\ chosen = None

Next ==
    /\ \/ kind = "folder" /\ Folder!Next /\ UNCHANGED shareOnly
       \/ kind = "webdav" /\ WebDav!Next /\ UNCHANGED folderOnly
    /\ UNCHANGED kind

Spec == Init /\ [][Next]_vars
-----------------------------------------------------------------------------
(* What either store lists is whole, whatever uploads were cut short ("a   *)
(* half-finished upload is invisible rather than corrupt", save_store.rs), *)
(* or, where a deletion of it was cut short, lost its archive altogether:  *)
(* never a part of one.  However many PCs prune at once, a folder has its  *)
(* newest versions but for those a user chose to delete.  A PC that was    *)
(* told its save is on the share finds it there, whatever requests were    *)
(* lost, refused or late.                                                  *)
HeldWhole ==
    /\ kind = "folder" => Folder!ListedIsWhole /\ Folder!NewestKept
    /\ kind = "webdav" => WebDav!ListedIsWhole /\ WebDav!AnsweredIsHeld

Abstract == INSTANCE VersionStore WITH
    Id    <- Folder!Id,
    held  <- IF kind = "folder" THEN Folder!Held ELSE WebDav!Held,
    locks <- IF kind = "folder" THEN Folder!Locked ELSE WebDav!Locked,
    used  <- IF kind = "folder" THEN Folder!Used ELSE WebDav!Used

(* To those who use it either is a store of versions that appear and go    *)
(* all at once and never change: the SaveStore trait.                      *)
IsVersionStore == Abstract!Spec
=============================================================================
