----------------------------- MODULE GameFiles ------------------------------
(***************************************************************************)
(* One game's files: a download is extracted beside its archive            *)
(* (extract_download, src-tauri/src/ipc/library.rs), moved into the games  *)
(* folder (move_into_place, ipc/install.rs), found again by a rescan       *)
(* (LibraryState::rescan), and removed.  A claim lets one command at a     *)
(* time at them (GameClaims); the rescan takes none.  The app may end, and *)
(* a removal stop, between any two files.                                  *)
(*                                                                         *)
(* A version of the game is Parts files, and no two versions name a file   *)
(* alike.  Not here: how the download gets there (DownloadResume), and     *)
(* setup programs (SetupRun).                                              *)
(***************************************************************************)
EXTENDS Integers, FiniteSets

CONSTANTS
    Parts,          \* files of a version of the game
    MaxVersions,    \* bound: downloads, each of a newer version
    MaxFaults,      \* bound: crashes and failing operations
    None            \* no such file or folder

Version == 1 .. MaxVersions

Piece == Version \X (1 .. Parts)

GameFilesAssumption ==
    /\ Parts \in Nat \ {0} /\ MaxVersions \in Nat /\ MaxFaults \in Nat
    /\ None \notin Version /\ \A tree \in SUBSET Piece : tree # None

(* Downloads/extracted; Installations/.incoming-, .outgoing- and the game. *)
Place == {"staging", "incoming", "outgoing", "install"}

VARIABLES
    archive,  \* the finished archive in Downloads
    disk,     \* the folders, file by file
    record,   \* which of them the game's record names
    fetched,  \* downloads so far
    seen,     \* what a rescan found and has not recorded yet
    pc,       \* where the command that holds the claim is
    discard,  \* whether it deletes the download when it is done
    faults

vars == <<archive, disk, record, fetched, seen, pc, discard, faults>>

All(v) == {v} \X (1 .. Parts)

Whole(tree) == tree # None /\ \E v \in Version : tree = All(v)

HasContent(tree) == tree # None /\ tree # {}

Nothing == [archive |-> FALSE, extracted |-> FALSE, install |-> FALSE]

TypeOK ==
    /\ archive \in Version \cup {None}
    /\ disk \in [Place -> (SUBSET Piece) \cup {None}]
    /\ record \in [archive : BOOLEAN, extracted : BOOLEAN, install : BOOLEAN]
    /\ fetched \in 0 .. MaxVersions
    /\ seen = None \/ seen \in [download : BOOLEAN, archive : BOOLEAN, extracted : BOOLEAN,
                                install : BOOLEAN]
    /\ pc \in {"idle", "downloading", "extracting", "extracted", "recording unpacked", "recording extracted",
               "clearing incoming", "taking", "copying", "clearing copy", "clearing staging",
               "placing", "putting", "replacing", "clearing outgoing", "recording move",
               "recording install", "discarding", "recording discard", "removing install",
               "recording uninstall", "removing staging", "recording staging"}
    /\ discard \in BOOLEAN
    /\ faults \in 0 .. MaxFaults

Init ==
    /\ archive = None
    /\ disk = [place \in Place |-> None]
    /\ record = Nothing
    /\ fetched = 0
    /\ seen = None
    /\ pc = "idle"
    /\ discard = FALSE
    /\ faults = 0

Fault ==
    /\ faults < MaxFaults
    /\ faults' = faults + 1

(* A step of the command that changes no record. *)
Step(from, to) ==
    /\ pc = from
    /\ pc' = to
    /\ UNCHANGED <<record, fetched, seen, discard>>
-----------------------------------------------------------------------------
(* remove_dir_all, file by file, and on to `gone`; if a file will not go   *)
(* the rest stays, and the command goes on at `failed`.                    *)
Remove(from, place, gone, failed) ==
    \/ /\ HasContent(disk[place])
       /\ Step(from, from)
       /\ \E piece \in disk[place] : disk' = [disk EXCEPT ![place] = @ \ {piece}]
       /\ UNCHANGED <<archive, faults>>
    \/ /\ ~HasContent(disk[place])
       /\ Step(from, gone)
       /\ disk' = [disk EXCEPT ![place] = None]
       /\ UNCHANGED <<archive, faults>>
    \/ /\ HasContent(disk[place])
       /\ Fault
       /\ Step(from, failed)
       /\ UNCHANGED <<archive, disk>>

Begin(at) ==
    /\ pc = "idle"
    /\ pc' = at
    /\ UNCHANGED <<archive, disk, record, fetched, seen, faults>>

Recorded(from, to, now) ==
    /\ pc = from
    /\ pc' = to
    /\ record' = now
    /\ UNCHANGED <<archive, disk, fetched, seen, discard, faults>>
-----------------------------------------------------------------------------
StartDownload ==
    /\ fetched < MaxVersions /\ archive = None
    /\ Begin("downloading")
    /\ UNCHANGED discard

(* The download is done: a file, ...                                       *)
Downloaded ==
    /\ pc = "downloading"
    /\ pc' = "idle"
    /\ fetched' = fetched + 1
    /\ archive' = fetched + 1
    /\ record' = [record EXCEPT !.archive = TRUE]
    /\ UNCHANGED <<disk, seen, discard, faults>>

(* ... or unpacked as it arrived, in place of what was in the folder.      *)
Unpacked ==
    /\ pc = "downloading"
    /\ pc' = "recording unpacked"
    /\ fetched' = fetched + 1
    /\ disk' = [disk EXCEPT !["staging"] = All(fetched + 1)]
    /\ UNCHANGED <<archive, record, seen, discard, faults>>

ExistingArchive == record.archive /\ archive # None

ExistingStaging == record.extracted /\ disk["staging"] # None

ExtractDownload ==
    /\ ExistingArchive
    /\ Begin("extracting")
    /\ UNCHANGED discard

(* Files are added to whatever the folder holds already. *)
ExtractOne ==
    /\ Step("extracting", "extracting")
    /\ LET there == IF disk["staging"] = None THEN {} ELSE disk["staging"] IN
       \E piece \in All(archive) \ there : disk' = [disk EXCEPT !["staging"] = there \cup {piece}]
    /\ UNCHANGED <<archive, faults>>

(* What was unpacked of an archive that cannot be read stays. *)
ExtractFails ==
    /\ Fault
    /\ Step("extracting", "idle")
    /\ UNCHANGED <<archive, disk>>

Extracted ==
    /\ Step("extracting", "extracted")
    /\ disk["staging"] # None /\ All(archive) \subseteq disk["staging"]
    /\ UNCHANGED <<archive, disk, faults>>

RemoveArchive ==
    /\ Step("extracted", "recording unpacked")
    /\ archive' = None
    /\ UNCHANGED <<disk, faults>>

KeepArchive ==
    /\ Step("extracted", "recording extracted")
    /\ UNCHANGED <<archive, disk, faults>>

(* If the archive will not go it is forgotten all the same. *)
ArchiveStays ==
    /\ Fault
    /\ Step("extracted", "recording unpacked")
    /\ UNCHANGED <<archive, disk>>

(* record_extracted *)
RecordExtracted ==
    \/ Recorded("recording extracted", "idle", [record EXCEPT !.extracted = TRUE])
    \/ Recorded("recording unpacked", "idle",
                [record EXCEPT !.extracted = TRUE, !.archive = FALSE])
-----------------------------------------------------------------------------
(* move_into_place, from what existing_staging names. *)
MoveIntoPlace ==
    /\ ExistingStaging
    /\ Begin("clearing incoming")
    /\ discard' \in BOOLEAN

ClearIncoming == Remove("clearing incoming", "incoming", "taking", "taking")

(* A rename, onto nothing or an empty folder, ...                          *)
Take ==
    /\ ~HasContent(disk["incoming"]) /\ disk["staging"] # None
    /\ Step("taking", "placing")
    /\ disk' = [disk EXCEPT !["incoming"] = disk["staging"], !["staging"] = None]
    /\ UNCHANGED <<archive, faults>>

(* ... and a copy when that fails, as it does from drive to drive.         *)
StartCopy ==
    /\ disk["staging"] # None
    /\ Step("taking", "copying")
    /\ disk' = [disk EXCEPT !["incoming"] = IF @ = None THEN {} ELSE @]
    /\ UNCHANGED <<archive, faults>>

CopyOne ==
    /\ Step("copying", "copying")
    /\ \E piece \in disk["staging"] \ disk["incoming"] :
           disk' = [disk EXCEPT !["incoming"] = @ \cup {piece}]
    /\ UNCHANGED <<archive, faults>>

CopyFails ==
    /\ Fault
    /\ Step("copying", "clearing copy")
    /\ UNCHANGED <<archive, disk>>

ClearCopy == Remove("clearing copy", "incoming", "idle", "idle")

Copied ==
    /\ Step("copying", "clearing staging")
    /\ disk["staging"] \subseteq disk["incoming"]
    /\ UNCHANGED <<archive, disk, faults>>

ClearStaging == Remove("clearing staging", "staging", "placing", "placing")

(* The old install is renamed, which fails onto a folder with files in it. *)
SetAside ==
    /\ disk["install"] # None /\ ~HasContent(disk["outgoing"])
    /\ Step("placing", "replacing")
    /\ disk' = [disk EXCEPT !["outgoing"] = disk["install"], !["install"] = None]
    /\ UNCHANGED <<archive, faults>>

NotSetAside ==
    /\ disk["install"] # None /\ HasContent(disk["outgoing"])
    /\ Step("placing", "idle")
    /\ UNCHANGED <<archive, disk, faults>>

NothingToReplace ==
    /\ disk["install"] = None
    /\ Step("placing", "putting")
    /\ UNCHANGED <<archive, disk, faults>>

Put ==
    /\ Step(pc, IF pc = "replacing" THEN "clearing outgoing" ELSE "recording move")
    /\ pc \in {"putting", "replacing"}
    /\ disk' = [disk EXCEPT !["install"] = disk["incoming"], !["incoming"] = None]
    /\ UNCHANGED <<archive, faults>>

(* A file in use, or no rights, keeps a rename from happening; nothing is  *)
(* put back.                                                               *)
RenameFails ==
    /\ \/ pc \in {"putting", "replacing"}
       \/ pc = "placing" /\ disk["install"] # None
    /\ Fault
    /\ Step(pc, "idle")
    /\ UNCHANGED <<archive, disk>>

ClearOutgoing == Remove("clearing outgoing", "outgoing", "recording move", "recording move")

RecordMove ==
    Recorded("recording move", "recording install", [record EXCEPT !.extracted = FALSE])

(* finish_install, and discard_download_if_asked.                          *)
RecordInstall ==
    Recorded("recording install", IF discard THEN "discarding" ELSE "idle",
             [record EXCEPT !.install = TRUE])
-----------------------------------------------------------------------------
(* remove_download: the archive and the unpacked files, in any order.      *)
DeleteDownload ==
    /\ Begin("discarding")
    /\ UNCHANGED discard

DiscardArchive ==
    /\ archive # None
    /\ Step("discarding", "discarding")
    /\ archive' = None
    /\ UNCHANGED <<disk, faults>>

(* A mistake to check against: what was installed is taken for the download. *)
DiscardInstalled ==
    Remove("discarding", "install", IF archive = None THEN "recording discard" ELSE "discarding",
           "idle")

DiscardStaging ==
    /\ archive = None \/ disk["staging"] # None
    /\ Remove("discarding", "staging", IF archive = None THEN "recording discard" ELSE "discarding",
              "idle")

RecordDiscard ==
    Recorded("recording discard", "idle",
             [record EXCEPT !.archive = FALSE, !.extracted = FALSE])

DeleteStaging ==
    /\ ExistingStaging
    /\ Begin("removing staging")
    /\ UNCHANGED discard

RemoveStaging == Remove("removing staging", "staging", "recording staging", "idle")

RecordStaging == Recorded("recording staging", "idle", [record EXCEPT !.extracted = FALSE])

(* uninstall_game; its own uninstaller does not have to leave anything.    *)
UninstallGame ==
    /\ record.install
    /\ Begin("removing install")
    /\ UNCHANGED discard

RemoveInstall == Remove("removing install", "install", "recording uninstall", "idle")

RecordUninstall == Recorded("recording uninstall", "idle", [record EXCEPT !.install = FALSE])
-----------------------------------------------------------------------------
(* scan_root: what a game's two folders hold; a half unpacked download is  *)
(* not told from a whole one.                                              *)
Scan ==
    /\ seen = None
    /\ seen' = [download |-> pc = "downloading" \/ archive # None \/ disk["staging"] # None,
                archive |-> archive # None,
                extracted |-> disk["staging"] # None,
                install |-> HasContent(disk["install"])]
    /\ UNCHANGED <<archive, disk, record, fetched, pc, discard, faults>>

Adopted ==
    [archive |-> IF seen.download THEN seen.archive ELSE record.archive,
     extracted |-> record.extracted \/ seen.extracted,
     install |-> record.install \/ seen.install]

Adopt ==
    /\ seen # None
    /\ record' = Adopted
    /\ seen' = None
    /\ UNCHANGED <<archive, disk, fetched, pc, discard, faults>>

(* The app ends, or the PC does, and is started again. *)
Crash ==
    /\ pc # "idle"
    /\ Fault
    /\ pc' = "idle" /\ seen' = None /\ discard' = FALSE
    /\ UNCHANGED <<archive, disk, record, fetched>>

Extracting ==
    \/ ExtractDownload \/ ExtractOne \/ ExtractFails \/ Extracted
    \/ RemoveArchive \/ KeepArchive \/ ArchiveStays \/ RecordExtracted

Moving ==
    \/ MoveIntoPlace \/ ClearIncoming \/ Take \/ StartCopy \/ CopyOne \/ CopyFails \/ ClearCopy
    \/ Copied \/ ClearStaging \/ SetAside \/ NotSetAside \/ NothingToReplace \/ Put \/ RenameFails
    \/ ClearOutgoing \/ RecordMove \/ RecordInstall

Removing ==
    \/ DeleteDownload \/ DiscardArchive \/ DiscardStaging \/ RecordDiscard
    \/ DeleteStaging \/ RemoveStaging \/ RecordStaging
    \/ UninstallGame \/ RemoveInstall \/ RecordUninstall

Next ==
    \/ StartDownload \/ Downloaded \/ Unpacked
    \/ Extracting \/ Moving \/ Removing
    \/ Scan \/ Adopt \/ Crash

(* Every view that opens rescans the games folders. *)
Spec == Init /\ [][Next]_vars /\ WF_vars(Scan) /\ WF_vars(Adopt)
-----------------------------------------------------------------------------
(* resting_state: what the row of a game offers when nothing is going on.  *)
Resting ==
    IF record.install /\ HasContent(disk["install"]) THEN "installed"
    ELSE IF ExistingStaging THEN "extracted"
    ELSE IF ExistingArchive THEN "downloaded"
    ELSE "not installed"

(* An installed game is there, whole, in its folder or set aside, until it *)
(* is uninstalled or another stands in its place: whatever fails in moving *)
(* files into place, and wherever the app ends (move_into_place).          *)
OldKept ==
    \/ \A place \in {"install", "outgoing"} : ~Whole(disk[place])
    \/ \E place \in {"install", "outgoing"} : Whole(disk'[place])
    \/ pc = "removing install"
    \/ disk["install"] # None /\ ~Whole(disk["install"])

(* What is left on disk, whatever was interrupted and whatever a rescan    *)
(* recorded late, is offered to the user some time (rescan).               *)
Offered ==
    /\ archive # None ~> archive = None \/ Resting # "not installed"
    /\ disk["staging"] # None ~> disk["staging"] = None \/ Resting # "not installed"
    /\ HasContent(disk["install"]) ~> ~HasContent(disk["install"]) \/ Resting = "installed"

(* "The old install is replaced only once the new files are completely in  *)
(* place beside it" (move_into_place).                                     *)
ReplacedByWhole ==
    [][ Whole(disk["install"]) /\ pc = "placing" /\ disk'["install"] = None
        => Whole(disk["incoming"]) ]_vars
=============================================================================
