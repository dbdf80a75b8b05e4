--------------------------- MODULE DownloadResume ---------------------------
(***************************************************************************)
(* One game's download: start_download, pause_download and cancel_download *)
(* (src-tauri/src/ipc/library.rs) over Downloader::download_or_unpack      *)
(* (gameyfin-core/src/download.rs) and its sidecar (checkpoint.rs).  A     *)
(* download goes to a file or, when the archive can be read front to back, *)
(* is unpacked as it arrives.  It is paused, cancelled, cut off or ended   *)
(* with the app at any point and continues from what it finds on disk,     *)
(* while the server may have another archive by then.                      *)
(*                                                                         *)
(* An archive is Size blocks: Size - 1 entries and what follows them (a    *)
(* zip's central directory).  A block of a file is the version it is of,   *)
(* and no two versions name an entry alike.  The length of the file tells  *)
(* how much of it arrived, so a sidecar is its ETag and its unpack point.  *)
(* The record's save is LibraryRecords'.  Not here: link providers, sign-  *)
(* in pages, free space, the REST fallback, torrents and extraction.       *)
(***************************************************************************)
EXTENDS Integers, Sequences

CONSTANTS
    Zip, Odd, Tar, Other,  \* archives on the server: zips; zips whose second
                           \* entry cannot be streamed; tars; kinds with no
                           \* streaming (7z, rar)
    Size,                  \* blocks of an archive
    Servers,               \* "ranges": an ETag, and If-Range honoured;
                           \* "plain": neither, the whole file every time;
                           \* "no-etag": ranges without an ETag
    None,                  \* nothing: no file, folder, sidecar, ETag
    LateStops,             \* whether a download stops once every byte is on disk
    MaxInterruptions,      \* bound: pauses, cut connections, crashes, refusals
    MaxChanges             \* bound: changes of the archive on the server

Version == Zip \cup Odd \cup Tar \cup Other

ASSUME DownloadResumeAssumption ==
    /\ Size \in Nat \ {0, 1}
    /\ Servers \subseteq {"ranges", "plain", "no-etag"}
    /\ None \notin Version \cup Nat \cup Seq(Version)
    /\ LateStops \in BOOLEAN
    /\ MaxInterruptions \in Nat /\ MaxChanges \in Nat

VARIABLES
    server, current, changes,     \* the server, its archive, changes so far
    file, dir, cp,                \* on disk: the file, the folder, the sidecar
    partial, archive, extracted,  \* the record: what is kept of a download
    pc,                           \* where the download is
    todo,                         \* what it removes before going on
    into,                         \* whether it may unpack (partial.unpack_into)
    body,                         \* the response it reads
    buffer,                       \* bytes not yet flushed to the file
    pumped, mark,                 \* blocks passed to the unpacker, and unpacked
    signal,                       \* its entry in the registry of cancels
    interruptions

onServer == <<server, current, changes>>
onDisk == <<file, dir, cp>>
record == <<partial, archive, extracted>>
inApp == <<pc, todo, into, body, buffer, pumped, mark, signal>>
vars == <<onServer, onDisk, record, inApp, interruptions>>

Entry == 1 .. Size - 1

Torn(version, entry) == <<version, entry, "torn">>

Whole(version, entry) == <<version, entry, "whole">>

Point(etag, unpack) == [etag |-> etag, unpack |-> unpack]

NoBody == [version |-> None, from |-> 0, etag |-> None]

Outcomes == {"paused", "cancelled", "failed", "got file", "unpacked"}

TypeOK ==
    /\ server \in Servers /\ current \in Version
    /\ changes \in 0 .. MaxChanges /\ interruptions \in 0 .. MaxInterruptions
    /\ file = None \/ file \in UNION {[1 .. n -> Version] : n \in 0 .. Size}
    /\ dir = None \/ dir \subseteq Version \X Entry \X {"torn", "whole"}
    /\ cp = None \/ cp \in [etag : Version \cup {None}, unpack : (0 .. Size) \cup {None}]
    /\ partial \in {"no", "file", "unpack"}
    /\ archive \in BOOLEAN /\ extracted \in BOOLEAN
    /\ pc \in {"idle", "claimed", "asking", "answered", "spawning", "creating", "copying",
               "ended", "streaming", "stopping", "as file", "scanning", "discarding"}
              \cup Outcomes
    /\ todo \in {<<>>, <<"dir">>, <<"cp">>, <<"cp", "dir">>, <<"file", "cp">>,
                 <<"file", "cp", "dir">>}
    /\ into \in BOOLEAN
    /\ body \in [version : Version \cup {None}, from : 0 .. Size, etag : Version \cup {None}]
    /\ buffer \in UNION {[1 .. n -> Version] : n \in 0 .. Size}
    /\ pumped \in 0 .. Size /\ mark \in 0 .. Size - 1
    /\ signal \in {"none", "run", "pause", "cancel"}

Idle ==
    /\ pc = "idle" /\ todo = <<>> /\ into = FALSE /\ body = NoBody
    /\ buffer = <<>> /\ pumped = 0 /\ mark = 0 /\ signal = "none"

Init ==
    /\ server \in Servers /\ current \in Version /\ changes = 0
    /\ file = None /\ dir = None /\ cp = None
    /\ partial = "no" /\ archive = FALSE /\ extracted = FALSE
    /\ Idle
    /\ interruptions = 0

(* The download is over: its claim drops and its cancel is forgotten. *)
Over ==
    /\ pc' = "idle" /\ todo' = <<>> /\ into' = FALSE /\ body' = NoBody
    /\ buffer' = <<>> /\ pumped' = 0 /\ mark' = 0 /\ signal' = "none"

Interrupt ==
    /\ interruptions < MaxInterruptions
    /\ interruptions' = interruptions + 1

At(step) == pc = step /\ todo = <<>>
-----------------------------------------------------------------------------
(* Another archive takes the place of the game's on the server. *)
ChangeArchive ==
    /\ changes < MaxChanges
    /\ current' \in Version \ {current}
    /\ changes' = changes + 1
    /\ UNCHANGED <<server, onDisk, record, inApp, interruptions>>

(* Where a body for this request starts: a range is answered with the rest *)
(* of the file when the ETag sent along, if any, is still right.           *)
Answer(at, etag) ==
    IF server # "plain" /\ at > 0 /\ etag \in {None, current} THEN at ELSE 0

ETag == IF server = "ranges" THEN current ELSE None
-----------------------------------------------------------------------------
FileLength == IF file = None THEN 0 ELSE Len(file)

(* leftover: the entry a zip was unpacked to, if its ETag and its folder   *)
(* are there, ...                                                          *)
UnpackPoint ==
    IF cp # None /\ into /\ dir # None /\ cp.etag # None THEN cp.unpack ELSE None

(* ... else the length of the file its sidecar is beside.                  *)
ResumeFrom ==
    IF UnpackPoint # None THEN UnpackPoint
    ELSE IF cp # None /\ cp.unpack = None THEN FileLength
    ELSE 0

(* The Download, Resume or Retry button. *)
Start ==
    /\ pc = "idle"
    /\ ~archive /\ ~extracted
    /\ pc' = "claimed"
    /\ into' \in IF partial = "no" THEN BOOLEAN ELSE {partial = "unpack"}
    /\ UNCHANGED <<onServer, onDisk, record, todo, body, buffer, pumped, mark, signal,
                   interruptions>>

(* The server does not answer what start_download asks before it records   *)
(* the download.                                                           *)
Refuse ==
    /\ At("claimed")
    /\ Interrupt
    /\ Over
    /\ UNCHANGED <<onServer, onDisk, record>>

Kept == IF into THEN "unpack" ELSE "file"

(* Recorded before any byte moves, and from here on it can be stopped. *)
Record ==
    /\ At("claimed")
    /\ partial' = Kept
    /\ signal' = "run"
    /\ pc' = "asking"
    /\ UNCHANGED <<onServer, onDisk, archive, extracted, todo, into, body, buffer, pumped, mark,
                   interruptions>>
-----------------------------------------------------------------------------
(* The request, and the headers of its answer; a range that starts at the  *)
(* end of the file is refused (416).                                       *)
Ask ==
    /\ At("asking")
    /\ LET etag == IF cp = None THEN None ELSE cp.etag
           from == Answer(ResumeFrom, etag) IN
       IF from = Size
       THEN pc' = "failed" /\ UNCHANGED body
       ELSE pc' = "answered" /\ body' = [version |-> current, from |-> from, etag |-> ETag]
    /\ UNCHANGED <<onServer, onDisk, record, todo, into, buffer, pumped, mark, signal,
                   interruptions>>

CutOffBefore ==
    /\ At("asking") \/ At("answered")
    /\ Interrupt
    /\ pc' = "failed"
    /\ UNCHANGED <<onServer, onDisk, record, todo, into, body, buffer, pumped, mark, signal>>

(* A mistake to check against: unpacking over what an earlier attempt left *)
(* of another archive.                                                     *)
UnpackOver ==
    /\ At("answered")
    /\ body.from = 0 /\ into /\ body.version \notin Other
    /\ pc' = "spawning"
    /\ todo' = <<"file", "cp">>
    /\ UNCHANGED <<onServer, onDisk, record, into, body, buffer, pumped, mark, signal,
                   interruptions>>

(* A whole body that starts like an archive that can be read front to back *)
(* is unpacked, in place of whatever was there.                            *)
UnpackFresh ==
    /\ At("answered")
    /\ body.from = 0 /\ into /\ body.version \notin Other
    /\ pc' = "spawning"
    /\ todo' = <<"file", "cp", "dir">>
    /\ UNCHANGED <<onServer, onDisk, record, into, body, buffer, pumped, mark, signal,
                   interruptions>>

(* Only a zip with an ETag can be continued. *)
MayResume == body.etag # None /\ body.version \notin Tar

(* The unpacker starts, and the first sidecar is saved. *)
Spawn ==
    /\ At("spawning")
    /\ pc' = "streaming"
    /\ dir' = IF dir = None THEN {} ELSE dir
    /\ cp' = IF MayResume THEN Point(body.etag, mark) ELSE cp
    /\ UNCHANGED <<onServer, file, record, todo, into, body, buffer, pumped, mark, signal,
                   interruptions>>

(* A zip goes on with the entry it stopped in. *)
UnpackOn ==
    /\ At("answered")
    /\ body.from > 0 /\ UnpackPoint # None
    /\ pc' = "spawning"
    /\ pumped' = body.from /\ mark' = body.from
    /\ UNCHANGED <<onServer, onDisk, record, todo, into, body, buffer, signal, interruptions>>

(* A file is continued at its end or written anew; its sidecar is not      *)
(* touched yet.                                                            *)
OpenFile ==
    /\ At("answered")
    /\ IF body.from > 0 THEN UnpackPoint = None ELSE ~into \/ body.version \in Other
    /\ pc' = "creating"
    /\ file' = IF body.from > 0 THEN SubSeq(file, 1, body.from) ELSE <<>>
    /\ UNCHANGED <<onServer, dir, cp, record, todo, into, body, buffer, pumped, mark, signal,
                   interruptions>>

SaveFirst ==
    /\ At("creating")
    /\ pc' = "copying"
    /\ cp' = Point(body.etag, None)
    /\ UNCHANGED <<onServer, file, dir, record, todo, into, body, buffer, pumped, mark, signal,
                   interruptions>>
-----------------------------------------------------------------------------
Written == FileLength + Len(buffer)

Chunk ==
    /\ At("copying")
    /\ signal = "run"
    /\ Written < Size
    /\ buffer' = Append(buffer, body.version)
    /\ UNCHANGED <<onServer, onDisk, record, pc, todo, into, body, pumped, mark, signal,
                   interruptions>>

Flushed ==
    /\ file' = file \o buffer
    /\ buffer' = <<>>

(* The buffer is full, or the two seconds are over; the sidecar saved then *)
(* says nothing new.                                                       *)
Flush ==
    /\ At("copying")
    /\ buffer # <<>>
    /\ Flushed
    /\ UNCHANGED <<onServer, dir, cp, record, pc, todo, into, body, pumped, mark, signal,
                   interruptions>>

Stopped == IF signal = "cancel" THEN "cancelled" ELSE "paused"

(* A stop is looked for before the next chunk, and what was written is     *)
(* flushed first (persist).                                                *)
StopCopy ==
    /\ At("copying")
    /\ signal # "run"
    /\ Flushed
    /\ pc' = Stopped
    /\ UNCHANGED <<onServer, dir, cp, record, todo, into, body, pumped, mark, signal,
                   interruptions>>

CutOffCopy ==
    /\ At("copying")
    /\ Written < Size
    /\ Interrupt
    /\ Flushed
    /\ pc' = "failed"
    /\ UNCHANGED <<onServer, dir, cp, record, todo, into, body, pumped, mark, signal>>

EndCopy ==
    /\ At("copying")
    /\ signal = "run"
    /\ Written = Size
    /\ Flushed
    /\ pc' = "ended"
    /\ UNCHANGED <<onServer, dir, cp, record, todo, into, body, pumped, mark, signal,
                   interruptions>>

FinishCopy ==
    /\ At("ended")
    /\ cp' = None
    /\ pc' = "got file"
    /\ UNCHANGED <<onServer, file, dir, record, todo, into, body, buffer, pumped, mark, signal,
                   interruptions>>
-----------------------------------------------------------------------------
(* The transfer passes blocks on; the unpacker follows on its own thread.  *)
Pump ==
    /\ At("streaming")
    /\ signal = "run"
    /\ pumped < Size
    /\ pumped' = pumped + 1
    /\ UNCHANGED <<onServer, onDisk, record, pc, todo, into, body, buffer, mark, signal,
                   interruptions>>

Unpacking == (At("streaming") \/ At("stopping")) /\ mark < pumped /\ mark + 1 \in Entry

Refused == body.version \in Odd /\ mark = 1

BeginEntry ==
    /\ Unpacking
    /\ signal = "run" /\ ~Refused
    /\ Torn(body.version, mark + 1) \notin dir
    /\ dir' = (dir \ {Whole(body.version, mark + 1)}) \cup {Torn(body.version, mark + 1)}
    /\ UNCHANGED <<onServer, file, cp, record, inApp, interruptions>>

(* Once an entry is on disk the mark moves past it (a tar's is not used). *)
FinishEntry ==
    /\ Unpacking
    /\ Torn(body.version, mark + 1) \in dir /\ ~Refused
    /\ dir' = (dir \ {Torn(body.version, mark + 1)}) \cup {Whole(body.version, mark + 1)}
    /\ mark' = mark + 1
    /\ UNCHANGED <<onServer, file, cp, record, pc, todo, into, body, buffer, pumped, signal,
                   interruptions>>

(* A mistake to check against: recording what arrived, not what is on disk. *)
SaveArrived ==
    /\ At("streaming")
    /\ MayResume
    /\ cp' = Point(body.etag, pumped)
    /\ UNCHANGED <<onServer, file, dir, record, inApp, interruptions>>

SaveMark ==
    /\ At("streaming")
    /\ MayResume
    /\ cp' = Point(body.etag, mark)
    /\ UNCHANGED <<onServer, file, dir, record, inApp, interruptions>>

(* An entry only the whole file gives: it is fetched again as a file. *)
CannotStream ==
    /\ At("streaming")
    /\ signal = "run"
    /\ mark < pumped /\ Refused
    /\ pc' = "as file"
    /\ todo' = <<"cp", "dir">>
    /\ UNCHANGED <<onServer, onDisk, record, into, body, buffer, pumped, mark, signal,
                   interruptions>>

(* A mistake to check against: trying to unpack it again. *)
AsArchive ==
    /\ At("as file")
    /\ pc' = "asking"
    /\ body' = NoBody /\ pumped' = 0 /\ mark' = 0
    /\ UNCHANGED <<onServer, onDisk, record, todo, into, buffer, signal, interruptions>>

AsFile ==
    /\ At("as file")
    /\ pc' = "asking"
    /\ into' = FALSE
    /\ body' = NoBody /\ pumped' = 0 /\ mark' = 0
    /\ UNCHANGED <<onServer, onDisk, record, todo, buffer, signal, interruptions>>

StopStream ==
    /\ At("streaming")
    /\ signal # "run"
    /\ pc' = "stopping"
    /\ UNCHANGED <<onServer, onDisk, record, todo, into, body, buffer, pumped, mark, signal,
                   interruptions>>

CutOffStream ==
    /\ At("streaming")
    /\ pumped < Size
    /\ Interrupt
    /\ pc' = "stopping"
    /\ UNCHANGED <<onServer, onDisk, record, todo, into, body, buffer, pumped, mark, signal>>

(* The unpacker has read what it was passed, or has seen the stop.  What   *)
(* can be continued stays and is recorded, and what was paused stays.      *)
Settle ==
    /\ At("stopping")
    /\ signal # "run" \/ mark = pumped \/ Refused
    /\ pc' = IF signal = "run" THEN "failed" ELSE Stopped
    /\ IF signal = "pause" \/ (signal = "run" /\ MayResume)
       THEN /\ cp' = IF MayResume THEN Point(body.etag, mark) ELSE cp
            /\ UNCHANGED todo
       ELSE /\ todo' = <<"cp", "dir">>
            /\ UNCHANGED cp
    /\ UNCHANGED <<onServer, file, dir, record, into, body, buffer, pumped, mark, signal,
                   interruptions>>

FinishUnpack ==
    /\ At("streaming")
    /\ pumped = Size /\ mark = Size - 1
    /\ cp' = None
    /\ pc' = "unpacked"
    /\ UNCHANGED <<onServer, file, dir, record, todo, into, body, buffer, pumped, mark, signal,
                   interruptions>>

(* What is to be removed goes one after the other. *)
Remove ==
    /\ todo # <<>>
    /\ file' = IF Head(todo) = "file" THEN None ELSE file
    /\ cp' = IF Head(todo) = "cp" THEN None ELSE cp
    /\ dir' = IF Head(todo) = "dir" THEN None ELSE dir
    /\ todo' = Tail(todo)
    /\ UNCHANGED <<onServer, record, pc, into, body, buffer, pumped, mark, signal, interruptions>>
-----------------------------------------------------------------------------
RecordFile ==
    /\ At("got file")
    /\ archive' = TRUE
    /\ partial' = "no"
    /\ Over
    /\ UNCHANGED <<onServer, onDisk, extracted, interruptions>>

(* The setup programs in the folder are looked for between its two saves. *)
ForgetUnpacked ==
    /\ At("unpacked")
    /\ partial' = "no"
    /\ pc' = "scanning"
    /\ signal' = "none"
    /\ UNCHANGED <<onServer, onDisk, archive, extracted, todo, into, body, buffer, pumped, mark,
                   interruptions>>

RecordExtracted ==
    /\ At("scanning")
    /\ extracted' = TRUE
    /\ Over
    /\ UNCHANGED <<onServer, onDisk, partial, archive, interruptions>>

LeftAnything == file # None \/ (into /\ dir # None)

(* A failure with nothing on disk has nothing to resume. *)
RecordStopped ==
    /\ At("paused") \/ At("failed")
    /\ partial' = IF pc = "paused" \/ LeftAnything THEN Kept ELSE "no"
    /\ Over
    /\ UNCHANGED <<onServer, onDisk, archive, extracted, interruptions>>

(* discard_partial: the folder goes last, when no sidecar points into it. *)
Discarded == IF into THEN <<"file", "cp", "dir">> ELSE <<"file", "cp">>

Discard ==
    /\ At("cancelled")
    /\ pc' = "discarding"
    /\ todo' = Discarded
    /\ UNCHANGED <<onServer, onDisk, record, into, body, buffer, pumped, mark, signal,
                   interruptions>>

ForgetPartial ==
    /\ At("discarding")
    /\ partial' = "no"
    /\ Over
    /\ UNCHANGED <<onServer, onDisk, archive, extracted, interruptions>>
-----------------------------------------------------------------------------
(* Every byte is on disk, beside a sidecar that says it is not, or without *)
(* a word of it in the record.                                             *)
Late ==
    \/ file # None /\ cp # None /\ cp.unpack = None /\ Len(file) = Size
    \/ pc = "scanning"

(* pause_download and cancel_download while the download is registered; a  *)
(* pause does not soften a cancel.                                         *)
Pause ==
    /\ signal = "run"
    /\ LateStops \/ ~(pc = "copying" /\ Written = Size)
    /\ Interrupt
    /\ signal' = "pause"
    /\ UNCHANGED <<onServer, onDisk, record, pc, todo, into, body, buffer, pumped, mark>>

Cancel ==
    /\ signal \in {"run", "pause"}
    /\ Interrupt
    /\ signal' = "cancel"
    /\ UNCHANGED <<onServer, onDisk, record, pc, todo, into, body, buffer, pumped, mark>>

(* cancel_download with nothing running. *)
CancelStopped ==
    /\ pc = "idle"
    /\ partial # "no"
    /\ pc' = "discarding"
    /\ into' = (partial = "unpack")
    /\ todo' = IF partial = "unpack" THEN <<"file", "cp", "dir">> ELSE <<"file", "cp">>
    /\ UNCHANGED <<onServer, onDisk, record, body, buffer, pumped, mark, signal, interruptions>>

(* delete_download: the game's download folder and all the record says of  *)
(* it, when none of it fails.                                              *)
Delete ==
    /\ pc = "idle"
    /\ archive \/ extracted \/ partial # "no"
    /\ file' = None /\ dir' = None /\ cp' = None
    /\ archive' = FALSE /\ extracted' = FALSE /\ partial' = "no"
    /\ UNCHANGED <<onServer, inApp, interruptions>>

(* The app ends.  A sidecar is written in place, so one being saved is     *)
(* lost, and a folder being removed is partly there.                       *)
Crash ==
    /\ pc # "idle"
    /\ LateStops \/ ~Late
    /\ Interrupt
    /\ cp' \in IF pc \in {"spawning", "creating", "copying", "streaming", "stopping"}
               THEN {cp, None} ELSE {cp}
    /\ dir' \in IF todo # <<>> /\ Head(todo) = "dir" /\ dir # None THEN SUBSET dir ELSE {dir}
    /\ Over
    /\ UNCHANGED <<onServer, file, record>>
-----------------------------------------------------------------------------
Work ==
    \/ Record \/ Ask \/ UnpackFresh \/ UnpackOn \/ Spawn \/ OpenFile \/ SaveFirst
    \/ Chunk \/ Flush \/ StopCopy \/ EndCopy \/ FinishCopy
    \/ Pump \/ BeginEntry \/ FinishEntry \/ SaveMark \/ CannotStream \/ AsFile
    \/ StopStream \/ Settle \/ FinishUnpack \/ Remove
    \/ RecordFile \/ ForgetUnpacked \/ RecordExtracted \/ RecordStopped \/ Discard \/ ForgetPartial

Next ==
    \/ Start \/ Work
    \/ ChangeArchive
    \/ Refuse \/ CutOffBefore \/ CutOffCopy \/ CutOffStream
    \/ Pause \/ Cancel \/ CancelStopped \/ Delete \/ Crash

Spec == Init /\ [][Next]_vars

(* The download goes on by itself; a stopped one is resumed by the user,   *)
(* again and again if need be.                                             *)
FairSpec == Spec /\ WF_vars(Work) /\ WF_vars(Start)
-----------------------------------------------------------------------------
(* What the sidecar says a zip was unpacked to is in the folder, whole and *)
(* of the archive its ETag names, at any time the app may end: zip_stream  *)
(* moves the mark past entries that are on disk, and no folder is removed  *)
(* before the sidecar that points into it.                                 *)
MarkHolds ==
    cp # None /\ cp.unpack # None /\ dir # None =>
        \A e \in 1 .. cp.unpack : Whole(cp.etag, e) \in dir

(* A download that is recorded as done is all of one archive, whatever     *)
(* stopped it and however the archive on the server changed meanwhile.     *)
(* Ranges without an ETag are left out: there a file is continued          *)
(* unchecked.                                                              *)
DoneIsOneArchive ==
    server # "no-etag" =>
        /\ archive => \E v \in Version : file = [i \in 1 .. Size |-> v]
        /\ extracted => \E v \in Version : dir = {Whole(v, e) : e \in Entry}

(* While no download runs, what is on disk is accounted for by the record, *)
(* so that cancelling a stopped download or deleting one finds all of it:  *)
(* all but a sidecar, which a cancel that the app's end cut short leaves.  *)
(* With LateStops an unpacked game may be left that no record names.       *)
NothingLeftBehind ==
    pc = "idle" =>
        /\ file # None => partial # "no" \/ archive \/ extracted
        /\ dir # None => partial = "unpack" \/ archive \/ extracted

(* A stopped download that is resumed often enough is done in the end: no  *)
(* pause, cut connection, crash or change of the archive leaves it in a    *)
(* state it cannot continue from.                                          *)
Finishes == partial # "no" ~> partial = "no"

(* A download that is resumed whenever it stopped ends, and whatever ended *)
(* it before then, the record names what is left on disk (start_download,  *)
(* ipc/library.rs).                                                        *)
EndsClean == Finishes /\ []NothingLeftBehind
=============================================================================
