------------------------------- MODULE Unpacking -------------------------------
(***************************************************************************)
(* A download unpacked, from its file (extract_with, gameyfin-core/src/    *)
(* extract.rs) or as it arrives (unpack_stream; zip_stream.rs): what each  *)
(* format's reader does with each entry, the stops and the resume of a     *)
(* zip, the tools a rar and a disc image need, and the thread that reports *)
(* on a tool while it works.  An archive is at most Size entries; what an  *)
(* entry needs is its kind.  Where a stream's bytes come from and what     *)
(* becomes of a failed one is DownloadResume's; where a folder unpacked    *)
(* from a file goes is GameFiles'.  Not here: progress figures, names.     *)
(***************************************************************************)
EXTENDS Integers, Sequences, FiniteSets, SequencesExt

CONSTANTS
    Size,       \* entries of an archive
    Platforms,  \* "linux", "windows"
    Tools,      \* those of RarTools that may be installed
    MaxStops    \* bound: stops, cut connections, scripts that fail

RarTools == <<"unar", "7zz", "7z", "7za", "unrar", "bsdtar">>

UnpackingAssumption ==
    /\ Size \in Nat \ {0}
    /\ Platforms \subseteq {"linux", "windows"}
    /\ Tools \subseteq ToSet(RarTools)
    /\ MaxStops \in Nat

VARIABLES
    marks,      \* the signatures the download carries
    entries,    \* what it holds
    way,        \* "stream", "file"
    platform, installed, password,  \* what the PC has
    disk,       \* of each entry: "no", "torn", "whole"
    runnable,   \* the entries on disk that may be executed
    pc, at,     \* where the unpack is, and at which entry
    mark,       \* entries a resume leaves alone (ResumeMark)
    tools,      \* the tools not tried yet
    worker,     \* the thread of a tool: "none", "runs", "ok", "failed"
    sampler,    \* the thread that measures meanwhile: "none", "asleep", "sends"
    finished,   \* the flag that ends it
    attached, mounted,  \* the disc image: attached to the system; ours or the user's
    stops

download == <<marks, entries, platform, installed, password>>
onDisk == <<disk, runnable>>
threads == <<worker, sampler, finished>>
image == <<attached, mounted>>
vars == <<download, way, onDisk, pc, at, mark, tools, threads, image, stops>>

Entry == 1 .. Size

EntryOf(format) ==
    CASE format = "zip" -> {"file", "program", "folder", "outside", "locked", "odd"}
      [] format = "7z" -> {"file", "outside", "locked"}
      [] format = "tar" -> {"file", "program", "link", "hard-link", "outside"}
      [] format = "rar" -> {"file", "locked", "outside"}
      [] format = "disc" -> {"file", "huge"}
      [] OTHER -> {"file"}

(* The signatures a download may carry: a bridge disc has two. *)
Signatures == {{"pk"}, {"7z"}, {"rar"}, {"gzip"}, {"ustar"}, {"iso"}, {"udf"}, {"iso", "udf"}, {}}

(* The format, from the bytes: a signature at the start, then the tar's, then the disc's. *)
Detect(signs) ==
    CASE "pk" \in signs -> "zip"
      [] "7z" \in signs -> "7z"
      [] "rar" \in signs -> "rar"
      [] signs \cap {"gzip", "ustar"} # {} -> "tar"
      [] signs \cap {"iso", "udf"} # {} -> "disc"
      [] OTHER -> "none"

Format == Detect(marks)

(* What can be unpacked from the front: a tar, or a zip by its first entry. *)
Streamable(signs, first) ==
    \/ Detect(signs) = "tar"
    \/ Detect(signs) = "zip" /\ first \notin {"locked", "odd"}

TypeOK ==
    /\ marks \in Signatures /\ entries \in [Entry -> EntryOf(Format)]
    /\ way \in {"stream", "file"} /\ platform \in Platforms
    /\ installed \subseteq Tools /\ password \in BOOLEAN
    /\ disk \in [Entry -> {"no", "torn", "whole"}] /\ runnable \subseteq Entry
    /\ pc \in {"start", "entry", "body", "directory", "choosing", "working", "joining",
               "mounting", "writable", "stopped", "done", "failed"}
    /\ at \in 1 .. Size + 1 /\ mark \in 0 .. Size
    /\ ToSet(tools) \subseteq Tools
    /\ worker \in {"none", "runs", "ok", "failed"}
    /\ sampler \in {"none", "asleep", "sends"} /\ finished \in BOOLEAN
    /\ attached \in BOOLEAN /\ mounted \in {"no", "ours", "theirs"}
    /\ stops \in 0 .. MaxStops

Init ==
    /\ marks \in Signatures /\ entries \in [Entry -> EntryOf(Format)]
    /\ way \in IF Streamable(marks, entries[1]) THEN {"stream", "file"} ELSE {"file"}
    /\ platform \in Platforms
    /\ installed \in IF platform = "linux" /\ Format \in {"rar", "disc"} THEN SUBSET Tools ELSE {{}}
    /\ password \in BOOLEAN
    /\ disk = [e \in Entry |-> "no"] /\ runnable = {}
    /\ pc = "start" /\ at = 1 /\ mark = 0
    /\ tools = <<>>
    /\ worker = "none" /\ sampler = "none" /\ finished = FALSE
    /\ attached \in IF platform = "windows" /\ Format = "disc" THEN BOOLEAN ELSE {FALSE}
    /\ mounted = "no"
    /\ stops = 0

Stop == stops < MaxStops /\ stops' = stops + 1
-----------------------------------------------------------------------------
ByEntry == Format \in {"zip", "7z", "tar"}

(* A zip goes on where its mark is; anything else from its first entry. *)
Begin ==
    /\ pc = "start"
    /\ ByEntry
    /\ pc' = "entry" /\ at' = mark + 1
    /\ UNCHANGED <<download, way, onDisk, mark, tools, threads, image, stops>>

Unsupported ==
    /\ pc = "start"
    /\ Format = "none"
    /\ pc' = "failed"
    /\ UNCHANGED <<download, way, onDisk, at, mark, tools, threads, image, stops>>

Marked(n) == IF way = "stream" /\ Format = "zip" THEN n ELSE mark

AtEntry == pc = "entry" /\ at <= Size

NeedsPassword == entries[at] = "locked" /\ (way = "stream" \/ ~password)

(* Nothing of an unsafe entry is written, nor of what is no file, folder   *)
(* or symlink.                                                             *)
Passed == entries[at] \in {"outside", "hard-link"}

(* A file is created, over what an earlier attempt left of it; a folder or *)
(* a link needs no body.                                                   *)
OpenEntry ==
    /\ AtEntry
    /\ ~NeedsPassword /\ ~Passed /\ entries[at] \notin {"folder", "link"}
    /\ mark' = Marked(at - 1)
    /\ disk' = [disk EXCEPT ![at] = "torn"]
    /\ pc' = "body"
    /\ UNCHANGED <<download, way, runnable, at, tools, threads, image, stops>>

MakeEntry ==
    /\ AtEntry
    /\ entries[at] = "folder"
    /\ mark' = Marked(at - 1)
    /\ disk' = [disk EXCEPT ![at] = "whole"]
    /\ at' = at + 1
    /\ UNCHANGED <<download, way, runnable, pc, tools, threads, image, stops>>

(* A link is at most warned of when it cannot be had: one that points      *)
(* outside or at nothing is not made, its making may fail, and so may, on  *)
(* Windows, the copy made in its place, as of what the tar holds later.    *)
PlaceLink ==
    /\ AtEntry
    /\ entries[at] = "link"
    /\ \E left \in {"no", "whole"} \cup (IF platform = "windows" THEN {"torn"} ELSE {}) :
          disk' = [disk EXCEPT ![at] = left]
    /\ at' = at + 1
    /\ UNCHANGED <<download, way, runnable, pc, mark, tools, threads, image, stops>>

SkipEntry ==
    /\ AtEntry
    /\ Passed
    /\ mark' = Marked(at - 1)
    /\ at' = at + 1
    /\ UNCHANGED <<download, way, onDisk, pc, tools, threads, image, stops>>

(* What only the whole file gives: the download starts over as a file,     *)
(* with nothing of this attempt left.                                      *)
CannotStream ==
    /\ way = "stream" /\ Format = "zip"
    /\ \/ AtEntry /\ NeedsPassword
       \/ pc = "body" /\ entries[at] = "odd"
    /\ way' = "file"
    /\ pc' = "start" /\ at' = 1 /\ mark' = 0
    /\ disk' = [e \in Entry |-> "no"] /\ runnable' = {}
    /\ UNCHANGED <<download, tools, threads, image, stops>>

MissingPassword ==
    /\ way = "file"
    /\ AtEntry
    /\ NeedsPassword
    /\ pc' = "failed"
    /\ UNCHANGED <<download, way, onDisk, at, mark, tools, threads, image, stops>>

(* The body arrives or is read in full. *)
Finished ==
    /\ pc = "body"
    /\ disk' = [disk EXCEPT ![at] = "whole"]
    /\ at' = at + 1 /\ pc' = "entry"
    /\ UNCHANGED <<download, way, mark, tools, threads, image, stops>>

WithMode == IF entries[at] = "program" THEN runnable \cup {at} ELSE runnable

(* Its checksum and sizes are the entry's; its mode comes with the closing *)
(* directory.                                                              *)
FinishStreamed ==
    /\ Format = "zip" /\ way = "stream"
    /\ Finished
    /\ entries[at] # "odd"
    /\ UNCHANGED runnable

FinishZipped ==
    /\ Format = "zip" /\ way = "file"
    /\ Finished
    /\ runnable' = WithMode

(* No mode of a 7z is read. *)
FinishSevenZipped ==
    /\ Format = "7z"
    /\ Finished
    /\ UNCHANGED runnable

FinishTarred ==
    /\ Format = "tar"
    /\ Finished
    /\ runnable' = WithMode

(* The checksum or the sizes are not the entry's: of a stream, what was    *)
(* written stays torn; a file's reader fails as well.                      *)
Damaged ==
    /\ pc = "body"
    /\ Stop
    /\ pc' = IF way = "stream" THEN "stopped" ELSE "failed"
    /\ UNCHANGED <<download, way, onDisk, at, mark, tools, threads, image>>

(* The user's stop, or the connection's end, at any point of a stream. *)
Interrupted ==
    /\ way = "stream"
    /\ pc \in {"entry", "body", "directory"}
    /\ Stop
    /\ mark' = IF pc = "entry" THEN Marked(at - 1) ELSE mark
    /\ pc' = "stopped"
    /\ UNCHANGED <<download, way, onDisk, at, tools, threads, image>>

(* The next attempt: from the mark, or with nothing kept. *)
Resume ==
    /\ pc = "stopped"
    /\ pc' = "start"
    /\ IF Format = "zip"
       THEN UNCHANGED onDisk
       ELSE disk' = [e \in Entry |-> "no"] /\ runnable' = {}
    /\ UNCHANGED <<download, way, at, mark, tools, threads, image, stops>>

EntriesEnd ==
    /\ pc = "entry" /\ at = Size + 1
    /\ mark' = Marked(Size)
    /\ IF way = "stream" /\ Format = "zip"
       THEN pc' = "directory" /\ at' = 1
       ELSE pc' = "done" /\ at' = at
    /\ UNCHANGED <<download, way, onDisk, tools, threads, image, stops>>

(* The closing directory gives the mode of every file that is on disk. *)
RestoreMode ==
    /\ pc = "directory" /\ at <= Size
    /\ runnable' = IF entries[at] = "program" /\ disk[at] # "no"
                   THEN runnable \cup {at} ELSE runnable
    /\ at' = at + 1
    /\ UNCHANGED <<download, way, disk, pc, mark, tools, threads, image, stops>>

DirectoryEnds ==
    /\ pc = "directory" /\ at = Size + 1
    /\ pc' = "done"
    /\ UNCHANGED <<download, way, onDisk, at, mark, tools, threads, image, stops>>
-----------------------------------------------------------------------------
(* The tools for this archive, in order; a disc image has only the first. *)
ToolsFor ==
    IF Format = "rar" THEN SelectSeq(RarTools, LAMBDA t : t \in installed)
    ELSE LET found == SelectSeq(<<"7zz", "7z">>, LAMBDA t : t \in installed)
         IN SubSeq(found, 1, IF found = <<>> THEN 0 ELSE 1)

FindTools ==
    /\ pc = "start"
    /\ platform = "linux" /\ Format \in {"rar", "disc"}
    /\ tools' = ToolsFor
    /\ pc' = "choosing"
    /\ UNCHANGED <<download, way, onDisk, at, mark, threads, image, stops>>

NoToolLeft ==
    /\ pc = "choosing"
    /\ tools = <<>>
    /\ pc' = "failed"
    /\ UNCHANGED <<download, way, onDisk, at, mark, tools, threads, image, stops>>

(* The work and its sampler each on a thread (with_sampled_progress). *)
Spawned ==
    /\ worker' = "runs" /\ sampler' = "asleep" /\ finished' = FALSE
    /\ pc' = "working" /\ at' = 1

RunTool ==
    /\ pc = "choosing"
    /\ tools # <<>>
    /\ Spawned
    /\ UNCHANGED <<download, way, onDisk, mark, tools, image, stops>>

(* On Windows a rar needs no tool: UnRAR is part of the app. *)
RunUnRar ==
    /\ pc = "start"
    /\ platform = "windows" /\ Format = "rar"
    /\ Spawned
    /\ UNCHANGED <<download, way, onDisk, mark, tools, image, stops>>

(* A mistake to check against: ISO 9660 first. *)
DiscFormatIsoFirst(signs) == IF "iso" \in signs THEN "iso" ELSE "udf"

(* Discs with both formats hold long names and files over 4 GiB in UDF only. *)
DiscFormat(signs) == IF "udf" \in signs THEN "udf" ELSE "iso"

Readable(e) == ~(entries[e] = "huge" /\ DiscFormat(marks) = "iso" /\ "udf" \in marks)

(* Only UnRAR is given the password. *)
Locked(e) == entries[e] = "locked" /\ ~(platform = "windows" /\ password)

(* Each tool is told to overwrite what an earlier one left. *)
WorkWrites ==
    /\ worker = "runs" /\ at <= Size
    /\ ~Locked(at)
    /\ disk' = IF Passed THEN disk
               ELSE [disk EXCEPT ![at] = IF Readable(at) THEN "whole" ELSE "no"]
    /\ at' = at + 1
    /\ UNCHANGED <<download, way, runnable, pc, mark, tools, threads, image, stops>>

(* The work fails: a codec or a password is missing, a disk is full, ... *)
WorkFails ==
    /\ worker = "runs"
    /\ worker' = "failed"
    /\ disk' = IF at <= Size /\ ~Passed THEN [disk EXCEPT ![at] = "torn"] ELSE disk
    /\ UNCHANGED <<download, way, runnable, pc, at, mark, tools, sampler, finished, image, stops>>

(* bsdtar may say it succeeded over files the archive does not hold. *)
BsdtarLies ==
    /\ worker = "runs" /\ at <= Size
    /\ tools # <<>> /\ tools[1] = "bsdtar"
    /\ worker' = "ok"
    /\ disk' = [disk EXCEPT ![at] = "torn"]
    /\ UNCHANGED <<download, way, runnable, pc, at, mark, tools, sampler, finished, image, stops>>

(* Success: an exit code of 0, or 7-Zip's 1 for a warning. *)
WorkEnds ==
    /\ worker = "runs" /\ at = Size + 1
    /\ worker' = "ok"
    /\ UNCHANGED <<download, way, onDisk, pc, at, mark, tools, sampler, finished, image, stops>>

(* The sampler sleeps, measures and sends, until the flag is up. *)
SamplerSends ==
    /\ sampler = "asleep"
    /\ sampler' = "sends"
    /\ UNCHANGED <<download, way, onDisk, pc, at, mark, tools, worker, finished, image, stops>>

SamplerLoops ==
    /\ sampler = "sends"
    /\ sampler' = IF finished THEN "none" ELSE "asleep"
    /\ UNCHANGED <<download, way, onDisk, pc, at, mark, tools, worker, finished, image, stops>>

(* The work is over: the sampler is told, and waited for. *)
JoinSampler ==
    /\ pc = "working"
    /\ worker \in {"ok", "failed"}
    /\ finished' = TRUE
    /\ pc' = "joining"
    /\ UNCHANGED <<download, way, onDisk, at, mark, tools, worker, sampler, image, stops>>

(* A mounted image is dropped as soon as the copy is over, however it went; *)
(* one the user had mounted stays.  That it could not be is only logged.    *)
Dismounted ==
    /\ mounted' = "no"
    /\ \/ attached' = (attached /\ mounted # "ours") /\ UNCHANGED stops
       \/ mounted = "ours" /\ Stop /\ UNCHANGED attached

WorkSucceeded ==
    /\ pc = "joining" /\ sampler = "none"
    /\ worker = "ok"
    /\ worker' = "none" /\ UNCHANGED <<sampler, finished>>
    /\ pc' = IF Format = "disc" THEN "writable" ELSE "done"
    /\ Dismounted
    /\ UNCHANGED <<download, way, onDisk, at, mark, tools>>

(* The next tool of a rar, or the end. *)
WorkFailed ==
    /\ pc = "joining" /\ sampler = "none"
    /\ worker = "failed"
    /\ worker' = "none" /\ UNCHANGED <<sampler, finished>>
    /\ tools' = IF tools = <<>> THEN <<>> ELSE Tail(tools)
    /\ pc' = IF tools = <<>> THEN "failed" ELSE "choosing"
    /\ Dismounted
    /\ UNCHANGED <<download, way, onDisk, at, mark>>

(* Windows mounts the image, unless it is; without a drive letter it is    *)
(* dropped again.                                                          *)
Mounted(lettered) ==
    IF lettered
    THEN /\ mounted' = (IF attached THEN "theirs" ELSE "ours")
         /\ attached' = TRUE
         /\ Spawned
    ELSE /\ pc' = "failed"
         /\ UNCHANGED <<threads, at, image>>

(* The script that mounts, or that drops it again, may fail after mounting. *)
MountFails ==
    /\ Stop
    /\ pc' = "failed"
    /\ attached' \in {attached, TRUE}
    /\ UNCHANGED <<threads, at, mounted>>

Mount ==
    /\ pc = "start"
    /\ platform = "windows" /\ Format = "disc"
    /\ \/ \E lettered \in BOOLEAN : Mounted(lettered) /\ UNCHANGED stops
       \/ MountFails
    /\ UNCHANGED <<download, way, onDisk, mark, tools>>

(* What came off a disc is made writable, its mode otherwise kept. *)
MakeWritable ==
    /\ pc = "writable"
    /\ pc' = "done"
    /\ UNCHANGED <<download, way, onDisk, at, mark, tools, threads, image, stops>>

Next ==
    \/ Begin \/ Unsupported
    \/ OpenEntry \/ MakeEntry \/ PlaceLink \/ SkipEntry \/ CannotStream \/ MissingPassword
    \/ FinishStreamed \/ FinishZipped \/ FinishSevenZipped \/ FinishTarred
    \/ Damaged \/ Interrupted \/ Resume \/ EntriesEnd
    \/ RestoreMode \/ DirectoryEnds
    \/ FindTools \/ NoToolLeft \/ RunTool \/ RunUnRar
    \/ WorkWrites \/ WorkFails \/ BsdtarLies \/ WorkEnds
    \/ SamplerSends \/ SamplerLoops \/ JoinSampler \/ WorkSucceeded \/ WorkFailed
    \/ Mount \/ MakeWritable

(* Every thread runs on, and so does the reader of a body that arrives. *)
Reads ==
    \/ Begin \/ OpenEntry \/ MakeEntry \/ PlaceLink \/ SkipEntry \/ EntriesEnd
    \/ FinishStreamed \/ FinishZipped \/ FinishSevenZipped \/ FinishTarred
    \/ RestoreMode \/ DirectoryEnds \/ FindTools \/ RunTool \/ RunUnRar \/ NoToolLeft
    \/ Unsupported \/ CannotStream \/ MissingPassword
    \/ JoinSampler \/ WorkSucceeded \/ WorkFailed \/ Mount \/ MakeWritable

Fairness ==
    /\ WF_vars(Reads)
    /\ WF_vars(SamplerSends \/ SamplerLoops)
    /\ WF_vars(WorkWrites \/ WorkFails \/ BsdtarLies \/ WorkEnds)

Spec == Init /\ [][Next]_vars /\ Fairness
-----------------------------------------------------------------------------
(* What an unpack may end well without: what its reader passes over, and   *)
(* the links of a tar, which are made where that can be done.              *)
LeftOut == {"outside", "hard-link", "link"}

(* An unpack that ends well leaves every entry whole, whatever was stopped, *)
(* cut off or left by a tool that failed before: all but what is left out, *)
(* and but for bsdtar, which is not to be believed.                        *)
UnpackedIsWhole ==
    pc = "done" /\ (tools = <<>> \/ tools[1] # "bsdtar") =>
        \A e \in Entry : disk[e] = "whole" \/ entries[e] \in LeftOut

(* ... and a Linux game can be started: its programs are executable again, *)
(* those unpacked before a resume as well.                                 *)
ModesRestored ==
    pc = "done" => \A e \in Entry : entries[e] = "program" => e \in runnable

Begun == pc = "start"

Ended == pc \in {"done", "failed", "stopped"}

(* The disc image the user has attached stays so, and Windows is left with *)
(* the app's own only where a script of it fails: the app attaches what it *)
(* notes as its own, and when the copy is over, well or not, takes away    *)
(* that and nothing else.                                                  *)
ImageAsFound ==
    LET scriptFails == stops' = stops + 1 IN
    /\ attached /\ ~attached' => mounted = "ours"
    /\ ~attached /\ attached' => mounted' = "ours" \/ scriptFails
    /\ mounted = "ours" /\ mounted' # "ours" => ~attached' \/ scriptFails
=============================================================================
