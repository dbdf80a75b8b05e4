----------------------- MODULE DownloadResume_proofs ------------------------
(***************************************************************************)
(* What is proved of DownloadResume: the sidecar never promises an entry   *)
(* that is not in the folder, and, where ranges come with an ETag, what is *)
(* recorded as done is all of one archive.                                 *)
(***************************************************************************)
EXTENDS DownloadResume, TLAPS

Pointing == cp # None /\ cp.unpack # None

(* Removals are pending in the orders the code has, and the folder is the  *)
(* last of them: by then there is no sidecar.                              *)
FolderLast ==
    /\ todo \in {<<>>, <<"dir">>, <<"cp">>, <<"cp", "dir">>, <<"file", "cp">>,
                 <<"file", "cp", "dir">>}
    /\ todo = <<"dir">> => cp = None

Points ==
    /\ mark \in Nat
    /\ pc \in {"idle", "claimed", "asking", "answered"} => mark = 0
    /\ Pointing => cp.unpack \in Nat

(* A body vouches for the archive it is of, and one that continues an      *)
(* unpacked zip is of the archive the sidecar names.                       *)
Vouches ==
    /\ pc \in {"answered", "spawning", "streaming", "stopping"} =>
           body.etag \in {None, body.version}
    /\ pc = "answered" /\ body.from > 0 /\ UnpackPoint # None =>
           cp.etag = body.version /\ cp.unpack = body.from

(* A zip is unpacked from nothing, or from the entry its sidecar points to. *)
Spawning ==
    pc = "spawning" =>
        /\ todo # <<>> => mark = 0
        /\ todo = <<>> =>
               \/ mark = 0 /\ cp = None
               \/ Pointing /\ dir # None /\ cp.etag = body.version /\ cp.unpack = mark

(* What was unpacked is whole, no sidecar is ahead of it, and nothing is   *)
(* being removed.                                                          *)
Streaming ==
    pc \in {"streaming", "stopping"} =>
        /\ todo = <<>>
        /\ \A e \in 1 .. mark : Whole(body.version, e) \in dir
        /\ Pointing => cp.etag = body.version /\ cp.unpack <= mark

MarkInv == FolderLast /\ Points /\ Vouches /\ Spawning /\ Streaming /\ MarkHolds
-----------------------------------------------------------------------------
(* What is removed first, and what is left to remove then, of up to three  *)
(* pending removals (discard_partial, unpack_into).                        *)
LEMMA Removals ==
    /\ \A a : <<a>> # <<>> /\ Head(<<a>>) = a /\ Tail(<<a>>) = <<>>
    /\ \A a, b : /\ <<a, b>> # <<>> /\ Head(<<a, b>>) = a /\ Tail(<<a, b>>) = <<b>>
                 /\ \A x : <<a, b>> # <<x>>
    /\ \A a, b, c : /\ <<a, b, c>> # <<>> /\ Head(<<a, b, c>>) = a
                    /\ Tail(<<a, b, c>>) = <<b, c>>
  OBVIOUS

(* MarkInv holds from the start and no step of the download breaks it.     *)
LEMMA MarkInvariant == Spec => []MarkInv
<1> USE DEF MarkInv, Pointing, At
<1>1. Init => MarkInv
  BY DEF Init, Idle, FolderLast, Points, Vouches, Spawning, Streaming, MarkHolds, Pointing
<1>2. MarkInv /\ [Next]_vars => MarkInv'
  <2> SUFFICES ASSUME MarkInv, [Next]_vars PROVE MarkInv'
    OBVIOUS
  <2> USE DEF FolderLast, Points, Vouches, Spawning, Streaming, MarkHolds, UnpackPoint
  <2>1. CASE Start
    BY <2>1 DEF Start, onServer, onDisk, record, inApp
  <2>2. CASE Refuse
    BY <2>2 DEF Refuse, Over, Interrupt, onServer, onDisk, record, inApp
  <2>3. CASE Record
    BY <2>3 DEF Record, onServer, onDisk, record, inApp
  <2>4. CASE Ask
    BY <2>4 DEF Ask, ResumeFrom, Answer, ETag, onServer, onDisk, record, inApp
  <2>5. CASE CutOffBefore
    BY <2>5 DEF CutOffBefore, Interrupt, onServer, onDisk, record, inApp
  <2>6. CASE UnpackFresh
    BY <2>6 DEF UnpackFresh, onServer, onDisk, record, inApp
  <2>7. CASE UnpackOn
    BY <2>7 DEF UnpackOn, onServer, onDisk, record, inApp
  <2>8. CASE Spawn
    BY <2>8 DEF Spawn, MayResume, Point, onServer, onDisk, record, inApp
  <2>9. CASE OpenFile
    BY <2>9 DEF OpenFile, onServer, onDisk, record, inApp
  <2>10. CASE SaveFirst
    BY <2>10 DEF SaveFirst, Point, onServer, onDisk, record, inApp
  <2>11. CASE Chunk
    BY <2>11 DEF Chunk, onServer, onDisk, record, inApp
  <2>12. CASE Flush
    BY <2>12 DEF Flush, Flushed, onServer, onDisk, record, inApp
  <2>13. CASE StopCopy
    BY <2>13 DEF StopCopy, Stopped, Flushed, onServer, onDisk, record, inApp
  <2>14. CASE EndCopy
    BY <2>14 DEF EndCopy, Flushed, onServer, onDisk, record, inApp
  <2>15. CASE FinishCopy
    BY <2>15 DEF FinishCopy, onServer, onDisk, record, inApp
  <2>16. CASE CutOffCopy
    BY <2>16 DEF CutOffCopy, Flushed, Interrupt, onServer, onDisk, record, inApp
  <2>17. CASE Pump
    BY <2>17 DEF Pump, onServer, onDisk, record, inApp
  <2>18. CASE BeginEntry
    BY <2>18 DEF BeginEntry, Unpacking, Torn, Whole, onServer, onDisk, record, inApp
  <2>19. CASE FinishEntry
    BY <2>19 DEF FinishEntry, Unpacking, Torn, Whole, onServer, onDisk, record, inApp
  <2>20. CASE SaveMark
    BY <2>20 DEF SaveMark, MayResume, Point, onServer, onDisk, record, inApp
  <2>21. CASE CannotStream
    BY <2>21 DEF CannotStream, onServer, onDisk, record, inApp
  <2>22. CASE AsFile
    BY <2>22 DEF AsFile, NoBody, onServer, onDisk, record, inApp
  <2>23. CASE StopStream
    BY <2>23 DEF StopStream, onServer, onDisk, record, inApp
  <2>24. CASE CutOffStream
    BY <2>24 DEF CutOffStream, Interrupt, onServer, onDisk, record, inApp
  <2>25. CASE Settle
    <3> USE <2>25 DEF Settle, onServer, onDisk, record, inApp
    <3>1. pc' \in {"failed", "paused", "cancelled"} /\ todo = <<>>
      BY DEF Stopped
    <3>2. cp' = cp \/ cp' = [etag |-> body.version, unpack |-> mark]
      BY DEF MayResume, Point
    <3>3. dir' = dir /\ mark' = mark /\ \A e \in 1 .. mark : Whole(body.version, e) \in dir
      OBVIOUS
    <3>4. FolderLast' /\ Spawning' /\ Streaming' /\ Vouches'
      BY <3>1, Removals
    <3>5. Points'
      BY <3>1, <3>2, <3>3
    <3>6. MarkHolds'
      BY <3>2, <3>3 DEF Whole
    <3> QED
      BY <3>4, <3>5, <3>6
  <2>26. CASE FinishUnpack
    BY <2>26 DEF FinishUnpack, onServer, onDisk, record, inApp
  <2>27. CASE Remove
    <3> USE <2>27 DEF Remove, onServer, onDisk, record, inApp
    <3>1. pc' = pc /\ body' = body /\ mark' = mark /\ into' = into /\ todo # <<>>
      OBVIOUS
    <3>2. \/ cp' = cp /\ dir' = dir
          \/ cp' = None /\ dir' = dir
          \/ cp' = cp /\ dir' = None
      OBVIOUS
    <3>3. (todo' = <<>> => cp' = None) /\ FolderLast'
      <4>1. CASE todo = <<"dir">>
        BY <4>1, Removals
      <4>2. CASE todo = <<"cp">>
        BY <4>2, Removals
      <4>3. CASE todo = <<"cp", "dir">>
        BY <4>3, Removals
      <4>4. CASE todo = <<"file", "cp">>
        BY <4>4, Removals
      <4>5. CASE todo = <<"file", "cp", "dir">>
        BY <4>5, Removals
      <4> QED
        BY <3>1, <4>1, <4>2, <4>3, <4>4, <4>5
    <3>4. Points' /\ Vouches' /\ Streaming' /\ MarkHolds'
      BY <3>1, <3>2
    <3>5. Spawning'
      BY <3>1, <3>3
    <3> QED
      BY <3>3, <3>4, <3>5
  <2>28. CASE RecordFile
    BY <2>28 DEF RecordFile, Over, onServer, onDisk, record, inApp
  <2>29. CASE ForgetUnpacked
    BY <2>29 DEF ForgetUnpacked, onServer, onDisk, record, inApp
  <2>30. CASE RecordExtracted
    BY <2>30 DEF RecordExtracted, Over, onServer, onDisk, record, inApp
  <2>31. CASE RecordStopped
    BY <2>31 DEF RecordStopped, Over, onServer, onDisk, record, inApp
  <2>32. CASE Discard
    BY <2>32 DEF Discard, Discarded, onServer, onDisk, record, inApp
  <2>33. CASE ForgetPartial
    BY <2>33 DEF ForgetPartial, Over, onServer, onDisk, record, inApp
  <2>34. CASE ChangeArchive
    BY <2>34 DEF ChangeArchive, onServer, onDisk, record, inApp
  <2>35. CASE Pause
    BY <2>35 DEF Pause, Interrupt, onServer, onDisk, record, inApp
  <2>36. CASE Cancel
    BY <2>36 DEF Cancel, Interrupt, onServer, onDisk, record, inApp
  <2>37. CASE CancelStopped
    BY <2>37 DEF CancelStopped, onServer, onDisk, record, inApp
  <2>38. CASE Delete
    BY <2>38 DEF Delete, onServer, onDisk, record, inApp
  <2>39. CASE Crash
    BY <2>39 DEF Crash, Interrupt, Over, onServer, onDisk, record, inApp
  <2>40. CASE UNCHANGED vars
    BY <2>40 DEF vars, onServer, onDisk, record, inApp
  <2> QED
    BY <2>1, <2>2, <2>3, <2>4, <2>5, <2>6, <2>7, <2>8, <2>9, <2>10, <2>11, <2>12, <2>13, <2>14,
       <2>15, <2>16, <2>17, <2>18, <2>19, <2>20, <2>21, <2>22, <2>23, <2>24, <2>25, <2>26, <2>27,
       <2>28, <2>29, <2>30, <2>31, <2>32, <2>33, <2>34, <2>35, <2>36, <2>37, <2>38, <2>39, <2>40
       DEF Next, Work
<1> QED
  BY <1>1, <1>2, PTL DEF Spec

(* The sidecar of a zip that is unpacked as it arrives never names an      *)
(* entry that is not in the folder, whole and of the archive its ETag      *)
(* names, whatever paused, cut or ended the download: for every number of  *)
(* entries, interruptions and changes of the archive (download.rs and      *)
(* zip_stream.rs).                                                         *)
THEOREM MarkAlwaysHolds == Spec => []MarkHolds
<1>1. MarkInv => MarkHolds
  BY DEF MarkInv
<1> QED
  BY <1>1, MarkInvariant, PTL
-----------------------------------------------------------------------------
(* Every block is of this version. *)
All(blocks, version) ==
    /\ blocks \in Seq(Version)
    /\ \A i \in 1 .. Len(blocks) : blocks[i] = version

OnlyOf(version) ==
    \A x \in dir : \E e \in Entry : x \in {Whole(version, e), Torn(version, e)}

NoneTorn(version, last) == \A e \in 1 .. last : Torn(version, e) \notin dir

WholeFile == \E v \in Version : file = [i \in 1 .. Size |-> v]

WholeFolder == \E v \in Version : dir = {Whole(v, e) : e \in Entry}

(* A body's ETag, if it has one, is its archive's, and nothing is removed  *)
(* while the body is read; a folder is, before it is unpacked to.          *)
Bodies ==
    /\ current \in Version
    /\ pc \in {"answered", "spawning", "creating", "copying", "ended", "got file", "streaming",
              "stopping"} => body.version \in Version
    /\ pc \in {"answered", "spawning", "creating", "copying", "streaming", "stopping"} =>
           body.etag = IF server = "ranges" THEN body.version ELSE None
    /\ pc \in {"answered", "creating", "copying", "ended", "got file", "unpacked", "scanning"} =>
           todo = <<>>
    /\ pc = "spawning" => todo \in {<<>>, <<"dir">>, <<"cp", "dir">>, <<"file", "cp", "dir">>}

(* The ETag beside a file is that of every block of it, and the body that  *)
(* is added to it is of the same archive.                                  *)
Files ==
    /\ file # None => file \in Seq(Version)
    /\ cp # None => (cp.etag # None <=> server = "ranges")
    /\ cp # None /\ cp.unpack = None /\ cp.etag # None /\ file # None => All(file, cp.etag)
    /\ pc = "answered" /\ body.from > 0 /\ UnpackPoint = None =>
           All(file, body.version) /\ body.from = Len(file)
    /\ pc \in {"creating", "copying", "ended", "got file"} => All(file, body.version)
    /\ pc = "copying" =>
           /\ All(buffer, body.version)
           /\ cp # None => cp.unpack = None /\ cp.etag = body.etag
    /\ pc # "copying" => buffer = <<>>
    /\ pc \in {"ended", "got file"} => Len(file) = Size

(* A folder a sidecar points into, or that is being unpacked to, holds one *)
(* archive's entries only, none of them torn up to where it points.        *)
Folders ==
    /\ Pointing /\ dir # None => OnlyOf(cp.etag) /\ NoneTorn(cp.etag, cp.unpack)
    /\ pc = "spawning" /\ todo = <<>> /\ ~Pointing => dir = None
    /\ pc \in {"streaming", "stopping"} =>
           OnlyOf(body.version) /\ NoneTorn(body.version, mark)
    /\ pc \in {"unpacked", "scanning"} => WholeFolder

(* What is done is left alone until it is deleted. *)
Done ==
    /\ pc = "scanning" => partial = "no"
    /\ archive \/ extracted => pc = "idle" /\ todo = <<>> /\ partial = "no"
    /\ archive => WholeFile
    /\ extracted => WholeFolder

Known == Bodies /\ Files /\ Folders /\ Done

ArchiveInv == server \in {"ranges", "plain"} => Known
-----------------------------------------------------------------------------
(* What is flushed to a file of one archive makes it longer, and leaves it  *)
(* of that archive.                                                         *)
LEMMA FlushJoins ==
    ASSUME NEW version, Flushed, All(file, version), All(buffer, version)
    PROVE  All(file', version) /\ Len(file') = Len(file) + Len(buffer)
  BY DEF Flushed, All

(* A range is added only to a file of the archive it is of: the ETag sent   *)
(* along is that of every block in it (download_or_unpack).                 *)
LEMMA RangeMatches ==
    ASSUME Ask, Files, server \in {"ranges", "plain"}
    PROVE  \/ pc' = "failed" /\ body' = body
           \/ /\ pc' = "answered"
              /\ body'.version = current
              /\ body'.etag = ETag
              /\ body'.from > 0 /\ UnpackPoint = None =>
                     All(file, current) /\ body'.from = Len(file)
<1> DEFINE etag == IF cp = None THEN None ELSE cp.etag
           from == Answer(ResumeFrom, etag)
<1>1. \/ pc' = "failed" /\ body' = body
      \/ pc' = "answered" /\ body' = [version |-> current, from |-> from, etag |-> ETag]
  BY DEF Ask
<1>2. from > 0 => from = ResumeFrom /\ server = "ranges" /\ etag \in {None, current}
  BY DEF Answer
<1>3. ResumeFrom > 0 /\ UnpackPoint = None =>
          cp # None /\ cp.unpack = None /\ file # None /\ ResumeFrom = Len(file)
  BY DEF ResumeFrom, FileLength
<1>4. from > 0 /\ UnpackPoint = None => All(file, current) /\ from = Len(file)
  <2>1. ASSUME from > 0, UnpackPoint = None
        PROVE  cp # None /\ cp.unpack = None /\ cp.etag = current /\ cp.etag # None /\ file # None
    BY <1>2, <1>3, <2>1 DEF Files
  <2> QED
    BY <1>2, <1>3, <2>1 DEF Files
<1> HIDE DEF etag, from
<1> QED
  BY <1>1, <1>4

(* An entry being written is past the mark (unpack in zip_stream.rs). *)
LEMMA EntryPastMark ==
    ASSUME mark \in Nat, NoneTorn(body.version, mark), BeginEntry \/ FinishEntry
    PROVE  /\ NoneTorn(body.version, mark)' /\ body' = body /\ cp' = cp
           /\ \A n \in Nat : n <= mark => 1 .. n \subseteq 1 .. mark'
<1>1. body' = body /\ cp' = cp /\ mark' \in {mark, mark + 1}
  BY DEF BeginEntry, FinishEntry, inApp
<1>2. ASSUME NEW e \in 1 .. mark' PROVE Torn(body.version, e) \notin dir'
  <2>1. Torn(body.version, e) # Whole(body.version, mark + 1)
    BY DEF Torn, Whole
  <2>2. CASE BeginEntry
    <3>1. e # mark + 1 /\ e \in 1 .. mark
      BY <1>2, <2>2 DEF BeginEntry, inApp
    <3>2. Torn(body.version, e) # Torn(body.version, mark + 1)
      BY <3>1 DEF Torn
    <3> QED
      BY <2>2, <3>1, <3>2, <2>1 DEF BeginEntry, NoneTorn
  <2>3. CASE FinishEntry
    <3>1. e = mark + 1 \/ e \in 1 .. mark
      BY <1>1, <1>2
    <3> QED
      BY <2>3, <3>1, <2>1 DEF FinishEntry, NoneTorn
  <2> QED
    BY <2>2, <2>3
<1>3. ASSUME NEW n \in Nat, n <= mark PROVE 1 .. n \subseteq 1 .. mark'
  BY <1>1, <1>3
<1> QED
  BY <1>1, <1>2, <1>3 DEF NoneTorn

(* One thing goes at a time, and a folder about to be unpacked to last. *)
LEMMA RemovedInTurn ==
    ASSUME FolderLast, Remove
    PROVE  /\ \/ file' = None /\ cp' = cp /\ dir' = dir
              \/ file' = file /\ cp' = None /\ dir' = dir
              \/ file' = file /\ cp' = cp /\ dir' = None
           /\ todo \in {<<"dir">>, <<"cp", "dir">>, <<"file", "cp", "dir">>} =>
                  /\ todo' \in {<<>>, <<"dir">>, <<"cp", "dir">>}
                  /\ todo' = <<>> => dir' = None
<1>1. \/ file' = None /\ cp' = cp /\ dir' = dir
      \/ file' = file /\ cp' = None /\ dir' = dir
      \/ file' = file /\ cp' = cp /\ dir' = None
  <2>1. Head(todo) \in {"file", "cp", "dir"}
    BY Removals DEF FolderLast, Remove
  <2> QED
    BY <2>1 DEF Remove
<1>2. ASSUME todo = <<"dir">> PROVE todo' = <<>> /\ dir' = None
  BY <1>2, Removals DEF Remove
<1>3. ASSUME todo = <<"cp", "dir">> PROVE todo' = <<"dir">>
  BY <1>3, Removals DEF Remove
<1>4. ASSUME todo = <<"file", "cp", "dir">> PROVE todo' = <<"cp", "dir">>
  BY <1>4, Removals DEF Remove
<1> QED
  BY <1>1, <1>2, <1>3, <1>4, Removals

(* A folder that the app's end leaves half removed has no sidecar. *)
LEMMA HalfRemoved ==
    ASSUME FolderLast, Crash
    PROVE  /\ cp' \in {cp, None} /\ file' = file /\ server' = server /\ current' = current
           /\ cp = None \/ dir' = dir
           /\ Over
<1>1. cp' \in {cp, None} /\ file' = file /\ server' = server /\ current' = current
  BY DEF Crash, onServer
<1>2. todo # <<>> /\ Head(todo) = "dir" => cp = None
  BY Removals DEF FolderLast
<1>3. cp = None \/ dir' = dir
  BY <1>2 DEF Crash
<1> QED
  BY <1>1, <1>3 DEF Crash

(* A file of Size blocks of one archive is that archive. *)
LEMMA FileOfSize ==
    ASSUME NEW version, All(file, version), Len(file) = Size
    PROVE  file = [i \in 1 .. Size |-> version]
  BY DEF All

(* No step of the download breaks what is known of its archive. *)
LEMMA OneArchiveKept ==
    ASSUME MarkInv, Known, server \in {"ranges", "plain"}, Next
    PROVE  Known'
<1> USE DownloadResumeAssumption
    DEF Known, MarkInv, FolderLast, Points, Vouches, Spawning, Streaming, At, Pointing, UnpackPoint,
        onServer, onDisk, record, inApp
<1> USE DEF Bodies, Files, Folders, Done, All, OnlyOf, NoneTorn, WholeFile, WholeFolder
<1>1. CASE Start
  BY <1>1 DEF Start
<1>2. CASE Refuse
  BY <1>2 DEF Refuse, Over, Interrupt
<1>3. CASE Record
  BY <1>3 DEF Record
<1>4. CASE Ask
  <2> USE <1>4, RangeMatches
  <2>1. Bodies'
    BY DEF Ask, ETag
  <2>2. Files'
    BY DEF Ask
  <2>3. Folders' /\ Done'
    BY DEF Ask
  <2> QED
    BY <2>1, <2>2, <2>3
<1>5. CASE CutOffBefore
  BY <1>5 DEF CutOffBefore, Interrupt
<1>6. CASE UnpackFresh
  BY <1>6 DEF UnpackFresh
<1>7. CASE UnpackOn
  BY <1>7 DEF UnpackOn
<1>8. CASE Spawn
  BY <1>8 DEF Spawn, MayResume, Point
<1>9. CASE OpenFile
  BY <1>9 DEF OpenFile
<1>10. CASE SaveFirst
  BY <1>10 DEF SaveFirst, Point
<1>11. CASE Chunk
  BY <1>11 DEF Chunk
<1>12. CASE Flush
  <2> USE <1>12 DEF Flush, Flushed
  <2>1. All(file', body.version) /\ Len(file') = Len(file) + Len(buffer)
    BY FlushJoins
  <2>2. file' \in Seq(Version)
    BY <2>1
  <2>3. Bodies' /\ Folders' /\ Done'
    OBVIOUS
  <2>4. Files'
    BY <2>1, <2>2
  <2> QED
    BY <2>3, <2>4
<1>13. CASE StopCopy
  <2> USE <1>13 DEF StopCopy, Stopped, Flushed
  <2>1. All(file', body.version) /\ Len(file') = Len(file) + Len(buffer)
    BY FlushJoins
  <2>2. file' \in Seq(Version)
    BY <2>1
  <2>3. Bodies' /\ Folders' /\ Done'
    OBVIOUS
  <2>4. Files'
    BY <2>1, <2>2
  <2> QED
    BY <2>3, <2>4
<1>14. CASE EndCopy
  <2> USE <1>14 DEF EndCopy, Flushed, Written, FileLength
  <2>1. All(file', body.version) /\ Len(file') = Len(file) + Len(buffer)
    BY FlushJoins
  <2>2. file' \in Seq(Version)
    BY <2>1
  <2>3. Bodies' /\ Folders' /\ Done'
    OBVIOUS
  <2>4. Files'
    BY <2>1, <2>2
  <2> QED
    BY <2>3, <2>4
<1>15. CASE FinishCopy
  BY <1>15 DEF FinishCopy
<1>16. CASE CutOffCopy
  <2> USE <1>16 DEF CutOffCopy, Interrupt, Flushed
  <2>1. All(file', body.version) /\ Len(file') = Len(file) + Len(buffer)
    BY FlushJoins
  <2>2. file' \in Seq(Version)
    BY <2>1
  <2>3. Bodies' /\ Folders' /\ Done'
    OBVIOUS
  <2>4. Files'
    BY <2>1, <2>2
  <2> QED
    BY <2>3, <2>4
<1>17. CASE Pump
  BY <1>17 DEF Pump
<1>18. CASE BeginEntry
  <2> USE <1>18 DEF BeginEntry, Unpacking
  <2>1. Bodies' /\ Files' /\ Done'
    OBVIOUS
  <2>2. OnlyOf(body.version)'
    OBVIOUS
  <2>3. NoneTorn(body.version, mark)'
    BY EntryPastMark
  <2>4. Pointing' => cp'.etag = body'.version /\ 1 .. cp'.unpack \subseteq 1 .. mark'
    <3>1. Pointing => cp.etag = body.version /\ cp.unpack \in Nat /\ cp.unpack <= mark
      OBVIOUS
    <3> QED
      BY <3>1, EntryPastMark
  <2>5. Folders'
    BY <2>2, <2>3, <2>4
  <2> QED
    BY <2>1, <2>5
<1>19. CASE FinishEntry
  <2> USE <1>19 DEF FinishEntry, Unpacking
  <2>1. Bodies' /\ Files' /\ Done'
    OBVIOUS
  <2>2. OnlyOf(body.version)'
    OBVIOUS
  <2>3. NoneTorn(body.version, mark)'
    BY EntryPastMark
  <2>4. Pointing' => cp'.etag = body'.version /\ 1 .. cp'.unpack \subseteq 1 .. mark'
    <3>1. Pointing => cp.etag = body.version /\ cp.unpack \in Nat /\ cp.unpack <= mark
      OBVIOUS
    <3> QED
      BY <3>1, EntryPastMark
  <2>5. Folders'
    BY <2>2, <2>3, <2>4
  <2> QED
    BY <2>1, <2>5
<1>20. CASE SaveMark
  BY <1>20 DEF SaveMark, MayResume, Point
<1>21. CASE CannotStream
  BY <1>21 DEF CannotStream
<1>22. CASE AsFile
  BY <1>22 DEF AsFile, NoBody
<1>23. CASE StopStream
  BY <1>23 DEF StopStream
<1>24. CASE CutOffStream
  BY <1>24 DEF CutOffStream, Interrupt
<1>25. CASE Settle
  BY <1>25 DEF Settle, Stopped, MayResume, Point
<1>26. CASE FinishUnpack
  <2> USE <1>26 DEF FinishUnpack
  <2>1. dir = {Whole(body.version, e) : e \in Entry}
    BY DEF Entry
  <2>2. Bodies' /\ Files' /\ Done'
    OBVIOUS
  <2>3. Folders'
    BY <2>1
  <2> QED
    BY <2>2, <2>3
<1>27. CASE Remove
  <2> USE <1>27, RemovedInTurn
  <2>1. pc' = pc /\ body' = body /\ mark' = mark /\ into' = into /\ todo # <<>>
    BY DEF Remove
  <2>2. Bodies'
    BY <2>1 DEF Remove
  <2>3. Files'
    BY <2>1 DEF Remove
  <2>4. Folders'
    BY <2>1 DEF Remove
  <2>5. Done'
    BY <2>1 DEF Remove
  <2> QED
    BY <2>2, <2>3, <2>4, <2>5
<1>28. CASE RecordFile
  <2> USE <1>28 DEF RecordFile, Over
  <2>1. file = [i \in 1 .. Size |-> body.version]
    BY FileOfSize
  <2>2. Bodies' /\ Files' /\ Folders'
    OBVIOUS
  <2>3. Done'
    BY <2>1
  <2> QED
    BY <2>2, <2>3
<1>29. CASE ForgetUnpacked
  BY <1>29 DEF ForgetUnpacked
<1>30. CASE RecordExtracted
  BY <1>30 DEF RecordExtracted, Over
<1>31. CASE RecordStopped
  BY <1>31 DEF RecordStopped, Over
<1>32. CASE Discard
  BY <1>32 DEF Discard, Discarded
<1>33. CASE ForgetPartial
  BY <1>33 DEF ForgetPartial, Over
<1>34. CASE ChangeArchive
  <2> USE <1>34 DEF ChangeArchive
  <2>1. Bodies'
    OBVIOUS
  <2>2. Files'
    OBVIOUS
  <2>3. Folders'
    OBVIOUS
  <2>4. Done'
    OBVIOUS
  <2> QED
    BY <2>1, <2>2, <2>3, <2>4
<1>35. CASE Pause
  <2> USE <1>35 DEF Pause, Interrupt
  <2>1. Bodies'
    OBVIOUS
  <2>2. Files'
    OBVIOUS
  <2>3. Folders'
    OBVIOUS
  <2>4. Done'
    OBVIOUS
  <2> QED
    BY <2>1, <2>2, <2>3, <2>4
<1>36. CASE Cancel
  <2> USE <1>36 DEF Cancel, Interrupt
  <2>1. Bodies'
    OBVIOUS
  <2>2. Files'
    OBVIOUS
  <2>3. Folders'
    OBVIOUS
  <2>4. Done'
    OBVIOUS
  <2> QED
    BY <2>1, <2>2, <2>3, <2>4
<1>37. CASE CancelStopped
  BY <1>37 DEF CancelStopped
<1>38. CASE Delete
  BY <1>38 DEF Delete
<1>39. CASE Crash
  <2> USE <1>39, HalfRemoved DEF Over
  <2>1. Bodies' /\ Done'
    BY DEF Crash
  <2>2. Files'
    <3>1. pc' = "idle" /\ buffer' = <<>> /\ file' = file /\ server' = server
      OBVIOUS
    <3>2. CASE cp' = cp
      BY <3>1, <3>2
    <3>3. CASE cp' = None
      BY <3>1, <3>3
    <3> QED
      BY <3>2, <3>3
  <2>3. Folders'
    OBVIOUS
  <2> QED
    BY <2>1, <2>2, <2>3
<1> QED
  BY <1>1, <1>2, <1>3, <1>4, <1>5, <1>6, <1>7, <1>8, <1>9, <1>10, <1>11, <1>12, <1>13, <1>14,
     <1>15, <1>16, <1>17, <1>18, <1>19, <1>20, <1>21, <1>22, <1>23, <1>24, <1>25, <1>26, <1>27,
     <1>28, <1>29, <1>30, <1>31, <1>32, <1>33, <1>34, <1>35, <1>36, <1>37, <1>38, <1>39 DEF Next,
     Work

(* What the server can do about ranges does not change. *)
LEMMA ServerStays == Next => server' = server
  BY DEF Next, Work, onServer, Start, Refuse, Record, Ask, CutOffBefore, UnpackFresh, UnpackOn,
     Spawn, OpenFile, SaveFirst, Chunk, Flush, StopCopy, EndCopy, FinishCopy, CutOffCopy, Pump,
     BeginEntry, FinishEntry, SaveMark, CannotStream, AsFile, StopStream, CutOffStream, Settle,
     FinishUnpack, Remove, RecordFile, ForgetUnpacked, RecordExtracted, RecordStopped, Discard,
     ForgetPartial, ChangeArchive, Pause, Cancel, CancelStopped, Delete, Crash

(* A download that is recorded as done is all of one archive, whatever     *)
(* stopped it and however the archive on the server changed meanwhile:     *)
(* for every number of blocks, stops and changes, where ranges come with   *)
(* an ETag (download.rs and checkpoint.rs).                                *)
THEOREM DoneIsWhole == Spec => []DoneIsOneArchive
<1>1. Init => ArchiveInv
  BY DEF Init, Idle, ArchiveInv, Known, Bodies, Files, Folders, Done, Pointing
<1>2. MarkInv /\ ArchiveInv /\ [Next]_vars => ArchiveInv'
  <2>1. ASSUME MarkInv, ArchiveInv, Next, server' \in {"ranges", "plain"} PROVE Known'
    <3>1. server' = server
      BY <2>1, ServerStays
    <3> QED
      BY <2>1, <3>1, OneArchiveKept DEF ArchiveInv
  <2>2. ASSUME ArchiveInv, UNCHANGED vars PROVE ArchiveInv'
    BY <2>2 DEF vars, onServer, onDisk, record, inApp, ArchiveInv, Known, Bodies, Files, Folders,
                Done, All, OnlyOf, NoneTorn, WholeFile, WholeFolder, Pointing, UnpackPoint
  <2> QED
    BY <2>1, <2>2 DEF ArchiveInv
<1>3. server \in Servers /\ ArchiveInv => DoneIsOneArchive
  BY DownloadResumeAssumption
  DEF ArchiveInv, Known, Done, WholeFile, WholeFolder, DoneIsOneArchive
<1>4. Init => server \in Servers
  BY DEF Init
<1>5. server \in Servers /\ [Next]_vars => (server \in Servers)'
  BY ServerStays DEF vars, onServer
<1> QED
  BY <1>1, <1>2, <1>3, <1>4, <1>5, MarkInvariant, PTL DEF Spec
=============================================================================
