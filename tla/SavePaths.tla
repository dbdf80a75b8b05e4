------------------------------ MODULE SavePaths ------------------------------
(***************************************************************************)
(* Where a save goes when it crosses from one PC to another.  Ludusavi is  *)
(* given redirects (gameyfin-saves/src/config.rs, and portable_roots in    *)
(* src-tauri/src/saves.rs) under which every PC stores its own folders by  *)
(* names that all of them share; a restore turns the names back into the   *)
(* folders of the PC it runs on, and folders set by hand travel along.     *)
(*                                                                         *)
(* A path is the sequence of its folders, as the filesystem resolves it.   *)
(* The archive is of one game: the newest version, taken with what its PC  *)
(* recorded of it.  What the database knows of the game and the folders    *)
(* set by hand are listed under one title.  Not here: which version is     *)
(* restored and when, and whether a backup becomes the newest (SaveSync),  *)
(* the title itself (SaveTitle), and registry saves.                       *)
(***************************************************************************)
EXTENDS SaveDecision, SequencesExt

CONSTANTS
    PC,
    Kinds,      \* what a PC may be, see IsKind
    KnownSets,  \* sets of the places that Ludusavi's database may know
    Chosen,     \* PCs on which the program to start is chosen
    Owners,     \* PCs on which the game is played and backed up
    Early,      \* whether saves are handled by hand before the game ever ran
    MaxDeeds,   \* bound: writes of the game, and folders set by hand
    MaxBackups  \* bound: backups

(* build: for which system the game's files here are.  accounts: the users *)
(* in the prefix; account: the one the game runs as.  linked: whether the  *)
(* prefix's Documents leads to the Linux one.  moved: whether Windows      *)
(* keeps Documents elsewhere.  inside: whether games are kept in the home. *)
IsKind(k) ==
    /\ k \in [system : {"windows", "linux"}, build : {"windows", "native"},
              accounts : SUBSET {"steamuser", "user", "other"},
              account : {"steamuser", "user"},
              linked : BOOLEAN, moved : BOOLEAN, inside : BOOLEAN]
    /\ k.account \in k.accounts
    /\ k.system = "windows" => k.build = "windows"

(* What a game keeps: its progress, its options in Documents, something    *)
(* beside its program, and on Linux what its native build once left.       *)
Slot == {"progress", "options", "beside", "stray"}

SavePathsAssumption ==
    /\ \A k \in Kinds : IsKind(k)
    /\ \A s \in KnownSets : s \subseteq Slot \ {"beside"}
    /\ Chosen \subseteq PC /\ Owners \subseteq PC /\ Early \in BOOLEAN
    /\ MaxDeeds \in Nat /\ MaxBackups \in Nat

(* Values of Kinds and KnownSets: a Windows PC, and one with Proton; a     *)
(* game the database knows all of.                                         *)
PlainWindows ==
    [system |-> "windows", build |-> "windows", accounts |-> {"steamuser"},
     account |-> "steamuser", linked |-> FALSE, moved |-> FALSE, inside |-> TRUE]

PlainKinds == {PlainWindows, [PlainWindows EXCEPT !.system = "linux"]}

PlainPlaces == {{"progress", "options"}}

VARIABLES
    kind,     \* what each PC is
    known,    \* the places the database knows
    booted,   \* PCs whose prefix for the game exists
    files,    \* of each PC, by path
    custom,   \* the save folders set there by hand
    mapped,   \* PCs that store their progress under an agreed name
    tagged,   \* the system each PC recorded with its last sync
    archive,  \* the newest version in the store
    back,     \* history: what the last restore on each PC said is back
    writes, backups, mappings

vars == <<kind, known, booted, files, custom, mapped, tagged, archive,
          back, writes, backups, mappings>>
-----------------------------------------------------------------------------
(* Folders of a PC.                                                        *)
Home(p) == <<"home", p>>

Root(p) == IF kind[p].inside THEN Home(p) \o <<"Gameyfin">> ELSE <<"games">>

InstallDir(p) == Root(p) \o <<"Installations">>

PrefixDir(p) == Root(p) \o <<"Prefixes">>

UnplacedDir(p) == Root(p) \o <<"Saves", "unplaced">>

DocumentsFolder(p) ==
    (IF kind[p].moved THEN <<"onedrive", p>> ELSE Home(p)) \o <<"Documents">>

(* Where the game reads and writes there, in the home of whom it runs as.  *)
GameHome(p) ==
    IF kind[p].system = "windows" THEN Home(p) ELSE PrefixDir(p) \o <<kind[p].account>>

GameDocuments(p) ==
    IF kind[p].system = "windows" THEN DocumentsFolder(p)
    ELSE (IF kind[p].linked THEN Home(p) ELSE GameHome(p)) \o <<"Documents">>

Slots(p) ==
    CASE kind[p].build = "native"   -> {"progress", "beside"}
      [] kind[p].system = "windows" -> {"progress", "options", "beside"}
      [] OTHER                      -> Slot

Place(p, s) ==
    CASE s = "beside"  -> InstallDir(p) \o <<"saves">>
      [] s = "options" -> GameDocuments(p) \o <<"game">>
      [] s = "stray" \/ kind[p].build = "native" -> Home(p) \o <<".local">>
      [] OTHER         -> GameHome(p) \o <<"AppData">>

Places(p) == {Place(p, s) : s \in Slots(p)}

(* What a game runs as here, as far as anything on disk says.              *)
RunsAsWindows(p) ==
    CASE kind[p].system = "windows"          -> "yes"
      [] p \in Chosen                        -> IF kind[p].build = "windows" THEN "yes" ELSE "no"
      [] p \in booted                        -> "yes"
      [] tagged[p] \in {"windows", "proton"} -> "yes"
      [] tagged[p] \in {"linux", "macos"}    -> "no"
      [] OTHER                               -> "unknown"

Platform(p) ==
    CASE RunsAsWindows(p) = "unknown" -> "unknown"
      [] RunsAsWindows(p) = "no"      -> "linux"
      [] OTHER -> IF kind[p].system = "windows" THEN "windows" ELSE "proton"

SavesInPrefix(p) == kind[p].system = "linux" /\ RunsAsWindows(p) = "yes"

PrefixReady(p) == SavesInPrefix(p) /\ p \in booted

HereOf(p) == [platform |-> Platform(p), installation |-> p, anyPlatform |-> p \in mapped]

(* The only user of a prefix, or Proton's of several; none otherwise.      *)
PrefixUsers(p) ==
    IF \E a \in kind[p].accounts : kind[p].accounts = {a} THEN kind[p].accounts
    ELSE kind[p].accounts \cap {"steamuser"}
-----------------------------------------------------------------------------
(* The names that every PC shares.                                         *)
SyntheticRoot == <<"gameyfin">>

HomeTarget == SyntheticRoot \o <<"home">>

HostHomeTarget == SyntheticRoot \o <<"host-home">>

InstallTarget == SyntheticRoot \o <<"install">>

DocumentsTarget == HomeTarget \o <<"Documents">>

AgreedName == SyntheticRoot \o <<"custom", "game">>

Redirect(k, source, target) == [kind |-> k, source |-> source, target |-> target]

Portable(source, target) == Redirect("bidirectional", source, target)

When(condition, s) == IF condition THEN s ELSE <<>>

(* A mistake to check against: a link is not followed.                     *)
NoLinkedFolders(p) == <<>>

LinkedFolders(p) ==
    When(kind[p].linked, <<Portable(Home(p) \o <<"Documents">>, HomeTarget \o <<"Documents">>)>>)

(* A mistake to check against: Documents is taken to be in the home.       *)
NothingMoved(p) == <<>>

MovedDocuments(p) ==
    When(kind[p].system = "windows" /\ kind[p].moved,
         <<Portable(DocumentsFolder(p), DocumentsTarget)>>)

(* A mistake to check against: the machine's home before the prefix's.     *)
HostHomeFirst(p) ==
    LET users == IF PrefixReady(p) THEN PrefixUsers(p) ELSE {}
    IN  <<Portable(InstallDir(p), InstallTarget)>> \o
        (IF users # {}
         THEN <<Portable(Home(p), HostHomeTarget)>> \o LinkedFolders(p)
              \o SetToSeq({Portable(PrefixDir(p) \o <<u>>, HomeTarget) : u \in users})
         ELSE MovedDocuments(p) \o <<Portable(Home(p), HomeTarget)>>)

(* The home of a game that runs in a prefix is the prefix's, and the       *)
(* machine's own follows under a name of its own.                          *)
PortableRoots(p) ==
    LET users == IF PrefixReady(p) THEN PrefixUsers(p) ELSE {}
    IN  <<Portable(InstallDir(p), InstallTarget)>> \o
        (IF users # {}
         THEN LinkedFolders(p)
              \o SetToSeq({Portable(PrefixDir(p) \o <<u>>, HomeTarget) : u \in users})
              \o <<Portable(Home(p), HostHomeTarget)>>
         ELSE MovedDocuments(p) \o <<Portable(Home(p), HomeTarget)>>)

(* The redirects in the order Ludusavi tries them: those set by hand, the  *)
(* portable ones, and a place for another PC's Linux home where this PC    *)
(* has none for the game.                                                  *)
EffectiveRedirects(p) ==
    LET roots == PortableRoots(p)
    IN  When(p \in mapped, <<Portable(Place(p, "progress"), AgreedName)>>)
        \o roots
        \o When(\A i \in DOMAIN roots : roots[i].target # HostHomeTarget,
                <<Redirect("restore", HostHomeTarget, UnplacedDir(p))>>)

(* The pairs of folders that redirects swap, to shared names and back.     *)
There(rs) == [i \in DOMAIN rs |-> [from |-> rs[i].source, to |-> rs[i].target]]

Back(rs) == [i \in DOMAIN rs |-> [from |-> rs[i].target, to |-> rs[i].source]]

(* path with the first folder it is under swapped for that folder's        *)
(* partner, or itself.                                                     *)
Rebase(path, pairs) ==
    LET at == SelectInSeq(pairs, LAMBDA pair : IsPrefix(pair.from, path))
    IN  IF at = 0 THEN path
        ELSE pairs[at].to \o SubSeq(path, Len(pairs[at].from) + 1, Len(path))

Rebases(path, pairs) == \E i \in DOMAIN pairs : IsPrefix(pairs[i].from, path)

(* What Ludusavi makes of paths by the redirects: the first that matches.  *)
(* A restore takes those of backups the other way round.                   *)
StoredAs(p, paths) ==
    LET rs == SelectSeq(EffectiveRedirects(p), LAMBDA r : r.kind # "restore")
    IN  [path \in paths |-> Rebase(path, There(rs))]

RestoredTo(p, paths) ==
    LET rs    == EffectiveRedirects(p)
        pairs == [i \in DOMAIN rs |-> IF rs[i].kind = "restore" THEN There(rs)[i] ELSE Back(rs)[i]]
    IN  [path \in paths |-> Rebase(path, pairs)]
-----------------------------------------------------------------------------
NoArchive == [by |-> "nobody"]

TypeOK ==
    /\ kind \in [PC -> Kinds] /\ known \in KnownSets
    /\ booted \subseteq PC /\ mapped \subseteq PC
    /\ \A p \in PC : \A path \in DOMAIN files[p] : files[p][path] \in 1 .. MaxDeeds
    /\ \A p \in PC : \A path \in custom[p] : ~IsPrefix(SyntheticRoot, path)
    /\ tagged \in [PC -> SavePlatforms]
    /\ archive.by \in PC \cup {"nobody"}
    /\ \A p \in PC : DOMAIN back[p] \subseteq Slot
    /\ writes \in Nat /\ mappings \in Nat /\ writes + mappings <= MaxDeeds
    /\ backups \in 0 .. MaxBackups

Init ==
    /\ kind \in [PC -> Kinds] /\ known \in KnownSets
    /\ booted = {}
    /\ files = [p \in PC |-> <<>>]
    /\ custom = [p \in PC |-> {}] /\ mapped = {}
    /\ tagged = [p \in PC |-> "unknown"]
    /\ archive = NoArchive
    /\ back = [p \in PC |-> <<>>]
    /\ writes = 0 /\ backups = 0 /\ mappings = 0

(* Whether by what this PC knows the game's saves are where they will be.  *)
Settled(p) == RunsAsWindows(p) # "unknown" /\ (SavesInPrefix(p) => p \in booted)

(* The first launch of a Windows game on Linux makes its prefix.           *)
Boot(p) ==
    /\ kind[p].system = "linux" /\ kind[p].build = "windows"
    /\ p \in Chosen \ booted
    /\ booted' = booted \cup {p}
    /\ UNCHANGED <<kind, known, files, custom, mapped, tagged, archive, back,
                   writes, backups, mappings>>

(* The game, or an older build of it, writes something.                    *)
Play(p, s) ==
    /\ p \in Owners /\ writes + mappings < MaxDeeds
    /\ s \in Slots(p)
    /\ s = "stray" \/ p \in Chosen
    /\ s \in {"progress", "options"} /\ kind[p].system = "linux" /\ kind[p].build = "windows"
         => p \in booted
    /\ writes' = writes + 1
    /\ files' = [files EXCEPT ![p] = (Place(p, s) :> writes') @@ @]
    /\ back' = [back EXCEPT ![p] = <<>>]
    /\ UNCHANGED <<kind, known, booted, custom, mapped, tagged, archive, backups,
                   mappings>>

(* The user says where the game keeps its saves here, a folder at a time,  *)
(* or that saves cross between systems, for which the progress gets an     *)
(* agreed name.                                                            *)
SetMapping(p, folders, cross) ==
    /\ writes + mappings < MaxDeeds
    /\ mappings' = mappings + 1
    /\ Early \/ Settled(p)
    /\ custom' = [custom EXCEPT ![p] = folders]
    /\ mapped' = IF cross THEN mapped \cup {p} ELSE mapped \ {p}
    /\ <<custom', mapped'>> # <<custom, mapped>>
    /\ UNCHANGED <<kind, known, booted, files, tagged, archive, back,
                   writes, backups>>
-----------------------------------------------------------------------------
(* The title to back up under is the database's, that of folders set by    *)
(* hand, or the one stored.                                                *)
Titled(p) == known # {} \/ custom[p] # {} \/ archive # NoArchive

(* What Ludusavi finds: the places it knows, in a prefix only once it is   *)
(* named to it, and the folders set by hand.                               *)
Found(p) ==
    LET scanned == {s \in known \cap Slots(p) :
                      \/ s = "stray" \/ kind[p].system = "windows"
                      \/ kind[p].build = "native" \/ PrefixReady(p)}
    IN  ({Place(p, s) : s \in scanned} \cup custom[p]) \cap DOMAIN files[p]

(* Folders set by hand, by names all PCs share where there are such.       *)
WriteCarried(p) == {Rebase(path, There(PortableRoots(p))) : path \in custom[p]}

(* A mistake to check against: they are taken over as they were written.   *)
ReadAsCarried(p, carried) == carried

ReadCarried(p, carried) ==
    LET pairs == Back(PortableRoots(p))
    IN  {Rebase(path, pairs) : path \in {c \in carried : Rebases(c, pairs)}}
        \cup {path \in carried : ~Rebases(path, pairs) /\ path \in DOMAIN files[p]}

(* A backup that finds files and is taken by the store: the scan, the      *)
(* folders set by hand beside it, the upload and the record of it.  One    *)
(* that finds none ends there.                                             *)
Backup(p) ==
    /\ p \in Owners /\ backups < MaxBackups
    /\ Early \/ Settled(p)
    /\ Titled(p) /\ Found(p) # {}
    /\ archive' =
         [by |-> p, platform |-> Platform(p), installation |-> p,
          files |-> LET as == StoredAs(p, Found(p))
                    IN  [q \in Range(as) |-> files[p][CHOOSE path \in DOMAIN as : as[path] = q]],
          carried |-> WriteCarried(p),
          mapped |-> p \in mapped,
          meant |-> [s \in {t \in Slots(p) : Place(p, t) \in Found(p)} |-> files[p][Place(p, s)]]]
    /\ tagged' = [tagged EXCEPT ![p] = Platform(p)]
    /\ backups' = backups + 1
    /\ UNCHANGED <<kind, known, booted, files, custom, mapped, back, writes,
                   mappings>>

(* Takes the folders another PC was told, when this one was told none.     *)
AdoptCarried(p) ==
    IF custom[p] # {} THEN custom[p] ELSE ReadCarried(p, archive.carried)

(* A mistake to check against: what went nowhere is not looked for.        *)
MisplacedNever(path) == FALSE

Misplaced(path) == IsPrefix(SyntheticRoot, path)

(* What the game here is to find again: on systems whose folders differ,   *)
(* only the progress, and only once both have a name for it.               *)
Promised(p) ==
    IF (kind[p].build = "native") = (kind[archive.by].build = "native")
    THEN DOMAIN archive.meant \cap Slots(p)
    ELSE IF archive.mapped /\ p \in mapped THEN DOMAIN archive.meant \cap {"progress"}
    ELSE {}

(* The whole of do_restore: the check of the system, the folders adopted,  *)
(* what an earlier restore set aside removed, Ludusavi's writing, which    *)
(* fails or is lost where a name has no folder, and the record, made only  *)
(* when every file has a place and one is where the game may look.         *)
Restore(p) ==
    /\ archive # NoArchive
    /\ Early \/ Settled(p)
    /\ Titled(p)
    /\ RestorableHere(archive, HereOf(p))
    /\ LET to      == RestoredTo(p, DOMAIN archive.files)
           reached == Range(to)
           missing == {path \in reached : Misplaced(path)}
           aside   == {path \in reached \ missing : IsPrefix(UnplacedDir(p), path)}
           placed  == reached \ (missing \cup aside)
           kept    == {path \in DOMAIN files[p] : ~IsPrefix(UnplacedDir(p), path)}
           synced  == missing = {} /\ (aside # {} => placed # {})
           written == {path \in reached : ~IsPrefix(SyntheticRoot, path)}
       IN  /\ files' = [files EXCEPT ![p] =
                          [path \in written |->
                             archive.files[CHOOSE q \in DOMAIN to : to[q] = path]]
                          @@ [path \in kept |-> files[p][path]]]
           /\ back' = [back EXCEPT ![p] =
                         IF synced THEN [s \in Promised(p) |-> archive.meant[s]] ELSE <<>>]
           /\ tagged' = IF synced THEN [tagged EXCEPT ![p] = Platform(p)] ELSE tagged
    /\ custom' = [custom EXCEPT ![p] = AdoptCarried(p)]
    /\ UNCHANGED <<kind, known, booted, mapped, archive, writes, backups,
                   mappings>>

Next ==
    \E p \in PC :
       \/ Boot(p)
       \/ \E s \in Slot : Play(p, s)
       \/ \E s \in Slots(p) : SetMapping(p, custom[p] \cup {Place(p, s)}, p \in mapped)
       \/ SetMapping(p, custom[p], TRUE)
       \/ Backup(p)
       \/ Restore(p)

Spec == Init /\ [][Next]_vars
-----------------------------------------------------------------------------
(* What a restore that succeeded says is back is what the game reads: the  *)
(* files are in the folders it uses on this PC, and not where it does not  *)
(* look, which a restore would call a success.                             *)
RestoredIsRead ==
    \A p \in PC : \A s \in DOMAIN back[p] :
       /\ Place(p, s) \in DOMAIN files[p]
       /\ files[p][Place(p, s)] = back[p][s]

(* Whatever of a game's saves is backed up is stored by a name that every  *)
(* PC shares, and no two places collapse onto one name.                    *)
StoredIsNeutral ==
    archive # NoArchive =>
       \A s \in DOMAIN archive.meant :
          \E q \in DOMAIN archive.files :
             IsPrefix(SyntheticRoot, q) /\ archive.files[q] = archive.meant[s]

(* Folders set by hand on one PC become, on another of the same family,    *)
(* the folders in which the game keeps its saves there.                    *)
FoldersTravel ==
    (\A p, q \in PC : (kind[p].build = "native") = (kind[q].build = "native")) =>
       \A p \in PC : custom[p] \subseteq Places(p)
=============================================================================
