----------------------------- MODULE SetupChoice -----------------------------
(***************************************************************************)
(* Which of the programs in a download are its setups, in which order they *)
(* run, and which run by themselves (crates/gameyfin-core/src/setups.rs    *)
(* and executable.rs; src-tauri/src/ipc/install.rs and library.rs).        *)
(*                                                                         *)
(* Names are all there is to go on.  A program here is what the code reads *)
(* from a path: whether its words spell the title, or go on after it, or   *)
(* what words there are before the version; the marker (patch, DLC) in it  *)
(* or in a folder; its version and the one a patch brings; its depth.  Its *)
(* rank is its place in the order of paths, which are compared as words.   *)
(* How one program runs is SetupRun's subject: here it succeeds or fails.  *)
(***************************************************************************)
EXTENDS Integers, Sequences, FiniteSets, SequencesExt

CONSTANTS
    Windows,   \* whether this is Windows
    Heads,     \* what a download's bytes may say: records [starts, disc, tar]
    Program,   \* the programs a download may hold, records as described
    Manual,    \* those of them whose installer may need answers
    MaxFiles,  \* bound: how many it holds
    MaxGoes    \* bound: how often setups are run

VARIABLES
    head,       \* what this one's say
    rank,       \* the programs of this download, each with its rank
    silent,     \* those whose kind of installer needs no answers
    at,         \* "arrived", "unpacked", "running", "idle"
    queue,      \* the steps the run under way has left
    installed,  \* whether the record has an install folder
    done,       \* the record's installed_setups
    goes,       \* bound: runs so far
    go,         \* ghost: the steps of the last run nobody rearranged
    before      \* ghost: installed_setups and installed when it began

vars == <<head, rank, silent, at, queue, installed, done, goes, go, before>>

Here == DOMAIN rank

Roles == <<"game", "patch", "dlc", "other">>

RoleOrder(role) == CHOOSE i \in 1 .. 4 : Roles[i] = role
-----------------------------------------------------------------------------
(* What was downloaded: a disc first, since its first sector can be        *)
(* anything, and a tar last.                                               *)
Payload ==
    CASE head.disc \/ head.starts = "archive" -> "archive"
      [] head.starts = "shebang" -> "script"
      [] head.starts = "elf"     -> "linux program"
      [] head.starts = "mz"      -> "windows program"
      [] head.tar                -> "archive"
      [] OTHER                   -> "unknown"

(* The ways to install it, the best first. *)
MethodsFor(payload) ==
    CASE payload = "archive" -> <<"extract">>
      [] payload = "windows program" -> <<"run", "copy">>
      [] payload \in {"script", "linux program"} /\ ~Windows -> <<"copy">>
      [] OTHER -> <<>>

RunsUnattended(p) == p \in silent
-----------------------------------------------------------------------------
(* What is a setup. *)

LooksLikeInstaller(p) == p.kind = "setup"

(* Only in a download: an installed game's own update.exe is part of it. *)
LooksLikePatch(p) == p.kind = "patch program"

LooksLikeUninstaller(p) == p.kind = "uninstaller"

InOrder(programs, Before(_, _)) ==
    CHOOSE s \in [1 .. Cardinality(programs) -> programs] :
        \A i, j \in DOMAIN s : i < j => Before(s[i], s[j])

(* The shallower first, then by path. *)
Listing(programs) ==
    InOrder(programs, LAMBDA a, b :
        a.depth < b.depth \/ (a.depth = b.depth /\ rank[a] < rank[b]))

FindDownloadSetups ==
    Listing({p \in Here : LooksLikeInstaller(p) \/ LooksLikePatch(p)})

FindDownloadPrograms == Listing({p \in Here : ~LooksLikeUninstaller(p)})
-----------------------------------------------------------------------------
(* The roles. *)

(* A marker names the role; else the title does, or something after it.    *)
NamedRole(p) ==
    CASE p.marker # "none"   -> p.marker
      [] p.title = "is"      -> "game"
      [] p.title = "begins"  -> "dlc"
      [] OTHER               -> "none"

Least(numbers) == CHOOSE n \in numbers : \A other \in numbers : n <= other

(* The one whose name all others extend, or the shallowest nameless one;   *)
(* {} when there are several as likely.                                    *)
BaseOf(plain) ==
    LET shortest == {p \in plain :
                        Len(p.words) = Least({Len(q.words) : q \in plain})}
        top == {p \in shortest : p.depth = Least({q.depth : q \in shortest})}
    IN  CASE Cardinality(shortest) = 1 -> shortest
          [] Cardinality(top) = 1 /\ \A p \in top : p.words = <<>> -> top
          [] OTHER -> {}

(* The role of each, and whether any is unexplained. *)
Explained(setups) ==
    LET titled  == \E p \in setups : NamedRole(p) = "game"
        plain   == {p \in setups : NamedRole(p) = "none" /\ ~p.autorun}
        base    == BaseOf(plain)
        Extends(p) == \E b \in base : b.words # <<>> /\ IsPrefix(b.words, p.words)
        Role(p) ==
            CASE NamedRole(p) # "none" -> NamedRole(p)
              [] titled \/ p.autorun -> "other"
              [] base = {} \/ p \in base -> "game"
              [] Extends(p) -> "dlc"
              [] OTHER -> "other"
    IN  [role |-> [p \in setups |-> Role(p)],
         unexplained |-> \E p \in setups : Role(p) = "other" /\ ~p.autorun]
-----------------------------------------------------------------------------
(* The order. *)

(* A mistake to check against: versions compared as the words they are. *)
LessByPath(a, b, role) ==
    \/ RoleOrder(role[a]) < RoleOrder(role[b])
    \/ role[a] = role[b] /\ rank[a] < rank[b]

(* The role, a game's depth, the versions of two patches that have one,    *)
(* then the path.                                                          *)
Less(a, b, role) ==
    LET versioned == role[a] = "patch" /\ a.to # 0 /\ b.to # 0
    IN  \/ RoleOrder(role[a]) < RoleOrder(role[b])
        \/ /\ role[a] = role[b]
           /\ CASE role[a] = "game" /\ a.depth # b.depth -> a.depth < b.depth
                [] versioned /\ a.to # b.to -> a.to < b.to
                [] OTHER -> rank[a] < rank[b]

(* The standard library's stable sort of a short slice: each is moved down *)
(* past those it is less than.                                             *)
Sorted(setups, role) ==
    LET Insert(sorted, p) ==
            LET stops == {i \in 1 .. Len(sorted) : ~Less(p, sorted[i], role)}
                after == IF stops = {} THEN 0 ELSE CHOOSE i \in stops : \A j \in stops : j <= i
            IN  InsertAt(sorted, after + 1, p)
    IN  FoldLeft(Insert, <<>>, setups)

Games(role) == {p \in DOMAIN role : role[p] = "game"}

(* A patch to a version the one game is already. *)
Superseded(p, role) ==
    /\ role[p] = "patch" /\ p.to # 0
    /\ Cardinality(Games(role)) = 1
    /\ \A g \in Games(role) : g.version # 0 /\ p.to <= g.version

Plan(setups) ==
    LET explained == Explained(ToSet(setups))
    IN  [order     |-> Sorted(setups, explained.role),
         role      |-> explained.role,
         confident |-> Cardinality(Games(explained.role)) = 1 /\ ~explained.unexplained]

Runnable(plan) ==
    SelectSeq(plan.order, LAMBDA p : plan.role[p] # "other" /\ ~Superseded(p, plan.role))
-----------------------------------------------------------------------------
(* What the user is shown, and what is ticked. *)

(* The setup of a game that was installed before setups were tracked, too. *)
Installed(p, plan) ==
    \/ p \in done
    \/ plan.role[p] = "game" /\ installed /\ Cardinality(Games(plan.role)) = 1

Recommended(p, plan) ==
    /\ ~Installed(p, plan) /\ ~Superseded(p, plan.role) /\ plan.role[p] # "other"
    /\ IF installed THEN plan.role[p] # "game" ELSE plan.confident

SetupPrograms == LET plan == Plan(FindDownloadSetups)
                 IN  SelectSeq(plan.order, LAMBDA p : Recommended(p, plan))

(* Every other program in the download, unticked. *)
OtherPrograms == ToSet(FindDownloadPrograms) \ ToSet(FindDownloadSetups)

PendingSetups ==
    LET plan == Plan(FindDownloadSetups)
    IN  Cardinality({p \in ToSet(Runnable(plan)) : p \notin done})
-----------------------------------------------------------------------------
(* A download that is no archive is the one program. *)
Init ==
    /\ head \in Heads
    /\ \E programs \in SUBSET Program :
           /\ Cardinality(programs) \in 1 .. IF Payload = "archive" THEN MaxFiles ELSE 1
           /\ rank \in {r \in [programs -> 1 .. Cardinality(programs)] :
                           \A p, q \in programs : p # q => r[p] # r[q]}
           /\ silent \in {programs} \cup {programs \ {p} : p \in Manual}
    /\ at = "arrived" /\ queue = <<>> /\ installed = FALSE /\ done = {}
    /\ goes = 0 /\ go = <<>> /\ before = [done |-> {}, installed |-> FALSE]

Run(steps) ==
    /\ goes < MaxGoes /\ goes' = goes + 1
    /\ at' = "running" /\ queue' = steps
    /\ UNCHANGED <<head, rank, silent, installed, done>>

Unattended(steps) ==
    /\ Run(steps) /\ go' = steps
    /\ before' = [done |-> done, installed |-> installed]

Stays == UNCHANGED <<head, rank, silent, queue, done, goes, go, before>>

Unpack ==
    /\ at = "arrived" /\ Payload = "archive" /\ at' = "unpacked"
    /\ UNCHANGED installed /\ Stays

(* What needs no answers is installed, a setup program runs if it can do   *)
(* so silently, and anything else waits for the user.                      *)
AutoInstallDownload ==
    /\ at = "arrived" /\ Payload # "archive"
    /\ IF MethodsFor(Payload) # <<>> /\ Head(MethodsFor(Payload)) = "run"
          /\ \A p \in Here : RunsUnattended(p)
       THEN \E p \in Here : Run(<<p>>) /\ UNCHANGED <<go, before>>
       ELSE /\ at' = "idle" /\ installed' = (MethodsFor(Payload) = <<"copy">>)
            /\ Stays

(* The method the user named, or the one the chooser would put first. *)
InstallGame ==
    /\ at = "idle" /\ Payload # "archive"
    /\ \E method \in ToSet(MethodsFor(Payload)) :
           IF method = "run"
           THEN \E p \in Here : Run(<<p>>) /\ UNCHANGED <<go, before>>
           ELSE installed' = TRUE /\ UNCHANGED at /\ Stays

(* "Move into your games folder", which the user may choose as well. *)
MoveIntoPlace ==
    /\ at = "idle" /\ Payload = "archive"
    /\ installed' = TRUE /\ UNCHANGED at /\ Stays

(* No setups: the files are the game.  Those that run silently do, unless  *)
(* the game's does not: then all wait.                                     *)
AutoSetup ==
    LET plan == Plan(FindDownloadSetups)
        steps == Runnable(plan)
        alone == SelectSeq(steps, RunsUnattended)
    IN  /\ at = "unpacked"
        /\ IF plan.confident /\ alone # <<>>
              /\ \A p \in ToSet(steps) : plan.role[p] = "game" => RunsUnattended(p)
           THEN Unattended(alone)
           ELSE at' = "idle" /\ installed' = (plan.order = <<>>) /\ Stays

(* The ticks as they come. *)
InstallRecommended ==
    /\ at = "idle" /\ Payload = "archive" /\ SetupPrograms # <<>>
    /\ Unattended(SetupPrograms)

(* One of the user's own choice, in whatever order. *)
InstallChosen ==
    /\ at = "idle" /\ Payload = "archive"
    /\ \E p \in ToSet(FindDownloadSetups) \cup OtherPrograms : Run(<<p>>)
    /\ UNCHANGED <<go, before>>

(* The game is adopted after every step. *)
StepDone ==
    /\ at = "running" /\ queue # <<>>
    /\ done' = done \cup {Head(queue)} /\ installed' = TRUE
    /\ queue' = Tail(queue)
    /\ UNCHANGED <<head, rank, silent, at, goes, go, before>>

IsTheGame(p) ==
    \/ Payload # "archive"
    \/ p \in ToSet(FindDownloadSetups) /\ Plan(FindDownloadSetups).role[p] = "game"

(* A game that does not install, or the user, ends the run. *)
StepFails ==
    /\ at = "running" /\ queue # <<>>
    /\ \/ queue' = <<>>
       \/ ~IsTheGame(Head(queue)) /\ queue' = Tail(queue)
    /\ UNCHANGED <<head, rank, silent, at, installed, done, goes, go, before>>

RunEnds ==
    /\ at = "running" /\ queue = <<>> /\ at' = "idle"
    /\ UNCHANGED <<head, rank, silent, queue, installed, done, goes, go, before>>

Next ==
    \/ Unpack \/ AutoInstallDownload \/ InstallGame \/ MoveIntoPlace
    \/ AutoSetup \/ InstallRecommended \/ InstallChosen \/ StepDone \/ StepFails \/ RunEnds

Spec == Init /\ [][Next]_vars
-----------------------------------------------------------------------------
TypeOK ==
    /\ Here \subseteq Program /\ silent \subseteq Here /\ done \subseteq Here
    /\ at \in {"arrived", "unpacked", "running", "idle"}
    /\ ToSet(queue) \subseteq Here /\ ToSet(go) \subseteq Here
    /\ installed \in BOOLEAN /\ goes \in 0 .. MaxGoes

(* "In the order they should run": what the app runs or ticks by itself    *)
(* begins with the one game unless that is installed, goes on with patches *)
(* each of which brings a later version than the one before and than the   *)
(* game's own, and never repeats what has run.                             *)
RunsInOrder ==
    LET role == Plan(FindDownloadSetups).role
        game(p) == role[p] = "game"
    IN  /\ go # <<>> /\ ~before.installed =>
               game(go[1]) /\ \A i \in 2 .. Len(go) : ~game(go[i])
        /\ before.installed => \A i \in DOMAIN go : ~game(go[i])
        /\ \A i \in DOMAIN go : go[i] \notin before.done
        /\ \A i, j \in DOMAIN go :
               i < j => /\ go[i] # go[j]
                        /\ RoleOrder(role[go[i]]) <= RoleOrder(role[go[j]])
                        /\ go[i].to # 0 /\ go[j].to # 0 => go[i].to <= go[j].to
=============================================================================
