------------------------------- MODULE MCSaves -------------------------------
(* SaveSync in the circumstances its safety properties are checked in, for *)
(* TLC, side by side: a behaviour stays in the one it begins in.           *)
(*                                                                         *)
(*   two     two PCs of one system whose uploads race, that skip restores  *)
(*           and put old versions back                                     *)
(*   mixed   a PC of another system between them, and room for every       *)
(*           version they store: nothing is pruned                         *)
(*   faults  crashes, failing calls, skips, failed launches, deferred      *)
(*           answers, backups by hand, and one version kept                *)
(*   replica a folder that each PC has a copy of, which catches up late,   *)
(*           with outages and crashes                                      *)
(* The instances bring the theorems about SaveSync with them.              *)
EXTENDS SaveDecision, TLC

CONSTANTS
    desk, deck, mac,  \* the PCs: deck and mac are always of one system
    Sessions,         \* bound: the play sessions of two and mixed
    Few,              \* bound: those of faults and replica
    Retention         \* how many versions two and replica keep

ASSUME BoundsAssumption ==
    Sessions \in Nat /\ Few \in Nat /\ Retention \in Nat \ {0}

VARIABLES
    world,  \* which of them this behaviour is in
    store, locked, minted, removed, record, live, staging, archive,
    unsynced, answered, reach, game, upload, asked, sessions, settled

vars == <<world, store, locked, minted, removed, record, live, staging, archive,
          unsynced, answered, reach, game, upload, asked, sessions, settled>>

Pair == {deck, mac}
Trio == {desk, deck, mac}
AllWindows == [p \in Pair |-> "windows"]
OneWindows == [p \in Trio |-> IF p = desk THEN "windows" ELSE "linux"]

Two == INSTANCE SaveSync_proofs WITH
    PC <- Pair, PlatformOf <- AllWindows, MaxVersions <- Retention, Sessions <- Sessions,
    MaxUploads <- Sessions + 1, Events <- {"race", "skip", "history"}

Mixed == INSTANCE SaveSync_proofs WITH
    PC <- Trio, PlatformOf <- OneWindows, MaxVersions <- Sessions + 3, Sessions <- Sessions,
    MaxUploads <- Sessions, Events <- {"skip"}

Faults == INSTANCE SaveSync_proofs WITH
    PC <- Pair, PlatformOf <- AllWindows, MaxVersions <- 1, Sessions <- Few,
    MaxUploads <- Few, Events <- {"race", "skip", "skip-upload", "defer", "failed",
                                "crash", "by-hand", "failing"}

Replica == INSTANCE SaveSync_proofs WITH
    PC <- Pair, PlatformOf <- AllWindows, MaxVersions <- Retention, Sessions <- Few,
    MaxUploads <- 1, Events <- {"race", "outage", "crash", "lag"}

Alike == Permutations(Pair)

Init ==
    \/ world = "two" /\ Two!Init
    \/ world = "mixed" /\ Mixed!Init
    \/ world = "faults" /\ Faults!Init
    \/ world = "replica" /\ Replica!Init

Next ==
    /\ \/ world = "two" /\ Two!Next
       \/ world = "mixed" /\ Mixed!Next
       \/ world = "faults" /\ Faults!Next
       \/ world = "replica" /\ Replica!Next
    /\ UNCHANGED world

Spec == Init /\ [][Next]_vars
-----------------------------------------------------------------------------
(* docs/saves.md:73: "Backed up" means that this PC and the store match.   *)
BackedUpIsBackedUp ==
    /\ world = "two" => Two!BackedUpIsBackedUp
    /\ world = "mixed" => Mixed!BackedUpIsBackedUp

(* A launch restores unasked only what builds on the progress of this PC   *)
(* (do_restore, saves.rs).                                                 *)
ProgressKept ==
    [][/\ world = "two" => Two!RestoresProgress
       /\ world = "mixed" => Mixed!RestoresProgress]_vars

(* An upload nobody forced goes on top of the newest save it could have    *)
(* restored, also when calls fail and the app ends, and on each PC's copy  *)
(* of a replicated folder (do_backup, saves.rs).                           *)
LineageKept ==
    [][/\ world = "two" => Two!UploadsInLine
       /\ world = "mixed" => Mixed!UploadsInLine
       /\ world = "faults" => Faults!UploadsInLine
       /\ world = "replica" => Replica!UploadsInLine]_vars
=============================================================================
