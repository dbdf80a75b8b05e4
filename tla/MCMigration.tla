---------------------------- MODULE MCMigration ----------------------------
(* Stores that SaveMigration copies from, for TLC, newest version first:   *)
(* three versions, one of them locked or not, one hash that comes back,    *)
(* and two of which the newer is locked.                                   *)
EXTENDS SaveMigration

Version(hash, locked) == [hash |-> hash, locked |-> locked]

AnyStore ==
    {<<Version("c", FALSE), Version("b", FALSE), Version("a", locked)>> : locked \in BOOLEAN}
    \cup {<<Version("a", FALSE), Version("b", TRUE), Version("a", FALSE)>>,
          <<Version("b", TRUE), Version("a", FALSE)>>}
=============================================================================
