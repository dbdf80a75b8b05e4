---------------------------- MODULE VersionStore ----------------------------
(***************************************************************************)
(* What a store of saves promises those who use it (the SaveStore trait of *)
(* crates/gameyfin-core/src/save_store.rs): versions that appear whole and *)
(* all at once, never change, may be locked, and once gone stay gone.      *)
(***************************************************************************)
CONSTANTS
    Id,     \* the names of versions
    Save    \* what their archives may hold

VARIABLES
    held,    \* the versions that can be listed and fetched, with what they hold
    locks,   \* the ids of those that are locked
    used     \* the ids of all that ever were

vars == <<held, locks, used>>

IdsHeld == {version[1] : version \in held}

Init == held = {} /\ locks = {} /\ used = {}

Upload(id) ==
    /\ used' = used \cup {id}
    /\ \E save \in Save : held' = held \cup {<<id, save>>}
    /\ UNCHANGED locks

Delete(id) ==
    /\ held' = {version \in held : version[1] # id}
    /\ locks' = locks \ {id}
    /\ UNCHANGED used

SetLocked(id) ==
    /\ UNCHANGED <<held, used>>
    /\ locks' \in {locks \cup {id}, locks \ {id}}

Next ==
    \/ \E id \in Id \ used : Upload(id)
    \/ \E id \in IdsHeld : Delete(id) \/ SetLocked(id)

Spec == Init /\ [][Next]_vars
=============================================================================
