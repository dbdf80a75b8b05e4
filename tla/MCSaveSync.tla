----------------------------- MODULE MCSaveSync -----------------------------
(* Values of SaveSync's constants for TLC. *)
EXTENDS SaveSync, TLC

CONSTANTS desk, deck, mac

AllWindows == [p \in PC |-> "windows"]

Alike == Permutations(PC)

(* The store's versions come and go while every PC reaches it: what fails  *)
(* on the way to it is left to the other instances of SaveSync.            *)
StoreStep == reach = PC /\ Next

StoreSpec == Init /\ [][StoreStep]_vars
=============================================================================
