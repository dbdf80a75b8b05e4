----------------------------- MODULE ImageCache -----------------------------
(***************************************************************************)
(* Artwork for the webview (src-tauri/src/images.rs) and the folder it is  *)
(* kept in (src-tauri/src/image_cache.rs).  Requests run side by side: one *)
(* for a cover as it is, others for it scaled down, which ask for it as it *)
(* is in turn.  A file is written in place, and reading it rewrites its    *)
(* own length to mark it as used; the oldest files are pruned once, when   *)
(* the app starts, while requests are served.                              *)
(***************************************************************************)
EXTENDS Integers, FiniteSets

CONSTANTS
    None,       \* nothing there
    Request,    \* requests under way at once
    Image,      \* paths at the server
    Turns,      \* how many scale at a time
    MaxBytes,   \* how large the cache may be after pruning
    MaxUses,    \* bound: marks of use
    MaxFaults   \* bound: answers that fail, files that cannot be removed

ImageCacheAssumption ==
    /\ IsFiniteSet(Image) /\ MaxBytes \in Nat /\ MaxUses \in Nat
    /\ None \notin [len : 0 .. 2, used : Nat]

VARIABLES
    file,       \* the cache: under each key the length there and the last use
    now,        \* marks of use so far
    req,        \* what each request is at
    prune,      \* the pruner: what it listed, has still to see and has removed
    faults

vars == <<file, now, req, prune, faults>>

(* A thumbnail is cached beside the original, under a key of its own. *)
Key == Image \X {"full", "small"}
Size(key) == IF key[2] = "full" THEN 2 ELSE 1

Idle == [at |-> "idle", of |-> None, key |-> None, len |-> 0, open |-> FALSE, again |-> FALSE]

Free(r) == req[r].at = "idle"
At(r, step) == req[r].at = step
Goes(r, step) == req' = [req EXCEPT ![r].at = step]

(* Files of an earlier run, used at different times, or none. *)
Init ==
    /\ file \in [Key -> {None} \cup {[len |-> l, used |-> u] : l \in 1 .. 2, u \in 1 .. 3}]
    /\ \A k \in Key : file[k] # None => file[k].len = Size(k)
    /\ \A j, k \in Key : file[j] # None /\ file[k] # None /\ j # k => file[j].used # file[k].used
    /\ now = 3
    /\ req = [r \in Request |-> Idle]
    /\ prune = [at |-> "start", listed |-> {}, left |-> {}, gone |-> {}]
    /\ faults = 0

Fault == faults < MaxFaults /\ faults' = faults + 1

(* The webview asks for an image, as it is or scaled. *)
Ask(r, key) ==
    /\ Free(r)
    /\ req' = [req EXCEPT ![r] = [Idle EXCEPT !.at = "get", !.of = key, !.key = key]]
    /\ UNCHANGED <<file, now, prune, faults>>

Found(r) == file[req[r].key] # None /\ file[req[r].key].len > 0

(* A hit is read as it is just then, and its use is marked. *)
Hit(r) ==
    /\ At(r, "get") /\ Found(r)
    /\ Goes(r, "touch")
    /\ UNCHANGED <<file, now, prune, faults>>

(* A thumbnail that is missing is made of the original; that comes from the *)
(* server; and a request whose turn to scale has come looks once more.      *)
Miss(r) ==
    /\ At(r, "get") /\ ~Found(r)
    /\ req' = [req EXCEPT ![r] =
           IF @.again THEN [@ EXCEPT !.at = "scale"]
           ELSE IF @.key[2] = "small" THEN [@ EXCEPT !.key = <<req[r].key[1], "full">>]
           ELSE [@ EXCEPT !.at = "fetch"]]
    /\ UNCHANGED <<file, now, prune, faults>>

(* The file's length is read, and then set to what was read. *)
TouchReads(r) ==
    /\ At(r, "touch")
    /\ req' = [req EXCEPT ![r].at = "set",
                          ![r].open = file[req[r].key] # None,
                          ![r].len = IF file[req[r].key] = None THEN 0 ELSE file[req[r].key].len]
    /\ UNCHANGED <<file, now, prune, faults>>

(* Answered; or the original is there and the thumbnail is to be made. *)
Served(r) ==
    req' = [req EXCEPT ![r] =
        IF @.of = @.key THEN Idle ELSE [@ EXCEPT !.at = "turn", !.open = FALSE]]

TouchSets(r) ==
    /\ At(r, "set")
    /\ \/ /\ req[r].open /\ now < MaxUses
          /\ file' = [file EXCEPT ![req[r].key] = [len |-> req[r].len, used |-> now + 1]]
          /\ now' = now + 1
       \/ ~req[r].open /\ UNCHANGED <<file, now>>
    /\ Served(r)
    /\ UNCHANGED <<prune, faults>>

Answered(r) ==
    /\ At(r, "fetch")
    /\ Goes(r, "put")
    /\ UNCHANGED <<file, now, prune, faults>>

(* Not connected, an HTTP error, no answer, or a body that breaks off. *)
Unanswered(r) ==
    /\ At(r, "fetch") /\ Fault
    /\ req' = [req EXCEPT ![r] = Idle]
    /\ UNCHANGED <<file, now, prune>>

(* put: the file is emptied, then written. *)
PutOpens(r) ==
    /\ At(r, "put") /\ now < MaxUses
    /\ file' = [file EXCEPT ![req[r].key] = [len |-> 0, used |-> now + 1]]
    /\ now' = now + 1
    /\ req' = [req EXCEPT ![r].at = "write", ![r].open = TRUE, ![r].len = 0]
    /\ UNCHANGED <<prune, faults>>

Longer(a, b) == IF a > b THEN a ELSE b

(* Written a piece at a time, each at its place: a file that was removed    *)
(* meanwhile is written all the same, where nobody finds it.                *)
PutWrites(r) ==
    /\ At(r, "write") /\ req[r].len < Size(req[r].key)
    /\ req' = [req EXCEPT ![r].len = @ + 1]
    /\ file' = IF req[r].open
               THEN [file EXCEPT ![req[r].key].len = Longer(@, req[r].len + 1)] ELSE file
    /\ UNCHANGED <<now, prune, faults>>

PutEnds(r) ==
    /\ At(r, "write") /\ req[r].len = Size(req[r].key)
    /\ Served(r)
    /\ UNCHANGED <<file, now, prune, faults>>

Scaling == {r \in Request : req[r].again /\ req[r].at # "idle"}

(* A mistake to check against: nobody waits for a turn. *)
TakeTurnAtOnce(r) ==
    /\ At(r, "turn")
    /\ req' = [req EXCEPT ![r].at = "get", ![r].key = req[r].of, ![r].again = TRUE]
    /\ UNCHANGED <<file, now, prune, faults>>

(* A turn at the semaphore, kept until the request is answered. *)
TakeTurn(r) ==
    /\ At(r, "turn") /\ Cardinality(Scaling) < Turns
    /\ req' = [req EXCEPT ![r].at = "get", ![r].key = req[r].of, ![r].again = TRUE]
    /\ UNCHANGED <<file, now, prune, faults>>

(* Scaled and cached, or served as it is: small enough, or unreadable. *)
Scale(r) ==
    /\ At(r, "scale")
    /\ \/ Goes(r, "put")
       \/ req' = [req EXCEPT ![r] = Idle]
    /\ UNCHANGED <<file, now, prune, faults>>

(* Whoever has the file open goes on with one nobody finds. *)
Unlinked(key) ==
    /\ file' = [file EXCEPT ![key] = None]
    /\ req' = [r \in Request |-> IF req[r].key = key THEN [req[r] EXCEPT !.open = FALSE] ELSE req[r]]

(* How much the entries take, counted a byte at a time. *)
Bytes(entries) == Cardinality({b \in entries \X (1 .. 2) : b[2] <= b[1].size})

Listed == {[key |-> k, size |-> file[k].len, used |-> file[k].used] : k \in {j \in Key : file[j] # None}}

Entry == [key : Key, size : 0 .. 2, used : 1 .. MaxUses]

(* The spawned pruner lists the folder once. *)
PruneLists ==
    /\ prune.at = "start"
    /\ prune' = [at |-> "listed", listed |-> Listed, left |-> Listed, gone |-> {}]
    /\ UNCHANGED <<file, now, req, faults>>

(* A mistake to check against: the most recent first. *)
MostRecent(entries) == {e \in entries : \A o \in entries : o.used <= e.used}

LeastRecent(entries) == {e \in entries : \A o \in entries : e.used <= o.used}

StillOver == Bytes(prune.listed) - Bytes(prune.gone) > MaxBytes

(* Until it fits, the file used longest ago when it was listed goes,        *)
(* whatever has happened to it since; one that cannot be removed, or is     *)
(* gone already, is passed over.                                            *)
PruneRemoves ==
    /\ prune.at = "listed" /\ StillOver
    /\ \E e \in LeastRecent(prune.left) :
        \/ /\ file[e.key] # None
           /\ Unlinked(e.key)
           /\ prune' = [prune EXCEPT !.left = @ \ {e}, !.gone = @ \cup {e}]
           /\ UNCHANGED faults
        \/ /\ prune' = [prune EXCEPT !.left = @ \ {e}]
           /\ IF file[e.key] = None THEN UNCHANGED faults ELSE Fault
           /\ UNCHANGED <<file, req>>
    /\ UNCHANGED now

PruneEnds ==
    /\ prune.at = "listed" /\ (StillOver => prune.left = {})
    /\ prune' = [prune EXCEPT !.at = "done"]
    /\ UNCHANGED <<file, now, req, faults>>

(* clear_image_cache: the whole folder goes. *)
Clear ==
    /\ Fault
    /\ file' = [k \in Key |-> None]
    /\ req' = [r \in Request |-> [req[r] EXCEPT !.open = FALSE]]
    /\ UNCHANGED <<now, prune>>

Next ==
    \/ \E r \in Request :
        \/ \E key \in Key : Ask(r, key)
        \/ Hit(r) \/ Miss(r) \/ TouchReads(r) \/ TouchSets(r)
        \/ Answered(r) \/ Unanswered(r)
        \/ PutOpens(r) \/ PutWrites(r) \/ PutEnds(r) \/ TakeTurn(r) \/ Scale(r)
    \/ PruneLists \/ PruneRemoves \/ PruneEnds \/ Clear

Spec == Init /\ [][Next]_vars
-----------------------------------------------------------------------------

TypeOK ==
    /\ \A k \in Key : file[k] = None \/ (file[k].len \in 0 .. 2 /\ file[k].used \in 1 .. MaxUses)
    /\ now \in 3 .. MaxUses
    /\ \A r \in Request :
        /\ req[r].at \in {"idle", "get", "touch", "set", "fetch", "put", "write", "turn", "scale"}
        /\ req[r].key \in Key \cup {None} /\ req[r].of \in Key \cup {None}
        /\ req[r].len \in 0 .. 2 /\ req[r].open \in BOOLEAN /\ req[r].again \in BOOLEAN
    /\ prune.listed \subseteq Entry /\ prune.left \cup prune.gone \subseteq prune.listed
    /\ Cardinality(Scaling) <= Turns
    /\ faults \in 0 .. MaxFaults

(***************************************************************************)
(* While requests write, mark and read the same files: what the pruner     *)
(* removed was used, when it listed it, no later than anything it let be;  *)
(* it removes nothing more once what it listed fits; and when no removal   *)
(* failed, it does fit (ImageCache::prune, "drop the least recently used   *)
(* entries until the cache fits").                                         *)
(***************************************************************************)
PrunedLeastRecent ==
    LET gone == prune.gone
        kept == prune.listed \ prune.gone
    IN  /\ faults = 0 => \A e \in gone, g \in kept : e.used <= g.used
        /\ \A e \in gone : (\A o \in gone : o.used <= e.used) => Bytes(kept \cup {e}) > MaxBytes
        /\ prune.at = "done" /\ faults = 0 => Bytes(kept) <= MaxBytes

(***************************************************************************)
(* A cached file nobody is writing is whole: marking its use is "a no-op   *)
(* on the contents" (filetime_touch).                                      *)
(***************************************************************************)
CachedIsWhole ==
    \A k \in Key :
        file[k] # None /\ (\A r \in Request : ~(At(r, "write") /\ req[r].key = k))
            => file[k].len = Size(k)
=============================================================================
