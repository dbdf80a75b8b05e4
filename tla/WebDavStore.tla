----------------------------- MODULE WebDavStore -----------------------------
(***************************************************************************)
(* One game's collection on a WebDAV share that several PCs keep saves in, *)
(* request by request: WebDavStore in crates/gameyfin-core/src/            *)
(* save_store.rs.  The layout is FolderStore's, but a listing is a         *)
(* PROPFIND and a GET for each sidecar, a request may be refused, and one  *)
(* whose answer does not come may have been carried out, may be carried    *)
(* out later, or never.                                                    *)
(*                                                                         *)
(* A PC has one call under way.  What the caller thinks is the newest      *)
(* version (base_save_id) and whether it forces its own are inputs: an     *)
(* upload that finds another version may end in a conflict or go on.       *)
(***************************************************************************)
EXTENDS Integers, FiniteSets

CONSTANTS
    PC,           \* the installations, which are numbers: their ids have an order
    Save,         \* what an archive may hold
    None,         \* no file
    MaxVersions,  \* the retention limit
    MaxClock,     \* bound: milliseconds that pass
    MaxCalls,     \* bound: calls there are in all
    MaxFaults     \* bound: requests refused or left without an answer

WebDavStoreAssumption ==
    /\ PC \subseteq Nat /\ IsFiniteSet(PC)
    /\ None \notin Save
    /\ MaxVersions \in Nat \ {0}
    /\ MaxClock \in Nat \ {0} /\ MaxCalls \in Nat /\ MaxFaults \in Nat

VARIABLES
    zip,      \* each version's archive
    json,     \* each version's sidecar: the hash of its archive
    marker,   \* the ids with a lock marker
    made,     \* whether the game's collection exists
    late,     \* requests without an answer that may still be carried out
    clock,    \* epoch milliseconds
    last,     \* the millisecond of each PC's last upload: another takes longer
    call,     \* each PC's call
    told,     \* the last answer each PC had to an upload
    got,      \* the archive each PC fetched last
    calls,    \* bound: calls so far
    faults,   \* bound: faults so far
    doomed    \* ghost: the versions whose deletion began

share == <<zip, json, marker, made, late>>
vars == <<share, clock, last, call, told, got, calls, faults, doomed>>

(* <<millis, installation>>, as in 1700000000000_laptop. *)
Id == (1 .. MaxClock) \X PC

NoId == <<0, 0>>

After(a, b) == a[1] > b[1] \/ (a[1] = b[1] /\ a[2] > b[2])

NewestOf(ids) == CHOOSE id \in ids : \A other \in ids \ {id} : After(id, other)

NoCall == [at |-> "idle", why |-> "upload", save |-> None, id |-> NoId,
           names |-> {}, locks |-> {}, found |-> {}]

NoAnswer == [kind |-> "none", id |-> NoId, save |-> None]

Request == [what : {"collection", "zip", "json", "lock", "unlock", "no zip", "no json"},
            id : Id \cup {NoId}, save : Save \cup {None}]

TypeOK ==
    /\ zip \in [Id -> Save \cup {None}] /\ json \in [Id -> Save \cup {None}]
    /\ marker \subseteq Id /\ made \in BOOLEAN /\ late \subseteq Request
    /\ clock \in 1 .. MaxClock /\ last \in [PC -> 0 .. MaxClock]
    /\ \A p \in PC :
           /\ call[p].at \in {"idle", "asking", "reading", "collecting", "zip",
                              "json", "no zip", "no json", "unlock", "locking", "fetching"}
           /\ call[p].names \cup call[p].locks \subseteq Id
           /\ call[p].found \subseteq Id \X Save
           /\ told[p].kind \in {"none", "stored", "unchanged"}
           /\ got[p] \in Save \cup {None}
    /\ calls \in 0 .. MaxCalls /\ faults \in 0 .. MaxFaults
    /\ doomed \subseteq Id

Init ==
    /\ zip = [id \in Id |-> None] /\ json = [id \in Id |-> None]
    /\ marker = {} /\ made = FALSE /\ late = {}
    /\ clock = 1 /\ last = [p \in PC |-> 0]
    /\ call = [p \in PC |-> NoCall]
    /\ told = [p \in PC |-> NoAnswer] /\ got = [p \in PC |-> None]
    /\ calls = 0 /\ faults = 0 /\ doomed = {}

Listable == {id \in Id : json[id] # None}

Ids(found) == {version[1] : version \in found}
-----------------------------------------------------------------------------
(* Requests. *)

(* What carrying out a request does to the share: a file is put whole.     *)
CarriedOut(r) ==
    /\ zip' = CASE r.what = "zip" -> [zip EXCEPT ![r.id] = r.save]
                [] r.what = "no zip" -> [zip EXCEPT ![r.id] = None]
                [] OTHER -> zip
    /\ json' = CASE r.what = "json" -> [json EXCEPT ![r.id] = r.save]
                 [] r.what = "no json" -> [json EXCEPT ![r.id] = None]
                 [] OTHER -> json
    /\ marker' = CASE r.what = "lock" -> marker \cup {r.id}
                   [] r.what = "unlock" -> marker \ {r.id}
                   [] OTHER -> marker
    /\ made' = (made \/ r.what = "collection")

(* There is nowhere to put a file before the collection is made. *)
Possible(r) == made \/ r.what \notin {"zip", "json", "lock"}

Heard(r) == Possible(r) /\ CarriedOut(r) /\ UNCHANGED <<late, faults>>

(* Refused, or the answer is lost on its way, or the request is.           *)
Unheard(r) ==
    /\ faults < MaxFaults /\ faults' = faults + 1
    /\ \/ UNCHANGED share
       \/ Possible(r) /\ CarriedOut(r) /\ UNCHANGED late
       \/ late' = late \cup {r} /\ UNCHANGED <<zip, json, marker, made>>

Lands ==
    /\ \E r \in late :
           /\ late' = late \ {r}
           /\ IF Possible(r) THEN CarriedOut(r) ELSE UNCHANGED <<zip, json, marker, made>>
    /\ UNCHANGED <<clock, last, call, told, got, calls, faults, doomed>>

Ask(p, r, next) ==
    \/ Heard(r) /\ call' = [call EXCEPT ![p] = next]
    \/ Unheard(r) /\ call' = [call EXCEPT ![p] = NoCall]

To(p, at) == [call[p] EXCEPT !.at = at]

Of(p, what) == [what |-> what, id |-> call[p].id, save |-> call[p].save]

Tick ==
    /\ clock < MaxClock /\ clock' = clock + 1
    /\ UNCHANGED <<share, last, call, told, got, calls, faults, doomed>>
-----------------------------------------------------------------------------
(* The calls begin; an upload, its pruning and delete_all begin by listing. *)

Begin(p, next) ==
    /\ call[p].at = "idle" /\ calls < MaxCalls
    /\ calls' = calls + 1
    /\ call' = [call EXCEPT ![p] = next]
    /\ UNCHANGED <<share, clock, last, faults>>

Upload(p) ==
    /\ \E save \in Save : Begin(p, [NoCall EXCEPT !.at = "asking", !.save = save])
    /\ told' = [told EXCEPT ![p] = NoAnswer]
    /\ UNCHANGED <<got, doomed>>

DeleteAll(p) ==
    /\ made /\ Begin(p, [NoCall EXCEPT !.at = "asking", !.why = "delete all"])
    /\ UNCHANGED <<told, got, doomed>>

(* Of a version some listing had, which may be gone by now. *)
Shown == doomed \cup Listable

Delete(p) ==
    /\ \E id \in Shown :
           /\ Begin(p, [NoCall EXCEPT !.at = "no zip", !.why = "delete", !.names = {id}])
    /\ UNCHANGED <<told, got, doomed>>

Lock(p) ==
    /\ \E id \in Shown : \E why \in {"lock", "unlock"} :
           Begin(p, [NoCall EXCEPT !.at = "locking", !.why = why, !.id = id])
    /\ UNCHANGED <<told, got, doomed>>

Fetch(p) ==
    /\ \E id \in Shown : Begin(p, [NoCall EXCEPT !.at = "fetching", !.id = id])
    /\ got' = [got EXCEPT ![p] = None]
    /\ UNCHANGED <<told, doomed>>
-----------------------------------------------------------------------------
(* list: the names, the markers among them, and the sidecars one by one. *)

Children(p) ==
    /\ call[p].at = "asking"
    /\ \/ /\ call' = [call EXCEPT ![p].at = "reading", ![p].names = Listable,
                                  ![p].locks = marker, ![p].found = {}]
          /\ UNCHANGED faults
       \/ /\ faults < MaxFaults /\ faults' = faults + 1
          /\ call' = [call EXCEPT ![p] = NoCall]
    /\ UNCHANGED <<share, clock, last, told, got, calls, doomed>>

(* One that is refused, gone or unreadable is skipped; without an answer   *)
(* there is no listing.                                                    *)
Sidecar(p) ==
    /\ call[p].at = "reading"
    /\ \E id \in call[p].names :
           \/ /\ call' = [call EXCEPT ![p].names = @ \ {id},
                      ![p].found = IF json[id] = None THEN @ ELSE @ \cup {<<id, json[id]>>}]
              /\ UNCHANGED faults
           \/ /\ faults < MaxFaults /\ faults' = faults + 1
              /\ \/ call' = [call EXCEPT ![p].names = @ \ {id}]
                 \/ call' = [call EXCEPT ![p] = NoCall]
    /\ UNCHANGED <<share, clock, last, told, got, calls, doomed>>

ListRead(p) == call[p].at = "reading" /\ call[p].names = {}

NewestFound(p) ==
    CHOOSE version \in call[p].found : version[1] = NewestOf(Ids(call[p].found))

(* This millisecond, or the first one from it no version here has. *)
NextVersionId(existing, p) ==
    LET free == {id \in Id : id[1] >= clock /\ id[2] = p /\ id \notin existing}
    IN  CHOOSE id \in free : \A other \in free \ {id} : After(other, id)

SameAsNewest(p) == call[p].found # {} /\ NewestFound(p)[2] = call[p].save

Unchanged(p) ==
    /\ ListRead(p) /\ call[p].why = "upload" /\ SameAsNewest(p)
    /\ told' = [told EXCEPT ![p] =
           [kind |-> "unchanged", id |-> NewestFound(p)[1], save |-> call[p].save]]
    /\ call' = [call EXCEPT ![p] = NoCall]
    /\ UNCHANGED <<share, clock, last, got, calls, faults, doomed>>

(* Another version is the newest than the caller thinks. *)
Conflict(p) ==
    /\ ListRead(p) /\ call[p].why = "upload" /\ ~SameAsNewest(p)
    /\ call[p].found # {}
    /\ call' = [call EXCEPT ![p] = NoCall]
    /\ UNCHANGED <<share, clock, last, told, got, calls, faults, doomed>>

(* The caller knows of the newest version, insists, or there is none. *)
GoOn(p) ==
    /\ ListRead(p) /\ call[p].why = "upload" /\ ~SameAsNewest(p)
    /\ call' = [call EXCEPT ![p].at = "collecting"]
    /\ UNCHANGED <<share, clock, last, told, got, calls, faults, doomed>>

(* MKCOL, 405 being as good as done; then the new version has its id.      *)
EnsureCollection(p) ==
    /\ call[p].at = "collecting"
    /\ last[p] < clock /\ last' = [last EXCEPT ![p] = clock]
    /\ Ask(p, Of(p, "collection"),
           [To(p, "zip") EXCEPT !.id = NextVersionId(Ids(call[p].found), p),
                                !.found = {}, !.locks = {}])
    /\ UNCHANGED <<clock, told, got, calls, doomed>>

(* A mistake to check against: an archive that was turned down is passed over. *)
PutArchiveUnheeded(p) ==
    /\ call[p].at = "zip"
    /\ Heard(Of(p, "zip")) \/ Unheard(Of(p, "zip"))
    /\ call' = [call EXCEPT ![p] = To(p, "json")]
    /\ UNCHANGED <<clock, last, told, got, calls, doomed>>

PutArchive(p) ==
    /\ call[p].at = "zip"
    /\ Ask(p, Of(p, "zip"), To(p, "json"))
    /\ UNCHANGED <<clock, last, told, got, calls, doomed>>

(* "Sidecar second, so an interrupted upload leaves an archive nothing     *)
(* lists."  Then prune lists again.                                        *)
PutSidecar(p) ==
    /\ call[p].at = "json"
    /\ Ask(p, Of(p, "json"), [To(p, "asking") EXCEPT !.why = "prune"])
    /\ UNCHANGED <<clock, last, told, got, calls, doomed>>
-----------------------------------------------------------------------------
(* Past the limit among those that are not locked. *)
Stale(p) ==
    LET unlocked == Ids(call[p].found) \ call[p].locks
    IN  {id \in unlocked :
            Cardinality({other \in unlocked : After(other, id)}) >= MaxVersions}

(* What prune, or delete_all, is going to delete. *)
Listed(p) ==
    /\ ListRead(p) /\ call[p].why # "upload"
    /\ call' = [call EXCEPT ![p] =
           [To(p, "no zip") EXCEPT
               !.names = IF call[p].why = "prune" THEN Stale(p) ELSE Ids(call[p].found),
               !.found = {}, !.locks = {}]]
    /\ UNCHANGED <<share, clock, last, told, got, calls, faults, doomed>>

Victim(p) == NewestOf(call[p].names)

(* Three requests, whatever comes of each. *)
Remove(p, what, next) ==
    LET r == [what |-> what, id |-> Victim(p), save |-> None]
    IN  /\ call[p].at = what /\ call[p].names # {}
        /\ Heard(r) \/ Unheard(r)
        /\ call' = [call EXCEPT ![p] = next]
        /\ UNCHANGED <<clock, last, told, got, calls>>

RemoveArchive(p) ==
    Remove(p, "no zip", To(p, "no json")) /\ doomed' = doomed \cup {Victim(p)}

RemoveSidecar(p) == Remove(p, "no json", To(p, "unlock")) /\ UNCHANGED doomed

RemoveMarker(p) ==
    /\ Remove(p, "unlock", [To(p, "no zip") EXCEPT !.names = @ \ {Victim(p)}])
    /\ UNCHANGED doomed

(* Nothing is left to delete: an upload has its answer. *)
Done(p) ==
    /\ call[p].at = "no zip" /\ call[p].names = {}
    /\ call' = [call EXCEPT ![p] = NoCall]
    /\ told' = IF call[p].why = "prune"
               THEN [told EXCEPT ![p] =
                        [kind |-> "stored", id |-> call[p].id, save |-> call[p].save]]
               ELSE told
    /\ UNCHANGED <<share, clock, last, got, calls, faults, doomed>>

SetLocked(p) ==
    /\ call[p].at = "locking"
    /\ Ask(p, [what |-> call[p].why, id |-> call[p].id, save |-> None], NoCall)
    /\ UNCHANGED <<clock, last, told, got, calls, doomed>>

(* An archive that is not there is an error, and nothing is written. *)
Fetched(p) ==
    /\ call[p].at = "fetching"
    /\ call' = [call EXCEPT ![p] = NoCall]
    /\ \/ got' = [got EXCEPT ![p] = zip[call[p].id]] /\ UNCHANGED faults
       \/ faults < MaxFaults /\ faults' = faults + 1 /\ UNCHANGED got
    /\ UNCHANGED <<share, clock, last, told, calls, doomed>>

(* The app ends in the midst of a call. *)
Quit(p) ==
    /\ call[p].at # "idle"
    /\ faults < MaxFaults /\ faults' = faults + 1
    /\ call' = [call EXCEPT ![p] = NoCall]
    /\ UNCHANGED <<share, clock, last, told, got, calls, doomed>>
-----------------------------------------------------------------------------
Next ==
    \/ Tick \/ Lands
    \/ \E p \in PC :
           \/ Upload(p) \/ DeleteAll(p) \/ Delete(p) \/ Lock(p) \/ Fetch(p)
           \/ Children(p) \/ Sidecar(p) \/ Unchanged(p) \/ Conflict(p) \/ GoOn(p)
           \/ EnsureCollection(p) \/ PutArchive(p) \/ PutSidecar(p) \/ Listed(p) \/ RemoveArchive(p)
           \/ RemoveSidecar(p) \/ RemoveMarker(p) \/ Done(p) \/ SetLocked(p)
           \/ Fetched(p) \/ Quit(p)

Spec == Init /\ [][Next]_vars
-----------------------------------------------------------------------------
(* What a listing of the share may name has the archive its sidecar        *)
(* describes, or, once somebody began to delete it, none any more, and     *)
(* never another upload's, whatever requests were lost, refused or late.   *)
ListedIsWhole ==
    \A id \in Listable : zip[id] = json[id] \/ (id \in doomed /\ zip[id] = None)

(* A PC that was told its save is stored, or is there already, finds it    *)
(* there whole, whatever requests were lost, refused or late, until        *)
(* somebody begins to delete that version.                                 *)
AnsweredIsHeld ==
    \A p \in PC : LET answer == told[p] IN
        answer.kind # "none" /\ answer.id \notin doomed =>
            zip[answer.id] = answer.save /\ json[answer.id] = answer.save

Whole == {id \in Listable : zip[id] = json[id]}

(* What the share is to those who use it (VersionStore). *)
Held == {<<id, json[id]>> : id \in Whole}
Locked == marker \cap Whole
Used == Listable \cup doomed
=============================================================================
