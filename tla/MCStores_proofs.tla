---------------------------- MODULE MCStores_proofs ----------------------------
(***************************************************************************)
(* Proofs about the stores of saves: what is listed in a folder or on a    *)
(* WebDAV share is whole, or was once its deletion began, and what was     *)
(* answered is held (HeldWhole), and either implements VersionStore        *)
(* (IsVersionStore), for any PCs, saves, bounds and limits.                *)
(*                                                                         *)
(* Both follow from one inductive invariant, StoresInv.  Of a folder it    *)
(* says which file of a version is there at which point of an upload or a  *)
(* deletion; of a share also what a request whose answer was given up on   *)
(* may still do: a file that arrives late is of an id nobody was shown and *)
(* nobody will make again, a deletion that arrives late is of a version    *)
(* whose deletion began, a late sidecar finds its archive there.           *)
(***************************************************************************)
EXTENDS MCStores, TLAPS, FiniteSetTheorems, WellFoundedInduction

(* How many of a folder's versions are newer.                              *)
Newer(id) == {other \in stored : Folder!After(other, id)}

Outdated(id) == Cardinality(Newer(id)) >= MaxVersions

Uploading == {"listed", "copying", "copied", "describing"}

(* A folder's version has a sidecar from the end of its upload until its   *)
(* deletion, and nothing is deleted in the millisecond it was made in.     *)
FolderVersions ==
    /\ Folder!Listed \subseteq stored
    /\ stored \subseteq Folder!Listed \cup doomed
    /\ doomed \subseteq stored
    /\ \A id \in doomed : id[1] < clock
    /\ marker \subseteq stored

(* An upload's id is its own, and its archive is there when it is copied.  *)
OwnUpload(p) ==
    /\ call[p].at \in Uploading \cup {"stored"} => call[p].why = "upload"
    /\ call[p].at \in Uploading =>
        /\ call[p].id \in Folder!Id \ stored /\ call[p].id[2] = p
        /\ call[p].save \in Save
        /\ call[p].at \in {"copied", "describing"} => zip[call[p].id] = call[p].save

(* What is to be deleted was stored once, and is what a user chose or is   *)
(* past the limit.                                                         *)
OwnRemovals(p) ==
    /\ \A id \in call[p].todo :
           id \in stored /\ (id \in chosen \/ (call[p].why = "upload" /\ Outdated(id)))
    /\ call[p].at \in {"archive gone", "sidecar gone"} =>
           call[p].todo # {} /\ Folder!Removing(p) \in doomed

FolderCalls == \A p \in PC : OwnUpload(p) /\ OwnRemovals(p)

DoomedRightly == \A id \in doomed : id \in chosen \/ Outdated(id)

FolderInv ==
    /\ Folder!TypeOK
    /\ FolderVersions /\ FolderCalls /\ DoomedRightly
    /\ Folder!ListedIsWhole

(* That id is there with that archive, unless its deletion began.          *)
HeldAs(id, save) ==
    /\ id \in WebDav!Shown
    /\ id \notin doomed => zip[id] = save /\ sidecar[id] = save

ShareCall ==
    [at : {"idle", "asking", "reading", "collecting", "zip", "json", "no zip", "no json",
           "unlock", "locking", "fetching"},
     why : {"upload", "prune", "delete", "delete all", "lock", "unlock"},
     save : Save \cup {None}, id : WebDav!Id \cup {WebDav!NoId},
     names : SUBSET WebDav!Id, locks : SUBSET WebDav!Id,
     found : SUBSET (WebDav!Id \X Save)]

ShareAnswer ==
    [kind : {"none", "stored", "unchanged"},
     id : WebDav!Id \cup {WebDav!NoId}, save : Save \cup {None}]

ShareTypes ==
    /\ zip \in [WebDav!Id -> Save \cup {None}] /\ sidecar \in [WebDav!Id -> Save \cup {None}]
    /\ marker \subseteq WebDav!Shown /\ doomed \subseteq WebDav!Id
    /\ made \in BOOLEAN /\ late \subseteq WebDav!Request
    /\ clock \in 1 .. MaxClock /\ last \in [PC -> 0 .. MaxClock]
    /\ call \in [PC -> ShareCall] /\ told \in [PC -> ShareAnswer]

(* What was put is whole, and nobody will have its id again.               *)
ShareVersions ==
    /\ WebDav!ListedIsWhole
    /\ \A id \in WebDav!Shown : id[1] <= last[id[2]]

InHand(p) == call[p].at \in {"zip", "json"}

(* A file that may yet arrive is of an upload that is over, and a sidecar  *)
(* finds its archive there.                                                *)
LateRequest(r) ==
    /\ r.what \in {"zip", "json"} =>
           /\ r.id \in WebDav!Id \ WebDav!Shown /\ r.save \in Save
           /\ r.id[1] <= last[r.id[2]]
           /\ \A p \in PC : InHand(p) => call[p].id # r.id
    /\ r.what = "json" => zip[r.id] = r.save
    /\ r.what = "zip" => \A s \in late : s.what = "json" => s.id # r.id
    /\ r.what \in {"no zip", "no json"} => r.id \in doomed
    /\ r.what = "lock" => r.id \in WebDav!Shown

LateRequests == \A r \in late : LateRequest(r)

(* An upload's id is its own, what is to be deleted was seen once, and     *)
(* what a PC found or was told of is there, but for what is deleted.       *)
OwnCall(p) ==
    /\ call[p].why = "upload" /\ call[p].at \in {"asking", "reading", "collecting"} =>
           call[p].save \in Save
    /\ call[p].at = "collecting" => call[p].why = "upload"
    /\ InHand(p) =>
           /\ call[p].why = "upload" /\ call[p].save \in Save
           /\ call[p].id = <<last[p], p>>
           /\ call[p].id \in WebDav!Id \ WebDav!Shown
    /\ call[p].at = "json" => zip[call[p].id] = call[p].save
    /\ call[p].why = "prune" => HeldAs(call[p].id, call[p].save)
    /\ call[p].names \subseteq WebDav!Shown
    /\ \A version \in call[p].found : HeldAs(version[1], version[2])
    /\ call[p].at \in {"no json", "unlock"} =>
           call[p].names # {} /\ WebDav!Victim(p) \in doomed
    /\ call[p].at = "locking" =>
           call[p].why \in {"lock", "unlock"} /\ call[p].id \in WebDav!Shown
    /\ told[p].kind # "none" => HeldAs(told[p].id, told[p].save)

ShareCalls == \A p \in PC : OwnCall(p)

ShareInv == ShareTypes /\ ShareVersions /\ LateRequests /\ ShareCalls

StoresInv ==
    /\ kind \in {"folder", "webdav"}
    /\ kind = "folder" => FolderInv
    /\ kind = "webdav" => ShareInv

(* A finite set that is not empty has a least element in a total order.    *)
LEMMA FiniteOrderHasLeast ==
  ASSUME NEW S, IsFiniteSet(S), S # {}, NEW R,
         \A a, b \in S : a = b \/ <<a, b>> \in R \/ <<b, a>> \in R,
         \A a, b, c \in S : <<a, b>> \in R /\ <<b, c>> \in R => <<a, c>> \in R
  PROVE  \E a \in S : \A b \in S \ {a} : <<a, b>> \in R
<1> DEFINE HasLeast(T) == \E a \in T : \A b \in T \ {a} : <<a, b>> \in R
           Bad == {T \in SUBSET S : T # {} /\ ~HasLeast(T)}
<1>1. SUFFICES ASSUME Bad # {} PROVE FALSE
  OBVIOUS
<1>2. PICK T \in Bad : \A U \in Bad : ~(<<U, T>> \in StrictSubsetOrdering(S))
  <2>1. Bad \subseteq FiniteSubsetsOf(S)
    BY FS_FiniteSubsetsOfFinite
  <2> HIDE DEF Bad
  <2> QED
    BY <1>1, <2>1, FS_StrictSubsetOrderingWellFounded, WFMin
<1>3. PICK x \in T : TRUE
  OBVIOUS
<1> DEFINE U == T \ {x}
<1>4. U # {}
  BY <1>3
<1>5. U \notin Bad
  <2>1. <<U, T>> \in (SUBSET S) \X (SUBSET S) /\ U \subseteq T /\ U # T
    BY <1>3
  <2>2. <<U, T>> \in StrictSubsetOrdering(S)
    BY <2>1, Zenon DEF StrictSubsetOrdering
  <2> QED
    BY <1>2, <2>2
<1>6. PICK a \in U : \A b \in U \ {a} : <<a, b>> \in R
  BY <1>4, <1>5
<1>7. CASE <<a, x>> \in R
  BY <1>7, <1>6, <1>3
<1>8. CASE <<x, a>> \in R
  <2>1. \A b \in T \ {x} : <<x, b>> \in R
    BY <1>8, <1>6, <1>3
  <2> QED
    BY <2>1, <1>3
<1> QED
  BY <1>3, <1>6, <1>7, <1>8

(* The stores count as everybody does.                                     *)
LEMMA SameCounting ==
  ASSUME NEW S
  PROVE  /\ Folder!IsFiniteSet(S) <=> IsFiniteSet(S)
         /\ WebDav!IsFiniteSet(S) <=> IsFiniteSet(S)
         /\ Folder!Cardinality(S) = Cardinality(S)
         /\ WebDav!Cardinality(S) = Cardinality(S)
<1> USE DEF Folder!IsFiniteSet, WebDav!IsFiniteSet, IsFiniteSet
<1>1. Folder!Cardinality(S) = Cardinality(S)
  BY DEF Folder!Cardinality, Cardinality
<1>2. WebDav!Cardinality(S) = Cardinality(S)
  BY DEF WebDav!Cardinality, Cardinality
<1> QED
  BY <1>1, <1>2

LEMMA Constants ==
    /\ PC \subseteq Nat /\ IsFiniteSet(PC)
    /\ None \notin Save /\ Part \notin Save /\ None # Part
    /\ MaxVersions \in Nat \ {0} /\ MaxUploads \in Nat \ {0} /\ MaxClock \in Nat \ {0}
    /\ MaxCalls \in Nat /\ MaxFaults \in Nat
  BY MCStoresAssumption, SameCounting
     DEF Folder!FolderStoreAssumption, WebDav!WebDavStoreAssumption

(* Ids are totally ordered, by their milliseconds and then by their PCs.   *)
LEMMA Newest ==
  ASSUME NEW ids \in SUBSET (Nat \X Nat), IsFiniteSet(ids), ids # {}
  PROVE  /\ \E id \in ids : \A other \in ids \ {id} : Folder!After(id, other)
         /\ \E id \in ids : \A other \in ids \ {id} : Folder!After(other, id)
<1> DEFINE R == {ab \in ids \X ids : Folder!After(ab[1], ab[2])}
           Q == {ab \in ids \X ids : Folder!After(ab[2], ab[1])}
<1>1. /\ \A a, b \in ids : <<a, b>> \in R <=> Folder!After(a, b)
      /\ \A a, b \in ids : <<a, b>> \in Q <=> Folder!After(b, a)
  OBVIOUS
<1>2. \A a, b \in ids : a = b \/ Folder!After(a, b) \/ Folder!After(b, a)
  BY DEF Folder!After
<1>3. \A a, b, c \in ids : Folder!After(a, b) /\ Folder!After(b, c) => Folder!After(a, c)
  BY DEF Folder!After
<1> HIDE DEF R, Q
<1>4. \E id \in ids : \A other \in ids \ {id} : <<id, other>> \in R
  BY <1>1, <1>2, <1>3, FiniteOrderHasLeast, SMTT(60)
<1>5. \E id \in ids : \A other \in ids \ {id} : <<id, other>> \in Q
  BY <1>1, <1>2, <1>3, FiniteOrderHasLeast
<1> QED
  BY <1>1, <1>4, <1>5

LEMMA FolderIds == IsFiniteSet(Folder!Id) /\ Folder!Id \subseteq Nat \X Nat
<1> DEFINE times == 1 .. MaxClock + MaxUploads - 1
<1>1. IsFiniteSet(times) /\ times \subseteq Nat
  BY Constants, FS_Interval
<1> HIDE DEF times
<1>2. Folder!Id = times \X PC
  BY DEF Folder!Id, times
<1>3. IsFiniteSet(times \X PC)
  BY <1>1, Constants, FS_Product
<1>4. PC \subseteq Nat
  BY Constants
<1>5. times \X PC \subseteq Nat \X Nat
  BY <1>1, <1>4
<1> QED
  BY <1>2, <1>3, <1>5

LEMMA FolderNewest ==
  ASSUME NEW ids \in SUBSET Folder!Id, ids # {}
  PROVE  Folder!NewestOf(ids) \in ids
<1>1. IsFiniteSet(ids)
  BY FolderIds, FS_Subset
<1>2. \E id \in ids : \A other \in ids \ {id} : Folder!After(id, other)
  BY <1>1, FolderIds, Newest
<1> QED
  BY <1>2 DEF Folder!NewestOf

(* An upload that may begin finds a millisecond for its version, and no    *)
(* version that ever was has that id.                                      *)
LEMMA FolderNextId ==
  ASSUME FolderInv, NEW p \in PC, Folder!UploadsMade < MaxUploads
  PROVE  LET id == Folder!NextVersionId(Folder!Listed, p)
         IN  id \in Folder!Id \ stored /\ id[2] = p
<1> USE Constants
<1> DEFINE free == {id \in Folder!Id : id[1] >= clock /\ id[2] = p /\ id \notin Folder!Listed}
           times == clock .. clock + MaxUploads - 1
           taken == {id[1] : id \in Folder!Listed}
<1>1. clock \in 1 .. MaxClock
  BY DEF FolderInv, Folder!TypeOK
<1>2. Cardinality(times) = MaxUploads /\ IsFiniteSet(times)
  BY <1>1, FS_Interval
<1>3. IsFiniteSet(taken) /\ Cardinality(taken) < MaxUploads
  <2> DEFINE all == {id \in Folder!Id : zip[id] # None} \cup stored
  <2>1. all \subseteq Folder!Id /\ Folder!Listed \subseteq all
    BY DEF FolderInv, FolderVersions, Folder!TypeOK
  <2>2. IsFiniteSet(all) /\ IsFiniteSet(Folder!Listed) /\ Cardinality(Folder!Listed) <= Cardinality(all)
    BY <2>1, FolderIds, FS_Subset
  <2> DEFINE f == [id \in Folder!Listed |-> id[1]]
  <2>3. f \in Surjection(Folder!Listed, taken)
    BY DEF Surjection
  <2>4. IsFiniteSet(taken) /\ Cardinality(taken) <= Cardinality(Folder!Listed)
    BY <2>2, <2>3, FS_Surjection
  <2>5. Cardinality(all) < MaxUploads
    BY SameCounting, Zenon DEF Folder!UploadsMade
  <2> HIDE DEF all, taken, f
  <2>6. Cardinality(taken) \in Nat /\ Cardinality(Folder!Listed) \in Nat /\ Cardinality(all) \in Nat
    BY <2>2, <2>4, FS_CardinalityType
  <2> QED
    BY <2>2, <2>4, <2>5, <2>6
<1>4. PICK t \in times : t \notin taken
  <2>1. ~(times \subseteq taken)
    <3> HIDE DEF times, taken
    <3> QED
      BY <1>2, <1>3, FS_Subset, FS_CardinalityType
  <2> QED
    BY <2>1
<1>5. <<t, p>> \in free
  BY <1>1, <1>4 DEF Folder!Id
<1>6. IsFiniteSet(free) /\ free \subseteq Nat \X Nat
  BY FolderIds, FS_Subset
<1>7. \E id \in free : \A other \in free \ {id} : Folder!After(other, id)
  <2> HIDE DEF free
  <2> QED
    BY <1>5, <1>6, Newest
<1>8. Folder!NextVersionId(Folder!Listed, p) \in free
  BY <1>7, Zenon DEF Folder!NextVersionId
<1>9. \A id \in free : id \notin stored
  BY <1>1 DEF FolderInv, FolderVersions, Folder!Id
<1> QED
  BY <1>8, <1>9

LEMMA FolderStart == Folder!Init => FolderInv
<1> SUFFICES ASSUME Folder!Init PROVE FolderInv
  OBVIOUS
<1> USE Constants DEF Folder!Init, Folder!NoCall
<1>1. Folder!TypeOK
  BY DEF Folder!TypeOK, Folder!Call, Folder!File
<1>2. FolderVersions /\ Folder!ListedIsWhole /\ DoomedRightly
  BY DEF FolderVersions, Folder!ListedIsWhole, Folder!Listed, DoomedRightly
<1>3. FolderCalls
  BY DEF FolderCalls, OwnUpload, OwnRemovals, Uploading
<1> QED
  BY <1>1, <1>2, <1>3 DEF FolderInv

(* What is outdated stays so.                                              *)
LEMMA OutdatedStays ==
  ASSUME stored \subseteq stored', stored' \subseteq Folder!Id, NEW id, Outdated(id)
  PROVE  Outdated(id)'
<1> DEFINE old == {other \in stored : Folder!After(other, id)}
           new == {other \in stored' : Folder!After(other, id)}
<1>1. old \subseteq new /\ new \subseteq Folder!Id
  OBVIOUS
<1> HIDE DEF old, new
<1>2. IsFiniteSet(new) /\ IsFiniteSet(old) /\ Cardinality(old) <= Cardinality(new)
  BY <1>1, FolderIds, FS_Subset
<1>3. Cardinality(old) \in Nat /\ Cardinality(new) \in Nat
  BY <1>2, FS_CardinalityType
<1>4. Cardinality(new) >= MaxVersions
  BY <1>2, <1>3, Constants DEF Outdated, Newer, old
<1> QED
  BY <1>4 DEF Outdated, Newer, new, Folder!After

(* A step of one PC leaves the others' calls in order.                     *)
LEMMA OtherCalls ==
  ASSUME FolderInv, NEW p \in PC, \A q \in PC \ {p} : call'[q] = call[q],
         stored \subseteq stored', stored' \subseteq Folder!Id,
         doomed \subseteq doomed', chosen \subseteq chosen',
         \A id \in Folder!Id \ stored : id[2] # p => id \notin stored' /\ zip'[id] = zip[id],
         OwnUpload(p)', OwnRemovals(p)'
  PROVE  FolderCalls'
<1> SUFFICES ASSUME NEW q \in PC \ {p} PROVE (OwnUpload(q) /\ OwnRemovals(q))'
  BY DEF FolderCalls
<1>1. OwnUpload(q) /\ OwnRemovals(q)
  BY DEF FolderInv, FolderCalls
<1>2. OwnUpload(q)'
  BY <1>1 DEF OwnUpload, Uploading
<1>3. Folder!Removing(q)' = Folder!Removing(q)
  BY DEF Folder!Removing, Folder!NewestOf, Folder!After
<1>4. \A id \in call[q].todo : Outdated(id) => Outdated(id)'
  BY OutdatedStays
<1>5. OwnRemovals(q)'
  BY <1>1, <1>3, <1>4 DEF OwnRemovals
<1> QED
  BY <1>2, <1>5

LEMMA DoomedStays ==
  ASSUME DoomedRightly, stored \subseteq stored', stored' \subseteq Folder!Id,
         chosen \subseteq chosen', UNCHANGED doomed
  PROVE  DoomedRightly'
  BY OutdatedStays DEF DoomedRightly

LEMMA FolderTo ==
  ASSUME call \in [PC -> Folder!Call], NEW p \in PC,
         NEW at \in {"copying", "copied", "describing", "stored", "archive gone", "sidecar gone"},
         Folder!To(p, at)
  PROVE  /\ call' \in [PC -> Folder!Call]
         /\ \A q \in PC \ {p} : call'[q] = call[q]
         /\ call'[p].at = at /\ call'[p].why = call[p].why /\ call'[p].id = call[p].id
         /\ call'[p].save = call[p].save /\ call'[p].todo = call[p].todo
  BY DEF Folder!To, Folder!Call

(* Of what a step that changes no call, file or version leaves alone.      *)
LEMMA QuietStep ==
  ASSUME FolderInv, UNCHANGED <<zip, sidecar, call, stored, chosen, doomed>>
  PROVE  FolderCalls' /\ DoomedRightly' /\ Folder!ListedIsWhole'
<1>1. \A id : Outdated(id)' <=> Outdated(id)
  BY DEF Outdated, Newer, Folder!After
<1>2. \A p \in PC : Folder!Removing(p)' = Folder!Removing(p)
  BY DEF Folder!Removing, Folder!NewestOf, Folder!After
<1>3. FolderCalls'
  <2> SUFFICES ASSUME NEW p \in PC PROVE OwnUpload(p)' /\ OwnRemovals(p)'
    BY DEF FolderCalls
  <2>1. OwnUpload(p) /\ OwnRemovals(p)
    BY DEF FolderInv, FolderCalls
  <2>2. OwnUpload(p)'
    BY <2>1 DEF OwnUpload
  <2>3. OwnRemovals(p)'
    BY <2>1, <1>1, <1>2 DEF OwnRemovals
  <2> QED
    BY <2>2, <2>3
<1>4. DoomedRightly'
  BY <1>1 DEF FolderInv, DoomedRightly
<1>5. Folder!ListedIsWhole'
  BY DEF FolderInv, Folder!ListedIsWhole, Folder!Listed
<1> QED
  BY <1>3, <1>4, <1>5

(* FolderInv holds from the start and no step of the folder breaks it.     *)
LEMMA FolderStep ==
  ASSUME FolderInv, Folder!Next
  PROVE  FolderInv'
<1> USE Constants DEF Folder!files, Folder!ghosts
<1> DEFINE Id == Folder!Id
<1>1. /\ zip \in [Id -> Save \cup {None, Part}] /\ sidecar \in [Id -> Save \cup {None, Part}]
      /\ marker \subseteq Id /\ clock \in 1 .. MaxClock /\ call \in [PC -> Folder!Call]
      /\ stored \subseteq Id /\ chosen \subseteq Id /\ doomed \subseteq Id
  BY DEF FolderInv, Folder!TypeOK, Folder!File
<1>2. /\ FolderVersions /\ DoomedRightly /\ Folder!ListedIsWhole
      /\ \A q \in PC : OwnUpload(q) /\ OwnRemovals(q)
  BY DEF FolderInv, FolderCalls
<1> HIDE DEF Id
<1>a. CASE Folder!Tick
  <2>1. Folder!TypeOK'
    BY <1>1, <1>a DEF Folder!Tick, Folder!TypeOK, Folder!File, Id
  <2>2. FolderVersions'
    BY <1>1, <1>2, <1>a DEF Folder!Tick, FolderVersions, Folder!Listed, Id, Folder!Id
  <2>3. FolderCalls' /\ DoomedRightly' /\ Folder!ListedIsWhole'
    BY <1>2, <1>a, QuietStep DEF Folder!Tick
  <2> QED
    BY <2>1, <2>2, <2>3 DEF FolderInv
<1>b. CASE Folder!SetLocked
  <2>1. Folder!TypeOK' /\ FolderVersions'
    BY <1>1, <1>2, <1>b
       DEF Folder!SetLocked, Folder!TypeOK, Folder!File, Id, FolderVersions, Folder!Listed
  <2>3. FolderCalls' /\ DoomedRightly' /\ Folder!ListedIsWhole'
    BY <1>2, <1>b, QuietStep DEF Folder!SetLocked
  <2> QED
    BY <2>1, <2>3 DEF FolderInv
<1> SUFFICES ASSUME NEW p \in PC,
                    \/ Folder!BeginUpload(p) \/ Folder!BeginCopy(p) \/ Folder!EndCopy(p)
                    \/ Folder!BeginSidecar(p) \/ Folder!EndSidecar(p) \/ Folder!BeginPrune(p)
                    \/ Folder!BeginDelete(p) \/ Folder!RemoveArchive(p) \/ Folder!RemoveSidecar(p)
                    \/ Folder!RemoveMarker(p) \/ Folder!Done(p) \/ Folder!Fail(p)
             PROVE  FolderInv'
  BY <1>a, <1>b DEF Folder!Next
<1>3. OwnUpload(p) /\ OwnRemovals(p)
  BY <1>2
<1>c. CASE Folder!BeginUpload(p)
  <2>0. UNCHANGED <<zip, sidecar, marker, clock, stored, chosen, doomed>>
    BY <1>c DEF Folder!BeginUpload
  <2>1. PICK save \in Save :
            call' = [call EXCEPT ![p] =
                [Folder!NoCall EXCEPT !.at = "listed", !.save = save,
                                      !.id = Folder!NextVersionId(Folder!Listed, p)]]
    BY <1>c DEF Folder!BeginUpload
  <2>2. Folder!UploadsMade < MaxUploads
    <3>1. IsFiniteSet({q \in PC : call[q].at = "listed"})
      BY FS_Subset
    <3>2. Folder!Cardinality({q \in PC : call[q].at = "listed"}) \in Nat
      BY <3>1, FS_CardinalityType, SameCounting
    <3> DEFINE all == {id \in Folder!Id : zip[id] # None} \cup stored
    <3>3. IsFiniteSet(all) /\ Folder!UploadsMade = Folder!Cardinality(all)
      BY <1>1, FolderIds, FS_Subset DEF Id, Folder!UploadsMade
    <3> HIDE DEF all
    <3>4. Folder!UploadsMade \in Nat
      BY <3>3, FS_CardinalityType, SameCounting
    <3> DEFINE under == Folder!Cardinality({q \in PC : call[q].at = "listed"})
    <3>5. Folder!UploadsMade + under < MaxUploads
      BY <1>c DEF Folder!BeginUpload
    <3>6. under \in Nat
      BY <3>2
    <3> HIDE DEF under
    <3> QED
      BY <3>4, <3>5, <3>6
  <2> DEFINE id == Folder!NextVersionId(Folder!Listed, p)
  <2>3. id \in Id \ stored /\ id[2] = p
    BY <2>2, FolderNextId DEF Id
  <2> HIDE DEF id
  <2>4. /\ call' \in [PC -> Folder!Call]
        /\ \A q \in PC \ {p} : call'[q] = call[q]
        /\ call'[p].at = "listed" /\ call'[p].why = "upload" /\ call'[p].id = id
        /\ call'[p].save = save /\ call'[p].todo = {}
    BY <2>1, <2>3, <1>1 DEF Folder!NoCall, Folder!Call, id, Id
  <2>5. OwnUpload(p)' /\ OwnRemovals(p)'
    <3>1. OwnUpload(p)'
      BY <2>3, <2>4, <2>0 DEF OwnUpload, Uploading, Id
    <3> QED
      BY <2>4, <3>1 DEF OwnRemovals
  <2>6. FolderCalls'
    BY <2>0, <2>4, <2>5, <1>1, OtherCalls DEF Id
  <2>7. Folder!TypeOK' /\ FolderVersions' /\ DoomedRightly' /\ Folder!ListedIsWhole'
    BY <1>1, <1>2, <2>0, <2>4
       DEF Folder!TypeOK, Folder!File, Id, FolderVersions, Folder!Listed, Folder!ListedIsWhole,
           DoomedRightly, Outdated, Newer
  <2> QED
    BY <2>6, <2>7 DEF FolderInv
<1>d. CASE Folder!BeginCopy(p)
  <2> USE <1>d DEF Folder!BeginCopy
  <2> DEFINE id == call[p].id
  <2>1. id \in Id \ stored /\ id[2] = p
    BY <1>3 DEF OwnUpload, Uploading, Id
  <2>2. /\ call' \in [PC -> Folder!Call]
        /\ \A q \in PC \ {p} : call'[q] = call[q]
        /\ call'[p].at = "copying" /\ call'[p].why = call[p].why /\ call'[p].id = id
        /\ call'[p].save = call[p].save /\ call'[p].todo = call[p].todo
    BY <1>1, FolderTo
  <2>3. zip' \in [Id -> Save \cup {None, Part}] /\ \A i \in Id \ {id} : zip'[i] = zip[i]
    BY <1>1, <2>1
  <2>4. OwnUpload(p)' /\ OwnRemovals(p)'
    BY <1>3, <2>2 DEF OwnUpload, OwnRemovals, Uploading, Outdated, Newer
  <2>5. FolderCalls'
    BY <2>1, <2>2, <2>3, <2>4, <1>1, OtherCalls DEF Id
  <2>6. Folder!TypeOK' /\ FolderVersions' /\ DoomedRightly'
    BY <1>1, <1>2, <2>2, <2>3
       DEF Folder!TypeOK, Folder!File, Id, FolderVersions, Folder!Listed, DoomedRightly, Outdated, Newer
  <2>7. Folder!ListedIsWhole'
    BY <1>2, <2>1, <2>3 DEF Folder!ListedIsWhole, Folder!Listed, FolderVersions, Id
  <2> QED
    BY <2>5, <2>6, <2>7 DEF FolderInv
<1>e. CASE Folder!EndCopy(p)
  <2> USE <1>e DEF Folder!EndCopy
  <2> DEFINE id == call[p].id
  <2>1. id \in Id \ stored /\ id[2] = p /\ call[p].save \in Save
    BY <1>3 DEF OwnUpload, Uploading, Id
  <2>2. /\ call' \in [PC -> Folder!Call]
        /\ \A q \in PC \ {p} : call'[q] = call[q]
        /\ call'[p].at = "copied" /\ call'[p].why = call[p].why /\ call'[p].id = id
        /\ call'[p].save = call[p].save /\ call'[p].todo = call[p].todo
    BY <1>1, FolderTo
  <2>3. /\ zip' \in [Id -> Save \cup {None, Part}] /\ \A i \in Id \ {id} : zip'[i] = zip[i]
        /\ zip'[id] = call[p].save
    BY <1>1, <2>1
  <2>4. OwnUpload(p)' /\ OwnRemovals(p)'
    BY <1>3, <2>2, <2>3 DEF OwnUpload, OwnRemovals, Uploading, Outdated, Newer
  <2>5. FolderCalls'
    BY <2>1, <2>2, <2>3, <2>4, <1>1, OtherCalls DEF Id
  <2>6. Folder!TypeOK' /\ FolderVersions' /\ DoomedRightly'
    BY <1>1, <1>2, <2>2, <2>3
       DEF Folder!TypeOK, Folder!File, Id, FolderVersions, Folder!Listed, DoomedRightly, Outdated, Newer
  <2>7. Folder!ListedIsWhole'
    BY <1>2, <2>1, <2>3 DEF Folder!ListedIsWhole, Folder!Listed, FolderVersions, Id
  <2> QED
    BY <2>5, <2>6, <2>7 DEF FolderInv
<1>f. CASE Folder!BeginSidecar(p)
  <2> USE <1>f DEF Folder!BeginSidecar
  <2> DEFINE id == call[p].id
  <2>1. id \in Id \ stored /\ id[2] = p
    BY <1>3 DEF OwnUpload, Uploading, Id
  <2>2. /\ call' \in [PC -> Folder!Call]
        /\ \A q \in PC \ {p} : call'[q] = call[q]
        /\ call'[p].at = "describing" /\ call'[p].why = call[p].why /\ call'[p].id = id
        /\ call'[p].save = call[p].save /\ call'[p].todo = call[p].todo
    BY <1>1, FolderTo
  <2>3. /\ sidecar' \in [Id -> Save \cup {None, Part}] /\ \A i \in Id \ {id} : sidecar'[i] = sidecar[i]
        /\ sidecar'[id] = Part
    BY <1>1, <2>1
  <2>4. OwnUpload(p)' /\ OwnRemovals(p)'
    BY <1>3, <2>2, <2>3 DEF OwnUpload, OwnRemovals, Uploading, Outdated, Newer
  <2>5. FolderCalls'
    BY <2>1, <2>2, <2>4, <1>1, OtherCalls DEF Id
  <2>6. Folder!Listed' = Folder!Listed
    BY <1>2, <2>1, <2>3 DEF Folder!Listed, FolderVersions, Id
  <2>7. Folder!TypeOK' /\ FolderVersions' /\ DoomedRightly'
    BY <1>1, <1>2, <2>2, <2>3, <2>6
       DEF Folder!TypeOK, Folder!File, Id, FolderVersions, DoomedRightly, Outdated, Newer
  <2>8. Folder!ListedIsWhole'
    BY <1>2, <2>1, <2>3, <2>6 DEF Folder!ListedIsWhole, FolderVersions, Folder!Listed, Id
  <2> QED
    BY <2>5, <2>7, <2>8 DEF FolderInv
<1>g. CASE Folder!EndSidecar(p)
  <2> USE <1>g DEF Folder!EndSidecar
  <2> DEFINE id == call[p].id
  <2>1. id \in Id \ stored /\ id[2] = p /\ call[p].save \in Save /\ zip[id] = call[p].save
    BY <1>3 DEF OwnUpload, Uploading, Id
  <2>2. /\ call' \in [PC -> Folder!Call]
        /\ \A q \in PC \ {p} : call'[q] = call[q]
        /\ call'[p].at = "stored" /\ call'[p].why = call[p].why
        /\ call'[p].todo = call[p].todo
    BY <1>1, FolderTo
  <2>3. /\ sidecar' \in [Id -> Save \cup {None, Part}] /\ \A i \in Id \ {id} : sidecar'[i] = sidecar[i]
        /\ sidecar'[id] = call[p].save /\ stored' = stored \cup {id} /\ stored' \subseteq Id
    BY <1>1, <2>1
  <2>4. OwnUpload(p)' /\ OwnRemovals(p)'
    <3>1. \A i \in call[p].todo : Outdated(i) => Outdated(i)'
      BY <2>3, OutdatedStays DEF Id
    <3> QED
      BY <1>3, <2>2, <2>3, <3>1 DEF OwnUpload, OwnRemovals, Uploading
  <2>5. FolderCalls'
    BY <2>1, <2>2, <2>3, <2>4, <1>1, OtherCalls DEF Id
  <2>6. Folder!Listed' = Folder!Listed \cup {id}
    BY <2>1, <2>3 DEF Folder!Listed, Id
  <2>7. Folder!TypeOK' /\ FolderVersions'
    BY <1>1, <1>2, <2>1, <2>2, <2>3, <2>6 DEF Folder!TypeOK, Folder!File, Id, FolderVersions
  <2>8. Folder!ListedIsWhole'
    BY <1>2, <2>1, <2>3, <2>6 DEF Folder!ListedIsWhole, Folder!Listed, Id
  <2>9. DoomedRightly'
    BY <1>2, <2>3, DoomedStays DEF Id
  <2> QED
    BY <2>5, <2>7, <2>8, <2>9 DEF FolderInv
<1>h. CASE Folder!BeginPrune(p)
  <2> USE <1>h DEF Folder!BeginPrune
  <2> DEFINE stale == Folder!Stale(Folder!Listed)
  <2>1. /\ stale \subseteq stored /\ stale \subseteq Id
        /\ \A id \in stale : Outdated(id)
    <3> SUFFICES ASSUME NEW id \in stale PROVE id \in stored /\ id \in Id /\ Outdated(id)
      OBVIOUS
    <3> DEFINE seen == {other \in Folder!Listed \ marker : Folder!After(other, id)}
    <3>1. id \in stored /\ id \in Id /\ Folder!Cardinality(seen) >= MaxVersions
      BY <1>2 DEF Folder!Stale, FolderVersions, Folder!Listed, Id
    <3>2. seen \subseteq Newer(id) /\ Newer(id) \subseteq Id
      BY <1>1, <1>2 DEF FolderVersions, Newer
    <3> HIDE DEF seen
    <3>3. IsFiniteSet(Newer(id)) /\ IsFiniteSet(seen) /\ Cardinality(seen) <= Cardinality(Newer(id))
      BY <3>2, FolderIds, FS_Subset DEF Id
    <3>4. Cardinality(seen) \in Nat /\ Cardinality(Newer(id)) \in Nat
      BY <3>3, FS_CardinalityType
    <3>5. Cardinality(seen) >= MaxVersions
      BY <3>1, SameCounting
    <3> QED
      BY <3>1, <3>3, <3>4, <3>5 DEF Outdated
  <2>2. call[p].why = "upload"
    BY <1>3 DEF OwnUpload, Uploading
  <2> HIDE DEF stale
  <2>3. /\ call' \in [PC -> Folder!Call]
        /\ \A q \in PC \ {p} : call'[q] = call[q]
        /\ call'[p].at = "removing" /\ call'[p].why = "upload" /\ call'[p].todo = stale
    BY <1>1, <2>1, <2>2, ZenonT(60) DEF Folder!Call, stale, Id
  <2>4. OwnUpload(p)' /\ OwnRemovals(p)'
    BY <2>1, <2>3 DEF OwnUpload, OwnRemovals, Uploading, Outdated, Newer
  <2>5. FolderCalls'
    BY <2>3, <2>4, <1>1, OtherCalls DEF Id
  <2>6. Folder!TypeOK' /\ FolderVersions' /\ DoomedRightly' /\ Folder!ListedIsWhole'
    BY <1>1, <1>2, <2>3
       DEF Folder!TypeOK, Folder!File, Id, FolderVersions, Folder!Listed, Folder!ListedIsWhole,
           DoomedRightly, Outdated, Newer
  <2> QED
    BY <2>5, <2>6 DEF FolderInv
<1>i. CASE Folder!BeginDelete(p)
  <2> USE <1>i DEF Folder!BeginDelete
  <2>1. PICK ids \in SUBSET Folder!Listed \ {{}} :
            /\ chosen' = chosen \cup ids
            /\ call' = [call EXCEPT ![p] =
                   [Folder!NoCall EXCEPT !.at = "removing", !.why = "delete", !.todo = ids]]
    OBVIOUS
  <2>2. ids \subseteq stored /\ ids \subseteq Id
    BY <1>2 DEF FolderVersions, Folder!Listed, Id
  <2>3. /\ call' \in [PC -> Folder!Call]
        /\ \A q \in PC \ {p} : call'[q] = call[q]
        /\ call'[p].at = "removing" /\ call'[p].todo = ids
    BY <1>1, <2>1, <2>2 DEF Folder!NoCall, Folder!Call, Id
  <2>4. OwnUpload(p)' /\ OwnRemovals(p)'
    BY <2>1, <2>2, <2>3 DEF OwnUpload, OwnRemovals, Uploading
  <2>5. FolderCalls'
    BY <2>1, <2>3, <2>4, <1>1, OtherCalls DEF Id
  <2>6. Folder!TypeOK' /\ FolderVersions' /\ DoomedRightly' /\ Folder!ListedIsWhole'
    BY <1>1, <1>2, <2>1, <2>2, <2>3
       DEF Folder!TypeOK, Folder!File, Id, FolderVersions, Folder!Listed, Folder!ListedIsWhole,
           DoomedRightly, Outdated, Newer
  <2> QED
    BY <2>5, <2>6 DEF FolderInv
<1>j. CASE Folder!RemoveArchive(p)
  <2> USE <1>j DEF Folder!RemoveArchive
  <2> DEFINE id == Folder!Removing(p)
  <2>1. id \in call[p].todo /\ call[p].todo \subseteq Id
    BY <1>1, FolderNewest DEF Folder!Removing, Folder!Call, Id
  <2>2. id \in stored /\ id \in Id /\ id[1] < clock /\ (id \in chosen \/ Outdated(id))
    BY <2>1, <1>3 DEF OwnRemovals
  <2>3. /\ call' \in [PC -> Folder!Call]
        /\ \A q \in PC \ {p} : call'[q] = call[q]
        /\ call'[p].at = "archive gone" /\ call'[p].why = call[p].why
        /\ call'[p].todo = call[p].todo
    BY <1>1, FolderTo
  <2>4. Folder!Removing(p)' = id
    BY <2>3 DEF Folder!Removing, Folder!NewestOf, Folder!After
  <2> HIDE DEF id
  <2>5. /\ zip' \in [Id -> Save \cup {None, Part}] /\ \A i \in Id \ {id} : zip'[i] = zip[i]
        /\ doomed' = doomed \cup {id}
    BY <1>1, <2>2 DEF id
  <2>6. OwnUpload(p)' /\ OwnRemovals(p)'
    BY <1>3, <2>1, <2>3, <2>4, <2>5 DEF OwnUpload, OwnRemovals, Uploading, Outdated, Newer
  <2>7. FolderCalls'
    BY <2>2, <2>3, <2>5, <2>6, <1>1, OtherCalls DEF Id
  <2>8. Folder!TypeOK' /\ FolderVersions'
    BY <1>1, <1>2, <2>2, <2>3, <2>5 DEF Folder!TypeOK, Folder!File, Id, FolderVersions, Folder!Listed
  <2>9. DoomedRightly' /\ Folder!ListedIsWhole'
    BY <1>2, <2>2, <2>5 DEF DoomedRightly, Outdated, Newer, Folder!ListedIsWhole, Folder!Listed, Id
  <2> QED
    BY <2>7, <2>8, <2>9 DEF FolderInv
<1>k. CASE Folder!RemoveSidecar(p)
  <2> USE <1>k DEF Folder!RemoveSidecar
  <2> DEFINE id == Folder!Removing(p)
  <2>1. id \in doomed /\ call[p].todo # {}
    BY <1>3 DEF OwnRemovals
  <2>2. /\ call' \in [PC -> Folder!Call]
        /\ \A q \in PC \ {p} : call'[q] = call[q]
        /\ call'[p].at = "sidecar gone" /\ call'[p].why = call[p].why
        /\ call'[p].todo = call[p].todo
    BY <1>1, FolderTo
  <2>3. Folder!Removing(p)' = id
    BY <2>2 DEF Folder!Removing, Folder!NewestOf, Folder!After
  <2> HIDE DEF id
  <2>4. /\ sidecar' \in [Id -> Save \cup {None, Part}] /\ \A i \in Id \ {id} : sidecar'[i] = sidecar[i]
        /\ sidecar'[id] \in {sidecar[id], None}
    BY <1>1, <2>1 DEF id
  <2>5. OwnUpload(p)' /\ OwnRemovals(p)'
    BY <1>3, <2>1, <2>2, <2>3 DEF OwnUpload, OwnRemovals, Uploading, Outdated, Newer
  <2>6. FolderCalls'
    BY <2>2, <2>5, <1>1, OtherCalls DEF Id
  <2>7. Folder!Listed' \subseteq Folder!Listed /\ Folder!Listed \subseteq Folder!Listed' \cup {id}
    BY <1>1, <2>1, <2>4 DEF Folder!Listed, Id
  <2>8. Folder!TypeOK' /\ FolderVersions'
    BY <1>1, <1>2, <2>1, <2>2, <2>4, <2>7 DEF Folder!TypeOK, Folder!File, Id, FolderVersions
  <2>9. DoomedRightly' /\ Folder!ListedIsWhole'
    BY <1>2, <2>1, <2>4, <2>7
       DEF DoomedRightly, Outdated, Newer, Folder!ListedIsWhole, Folder!Listed, Id
  <2> QED
    BY <2>6, <2>8, <2>9 DEF FolderInv
<1>l. CASE Folder!RemoveMarker(p)
  <2> USE <1>l DEF Folder!RemoveMarker
  <2>1. /\ call' \in [PC -> Folder!Call]
        /\ \A q \in PC \ {p} : call'[q] = call[q]
        /\ call'[p].at = "removing" /\ call'[p].why = call[p].why
        /\ call'[p].todo = call[p].todo \ {Folder!Removing(p)}
    BY <1>1, ZenonT(60) DEF Folder!Call
  <2>2. OwnUpload(p)' /\ OwnRemovals(p)'
    BY <1>3, <2>1 DEF OwnUpload, OwnRemovals, Uploading, Outdated, Newer
  <2>3. FolderCalls'
    BY <2>1, <2>2, <1>1, OtherCalls DEF Id
  <2>4. marker' \subseteq marker
    OBVIOUS
  <2>5. Folder!TypeOK' /\ FolderVersions' /\ DoomedRightly' /\ Folder!ListedIsWhole'
    BY <1>1, <1>2, <2>1, <2>4
       DEF Folder!TypeOK, Folder!File, Id, FolderVersions, Folder!Listed, Folder!ListedIsWhole,
           DoomedRightly, Outdated, Newer
  <2> QED
    BY <2>3, <2>5 DEF FolderInv
<1>m. CASE Folder!Done(p) \/ Folder!Fail(p)
  <2> USE <1>m DEF Folder!Done, Folder!Fail
  <2>1. call' = [call EXCEPT ![p] = Folder!NoCall] /\ Folder!NoCall \in Folder!Call
    BY DEF Folder!NoCall, Folder!Call
  <2>2. /\ call' \in [PC -> Folder!Call]
        /\ \A q \in PC \ {p} : call'[q] = call[q]
        /\ call'[p].at = "idle" /\ call'[p].todo = {}
    BY <1>1, <2>1 DEF Folder!NoCall
  <2>3. OwnUpload(p)' /\ OwnRemovals(p)'
    BY <2>2 DEF OwnUpload, OwnRemovals, Uploading
  <2>4. FolderCalls'
    BY <2>2, <2>3, <1>1, OtherCalls DEF Id
  <2>5. Folder!TypeOK' /\ FolderVersions' /\ DoomedRightly' /\ Folder!ListedIsWhole'
    BY <1>1, <1>2, <2>2
       DEF Folder!TypeOK, Folder!File, Id, FolderVersions, Folder!Listed, Folder!ListedIsWhole,
           DoomedRightly, Outdated, Newer
  <2> QED
    BY <2>4, <2>5 DEF FolderInv
<1> QED
  BY <1>c, <1>d, <1>e, <1>f, <1>g, <1>h, <1>i, <1>j, <1>k, <1>l, <1>m

(* What FolderInv gives of the properties that are stated of a folder.     *)
LEMMA FolderHeldWhole == FolderInv => Folder!ListedIsWhole /\ Folder!NewestKept
<1> SUFFICES ASSUME FolderInv, NEW id \in stored \ chosen, id \notin Folder!Listed
             PROVE  ~(Folder!Cardinality(Newer(id)) < MaxVersions)
  BY Zenon DEF FolderInv, Folder!NewestKept, Newer
<1>1. Outdated(id)
  BY DEF FolderInv, FolderVersions, DoomedRightly
<1>2. Newer(id) \subseteq Folder!Id
  BY DEF Newer, FolderInv, Folder!TypeOK
<1>3. Cardinality(Newer(id)) \in Nat /\ Cardinality(Newer(id)) >= MaxVersions
  BY <1>1, <1>2, FolderIds, FS_Subset, FS_CardinalityType DEF Outdated
<1> QED
  BY <1>3, SameCounting, Constants
-----------------------------------------------------------------------------
(* What those who use a store may see happen: a version appears, goes, is  *)
(* locked or unlocked, or nothing.                                         *)
SeenStep(held, heldNow, locks, locksNow, used, usedNow) ==
    \/ \E id \in Folder!Id \ used :
           /\ usedNow = used \cup {id}
           /\ \E save \in Save : heldNow = held \cup {<<id, save>>}
           /\ locksNow = locks
    \/ \E id \in {version[1] : version \in held} :
           /\ heldNow = {version \in held : version[1] # id}
           /\ locksNow = locks \ {id} /\ usedNow = used
    \/ \E id \in {version[1] : version \in held} :
           /\ heldNow = held /\ usedNow = used
           /\ locksNow \in {locks \cup {id}, locks \ {id}}
    \/ heldNow = held /\ locksNow = locks /\ usedNow = used

Holds(whole, hash) == {<<id, hash[id]>> : id \in whole}

LEMMA Appears ==
  ASSUME NEW whole, NEW hash, NEW now, NEW used, NEW marks \in SUBSET used,
         NEW id \in Folder!Id \ used, now[id] \in Save, \A i \in whole : now[i] = hash[i]
  PROVE  SeenStep(Holds(whole, hash), Holds(whole \cup {id}, now),
                  marks \cap whole, marks \cap (whole \cup {id}), used, used \cup {id})
<1>1. Holds(whole \cup {id}, now) = Holds(whole, hash) \cup {<<id, now[id]>>}
  BY DEF Holds
<1>2. marks \cap (whole \cup {id}) = marks \cap whole
  OBVIOUS
<1> QED
  BY <1>1, <1>2, Zenon DEF SeenStep

LEMMA Goes ==
  ASSUME NEW whole, NEW hash, NEW now, NEW marks, NEW used, NEW id \in whole,
         \A i \in whole \ {id} : now[i] = hash[i]
  PROVE  SeenStep(Holds(whole, hash), Holds(whole \ {id}, now),
                  marks \cap whole, marks \cap (whole \ {id}), used, used)
<1>1. Holds(whole \ {id}, now) = {version \in Holds(whole, hash) : version[1] # id}
  BY DEF Holds
<1>2. id \in {version[1] : version \in Holds(whole, hash)}
  <2>1. <<id, hash[id]>> \in Holds(whole, hash) /\ <<id, hash[id]>>[1] = id
    BY DEF Holds
  <2> QED
    BY <2>1
<1>3. marks \cap (whole \ {id}) = (marks \cap whole) \ {id}
  OBVIOUS
<1> QED
  BY <1>1, <1>2, <1>3, Zenon DEF SeenStep

LEMMA IsMarked ==
  ASSUME NEW whole, NEW hash, NEW now, NEW marks, NEW used, NEW id,
         \A i \in whole : now[i] = hash[i],
         NEW marksNow \in {marks, marks \cup {id}, marks \ {id}}
  PROVE  SeenStep(Holds(whole, hash), Holds(whole, now),
                  marks \cap whole, marksNow \cap whole, used, used)
<1>1. Holds(whole, now) = Holds(whole, hash)
  BY DEF Holds
<1>2. CASE marksNow \cap whole = marks \cap whole
  BY <1>1, <1>2 DEF SeenStep
<1>3. CASE id \in whole
  <2>1. <<id, hash[id]>> \in Holds(whole, hash) /\ <<id, hash[id]>>[1] = id
    BY <1>3 DEF Holds
  <2>2. id \in {version[1] : version \in Holds(whole, hash)}
    BY <2>1
  <2>3. marksNow \cap whole \in {marks \cap whole, (marks \cap whole) \cup {id}, (marks \cap whole) \ {id}}
    BY <1>3
  <2> QED
    BY <1>1, <2>2, <2>3, Zenon DEF SeenStep
<1>4. CASE id \notin whole
  BY <1>2, <1>4
<1> QED
  BY <1>3, <1>4

LEMMA FolderSeen ==
  ASSUME kind = "folder", kind' = "folder",
         SeenStep(Folder!Held, Folder!Held', Folder!Locked, Folder!Locked', stored, stored')
  PROVE  [Abstract!Next]_(Abstract!vars)
  BY DEF SeenStep, Abstract!Next, Abstract!Upload, Abstract!Delete, Abstract!SetLocked,
         Abstract!vars, Abstract!IdsHeld, Folder!Used

LEMMA ShareSeen ==
  ASSUME kind = "webdav", kind' = "webdav",
         SeenStep(WebDav!Held, WebDav!Held', WebDav!Locked, WebDav!Locked',
                  WebDav!Used, WebDav!Used')
  PROVE  [Abstract!Next]_(Abstract!vars)
  BY DEF SeenStep, Abstract!Next, Abstract!Upload, Abstract!Delete, Abstract!SetLocked,
         Abstract!vars, Abstract!IdsHeld

(* Every step of a folder is a step of a store of versions, or none.       *)
LEMMA FolderRefines ==
  ASSUME FolderInv, Folder!Next
  PROVE  SeenStep(Folder!Held, Folder!Held', Folder!Locked, Folder!Locked', stored, stored')
<1> USE Constants DEF Folder!files, Folder!ghosts
<1> DEFINE Id == Folder!Id
           whole == Folder!Whole
<1>1. /\ zip \in [Id -> Save \cup {None, Part}] /\ sidecar \in [Id -> Save \cup {None, Part}]
      /\ stored \subseteq Id
  BY DEF FolderInv, Folder!TypeOK, Folder!File
<1>2. /\ FolderVersions
      /\ \A q \in PC : OwnUpload(q) /\ OwnRemovals(q)
  BY DEF FolderInv, FolderCalls
<1>3. /\ Folder!Held = Holds(whole, sidecar) /\ Folder!Held' = Holds(Folder!Whole', sidecar')
      /\ Folder!Locked = marker \cap whole /\ Folder!Locked' = marker' \cap Folder!Whole'
  BY DEF Folder!Held, Folder!Locked, Holds
<1>4. /\ whole = {id \in Id : sidecar[id] \in Save /\ zip[id] = sidecar[id]}
      /\ Folder!Whole' = {id \in Id : sidecar'[id] \in Save /\ zip'[id] = sidecar'[id]}
  BY DEF Folder!Whole, Folder!Listed
<1>5. whole \subseteq stored
  BY <1>2, <1>4 DEF FolderVersions, Folder!Listed
<1> HIDE DEF Id, whole
<1>6. ASSUME NEW id, Folder!Whole' = whole, \A i \in whole : sidecar'[i] = sidecar[i],
             stored' = stored, marker' \in {marker, marker \cup {id}, marker \ {id}}
      PROVE  SeenStep(Folder!Held, Folder!Held', Folder!Locked, Folder!Locked', stored, stored')
  BY <1>3, <1>6, IsMarked
<1>7. ASSUME NEW id, Folder!Whole' = whole \ {id}, \A i \in whole \ {id} : sidecar'[i] = sidecar[i],
             stored' = stored, marker' = marker
      PROVE  SeenStep(Folder!Held, Folder!Held', Folder!Locked, Folder!Locked', stored, stored')
  <2>1. CASE id \in whole
    BY <1>3, <1>7, <2>1, Goes
  <2>2. CASE id \notin whole
    BY <1>6, <1>7, <2>2
  <2> QED
    BY <2>1, <2>2
<1>a. CASE Folder!Tick
  BY <1>a, <1>4, <1>6 DEF Folder!Tick
<1>b. CASE Folder!SetLocked
  BY <1>b, <1>4, <1>6 DEF Folder!SetLocked
<1> SUFFICES ASSUME NEW p \in PC,
                    \/ Folder!BeginUpload(p) \/ Folder!BeginCopy(p) \/ Folder!EndCopy(p)
                    \/ Folder!BeginSidecar(p) \/ Folder!EndSidecar(p) \/ Folder!BeginPrune(p)
                    \/ Folder!BeginDelete(p) \/ Folder!RemoveArchive(p) \/ Folder!RemoveSidecar(p)
                    \/ Folder!RemoveMarker(p) \/ Folder!Done(p) \/ Folder!Fail(p)
             PROVE  SeenStep(Folder!Held, Folder!Held', Folder!Locked, Folder!Locked', stored, stored')
  BY <1>a, <1>b DEF Folder!Next
<1>8. OwnUpload(p)
  BY <1>2
<1>c. CASE Folder!BeginUpload(p) \/ Folder!BeginPrune(p) \/ Folder!BeginDelete(p)
           \/ Folder!Done(p) \/ Folder!Fail(p)
  <2>1. UNCHANGED <<zip, sidecar, marker, stored>>
    BY <1>c DEF Folder!BeginUpload, Folder!BeginPrune, Folder!BeginDelete, Folder!Done, Folder!Fail
  <2> QED
    BY <2>1, <1>4, <1>6
<1>d. CASE Folder!BeginCopy(p) \/ Folder!EndCopy(p)
  <2>1. call[p].id \in Id \ stored
    BY <1>8, <1>d DEF OwnUpload, Uploading, Folder!BeginCopy, Folder!EndCopy, Id
  <2>2. /\ UNCHANGED <<sidecar, marker, stored>>
        /\ \A i \in Id \ {call[p].id} : zip'[i] = zip[i]
    BY <1>d, <1>1 DEF Folder!BeginCopy, Folder!EndCopy
  <2>3. sidecar[call[p].id] \notin Save
    BY <2>1, <1>2 DEF FolderVersions, Folder!Listed, Id
  <2> QED
    BY <2>1, <2>2, <2>3, <1>4, <1>6
<1>e. CASE Folder!BeginSidecar(p)
  <2>1. call[p].id \in Id \ stored
    BY <1>8, <1>e DEF OwnUpload, Uploading, Folder!BeginSidecar, Id
  <2>2. /\ UNCHANGED <<zip, marker, stored>> /\ sidecar'[call[p].id] = Part
        /\ \A i \in Id \ {call[p].id} : sidecar'[i] = sidecar[i]
    BY <1>e, <1>1, <2>1 DEF Folder!BeginSidecar
  <2>3. call[p].id \notin whole
    BY <2>1, <1>5
  <2> QED
    BY <2>1, <2>2, <2>3, <1>4, <1>6
<1>f. CASE Folder!EndSidecar(p)
  <2> DEFINE id == call[p].id
  <2>1. id \in Id \ stored /\ call[p].save \in Save /\ zip[id] = call[p].save
    BY <1>8, <1>f DEF OwnUpload, Uploading, Folder!EndSidecar, Id
  <2>2. /\ UNCHANGED <<zip, marker>> /\ sidecar'[id] = call[p].save
        /\ stored' = stored \cup {id}
        /\ \A i \in Id \ {id} : sidecar'[i] = sidecar[i]
    BY <1>f, <1>1, <2>1 DEF Folder!EndSidecar
  <2>3. id \notin whole
    BY <2>1, <1>5
  <2> HIDE DEF id
  <2>4. Folder!Whole' = whole \cup {id}
    BY <2>1, <2>2, <2>3, <1>4
  <2>5. \A i \in whole : sidecar'[i] = sidecar[i]
    BY <2>2, <2>3, <1>4
  <2> QED
    BY <1>2, <1>3, <2>1, <2>2, <2>4, <2>5, Appears DEF Id, FolderVersions
<1>g. CASE Folder!RemoveArchive(p)
  <2>1. /\ UNCHANGED <<sidecar, marker, stored>>
        /\ zip' = zip \/ zip' = [zip EXCEPT ![Folder!Removing(p)] = None]
    BY <1>g DEF Folder!RemoveArchive
  <2>2. Folder!Whole' = whole \/ Folder!Whole' = whole \ {Folder!Removing(p)}
    BY <2>1, <1>1, <1>4
  <2> QED
    BY <2>1, <2>2, <1>6, <1>7
<1>h. CASE Folder!RemoveSidecar(p)
  <2>1. /\ UNCHANGED <<zip, marker, stored>>
        /\ sidecar' = sidecar \/ sidecar' = [sidecar EXCEPT ![Folder!Removing(p)] = None]
    BY <1>h DEF Folder!RemoveSidecar
  <2>2. \/ Folder!Whole' = whole /\ \A i \in whole : sidecar'[i] = sidecar[i]
        \/ /\ Folder!Whole' = whole \ {Folder!Removing(p)}
           /\ \A i \in whole \ {Folder!Removing(p)} : sidecar'[i] = sidecar[i]
    BY <2>1, <1>1, <1>4
  <2> QED
    BY <2>1, <2>2, <1>6, <1>7
<1>i. CASE Folder!RemoveMarker(p)
  <2>1. /\ UNCHANGED <<zip, sidecar, stored>>
        /\ marker' \in {marker, marker \ {Folder!Removing(p)}}
    BY <1>i DEF Folder!RemoveMarker
  <2> QED
    BY <2>1, <1>4, <1>6
<1> QED
  BY <1>c, <1>d, <1>e, <1>f, <1>g, <1>h, <1>i
-----------------------------------------------------------------------------
LEMMA ShareIds ==
    /\ IsFiniteSet(WebDav!Id) /\ WebDav!Id \subseteq Nat \X Nat
    /\ \A id \in WebDav!Id : id[2] \in PC /\ id = <<id[1], id[2]>>
    /\ WebDav!NoId \notin WebDav!Id
<1> DEFINE times == 1 .. MaxClock
<1>1. IsFiniteSet(times) /\ times \subseteq Nat /\ 0 \notin times
  BY Constants, FS_Interval
<1> HIDE DEF times
<1>2. WebDav!Id = times \X PC
  BY DEF WebDav!Id, times
<1>3. IsFiniteSet(times \X PC)
  BY <1>1, Constants, FS_Product
<1>4. PC \subseteq Nat
  BY Constants
<1>5. times \X PC \subseteq Nat \X Nat
  BY <1>1, <1>4
<1>6. <<0, 0>> \notin times \X PC
  BY <1>1
<1>7. \A id \in times \X PC : id[2] \in PC /\ id = <<id[1], id[2]>>
  OBVIOUS
<1> QED
  BY <1>2, <1>3, <1>5, <1>6, <1>7 DEF WebDav!NoId

LEMMA ShareNewest ==
  ASSUME NEW ids \in SUBSET WebDav!Id, ids # {}
  PROVE  WebDav!NewestOf(ids) \in ids
<1>1. IsFiniteSet(ids) /\ ids \in SUBSET (Nat \X Nat)
  BY ShareIds, FS_Subset
<1>2. \E id \in ids : \A other \in ids \ {id} : Folder!After(id, other)
  BY <1>1, Newest
<1>3. \E id \in ids : \A other \in ids \ {id} : WebDav!After(id, other)
  BY <1>2 DEF Folder!After, WebDav!After
<1> QED
  BY <1>3 DEF WebDav!NewestOf

(* A new version has the millisecond its upload is in: this PC has had no  *)
(* other since then.                                                       *)
LEMMA ShareNextId ==
  ASSUME ShareTypes, NEW p \in PC,
         NEW existing, \A id \in existing : id[1] <= last[id[2]], last[p] < clock
  PROVE  WebDav!NextVersionId(existing, p) = <<clock, p>>
<1> DEFINE free == {id \in WebDav!Id : id[1] >= clock /\ id[2] = p /\ id \notin existing}
<1>1. clock \in 1 .. MaxClock /\ last[p] \in Nat
  BY DEF ShareTypes
<1>2. <<clock, p>> \in WebDav!Id
  BY <1>1, Constants DEF WebDav!Id
<1>3. <<clock, p>> \notin existing
  BY <1>1
<1>4. \A id \in free \ {<<clock, p>>} : id[1] > clock
  BY <1>1, ShareIds
<1>5. \A id \in free : id[1] \in Nat
  BY ShareIds
<1>6. /\ <<clock, p>> \in free
      /\ \A other \in free \ {<<clock, p>>} : WebDav!After(other, <<clock, p>>)
  BY <1>1, <1>2, <1>3, <1>4 DEF WebDav!After
<1>7. ASSUME NEW id \in free, id # <<clock, p>>
      PROVE  ~WebDav!After(<<clock, p>>, id)
  BY <1>1, <1>4, <1>5, <1>7 DEF WebDav!After
<1>8. \A id \in free : (\A other \in free \ {id} : WebDav!After(other, id)) => id = <<clock, p>>
  BY <1>6, <1>7
<1>9. (CHOOSE id \in free : \A other \in free \ {id} : WebDav!After(other, id)) = <<clock, p>>
  <2> HIDE DEF free
  <2> QED
    BY <1>6, <1>8
<1> QED
  BY <1>9 DEF WebDav!NextVersionId

LEMMA ShareStart == WebDav!Init => ShareInv
<1> SUFFICES ASSUME WebDav!Init PROVE ShareInv
  OBVIOUS
<1> USE Constants DEF WebDav!Init
<1>1. WebDav!Listable = {} /\ WebDav!Shown = {}
  BY DEF WebDav!Listable, WebDav!Shown
<1>2. ShareTypes
  <2>1. WebDav!NoCall \in ShareCall /\ WebDav!NoAnswer \in ShareAnswer
    BY DEF ShareCall, ShareAnswer, WebDav!NoCall, WebDav!NoAnswer
  <2>2. [q \in PC |-> 0] \in [PC -> 0 .. MaxClock] /\ 1 \in 1 .. MaxClock
    OBVIOUS
  <2> QED
    BY <1>1, <2>1, <2>2 DEF ShareTypes
<1>3. ShareVersions /\ LateRequests
  BY <1>1 DEF ShareVersions, WebDav!ListedIsWhole, LateRequests
<1>4. ShareCalls
  BY <1>1 DEF ShareCalls, OwnCall, InHand, WebDav!NoCall, WebDav!NoAnswer
<1> QED
  BY <1>2, <1>3, <1>4 DEF ShareInv

(* What may be asked of the share, given what is deleted by now.           *)
Proper(r, gone) ==
    /\ r.what \in {"zip", "json"} => r.id \in WebDav!Id \ WebDav!Shown /\ r.save \in Save
    /\ r.what = "json" => zip[r.id] = r.save
    /\ r.what \in {"no zip", "no json"} => r.id \in gone
    /\ r.what = "lock" => r.id \in WebDav!Shown

ShareSeenStep ==
    SeenStep(WebDav!Held, WebDav!Held', WebDav!Locked, WebDav!Locked', WebDav!Used, WebDav!Used')

(* How the share looks when it is left alone.                              *)
LEMMA LeftAlone ==
  ASSUME ShareTypes, ShareVersions, UNCHANGED <<zip, sidecar, marker>>,
         doomed \subseteq doomed', doomed' \subseteq WebDav!Shown
  PROVE  /\ WebDav!Shown' = WebDav!Shown
         /\ WebDav!ListedIsWhole'
         /\ \A id, save : HeldAs(id, save) => HeldAs(id, save)'
         /\ ShareSeenStep
<1>1. WebDav!Listable' = WebDav!Listable
  BY DEF WebDav!Listable
<1>2. WebDav!Shown' = WebDav!Shown
  BY <1>1 DEF WebDav!Shown
<1>3. WebDav!ListedIsWhole'
  BY <1>1 DEF ShareVersions, WebDav!ListedIsWhole
<1>4. \A id, save : HeldAs(id, save) => HeldAs(id, save)'
  BY <1>2 DEF HeldAs
<1>5. WebDav!Whole' = WebDav!Whole
  BY <1>1 DEF WebDav!Whole
<1>6. WebDav!Held' = WebDav!Held /\ WebDav!Locked' = WebDav!Locked /\ WebDav!Used' = WebDav!Used
  BY <1>2, <1>5 DEF WebDav!Held, WebDav!Locked, WebDav!Used, WebDav!Shown
<1> QED
  BY <1>2, <1>3, <1>4, <1>6 DEF ShareSeenStep, SeenStep

(* What carrying out a request does to the share, and that nobody sees     *)
(* anything but a version appear, go or be marked.                         *)
LEMMA Carry ==
  ASSUME ShareTypes, ShareVersions, NEW r \in WebDav!Request, WebDav!CarriedOut(r),
         doomed \subseteq doomed', doomed' \subseteq WebDav!Shown, Proper(r, doomed')
  PROVE  /\ zip' \in [WebDav!Id -> Save \cup {None}] /\ sidecar' \in [WebDav!Id -> Save \cup {None}]
         /\ WebDav!Shown' = WebDav!Shown \cup (IF r.what = "json" THEN {r.id} ELSE {})
         /\ marker' \subseteq WebDav!Shown'
         /\ WebDav!ListedIsWhole'
         /\ \A id, save : HeldAs(id, save) => HeldAs(id, save)'
         /\ \A id \in WebDav!Id \ WebDav!Shown : id # r.id \/ r.what # "zip" => zip'[id] = zip[id]
         /\ r.what = "json" => HeldAs(r.id, r.save)'
         /\ r.what = "zip" => zip'[r.id] = r.save
         /\ ShareSeenStep
<1> USE Constants
<1> DEFINE Id == WebDav!Id
           whole == WebDav!Whole
<1>1. /\ zip \in [Id -> Save \cup {None}] /\ sidecar \in [Id -> Save \cup {None}]
      /\ marker \subseteq WebDav!Shown /\ doomed \subseteq Id
  BY DEF ShareTypes
<1>2. /\ WebDav!Shown = doomed \cup {id \in Id : sidecar[id] # None}
      /\ WebDav!Shown' = doomed' \cup {id \in Id : sidecar'[id] # None}
      /\ WebDav!Listable = {id \in Id : sidecar[id] # None}
      /\ WebDav!Listable' = {id \in Id : sidecar'[id] # None}
  BY DEF WebDav!Shown, WebDav!Listable
<1>3. WebDav!ListedIsWhole
  BY DEF ShareVersions
<1>4. /\ WebDav!Held = Holds(whole, sidecar) /\ WebDav!Held' = Holds(WebDav!Whole', sidecar')
      /\ WebDav!Locked = marker \cap whole /\ WebDav!Locked' = marker' \cap WebDav!Whole'
      /\ WebDav!Used = WebDav!Shown /\ WebDav!Used' = WebDav!Shown'
  BY DEF WebDav!Held, WebDav!Locked, WebDav!Used, WebDav!Shown, Holds
<1>5. /\ whole = {id \in Id : sidecar[id] # None /\ zip[id] = sidecar[id]}
      /\ WebDav!Whole' = {id \in Id : sidecar'[id] # None /\ zip'[id] = sidecar'[id]}
  BY <1>2 DEF WebDav!Whole
<1> HIDE DEF Id, whole
<1>6. ASSUME NEW id, WebDav!Whole' = whole, \A i \in whole : sidecar'[i] = sidecar[i],
             WebDav!Shown' = WebDav!Shown, marker' \in {marker, marker \cup {id}, marker \ {id}}
      PROVE  ShareSeenStep
  BY <1>4, <1>6, IsMarked DEF ShareSeenStep
<1>7. ASSUME NEW id, WebDav!Whole' = whole \ {id}, \A i \in whole \ {id} : sidecar'[i] = sidecar[i],
             WebDav!Shown' = WebDav!Shown, marker' = marker
      PROVE  ShareSeenStep
  <2>1. CASE id \in whole
    BY <1>4, <1>7, <2>1, Goes DEF ShareSeenStep
  <2>2. CASE id \notin whole
    BY <1>6, <1>7, <2>2
  <2> QED
    BY <2>1, <2>2
<1>8. r.id \in Id \cup {WebDav!NoId} /\ WebDav!NoId \notin Id
  BY ShareIds DEF WebDav!Request, Id
<1>a. CASE r.what = "zip"
  <2>1. /\ zip' = [zip EXCEPT ![r.id] = r.save] /\ UNCHANGED <<sidecar, marker>>
        /\ r.id \in Id \ WebDav!Shown /\ r.save \in Save
    BY <1>a DEF WebDav!CarriedOut, Proper, Id
  <2>2. /\ zip' \in [Id -> Save \cup {None}] /\ zip'[r.id] = r.save
        /\ \A id \in Id \ {r.id} : zip'[id] = zip[id]
    BY <1>1, <2>1
  <2>3. WebDav!Shown' = WebDav!Shown
    BY <1>2, <2>1
  <2>4. WebDav!Whole' = whole
    BY <1>2, <1>5, <2>1, <2>2
  <2>5. ShareSeenStep
    BY <1>6, <2>1, <2>3, <2>4
  <2>6. \A id, save : HeldAs(id, save) => HeldAs(id, save)'
    BY <2>1, <2>2, <2>3, <1>1, <1>2 DEF HeldAs
  <2>7. WebDav!ListedIsWhole'
    BY <1>2, <1>3, <2>1, <2>2 DEF WebDav!ListedIsWhole
  <2> QED
    BY <1>1, <1>a, <2>1, <2>2, <2>3, <2>5, <2>6, <2>7 DEF Id
<1>b. CASE r.what = "json"
  <2>1. /\ sidecar' = [sidecar EXCEPT ![r.id] = r.save] /\ UNCHANGED <<zip, marker>>
        /\ r.id \in Id \ WebDav!Shown /\ r.save \in Save /\ zip[r.id] = r.save
    BY <1>b DEF WebDav!CarriedOut, Proper, Id
  <2>2. /\ sidecar' \in [Id -> Save \cup {None}] /\ sidecar'[r.id] = r.save
        /\ \A id \in Id \ {r.id} : sidecar'[id] = sidecar[id]
    BY <1>1, <2>1
  <2>3. WebDav!Shown' = WebDav!Shown \cup {r.id}
    BY <1>2, <2>1, <2>2
  <2>4. WebDav!Whole' = whole \cup {r.id} /\ r.id \notin whole
    BY <1>2, <1>5, <2>1, <2>2
  <2>5. r.id \in Folder!Id \ WebDav!Shown
    <3>1. 1 .. MaxClock \subseteq 1 .. MaxClock + MaxUploads - 1
      OBVIOUS
    <3>2. Id \subseteq Folder!Id
      BY <3>1, Zenon DEF Folder!Id, WebDav!Id, Id
    <3> QED
      BY <2>1, <3>2
  <2>6. ShareSeenStep
    <3>1. \A i \in whole : sidecar'[i] = sidecar[i]
      BY <1>5, <2>2, <2>4
    <3> QED
      BY <1>1, <1>4, <2>1, <2>2, <2>3, <2>4, <2>5, <3>1, Appears DEF ShareSeenStep
  <2>7. \A id, save : HeldAs(id, save) => HeldAs(id, save)'
    BY <2>1, <2>2, <2>3, <1>1, <1>2 DEF HeldAs
  <2>8. HeldAs(r.id, r.save)'
    BY <2>1, <2>2, <2>3 DEF HeldAs
  <2>9. WebDav!ListedIsWhole'
    BY <1>2, <1>3, <2>1, <2>2 DEF WebDav!ListedIsWhole
  <2> QED
    BY <1>1, <1>b, <2>1, <2>2, <2>3, <2>6, <2>7, <2>8, <2>9 DEF Id
<1>c. CASE r.what = "no zip"
  <2>1. zip' = [zip EXCEPT ![r.id] = None] /\ UNCHANGED <<sidecar, marker>> /\ r.id \in doomed'
    BY <1>c DEF WebDav!CarriedOut, Proper, Id
  <2>2. /\ zip' \in [Id -> Save \cup {None}] /\ \A id \in Id \ {r.id} : zip'[id] = zip[id]
        /\ r.id \in Id => zip'[r.id] = None
    BY <1>1, <2>1
  <2>3. WebDav!Shown' = WebDav!Shown
    BY <1>2, <2>1
  <2>4. WebDav!Whole' = whole \ {r.id}
    BY <1>2, <1>5, <2>1, <2>2
  <2>5. ShareSeenStep
    BY <1>7, <2>1, <2>3, <2>4
  <2>6. \A id, save : HeldAs(id, save) => HeldAs(id, save)'
    BY <2>1, <2>2, <2>3, <1>1, <1>2 DEF HeldAs
  <2>7. WebDav!ListedIsWhole'
    BY <1>2, <1>3, <2>1, <2>2 DEF WebDav!ListedIsWhole
  <2> QED
    BY <1>1, <1>c, <2>1, <2>2, <2>3, <2>5, <2>6, <2>7 DEF Id
<1>d. CASE r.what = "no json"
  <2>1. sidecar' = [sidecar EXCEPT ![r.id] = None] /\ UNCHANGED <<zip, marker>> /\ r.id \in doomed'
    BY <1>d DEF WebDav!CarriedOut, Proper, Id
  <2>2. /\ sidecar' \in [Id -> Save \cup {None}] /\ \A id \in Id \ {r.id} : sidecar'[id] = sidecar[id]
        /\ r.id \in Id => sidecar'[r.id] = None
    BY <1>1, <2>1
  <2>3. WebDav!Shown' = WebDav!Shown
    BY <1>2, <2>1, <2>2
  <2>4. WebDav!Whole' = whole \ {r.id} /\ \A i \in whole \ {r.id} : sidecar'[i] = sidecar[i]
    BY <1>2, <1>5, <2>1, <2>2
  <2>5. ShareSeenStep
    BY <1>7, <2>1, <2>3, <2>4
  <2>6. \A id, save : HeldAs(id, save) => HeldAs(id, save)'
    BY <2>1, <2>2, <2>3, <1>1, <1>2 DEF HeldAs
  <2>7. WebDav!ListedIsWhole'
    BY <1>2, <1>3, <2>1, <2>2 DEF WebDav!ListedIsWhole
  <2> QED
    BY <1>1, <1>d, <2>1, <2>2, <2>3, <2>5, <2>6, <2>7 DEF Id
<1>e. CASE r.what \in {"collection", "lock", "unlock"}
  <2>1. /\ UNCHANGED <<zip, sidecar>> /\ marker' \in {marker, marker \cup {r.id}, marker \ {r.id}}
        /\ r.what # "lock" => marker' \subseteq marker
    BY <1>e DEF WebDav!CarriedOut
  <2>2. WebDav!Shown' = WebDav!Shown /\ WebDav!Whole' = whole
    BY <1>2, <1>5, <2>1
  <2>3. marker' \subseteq WebDav!Shown
    <3>1. CASE r.what = "lock"
      BY <1>1, <2>1, <3>1 DEF Proper
    <3>2. CASE r.what # "lock"
      BY <1>1, <2>1, <3>2
    <3> QED
      BY <3>1, <3>2
  <2>4. ShareSeenStep
    BY <1>6, <2>1, <2>2
  <2>5. \A id, save : HeldAs(id, save) => HeldAs(id, save)'
    BY <2>1, <2>2 DEF HeldAs
  <2>6. WebDav!ListedIsWhole'
    BY <1>2, <1>3, <2>1 DEF WebDav!ListedIsWhole
  <2> QED
    BY <1>1, <1>e, <2>1, <2>2, <2>3, <2>4, <2>5, <2>6 DEF Id
<1> QED
  <2>1. r.what \in {"collection", "zip", "json", "lock", "unlock", "no zip", "no json"}
    BY DEF WebDav!Request
  <2> QED
    BY <2>1, <1>a, <1>b, <1>c, <1>d, <1>e

(* What comes of a request, heard of or not.                               *)
LEMMA Asked ==
  ASSUME ShareTypes, ShareVersions, NEW r \in WebDav!Request,
         WebDav!Heard(r) \/ WebDav!Unheard(r),
         doomed \subseteq doomed', doomed' \subseteq WebDav!Shown, Proper(r, doomed')
  PROVE  /\ zip' \in [WebDav!Id -> Save \cup {None}] /\ sidecar' \in [WebDav!Id -> Save \cup {None}]
         /\ made' \in BOOLEAN /\ late' \subseteq WebDav!Request
         /\ marker' \subseteq WebDav!Shown'
         /\ WebDav!Shown \subseteq WebDav!Shown'
         /\ WebDav!Shown' \subseteq WebDav!Shown \cup (IF r.what = "json" THEN {r.id} ELSE {})
         /\ \/ late' = late
            \/ late' = late \cup {r} /\ WebDav!Shown' = WebDav!Shown /\ zip' = zip
         /\ WebDav!ListedIsWhole'
         /\ \A id, save : HeldAs(id, save) => HeldAs(id, save)'
         /\ \A id \in WebDav!Id \ WebDav!Shown : id # r.id \/ r.what # "zip" => zip'[id] = zip[id]
         /\ WebDav!Heard(r) =>
                /\ r.what = "json" => HeldAs(r.id, r.save)'
                /\ r.what = "zip" => zip'[r.id] = r.save
         /\ ShareSeenStep
<1>1. CASE WebDav!CarriedOut(r) /\ late' = late
  <2>1. made' \in BOOLEAN
    BY <1>1 DEF WebDav!CarriedOut, ShareTypes
  <2> QED
    BY <1>1, <2>1, Carry DEF ShareTypes
<1>2. CASE UNCHANGED <<zip, sidecar, marker, made>> /\ late' \in {late, late \cup {r}} /\ ~WebDav!Heard(r)
  <2>1. zip' \in [WebDav!Id -> Save \cup {None}] /\ sidecar' \in [WebDav!Id -> Save \cup {None}]
        /\ made' \in BOOLEAN /\ late' \subseteq WebDav!Request /\ marker' \subseteq WebDav!Shown
    BY <1>2 DEF ShareTypes
  <2> QED
    BY <1>2, <2>1, LeftAlone
<1>3. WebDav!Heard(r) => WebDav!CarriedOut(r) /\ late' = late
  BY DEF WebDav!Heard
<1>4. WebDav!Unheard(r) => \/ WebDav!CarriedOut(r) /\ late' = late
                           \/ UNCHANGED <<zip, sidecar, marker, made>> /\ late' \in {late, late \cup {r}}
  BY DEF WebDav!Unheard, WebDav!share
<1> QED
  BY <1>1, <1>2, <1>3, <1>4

(* A call that no step is of stays in order.                               *)
LEMMA CallKept ==
  ASSUME NEW q \in PC, OwnCall(q),
         call'[q] = call[q], told'[q] = told[q], last'[q] = last[q],
         doomed \subseteq doomed', WebDav!Shown \subseteq WebDav!Shown',
         \A id, save : HeldAs(id, save) => HeldAs(id, save)',
         InHand(q) => call[q].id \notin WebDav!Shown' /\ zip'[call[q].id] = zip[call[q].id]
  PROVE  OwnCall(q)'
<1>1. WebDav!Victim(q)' = WebDav!Victim(q)
  BY DEF WebDav!Victim, WebDav!NewestOf, WebDav!After
<1>2. InHand(q)' <=> InHand(q)
  BY DEF InHand
<1>3. call[q].at = "json" => InHand(q)
  BY DEF InHand
<1> QED
  BY <1>1, <1>2, <1>3 DEF OwnCall

(* What a step has to see to: the calls of the PCs it is of, the requests  *)
(* it leaves behind, and the id whose files it may have changed.           *)
StepInOrder(P, x) ==
    /\ \A q \in PC \ P : call'[q] = call[q] /\ told'[q] = told[q] /\ last'[q] = last[q]
    /\ \A p \in P : last[p] <= last'[p] /\ OwnCall(p)'
    /\ doomed \subseteq doomed' /\ WebDav!Shown \subseteq WebDav!Shown'
    /\ WebDav!Shown' \subseteq WebDav!Shown \cup {x}
    /\ x \in WebDav!Shown' \ WebDav!Shown => x[1] <= last'[x[2]]
    /\ WebDav!ListedIsWhole'
    /\ \A id, save : HeldAs(id, save) => HeldAs(id, save)'
    /\ \A id \in WebDav!Id \ WebDav!Shown : id # x => zip'[id] = zip[id]
    /\ \A q \in PC \ P : InHand(q) => call[q].id # x
    /\ \A s \in late \cap late' :
           /\ s.what = "json" => s.id # x
           /\ s.what = "zip" => s.id # x \/ x \notin WebDav!Shown'
           /\ s.what \in {"zip", "json"} => \A p \in P : InHand(p)' => s.id # call'[p].id
    /\ \A s \in late' \ late :
           /\ LateRequest(s)'
           /\ s.what = "json" => \A r \in late : r.what = "zip" => r.id # s.id

LEMMA InOrder ==
  ASSUME ShareInv, ShareTypes', NEW P \in SUBSET PC, NEW x, StepInOrder(P, x)
  PROVE  ShareInv'
<1> USE DEF ShareInv, StepInOrder
<1>1. \A q \in PC : last[q] \in Nat /\ last'[q] \in Nat /\ last[q] <= last'[q]
  BY DEF ShareTypes
<1>2. \A id \in WebDav!Id : id[1] \in Nat /\ id[2] \in PC
  BY ShareIds
<1>3. WebDav!Shown \subseteq WebDav!Id /\ WebDav!Shown' \subseteq WebDav!Id
  BY DEF ShareTypes, WebDav!Shown, WebDav!Listable
<1>4. ShareVersions'
  <2>1. ASSUME NEW id \in WebDav!Shown' PROVE id[1] <= last'[id[2]]
    <3>1. CASE id \in WebDav!Shown
      <4>1. id[1] <= last[id[2]]
        BY <3>1 DEF ShareVersions
      <4> QED
        BY <4>1, <3>1, <1>1, <1>2, <1>3
    <3>2. CASE id = x /\ id \notin WebDav!Shown
      BY <3>2, <2>1
    <3> QED
      BY <2>1, <3>1, <3>2
  <2> QED
    BY <2>1 DEF ShareVersions
<1>5. ASSUME NEW s \in late' PROVE LateRequest(s)'
  <2>1. CASE s \in late
    <3>1. LateRequest(s)
      BY <2>1 DEF LateRequests
    <3>2. s.what \in {"zip", "json"} =>
              /\ s.id \in WebDav!Id \ WebDav!Shown' /\ s.save \in Save
              /\ s.id[1] <= last'[s.id[2]]
      <4> SUFFICES ASSUME s.what \in {"zip", "json"}
                   PROVE  /\ s.id \in WebDav!Id \ WebDav!Shown' /\ s.save \in Save
                          /\ s.id[1] <= last'[s.id[2]]
        OBVIOUS
      <4>1. s.id \in WebDav!Id \ WebDav!Shown /\ s.save \in Save /\ s.id[1] <= last[s.id[2]]
        BY <3>1 DEF LateRequest
      <4>2. s.id \notin WebDav!Shown'
        BY <4>1, <2>1, <1>5
      <4> QED
        BY <4>1, <4>2, <1>1, <1>2
    <3>3. s.what \in {"zip", "json"} => \A p \in PC : InHand(p)' => call'[p].id # s.id
      <4> SUFFICES ASSUME s.what \in {"zip", "json"}, NEW p \in PC, InHand(p)' PROVE call'[p].id # s.id
        OBVIOUS
      <4>1. CASE p \in P
        BY <4>1, <2>1, <1>5
      <4>2. CASE p \notin P
        BY <4>2, <3>1 DEF InHand, LateRequest
      <4> QED
        BY <4>1, <4>2
    <3>4. s.what = "json" => zip'[s.id] = s.save
      BY <3>1, <2>1, <1>5 DEF LateRequest
    <3>5. s.what = "zip" => \A t \in late' : t.what = "json" => t.id # s.id
      BY <3>1, <2>1 DEF LateRequest
    <3>6. /\ s.what \in {"no zip", "no json"} => s.id \in doomed'
          /\ s.what = "lock" => s.id \in WebDav!Shown'
      BY <3>1 DEF LateRequest
    <3> QED
      BY <3>2, <3>3, <3>4, <3>5, <3>6 DEF LateRequest
  <2> QED
    BY <1>5, <2>1
<1>6. ASSUME NEW q \in PC PROVE OwnCall(q)'
  <2>1. CASE q \notin P
    <3>1. OwnCall(q) /\ call'[q] = call[q] /\ told'[q] = told[q] /\ last'[q] = last[q]
      BY <2>1 DEF ShareCalls
    <3>2. InHand(q) => call[q].id \in WebDav!Id \ WebDav!Shown /\ call[q].id # x
      BY <2>1, <3>1 DEF OwnCall
    <3>3. InHand(q) => call[q].id \notin WebDav!Shown' /\ zip'[call[q].id] = zip[call[q].id]
      BY <3>2
    <3> QED
      BY <3>1, <3>3, CallKept
  <2> QED
    BY <2>1
<1> QED
  BY <1>4, <1>5, <1>6 DEF LateRequests, ShareCalls

(* A step of one PC that leaves the share alone.                           *)
LEMMA QuietCall ==
  ASSUME ShareInv, NEW p \in PC,
         UNCHANGED <<zip, sidecar, marker, made, late, clock, last, doomed>>,
         call' \in [PC -> ShareCall], told' \in [PC -> ShareAnswer],
         \A q \in PC \ {p} : call'[q] = call[q] /\ told'[q] = told[q],
         ~InHand(p)', OwnCall(p)'
  PROVE  ShareInv' /\ ShareSeenStep
<1> USE DEF ShareInv
<1>1. doomed' \subseteq WebDav!Shown
  BY DEF WebDav!Shown
<1>2. /\ WebDav!Shown' = WebDav!Shown
      /\ WebDav!ListedIsWhole'
      /\ \A id, save : HeldAs(id, save) => HeldAs(id, save)'
      /\ ShareSeenStep
  BY <1>1, LeftAlone
<1>3. ShareTypes'
  BY <1>2 DEF ShareTypes
<1>4. \A q \in PC : InHand(q) => call[q].id # WebDav!NoId
  BY ShareIds DEF ShareCalls, OwnCall
<1>5. \A s \in late : s.what \in {"zip", "json"} => s.id # WebDav!NoId
  BY ShareIds DEF LateRequests, LateRequest
<1>6. last[p] <= last'[p]
  BY DEF ShareTypes
<1> HIDE DEF ShareInv
<1>7. StepInOrder({p}, WebDav!NoId)
  BY <1>2, <1>4, <1>5, <1>6 DEF StepInOrder
<1>8. ShareInv'
  BY <1>3, <1>7, InOrder
<1> QED
  BY <1>2, <1>8

LEMMA IdleCall ==
  ASSUME NEW p \in PC, call'[p] = WebDav!NoCall,
         (told[p].kind # "none" => HeldAs(told[p].id, told[p].save))'
  PROVE  OwnCall(p)' /\ ~InHand(p)'
  BY DEF OwnCall, InHand, WebDav!NoCall

LEMMA NewestIsFound ==
  ASSUME ShareTypes, NEW p \in PC, call[p].found # {}
  PROVE  WebDav!NewestFound(p) \in call[p].found
<1>1. call[p].found \subseteq WebDav!Id \X Save
  BY DEF ShareTypes, ShareCall
<1>2. WebDav!Ids(call[p].found) \subseteq WebDav!Id /\ WebDav!Ids(call[p].found) # {}
  BY <1>1 DEF WebDav!Ids
<1>3. PICK version \in call[p].found : version[1] = WebDav!NewestOf(WebDav!Ids(call[p].found))
  BY <1>2, ShareNewest DEF WebDav!Ids
<1> QED
  BY <1>3 DEF WebDav!NewestFound

(* The steps that ask nothing of the share but what it holds.              *)
LEMMA ReadingStep ==
  ASSUME ShareInv, NEW p \in PC,
         \/ WebDav!Upload(p) \/ WebDav!DeleteAll(p) \/ WebDav!Delete(p) \/ WebDav!Lock(p)
         \/ WebDav!Fetch(p) \/ WebDav!Children(p) \/ WebDav!Sidecar(p) \/ WebDav!Unchanged(p)
         \/ WebDav!Conflict(p) \/ WebDav!GoOn(p) \/ WebDav!Listed(p) \/ WebDav!Done(p)
         \/ WebDav!Fetched(p) \/ WebDav!Quit(p)
  PROVE  ShareInv' /\ ShareSeenStep
<1> USE Constants DEF WebDav!share
<1> DEFINE Quiet == UNCHANGED <<zip, sidecar, marker, made, late, clock, last, doomed>>
           Others == \A q \in PC \ {p} : call'[q] = call[q] /\ told'[q] = told[q]
<1>1. ShareTypes /\ ShareVersions /\ OwnCall(p)
  BY DEF ShareInv, ShareCalls
<1>2. call \in [PC -> ShareCall] /\ told \in [PC -> ShareAnswer] /\ doomed \subseteq WebDav!Shown
  BY <1>1 DEF ShareTypes, WebDav!Shown
<1>3. ASSUME Quiet
      PROVE  /\ WebDav!Shown' = WebDav!Shown
             /\ \A id, save : HeldAs(id, save) => HeldAs(id, save)'
  BY <1>1, <1>2, <1>3, LeftAlone
<1>4. WebDav!NoCall \in ShareCall /\ WebDav!NoAnswer \in ShareAnswer
  BY DEF WebDav!NoCall, WebDav!NoAnswer, ShareCall, ShareAnswer
<1>5. WebDav!Shown \subseteq WebDav!Id /\ WebDav!Listable \subseteq WebDav!Shown
  BY <1>1 DEF ShareTypes, WebDav!Shown, WebDav!Listable
<1>6. ASSUME Quiet, told' = told, call' = [call EXCEPT ![p] = WebDav!NoCall]
      PROVE  ShareInv' /\ ShareSeenStep
  <2>1. call' \in [PC -> ShareCall] /\ Others /\ call'[p] = WebDav!NoCall
    BY <1>2, <1>4, <1>6
  <2>2. told[p].kind # "none" => HeldAs(told[p].id, told[p].save)
    BY <1>1 DEF OwnCall
  <2>3. (told[p].kind # "none" => HeldAs(told[p].id, told[p].save))'
    BY <1>3, <1>6, <2>2
  <2> QED
    BY <1>2, <1>6, <2>1, <2>3, IdleCall, QuietCall
<1>a. CASE WebDav!Upload(p)
  <2>1. PICK save \in Save :
            call' = [call EXCEPT ![p] = [WebDav!NoCall EXCEPT !.at = "asking", !.save = save]]
    BY <1>a DEF WebDav!Upload, WebDav!Begin
  <2>2. Quiet /\ told' = [told EXCEPT ![p] = WebDav!NoAnswer]
    BY <1>a DEF WebDav!Upload, WebDav!Begin
  <2>3. /\ call' \in [PC -> ShareCall] /\ told' \in [PC -> ShareAnswer] /\ Others
        /\ call'[p] = [WebDav!NoCall EXCEPT !.at = "asking", !.save = save]
        /\ told'[p].kind = "none"
    BY <1>2, <1>4, <2>1, <2>2 DEF ShareCall, WebDav!NoCall, WebDav!NoAnswer
  <2>4. OwnCall(p)' /\ ~InHand(p)'
    BY <2>3 DEF OwnCall, InHand, WebDav!NoCall
  <2> QED
    BY <2>2, <2>3, <2>4, QuietCall
<1>b. CASE WebDav!DeleteAll(p)
  <2>1. /\ call' = [call EXCEPT ![p] = [WebDav!NoCall EXCEPT !.at = "asking", !.why = "delete all"]]
        /\ Quiet /\ told' = told
    BY <1>b DEF WebDav!DeleteAll, WebDav!Begin
  <2>2. /\ call' \in [PC -> ShareCall] /\ told' \in [PC -> ShareAnswer] /\ Others
        /\ call'[p] = [WebDav!NoCall EXCEPT !.at = "asking", !.why = "delete all"]
    BY <1>2, <1>4, <2>1 DEF ShareCall, WebDav!NoCall
  <2>3. OwnCall(p)' /\ ~InHand(p)'
    BY <1>1, <1>3, <2>1, <2>2 DEF OwnCall, InHand, WebDav!NoCall
  <2> QED
    BY <2>1, <2>2, <2>3, QuietCall
<1>c. CASE WebDav!Delete(p)
  <2>1. PICK id \in WebDav!Shown :
            call' = [call EXCEPT ![p] =
                [WebDav!NoCall EXCEPT !.at = "no zip", !.why = "delete", !.names = {id}]]
    BY <1>c DEF WebDav!Delete, WebDav!Begin
  <2>2. Quiet /\ told' = told
    BY <1>c DEF WebDav!Delete, WebDav!Begin
  <2>3. /\ call' \in [PC -> ShareCall] /\ told' \in [PC -> ShareAnswer] /\ Others
        /\ call'[p] = [WebDav!NoCall EXCEPT !.at = "no zip", !.why = "delete", !.names = {id}]
    BY <1>2, <1>4, <1>5, <2>1, <2>2, ZenonT(60) DEF ShareCall, WebDav!NoCall
  <2>4. OwnCall(p)' /\ ~InHand(p)'
    BY <1>1, <1>3, <2>1, <2>2, <2>3 DEF OwnCall, InHand, WebDav!NoCall
  <2> QED
    BY <2>2, <2>3, <2>4, QuietCall
<1>d. CASE WebDav!Lock(p)
  <2>1. PICK id \in WebDav!Shown, why \in {"lock", "unlock"} :
            call' = [call EXCEPT ![p] =
                [WebDav!NoCall EXCEPT !.at = "locking", !.why = why, !.id = id]]
    BY <1>d DEF WebDav!Lock, WebDav!Begin
  <2>2. Quiet /\ told' = told
    BY <1>d DEF WebDav!Lock, WebDav!Begin
  <2>3. /\ call' \in [PC -> ShareCall] /\ told' \in [PC -> ShareAnswer] /\ Others
        /\ call'[p] = [WebDav!NoCall EXCEPT !.at = "locking", !.why = why, !.id = id]
    BY <1>2, <1>4, <1>5, <2>1, <2>2 DEF ShareCall, WebDav!NoCall
  <2>4. OwnCall(p)' /\ ~InHand(p)'
    BY <1>1, <1>3, <2>1, <2>2, <2>3 DEF OwnCall, InHand, WebDav!NoCall
  <2> QED
    BY <2>2, <2>3, <2>4, QuietCall
<1>e. CASE WebDav!Fetch(p)
  <2>1. PICK id \in WebDav!Shown :
            call' = [call EXCEPT ![p] = [WebDav!NoCall EXCEPT !.at = "fetching", !.id = id]]
    BY <1>e DEF WebDav!Fetch, WebDav!Begin
  <2>2. Quiet /\ told' = told
    BY <1>e DEF WebDav!Fetch, WebDav!Begin
  <2>3. /\ call' \in [PC -> ShareCall] /\ told' \in [PC -> ShareAnswer] /\ Others
        /\ call'[p] = [WebDav!NoCall EXCEPT !.at = "fetching", !.id = id]
    BY <1>2, <1>4, <1>5, <2>1, <2>2 DEF ShareCall, WebDav!NoCall
  <2>4. OwnCall(p)' /\ ~InHand(p)'
    BY <1>1, <1>3, <2>1, <2>2, <2>3 DEF OwnCall, InHand, WebDav!NoCall
  <2> QED
    BY <2>2, <2>3, <2>4, QuietCall
<1>f. CASE WebDav!Children(p)
  <2>1. Quiet /\ told' = told /\ call[p].at = "asking"
    BY <1>f DEF WebDav!Children
  <2>2. CASE call' = [call EXCEPT ![p] = WebDav!NoCall]
    BY <1>6, <2>1, <2>2
  <2>3. CASE call' = [call EXCEPT ![p].at = "reading", ![p].names = WebDav!Listable,
                                  ![p].locks = marker, ![p].found = {}]
    <3>1. marker \subseteq WebDav!Id
      BY <1>1, <1>5 DEF ShareTypes
    <3>2. /\ call' \in [PC -> ShareCall] /\ Others
          /\ call'[p].at = "reading" /\ call'[p].names = WebDav!Listable /\ call'[p].found = {}
          /\ call'[p].why = call[p].why /\ call'[p].save = call[p].save /\ call'[p].id = call[p].id
      <4>1. WebDav!Listable \subseteq WebDav!Id
        BY <1>5
      <4> DEFINE c == [call[p] EXCEPT !.at = "reading", !.names = WebDav!Listable,
                                      !.locks = marker, !.found = {}]
      <4>2. call' = [call EXCEPT ![p] = c]
        BY <1>2, <2>3, Zenon
      <4>3. /\ c \in ShareCall /\ c.at = "reading" /\ c.names = WebDav!Listable /\ c.found = {}
            /\ c.why = call[p].why /\ c.save = call[p].save /\ c.id = call[p].id
        BY <1>2, <3>1, <4>1, ZenonT(60) DEF ShareCall
      <4> HIDE DEF c
      <4> QED
        BY <1>2, <2>1, <4>2, <4>3
    <3>3. OwnCall(p)' /\ ~InHand(p)'
      BY <1>1, <1>3, <1>5, <2>1, <3>2 DEF OwnCall, InHand
    <3> QED
      BY <1>2, <2>1, <3>2, <3>3, QuietCall
  <2> QED
    BY <1>f, <2>2, <2>3 DEF WebDav!Children
<1>g. CASE WebDav!Sidecar(p)
  <2>1. Quiet /\ told' = told /\ call[p].at = "reading"
    BY <1>g DEF WebDav!Sidecar
  <2>2. PICK id \in call[p].names :
            \/ call' = [call EXCEPT ![p].names = @ \ {id},
                   ![p].found = IF sidecar[id] = None THEN @ ELSE @ \cup {<<id, sidecar[id]>>}]
            \/ call' = [call EXCEPT ![p].names = @ \ {id}]
            \/ call' = [call EXCEPT ![p] = WebDav!NoCall]
    BY <1>g DEF WebDav!Sidecar
  <2>3. CASE call' = [call EXCEPT ![p] = WebDav!NoCall]
    BY <1>6, <2>1, <2>3
  <2>4. CASE ~(call' = [call EXCEPT ![p] = WebDav!NoCall])
    <3>1. id \in WebDav!Shown /\ id \in WebDav!Id
      BY <1>1, <1>5 DEF OwnCall
    <3>2. sidecar[id] # None => HeldAs(id, sidecar[id]) /\ sidecar[id] \in Save
      BY <1>1, <3>1 DEF HeldAs, ShareVersions, WebDav!ListedIsWhole, WebDav!Listable, ShareTypes
    <3>3. PICK more \in SUBSET {<<id, sidecar[id]>>} :
              /\ \A version \in more : HeldAs(version[1], version[2]) /\ version \in WebDav!Id \X Save
              /\ call' = [call EXCEPT ![p].names = @ \ {id}, ![p].found = @ \cup more]
      <4>1. CASE call' = [call EXCEPT ![p].names = @ \ {id}]
        <5>1. call' = [call EXCEPT ![p].names = @ \ {id}, ![p].found = @ \cup {}]
          BY <4>1, <1>2 DEF ShareCall
        <5> QED
          BY <5>1
      <4>2. CASE sidecar[id] = None /\ call' = [call EXCEPT ![p].names = @ \ {id}, ![p].found = @]
        <5>1. call' = [call EXCEPT ![p].names = @ \ {id}, ![p].found = @ \cup {}]
          BY <4>2, <1>2 DEF ShareCall
        <5> QED
          BY <5>1
      <4>3. CASE /\ sidecar[id] # None
                 /\ call' = [call EXCEPT ![p].names = @ \ {id},
                                         ![p].found = @ \cup {<<id, sidecar[id]>>}]
        <5> DEFINE one == {<<id, sidecar[id]>>}
        <5>1. \A version \in one : HeldAs(version[1], version[2]) /\ version \in WebDav!Id \X Save
          BY <3>1, <3>2, <4>3
        <5>2. one \in SUBSET one
          OBVIOUS
        <5> QED
          BY <4>3, <5>1, <5>2
      <4> QED
        BY <2>2, <2>4, <4>1, <4>2, <4>3
    <3>4. /\ call' \in [PC -> ShareCall] /\ Others
          /\ call'[p].at = "reading" /\ call'[p].names = call[p].names \ {id}
          /\ call'[p].found = call[p].found \cup more
          /\ call'[p].why = call[p].why /\ call'[p].save = call[p].save /\ call'[p].id = call[p].id
      <4> DEFINE c == [call[p] EXCEPT !.names = @ \ {id}, !.found = @ \cup more]
      <4>1. call' = [call EXCEPT ![p] = c]
        BY <1>2, <3>3
      <4>2. more \subseteq WebDav!Id \X Save
        BY <3>3
      <4>3. /\ c \in ShareCall /\ c.at = "reading" /\ c.names = call[p].names \ {id}
            /\ c.found = call[p].found \cup more
            /\ c.why = call[p].why /\ c.save = call[p].save /\ c.id = call[p].id
        BY <1>2, <2>1, <4>2 DEF ShareCall
      <4> HIDE DEF c
      <4> QED
        BY <1>2, <2>1, <4>1, <4>3
    <3>5. OwnCall(p)' /\ ~InHand(p)'
      BY <1>1, <1>3, <2>1, <3>3, <3>4 DEF OwnCall, InHand
    <3> QED
      BY <1>2, <2>1, <3>4, <3>5, QuietCall
  <2> QED
    BY <2>3, <2>4
<1>h. CASE WebDav!Unchanged(p)
  <2> DEFINE newest == WebDav!NewestFound(p)
  <2>1. /\ Quiet /\ call' = [call EXCEPT ![p] = WebDav!NoCall]
        /\ told' = [told EXCEPT ![p] =
               [kind |-> "unchanged", id |-> newest[1], save |-> call[p].save]]
        /\ call[p].found # {} /\ newest[2] = call[p].save
    BY <1>h DEF WebDav!Unchanged, WebDav!SameAsNewest
  <2>2. newest \in call[p].found /\ newest \in WebDav!Id \X Save
    BY <1>1, <1>2, <2>1, NewestIsFound DEF ShareCall
  <2> HIDE DEF newest
  <2>3. /\ call' \in [PC -> ShareCall] /\ told' \in [PC -> ShareAnswer] /\ Others
        /\ call'[p] = WebDav!NoCall /\ told'[p].id = newest[1] /\ told'[p].save = newest[2]
    BY <1>2, <1>4, <2>1, <2>2 DEF ShareAnswer
  <2>4. HeldAs(newest[1], newest[2])
    BY <1>1, <2>2 DEF OwnCall
  <2>5. HeldAs(told[p].id, told[p].save)'
    BY <1>3, <2>1, <2>3, <2>4
  <2>6. OwnCall(p)' /\ ~InHand(p)'
    BY <2>3, <2>5, IdleCall
  <2> QED
    BY <2>1, <2>3, <2>6, QuietCall
<1>i. CASE WebDav!Conflict(p) \/ WebDav!Fetched(p) \/ WebDav!Quit(p)
  BY <1>6, <1>i DEF WebDav!Conflict, WebDav!Fetched, WebDav!Quit
<1>j. CASE WebDav!GoOn(p)
  <2>1. /\ Quiet /\ told' = told /\ call' = [call EXCEPT ![p].at = "collecting"]
        /\ call[p].at = "reading" /\ call[p].why = "upload"
    BY <1>j DEF WebDav!GoOn, WebDav!ListRead
  <2>2. /\ call' \in [PC -> ShareCall] /\ Others
        /\ call'[p].at = "collecting" /\ call'[p].names = call[p].names
        /\ call'[p].found = call[p].found /\ call'[p].why = "upload"
        /\ call'[p].save = call[p].save
    BY <1>2, <2>1, ZenonT(60) DEF ShareCall
  <2>3. OwnCall(p)' /\ ~InHand(p)'
    BY <1>1, <1>3, <2>1, <2>2 DEF OwnCall, InHand
  <2> QED
    BY <1>2, <2>1, <2>2, <2>3, QuietCall
<1>k. CASE WebDav!Listed(p)
  <2> DEFINE names == IF call[p].why = "prune" THEN WebDav!Stale(p) ELSE WebDav!Ids(call[p].found)
  <2>1. /\ Quiet /\ told' = told
        /\ call' = [call EXCEPT ![p] =
               [WebDav!To(p, "no zip") EXCEPT !.names = names, !.found = {}, !.locks = {}]]
    BY <1>k DEF WebDav!Listed
  <2>2. names \subseteq WebDav!Shown
    <3>1. WebDav!Ids(call[p].found) \subseteq WebDav!Shown
      BY <1>1 DEF WebDav!Ids, OwnCall, HeldAs
    <3> QED
      BY <3>1 DEF WebDav!Stale
  <2> HIDE DEF names
  <2>3. /\ call' \in [PC -> ShareCall] /\ Others
        /\ call'[p].at = "no zip" /\ call'[p].names = names
        /\ call'[p].found = {} /\ call'[p].why = call[p].why
        /\ call'[p].save = call[p].save /\ call'[p].id = call[p].id
    BY <1>2, <1>5, <2>1, <2>2, ZenonT(60) DEF ShareCall, WebDav!To
  <2>4. OwnCall(p)' /\ ~InHand(p)'
    BY <1>1, <1>3, <2>1, <2>2, <2>3 DEF OwnCall, InHand
  <2> QED
    BY <1>2, <2>1, <2>3, <2>4, QuietCall
<1>l. CASE WebDav!Done(p)
  <2>1. /\ Quiet /\ call' = [call EXCEPT ![p] = WebDav!NoCall]
        /\ told' = IF call[p].why = "prune"
                   THEN [told EXCEPT ![p] =
                            [kind |-> "stored", id |-> call[p].id, save |-> call[p].save]]
                   ELSE told
    BY <1>l DEF WebDav!Done
  <2>2. CASE call[p].why # "prune"
    BY <1>6, <2>1, <2>2
  <2>3. CASE call[p].why = "prune"
    <3>1. call[p].id \in WebDav!Id \cup {WebDav!NoId} /\ call[p].save \in Save \cup {None}
      BY <1>2 DEF ShareCall
    <3>2. /\ call' \in [PC -> ShareCall] /\ told' \in [PC -> ShareAnswer] /\ Others
          /\ call'[p] = WebDav!NoCall /\ told'[p].id = call[p].id /\ told'[p].save = call[p].save
      BY <1>2, <1>4, <2>1, <2>3, <3>1 DEF ShareAnswer
    <3>3. HeldAs(call[p].id, call[p].save)
      BY <1>1, <2>3 DEF OwnCall
    <3>4. HeldAs(told[p].id, told[p].save)'
      BY <1>3, <2>1, <3>2, <3>3
    <3>5. OwnCall(p)' /\ ~InHand(p)'
      BY <3>2, <3>4, IdleCall
    <3> QED
      BY <2>1, <3>2, <3>5, QuietCall
  <2> QED
    BY <2>2, <2>3
<1> QED
  BY <1>a, <1>b, <1>c, <1>d, <1>e, <1>f, <1>g, <1>h, <1>i, <1>j, <1>k, <1>l

(* A request of a PC's upload, deletion or lock: what is asked is proper   *)
(* at every step, and the answer finds the call in order.                  *)
LEMMA AskingStep ==
  ASSUME ShareInv, NEW p \in PC,
         \/ WebDav!EnsureCollection(p) \/ WebDav!PutArchive(p) \/ WebDav!PutSidecar(p)
         \/ WebDav!RemoveArchive(p) \/ WebDav!RemoveSidecar(p) \/ WebDav!RemoveMarker(p)
         \/ WebDav!SetLocked(p)
  PROVE  ShareInv' /\ ShareSeenStep
<1> DEFINE Others == \A q \in PC \ {p} : call'[q] = call[q] /\ told'[q] = told[q]
           id == call[p].id
           victim == WebDav!Victim(p)
<1>1. ShareTypes /\ ShareVersions /\ LateRequests /\ OwnCall(p) /\ \A q \in PC : OwnCall(q)
  BY DEF ShareInv, ShareCalls
<1>2. /\ call \in [PC -> ShareCall] /\ told \in [PC -> ShareAnswer] /\ doomed \subseteq WebDav!Shown
      /\ clock \in 1 .. MaxClock /\ last \in [PC -> 0 .. MaxClock]
      /\ WebDav!Shown \subseteq WebDav!Id
  BY <1>1 DEF ShareTypes, WebDav!Shown, WebDav!Listable
<1>3. /\ id \in WebDav!Id \cup {WebDav!NoId} /\ call[p].save \in Save \cup {None}
      /\ WebDav!NoId \notin WebDav!Id /\ WebDav!NoCall \in ShareCall
  BY <1>2, ShareIds DEF ShareCall, WebDav!NoCall
<1>4. /\ \A q \in PC : InHand(q) => call[q].id \in WebDav!Id \ WebDav!Shown /\ call[q].id[2] = q
      /\ \A s \in late : s.what \in {"zip", "json"} => s.id \in WebDav!Id \ WebDav!Shown
  <2>1. ASSUME NEW q \in PC, InHand(q)
        PROVE  call[q].id \in WebDav!Id \ WebDav!Shown /\ call[q].id[2] = q
    <3>1. call[q].id \in WebDav!Id \ WebDav!Shown /\ call[q].id = <<last[q], q>>
      BY <1>1, <2>1 DEF OwnCall
    <3> QED
      BY <3>1
  <2>2. \A s \in late : s.what \in {"zip", "json"} => s.id \in WebDav!Id \ WebDav!Shown
    BY <1>1 DEF LateRequests, LateRequest
  <2> QED
    BY <2>1, <2>2
<1>5. told[p].kind # "none" => HeldAs(told[p].id, told[p].save)
  BY <1>1 DEF OwnCall
<1>6. ASSUME call' = [call EXCEPT ![p] = WebDav!NoCall], told' = told,
             \A i, save : HeldAs(i, save) => HeldAs(i, save)'
      PROVE  call' \in [PC -> ShareCall] /\ Others /\ OwnCall(p)' /\ ~InHand(p)'
  <2>1. call' \in [PC -> ShareCall] /\ Others /\ call'[p] = WebDav!NoCall
    BY <1>2, <1>3, <1>6
  <2>2. (told[p].kind # "none" => HeldAs(told[p].id, told[p].save))'
    BY <1>5, <1>6
  <2> QED
    BY <2>1, <2>2, IdleCall
<1>7. last[p] \in Nat /\ last[p] <= last[p]
  BY <1>2
<1>a. CASE WebDav!EnsureCollection(p)
  <2> DEFINE r == WebDav!Of(p, "collection")
             new == WebDav!NextVersionId(WebDav!Ids(call[p].found), p)
             next == [WebDav!To(p, "zip") EXCEPT !.id = new, !.found = {}, !.locks = {}]
  <2>1. /\ call[p].at = "collecting" /\ last[p] < clock /\ last' = [last EXCEPT ![p] = clock]
        /\ WebDav!Ask(p, r, next) /\ UNCHANGED <<clock, told, doomed>>
    BY <1>a DEF WebDav!EnsureCollection
  <2>2. new = <<clock, p>>
    <3>1. \A i \in WebDav!Ids(call[p].found) : i \in WebDav!Shown
      BY <1>1, ZenonT(60) DEF WebDav!Ids, OwnCall, HeldAs
    <3>2. \A i \in WebDav!Ids(call[p].found) : i[1] <= last[i[2]]
      BY <1>1, <3>1 DEF ShareVersions
    <3> QED
      BY <1>1, <2>1, <3>2, ShareNextId
  <2>3. new \in WebDav!Id /\ \A i \in WebDav!Id : i[1] <= last[i[2]] => i # new
    BY <1>2, <2>1, <2>2 DEF WebDav!Id
  <2>4. r \in WebDav!Request /\ r.what = "collection" /\ Proper(r, doomed')
    BY <1>3 DEF WebDav!Of, WebDav!Request, Proper
  <2>5. WebDav!Heard(r) \/ WebDav!Unheard(r)
    BY <2>1 DEF WebDav!Ask
  <2>6. /\ zip' \in [WebDav!Id -> Save \cup {None}] /\ sidecar' \in [WebDav!Id -> Save \cup {None}]
        /\ made' \in BOOLEAN /\ late' \subseteq WebDav!Request
        /\ marker' \subseteq WebDav!Shown'
        /\ WebDav!Shown' = WebDav!Shown
        /\ late' \in {late, late \cup {r}}
        /\ WebDav!ListedIsWhole'
        /\ \A i, save : HeldAs(i, save) => HeldAs(i, save)'
        /\ \A i \in WebDav!Id \ WebDav!Shown : zip'[i] = zip[i]
        /\ ShareSeenStep
    BY <1>1, <1>2, <2>1, <2>4, <2>5, Asked
  <2> HIDE DEF r, new
  <2>7. last' \in [PC -> 0 .. MaxClock] /\ last[p] <= last'[p] /\ last'[p] = clock
        /\ \A q \in PC \ {p} : last'[q] = last[q]
    BY <1>2, <2>1
  <2>8. /\ call' \in [PC -> ShareCall] /\ Others /\ OwnCall(p)'
        /\ InHand(p)' => call'[p].id = new
    <3>1. CASE call' = [call EXCEPT ![p] = WebDav!NoCall]
      BY <1>6, <2>1, <2>6, <3>1
    <3>2. CASE call' = [call EXCEPT ![p] = next]
      <4>1. /\ next \in ShareCall /\ next.at = "zip" /\ next.id = new /\ next.found = {}
            /\ next.why = call[p].why /\ next.save = call[p].save /\ next.names = call[p].names
        BY <1>2, <2>3 DEF ShareCall, WebDav!To
      <4> HIDE DEF next
      <4>2. call' \in [PC -> ShareCall] /\ Others /\ call'[p] = next
        BY <1>2, <2>1, <3>2, <4>1
      <4>3. new \notin WebDav!Shown
        BY <1>1, <1>2, <2>3 DEF ShareVersions
      <4>4. OwnCall(p)'
        BY <1>1, <1>5, <2>1, <2>2, <2>3, <2>6, <2>7, <4>1, <4>2, <4>3 DEF OwnCall, InHand
      <4> QED
        BY <4>1, <4>2, <4>4
    <3> QED
      BY <2>1, <3>1, <3>2 DEF WebDav!Ask
  <2>9. \A s \in late : s.what \in {"zip", "json"} => s.id # new
    BY <1>1, <2>3 DEF LateRequests, LateRequest
  <2>10. ShareTypes'
    BY <1>1, <1>2, <2>1, <2>6, <2>7, <2>8 DEF ShareTypes
  <2>11. \A s \in late' \ late : LateRequest(s)' /\ s.what = "collection"
    BY <2>4, <2>6 DEF LateRequest
  <2>12. StepInOrder({p}, WebDav!NoId)
    BY <1>2, <1>3, <1>4, <2>1, <2>6, <2>7, <2>8, <2>9, <2>11 DEF StepInOrder
  <2> QED
    BY <2>6, <2>10, <2>12, InOrder
<1>b. CASE WebDav!PutArchive(p)
  <2> DEFINE r == WebDav!Of(p, "zip")
             next == WebDav!To(p, "json")
  <2>1. /\ call[p].at = "zip" /\ WebDav!Ask(p, r, next) /\ UNCHANGED <<clock, last, told, doomed>>
    BY <1>b DEF WebDav!PutArchive
  <2>2. /\ id \in WebDav!Id \ WebDav!Shown /\ id = <<last[p], p>> /\ call[p].save \in Save
        /\ call[p].why = "upload"
    BY <1>1, <2>1 DEF OwnCall, InHand
  <2>3. /\ r \in WebDav!Request /\ r.what = "zip" /\ r.id = id /\ r.save = call[p].save
        /\ Proper(r, doomed')
    BY <2>2 DEF WebDav!Of, WebDav!Request, Proper
  <2>4. WebDav!Heard(r) \/ WebDav!Unheard(r)
    BY <2>1 DEF WebDav!Ask
  <2>5. /\ zip' \in [WebDav!Id -> Save \cup {None}] /\ sidecar' \in [WebDav!Id -> Save \cup {None}]
        /\ made' \in BOOLEAN /\ late' \subseteq WebDav!Request
        /\ marker' \subseteq WebDav!Shown'
        /\ WebDav!Shown' = WebDav!Shown
        /\ late' \in {late, late \cup {r}}
        /\ WebDav!ListedIsWhole'
        /\ \A i, save : HeldAs(i, save) => HeldAs(i, save)'
        /\ \A i \in WebDav!Id \ WebDav!Shown : i # id => zip'[i] = zip[i]
        /\ WebDav!Heard(r) => zip'[id] = call[p].save
        /\ ShareSeenStep
    BY <1>1, <1>2, <2>1, <2>3, <2>4, Asked
  <2> HIDE DEF r
  <2>6. /\ call' \in [PC -> ShareCall] /\ Others /\ OwnCall(p)'
        /\ InHand(p)' => call'[p].id = id /\ late' = late
    <3>1. CASE call' = [call EXCEPT ![p] = WebDav!NoCall]
      BY <1>6, <2>1, <2>5, <3>1
    <3>2. CASE call' = [call EXCEPT ![p] = next] /\ WebDav!Heard(r)
      <4>1. /\ next \in ShareCall /\ next.at = "json" /\ next.id = id /\ next.found = call[p].found
            /\ next.why = call[p].why /\ next.save = call[p].save /\ next.names = call[p].names
        BY <1>2 DEF ShareCall, WebDav!To
      <4> HIDE DEF next
      <4>2. call' \in [PC -> ShareCall] /\ Others /\ call'[p] = next
        BY <1>2, <2>1, <3>2, <4>1
      <4>3. OwnCall(p)'
        BY <1>1, <1>5, <2>1, <2>2, <2>5, <3>2, <4>1, <4>2 DEF OwnCall, InHand
      <4>4. late' = late
        BY <3>2 DEF WebDav!Heard
      <4> QED
        BY <4>1, <4>2, <4>3, <4>4
    <3> QED
      BY <2>1, <3>1, <3>2 DEF WebDav!Ask
  <2>7. ShareTypes'
    BY <1>1, <1>2, <2>1, <2>5, <2>6 DEF ShareTypes
  <2>8. \A s \in late : s.what \in {"zip", "json"} => s.id # id
    BY <1>1, <2>1 DEF LateRequests, LateRequest, InHand
  <2>9. \A q \in PC \ {p} : InHand(q) => call[q].id # id
    BY <1>4, <2>2
  <2>10. ASSUME NEW s \in late' \ late PROVE LateRequest(s)' /\ s.what = "zip"
    <3>1. s = r /\ r \notin late /\ ~InHand(p)'
      BY <2>5, <2>6, <2>10
    <3>2. \A q \in PC : InHand(q)' => call'[q].id # id
      BY <2>6, <2>9, <3>1 DEF InHand
    <3>3. \A t \in late' : t.what = "json" => t.id # id
      BY <2>3, <2>5, <2>8
    <3>4. r.id[1] <= last[r.id[2]]
      BY <1>2, <2>2, <2>3
    <3> QED
      BY <2>1, <2>2, <2>3, <2>5, <3>1, <3>2, <3>3, <3>4 DEF LateRequest
  <2>11. last[p] <= last'[p]
    BY <1>2, <2>1
  <2>12. StepInOrder({p}, id)
    BY <1>2, <2>1, <2>2, <2>5, <2>6, <2>8, <2>9, <2>10, <2>11 DEF StepInOrder
  <2> QED
    BY <2>5, <2>7, <2>12, InOrder
<1>c. CASE WebDav!PutSidecar(p)
  <2>0. PICK i, save : i = call[p].id /\ save = call[p].save
    OBVIOUS
  <2> DEFINE r == [what |-> "json", id |-> i, save |-> save]
             next == [WebDav!To(p, "asking") EXCEPT !.why = "prune"]
  <2>1. /\ call[p].at = "json" /\ WebDav!Ask(p, r, next) /\ UNCHANGED <<clock, last, told, doomed>>
    BY <1>c, <2>0 DEF WebDav!PutSidecar, WebDav!Of
  <2>2. /\ i \in WebDav!Id \ WebDav!Shown /\ i = <<last[p], p>> /\ save \in Save
        /\ zip[i] = save
    BY <1>1, <2>0, <2>1 DEF OwnCall, InHand
  <2>3. /\ r \in WebDav!Request /\ r.what = "json" /\ r.id = i /\ r.save = save
        /\ Proper(r, doomed')
    BY <2>2 DEF WebDav!Request, Proper
  <2>4. WebDav!Heard(r) \/ WebDav!Unheard(r)
    BY <2>1 DEF WebDav!Ask
  <2>5. /\ zip' \in [WebDav!Id -> Save \cup {None}] /\ sidecar' \in [WebDav!Id -> Save \cup {None}]
        /\ made' \in BOOLEAN /\ late' \subseteq WebDav!Request
        /\ marker' \subseteq WebDav!Shown'
        /\ WebDav!Shown \subseteq WebDav!Shown' /\ WebDav!Shown' \subseteq WebDav!Shown \cup {i}
        /\ late' = late \/ (late' = late \cup {r} /\ WebDav!Shown' = WebDav!Shown /\ zip' = zip)
        /\ WebDav!ListedIsWhole'
        /\ \A j, kept : HeldAs(j, kept) => HeldAs(j, kept)'
        /\ \A j \in WebDav!Id \ WebDav!Shown : zip'[j] = zip[j]
        /\ WebDav!Heard(r) => HeldAs(i, save)'
        /\ ShareSeenStep
    <3>1. doomed \subseteq doomed' /\ doomed' \subseteq WebDav!Shown
      BY <1>2, <2>1
    <3> HIDE DEF r
    <3> QED
      BY <1>1, <2>3, <2>4, <3>1, Asked
  <2> HIDE DEF r
  <2>6. call' \in [PC -> ShareCall] /\ Others /\ OwnCall(p)' /\ ~InHand(p)'
    <3>1. CASE call' = [call EXCEPT ![p] = WebDav!NoCall]
      BY <1>6, <2>1, <2>5, <3>1
    <3>2. CASE call' = [call EXCEPT ![p] = next] /\ WebDav!Heard(r)
      <4>1. /\ next \in ShareCall /\ next.at = "asking" /\ next.id = i /\ next.found = call[p].found
            /\ next.why = "prune" /\ next.save = save /\ next.names = call[p].names
        BY <1>2, <2>0 DEF ShareCall, WebDav!To
      <4> HIDE DEF next
      <4>2. call' \in [PC -> ShareCall] /\ Others /\ call'[p] = next
        BY <1>2, <2>1, <3>2, <4>1
      <4>3. (HeldAs(call[p].id, call[p].save))'
        BY <2>5, <3>2, <4>1, <4>2
      <4>4. OwnCall(p)' /\ ~InHand(p)'
        BY <1>1, <1>5, <2>1, <2>2, <2>5, <4>1, <4>2, <4>3 DEF OwnCall, InHand
      <4> QED
        BY <4>1, <4>2, <4>4
    <3> QED
      BY <2>1, <3>1, <3>2 DEF WebDav!Ask
  <2>7. ShareTypes'
    BY <1>1, <1>2, <2>1, <2>5, <2>6 DEF ShareTypes
  <2>8. \A s \in late : s.what \in {"zip", "json"} => s.id # i
    BY <1>1, <2>0, <2>1 DEF LateRequests, LateRequest, InHand
  <2>9. \A q \in PC \ {p} : InHand(q) => call[q].id # i
    BY <1>4, <2>2
  <2>10. i[1] <= last'[i[2]] /\ last[p] <= last'[p]
    BY <1>2, <2>1, <2>2
  <2>11. ASSUME NEW s \in late' \ late
         PROVE  LateRequest(s)' /\ \A t \in late : t.what = "zip" => t.id # s.id
    <3>1. s = r /\ late' = late \cup {r} /\ WebDav!Shown' = WebDav!Shown /\ zip' = zip
      BY <2>5, <2>11
    <3>2. \A q \in PC : InHand(q)' => call'[q].id # i
      BY <2>6, <2>9 DEF InHand
    <3> QED
      BY <2>2, <2>3, <2>8, <2>10, <3>1, <3>2 DEF LateRequest
  <2>12. StepInOrder({p}, i)
    BY <1>2, <2>1, <2>2, <2>5, <2>6, <2>8, <2>9, <2>10, <2>11 DEF StepInOrder
  <2> QED
    BY <2>5, <2>7, <2>12, InOrder
<1>d. CASE WebDav!SetLocked(p)
  <2> DEFINE r == [what |-> call[p].why, id |-> call[p].id, save |-> None]
  <2>1. /\ call[p].at = "locking" /\ WebDav!Ask(p, r, WebDav!NoCall)
        /\ UNCHANGED <<clock, last, told, doomed>>
    BY <1>d DEF WebDav!SetLocked
  <2>2. r \in WebDav!Request /\ r.what \in {"lock", "unlock"} /\ Proper(r, doomed')
        /\ (r.what = "lock" => r.id \in WebDav!Shown)
    BY <1>1, <1>2, <2>1 DEF OwnCall, WebDav!Request, Proper
  <2>3. (WebDav!Heard(r) \/ WebDav!Unheard(r)) /\ call' = [call EXCEPT ![p] = WebDav!NoCall]
    BY <2>1 DEF WebDav!Ask
  <2>4. /\ zip' \in [WebDav!Id -> Save \cup {None}] /\ sidecar' \in [WebDav!Id -> Save \cup {None}]
        /\ made' \in BOOLEAN /\ late' \subseteq WebDav!Request
        /\ marker' \subseteq WebDav!Shown'
        /\ WebDav!Shown' = WebDav!Shown
        /\ late' \in {late, late \cup {r}}
        /\ WebDav!ListedIsWhole'
        /\ \A i, save : HeldAs(i, save) => HeldAs(i, save)'
        /\ \A i \in WebDav!Id \ WebDav!Shown : zip'[i] = zip[i]
        /\ ShareSeenStep
    BY <1>1, <1>2, <2>1, <2>2, <2>3, Asked
  <2> HIDE DEF r
  <2>5. call' \in [PC -> ShareCall] /\ Others /\ OwnCall(p)' /\ ~InHand(p)'
    BY <1>6, <2>1, <2>3, <2>4
  <2>6. ShareTypes'
    BY <1>1, <1>2, <2>1, <2>4, <2>5 DEF ShareTypes
  <2>7. \A s \in late' \ late : LateRequest(s)' /\ s.what \in {"lock", "unlock"}
    BY <2>2, <2>4 DEF LateRequest
  <2>8. last[p] <= last'[p]
    BY <1>2, <2>1
  <2>9. StepInOrder({p}, WebDav!NoId)
    BY <1>2, <1>3, <1>4, <2>1, <2>4, <2>5, <2>7, <2>8 DEF StepInOrder
  <2> QED
    BY <2>4, <2>6, <2>9, InOrder
<1>e. CASE WebDav!RemoveArchive(p) \/ WebDav!RemoveSidecar(p) \/ WebDav!RemoveMarker(p)
  <2>1. call[p].names # {} /\ victim \in call[p].names /\ victim \in WebDav!Shown
    <3>1. call[p].names # {} /\ call[p].names \subseteq WebDav!Shown
      BY <1>1, <1>e DEF WebDav!RemoveArchive, WebDav!RemoveSidecar, WebDav!RemoveMarker,
                        WebDav!Remove, OwnCall
    <3> QED
      BY <1>2, <3>1, ShareNewest DEF WebDav!Victim
  <2>2. PICK what \in {"no zip", "no json", "unlock"}, next \in {"no zip", "no json", "unlock"} :
            LET r == [what |-> what, id |-> victim, save |-> None] IN
            /\ call[p].at = what
            /\ WebDav!Heard(r) \/ WebDav!Unheard(r)
            /\ \/ call' = [call EXCEPT ![p] = WebDav!To(p, next)] /\ next # "no zip"
               \/ /\ call' = [call EXCEPT ![p] = [WebDav!To(p, "no zip") EXCEPT !.names = @ \ {victim}]]
                  /\ next = "no zip"
            /\ UNCHANGED <<clock, last, told>>
            /\ IF what = "no zip" THEN doomed' = doomed \cup {victim} ELSE doomed' = doomed
    <3>1. CASE WebDav!RemoveArchive(p)
      BY <3>1 DEF WebDav!RemoveArchive, WebDav!Remove
    <3>2. CASE WebDav!RemoveSidecar(p)
      BY <3>2 DEF WebDav!RemoveSidecar, WebDav!Remove
    <3>3. CASE WebDav!RemoveMarker(p)
      BY <3>3 DEF WebDav!RemoveMarker, WebDav!Remove
    <3> QED
      BY <1>e, <3>1, <3>2, <3>3
  <2> DEFINE r == [what |-> what, id |-> victim, save |-> None]
             names == IF next = "no zip" THEN call[p].names \ {victim} ELSE call[p].names
  <2>3. /\ victim \in doomed' /\ doomed \subseteq doomed' /\ doomed' \subseteq WebDav!Shown
    BY <1>1, <1>2, <2>1, <2>2, ZenonT(60) DEF OwnCall
  <2>4. r \in WebDav!Request /\ r.what = what /\ r.id = victim /\ Proper(r, doomed')
    BY <1>2, <2>1, <2>2, <2>3 DEF WebDav!Request, Proper
  <2>5. WebDav!Heard(r) \/ WebDav!Unheard(r)
    BY <2>2
  <2>6. /\ zip' \in [WebDav!Id -> Save \cup {None}] /\ sidecar' \in [WebDav!Id -> Save \cup {None}]
        /\ made' \in BOOLEAN /\ late' \subseteq WebDav!Request
        /\ marker' \subseteq WebDav!Shown'
        /\ WebDav!Shown' = WebDav!Shown
        /\ late' \in {late, late \cup {r}}
        /\ WebDav!ListedIsWhole'
        /\ \A i, save : HeldAs(i, save) => HeldAs(i, save)'
        /\ \A i \in WebDav!Id \ WebDav!Shown : zip'[i] = zip[i]
        /\ ShareSeenStep
    BY <1>1, <2>2, <2>3, <2>4, <2>5, Asked
  <2> HIDE DEF r, victim
  <2>7. /\ call' \in [PC -> ShareCall] /\ Others
        /\ call'[p].at = next /\ call'[p].names = names /\ call'[p].why = call[p].why
        /\ call'[p].found = call[p].found /\ call'[p].id = id /\ call'[p].save = call[p].save
    <3>1. PICK c \in ShareCall :
              /\ call' = [call EXCEPT ![p] = c]
              /\ c.at = next /\ c.names = names /\ c.why = call[p].why
              /\ c.found = call[p].found /\ c.id = id /\ c.save = call[p].save
      <4>1. CASE next # "no zip"
        <5> DEFINE c == WebDav!To(p, next)
        <5>1. call' = [call EXCEPT ![p] = c]
          BY <2>2, <4>1
        <5>2. /\ c \in ShareCall /\ c.at = next /\ c.names = names /\ c.why = call[p].why
              /\ c.found = call[p].found /\ c.id = id /\ c.save = call[p].save
          BY <1>2, <2>2, <4>1, ZenonT(60) DEF WebDav!To, ShareCall
        <5> HIDE DEF c, names
        <5> QED
          BY <5>1, <5>2
      <4>2. CASE next = "no zip"
        <5> DEFINE c == [WebDav!To(p, "no zip") EXCEPT !.names = @ \ {victim}]
        <5>1. call' = [call EXCEPT ![p] = c]
          BY <2>2, <4>2
        <5>2. /\ c \in ShareCall /\ c.at = next /\ c.names = names /\ c.why = call[p].why
              /\ c.found = call[p].found /\ c.id = id /\ c.save = call[p].save
          BY <1>2, <4>2, ZenonT(60) DEF WebDav!To, ShareCall
        <5> HIDE DEF c, names
        <5> QED
          BY <5>1, <5>2
      <4> QED
        BY <4>1, <4>2
    <3> QED
      BY <1>2, <2>2, <3>1
  <2>8. next # "no zip" => WebDav!Victim(p)' = victim
    BY <2>7 DEF WebDav!Victim, WebDav!NewestOf, WebDav!After, victim
  <2>9. OwnCall(p)' /\ ~InHand(p)'
    BY <1>1, <1>5, <2>1, <2>2, <2>3, <2>6, <2>7, <2>8 DEF OwnCall, InHand
  <2>10. ShareTypes'
    BY <1>1, <1>2, <2>2, <2>3, <2>6, <2>7 DEF ShareTypes
  <2>11. ASSUME NEW s \in late' \ late
         PROVE  LateRequest(s)' /\ s.what \in {"no zip", "no json", "unlock"}
    <3>1. s = r /\ s.what = what /\ s.id \in doomed'
      BY <2>3, <2>4, <2>6, <2>11
    <3> QED
      BY <2>2, <3>1 DEF LateRequest
  <2>12. last[p] <= last'[p]
    <3>1. last' = last
      <4>1. PICK w, n : WebDav!Remove(p, w, n)
        BY <1>e, Zenon DEF WebDav!RemoveArchive, WebDav!RemoveSidecar, WebDav!RemoveMarker
      <4> QED
        BY <4>1 DEF WebDav!Remove
    <3> QED
      BY <1>7, <3>1
  <2>13. StepInOrder({p}, WebDav!NoId)
    <3>1. \A q \in PC \ {p} : call'[q] = call[q] /\ told'[q] = told[q] /\ last'[q] = last[q]
      BY <2>2, <2>7
    <3>2. \A s \in late \cap late' :
             /\ s.what = "json" => s.id # WebDav!NoId
             /\ s.what = "zip" => s.id # WebDav!NoId \/ WebDav!NoId \notin WebDav!Shown'
      BY <1>3, <1>4
    <3>3. \A q \in PC \ {p} : InHand(q) => call[q].id # WebDav!NoId
      BY <1>3, <1>4
    <3> QED
      BY <1>2, <1>3, <2>3, <2>6, <2>9, <2>11, <2>12, <3>1, <3>2, <3>3 DEF StepInOrder
  <2> QED
    BY <2>6, <2>10, <2>13, InOrder
<1> QED
  BY <1>a, <1>b, <1>c, <1>d, <1>e

(* A request that was given up is carried out after all, or cannot be.     *)
LEMMA LandsStep ==
  ASSUME ShareInv, WebDav!Lands
  PROVE  ShareInv' /\ ShareSeenStep
<1>1. ShareTypes /\ ShareVersions /\ LateRequests /\ \A q \in PC : OwnCall(q)
  BY DEF ShareInv, ShareCalls
<1>2. PICK r \in late :
          /\ late' = late \ {r}
          /\ \/ WebDav!CarriedOut(r)
             \/ UNCHANGED <<zip, sidecar, marker, made>>
  BY DEF WebDav!Lands
<1>3. UNCHANGED <<clock, last, call, told, doomed>>
  BY DEF WebDav!Lands
<1>4. /\ doomed \subseteq doomed' /\ doomed' \subseteq WebDav!Shown
      /\ late' \subseteq late /\ late' \subseteq WebDav!Request
      /\ r \in WebDav!Request /\ r \notin late' /\ LateRequest(r)
  BY <1>1, <1>2, <1>3 DEF WebDav!Shown, ShareTypes, LateRequests
<1>5. Proper(r, doomed')
  BY <1>3, <1>4 DEF Proper, LateRequest
<1>6. \A q \in PC : InHand(q) => call[q].id \in WebDav!Id
  BY <1>1 DEF OwnCall
<1>7. \A s \in late : s.what \in {"zip", "json"} => s.id \in WebDav!Id \ WebDav!Shown
  BY <1>1 DEF LateRequests, LateRequest
<1>8. WebDav!NoId \notin WebDav!Id
  BY ShareIds
<1>a. CASE UNCHANGED <<zip, sidecar, marker, made>>
  <2>1. /\ WebDav!Shown' = WebDav!Shown
        /\ WebDav!ListedIsWhole'
        /\ \A id, save : HeldAs(id, save) => HeldAs(id, save)'
        /\ ShareSeenStep
    BY <1>1, <1>4, <1>a, LeftAlone
  <2>2. ShareTypes'
    BY <1>1, <1>3, <1>4, <1>a, <2>1 DEF ShareTypes
  <2>3. StepInOrder({}, WebDav!NoId)
    BY <1>3, <1>4, <1>6, <1>7, <1>8, <1>a, <2>1 DEF StepInOrder
  <2> QED
    BY <2>1, <2>2, <2>3, InOrder
<1>b. CASE WebDav!CarriedOut(r)
  <2>1. /\ zip' \in [WebDav!Id -> Save \cup {None}] /\ sidecar' \in [WebDav!Id -> Save \cup {None}]
        /\ WebDav!Shown' = WebDav!Shown \cup (IF r.what = "json" THEN {r.id} ELSE {})
        /\ marker' \subseteq WebDav!Shown'
        /\ WebDav!ListedIsWhole'
        /\ \A id, save : HeldAs(id, save) => HeldAs(id, save)'
        /\ \A id \in WebDav!Id \ WebDav!Shown : id # r.id \/ r.what # "zip" => zip'[id] = zip[id]
        /\ ShareSeenStep
    BY <1>1, <1>4, <1>5, <1>b, Carry
  <2>2. made' \in BOOLEAN
    BY <1>1, <1>b DEF WebDav!CarriedOut, ShareTypes
  <2>3. ShareTypes'
    BY <1>1, <1>3, <1>4, <2>1, <2>2 DEF ShareTypes
  <2>4. CASE r.what \notin {"zip", "json"}
    <3>1. WebDav!Shown' = WebDav!Shown /\ \A id \in WebDav!Id \ WebDav!Shown : zip'[id] = zip[id]
      BY <2>1, <2>4
    <3>2. StepInOrder({}, WebDav!NoId)
      BY <1>3, <1>4, <1>6, <1>7, <1>8, <2>1, <3>1 DEF StepInOrder
    <3> QED
      BY <2>1, <2>3, <3>2, InOrder
  <2>5. CASE r.what \in {"zip", "json"}
    <3>1. /\ r.id \in WebDav!Id \ WebDav!Shown /\ r.id[1] <= last'[r.id[2]]
          /\ \A q \in PC : InHand(q) => call[q].id # r.id
      BY <1>3, <1>4, <2>5 DEF LateRequest
    <3>2. ASSUME NEW s \in late', s.what = "json" PROVE s.id # r.id
      <4>1. s \in late /\ s # r /\ LateRequest(s) /\ s \in WebDav!Request
        BY <1>1, <1>4, <3>2 DEF LateRequests
      <4>2. CASE r.what = "zip"
        BY <1>4, <3>2, <4>1, <4>2 DEF LateRequest
      <4>3. CASE r.what = "json"
        <5>1. zip[s.id] = s.save /\ zip[r.id] = r.save
          BY <1>4, <3>2, <4>1, <4>3 DEF LateRequest
        <5>2. s.id # r.id \/ s.save = r.save
          BY <5>1
        <5>3. /\ s = [what |-> s.what, id |-> s.id, save |-> s.save]
              /\ r = [what |-> r.what, id |-> r.id, save |-> r.save]
          BY <1>4, <4>1 DEF WebDav!Request
        <5> QED
          BY <3>2, <4>1, <4>3, <5>2, <5>3
      <4> QED
        BY <2>5, <4>2, <4>3
    <3>3. ASSUME NEW s \in late', s.what = "zip" PROVE s.id # r.id \/ r.id \notin WebDav!Shown'
      <4>1. CASE r.what = "zip"
        BY <2>1, <3>1, <4>1
      <4>2. CASE r.what = "json"
        <5>1. LateRequest(s)
          BY <1>1, <1>4 DEF LateRequests
        <5> QED
          BY <1>2, <3>3, <4>2, <5>1 DEF LateRequest
      <4> QED
        BY <2>5, <4>1, <4>2
    <3>4. StepInOrder({}, r.id)
      BY <1>3, <1>4, <2>1, <3>1, <3>2, <3>3 DEF StepInOrder
    <3> QED
      BY <2>1, <2>3, <3>4, InOrder
  <2> QED
    BY <2>4, <2>5
<1> QED
  BY <1>2, <1>a, <1>b

LEMMA ShareTick ==
  ASSUME ShareInv, WebDav!Tick
  PROVE  ShareInv' /\ ShareSeenStep
<1>1. ShareTypes /\ ShareVersions /\ LateRequests /\ \A q \in PC : OwnCall(q)
  BY DEF ShareInv, ShareCalls
<1>2. UNCHANGED <<zip, sidecar, marker, made, late, last, call, told, doomed>>
  BY DEF WebDav!Tick, WebDav!share
<1>3. doomed \subseteq doomed' /\ doomed' \subseteq WebDav!Shown
  BY <1>2 DEF WebDav!Shown
<1>4. clock' \in 1 .. MaxClock
  BY <1>1, Constants DEF WebDav!Tick, ShareTypes
<1>5. /\ WebDav!Shown' = WebDav!Shown
      /\ WebDav!ListedIsWhole'
      /\ \A id, save : HeldAs(id, save) => HeldAs(id, save)'
      /\ ShareSeenStep
  BY <1>1, <1>2, <1>3, LeftAlone
<1>6. ShareTypes'
  BY <1>1, <1>2, <1>4, <1>5 DEF ShareTypes
<1>7. /\ \A q \in PC : InHand(q) => call[q].id \in WebDav!Id
      /\ \A s \in late : s.what \in {"zip", "json"} => s.id \in WebDav!Id
      /\ WebDav!NoId \notin WebDav!Id
  BY <1>1, ShareIds DEF OwnCall, LateRequests, LateRequest
<1>8. StepInOrder({}, WebDav!NoId)
  BY <1>2, <1>3, <1>5, <1>7 DEF StepInOrder
<1> QED
  BY <1>5, <1>6, <1>8, InOrder

(* Every step of a share keeps it in order, and is a step of a store of    *)
(* versions, or none.                                                      *)
LEMMA ShareStep ==
  ASSUME ShareInv, WebDav!Next
  PROVE  ShareInv' /\ ShareSeenStep
<1>1. ASSUME NEW p \in PC,
             \/ WebDav!Upload(p) \/ WebDav!DeleteAll(p) \/ WebDav!Delete(p) \/ WebDav!Lock(p)
             \/ WebDav!Fetch(p) \/ WebDav!Children(p) \/ WebDav!Sidecar(p) \/ WebDav!Unchanged(p)
             \/ WebDav!Conflict(p) \/ WebDav!GoOn(p) \/ WebDav!Listed(p) \/ WebDav!Done(p)
             \/ WebDav!Fetched(p) \/ WebDav!Quit(p)
      PROVE  ShareInv' /\ ShareSeenStep
  BY <1>1, ReadingStep
<1>2. ASSUME NEW p \in PC,
             \/ WebDav!EnsureCollection(p) \/ WebDav!PutArchive(p) \/ WebDav!PutSidecar(p)
             \/ WebDav!RemoveArchive(p) \/ WebDav!RemoveSidecar(p) \/ WebDav!RemoveMarker(p)
             \/ WebDav!SetLocked(p)
      PROVE  ShareInv' /\ ShareSeenStep
  BY <1>2, AskingStep
<1> QED
  BY <1>1, <1>2, LandsStep, ShareTick DEF WebDav!Next
-----------------------------------------------------------------------------
(* Of either store.                                                        *)

LEMMA StoresStart == Init => StoresInv
  BY FolderStart, ShareStart DEF Init, StoresInv

LEMMA StoresStep ==
  ASSUME StoresInv, [Next]_vars
  PROVE  StoresInv' /\ [Abstract!Next]_(Abstract!vars)
<1>1. CASE kind = "folder" /\ Folder!Next /\ kind' = kind
  <2>1. FolderInv'
    BY <1>1, FolderStep DEF StoresInv
  <2>2. SeenStep(Folder!Held, Folder!Held', Folder!Locked, Folder!Locked', stored, stored')
    BY <1>1, FolderRefines DEF StoresInv
  <2> QED
    BY <1>1, <2>1, <2>2, FolderSeen DEF StoresInv
<1>2. CASE kind = "webdav" /\ WebDav!Next /\ kind' = kind
  <2>1. ShareInv' /\ ShareSeenStep
    BY <1>2, ShareStep DEF StoresInv
  <2> QED
    BY <1>2, <2>1, ShareSeen DEF StoresInv, ShareSeenStep
<1>3. CASE UNCHANGED vars
  <2>1. UNCHANGED <<kind, zip, sidecar, marker, clock, call, doomed, stored, chosen,
                    made, late, last, told, got, calls, faults>>
    BY <1>3 DEF vars, folderOnly, shareOnly
  <2>2. FolderInv' <=> FolderInv
    BY <2>1 DEF FolderInv, Folder!TypeOK, FolderVersions, FolderCalls, DoomedRightly,
                Folder!ListedIsWhole, Folder!Listed, OwnUpload, OwnRemovals, Uploading,
                Outdated, Newer, Folder!Removing, Folder!NewestOf, Folder!After
  <2>3. ShareInv' <=> ShareInv
    BY <2>1 DEF ShareInv, ShareTypes, ShareVersions, LateRequests, LateRequest, ShareCalls,
                WebDav!ListedIsWhole, OwnCall, InHand, HeldAs, WebDav!Shown, WebDav!Listable, WebDav!Victim,
                WebDav!NewestOf, WebDav!After
  <2>4. /\ Folder!Held' = Folder!Held /\ Folder!Locked' = Folder!Locked /\ Folder!Used' = Folder!Used
    BY <2>1 DEF Folder!Held, Folder!Locked, Folder!Used, Folder!Whole, Folder!Listed
  <2>5. WebDav!Held' = WebDav!Held /\ WebDav!Locked' = WebDav!Locked /\ WebDav!Used' = WebDav!Used
    BY <2>1 DEF WebDav!Held, WebDav!Locked, WebDav!Used, WebDav!Whole, WebDav!Listable
  <2> QED
    BY <2>1, <2>2, <2>3, <2>4, <2>5 DEF StoresInv, Abstract!vars
<1> QED
  BY <1>1, <1>2, <1>3 DEF Next

LEMMA ShareHeldWhole == ShareInv => WebDav!ListedIsWhole /\ WebDav!AnsweredIsHeld
  BY DEF ShareInv, ShareVersions, ShareCalls, OwnCall, HeldAs, WebDav!AnsweredIsHeld

(* What a store lists has its whole archive or, once its deletion began,   *)
(* none; a folder's newest versions stay; what a PC was told is on the     *)
(* share is there (FolderStore and WebDavStore::upload, list, remove and   *)
(* prune): the invariant of the run MCStores, for any number of PCs,       *)
(* calls, faults and milliseconds.                                         *)
THEOREM HeldWholeHolds == Spec => []HeldWhole
<1>1. Init => StoresInv
  BY StoresStart
<1>2. StoresInv /\ [Next]_vars => StoresInv'
  BY StoresStep
<1>3. StoresInv => HeldWhole
  BY FolderHeldWhole, ShareHeldWhole DEF StoresInv, HeldWhole
<1> QED
  BY <1>1, <1>2, <1>3, PTL DEF Spec

(* Either store is a store of versions that appear and go all at once,     *)
(* never change, and once gone stay gone (the SaveStore trait).            *)
THEOREM StoresImplement == Spec => IsVersionStore
<1>1. Init => StoresInv
  BY StoresStart
<1>2. StoresInv /\ [Next]_vars => StoresInv' /\ [Abstract!Next]_(Abstract!vars)
  BY StoresStep
<1>3. Init => Abstract!Init
  <2>1. CASE kind = "folder" /\ Folder!Init
    <3>1. Folder!Whole = {} /\ stored = {} /\ marker = {}
      BY <2>1, Constants DEF Folder!Init, Folder!Whole, Folder!Listed
    <3> QED
      BY <2>1, <3>1 DEF Abstract!Init, Folder!Held, Folder!Locked, Folder!Used
  <2>2. CASE kind = "webdav" /\ WebDav!Init
    <3>1. WebDav!Whole = {} /\ WebDav!Listable = {} /\ doomed = {} /\ marker = {}
      BY <2>2 DEF WebDav!Init, WebDav!Whole, WebDav!Listable
    <3> QED
      BY <2>2, <3>1 DEF Abstract!Init, WebDav!Held, WebDav!Locked, WebDav!Used
  <2> QED
    BY <2>1, <2>2 DEF Init
<1> QED
  BY <1>1, <1>2, <1>3, PTL DEF Spec, IsVersionStore, Abstract!Spec
=============================================================================
