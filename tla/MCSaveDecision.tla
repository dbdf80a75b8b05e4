--------------------------- MODULE MCSaveDecision ---------------------------
(***************************************************************************)
(* Every small listing a store can hold beside every small record of one   *)
(* PC, for checking the decisions of SaveDecision.  Two things happen to a *)
(* listing behind this PC's back: a PC of another system uploads, and the  *)
(* user deletes versions here.                                             *)
(***************************************************************************)
EXTENDS SaveDecision

CONSTANTS MaxId,   \* the largest version id, which bounds the listing
          Here,    \* this PC's installation
          There    \* some other PC's

ASSUME MaxIdAssumption == MaxId \in Nat

VARIABLES versions, local, here, changed

vars == <<versions, local, here, changed>>

Ids(vs) == {v.id : v \in vs}

(* Saves differ from one another here only by the version that holds them. *)
Stored(id, base, platform, installation) ==
    [id |-> id, base |-> base, platform |-> platform,
     installation |-> installation, data |-> id]

(* This PC runs Windows and so do its uploads. *)
Makers == {<<"windows", Here>>, <<"windows", There>>, <<"linux", There>>}

(* No version is below itself in the chain of bases. *)
Acyclic(vs) ==
    \A S \in SUBSET vs \ {{}} : \E v \in S : v.base \notin Ids(S)

(* The listings: each id that exists, with its base and its maker.  Clocks *)
(* differ, so a base may have the larger id; and a base may be pruned,     *)
(* like the one no listing holds, MaxId + 1.                               *)
Listings ==
    {vs \in UNION {{{Stored(i, f[i][1], f[i][2][1], f[i][2][2]) : i \in ids} :
                       f \in [ids -> (0..MaxId + 1) \X Makers]} :
                   ids \in SUBSET (1..MaxId)} :
        Acyclic(vs)}

Records(vs) ==
    {[lastSynced |-> l, backedUp |-> b, hash |-> 0, declined |-> d,
      pending |-> FALSE] :
         l \in Ids(vs) \cup {NoId}, b \in BOOLEAN, d \in Ids(vs) \cup {NoId}}

Init ==
    /\ versions \in Listings
    /\ local \in Records(versions)
    /\ here = [platform |-> "windows", installation |-> Here,
               anyPlatform |-> FALSE]
    /\ changed \in BOOLEAN

UploadFromOtherSystem ==
    /\ Usable(versions, here) # {}
    /\ \E id \in NewestId(versions) + 1 .. MaxId :
           /\ \A v \in versions : v.base # id
           /\ versions' = versions
                  \cup {Stored(id, NewestId(versions), "linux", There)}
    /\ UNCHANGED <<local, here, changed>>

Delete ==
    \E gone \in SUBSET Ids(versions) \ {{}} :
        /\ versions' = {v \in versions : v.id \notin gone}
        /\ local' = ForgetVersions(local, gone, NewestId(versions'))
        /\ UNCHANGED <<here, changed>>

Next == UploadFromOtherSystem \/ Delete

Spec == Init /\ [][Next]_vars
-----------------------------------------------------------------------------
(* The versions `newest` was built on, itself included: the least set of   *)
(* listed versions closed under bases.                                     *)
Lineage(newest) ==
    {v \in versions :
        \A S \in SUBSET versions :
            (newest \in S /\ \A w \in S : WithId(versions, w.base) \subseteq S)
                => v \in S}

(* The walk of `forked` finds exactly the forks: this PC's version is not  *)
(* among those the newest one was built on, yet one of those was built on  *)
(* the same base as this PC's.                                             *)
ForkedIsFork ==
    \A newest \in versions, ours \in versions :
        Forked(versions, newest, ours.id) <=>
            /\ ours.base # NoId
            /\ ours \notin Lineage(newest)
            /\ \E v \in Lineage(newest) : v.base = ours.base

(* An upload may only be forced past versions this PC could not restore    *)
(* anyway: passes_other_systems never lets a usable save be buried.        *)
PassesNothingUsable ==
    \A base \in Ids(versions) \cup {NoId} :
        PassesOtherSystems(versions, base, here) =>
            \A v \in versions : v.id > base => ~RestorableHere(v, here)

(* Each system keeps its own line of saves: an upload from a system that   *)
(* does not restore here leaves this PC's verdict as it was.               *)
OtherSystemsIgnored ==
    [][UploadFromOtherSystem =>
          Decide(local, versions, changed, here)'
              = Decide(local, versions, changed, here)]_vars

(* Whatever versions are deleted, forget_versions leaves this PC naming    *)
(* only versions the store still lists.                                    *)
RecordNamesStored ==
    {local.lastSynced, local.declined} \subseteq Ids(versions) \cup {NoId}
=============================================================================
