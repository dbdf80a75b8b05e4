----------------------- MODULE MCSaveDecision_proofs -----------------------
(***************************************************************************)
(* Two properties of the decisions for listings of any length, however     *)
(* they grow and shrink: what MCSaveDecision checks up to some length.     *)
(***************************************************************************)
EXTENDS MCSaveDecision, FiniteSetTheorems, WellFoundedInduction, TLAPS

(* Only versions that are stored are listed and remembered. *)
Inv ==
    /\ Ids(versions) \subseteq 1..MaxId
    /\ local \in [lastSynced : Nat, backedUp : BOOLEAN, hash : {0},
                  declined : Nat, pending : BOOLEAN]
    /\ RecordNamesStored

LEMMA ListingIds ==
    ASSUME NEW vs \in Listings
    PROVE  Ids(vs) \subseteq 1..MaxId
<1>1. PICK ids \in SUBSET (1..MaxId) :
          \E f \in [ids -> (0..MaxId + 1) \X Makers] :
              vs = {Stored(i, f[i][1], f[i][2][1], f[i][2][2]) : i \in ids}
  BY DEF Listings
<1>2. PICK f : vs = {Stored(i, f[i][1], f[i][2][1], f[i][2][2]) : i \in ids}
  BY <1>1
<1> QED BY <1>2 DEF Ids, Stored

(* Ids in a bounded range make the newest version of a listing exist: the  *)
(* one closest to the bound.                                               *)
LEMMA NewestIsLargest ==
    ASSUME NEW vs, vs # {}, Ids(vs) \subseteq 1..MaxId
    PROVE  /\ Newest(vs) \in vs
           /\ \A w \in vs : w.id <= Newest(vs).id
<1> DEFINE Below == {MaxId - id : id \in Ids(vs)}
<1>1. Below \subseteq Nat /\ Below # {}
  BY MaxIdAssumption DEF Ids
<1>2. PICK x \in Below : \A y \in Below : ~(y < x)
  <2> DEFINE Less == {ss \in Nat \X Nat : ss[1] < ss[2]}
  <2>1. IsWellFoundedOn(Less, Nat)
    BY NatLessThanWellFounded, Zenon DEF OpToRel
  <2>2. PICK x \in Below : \A y \in Below : <<y, x>> \notin Less
    <3> HIDE DEF Below, Less
    <3> QED BY <1>1, <2>1, WFMin
  <2> HIDE DEF Below
  <2> QED BY <1>1, <2>2
<1>3. PICK v \in vs : x = MaxId - v.id
  BY DEF Ids
<1>4. ASSUME NEW w \in vs PROVE w.id <= v.id
  <2>1. v.id \in 1..MaxId /\ w.id \in 1..MaxId /\ MaxId - w.id \in Below
    BY DEF Ids
  <2>2. ~(MaxId - w.id < x)
    BY <1>2, <2>1
  <2> QED BY <1>3, <2>1, <2>2, MaxIdAssumption
<1> QED BY <1>4 DEF Newest

LEMMA NewestListed ==
    ASSUME NEW vs, Ids(vs) \subseteq 1..MaxId
    PROVE  /\ Ids(vs) \subseteq Nat
           /\ NewestId(vs) \in Ids(vs) \cup {NoId}
BY NewestIsLargest, MaxIdAssumption DEF NewestId, Ids

LEMMA InvInit == Init => Inv
<1> SUFFICES ASSUME Init PROVE Inv
  OBVIOUS
<1>1. Ids(versions) \subseteq 1..MaxId
  BY ListingIds DEF Init
<1>2. Ids(versions) \subseteq Nat
  BY <1>1, MaxIdAssumption
<1>3. local \in Records(versions)
  BY DEF Init
<1>4. PICK l \in Ids(versions) \cup {NoId}, b \in BOOLEAN, d \in Ids(versions) \cup {NoId} :
          local = [lastSynced |-> l, backedUp |-> b, hash |-> 0, declined |-> d,
                   pending |-> FALSE]
  BY <1>3 DEF Records
<1>5. l \in Nat /\ d \in Nat
  BY <1>2 DEF NoId
<1> QED BY <1>1, <1>4, <1>5 DEF Inv, RecordNamesStored

LEMMA InvNext == Inv /\ [Next]_vars => Inv'
<1> SUFFICES ASSUME Inv, [Next]_vars PROVE Inv'
  OBVIOUS
<1> USE DEF Inv
<1>1. CASE UploadFromOtherSystem
  <2>1. PICK id \in NewestId(versions) + 1 .. MaxId :
            versions' = versions \cup {Stored(id, NewestId(versions), "linux", There)}
    BY <1>1 DEF UploadFromOtherSystem
  <2>2. NewestId(versions) \in Nat
    BY NewestListed DEF NoId
  <2>3. id \in 1..MaxId
    BY <2>2, MaxIdAssumption
  <2>4. Ids(versions') = Ids(versions) \cup {id}
    <3>1. Stored(id, NewestId(versions), "linux", There).id = id
      BY DEF Stored
    <3> QED BY <2>1, <3>1 DEF Ids
  <2> QED BY <1>1, <2>3, <2>4 DEF UploadFromOtherSystem, RecordNamesStored, Ids
<1>2. CASE Delete
  <2>1. PICK gone \in SUBSET Ids(versions) \ {{}} :
            /\ versions' = {v \in versions : v.id \notin gone}
            /\ local' = ForgetVersions(local, gone, NewestId(versions'))
    BY <1>2 DEF Delete
  <2>2. Ids(versions') = Ids(versions) \ gone
    BY <2>1 DEF Ids
  <2>3. Ids(versions') \subseteq 1..MaxId
    BY <2>2
  <2>4. NewestId(versions') \in Ids(versions') \cup {NoId}
    BY <2>3, NewestListed
  <2>5. {local'.lastSynced, local'.declined} \subseteq Ids(versions') \cup {NoId}
    BY <2>1, <2>2, <2>4 DEF ForgetVersions, RecordNamesStored
  <2>6. NewestId(versions') \in Nat
    BY <2>3, <2>4, MaxIdAssumption DEF NoId
  <2>7. local' \in [lastSynced : Nat, backedUp : BOOLEAN, hash : {0},
                    declined : Nat, pending : BOOLEAN]
    BY <2>1, <2>6 DEF ForgetVersions, NoId
  <2> QED BY <2>3, <2>5, <2>7 DEF RecordNamesStored, Ids
<1>3. CASE UNCHANGED vars
  BY <1>3 DEF vars, RecordNamesStored, Ids
<1> QED BY <1>1, <1>2, <1>3 DEF Next

LEMMA InvAlways == Spec => []Inv
BY InvInit, InvNext, PTL DEF Spec

(* No sequence of uploads and deletions makes passes_other_systems force   *)
(* an upload past a version this PC could restore.                         *)
THEOREM NothingUsableIsBuried == Spec => []PassesNothingUsable
<1>1. Inv => PassesNothingUsable
  <2> SUFFICES ASSUME Inv, NEW base \in Ids(versions) \cup {NoId},
                      PassesOtherSystems(versions, base, here)
               PROVE  \A v \in versions : v.id > base => ~RestorableHere(v, here)
    BY DEF PassesNothingUsable
  <2>1. SUFFICES ASSUME NEW v \in versions, RestorableHere(v, here)
                 PROVE  v.id <= base
    BY NewestListed DEF Inv, Ids, NoId
  <2>2. v \in Usable(versions, here) /\ Ids(Usable(versions, here)) \subseteq 1..MaxId
    BY <2>1 DEF Inv, Usable, Ids
  <2>3. NewestId(Usable(versions, here)) = base
    BY DEF PassesOtherSystems, NewestUsableId
  <2> QED BY <2>2, <2>3, NewestIsLargest DEF NewestId
<1> QED BY <1>1, InvAlways, PTL

(* forget_versions never leaves this PC with a base the store no longer    *)
(* has, whatever is deleted and in which order.                            *)
THEOREM NoDanglingRecord == Spec => []RecordNamesStored
<1>1. Inv => RecordNamesStored
  BY DEF Inv
<1> QED BY <1>1, InvAlways, PTL
=============================================================================
