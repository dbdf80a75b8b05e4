---------------------------- MODULE MCSaves_proofs ----------------------------
(***************************************************************************)
(* The properties of MCSaves, however many sessions there are and versions *)
(* kept.  A behaviour of MCSaves is one of SaveSync in the circumstances   *)
(* it begins in, and those meet what the theorems of SaveSync_proofs       *)
(* assume.                                                                 *)
(***************************************************************************)
EXTENDS MCSaves, FiniteSetTheorems, TLAPS

LEMMA PCsFinite == IsFiniteSet(Pair) /\ IsFiniteSet(Trio)
<1>1. IsFiniteSet({deck})
  BY FS_Singleton
<1>2. Pair = {deck} \cup {mac} /\ Trio = Pair \cup {desk}
  BY DEF Pair, Trio
<1>3. IsFiniteSet(Pair)
  BY <1>1, <1>2, FS_AddElement
<1> QED BY <1>2, <1>3, FS_AddElement
-----------------------------------------------------------------------------
LEMMA TwoBehaves == Spec /\ world = "two" => Two!Spec /\ [](world = "two")
<1>1. Init /\ world = "two" => Two!Init
  BY DEF Init
<1>2. world = "two" /\ [Next]_vars => [Two!Next]_Two!vars /\ (world = "two")'
  BY DEF Next, vars, Two!vars, Two!shared, Two!disk, Two!memory, Two!flows, Two!ghosts
<1> QED BY <1>1, <1>2, PTL DEF Spec, Two!Spec

LEMMA TwoParameters == Two!SaveSyncAssumption /\ Two!OneSystem
<1>1. Two!IsFiniteSet(Pair)
  BY PCsFinite DEF IsFiniteSet, Two!IsFiniteSet
<1>2. AllWindows \in [Pair -> Two!SavePlatforms]
  BY DEF AllWindows, Two!SavePlatforms
<1>3. Two!OneSystem
  BY DEF Two!OneSystem, Two!InterchangeableWith, AllWindows
<1> QED BY <1>1, <1>2, <1>3, BoundsAssumption DEF Two!SaveSyncAssumption, Two!PossibleEvents

LEMMA TwoHolds ==
    Two!Spec => /\ [][Two!UploadsInLine]_Two!vars
                /\ [][Two!RestoresProgress]_Two!vars
                /\ []Two!BackedUpIsBackedUp
<1>1. Two!InLineEvents /\ Two!CalmEvents /\ Two!Unpruned
  BY TwoParameters DEF Two!InLineEvents, Two!CalmEvents, Two!Unpruned
<1>2. Two!Spec => Two!LineageKept
  BY <1>1, TwoParameters, Two!UploadsStayInLine
<1>3. Two!Spec /\ []Two!Unpruned => Two!ProgressKept
  BY <1>1, TwoParameters, Two!ProgressStays
<1>4. Two!Spec /\ []Two!Unpruned => []Two!BackedUpIsBackedUp
  BY <1>1, TwoParameters, Two!BackedUpHolds
<1>5. Two!Unpruned'
  BY TwoParameters DEF Two!Unpruned
<1> QED BY <1>1, <1>2, <1>3, <1>4, <1>5, PTL DEF Two!LineageKept, Two!ProgressKept, Two!Spec
-----------------------------------------------------------------------------
LEMMA MixedBehaves == Spec /\ world = "mixed" => Mixed!Spec /\ [](world = "mixed")
<1>1. Init /\ world = "mixed" => Mixed!Init
  BY DEF Init
<1>2. world = "mixed" /\ [Next]_vars => [Mixed!Next]_Mixed!vars /\ (world = "mixed")'
  BY DEF Next, vars, Mixed!vars, Mixed!shared, Mixed!disk, Mixed!memory, Mixed!flows, Mixed!ghosts
<1> QED BY <1>1, <1>2, PTL DEF Spec, Mixed!Spec

LEMMA MixedParameters == Mixed!SaveSyncAssumption
<1>1. Mixed!IsFiniteSet(Trio)
  BY PCsFinite DEF IsFiniteSet, Mixed!IsFiniteSet
<1>2. OneWindows \in [Trio -> Mixed!SavePlatforms]
  BY DEF OneWindows, Mixed!SavePlatforms
<1> QED BY <1>1, <1>2, BoundsAssumption DEF Mixed!SaveSyncAssumption, Mixed!PossibleEvents

(* There is room for a version of each session and one more of each PC. *)
LEMMA MixedRoomy == Mixed!Roomy
<1>1. Mixed!CalmEvents
  BY DEF Mixed!CalmEvents, OneWindows
<1>2. Mixed!Cardinality(Trio) <= 3 /\ Mixed!Cardinality(Trio) \in Nat
  <2>1. Mixed!Cardinality({deck}) = 1 /\ Mixed!IsFiniteSet({deck})
    BY MixedParameters, Mixed!FS_Singleton
  <2>2. Pair = {deck} \cup {mac} /\ Trio = Pair \cup {desk}
    BY DEF Pair, Trio
  <2>3. /\ Mixed!IsFiniteSet(Pair) /\ Mixed!Cardinality(Pair) \in {1, 2}
    BY <2>1, <2>2, MixedParameters, Mixed!FS_AddElement
  <2>4. Mixed!Cardinality(Trio) \in {1, 2, 3}
    BY <2>2, <2>3, MixedParameters, Mixed!FS_AddElement
  <2> QED BY <2>4
<1> QED BY <1>1, <1>2, BoundsAssumption DEF Mixed!Roomy

LEMMA MixedHolds ==
    Mixed!Spec => /\ [][Mixed!UploadsInLine]_Mixed!vars
                  /\ [][Mixed!RestoresProgress]_Mixed!vars
                  /\ []Mixed!BackedUpIsBackedUp
<1>1. Mixed!InLineEvents /\ Mixed!CalmEvents
  BY MixedRoomy DEF Mixed!InLineEvents, Mixed!Roomy
<1>2. Mixed!Spec => Mixed!LineageKept
  BY <1>1, MixedParameters, Mixed!UploadsStayInLine
<1>3. Mixed!Spec /\ []Mixed!Unpruned => Mixed!ProgressKept
  BY <1>1, MixedParameters, Mixed!ProgressStays
<1>4. Mixed!Spec /\ []Mixed!Unpruned => []Mixed!BackedUpIsBackedUp
  BY <1>1, MixedParameters, Mixed!BackedUpHolds
<1>5. Mixed!Spec => []Mixed!Unpruned
  BY MixedRoomy, MixedParameters, Mixed!RoomForAll
<1> QED BY <1>2, <1>3, <1>4, <1>5, PTL DEF Mixed!LineageKept, Mixed!ProgressKept
-----------------------------------------------------------------------------
LEMMA FaultsBehaves == Spec /\ world = "faults" => Faults!Spec /\ [](world = "faults")
<1>1. Init /\ world = "faults" => Faults!Init
  BY DEF Init
<1>2. world = "faults" /\ [Next]_vars => [Faults!Next]_Faults!vars /\ (world = "faults")'
  BY DEF Next, vars, Faults!vars, Faults!shared, Faults!disk, Faults!memory, Faults!flows, Faults!ghosts
<1> QED BY <1>1, <1>2, PTL DEF Spec, Faults!Spec

LEMMA FaultsParameters == Faults!SaveSyncAssumption /\ Faults!OneSystem
<1>1. Faults!IsFiniteSet(Pair)
  BY PCsFinite DEF IsFiniteSet, Faults!IsFiniteSet
<1>2. AllWindows \in [Pair -> Faults!SavePlatforms]
  BY DEF AllWindows, Faults!SavePlatforms
<1>3. Faults!OneSystem
  BY DEF Faults!OneSystem, Faults!InterchangeableWith, AllWindows
<1> QED BY <1>1, <1>2, <1>3, BoundsAssumption DEF Faults!SaveSyncAssumption, Faults!PossibleEvents

LEMMA FaultsHolds ==
    Faults!Spec => [][Faults!UploadsInLine]_Faults!vars
<1>1. Faults!InLineEvents
  BY FaultsParameters DEF Faults!InLineEvents
<1>2. Faults!Spec => Faults!LineageKept
  BY <1>1, FaultsParameters, Faults!UploadsStayInLine
<1> QED BY <1>2 DEF Faults!LineageKept
-----------------------------------------------------------------------------
LEMMA ReplicaBehaves == Spec /\ world = "replica" => Replica!Spec /\ [](world = "replica")
<1>1. Init /\ world = "replica" => Replica!Init
  BY DEF Init
<1>2. world = "replica" /\ [Next]_vars => [Replica!Next]_Replica!vars /\ (world = "replica")'
  BY DEF Next, vars, Replica!vars, Replica!shared, Replica!disk, Replica!memory, Replica!flows, Replica!ghosts
<1> QED BY <1>1, <1>2, PTL DEF Spec, Replica!Spec

LEMMA ReplicaParameters == Replica!SaveSyncAssumption /\ Replica!OneSystem
<1>1. Replica!IsFiniteSet(Pair)
  BY PCsFinite DEF IsFiniteSet, Replica!IsFiniteSet
<1>2. AllWindows \in [Pair -> Replica!SavePlatforms]
  BY DEF AllWindows, Replica!SavePlatforms
<1>3. Replica!OneSystem
  BY DEF Replica!OneSystem, Replica!InterchangeableWith, AllWindows
<1> QED BY <1>1, <1>2, <1>3, BoundsAssumption DEF Replica!SaveSyncAssumption, Replica!PossibleEvents

LEMMA ReplicaHolds ==
    Replica!Spec => [][Replica!UploadsInLine]_Replica!vars
<1>1. Replica!InLineEvents
  BY ReplicaParameters DEF Replica!InLineEvents
<1>2. Replica!Spec => Replica!LineageKept
  BY <1>1, ReplicaParameters, Replica!UploadsStayInLine
<1> QED BY <1>2 DEF Replica!LineageKept
-----------------------------------------------------------------------------
LEMMA Beginnings ==
    Init => \/ world = "two" \/ world = "mixed"
            \/ world = "faults" \/ world = "replica"
BY DEF Init

(* docs/saves.md:73: "Backed up" is never said of a save that the store    *)
(* does not have, or not as its newest (overview, saves.rs).               *)
THEOREM BackedUpAlways == Spec => []BackedUpIsBackedUp
<1>1. world = "two" /\ Two!BackedUpIsBackedUp => BackedUpIsBackedUp
  BY DEF BackedUpIsBackedUp
<1>2. world = "mixed" /\ Mixed!BackedUpIsBackedUp => BackedUpIsBackedUp
  BY DEF BackedUpIsBackedUp
<1>3. world \in {"faults", "replica"} => BackedUpIsBackedUp
  BY DEF BackedUpIsBackedUp
<1>4. Spec /\ world = "two" => []BackedUpIsBackedUp
  BY <1>1, TwoBehaves, TwoHolds, PTL
<1>5. Spec /\ world = "mixed" => []BackedUpIsBackedUp
  BY <1>2, MixedBehaves, MixedHolds, PTL
<1>6. world = "faults" \/ world = "replica" => BackedUpIsBackedUp
  BY <1>3
<1>7. Spec /\ world = "faults" => []BackedUpIsBackedUp
  BY <1>6, FaultsBehaves, PTL
<1>8. Spec /\ world = "replica" => []BackedUpIsBackedUp
  BY <1>6, ReplicaBehaves, PTL
<1> QED BY Beginnings, <1>4, <1>5, <1>7, <1>8, PTL DEF Spec

(* No launch restores unasked over progress of this PC (do_restore).       *)
THEOREM ProgressAlways == Spec => ProgressKept
<1> DEFINE Promised ==
          /\ world = "two" => Two!RestoresProgress
          /\ world = "mixed" => Mixed!RestoresProgress
<1>1. ASSUME world = "two", (world = "two")', [Two!RestoresProgress]_Two!vars
      PROVE  [Promised]_vars
  BY <1>1 DEF vars, Two!vars, Two!shared, Two!disk, Two!memory, Two!flows, Two!ghosts
<1>2. ASSUME world = "mixed", (world = "mixed")', [Mixed!RestoresProgress]_Mixed!vars
      PROVE  [Promised]_vars
  BY <1>2 DEF vars, Mixed!vars, Mixed!shared, Mixed!disk, Mixed!memory, Mixed!flows, Mixed!ghosts
<1>3. world = "faults" => [Promised]_vars
  OBVIOUS
<1>4. world = "replica" => [Promised]_vars
  OBVIOUS
<1> HIDE DEF Promised
<1>5. Spec /\ world = "two" => [][Promised]_vars
  BY <1>1, TwoBehaves, TwoHolds, PTL
<1>6. Spec /\ world = "mixed" => [][Promised]_vars
  BY <1>2, MixedBehaves, MixedHolds, PTL
<1>7. Spec /\ world = "faults" => [][Promised]_vars
  BY <1>3, FaultsBehaves, PTL
<1>8. Spec /\ world = "replica" => [][Promised]_vars
  BY <1>4, ReplicaBehaves, PTL
<1>9. Spec => [][Promised]_vars
  BY Beginnings, <1>5, <1>6, <1>7, <1>8, PTL DEF Spec
<1> QED BY <1>9 DEF Promised, ProgressKept

(* No upload that nobody forced passes a save its PC could have restored   *)
(* (do_backup).                                                            *)
THEOREM LineageAlways == Spec => LineageKept
<1> DEFINE Promised ==
          /\ world = "two" => Two!UploadsInLine
          /\ world = "mixed" => Mixed!UploadsInLine
          /\ world = "faults" => Faults!UploadsInLine
          /\ world = "replica" => Replica!UploadsInLine
<1>1. ASSUME world = "two", (world = "two")', [Two!UploadsInLine]_Two!vars
      PROVE  [Promised]_vars
  BY <1>1 DEF vars, Two!vars, Two!shared, Two!disk, Two!memory, Two!flows, Two!ghosts
<1>2. ASSUME world = "mixed", (world = "mixed")', [Mixed!UploadsInLine]_Mixed!vars
      PROVE  [Promised]_vars
  BY <1>2 DEF vars, Mixed!vars, Mixed!shared, Mixed!disk, Mixed!memory, Mixed!flows, Mixed!ghosts
<1>3. ASSUME world = "faults", (world = "faults")', [Faults!UploadsInLine]_Faults!vars
      PROVE  [Promised]_vars
  BY <1>3 DEF vars, Faults!vars, Faults!shared, Faults!disk, Faults!memory, Faults!flows, Faults!ghosts
<1>4. ASSUME world = "replica", (world = "replica")', [Replica!UploadsInLine]_Replica!vars
      PROVE  [Promised]_vars
  BY <1>4 DEF vars, Replica!vars, Replica!shared, Replica!disk, Replica!memory, Replica!flows, Replica!ghosts
<1> HIDE DEF Promised
<1>5. Spec /\ world = "two" => [][Promised]_vars
  BY <1>1, TwoBehaves, TwoHolds, PTL
<1>6. Spec /\ world = "mixed" => [][Promised]_vars
  BY <1>2, MixedBehaves, MixedHolds, PTL
<1>7. Spec /\ world = "faults" => [][Promised]_vars
  BY <1>3, FaultsBehaves, FaultsHolds, PTL
<1>8. Spec /\ world = "replica" => [][Promised]_vars
  BY <1>4, ReplicaBehaves, ReplicaHolds, PTL
<1>9. Spec => [][Promised]_vars
  BY Beginnings, <1>5, <1>6, <1>7, <1>8, PTL DEF Spec
<1> QED BY <1>9 DEF Promised, LineageKept
=============================================================================
