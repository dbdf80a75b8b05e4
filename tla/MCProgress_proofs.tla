-------------------------- MODULE MCProgress_proofs --------------------------
(***************************************************************************)
(* Proofs about the components that must come to an end, each with an      *)
(* invariant of its own over the variables it keeps: what a game is busy   *)
(* with, its session, its setups, the unpacking of its download, a program *)
(* that is waited for, and the prefix of a Windows game.                   *)
(***************************************************************************)
EXTENDS MCProgress, TLAPS

(* A behaviour stays with the component it is of.                          *)
LEMMA PartStays == [Next]_vars => part' = part
  BY DEF Next, vars, ClaimsStep, SessionStep, SetupStep, UnpackStep, ProcessStep, PrefixStep,
     SavesStep, WatcherStep, UpdaterStep, DrawingStep, after4, after12, after14, after15,
     after16, after18

LEMMA OnlyItsSteps ==
    Next =>
       /\ part = "claims" => Claims!Next
       /\ part = "session" => Session!Next
       /\ part = "setup" => Setup!Next
       /\ part = "unpacking" => Unpack!Next
       /\ part = "subprocess" => Process!Next
       /\ part = "prefix" => Prefix!Next
  BY DEF Next, ClaimsStep, SessionStep, SetupStep, UnpackStep, ProcessStep, PrefixStep,
     SavesStep, WatcherStep, UpdaterStep, DrawingStep
-----------------------------------------------------------------------------
(* What a game is busy with.                                               *)

ClaimsTypes ==
    /\ s1 \in {"by-hand", "automatic", "apart"}
    /\ s2 = Absent \/ s2 \in [claim : Nat, kind : Claims!Kinds]
    /\ s3 \in Nat
    /\ s4 \in [Task -> [command : Claims!Names \cup {Absent}, claim : Nat,
                        at : {"idle", "work", "after", "clear"}]]
    /\ \A t \in Task : s4[t].at # "idle" => s4[t].command \in Claims!Names

(* A claim is one task's, and older than the next one.                     *)
OwnClaims ==
    /\ \A t \in Task : s4[t].claim <= s3
    /\ \A t, u \in Task : s4[t].at # "idle" /\ s4[u].at # "idle" /\ t # u
                             => s4[t].claim # s4[u].claim

(* By hand, a command at work holds the claim the game is busy with.       *)
WorkHolds ==
    s1 = "by-hand" =>
       \A t \in Task :
          /\ s4[t].at # "clear"
          /\ s4[t].at = "work" => s2 # Absent /\ s2.claim = s4[t].claim /\ s2.kind # "failed"

ClaimsInv == ClaimsTypes /\ OwnClaims /\ WorkHolds

LEMMA ClaimsInit == Claims!Init => ClaimsInv
<1> SUFFICES ASSUME Claims!Init
             PROVE  ClaimsInv
  OBVIOUS
<1>1. s4 = [t \in Task |-> [command |-> Absent, claim |-> 0, at |-> "idle"]]
  BY DEF Claims!Init, Claims!Idle
<1>2. ClaimsTypes
  BY <1>1 DEF Claims!Init, ClaimsTypes
<1>3. OwnClaims /\ WorkHolds
  BY <1>1 DEF Claims!Init, OwnClaims, WorkHolds
<1> QED BY <1>2, <1>3 DEF ClaimsInv

LEMMA ClaimsCommands ==
    \A name \in Claims!Names :
       /\ Claims!Commands[name].first \in Claims!Kinds \ {"failed"}
       /\ Claims!Commands[name].shows \subseteq Claims!Kinds \ {"failed"}
<1> SUFFICES ASSUME NEW name \in Claims!Names
             PROVE  /\ Claims!Commands[name].first \in Claims!Kinds \ {"failed"}
                    /\ Claims!Commands[name].shows \subseteq Claims!Kinds \ {"failed"}
  OBVIOUS
<1> QED
  BY DEF Claims!Names, Claims!Commands, Claims!Command, Claims!Kinds, Claims!StartDownload,
     Claims!ExtractDownload, Claims!MoveIntoPlace, Claims!CopyExecutable, Claims!RunSetups,
     Claims!LocateInstall, Claims!UninstallGame, Claims!DeleteStaging, Claims!DeleteDownload,
     Claims!CancelPaused, Claims!Launch

LEMMA ClaimsFollows == \A name \in Claims!Names : Claims!Follows(name) \subseteq Claims!Names
  BY DEF Claims!Names, Claims!Commands, Claims!Follows

(* What a command's steps do to the slot.                                  *)
LEMMA ClaimsDropped ==
    ASSUME ClaimsTypes, NEW t \in Task, Claims!Dropped(t)
    PROVE  /\ s2' = Absent \/ s2' \in [claim : Nat, kind : Claims!Kinds]
           /\ s2' = s2 \/ (s2' = Absent /\ s2 # Absent /\ s2.claim = s4[t].claim)
  BY DEF Claims!Dropped, Claims!GameBusy, ClaimsTypes

LEMMA ClaimsShown ==
    ASSUME ClaimsTypes, NEW kind \in Claims!Kinds, Claims!Shown(kind)
    PROVE  /\ s2' \in [claim : Nat, kind : Claims!Kinds] /\ s2'.kind = kind
           /\ s2 # Absent => s2'.claim = s2.claim
  BY DEF Claims!Shown, Claims!Slot, ClaimsTypes

LEMMA ClaimsClaimed ==
    ASSUME ClaimsInv, NEW t \in Task, NEW name \in Claims!Names, Claims!Claimed(t, name)
    PROVE  ClaimsInv'
<1> USE MCProgressAssumption DEF MCProgressAssumption, ClaimsInv
<1>1. /\ ~Claims!GameBusy /\ s3' = s3 + 1 /\ s1' = s1
      /\ s2' = [claim |-> s3 + 1, kind |-> Claims!Commands[name].first]
      /\ s4' = [s4 EXCEPT ![t] = [command |-> name, claim |-> s3 + 1, at |-> "work"]]
  BY DEF Claims!Claimed, Claims!Slot
<1>2. Claims!Commands[name].first \in Claims!Kinds \ {"failed"}
  BY ClaimsCommands
<1>3. ClaimsTypes'
  BY <1>1, <1>2 DEF ClaimsTypes
<1>4. OwnClaims'
  BY <1>1 DEF OwnClaims, ClaimsTypes
<1>5. ASSUME s1 = "by-hand", NEW u \in Task, s4[u].at = "work"
      PROVE  FALSE
  BY <1>1, <1>5 DEF WorkHolds, ClaimsTypes, Claims!GameBusy, Claims!Busy
<1>6. WorkHolds'
  BY <1>1, <1>2, <1>5 DEF WorkHolds, ClaimsTypes
<1> QED BY <1>3, <1>4, <1>6

(* A task that lets go or goes on at another place keeps the invariant.    *)
LEMMA ClaimsMoves ==
    ASSUME ClaimsInv, NEW t \in Task, NEW to \in {"idle", "after", "clear"},
           s1' = s1, s3' = s3,
           to # "idle" => s4[t].at # "idle", to = "clear" => s1 = "apart",
           s4' = IF to = "idle" THEN [s4 EXCEPT ![t] = Claims!Idle] ELSE [s4 EXCEPT ![t].at = to],
           s2' = Absent \/ s2' \in [claim : Nat, kind : Claims!Kinds],
           \A u \in Task : s1 = "by-hand" /\ u # t /\ s4[u].at = "work" => s2' = s2
    PROVE  ClaimsInv'
<1> DEFINE new == IF to = "idle" THEN [command |-> Absent, claim |-> 0, at |-> "idle"]
                  ELSE [command |-> s4[t].command, claim |-> s4[t].claim, at |-> to]
<1>1. s4' = [s4 EXCEPT ![t] = new]
  <2>1. CASE to = "idle"
    BY <2>1 DEF Claims!Idle
  <2>2. CASE to # "idle"
    <3>1. [s4[t] EXCEPT !.at = to] = new
      BY <2>2 DEF ClaimsInv, ClaimsTypes
    <3>2. s4' = [s4 EXCEPT ![t] = [s4[t] EXCEPT !.at = to]]
      BY <2>2
    <3> HIDE DEF new
    <3> QED BY <3>1, <3>2
  <2> QED BY <2>1, <2>2
<1>2. /\ new \in [command : Claims!Names \cup {Absent}, claim : Nat,
                  at : {"idle", "work", "after", "clear"}]
      /\ new.at = to
      /\ to # "idle" => new.claim = s4[t].claim /\ new.command = s4[t].command
      /\ new.claim <= s3
  BY DEF ClaimsInv, ClaimsTypes, OwnClaims
<1> HIDE DEF new
<1>3. ClaimsTypes'
  BY <1>1, <1>2 DEF ClaimsInv, ClaimsTypes
<1>4. OwnClaims'
  BY <1>1, <1>2 DEF ClaimsInv, ClaimsTypes, OwnClaims
<1>5. WorkHolds'
  BY <1>1, <1>2 DEF ClaimsInv, ClaimsTypes, WorkHolds
<1> QED BY <1>3, <1>4, <1>5 DEF ClaimsInv

(* By hand no other command is at work beside one that is.                 *)
LEMMA ClaimsAlone ==
    ASSUME ClaimsInv, s1 = "by-hand", NEW t \in Task, NEW u \in Task,
           s4[t].at = "work", s4[u].at = "work"
    PROVE  t = u
  BY DEF ClaimsInv, OwnClaims, WorkHolds

LEMMA ClaimsStays ==
    ASSUME ClaimsInv, Claims!Next
    PROVE  ClaimsInv' /\ Claims!NewerKept
<1> USE DEF Claims!At
<1>1. ClaimsTypes
  BY DEF ClaimsInv
<1>2. PICK t \in Task :
         \/ \E name \in Claims!Names : Claims!Start(t, name)
         \/ Claims!Show(t)
         \/ Claims!TaskStep(t)
  BY DEF Claims!Next
<1>3. ASSUME s4'[t].at # "idle", s4' = [s4 EXCEPT ![t] = s4'[t]]
      PROVE  Claims!NewerKept
  BY <1>1, <1>3 DEF ClaimsTypes, Claims!NewerKept, Claims!AtWork
(* By hand nobody else is at work beside a task that is.                   *)
<1>4. ASSUME s4[t].at = "work" PROVE \A u \in Task : s1 = "by-hand" /\ u # t => s4[u].at # "work"
  BY <1>4, ClaimsAlone
(* A task that leaves the slot to a newer claim.                           *)
<1>5. ASSUME s4' = [s4 EXCEPT ![t] = Claims!Idle], Claims!Dropped(t)
      PROVE  Claims!NewerKept
  <2>1. \A u \in Task : u # t => s4'[u] = s4[u]
    BY <1>5, <1>1 DEF ClaimsTypes
  <2>2. ASSUME NEW u \in Task, s4[t].claim < s4[u].claim, s2 # Absent, s2.claim = s4[u].claim
        PROVE  s2' # Absent
    <3>1. s4[t].claim \in Nat /\ s4[u].claim \in Nat
      BY <1>1 DEF ClaimsTypes
    <3> QED BY <3>1, <2>2, <1>5, <1>1, ClaimsDropped
  <2> QED BY <2>1, <2>2 DEF Claims!NewerKept, Claims!AtWork, Claims!GameBusy
<1>6. ASSUME s2' \in [claim : Nat, kind : Claims!Kinds]
      PROVE  Claims!NewerKept
  BY <1>6, MCProgressAssumption DEF MCProgressAssumption, Claims!NewerKept
<1>7. CASE \E name \in Claims!Names : Claims!Start(t, name)
  <2>1. PICK name \in Claims!Names : Claims!Claimed(t, name)
    BY <1>7 DEF Claims!Start
  <2>2. s2' = [claim |-> s3 + 1, kind |-> Claims!Commands[name].first]
    BY <2>1 DEF Claims!Claimed, Claims!Slot
  <2>3. s2' \in [claim : Nat, kind : Claims!Kinds]
    BY <2>2, <1>1, ClaimsCommands DEF ClaimsTypes
  <2> QED BY <2>1, <2>3, <1>6, ClaimsClaimed
<1>8. CASE Claims!Show(t)
  <2>1. /\ s4[t].at = "work" /\ s4[t].command \in Claims!Names
        /\ s1' = s1 /\ s3' = s3 /\ s4' = s4
    BY <1>8, <1>1 DEF Claims!Show, ClaimsTypes
  <2>2. PICK kind \in Claims!Commands[s4[t].command].shows : Claims!Shown(kind)
    BY <1>8 DEF Claims!Show, Claims!Does
  <2>3. kind \in Claims!Kinds \ {"failed"}
    BY <2>1, ClaimsCommands
  <2>4. /\ s2' \in [claim : Nat, kind : Claims!Kinds] /\ s2'.kind = kind
        /\ s2 # Absent => s2'.claim = s2.claim
    BY <1>1, <2>2, <2>3, ClaimsShown
  <2>5. ClaimsTypes' /\ OwnClaims'
    BY <2>1, <2>4 DEF ClaimsInv, ClaimsTypes, OwnClaims
  <2>6. WorkHolds'
    BY <2>1, <2>3, <2>4, <1>4, MCProgressAssumption
    DEF MCProgressAssumption, ClaimsInv, ClaimsTypes, WorkHolds
  <2> QED BY <2>4, <2>5, <2>6, <1>6 DEF ClaimsInv
<1>9. CASE Claims!LetGo(t)
  <2>1. s4[t].at = "work" /\ s1' = s1 /\ s3' = s3 /\ Claims!Dropped(t)
    BY <1>9 DEF Claims!LetGo
  <2>2. CASE s4' = [s4 EXCEPT ![t] = Claims!Idle]
    <3>1. ClaimsInv'
      BY <2>1, <2>2, <1>1, <1>4, ClaimsDropped, ClaimsMoves
    <3> QED BY <2>1, <2>2, <3>1, <1>5
  <2>3. CASE s4' = [s4 EXCEPT ![t].at = "clear"] /\ s1 = "apart"
    <3>1. ClaimsInv'
      BY <2>1, <2>3, <1>1, <1>4, ClaimsDropped, ClaimsMoves
    <3>2. s4'[t].at = "clear" /\ s4' = [s4 EXCEPT ![t] = s4'[t]]
      BY <2>3, <1>1 DEF ClaimsTypes
    <3> QED BY <3>1, <3>2, <1>3
  <2> QED BY <1>9, <2>2, <2>3 DEF Claims!LetGo, Claims!Moves
<1>10. CASE Claims!ClearLate(t)
  <2>1. /\ s4[t].at = "clear" /\ s1' = s1 /\ s3' = s3 /\ s2' = Absent
        /\ s4' = [s4 EXCEPT ![t] = Claims!Idle]
    BY <1>10 DEF Claims!ClearLate
  <2>2. s1 # "by-hand"
    BY <2>1 DEF ClaimsInv, WorkHolds
  <2>3. ClaimsInv'
    BY <2>1, <2>2, ClaimsMoves
  <2>4. Claims!NewerKept
    <3>1. \A u \in Task : u # t => s4'[u] = s4[u]
      BY <2>1, <1>1 DEF ClaimsTypes
    <3> QED BY <2>1, <3>1 DEF Claims!NewerKept
  <2> QED BY <2>3, <2>4
<1>11. CASE Claims!Fail(t)
  <2>1. /\ s4[t].at = "work" /\ s1' = s1 /\ s3' = s3 /\ Claims!Shown("failed")
        /\ s4' = [s4 EXCEPT ![t] = Claims!Idle]
    BY <1>11 DEF Claims!Fail
  <2>2. s2' \in [claim : Nat, kind : Claims!Kinds]
    BY <2>1, <1>1, ClaimsShown DEF Claims!Kinds
  <2>3. ClaimsInv'
    BY <2>1, <2>2, <1>4, ClaimsMoves
  <2> QED BY <2>2, <2>3, <1>6
<1>12. CASE Claims!Clear(t)
  <2>1. /\ s4[t].at = "work" /\ s1' = s1 /\ s3' = s3 /\ s2' = Absent
        /\ s4' = [s4 EXCEPT ![t].at = "after"]
    BY <1>12 DEF Claims!Clear, Claims!Moves
  <2>2. ClaimsInv'
    BY <2>1, <1>4, ClaimsMoves
  <2>3. s4'[t].at = "after" /\ s4' = [s4 EXCEPT ![t] = s4'[t]]
    BY <2>1, <1>1 DEF ClaimsTypes
  <2> QED BY <2>2, <2>3, <1>3
<1>13. CASE Claims!End(t)
  <2>1. /\ s4[t].at = "after" /\ s1' = s1 /\ s3' = s3 /\ Claims!Dropped(t)
        /\ s4' = [s4 EXCEPT ![t] = Claims!Idle]
    BY <1>13 DEF Claims!End
  <2>2. ASSUME NEW u \in Task, s1 = "by-hand", u # t, s4[u].at = "work"
        PROVE  s2' = s2
    <3>1. s2.claim # s4[t].claim
      BY <2>1, <2>2 DEF ClaimsInv, OwnClaims, WorkHolds
    <3> QED BY <2>1, <3>1, <1>1, ClaimsDropped
  <2>3. ClaimsInv'
    BY <2>1, <2>2, <1>1, ClaimsDropped, ClaimsMoves
  <2> QED BY <2>1, <2>3, <1>5
<1>14. CASE Claims!GoOn(t)
  <2>1. s4[t].command \in Claims!Names
    BY <1>14, <1>1 DEF Claims!GoOn, ClaimsTypes
  <2>2. PICK name \in Claims!Names : Claims!Claimed(t, name)
    BY <1>14, <2>1, ClaimsFollows DEF Claims!GoOn
  <2>3. s2' = [claim |-> s3 + 1, kind |-> Claims!Commands[name].first]
    BY <2>2 DEF Claims!Claimed, Claims!Slot
  <2>4. s2' \in [claim : Nat, kind : Claims!Kinds]
    BY <2>3, <1>1, ClaimsCommands DEF ClaimsTypes
  <2> QED BY <2>2, <2>4, <1>6, ClaimsClaimed
<1>15. CASE Claims!GoOnRefused(t)
  <2>1. /\ s1 = "automatic" /\ s1' = s1 /\ s3' = s3 /\ Claims!Shown("failed")
        /\ s4' = [s4 EXCEPT ![t] = Claims!Idle]
    BY <1>15 DEF Claims!GoOnRefused
  <2>2. s2' \in [claim : Nat, kind : Claims!Kinds]
    BY <2>1, <1>1, ClaimsShown DEF Claims!Kinds
  <2>3. ClaimsInv'
    BY <2>1, <2>2, ClaimsMoves
  <2> QED BY <2>2, <2>3, <1>6
<1> QED
  BY <1>2, <1>7, <1>8, <1>9, <1>10, <1>11, <1>12, <1>13, <1>14, <1>15 DEF Claims!TaskStep

(* Two commands the user started are never at work on one game at once,    *)
(* however many are started and however each of them ends (claim,          *)
(* library_state.rs).                                                      *)
THEOREM AloneByHandHolds == Spec => []AloneByHand
<1> DEFINE Inv == part = "claims" => ClaimsInv
<1>1. Init => Inv
  BY ClaimsInit DEF Init, Unpack!Init, Session!Init
<1>2. Inv /\ [Next]_vars => Inv'
  <2> SUFFICES ASSUME Inv, [Next]_vars, part = "claims"
               PROVE  ClaimsInv'
    BY PartStays
  <2>1. CASE Next
    BY <2>1, OnlyItsSteps, ClaimsStays
  <2>2. CASE UNCHANGED vars
    BY <2>2 DEF vars, ClaimsInv, ClaimsTypes, OwnClaims, WorkHolds
  <2> QED BY <2>1, <2>2
<1>3. Inv => AloneByHand
  <2> SUFFICES ASSUME ClaimsInv, s1 = "by-hand", NEW t \in Task, NEW u \in Task,
                      s4[t].at = "work", s4[u].at = "work"
               PROVE  t = u
    BY DEF AloneByHand, Claims!AloneByHand, Claims!Alone, Claims!AtWork, Claims!At
  <2> QED BY ClaimsAlone
<1> QED BY <1>1, <1>2, <1>3, PTL DEF Spec
-----------------------------------------------------------------------------
(* A game being played.                                                    *)

SessionTypes ==
    /\ s1 \in {"unix", "windows"}
    /\ s6 \in BOOLEAN
    /\ s12 \in Nat /\ s13 \in Nat /\ s13 <= s12
    /\ s14 \in [end : {"none", "exited", "terminated", "error"}, duration : Nat, over : BOOLEAN]
    /\ s15 \in [elevation : BOOLEAN, cleared : BOOLEAN, suggested : BOOLEAN, played : Nat]

(* Only Windows starts a program as administrator.                         *)
OnlyElevated ==
    /\ s6 => s1 = "windows"
    /\ s5 = "elevated" => s6

(* A session that ended by itself found its group empty, and it stays so;  *)
(* the time noted is then all the time something of it ran.                *)
GroupOver ==
    s1 = "unix" /\ s14.end = "exited" =>
       /\ s14.over
       /\ s5 = "ended" => ~Session!GroupRuns /\ s13 <= s14.duration

SessionInv == SessionTypes /\ OnlyElevated /\ GroupOver

LEMMA SessionInit == Session!Init => SessionInv
<1> SUFFICES ASSUME Session!Init
             PROVE  SessionInv
  OBVIOUS
<1>1. /\ s1 \in {"unix", "windows"} /\ s5 = "idle" /\ s6 = FALSE /\ s12 = 0 /\ s13 = 0
      /\ s14 = [end |-> "none", duration |-> 0, over |-> FALSE]
      /\ s15 = [elevation |-> FALSE, cleared |-> FALSE, played |-> 0, suggested |-> FALSE]
  BY DEF Session!Init, Session!NoSession
<1>2. /\ s14 \in [end : {"none", "exited", "terminated", "error"}, duration : Nat, over : BOOLEAN]
      /\ s14.end = "none"
  BY <1>1
<1>3. s15 \in [elevation : BOOLEAN, cleared : BOOLEAN, suggested : BOOLEAN, played : Nat]
  BY <1>1
<1>4. s1 \in {"unix", "windows"} /\ s6 \in BOOLEAN
  BY <1>1
<1>5. s12 \in Nat /\ s13 \in Nat /\ s13 <= s12
  BY <1>1
<1>6. SessionTypes
  BY <1>2, <1>3, <1>4, <1>5, Zenon DEF SessionTypes
<1>7. OnlyElevated /\ GroupOver
  BY <1>1, <1>2 DEF OnlyElevated, GroupOver
<1> QED BY <1>6, <1>7 DEF SessionInv

(* A group that is empty stays so.                                         *)
LEMMA GroupStaysOver ==
    ASSUME ~Session!GroupRuns, s2' = s2,
           \/ s9' \in {s9, "gone"} /\ s10' \subseteq s10
           \/ \E h \in Helper : Session!StartHelper(h)
    PROVE  ~Session!GroupRuns'
<1>1. CASE s9' \in {s9, "gone"} /\ s10' \subseteq s10
  BY <1>1 DEF Session!GroupRuns, Session!Grouped
<1>2. CASE \E h \in Helper : Session!StartHelper(h)
  BY <1>2 DEF Session!StartHelper, Session!GroupRuns, Session!Grouped
<1> QED BY <1>1, <1>2

LEMMA SessionStays ==
    ASSUME SessionInv, Session!Next
    PROVE  SessionInv' /\ Session!PlaytimeCounts
<1> USE DEF SessionInv, SessionTypes, OnlyElevated, Session!launchVars, Session!processVars,
            Session!timeVars, Session!Goes
(* Steps of the launch before the game ends, which leave its processes be. *)
<1>1. ASSUME UNCHANGED <<s1, s2, s9, s10, s12, s13, s14>>, s6' = s6, s5' # "ended",
             s5' = "elevated" => s6,
             s15' \in [elevation : BOOLEAN, cleared : BOOLEAN, suggested : BOOLEAN, played : Nat],
             s15'.played = s15.played
      PROVE  SessionInv' /\ Session!PlaytimeCounts
  BY <1>1 DEF GroupOver, Session!PlaytimeCounts
<1>2. ASSUME NEW asAdmin \in BOOLEAN, Session!Click(asAdmin)
      PROVE  SessionInv' /\ Session!PlaytimeCounts
  BY <1>2 DEF Session!Click, Session!NoSession, GroupOver, Session!PlaytimeCounts
<1>3. CASE Session!Refused \/ Session!Prepared
  BY <1>1, <1>3 DEF Session!Refused, Session!Prepared
<1>4. CASE Session!Register
  <2>1. /\ UNCHANGED <<s1, s2, s6, s9, s10, s12, s13, s14>>
        /\ s5' \in {"elevated", "spawn"}
        /\ s5' = "elevated" => s6
        /\ s15' = [s15 EXCEPT !.elevation = FALSE]
    BY <1>4 DEF Session!Register
  <2> QED BY <1>1, <2>1
<1>5. CASE \/ Session!SpawnRefused \/ Session!NothingToUntick \/ Session!Untick
           \/ Session!StillRefused \/ Session!SpawnError
  <2>1. \/ s15' = s15
        \/ \E offer \in BOOLEAN : s15' = [s15 EXCEPT !.elevation = offer]
        \/ s15' = [s15 EXCEPT !.cleared = TRUE]
    BY <1>5 DEF Session!SpawnRefused, Session!NothingToUntick, Session!Untick,
       Session!StillRefused, Session!SpawnError, Session!SpawnFailed
  <2>2. /\ UNCHANGED <<s1, s2, s6, s9, s10, s12, s13, s14>>
        /\ s5' \in {"spawn", "idle"}
    BY <1>5 DEF Session!SpawnRefused, Session!NothingToUntick, Session!Untick,
       Session!StillRefused, Session!SpawnError, Session!SpawnFailed
  <2> QED BY <1>1, <2>1, <2>2
<1>6. CASE Session!Spawn
  <2>1. s5 = "spawn" /\ s5' = "watch" /\ UNCHANGED <<s1, s2, s6, s10, s12, s13, s14, s15>>
    BY <1>6 DEF Session!Spawn, Session!Started
  <2> QED BY <2>1 DEF GroupOver, Session!PlaytimeCounts
<1>7. CASE Session!AfterExit
  BY <1>1, <1>7 DEF Session!AfterExit
(* The processes.                                                          *)
<1>8. ASSUME UNCHANGED <<s1, s2, s5, s6, s12, s13, s14, s15>>,
             \/ s9' \in {s9, "gone"} /\ s10' \subseteq s10
             \/ \E h \in Helper : Session!StartHelper(h)
      PROVE  SessionInv' /\ Session!PlaytimeCounts
  BY <1>8, GroupStaysOver DEF GroupOver, Session!PlaytimeCounts
<1>9. ASSUME NEW h \in Helper, Session!StartHelper(h) \/ Session!HelperExits(h)
      PROVE  SessionInv' /\ Session!PlaytimeCounts
  BY <1>8, <1>9 DEF Session!StartHelper, Session!HelperExits
<1>10. CASE Session!ChildExits \/ Session!Stop
  BY <1>8, <1>10 DEF Session!ChildExits, Session!Stop
<1>11. CASE Session!Tick
  <2>1. /\ s12' = s12 + 1 /\ s13' = IF Session!GroupRuns THEN s13 + 1 ELSE s13
        /\ UNCHANGED <<s1, s2, s5, s6, s9, s10, s14, s15>>
    BY <1>11 DEF Session!Tick
  <2>2. Session!GroupRuns' = Session!GroupRuns
    BY <2>1 DEF Session!GroupRuns, Session!Grouped
  <2> QED BY <2>1, <2>2 DEF GroupOver, Session!PlaytimeCounts
(* The supervisor.                                                         *)
<1>12. CASE Session!ChildWaited
  <2> DEFINE over == ~Session!GroupRuns
  <2>1. /\ UNCHANGED <<s1, s2, s6, s9, s10, s12, s13, s15>>
        /\ \/ s5' = "handed" /\ s14' = s14
           \/ /\ s1 # "unix" /\ s5' = "ended"
              /\ s14' = [end |-> "exited", duration |-> s12, over |-> over]
    BY <1>12 DEF Session!ChildWaited, Session!Ended
  <2>2. over \in BOOLEAN
    OBVIOUS
  <2> HIDE DEF over
  <2>3. CASE s5' = "handed" /\ s14' = s14
    BY <1>1, <2>1, <2>3
  <2>4. CASE /\ s1 # "unix" /\ s5' = "ended"
             /\ s14' = [end |-> "exited", duration |-> s12, over |-> over]
    <3>1. s14' \in [end : {"none", "exited", "terminated", "error"}, duration : Nat,
                over : BOOLEAN]
      BY <2>2, <2>4
    <3> QED BY <2>1, <2>4, <3>1 DEF GroupOver, Session!PlaytimeCounts
  <2> QED BY <2>1, <2>3, <2>4
<1>13. CASE Session!GroupEmpty
  <2>1. /\ UNCHANGED <<s1, s2, s6, s9, s10, s12, s13, s15>> /\ s5' = "ended"
        /\ ~Session!GroupRuns
        /\ s14' = [end |-> "exited", duration |-> s12, over |-> TRUE]
    BY <1>13 DEF Session!GroupEmpty, Session!Ended
  <2>2. ~Session!GroupRuns'
    BY <2>1 DEF Session!GroupRuns, Session!Grouped
  <2> QED BY <2>1, <2>2 DEF GroupOver, Session!PlaytimeCounts
<1>14. CASE Session!HeedStop \/ Session!Signal
  <2>1. /\ UNCHANGED <<s1, s2, s6, s9, s10, s12, s13, s14, s15>>
        /\ s5' \in {"teardown", "signal", "kill"}
    BY <1>14 DEF Session!HeedStop, Session!Signal
  <2> QED BY <2>1, <1>1
<1>15. ASSUME NEW works \in BOOLEAN, Session!TornDown(works)
       PROVE  SessionInv' /\ Session!PlaytimeCounts
  <2>1. s5' = "signal" /\ UNCHANGED <<s1, s2, s6, s12, s13, s14, s15>>
    BY <1>15 DEF Session!TornDown
  <2> QED BY <2>1 DEF GroupOver, Session!PlaytimeCounts
<1>16. CASE Session!Kill
  <2>1. /\ UNCHANGED <<s1, s2, s6, s12, s13, s15>> /\ s5' = "ended"
        /\ s14' = [end |-> "terminated", duration |-> s12, over |-> FALSE]
    BY <1>16 DEF Session!Kill, Session!Ended
  <2> QED BY <2>1 DEF GroupOver, Session!PlaytimeCounts
<1>17. ASSUME NEW end \in {"exited", "error"}, Session!RunElevated(end)
       PROVE  SessionInv' /\ Session!PlaytimeCounts
  <2>1. /\ UNCHANGED <<s1, s2, s6, s12, s13, s15>> /\ s5 = "elevated" /\ s5' = "ended"
        /\ s14' = [end |-> end, duration |-> s12, over |-> FALSE]
    BY <1>17 DEF Session!RunElevated, Session!Ended
  <2> QED BY <2>1 DEF GroupOver, Session!PlaytimeCounts
(* What a session leaves.                                                  *)
<1>18. CASE Session!Played
  <2>1. /\ UNCHANGED <<s1, s2, s6, s9, s10, s12, s13, s14>> /\ s5 = "ended" /\ s5' = "after"
        /\ s15' = [s15 EXCEPT !.played = s15.played + s14.duration, !.suggested = FALSE]
    BY <1>18 DEF Session!Played, Session!Finished
  <2>2. s15' = [elevation |-> s15.elevation, cleared |-> s15.cleared, suggested |-> FALSE,
                played |-> s15.played + s14.duration]
    BY <2>1
  <2>3. s15' \in [elevation : BOOLEAN, cleared : BOOLEAN, suggested : BOOLEAN, played : Nat]
    BY <2>2
  <2>4. SessionTypes' /\ OnlyElevated'
    BY <2>1, <2>3
  <2>5. Session!GroupRuns' = Session!GroupRuns
    BY <2>1 DEF Session!GroupRuns, Session!Grouped
  <2>6. GroupOver'
    BY <2>1, <2>5 DEF GroupOver
  <2>7. s15'.played - s15.played = s14.duration
    BY <2>2
  <2>8. Session!PlaytimeCounts
    BY <2>1, <2>7 DEF GroupOver, Session!PlaytimeCounts
  <2> QED BY <2>6, <2>8, <2>4
<1>19. ASSUME NEW suggests \in BOOLEAN, Session!FailedToStart(suggests)
       PROVE  SessionInv' /\ Session!PlaytimeCounts
  <2> DEFINE elevation == s15.elevation \/ (~s6 /\ Session!Lowered)
  <2>1. /\ UNCHANGED <<s1, s2, s6, s9, s10, s12, s13, s14>> /\ s5' = "idle"
        /\ s15' = [s15 EXCEPT !.suggested = suggests, !.elevation = elevation]
    BY <1>19 DEF Session!FailedToStart, Session!Finished
  <2>2. elevation \in BOOLEAN
    OBVIOUS
  <2> HIDE DEF elevation
  <2> QED BY <1>1, <2>1, <2>2
<1>20. CASE Session!StoppedEarly
  BY <1>1, <1>20 DEF Session!StoppedEarly, Session!Finished
<1>21. CASE Session!Dismissed
  <2> DEFINE elevation == s15.elevation \/ s6
  <2>1. /\ UNCHANGED <<s1, s2, s6, s9, s10, s12, s13, s14>> /\ s5' = "idle"
        /\ s15' = [s15 EXCEPT !.elevation = elevation]
    BY <1>21 DEF Session!Dismissed, Session!Finished
  <2>2. elevation \in BOOLEAN
    OBVIOUS
  <2> HIDE DEF elevation
  <2> QED BY <1>1, <2>1, <2>2
<1> QED
  BY <1>2, <1>3, <1>4, <1>5, <1>6, <1>7, <1>9, <1>10, <1>11, <1>12, <1>13, <1>14, <1>15,
     <1>16, <1>17, <1>18, <1>19, <1>20, <1>21
  DEF Session!Next, Session!LaunchStep, Session!Supervise

(* On unix a session that ended by itself left nothing of its group        *)
(* running, whichever helpers the game started and however they take a     *)
(* signal (supervise_linux, process.rs).                                   *)
THEOREM ExitedIsOverHolds == Spec => []ExitedIsOver
<1> DEFINE Inv == part = "session" => SessionInv
<1>1. Init => Inv
  BY SessionInit DEF Init
<1>2. Inv /\ [Next]_vars => Inv'
  <2> SUFFICES ASSUME Inv, [Next]_vars, part = "session"
               PROVE  SessionInv'
    BY PartStays
  <2>1. CASE Next
    BY <2>1, OnlyItsSteps, SessionStays
  <2>2. CASE UNCHANGED vars
    BY <2>2 DEF vars, SessionInv, SessionTypes, OnlyElevated, GroupOver, Session!GroupRuns,
       Session!Grouped
  <2> QED BY <2>1, <2>2
<1>3. Inv => ExitedIsOver
  BY DEF SessionInv, GroupOver, ExitedIsOver, Session!ExitedIsOver
<1> QED BY <1>1, <1>2, <1>3, PTL DEF Spec
-----------------------------------------------------------------------------
(* A program run for its output: a line is read or in the pipe, and a run  *)
(* that only waits for the reader has no program left.                     *)

ProcessInv ==
    /\ s7 \in Nat /\ s8 \in Nat /\ s9 \in Nat
    /\ s7 = s9 + s8
    /\ s4 \in {"running", "over"}
    /\ s12 = "finish" => s4 = "over"

LEMMA ProcessStays ==
    ASSUME ProcessInv, Process!Next
    PROVE  ProcessInv' /\ Process!OutputKept
<1> USE DEF Process!program, Process!output, Process!result, Process!OutputKept
<1>1. CASE Process!Writes
  BY <1>1 DEF Process!Writes, ProcessInv
<1>2. CASE Process!StartsHelper \/ Process!Exits \/ Process!HelperExits
  BY <1>2 DEF Process!StartsHelper, Process!Exits, Process!HelperExits, ProcessInv
<1>3. CASE Process!Collect
  BY <1>3 DEF Process!Collect, ProcessInv
<1>4. CASE Process!Stop \/ Process!TeardownReturns \/ Process!TornDown
  BY <1>4 DEF Process!Stop, Process!TeardownReturns, Process!TornDown, ProcessInv
<1>5. CASE Process!ChildWaited \/ Process!Grace
  <2>1. s4' = "over" /\ s12' = "finish" /\ UNCHANGED <<s7, s8, s9>>
    BY <1>5 DEF Process!ChildWaited, Process!Grace, Process!Running, ProcessInv
  <2> QED BY <2>1 DEF ProcessInv
<1>6. CASE Process!HeedStop
  BY <1>6 DEF Process!HeedStop, ProcessInv
<1>7. CASE Process!Finish
  <2>1. s8 = 0 \/ Process!HeldOpen
    BY <1>7 DEF Process!Finish
  <2>2. /\ s12 = "finish" /\ s12' = "done" /\ s14' = s9
        /\ UNCHANGED <<s4, s7, s8, s9, s13>>
    BY <1>7 DEF Process!Finish
  <2>3. ~Process!HeldOpen => s14' = s7
    BY <2>1, <2>2 DEF ProcessInv
  <2> QED BY <2>2, <2>3 DEF ProcessInv
<1>8. CASE Process!OutputRead
  BY <1>8 DEF Process!OutputRead, Process!AtEnd, Process!Running, ProcessInv
<1>9. CASE Process!TimedOut
  BY <1>9 DEF Process!TimedOut, ProcessInv
<1> QED
  BY <1>1, <1>2, <1>3, <1>4, <1>5, <1>6, <1>7, <1>8, <1>9 DEF Process!Next, Process!RunStep
-----------------------------------------------------------------------------
(* A run of setups.                                                        *)

SetupTypes ==
    /\ s3.steps \in Seq(Setup!Setup)
    /\ s4 \in Nat
    /\ s9 \subseteq Setup!Setup /\ s10 \subseteq Setup!Setup
    /\ s12 \in Setup!Setup \cup {Setup!None}
    /\ s2 \in {"idle", "first", "begin", "prepare", "works", "ended", "judge", "settle"}

(* The steps before the one a run is at went in or failed; a run ends only *)
(* after the last of them, or one that failed.                             *)
StepsSettled ==
    /\ s2 # "idle" => \A i \in 1 .. s4 - 1 : s3.steps[i] \in s9 \cup s10
    /\ s2 \notin {"idle", "settle"} => s4 >= 1 /\ s4 <= Len(s3.steps)
    /\ s2 = "settle" /\ s10 = {} => s4 = Len(s3.steps) + 1

(* Until it ends no setup of the game has failed, and between programs no  *)
(* stop is waiting.                                                        *)
NothingFailed ==
    /\ s2 \notin {"idle", "settle"} => s10 \cap MainSetup = {}
    /\ s2 \in {"idle", "first", "begin", "prepare", "settle"} => s13 = "none"

SetupInv == SetupTypes /\ StepsSettled /\ NothingFailed

LEMMA SetupInit == Setup!Init => SetupInv
<1> SUFFICES ASSUME Setup!Init
             PROVE  SetupInv
  OBVIOUS
<1>1. s3.steps = <<>> /\ s2 = "idle" /\ s4 = 0 /\ s9 = {} /\ s10 = {} /\ s12 = Setup!None
      /\ s13 = "none"
  BY DEF Setup!Init, Setup!NoRun
<1> QED BY <1>1 DEF SetupInv, SetupTypes, StepsSettled, NothingFailed

LEMMA RunsAreSteps ==
    \A steps \in Setup!Runs : steps \in Seq(Setup!Setup) /\ Len(steps) >= 1
<1> SUFFICES ASSUME NEW steps \in Setup!Runs
             PROVE  steps \in Seq(Setup!Setup) /\ Len(steps) >= 1
  OBVIOUS
<1>1. steps \in UNION {[1 .. m -> Setup!Setup] : m \in 0 .. MaxSteps} /\ steps # <<>>
  BY DEF Setup!Runs, Setup!BoundedSeq, Setup!SeqOf
<1>2. PICK m \in 0 .. MaxSteps : steps \in [1 .. m -> Setup!Setup]
  BY <1>1
<1>3. steps \in Seq(Setup!Setup)
  BY <1>2
<1> QED BY <1>1, <1>3

LEMMA SetupRuns ==
    ASSUME SetupInv, NEW steps \in Seq(Setup!Setup), NEW elevated, NEW ask, NEW delete,
           Len(steps) >= 1, Setup!RunSetups(steps, elevated, ask, delete)
    PROVE  SetupInv'
<1>1. /\ s2 = "idle" /\ s2' = "first" /\ s4' = 1 /\ s10' = {}
      /\ UNCHANGED <<s9, s12, s13>>
      /\ s3' = [steps |-> steps, elevated |-> elevated, ask |-> ask, delete |-> delete]
  BY DEF Setup!RunSetups
<1>2. s3'.steps = steps
  BY <1>1
<1>3. SetupTypes'
  BY <1>1, <1>2 DEF SetupInv, SetupTypes
<1>4. StepsSettled' /\ NothingFailed'
  BY <1>1, <1>2 DEF SetupInv, SetupTypes, StepsSettled, NothingFailed
<1> QED BY <1>3, <1>4 DEF SetupInv

(* A step within a program's run, from one place of it to another.         *)
LEMMA SetupGoesOn ==
    ASSUME SetupInv, UNCHANGED <<s3, s4, s9, s10>>, s2 # "idle",
           s2' \in {"first", "begin", "prepare", "works", "ended", "judge"}, s2 # "settle",
           s12' \in Setup!Setup \cup {Setup!None},
           s2' \in {"begin", "prepare"} => s13' = "none", s2' # "first"
    PROVE  SetupInv'
  BY DEF SetupInv, SetupTypes, StepsSettled, NothingFailed

LEMMA SetupStays ==
    ASSUME SetupInv, Setup!Next
    PROVE  SetupInv' /\ Setup!NothingAfter
<1> USE DEF Setup!stepVars, Setup!NothingAfter
<1>1. ASSUME NEW steps \in Setup!Runs, NEW delete, Setup!InstallSetups(steps, delete)
      PROVE  SetupInv' /\ Setup!NothingAfter
  <2>1. Setup!RunSetups(steps, FALSE, TRUE, delete)
    BY <1>1 DEF Setup!InstallSetups
  <2> QED BY <2>1, RunsAreSteps, SetupRuns DEF Setup!RunSetups
<1>2. ASSUME NEW steps, Setup!AutoRunSetups(steps)
      PROVE  SetupInv' /\ Setup!NothingAfter
  <2>1. PICK silent \in Setup!Runs : Setup!RunSetups(silent, FALSE, FALSE, "setting")
    BY <1>2 DEF Setup!AutoRunSetups
  <2> QED BY <2>1, RunsAreSteps, SetupRuns DEF Setup!RunSetups
<1>3. CASE Setup!RunSetupElevated
  <2> DEFINE steps == <<s12>>
  <2>1. Setup!RunSetups(steps, TRUE, TRUE, "setting") /\ s12 \in Setup!Setup
    BY <1>3 DEF Setup!RunSetupElevated, SetupInv, SetupTypes
  <2>2. steps \in Seq(Setup!Setup) /\ Len(steps) >= 1
    BY <2>1
  <2> HIDE DEF steps
  <2> QED BY <2>1, <2>2, SetupRuns DEF Setup!RunSetups
<1>4. ASSUME Setup!Prepare
      PROVE  s12' \in Setup!Setup \cup {Setup!None}
  BY <1>4 DEF Setup!Prepare
<1>5. CASE Setup!PrepareFirst \/ Setup!PrepareNext
  <2>1. /\ s12' \in Setup!Setup \cup {Setup!None} /\ UNCHANGED <<s3, s4, s9, s10>>
        /\ \/ s2 = "first" /\ s2' = "begin" /\ s13' = s13
           \/ s2 = "prepare" /\ s2' = "works"
    BY <1>4, <1>5 DEF Setup!PrepareFirst, Setup!PrepareNext
  <2>2. SetupInv'
    BY <2>1, SetupGoesOn DEF SetupInv, NothingFailed
  <2> QED BY <2>1, <2>2 DEF Setup!Stopped, SetupInv, NothingFailed
<1>6. CASE Setup!FirstFails
  BY <1>6 DEF Setup!FirstFails, SetupInv, SetupTypes, StepsSettled, NothingFailed
<1>7. CASE Setup!BeginStep
  <2>1. /\ s12' = s12 /\ UNCHANGED <<s3, s4, s9, s10>> /\ s2 = "begin"
        /\ \/ s2' = "works"
           \/ s2' = "prepare" /\ s13' = s13
    BY <1>7 DEF Setup!BeginStep
  <2>2. SetupInv'
    BY <2>1, SetupGoesOn DEF SetupInv, NothingFailed, SetupTypes
  <2> QED BY <2>1, <2>2 DEF Setup!Stopped, SetupInv, NothingFailed
<1>8. CASE Setup!WriteInFolder \/ Setup!WriteInPrefix \/ Setup!Stop
  <2>1. UNCHANGED <<s3, s4, s9, s10, s12>> /\ s2 = "works" /\ s2' = "works"
    BY <1>8 DEF Setup!WriteInFolder, Setup!WriteInPrefix, Setup!Stop, Setup!Works
  <2> QED BY <2>1, SetupGoesOn DEF SetupInv, SetupTypes
<1>9. CASE Setup!Exit \/ Setup!NeedsElevation \/ Setup!StopProgram
  <2>1. UNCHANGED <<s3, s4, s9, s10, s12>> /\ s2 = "works" /\ s2' = "ended"
    BY <1>9 DEF Setup!Exit, Setup!NeedsElevation, Setup!StopProgram, Setup!Works, Setup!Ended
  <2> QED BY <2>1, SetupGoesOn DEF SetupInv, SetupTypes
<1>10. CASE Setup!AskConsent \/ Setup!Ok
  <2>1. UNCHANGED <<s3, s4, s9, s10, s12>> /\ s2 = "ended" /\ s2' \in {"ended", "judge"}
    BY <1>10 DEF Setup!AskConsent, Setup!Ok
  <2> QED BY <2>1, SetupGoesOn DEF SetupInv, SetupTypes
<1>11. SetupInv /\ s2 \notin {"idle", "settle"} => Setup!Step \in Setup!Setup
  BY DEF SetupInv, SetupTypes, StepsSettled, Setup!Step
<1>12. CASE Setup!NotOk
  <2>1. /\ UNCHANGED <<s3, s4, s9, s10>> /\ s2 = "ended" /\ s2' = "judge"
        /\ s12' \in {s12, Setup!Step}
    BY <1>12 DEF Setup!NotOk
  <2>2. s12' \in Setup!Setup \cup {Setup!None}
    BY <1>11, <2>1 DEF SetupInv, SetupTypes
  <2> QED BY <2>1, <2>2, SetupGoesOn
<1>13. CASE Setup!Retry \/ Setup!PrepareFails
  <2>1. /\ UNCHANGED <<s3, s4, s9, s10, s12>> /\ s2 \in {"judge", "prepare"}
        /\ (s2' = "prepare" /\ s13' = "none") \/ s2' = "judge"
    BY <1>13 DEF Setup!Retry, Setup!PrepareFails
  <2> QED BY <2>1, SetupGoesOn DEF SetupInv, SetupTypes
(* A step that went in, and one that failed.                               *)
<1>14. ASSUME s2 = "judge", UNCHANGED <<s3, s12>>, s4' = s4 + 1, s13' = "none",
              \/ s9' = s9 \cup {Setup!Step} /\ s10' = s10
              \/ s10' = s10 \cup {Setup!Step} /\ s9' = s9,
              \/ s2' = Setup!NextStep /\ (s10' = s10 \/ Setup!Step \notin MainSetup)
              \/ s2' = "settle" /\ s10' # {}
       PROVE  SetupInv' /\ Setup!NothingAfter
  <2>1. /\ Len(s3.steps) \in Nat /\ s4 \in Nat /\ s4 >= 1 /\ s4 <= Len(s3.steps)
        /\ s3.steps[s4] = Setup!Step /\ Setup!Step \in Setup!Setup
    BY <1>11, <1>14 DEF SetupInv, SetupTypes, StepsSettled, Setup!Step
  <2>2. s2' \in {"begin", "settle"}
    BY <1>14 DEF Setup!NextStep
  <2>3. s2' = "begin" => s4 + 1 <= Len(s3.steps)
    BY <1>14, <2>1 DEF Setup!NextStep
  <2>4. s2' = "settle" /\ s10' = {} => s4 + 1 = Len(s3.steps) + 1
    BY <1>14, <2>1 DEF Setup!NextStep
  <2>5. SetupTypes'
    BY <1>14, <2>1, <2>2 DEF SetupInv, SetupTypes
  <2>6. ASSUME NEW i \in 1 .. s4' - 1
        PROVE  s3'.steps[i] \in s9' \cup s10'
    <3>1. CASE i = s4
      BY <1>14, <2>1, <3>1
    <3>2. CASE i # s4
      <4>1. i \in 1 .. s4 - 1
        BY <1>14, <2>1, <3>2
      <4>2. s3.steps[i] \in s9 \cup s10
        BY <1>14, <4>1 DEF SetupInv, StepsSettled
      <4> QED BY <1>14, <4>2
    <3> QED BY <3>1, <3>2
  <2>7. StepsSettled'
    BY <1>14, <2>1, <2>2, <2>3, <2>4, <2>6 DEF StepsSettled
  <2>8. NothingFailed'
    BY <1>14, <2>2 DEF NothingFailed, SetupInv
  <2> QED BY <1>14, <2>2, <2>5, <2>7, <2>8 DEF SetupInv
<1>15. CASE Setup!StepSucceeds \/ Setup!KeepProgram
  <2>1. PICK newFolder : s2 = "judge" /\ Setup!Succeeded(newFolder)
    BY <1>15 DEF Setup!StepSucceeds, Setup!KeepProgram
  <2> QED BY <1>14, <2>1 DEF Setup!Succeeded
<1>16. CASE Setup!StepFails
  <2>1. /\ s2 = "judge" /\ UNCHANGED <<s3, s12>> /\ s4' = s4 + 1 /\ s13' = "none"
        /\ s10' = s10 \cup {Setup!Step} /\ s9' = s9
        /\ s2' = IF Setup!EndsRun THEN "settle" ELSE Setup!NextStep
    BY <1>16 DEF Setup!StepFails
  <2>2. CASE Setup!EndsRun
    BY <1>14, <2>1, <2>2
  <2>3. CASE ~Setup!EndsRun
    BY <1>14, <2>1, <2>3 DEF Setup!EndsRun
  <2> QED BY <2>2, <2>3
<1>17. CASE Setup!Settle
  BY <1>17 DEF Setup!Settle, SetupInv, SetupTypes, StepsSettled, NothingFailed
<1> QED
  BY <1>1, <1>2, <1>3, <1>5, <1>6, <1>7, <1>8, <1>9, <1>10, <1>12, <1>13, <1>15, <1>16, <1>17
  DEF Setup!Next, Setup!RunStep

LEMMA DownloadIsKept ==
    ASSUME SetupInv, Setup!Next
    PROVE  Setup!DownloadKept
<1> SUFFICES ASSUME s11, ~s11'
             PROVE  /\ Setup!Range(s3.steps) \subseteq s9
                    /\ s3.delete = "setting" => Setup!Setup \subseteq s9
  BY DEF Setup!DownloadKept
<1>1. Setup!Settle
  <2> USE DEF Setup!stepVars, Setup!RunSetups
  <2>1. CASE \/ \E steps \in Setup!Runs, delete \in {"yes", "no", "setting"} :
                     Setup!InstallSetups(steps, delete)
             \/ \E steps \in Setup!Runs : Setup!AutoRunSetups(steps)
             \/ Setup!RunSetupElevated
    BY <2>1 DEF Setup!InstallSetups, Setup!AutoRunSetups, Setup!RunSetupElevated
  <2>2. CASE \/ Setup!WriteInFolder \/ Setup!WriteInPrefix \/ Setup!Exit \/ Setup!NeedsElevation
             \/ Setup!Stop \/ Setup!StopProgram \/ Setup!AskConsent \/ Setup!NotOk \/ Setup!Ok
    BY <2>2 DEF Setup!WriteInFolder, Setup!WriteInPrefix, Setup!Exit, Setup!NeedsElevation,
       Setup!Stop, Setup!StopProgram, Setup!AskConsent, Setup!NotOk, Setup!Ok, Setup!Ended
  <2>3. CASE \/ Setup!PrepareFirst \/ Setup!FirstFails \/ Setup!BeginStep \/ Setup!PrepareNext
             \/ Setup!PrepareFails \/ Setup!Retry \/ Setup!StepSucceeds \/ Setup!KeepProgram
             \/ Setup!StepFails
    BY <2>3 DEF Setup!PrepareFirst, Setup!FirstFails, Setup!BeginStep, Setup!PrepareNext,
       Setup!PrepareFails, Setup!Retry, Setup!StepSucceeds, Setup!KeepProgram, Setup!StepFails,
       Setup!Succeeded
  <2> QED BY <2>1, <2>2, <2>3 DEF Setup!Next, Setup!RunStep
<1>2. /\ s2 = "settle" /\ s10 = {}
      /\ s3.delete = "yes" \/ (s3.delete = "setting" /\ Setup!Pending = {})
  BY <1>1 DEF Setup!Settle, Setup!Discard
<1>3. ASSUME NEW i \in DOMAIN s3.steps
      PROVE  s3.steps[i] \in s9
  <2>1. i \in 1 .. Len(s3.steps) /\ s4 = Len(s3.steps) + 1 /\ Len(s3.steps) \in Nat
    BY <1>2 DEF SetupInv, SetupTypes, StepsSettled
  <2>2. i \in 1 .. s4 - 1
    BY <2>1
  <2> QED BY <1>2, <2>2 DEF SetupInv, StepsSettled
<1>4. Setup!Range(s3.steps) \subseteq s9
  BY <1>3 DEF Setup!Range
<1>5. s3.delete = "setting" => Setup!Setup \subseteq s9
  BY <1>2 DEF Setup!Pending
<1> QED BY <1>4, <1>5
-----------------------------------------------------------------------------
(* A download unpacked.                                                    *)

UnpackTypes ==
    /\ s2 \in [Unpack!Entry -> Unpack!EntryOf(Unpack!Format)]
    /\ s3 \in {"stream", "file"}
    /\ s7 \in [Unpack!Entry -> {"no", "torn", "whole"}]
    /\ s9 \in {"start", "entry", "body", "directory", "choosing", "working", "joining",
               "writable", "stopped", "done", "failed"}
    /\ s10 \in 1 .. Entries + 1 /\ s11 \in 0 .. Entries
    /\ s13 \in {"none", "runs", "ok", "failed"}
    /\ s16 \in BOOLEAN /\ s17 \in {"no", "ours", "theirs"}

Good(e) == s7[e] = "whole" \/ s2[e] \in Unpack!LeftOut

AllGood == \A e \in Unpack!Entry : Good(e)

Startable(e) == s2[e] = "program" => e \in s8

Lies == s12 # <<>> /\ s12[1] = "bsdtar"

StreamedZip == Unpack!Format = "zip" /\ s3 = "stream"

(* Only a zip that arrives has a mark, with nothing left to do below it.   *)
MarkHolds ==
    /\ s11 > 0 => StreamedZip
    /\ s9 \in {"entry", "body"} => s11 < s10
    /\ \A e \in 1 .. s11 : Good(e)

(* The entries before the one that is read are done; so are their modes,   *)
(* unless the closing directory is to give them.                           *)
ReadSoFar ==
    /\ s9 \in {"entry", "body"} =>
          \A e \in 1 .. s10 - 1 : Good(e) /\ (StreamedZip \/ Startable(e))
    /\ s9 = "body" => s10 <= Entries
    /\ s9 = "directory" => StreamedZip /\ AllGood /\ \A e \in 1 .. s10 - 1 : Startable(e)
    /\ s9 = "done" => (AllGood \/ Lies) /\ \A e \in Unpack!Entry : Startable(e)

(* A tool's thread works while it is waited for, entry by entry.           *)
ToolsWork ==
    /\ s9 \in {"choosing", "working", "joining", "writable"} => Unpack!Format \in {"rar", "disc"}
    /\ s13 # "none" => s9 \in {"working", "joining"}
    /\ s13 = "runs" => s9 = "working" /\ \A e \in 1 .. s10 - 1 : Good(e)
    /\ s13 = "ok" \/ s9 = "writable" => AllGood \/ Lies

(* The app's own disc image is attached, and gone when the copy is over.   *)
ImageHeld ==
    /\ s17 = "ours" => s16
    /\ s17 # "no" => s9 \in {"working", "joining"}

UnpackInv == UnpackTypes /\ MarkHolds /\ ReadSoFar /\ ToolsWork /\ ImageHeld

LEMMA UnpackInit == Unpack!Init => UnpackInv
<1> SUFFICES ASSUME Unpack!Init
             PROVE  UnpackInv
  OBVIOUS
<1> USE MCProgressAssumption DEF MCProgressAssumption, Unpack!UnpackingAssumption
<1>1. /\ s3 \in {"stream", "file"} /\ s9 = "start" /\ s10 = 1 /\ s11 = 0 /\ s13 = "none"
      /\ s16 \in BOOLEAN /\ s17 = "no" /\ s7 = [e \in Unpack!Entry |-> "no"]
      /\ s2 \in [Unpack!Entry -> Unpack!EntryOf(Unpack!Format)]
  BY DEF Unpack!Init
<1>2. UnpackTypes
  BY <1>1 DEF UnpackTypes
<1> QED BY <1>1, <1>2 DEF UnpackInv, MarkHolds, ReadSoFar, ToolsWork, ImageHeld

(* Programs come in a zip or a tar only.                                   *)
LEMMA Programs ==
    ASSUME UnpackTypes, NEW e \in Unpack!Entry, s2[e] = "program"
    PROVE  Unpack!Format \in {"zip", "tar"}
  BY DEF UnpackTypes, Unpack!EntryOf

LEMMA Formats == Unpack!Format \in {"zip", "7z", "rar", "tar", "disc", "none"}
  BY DEF Unpack!Format, Unpack!Detect

(* Of a disc with two formats the one is read that holds it all.           *)
LEMMA AllReadable == \A e \in Unpack!Entry : Unpack!Readable(e)
  BY DEF Unpack!Readable, Unpack!DiscFormat

(* What is downloaded does not change.                                     *)
LEMMA DownloadStays ==
    ASSUME Unpack!Next
    PROVE  UNCHANGED <<s1, s2>>
<1> USE DEF Unpack!download
<1>1. CASE \/ Unpack!Begin \/ Unpack!Unsupported \/ Unpack!OpenEntry \/ Unpack!MakeEntry
           \/ Unpack!PlaceLink \/ Unpack!SkipEntry \/ Unpack!CannotStream \/ Unpack!MissingPassword
  BY <1>1 DEF Unpack!Begin, Unpack!Unsupported, Unpack!OpenEntry, Unpack!MakeEntry,
     Unpack!PlaceLink, Unpack!SkipEntry, Unpack!CannotStream, Unpack!MissingPassword
<1>2. CASE \/ Unpack!FinishStreamed \/ Unpack!FinishZipped \/ Unpack!FinishSevenZipped
           \/ Unpack!FinishTarred
  BY <1>2 DEF Unpack!FinishStreamed, Unpack!FinishZipped, Unpack!FinishSevenZipped,
     Unpack!FinishTarred, Unpack!Finished
<1>3. CASE \/ Unpack!Damaged \/ Unpack!Interrupted \/ Unpack!Resume \/ Unpack!EntriesEnd
           \/ Unpack!RestoreMode \/ Unpack!DirectoryEnds \/ Unpack!FindTools
           \/ Unpack!NoToolLeft \/ Unpack!RunTool \/ Unpack!RunUnRar
  BY <1>3 DEF Unpack!Damaged, Unpack!Interrupted, Unpack!Resume, Unpack!EntriesEnd,
     Unpack!RestoreMode, Unpack!DirectoryEnds, Unpack!FindTools, Unpack!NoToolLeft,
     Unpack!RunTool, Unpack!RunUnRar
<1>4. CASE \/ Unpack!WorkWrites \/ Unpack!WorkFails \/ Unpack!BsdtarLies \/ Unpack!WorkEnds
           \/ Unpack!SamplerSends \/ Unpack!SamplerLoops \/ Unpack!JoinSampler
           \/ Unpack!WorkSucceeded \/ Unpack!WorkFailed \/ Unpack!Mount \/ Unpack!MakeWritable
  BY <1>4 DEF Unpack!WorkWrites, Unpack!WorkFails, Unpack!BsdtarLies, Unpack!WorkEnds,
     Unpack!SamplerSends, Unpack!SamplerLoops, Unpack!JoinSampler, Unpack!WorkSucceeded,
     Unpack!WorkFailed, Unpack!Mount, Unpack!MakeWritable
<1> QED BY <1>1, <1>2, <1>3, <1>4 DEF Unpack!Next

(* The reader and its entry.                                               *)
Tooling == <<s12, s13, s16, s17>>

(* A step of the reader that leaves what is done as it is: only the entry  *)
(* it is at may be written, and only a mark's own step moves the mark.     *)
LEMMA ReaderStops ==
    ASSUME UnpackInv, UNCHANGED <<s1, s2, s3>>, UNCHANGED Tooling, s13 = "none", s17 = "no",
           s9' \in {"start", "stopped", "failed"}, s10' = s10,
           s7' = s7, s11' = s11 \/ (StreamedZip /\ s9 = "entry" /\ s11' = s10 - 1)
    PROVE  UnpackInv'
<1> USE MCProgressAssumption DEF MCProgressAssumption, Unpack!UnpackingAssumption
<1>1. StreamedZip' = StreamedZip /\ Unpack!Format' = Unpack!Format
  BY DEF StreamedZip, Unpack!Format
<1>2. UnpackTypes'
  BY <1>1 DEF UnpackInv, UnpackTypes, Tooling
<1>3. MarkHolds'
  BY <1>1 DEF UnpackInv, MarkHolds, ReadSoFar, Good, UnpackTypes
<1>4. ReadSoFar' /\ ToolsWork' /\ ImageHeld'
  BY DEF UnpackInv, ReadSoFar, ToolsWork, ImageHeld, Tooling
<1> QED BY <1>2, <1>3, <1>4 DEF UnpackInv

(* One that is done with the entry it is at.                               *)
LEMMA ReaderGoesOn ==
    ASSUME UnpackInv, UNCHANGED <<s1, s2, s3>>, UNCHANGED Tooling, s13 = "none", s17 = "no",
           s9 \in {"entry", "body"}, s10 <= Entries, s9' = "entry", s10' = s10 + 1,
           s7' = s7 \/ \E left \in {"no", "torn", "whole"} : s7' = [s7 EXCEPT ![s10] = left],
           s7'[s10] = "whole" \/ s2[s10] \in Unpack!LeftOut,
           s11' = s11 \/ (StreamedZip /\ s11' = s10 - 1),
           s8 \subseteq s8', StreamedZip \/ (s2[s10] = "program" => s10 \in s8')
    PROVE  UnpackInv'
<1> USE MCProgressAssumption DEF MCProgressAssumption, Unpack!UnpackingAssumption
<1>1. StreamedZip' = StreamedZip /\ Unpack!Format' = Unpack!Format
  BY DEF StreamedZip, Unpack!Format
<1>2. UnpackTypes'
  BY <1>1 DEF UnpackInv, UnpackTypes, Tooling
<1>3. ASSUME NEW e \in 1 .. s10
      PROVE  Good(e)' /\ (StreamedZip \/ Startable(e)')
  <2>1. CASE e = s10
    BY <2>1 DEF Good, Startable
  <2>2. CASE e # s10
    <3>1. e \in 1 .. s10 - 1 /\ e \in Unpack!Entry
      BY <2>2 DEF UnpackInv, UnpackTypes, Unpack!Entry
    <3>2. Good(e) /\ (StreamedZip \/ Startable(e))
      BY <3>1 DEF UnpackInv, ReadSoFar
    <3>3. s7'[e] = s7[e]
      BY <2>2, <3>1 DEF UnpackInv, UnpackTypes
    <3> QED BY <3>2, <3>3 DEF Good, Startable
  <2> QED BY <2>1, <2>2
<1>4. s11' < s10
  BY DEF UnpackInv, MarkHolds, UnpackTypes
<1>5. MarkHolds'
  BY <1>1, <1>3, <1>4 DEF UnpackInv, MarkHolds, UnpackTypes
<1>6. ReadSoFar'
  <2>1. s10' - 1 = s10
    BY DEF UnpackInv, UnpackTypes
  <2> QED BY <1>1, <1>3, <2>1 DEF ReadSoFar
<1>7. ToolsWork' /\ ImageHeld'
  BY DEF UnpackInv, ToolsWork, ImageHeld, Tooling
<1> QED BY <1>2, <1>5, <1>6, <1>7 DEF UnpackInv

(* While an entry is read no tool works.                                   *)
LEMMA ReaderAlone ==
    ASSUME UnpackInv, s9 \notin {"working", "joining"}
    PROVE  s13 = "none" /\ s17 = "no"
  BY DEF UnpackInv, ToolsWork, ImageHeld

LEMMA ReaderKeeps ==
    ASSUME UnpackInv,
           \/ Unpack!OpenEntry \/ Unpack!MakeEntry \/ Unpack!PlaceLink \/ Unpack!SkipEntry
           \/ Unpack!MissingPassword
           \/ Unpack!FinishStreamed \/ Unpack!FinishZipped \/ Unpack!FinishSevenZipped
           \/ Unpack!FinishTarred
           \/ Unpack!Damaged \/ Unpack!Interrupted
    PROVE  UnpackInv' /\ UNCHANGED <<s16, s17>>
<1> USE MCProgressAssumption DEF MCProgressAssumption, Unpack!UnpackingAssumption,
    Unpack!download, Unpack!onDisk, Unpack!threads, Unpack!image, Unpack!AtEntry, Tooling
<1>1. /\ s10 \in 1 .. Entries + 1 /\ s11 \in 0 .. Entries
      /\ s7 \in [Unpack!Entry -> {"no", "torn", "whole"}]
  BY DEF UnpackInv, UnpackTypes
<1>2. CASE Unpack!OpenEntry
  <2>1. /\ UNCHANGED <<s1, s2, s3, s8, s10, s12, s13, s16, s17>> /\ s9 = "entry" /\ s9' = "body"
        /\ s10 <= Entries /\ s7' = [s7 EXCEPT ![s10] = "torn"]
        /\ s11' = s11 \/ (StreamedZip /\ s11' = s10 - 1)
    BY <1>2 DEF Unpack!OpenEntry, Unpack!Marked, StreamedZip
  <2>2. StreamedZip' = StreamedZip /\ Unpack!Format' = Unpack!Format
    BY <2>1 DEF StreamedZip, Unpack!Format
  <2>3. s11' \in 0 .. Entries
    BY <1>1, <2>1
  <2>4. s7' \in [Unpack!Entry -> {"no", "torn", "whole"}]
    BY <1>1, <2>1
  <2>5. UnpackTypes'
    BY <2>1, <2>2, <2>3, <2>4 DEF UnpackInv, UnpackTypes
  <2>6. ASSUME NEW e \in 1 .. s10 - 1
        PROVE  Good(e)' /\ (StreamedZip \/ Startable(e)')
    <3>1. Good(e) /\ (StreamedZip \/ Startable(e))
      BY <2>1 DEF UnpackInv, ReadSoFar
    <3>2. s7'[e] = s7[e]
      BY <1>1, <2>1 DEF Unpack!Entry
    <3> QED BY <2>1, <3>1, <3>2 DEF Good, Startable
  <2>7. s11' < s10
    BY <1>1, <2>1 DEF UnpackInv, MarkHolds
  <2>8. MarkHolds'
    BY <1>1, <2>1, <2>2, <2>6, <2>7 DEF UnpackInv, MarkHolds
  <2>9. ReadSoFar'
    BY <2>1, <2>2, <2>6 DEF ReadSoFar
  <2>10. ToolsWork' /\ ImageHeld'
    BY <2>1, ReaderAlone DEF ToolsWork, ImageHeld
  <2> QED BY <2>1, <2>5, <2>8, <2>9, <2>10 DEF UnpackInv
<1>3. CASE Unpack!MakeEntry
  <2>1. /\ UNCHANGED <<s1, s2, s3>> /\ UNCHANGED Tooling /\ s9 = "entry" /\ s9' = "entry"
        /\ s10 <= Entries /\ s10' = s10 + 1 /\ s8' = s8 /\ s2[s10] = "folder"
        /\ s7' = [s7 EXCEPT ![s10] = "whole"]
        /\ s11' = s11 \/ (StreamedZip /\ s11' = s10 - 1)
    BY <1>3 DEF Unpack!MakeEntry, Unpack!Marked, StreamedZip
  <2>2. s7'[s10] = "whole" /\ s2[s10] # "program"
    BY <1>1, <2>1 DEF Unpack!Entry
  <2> QED BY <2>1, <2>2, ReaderAlone, ReaderGoesOn
<1>4. CASE Unpack!SkipEntry
  <2>1. /\ UNCHANGED <<s1, s2, s3>> /\ UNCHANGED Tooling /\ s9 = "entry" /\ s9' = "entry"
        /\ s10 <= Entries /\ s10' = s10 + 1 /\ s8' = s8
        /\ s2[s10] \in {"outside", "hard-link"} /\ s7' = s7
        /\ s11' = s11 \/ (StreamedZip /\ s11' = s10 - 1)
    BY <1>4 DEF Unpack!SkipEntry, Unpack!Marked, Unpack!Passed, StreamedZip
  <2>2. s2[s10] # "program" /\ s2[s10] \in Unpack!LeftOut
    BY <2>1 DEF Unpack!LeftOut
  <2> QED BY <2>1, <2>2, ReaderAlone, ReaderGoesOn
<1>5. CASE Unpack!PlaceLink
  <2>1. /\ UNCHANGED <<s1, s2, s3, s11>> /\ UNCHANGED Tooling /\ s9 = "entry" /\ s9' = "entry"
        /\ s10 <= Entries /\ s10' = s10 + 1 /\ s8' = s8 /\ s2[s10] = "link"
        /\ \E left \in {"no", "torn", "whole"} : s7' = [s7 EXCEPT ![s10] = left]
    BY <1>5 DEF Unpack!PlaceLink
  <2>2. s2[s10] # "program" /\ s2[s10] \in Unpack!LeftOut
    BY <2>1 DEF Unpack!LeftOut
  <2> QED BY <2>1, <2>2, ReaderAlone, ReaderGoesOn
<1>6. CASE \/ Unpack!FinishStreamed \/ Unpack!FinishZipped \/ Unpack!FinishSevenZipped
           \/ Unpack!FinishTarred
  <2>1. /\ UNCHANGED <<s1, s2, s3, s11>> /\ UNCHANGED Tooling /\ s9 = "body" /\ s9' = "entry"
        /\ s10' = s10 + 1 /\ s7' = [s7 EXCEPT ![s10] = "whole"]
    BY <1>6 DEF Unpack!FinishStreamed, Unpack!FinishZipped, Unpack!FinishSevenZipped,
       Unpack!FinishTarred, Unpack!Finished
  <2>2. s10 <= Entries /\ s10 \in Unpack!Entry
    BY <1>1, <2>1 DEF UnpackInv, ReadSoFar, Unpack!Entry
  <2>3. s7'[s10] = "whole"
    BY <1>1, <2>1, <2>2
  <2>4. \/ s8' = s8 /\ (StreamedZip \/ Unpack!Format \notin {"zip", "tar"})
        \/ s8' = Unpack!WithMode
    BY <1>6 DEF Unpack!FinishStreamed, Unpack!FinishZipped, Unpack!FinishSevenZipped,
       Unpack!FinishTarred, StreamedZip
  <2>5. s8 \subseteq s8' /\ (StreamedZip \/ (s2[s10] = "program" => s10 \in s8'))
    BY <2>1, <2>2, <2>4, Programs DEF Unpack!WithMode, UnpackInv
  <2> QED BY <2>1, <2>2, <2>3, <2>5, ReaderAlone, ReaderGoesOn
<1>7. CASE Unpack!MissingPassword \/ Unpack!Damaged \/ Unpack!Interrupted
  <2>1. /\ UNCHANGED <<s1, s2, s3, s7, s10>> /\ UNCHANGED Tooling
        /\ s9 \in {"entry", "body", "directory"} /\ s9' \in {"stopped", "failed"}
    BY <1>7 DEF Unpack!MissingPassword, Unpack!Damaged, Unpack!Interrupted
  <2>2. s11' = s11 \/ (StreamedZip /\ s9 = "entry" /\ s11' = s10 - 1)
    BY <1>7 DEF Unpack!MissingPassword, Unpack!Damaged, Unpack!Interrupted, Unpack!Marked,
       StreamedZip
  <2> QED BY <2>1, <2>2, ReaderAlone, ReaderStops
<1> QED BY <1>2, <1>3, <1>4, <1>5, <1>6, <1>7

(* The reader begins, starts over, or comes to the end.                    *)
LEMMA ReaderTurns ==
    ASSUME UnpackInv, Unpack!Next,
           \/ Unpack!Begin \/ Unpack!Unsupported \/ Unpack!CannotStream \/ Unpack!Resume
           \/ Unpack!EntriesEnd \/ Unpack!RestoreMode \/ Unpack!DirectoryEnds
    PROVE  UnpackInv' /\ UNCHANGED <<s16, s17>>
<1> USE MCProgressAssumption DEF MCProgressAssumption, Unpack!UnpackingAssumption,
    Unpack!download, Unpack!onDisk, Unpack!threads, Unpack!image, Tooling
<1>1. /\ s10 \in 1 .. Entries + 1 /\ s11 \in 0 .. Entries
      /\ s7 \in [Unpack!Entry -> {"no", "torn", "whole"}]
      /\ s3 \in {"stream", "file"}
      /\ s13 \in {"none", "runs", "ok", "failed"}
      /\ s16 \in BOOLEAN /\ s17 \in {"no", "ours", "theirs"}
      /\ s2 \in [Unpack!Entry -> Unpack!EntryOf(Unpack!Format)]
  BY DEF UnpackInv, UnpackTypes
<1>2. /\ UNCHANGED <<s1, s2>> /\ Unpack!Format' = Unpack!Format
      /\ s3' = s3 => StreamedZip' = StreamedZip
  BY DownloadStays DEF Unpack!Format, StreamedZip
<1>3. CASE Unpack!Begin
  <2>1. /\ UNCHANGED <<s3, s7, s8, s11>> /\ UNCHANGED Tooling /\ s9 = "start" /\ s9' = "entry"
        /\ s10' = s11 + 1 /\ Unpack!ByEntry
    BY <1>3 DEF Unpack!Begin
  <2>2. \A e \in 1 .. s10' - 1 : Good(e) /\ (StreamedZip \/ Startable(e))
    BY <1>1, <2>1 DEF UnpackInv, MarkHolds
  <2>3. UnpackTypes'
    BY <1>1, <1>2, <2>1 DEF UnpackTypes
  <2>4. MarkHolds' /\ ReadSoFar'
    BY <1>1, <1>2, <2>1, <2>2 DEF UnpackInv, MarkHolds, ReadSoFar, Good, Startable
  <2>5. ToolsWork' /\ ImageHeld'
    BY <2>1, ReaderAlone DEF ToolsWork, ImageHeld
  <2> QED BY <2>1, <2>3, <2>4, <2>5 DEF UnpackInv
<1>4. CASE Unpack!Unsupported
  <2>1. /\ UNCHANGED <<s3, s7, s10, s11>> /\ UNCHANGED Tooling /\ s9 = "start"
        /\ s9' = "failed"
    BY <1>4 DEF Unpack!Unsupported
  <2> QED BY <1>2, <2>1, ReaderAlone, ReaderStops
(* What is on disk is taken away, and nothing is marked.                   *)
<1>5. ASSUME UNCHANGED Tooling, s9 \in {"stopped", "entry", "body"}, s9' = "start",
             s3' \in {"stream", "file"}, s10' \in {s10, 1}, s11' = 0,
             s7' = [e \in Unpack!Entry |-> "no"]
      PROVE  UnpackInv' /\ UNCHANGED <<s16, s17>>
  <2>1. UnpackTypes'
    BY <1>1, <1>2, <1>5 DEF UnpackTypes
  <2>2. MarkHolds' /\ ReadSoFar'
    BY <1>5 DEF MarkHolds, ReadSoFar
  <2>3. ToolsWork' /\ ImageHeld'
    BY <1>5, ReaderAlone DEF ToolsWork, ImageHeld
  <2> QED BY <1>5, <2>1, <2>2, <2>3 DEF UnpackInv
<1>6. CASE Unpack!CannotStream
  <2>1. /\ UNCHANGED Tooling /\ s9 \in {"entry", "body"} /\ s9' = "start" /\ s3' = "file"
        /\ s10' = 1 /\ s11' = 0 /\ s7' = [e \in Unpack!Entry |-> "no"]
    BY <1>6 DEF Unpack!CannotStream, Unpack!AtEntry
  <2> QED BY <1>5, <2>1
<1>7. CASE Unpack!Resume
  <2>1. /\ UNCHANGED <<s3, s10, s11>> /\ UNCHANGED Tooling /\ s9 = "stopped" /\ s9' = "start"
        /\ \/ s7' = s7
           \/ Unpack!Format # "zip" /\ s7' = [e \in Unpack!Entry |-> "no"]
    BY <1>7 DEF Unpack!Resume
  <2>2. CASE s7' = s7
    BY <1>2, <2>1, <2>2, ReaderAlone, ReaderStops
  <2>3. CASE Unpack!Format # "zip" /\ s7' = [e \in Unpack!Entry |-> "no"]
    <3>1. s11 = 0
      BY <1>1, <2>3 DEF UnpackInv, MarkHolds, StreamedZip
    <3> QED BY <1>1, <1>5, <2>1, <2>3, <3>1
  <2> QED BY <2>1, <2>2, <2>3
<1>8. CASE Unpack!EntriesEnd
  <2>1. /\ UNCHANGED <<s3, s7, s8>> /\ UNCHANGED Tooling /\ s9 = "entry" /\ s10 = Entries + 1
        /\ s11' = s11 \/ (StreamedZip /\ s11' = Entries)
        /\ \/ StreamedZip /\ s9' = "directory" /\ s10' = 1
           \/ ~StreamedZip /\ s9' = "done" /\ s10' = s10
    BY <1>8 DEF Unpack!EntriesEnd, Unpack!Marked, StreamedZip
  <2>2. AllGood /\ (StreamedZip \/ \A e \in Unpack!Entry : Startable(e))
    BY <1>1, <2>1 DEF UnpackInv, ReadSoFar, AllGood, Unpack!Entry
  <2>3. s11' \in 0 .. Entries /\ s10' \in 1 .. Entries + 1
    BY <1>1, <2>1
  <2>4. UnpackTypes'
    BY <1>1, <1>2, <2>1, <2>3 DEF UnpackTypes
  <2>5. AllGood' /\ (StreamedZip \/ \A e \in Unpack!Entry : Startable(e)')
    BY <1>2, <2>1, <2>2 DEF AllGood, Good, Startable
  <2>6. MarkHolds'
    <3>1. s11' > 0 => StreamedZip
      BY <1>1, <2>1 DEF UnpackInv, MarkHolds
    <3>2. \A e \in 1 .. s11' : Good(e)'
      BY <2>3, <2>5 DEF AllGood, Unpack!Entry
    <3> QED BY <1>2, <2>1, <3>1, <3>2 DEF MarkHolds
  <2>7. ReadSoFar'
    BY <1>2, <2>1, <2>5 DEF ReadSoFar
  <2>8. ToolsWork' /\ ImageHeld'
    BY <2>1, ReaderAlone DEF ToolsWork, ImageHeld
  <2> QED BY <2>1, <2>4, <2>6, <2>7, <2>8 DEF UnpackInv
<1>9. CASE Unpack!RestoreMode
  <2>1. /\ UNCHANGED <<s3, s7, s11>> /\ UNCHANGED Tooling /\ s9 = "directory"
        /\ s9' = "directory" /\ s10 <= Entries /\ s10' = s10 + 1 /\ s8 \subseteq s8'
        /\ s2[s10] = "program" /\ s7[s10] # "no" => s10 \in s8'
    BY <1>9 DEF Unpack!RestoreMode
  <2>2. StreamedZip /\ AllGood /\ \A e \in 1 .. s10 - 1 : Startable(e)
    BY <2>1 DEF UnpackInv, ReadSoFar
  <2>3. s2[s10] = "program" => s10 \in s8'
    BY <1>1, <2>1, <2>2 DEF AllGood, Good, Unpack!LeftOut, Unpack!Entry
  <2>4. ASSUME NEW e \in 1 .. s10' - 1
        PROVE  Startable(e)'
    BY <1>1, <1>2, <2>1, <2>2, <2>3 DEF Startable
  <2>5. UnpackTypes'
    BY <1>1, <1>2, <2>1 DEF UnpackTypes
  <2>6. AllGood' /\ (\A e \in 1 .. s11' : Good(e)')
    BY <1>2, <2>1, <2>2 DEF AllGood, Good, UnpackInv, MarkHolds
  <2>7. MarkHolds' /\ ReadSoFar'
    BY <1>2, <2>1, <2>2, <2>4, <2>6 DEF MarkHolds, ReadSoFar
  <2>8. ToolsWork' /\ ImageHeld'
    BY <2>1, ReaderAlone DEF ToolsWork, ImageHeld
  <2> QED BY <2>1, <2>5, <2>7, <2>8 DEF UnpackInv
<1>10. CASE Unpack!DirectoryEnds
  <2>1. /\ UNCHANGED <<s3, s7, s8, s10, s11>> /\ UNCHANGED Tooling /\ s9 = "directory"
        /\ s9' = "done" /\ s10 = Entries + 1
    BY <1>10 DEF Unpack!DirectoryEnds
  <2>2. StreamedZip /\ AllGood /\ \A e \in Unpack!Entry : Startable(e)
    BY <1>1, <2>1 DEF UnpackInv, ReadSoFar, Unpack!Entry
  <2>3. AllGood' /\ \A e \in Unpack!Entry : Startable(e)'
    BY <1>2, <2>1, <2>2 DEF AllGood, Good, Startable
  <2>4. UnpackTypes'
    BY <1>1, <1>2, <2>1 DEF UnpackTypes
  <2>5. MarkHolds' /\ ReadSoFar'
    BY <1>2, <2>1, <2>3 DEF UnpackInv, MarkHolds, ReadSoFar, Good
  <2>6. ToolsWork' /\ ImageHeld'
    BY <2>1, ReaderAlone DEF ToolsWork, ImageHeld
  <2> QED BY <2>1, <2>4, <2>5, <2>6 DEF UnpackInv
<1> QED BY <1>3, <1>4, <1>6, <1>7, <1>8, <1>9, <1>10

(* A tool's steps: a rar or a disc image has no mark and no program in it. *)
LEMMA ToolMoves ==
    ASSUME UnpackInv, UNCHANGED <<s1, s2, s3, s11>>, Unpack!Format \in {"rar", "disc"},
           s9' \in {"choosing", "working", "joining", "writable", "failed", "done"},
           s10' \in 1 .. Entries + 1, s7' \in [Unpack!Entry -> {"no", "torn", "whole"}],
           s13' \in {"none", "runs", "ok", "failed"},
           s16' \in BOOLEAN, s17' \in {"no", "ours", "theirs"},
           s9' = "done" => (AllGood \/ Lies)',
           ToolsWork', ImageHeld'
    PROVE  UnpackInv'
<1>1. Unpack!Format' = Unpack!Format
  BY DEF Unpack!Format
<1>2. UnpackTypes'
  BY <1>1 DEF UnpackInv, UnpackTypes
<1>3. s11 = 0
  BY DEF UnpackInv, UnpackTypes, MarkHolds, StreamedZip
<1>4. MarkHolds'
  BY <1>3 DEF MarkHolds
<1>5. \A e \in Unpack!Entry : s2[e] # "program"
  BY Programs DEF UnpackInv
<1>6. ReadSoFar'
  BY <1>5 DEF ReadSoFar, Startable
<1> QED BY <1>2, <1>4, <1>6 DEF UnpackInv

LEMMA ToolKeeps ==
    ASSUME UnpackInv, Unpack!Next,
           \/ Unpack!FindTools \/ Unpack!NoToolLeft \/ Unpack!RunTool \/ Unpack!RunUnRar
           \/ Unpack!WorkWrites \/ Unpack!WorkFails \/ Unpack!BsdtarLies \/ Unpack!WorkEnds
           \/ Unpack!SamplerSends \/ Unpack!SamplerLoops \/ Unpack!JoinSampler
           \/ Unpack!WorkSucceeded \/ Unpack!WorkFailed \/ Unpack!Mount \/ Unpack!MakeWritable
    PROVE  UnpackInv' /\ Unpack!ImageAsFound
<1> USE MCProgressAssumption DEF MCProgressAssumption, Unpack!UnpackingAssumption,
    Unpack!download, Unpack!onDisk, Unpack!threads, Unpack!image, Unpack!ImageAsFound
<1>1. /\ s10 \in 1 .. Entries + 1 /\ s11 \in 0 .. Entries
      /\ s7 \in [Unpack!Entry -> {"no", "torn", "whole"}]
      /\ s13 \in {"none", "runs", "ok", "failed"}
      /\ s16 \in BOOLEAN /\ s17 \in {"no", "ours", "theirs"}
  BY DEF UnpackInv, UnpackTypes
<1>2. /\ UNCHANGED <<s1, s2>> /\ Unpack!Format' = Unpack!Format
  BY DownloadStays DEF Unpack!Format
<1>3. s13 # "none" => s9 \in {"working", "joining"} /\ Unpack!Format \in {"rar", "disc"}
  BY DEF UnpackInv, ToolsWork
(* Before and between tools.                                               *)
<1>4. CASE Unpack!FindTools \/ Unpack!NoToolLeft
  <2>1. /\ UNCHANGED <<s3, s7, s10, s11, s13, s16, s17>> /\ s9 \in {"start", "choosing"}
        /\ s9' \in {"choosing", "failed"} /\ Unpack!Format \in {"rar", "disc"}
    BY <1>4 DEF Unpack!FindTools, Unpack!NoToolLeft, UnpackInv, ToolsWork
  <2>2. ToolsWork' /\ ImageHeld'
    BY <1>2, <2>1, ReaderAlone DEF ToolsWork, ImageHeld
  <2> QED BY <1>1, <1>2, <2>1, <2>2, ToolMoves
<1>5. CASE Unpack!RunTool \/ Unpack!RunUnRar
  <2>1. /\ UNCHANGED <<s3, s7, s11, s12, s16, s17>> /\ s9 \in {"start", "choosing"}
        /\ s9' = "working" /\ s10' = 1 /\ s13' = "runs" /\ Unpack!Format \in {"rar", "disc"}
    BY <1>5 DEF Unpack!RunTool, Unpack!RunUnRar, Unpack!Spawned, UnpackInv, ToolsWork
  <2>2. ToolsWork' /\ ImageHeld'
    BY <1>2, <2>1, ReaderAlone DEF ToolsWork, ImageHeld
  <2>3. s10' \in 1 .. Entries + 1 /\ UNCHANGED <<s16, s17>>
    BY <2>1
  <2>4. UnpackInv'
    BY <1>1, <1>2, <2>1, <2>2, <2>3, ToolMoves
  <2>5. s17 \in {"no"}
    BY <2>1, ReaderAlone
  <2> QED BY <2>3, <2>4, <2>5
<1>6. CASE Unpack!Mount
  <2>1. /\ UNCHANGED <<s3, s7, s11, s12>> /\ s9 = "start" /\ Unpack!Format = "disc"
        /\ \/ /\ s17' = (IF s16 THEN "theirs" ELSE "ours") /\ s16' = TRUE
              /\ s9' = "working" /\ s10' = 1 /\ s13' = "runs"
           \/ s9' = "failed" /\ UNCHANGED <<s10, s13, s16, s17>>
           \/ /\ s9' = "failed" /\ UNCHANGED <<s10, s13, s17>>
              /\ s16' \in {s16, TRUE} /\ s18' = s18 + 1
    BY <1>6 DEF Unpack!Mount, Unpack!Mounted, Unpack!MountFails, Unpack!Stop, Unpack!Spawned
  <2>2. s13 = "none" /\ s17 = "no"
    BY <2>1, ReaderAlone
  <2>3. CASE s9' = "failed"
    <3>1. /\ UNCHANGED <<s10, s13, s17>> /\ s16' \in BOOLEAN
          /\ s16' = s16 \/ (s16' = TRUE /\ s18' = s18 + 1)
      BY <1>1, <2>1, <2>3
    <3>2. ToolsWork' /\ ImageHeld'
      BY <2>2, <2>3, <3>1 DEF ToolsWork, ImageHeld
    <3> QED BY <1>1, <1>2, <2>1, <2>2, <2>3, <3>1, <3>2, ToolMoves
  <2>4. CASE s9' = "working"
    <3>1. /\ s17' = (IF s16 THEN "theirs" ELSE "ours") /\ s16' = TRUE
          /\ s10' = 1 /\ s13' = "runs"
      BY <2>1, <2>4
    <3>2. ToolsWork' /\ ImageHeld'
      BY <1>2, <2>1, <2>4, <3>1 DEF ToolsWork, ImageHeld
    <3>3. UnpackInv'
      BY <1>1, <1>2, <2>1, <2>4, <3>1, <3>2, ToolMoves
    <3>4. CASE s16
      BY <2>2, <3>1, <3>3, <3>4
    <3>5. CASE ~s16
      BY <1>1, <2>2, <3>1, <3>3, <3>5
    <3> QED BY <3>4, <3>5
  <2> QED BY <2>1, <2>3, <2>4
(* At work.                                                                *)
<1>7. CASE Unpack!WorkWrites
  <2>1. /\ UNCHANGED <<s3, s9, s11, s12, s13, s16, s17>> /\ s13 = "runs" /\ s10 <= Entries
        /\ s10' = s10 + 1
        /\ \/ Unpack!Passed /\ s7' = s7
           \/ s7' = [s7 EXCEPT ![s10] = IF Unpack!Readable(s10) THEN "whole" ELSE "no"]
    BY <1>7 DEF Unpack!WorkWrites
  <2>2. s10 \in Unpack!Entry
    BY <1>1, <2>1 DEF Unpack!Entry
  <2>3. (s2[s10] \in Unpack!LeftOut /\ s7' = s7) \/ s7' = [s7 EXCEPT ![s10] = "whole"]
    BY <2>1, <2>2, AllReadable DEF Unpack!Passed, Unpack!LeftOut
  <2>4. ASSUME NEW e \in 1 .. s10' - 1
        PROVE  Good(e)'
    <3>1. CASE e = s10
      BY <1>1, <1>2, <2>2, <2>3, <3>1 DEF Good, Unpack!LeftOut
    <3>2. CASE e # s10
      <4>1. e \in 1 .. s10 - 1 /\ e \in Unpack!Entry
        BY <1>1, <2>1, <3>2 DEF Unpack!Entry
      <4>2. Good(e) /\ s7'[e] = s7[e]
        BY <1>1, <2>1, <2>3, <3>2, <4>1 DEF UnpackInv, ToolsWork
      <4> QED BY <1>2, <4>2 DEF Good, Unpack!LeftOut
    <3> QED BY <3>1, <3>2
  <2>5. s9 = "working" /\ Unpack!Format \in {"rar", "disc"}
    BY <2>1 DEF UnpackInv, ToolsWork
  <2>6. ToolsWork'
    BY <1>2, <2>1, <2>4, <2>5 DEF UnpackInv, ToolsWork
  <2>7. ImageHeld'
    BY <2>1 DEF UnpackInv, ImageHeld
  <2>8. s10' \in 1 .. Entries + 1
    BY <1>1, <2>1
  <2>9. s7' \in [Unpack!Entry -> {"no", "torn", "whole"}]
    BY <1>1, <2>3
  <2> QED BY <1>1, <1>2, <2>1, <2>5, <2>6, <2>7, <2>8, <2>9, ToolMoves
<1>8. CASE Unpack!WorkFails
  <2>1. /\ UNCHANGED <<s3, s9, s10, s11, s12, s16, s17>> /\ s13 = "runs" /\ s13' = "failed"
        /\ s7' \in {s7, [s7 EXCEPT ![s10] = "torn"]}
    BY <1>8 DEF Unpack!WorkFails
  <2>2. s9 = "working" /\ Unpack!Format \in {"rar", "disc"}
    BY <2>1 DEF UnpackInv, ToolsWork
  <2>3. ToolsWork' /\ ImageHeld'
    BY <1>2, <2>1, <2>2 DEF UnpackInv, ToolsWork, ImageHeld
  <2>4. s7' \in [Unpack!Entry -> {"no", "torn", "whole"}]
    BY <1>1, <2>1
  <2> QED BY <1>1, <1>2, <2>1, <2>2, <2>3, <2>4, ToolMoves
<1>9. CASE Unpack!BsdtarLies
  <2>1. /\ UNCHANGED <<s3, s9, s10, s11, s12, s16, s17>> /\ s13 = "runs" /\ s13' = "ok"
        /\ Lies /\ s7' = [s7 EXCEPT ![s10] = "torn"]
    BY <1>9 DEF Unpack!BsdtarLies, Lies
  <2>2. s9 = "working" /\ Unpack!Format \in {"rar", "disc"}
    BY <2>1 DEF UnpackInv, ToolsWork
  <2>3. Lies'
    BY <2>1 DEF Lies
  <2>4. ToolsWork' /\ ImageHeld'
    BY <1>2, <2>1, <2>2, <2>3 DEF UnpackInv, ToolsWork, ImageHeld
  <2>5. s7' \in [Unpack!Entry -> {"no", "torn", "whole"}]
    BY <1>1, <2>1
  <2> QED BY <1>1, <1>2, <2>1, <2>2, <2>4, <2>5, ToolMoves
<1>10. CASE Unpack!WorkEnds
  <2>1. /\ UNCHANGED <<s3, s7, s9, s10, s11, s12, s16, s17>> /\ s13 = "runs" /\ s13' = "ok"
        /\ s10 = Entries + 1
    BY <1>10 DEF Unpack!WorkEnds
  <2>2. s9 = "working" /\ Unpack!Format \in {"rar", "disc"} /\ AllGood
    BY <2>1 DEF UnpackInv, ToolsWork, AllGood, Unpack!Entry
  <2>3. AllGood'
    BY <1>2, <2>1, <2>2 DEF AllGood, Good
  <2>4. ToolsWork' /\ ImageHeld'
    BY <1>2, <2>1, <2>2, <2>3 DEF UnpackInv, ToolsWork, ImageHeld
  <2> QED BY <1>1, <1>2, <2>1, <2>2, <2>4, ToolMoves
<1>11. CASE Unpack!SamplerSends \/ Unpack!SamplerLoops
  <2>1. UNCHANGED <<s1, s2, s3, s7, s8, s9, s10, s11, s12, s13, s16, s17>>
    BY <1>11 DEF Unpack!SamplerSends, Unpack!SamplerLoops
  <2>2. UnpackTypes' /\ MarkHolds'
    BY <1>2, <2>1 DEF UnpackInv, UnpackTypes, MarkHolds, Good, StreamedZip
  <2>3. AllGood' = AllGood /\ Lies' = Lies /\ StreamedZip' = StreamedZip
    BY <1>2, <2>1 DEF AllGood, Good, Lies, StreamedZip
  <2>4. ReadSoFar'
    BY <2>1, <2>3 DEF UnpackInv, ReadSoFar, Good, Startable
  <2>5. ToolsWork' /\ ImageHeld'
    BY <1>2, <2>1, <2>3 DEF UnpackInv, ToolsWork, ImageHeld, Good
  <2> QED BY <2>1, <2>2, <2>4, <2>5 DEF UnpackInv
<1>12. CASE Unpack!JoinSampler
  <2>1. /\ UNCHANGED <<s3, s7, s8, s10, s11, s12, s13, s16, s17>> /\ s9 = "working"
        /\ s9' = "joining" /\ s13 \in {"ok", "failed"}
    BY <1>12 DEF Unpack!JoinSampler
  <2>2. AllGood' = AllGood /\ Lies' = Lies
    BY <1>2, <2>1 DEF AllGood, Good, Lies
  <2>3. ToolsWork' /\ ImageHeld'
    BY <1>2, <1>3, <2>1, <2>2 DEF UnpackInv, ToolsWork, ImageHeld
  <2> QED BY <1>1, <1>2, <1>3, <2>1, <2>3, ToolMoves
(* It is over, and so is the image's use.                                  *)
<1>13. ASSUME Unpack!Dismounted
       PROVE  /\ s16' \in BOOLEAN /\ s17' = "no" /\ Unpack!ImageAsFound
              /\ s9' \in {"choosing", "failed", "writable", "done"} => ImageHeld'
  <2>1. /\ s17' = "no"
        /\ \/ s16' = (s16 /\ s17 # "ours")
           \/ s17 = "ours" /\ s18' = s18 + 1 /\ s16' = s16
    BY <1>13 DEF Unpack!Dismounted, Unpack!Stop
  <2>2. s17 = "ours" => s16
    BY DEF UnpackInv, ImageHeld
  <2>3. CASE s17 = "ours"
    BY <1>1, <2>1, <2>2, <2>3 DEF ImageHeld
  <2>4. CASE s17 # "ours"
    <3>1. s16' = s16
      BY <1>1, <2>1, <2>4
    <3> QED BY <1>1, <2>1, <2>4, <3>1 DEF ImageHeld
  <2> QED BY <2>3, <2>4
<1>14. CASE Unpack!WorkSucceeded
  <2>1. /\ UNCHANGED <<s3, s7, s8, s10, s11, s12>> /\ s13 = "ok" /\ s13' = "none"
        /\ s9' \in {"writable", "done"} /\ Unpack!Dismounted
    BY <1>14 DEF Unpack!WorkSucceeded
  <2>2. AllGood \/ Lies
    BY <2>1 DEF UnpackInv, ToolsWork
  <2>3. (AllGood \/ Lies)'
    BY <1>2, <2>1, <2>2 DEF AllGood, Good, Lies
  <2>4. ToolsWork'
    BY <1>2, <1>3, <2>1, <2>3 DEF ToolsWork
  <2> QED BY <1>1, <1>2, <1>3, <1>13, <2>1, <2>3, <2>4, ToolMoves
<1>15. CASE Unpack!WorkFailed
  <2>1. /\ UNCHANGED <<s3, s7, s8, s10, s11>> /\ s13 = "failed" /\ s13' = "none"
        /\ s9' \in {"choosing", "failed"} /\ Unpack!Dismounted
    BY <1>15 DEF Unpack!WorkFailed
  <2>2. ToolsWork'
    BY <1>2, <1>3, <2>1 DEF ToolsWork
  <2> QED BY <1>1, <1>2, <1>3, <1>13, <2>1, <2>2, ToolMoves
<1>16. CASE Unpack!MakeWritable
  <2>1. /\ UNCHANGED <<s3, s7, s8, s10, s11, s12, s13, s16, s17>> /\ s9 = "writable"
        /\ s9' = "done"
    BY <1>16 DEF Unpack!MakeWritable
  <2>2. (AllGood \/ Lies) /\ Unpack!Format \in {"rar", "disc"}
    BY <2>1 DEF UnpackInv, ToolsWork
  <2>3. (AllGood \/ Lies)'
    BY <1>2, <2>1, <2>2 DEF AllGood, Good, Lies
  <2>4. ToolsWork' /\ ImageHeld'
    BY <2>1, <2>3, ReaderAlone DEF ToolsWork, ImageHeld
  <2> QED BY <1>1, <1>2, <2>1, <2>2, <2>3, <2>4, ToolMoves
<1> QED
  BY <1>4, <1>5, <1>6, <1>7, <1>8, <1>9, <1>10, <1>11, <1>12, <1>14, <1>15, <1>16

LEMMA UnpackStays ==
    ASSUME UnpackInv, Unpack!Next
    PROVE  UnpackInv' /\ Unpack!ImageAsFound
<1>1. s17 \in {"no", "ours", "theirs"} /\ s16 \in BOOLEAN
  BY DEF UnpackInv, UnpackTypes
<1>2. UNCHANGED <<s16, s17>> => Unpack!ImageAsFound
  BY <1>1 DEF Unpack!ImageAsFound
<1> QED BY <1>2, ReaderKeeps, ReaderTurns, ToolKeeps DEF Unpack!Next

(* Whatever was stopped, cut off or tried before, an unpack that ends well *)
(* has written whole every entry but what its reader passes over, a tar's  *)
(* links and what bsdtar left, and made every program executable.          *)
THEOREM UnpackedIsWholeHolds == Spec => []UnpackedIsWhole
<1> DEFINE Inv == part = "unpacking" => UnpackInv
<1>1. Init => Inv
  BY UnpackInit DEF Init
<1>2. Inv /\ [Next]_vars => Inv'
  <2> SUFFICES ASSUME Inv, [Next]_vars, part = "unpacking"
               PROVE  UnpackInv'
    BY PartStays
  <2>1. CASE Next
    BY <2>1, OnlyItsSteps, UnpackStays
  <2>2. CASE UNCHANGED vars
    <3>1. UNCHANGED <<s1, s2, s3, s7, s8, s9, s10, s11, s12, s13, s16, s17>>
      BY <2>2 DEF vars
    <3> QED BY <3>1 DEF UnpackInv, UnpackTypes, MarkHolds, ReadSoFar, ToolsWork, ImageHeld,
                        Good, AllGood, Startable, Lies, StreamedZip, Unpack!Format
  <2> QED BY <2>1, <2>2
<1>3. Inv => UnpackedIsWhole
  BY DEF UnpackInv, ReadSoFar, AllGood, Good, Lies, Startable, UnpackedIsWhole,
     Unpack!UnpackedIsWhole, Unpack!ModesRestored
<1> QED BY <1>1, <1>2, <1>3, PTL DEF Spec
-----------------------------------------------------------------------------
(* What a command must not lose it does not: the download before all its   *)
(* setups are in, the output of a program that ended, the time a game's    *)
(* group ran, the busy state of a newer command, and the disc image the    *)
(* user attached; nor does a setup run after the game's own failed or one  *)
(* was stopped.                                                            *)
THEOREM NothingLostHolds == Spec => NothingLost
<1> DEFINE Inv == /\ part = "claims" => ClaimsInv
                  /\ part = "session" => SessionInv
                  /\ part = "setup" => SetupInv
                  /\ part = "unpacking" => UnpackInv
                  /\ part = "subprocess" => ProcessInv
<1>1. Init => Inv
  <2> SUFFICES ASSUME Init
               PROVE  Inv
    OBVIOUS
  <2>1. part = "claims" => ClaimsInv
    BY ClaimsInit DEF Init
  <2>2. part = "session" => SessionInv
    BY SessionInit DEF Init
  <2>3. part = "setup" => SetupInv
    BY SetupInit DEF Init
  <2>4. part = "unpacking" => UnpackInv
    BY UnpackInit DEF Init
  <2>5. part = "subprocess" => ProcessInv
    BY DEF Init, Process!Init, ProcessInv
  <2> QED BY <2>1, <2>2, <2>3, <2>4, <2>5
<1>2. ASSUME Inv, Next
      PROVE  /\ part = "setup" => SetupInv' /\ Setup!DownloadKept /\ Setup!NothingAfter
             /\ part = "subprocess" => ProcessInv' /\ Process!OutputKept
             /\ part = "session" => SessionInv' /\ Session!PlaytimeCounts
             /\ part = "claims" => ClaimsInv' /\ Claims!NewerKept
             /\ part = "unpacking" => UnpackInv' /\ Unpack!ImageAsFound
  <2>1. part = "setup" => SetupInv' /\ Setup!DownloadKept /\ Setup!NothingAfter
    BY <1>2, OnlyItsSteps, SetupStays, DownloadIsKept
  <2>2. part = "subprocess" => ProcessInv' /\ Process!OutputKept
    BY <1>2, OnlyItsSteps, ProcessStays
  <2>3. part = "session" => SessionInv' /\ Session!PlaytimeCounts
    BY <1>2, OnlyItsSteps, SessionStays
  <2>4. part = "claims" => ClaimsInv' /\ Claims!NewerKept
    BY <1>2, OnlyItsSteps, ClaimsStays
  <2>5. part = "unpacking" => UnpackInv' /\ Unpack!ImageAsFound
    BY <1>2, OnlyItsSteps, UnpackStays
  <2> QED BY <2>1, <2>2, <2>3, <2>4, <2>5
<1>3. Inv /\ [Next]_vars => Inv'
  <2> SUFFICES ASSUME Inv, [Next]_vars
               PROVE  Inv'
    OBVIOUS
  <2>1. CASE Next
    BY <1>2, <2>1, PartStays
  <2>2. CASE UNCHANGED vars
    <3>1. UNCHANGED <<part, s1, s2, s3, s4, s5, s6, s7, s8, s9, s10, s11, s12, s13, s14, s15,
                      s16, s17>>
      BY <2>2 DEF vars
    <3>2. ClaimsInv' = ClaimsInv /\ ProcessInv' = ProcessInv
      BY <3>1 DEF ClaimsInv, ClaimsTypes, OwnClaims, WorkHolds, ProcessInv
    <3>3. SessionInv' = SessionInv
      BY <3>1 DEF SessionInv, SessionTypes, OnlyElevated, GroupOver, Session!GroupRuns,
         Session!Grouped
    <3>4. SetupInv' = SetupInv
      BY <3>1 DEF SetupInv, SetupTypes, StepsSettled, NothingFailed
    <3>5. UnpackInv' = UnpackInv
      BY <3>1 DEF UnpackInv, UnpackTypes, MarkHolds, ReadSoFar, ToolsWork, ImageHeld,
         Good, AllGood, Startable, Lies, StreamedZip, Unpack!Format
    <3> QED BY <3>1, <3>2, <3>3, <3>4, <3>5
  <2> QED BY <2>1, <2>2
<1>4. Inv /\ [Next]_vars => [part = "setup" => Setup!DownloadKept /\ Setup!NothingAfter]_vars
  BY <1>2
<1>5. Inv /\ [Next]_vars => [part = "subprocess" => Process!OutputKept]_vars
  BY <1>2
<1>6. Inv /\ [Next]_vars => [part = "session" => Session!PlaytimeCounts]_vars
  BY <1>2
<1>7. Inv /\ [Next]_vars => [part = "claims" => Claims!NewerKept]_vars
  BY <1>2
<1>8. Inv /\ [Next]_vars => [part = "unpacking" => Unpack!ImageAsFound]_vars
  BY <1>2
<1> HIDE DEF Inv
<1> QED BY <1>1, <1>3, <1>4, <1>5, <1>6, <1>7, <1>8, PTL DEF Spec, NothingLost
-----------------------------------------------------------------------------
(* The prefix of a Windows game, on screens of one scale.                  *)

ByWine(g) == s12[g].runtime = GameyfinWine
WineMarked(g) == s15[g] # Absent /\ s15[g].runtime = GameyfinWine

IsLaunch(r) == r = [at |-> r.at, is32 |-> r.is32, runtime |-> r.runtime,
                    wanted |-> r.wanted, asked |-> r.asked]

PrefixDisk ==
    /\ s5 \subseteq Prefix!Component
    /\ s5 # {} => s1.dxvk
    /\ s14 \in [PrefixGame -> [own : BOOLEAN, pfx : BOOLEAN, dlls : SUBSET Prefix!Component]]
    /\ s15 = [g \in PrefixGame |-> s15[g]]

PrefixTypes ==
    /\ s9 = 0
    /\ s12 = [g \in PrefixGame |-> s12[g]]
    /\ \A g \in PrefixGame : IsLaunch(s12[g])
    /\ PrefixDisk

(* A prefix with a marker has a drive.  What a marker of Wine's names is   *)
(* on disk, and in the system folder too unless it is out of date.         *)
Marked(g) ==
    /\ s15[g] # Absent => Prefix!RootHasDrive(g)
    /\ s14[g].dlls \subseteq s5
    /\ WineMarked(g) => s15[g] \in Prefix!PrefixState /\ s15[g].components \subseteq s5
    /\ WineMarked(g) /\ ~s14[g].pfx =>
          s14[g].dlls = s15[g].components \/ s15[g].components # s5

(* The same against what a launch wants, which may be fewer than there are *)
(* by the time it comes to prepare the prefix.                             *)
Wanting(g) ==
    /\ s12[g].wanted.components \subseteq s5
    /\ s14[g].dlls \subseteq s12[g].wanted.components
    /\ WineMarked(g) => s15[g].components \subseteq s12[g].wanted.components
    /\ WineMarked(g) /\ ~s14[g].pfx =>
          s14[g].dlls = s15[g].components \/ s15[g].components # s12[g].wanted.components

Chose == {"graphics", "components", "prepare", "copy", "run"}

InFlight(g) ==
    /\ s12[g].at = "components" => s1.dxvk
    /\ s12[g].at \in {"graphics", "components", "copy"} => ByWine(g)
    /\ s12[g].at \in Chose => s12[g].wanted.runtime = s12[g].runtime
    /\ s12[g].at \in Chose /\ ByWine(g) => s12[g].wanted \in Prefix!PrefixState
    /\ s12[g].at \in {"graphics", "components"} => s12[g].wanted.components = {}
    /\ s12[g].at \in {"prepare", "copy"} /\ ByWine(g) => Wanting(g)
    /\ s12[g].at = "copy" => s15[g] # s12[g].wanted
    /\ s12[g].at = "run" /\ ByWine(g) /\ ~s14[g].pfx /\ s15[g] = s12[g].wanted =>
          s14[g].dlls = s12[g].wanted.components

PrefixInv == PrefixTypes /\ \A g \in PrefixGame : Marked(g) /\ InFlight(g)

(* A launch's step: the other games' launches stay where they are.         *)
LEMMA LaunchMoves ==
    ASSUME PrefixInv, NEW g \in PrefixGame, NEW r,
           s12' = [s12 EXCEPT ![g] = r], IsLaunch(r), s12'[g] = r => InFlight(g)',
           s1' = s1, s9' = s9, s5 \subseteq s5', PrefixDisk',
           \A h \in PrefixGame : h # g => s14'[h] = s14[h] /\ s15'[h] = s15[h],
           Marked(g)'
    PROVE  PrefixInv'
<1>1. s12'[g] = r
  BY DEF PrefixInv, PrefixTypes
<1>2. \A h \in PrefixGame : h # g => s12'[h] = s12[h]
  BY DEF PrefixInv, PrefixTypes
<1>3. \A h \in PrefixGame : IsLaunch(s12'[h])
  <2>1. \A h \in PrefixGame : IsLaunch(s12[h])
    BY DEF PrefixInv, PrefixTypes
  <2> QED BY <1>1, <1>2, <2>1
<1>4. PrefixTypes'
  BY <1>3 DEF PrefixInv, PrefixTypes
<1>5. ASSUME NEW h \in PrefixGame, h # g
      PROVE  Marked(h)' /\ InFlight(h)'
  <2>1. s12'[h] = s12[h] /\ s14'[h] = s14[h] /\ s15'[h] = s15[h]
    BY <1>2, <1>5
  <2>2. Marked(h) /\ InFlight(h)
    BY DEF PrefixInv
  <2>3. Marked(h)'
    BY <2>1, <2>2 DEF Marked, WineMarked, Prefix!RootHasDrive
  <2>4. InFlight(h)'
    BY <2>1, <2>2 DEF InFlight, Chose, ByWine, Wanting, WineMarked
  <2> QED BY <2>3, <2>4
<1>6. InFlight(g)'
  BY <1>1
<1> QED BY <1>4, <1>5, <1>6 DEF PrefixInv

(* A step that leaves the disk as it is.                                   *)
LEMMA DiskStays ==
    ASSUME PrefixInv, NEW g \in PrefixGame, UNCHANGED <<s1, s5, s14, s15>>
    PROVE  Marked(g)' /\ PrefixDisk'
  BY DEF PrefixInv, PrefixTypes, PrefixDisk, Marked, WineMarked, Prefix!RootHasDrive

LEMMA LaunchEnds ==
    ASSUME PrefixInv, NEW g \in PrefixGame, Prefix!Ends(g), UNCHANGED <<s1, s5, s9, s14, s15>>
    PROVE  PrefixInv'
<1>1. s12' = [s12 EXCEPT ![g] = Prefix!Idle]
  BY DEF Prefix!Ends
<1>2. IsLaunch(Prefix!Idle)
  BY DEF Prefix!Idle, IsLaunch
<1>3. s12'[g] = Prefix!Idle => InFlight(g)'
  BY DEF InFlight, Chose, Prefix!Idle
<1> QED BY <1>1, <1>2, <1>3, DiskStays, LaunchMoves

(* Only the step changes.                                                  *)
LEMMA GoesOn ==
    ASSUME PrefixInv, NEW g \in PrefixGame, NEW step, NEW r,
           r = [s12[g] EXCEPT !.at = step]
    PROVE  IsLaunch(r) /\ r.at = step /\ r.runtime = s12[g].runtime /\ r.wanted = s12[g].wanted
<1>1. IsLaunch(s12[g])
  BY DEF PrefixInv, PrefixTypes
<1> QED BY <1>1 DEF IsLaunch

LEMMA ReadiesStay ==
    ASSUME PrefixInv, NEW g \in PrefixGame,
           \/ Prefix!Launch(g) \/ Prefix!CheckRuntime(g) \/ Prefix!FetchRuntime(g)
           \/ Prefix!ChooseRuntime(g) \/ Prefix!GameEnds(g)
    PROVE  PrefixInv'
<1> USE MCProgressAssumption DEF MCProgressAssumption, Prefix!shared, Prefix!bounds,
    Prefix!perGame
<1>1. IsLaunch(s12[g])
  BY DEF PrefixInv, PrefixTypes
<1>2. CASE Prefix!Launch(g)
  <2>1. UNCHANGED <<s1, s5, s9, s14, s15>>
    BY <1>2 DEF Prefix!Launch
  <2>2. PICK b \in BOOLEAN : s12' = [s12 EXCEPT ![g].at = "ensure", ![g].is32 = b]
    BY <1>2 DEF Prefix!Launch
  <2>3. PICK r : s12' = [s12 EXCEPT ![g] = r] /\ r = [s12[g] EXCEPT !.at = "ensure", !.is32 = b]
    BY <2>2
  <2>4. IsLaunch(r) /\ r.at = "ensure"
    BY <1>1, <2>3 DEF IsLaunch
  <2>5. s12'[g] = r => InFlight(g)'
    BY <2>4 DEF InFlight, Chose
  <2> QED BY <2>1, <2>3, <2>4, <2>5, DiskStays, LaunchMoves
<1>3. CASE Prefix!CheckRuntime(g) \/ Prefix!FetchRuntime(g)
  <2>1. UNCHANGED <<s1, s5, s9, s14, s15>>
    BY <1>3 DEF Prefix!CheckRuntime, Prefix!FetchRuntime
  <2>2. PICK step \in {"fetch", "choose"} : s12' = [s12 EXCEPT ![g].at = step]
    BY <1>3 DEF Prefix!CheckRuntime, Prefix!FetchRuntime, Prefix!Goto
  <2>3. PICK r : s12' = [s12 EXCEPT ![g] = r] /\ r = [s12[g] EXCEPT !.at = step]
    BY <2>2
  <2>4. IsLaunch(r) /\ r.at = step
    BY <2>3, GoesOn
  <2>5. s12'[g] = r => InFlight(g)'
    BY <2>2, <2>4 DEF InFlight, Chose
  <2> QED BY <2>1, <2>3, <2>4, <2>5, DiskStays, LaunchMoves
<1>4. CASE Prefix!ChooseRuntime(g)
  <2> DEFINE found == Prefix!DetectRuntime(g)
             Bare == [dpi |-> 0, runtime |-> found, components |-> {}]
             Full == [dpi |-> 0, runtime |-> found, components |-> s5]
  <2>1. UNCHANGED <<s1, s5, s9, s14, s15>> /\ s9 = 0
    BY <1>4 DEF Prefix!ChooseRuntime, PrefixInv, PrefixTypes
  <2>2. \/ Prefix!Ends(g)
        \/ found = GameyfinWine /\ Prefix!Chosen(g, found, Bare, "graphics")
        \/ found = GameyfinWine /\ Prefix!Chosen(g, found, Full, "prepare")
        \/ found # GameyfinWine /\ Prefix!Chosen(g, found, Bare, "prepare")
    <3>1. [[dpi |-> s9, runtime |-> found, components |-> {}] EXCEPT !.components = s5] = Full
      BY <2>1
    <3>2. [dpi |-> s9, runtime |-> found, components |-> {}] = Bare
      BY <2>1
    <3> HIDE DEF Bare, Full
    <3> QED BY <1>4, <3>1, <3>2 DEF Prefix!ChooseRuntime
  <2>3. ASSUME NEW next, NEW state, Prefix!Chosen(g, found, state, next)
        PROVE  \E r : /\ s12' = [s12 EXCEPT ![g] = r] /\ IsLaunch(r)
                      /\ r.at = next /\ r.runtime = found /\ r.wanted = state
    <3>1. PICK r : /\ s12' = [s12 EXCEPT ![g] = r]
                   /\ r = [s12[g] EXCEPT !.runtime = found, !.wanted = state, !.at = next]
      BY <2>3 DEF Prefix!Chosen
    <3>2. IsLaunch(r) /\ r.at = next /\ r.runtime = found /\ r.wanted = state
      BY <1>1, <3>1 DEF IsLaunch
    <3> QED BY <3>1, <3>2
  <2> HIDE DEF found
  <2>4. CASE Prefix!Ends(g)
    BY <2>1, <2>4, LaunchEnds
  <2>5. CASE found = GameyfinWine /\ Prefix!Chosen(g, found, Bare, "graphics")
    <3>1. PICK r : /\ s12' = [s12 EXCEPT ![g] = r] /\ IsLaunch(r)
                   /\ r.at = "graphics" /\ r.runtime = found /\ r.wanted = Bare
      BY <2>3, <2>5
    <3>2. Bare \in Prefix!PrefixState /\ Bare.components = {} /\ Bare.runtime = found
      BY <2>5 DEF Prefix!PrefixState, Prefix!PrefixAssumption
    <3> HIDE DEF Bare
    <3>3. s12'[g] = r => InFlight(g)'
      BY <2>5, <3>1, <3>2 DEF InFlight, Chose, ByWine
    <3> QED BY <2>1, <3>1, <3>3, DiskStays, LaunchMoves
  <2>6. CASE found = GameyfinWine /\ Prefix!Chosen(g, found, Full, "prepare")
    <3>1. PICK r : /\ s12' = [s12 EXCEPT ![g] = r] /\ IsLaunch(r)
                   /\ r.at = "prepare" /\ r.runtime = found /\ r.wanted = Full
      BY <2>3, <2>6
    <3>2. Full \in Prefix!PrefixState /\ Full.components = s5 /\ Full.runtime = found
      BY <2>6 DEF Prefix!PrefixState, Prefix!PrefixAssumption, PrefixInv, PrefixTypes, PrefixDisk
    <3> HIDE DEF Full
    <3>3. ASSUME s12'[g] = r
          PROVE  InFlight(g)'
      <4>1. Wanting(g)'
        BY <2>1, <3>1, <3>2, <3>3 DEF Wanting, WineMarked, PrefixInv, Marked
      <4> QED BY <3>1, <3>2, <3>3, <4>1 DEF InFlight, Chose, ByWine
    <3> QED BY <2>1, <3>1, <3>3, DiskStays, LaunchMoves
  <2>7. CASE found # GameyfinWine /\ Prefix!Chosen(g, found, Bare, "prepare")
    <3>1. PICK r : /\ s12' = [s12 EXCEPT ![g] = r] /\ IsLaunch(r)
                   /\ r.at = "prepare" /\ r.runtime = found /\ r.wanted = Bare
      BY <2>3, <2>7
    <3>2. Bare.runtime = found
      OBVIOUS
    <3> HIDE DEF Bare
    <3>3. s12'[g] = r => InFlight(g)'
      BY <2>7, <3>1, <3>2 DEF InFlight, Chose, ByWine
    <3> QED BY <2>1, <3>1, <3>3, DiskStays, LaunchMoves
  <2> QED BY <2>2, <2>4, <2>5, <2>6, <2>7
<1>5. CASE Prefix!GameEnds(g)
  BY <1>5, LaunchEnds DEF Prefix!GameEnds
<1> QED BY <1>2, <1>3, <1>4, <1>5

(* What a launch wants becomes what is on disk of the components.          *)
LEMMA ComponentsStay ==
    ASSUME PrefixInv, NEW g \in PrefixGame,
           Prefix!CheckComponents(g) \/ Prefix!FetchComponents(g)
    PROVE  PrefixInv'
<1> USE DEF Prefix!shared, Prefix!bounds
<1>1. /\ IsLaunch(s12[g]) /\ Marked(g) /\ InFlight(g)
      /\ s12[g].at \in {"graphics", "components"}
  BY DEF PrefixInv, PrefixTypes, Prefix!CheckComponents, Prefix!FetchComponents, Prefix!At
<1>2. /\ ByWine(g) /\ s12[g].wanted \in Prefix!PrefixState /\ s12[g].wanted.components = {}
      /\ s12[g].wanted.runtime = s12[g].runtime
  BY <1>1 DEF InFlight, Chose
<1>3. ASSUME Prefix!Resolved(g, s5'), s5 \subseteq s5', PrefixDisk',
             UNCHANGED <<s1, s9, s14, s15>>
      PROVE  PrefixInv'
  <2>1. PICK r : /\ s12' = [s12 EXCEPT ![g] = r]
                 /\ r = [s12[g] EXCEPT !.at = "prepare", !.wanted.components = s5']
    BY <1>3 DEF Prefix!Resolved
  <2>2. /\ IsLaunch(r) /\ r.at = "prepare" /\ r.runtime = s12[g].runtime
        /\ r.wanted = [s12[g].wanted EXCEPT !.components = s5']
    BY <1>1, <2>1 DEF IsLaunch
  <2>3. /\ r.wanted \in Prefix!PrefixState /\ r.wanted.components = s5'
        /\ r.wanted.runtime = s12[g].runtime
    BY <1>2, <1>3, <2>2 DEF Prefix!PrefixState, PrefixDisk
  <2>4. Marked(g)'
    BY <1>1, <1>3 DEF Marked, WineMarked, Prefix!RootHasDrive
  <2>5. ASSUME s12'[g] = r
        PROVE  InFlight(g)'
    <3>1. Wanting(g)'
      BY <1>3, <2>3, <2>4, <2>5 DEF Wanting, WineMarked, Marked
    <3> QED BY <2>2, <2>3, <2>5, <3>1 DEF InFlight, Chose, ByWine
  <2> QED BY <1>3, <2>1, <2>2, <2>4, <2>5, LaunchMoves
<1>4. CASE Prefix!CheckComponents(g)
  <2>1. UNCHANGED <<s1, s5, s9, s14, s15>> /\ s12[g].at = "graphics"
    BY <1>4 DEF Prefix!CheckComponents, Prefix!At
  <2>2. \/ ~s1.dxvk /\ Prefix!Goto(g, "prepare")
        \/ s1.dxvk /\ Prefix!Resolved(g, s5)
        \/ s1.dxvk /\ s12' = [s12 EXCEPT ![g].at = "components", ![g].asked = TRUE]
    BY <1>4 DEF Prefix!CheckComponents
  <2>3. CASE ~s1.dxvk /\ Prefix!Goto(g, "prepare")
    <3>1. PICK r : s12' = [s12 EXCEPT ![g] = r] /\ r = [s12[g] EXCEPT !.at = "prepare"]
      BY <2>3 DEF Prefix!Goto
    <3>2. IsLaunch(r) /\ r.at = "prepare" /\ r.runtime = s12[g].runtime
          /\ r.wanted = s12[g].wanted
      BY <3>1, GoesOn
    <3>3. s5 = {}
      BY <2>3 DEF PrefixInv, PrefixTypes, PrefixDisk
    <3>4. ASSUME s12'[g] = r
          PROVE  InFlight(g)'
      <4>1. Wanting(g)'
        BY <1>1, <1>2, <2>1, <3>2, <3>3, <3>4 DEF Wanting, WineMarked, Marked
      <4> QED BY <1>2, <3>2, <3>4, <4>1 DEF InFlight, Chose, ByWine
    <3> QED BY <2>1, <3>1, <3>2, <3>4, DiskStays, LaunchMoves
  <2>4. CASE s1.dxvk /\ Prefix!Resolved(g, s5)
    BY <1>3, <2>1, <2>4, DiskStays
  <2>5. CASE s1.dxvk /\ s12' = [s12 EXCEPT ![g].at = "components", ![g].asked = TRUE]
    <3>1. PICK r : /\ s12' = [s12 EXCEPT ![g] = r]
                   /\ r = [s12[g] EXCEPT !.at = "components", !.asked = TRUE]
      BY <2>5
    <3>2. /\ IsLaunch(r) /\ r.at = "components"
          /\ r.runtime = s12[g].runtime /\ r.wanted = s12[g].wanted
      BY <1>1, <3>1 DEF IsLaunch
    <3>3. s12'[g] = r => InFlight(g)'
      BY <1>2, <2>1, <2>5, <3>2 DEF InFlight, Chose, ByWine
    <3> QED BY <2>1, <3>1, <3>2, <3>3, DiskStays, LaunchMoves
  <2> QED BY <2>2, <2>3, <2>4, <2>5
<1>5. CASE Prefix!FetchComponents(g)
  <2>1. UNCHANGED <<s1, s9, s14, s15>> /\ s12[g].at = "components" /\ Prefix!Resolved(g, s5')
    BY <1>5 DEF Prefix!FetchComponents, Prefix!At
  <2>2. PICK got \in SUBSET Prefix!MissingComponents : s5' = s5 \cup got
    BY <1>5 DEF Prefix!FetchComponents
  <2>3. got \subseteq Prefix!Component
    BY <2>2 DEF Prefix!MissingComponents
  <2>4. s5 \subseteq s5' /\ PrefixDisk'
    BY <1>1, <2>1, <2>2, <2>3 DEF PrefixInv, PrefixTypes, PrefixDisk, InFlight
  <2> QED BY <1>3, <2>1, <2>4
<1> QED BY <1>4, <1>5

(* The prefix is made, the components go in, the marker is written.        *)
LEMMA PreparingStays ==
    ASSUME MaxRescale = 0, PrefixInv, NEW g \in PrefixGame,
           \/ Prefix!AlreadyPrepared(g) \/ Prefix!BootWine(g) \/ Prefix!CopyComponents(g)
           \/ Prefix!PrepareUmu(g)
    PROVE  PrefixInv'
<1> USE MCProgressAssumption DEF MCProgressAssumption, Prefix!PrefixAssumption,
    Prefix!shared, Prefix!bounds
<1>1. /\ Marked(g) /\ InFlight(g) /\ UNCHANGED <<s1, s5, s9>>
      /\ s12[g].at \in {"prepare", "copy"} /\ s12[g].wanted.runtime = s12[g].runtime
      /\ s14[g] \in [own : BOOLEAN, pfx : BOOLEAN, dlls : SUBSET Prefix!Component]
  BY DEF PrefixInv, PrefixTypes, PrefixDisk, InFlight, Chose, Prefix!AlreadyPrepared,
     Prefix!BootWine, Prefix!CopyComponents, Prefix!PrepareUmu, Prefix!At
<1>2. ByWine(g) => /\ Wanting(g) /\ s12[g].wanted \in Prefix!PrefixState
                   /\ s12[g].wanted # Absent
  BY <1>1 DEF InFlight, Chose
(* Two markers of Wine's differ in the components only.                    *)
<1>3. ASSUME ByWine(g), WineMarked(g), s15[g] # s12[g].wanted
      PROVE  s15[g].components # s12[g].wanted.components
  <2>1. s15[g] \in Prefix!PrefixState /\ s12[g].wanted \in Prefix!PrefixState
    BY <1>1, <1>2, <1>3 DEF Marked
  <2>2. s15[g].runtime = s12[g].wanted.runtime
    BY <1>1, <1>3 DEF WineMarked, ByWine
  <2> QED BY <1>3, <2>1, <2>2 DEF Prefix!PrefixState
<1>4. CASE Prefix!AlreadyPrepared(g)
  <2>1. /\ UNCHANGED <<s14, s15>> /\ s15[g] = s12[g].wanted /\ s12[g].at = "prepare"
    BY <1>4 DEF Prefix!AlreadyPrepared, Prefix!IsPrepared, Prefix!At
  <2>2. PICK r : s12' = [s12 EXCEPT ![g] = r] /\ r = [s12[g] EXCEPT !.at = "run"]
    BY <1>4 DEF Prefix!AlreadyPrepared, Prefix!Goto
  <2>3. IsLaunch(r) /\ r.at = "run" /\ r.runtime = s12[g].runtime /\ r.wanted = s12[g].wanted
    BY <2>2, GoesOn
  <2>4. ByWine(g) /\ ~s14[g].pfx => s14[g].dlls = s12[g].wanted.components
    BY <1>1, <1>2, <2>1 DEF Wanting, WineMarked, ByWine
  <2>5. s12'[g] = r => InFlight(g)'
    BY <1>1, <1>2, <2>1, <2>3, <2>4 DEF InFlight, Chose, ByWine
  <2> QED BY <1>1, <2>1, <2>2, <2>3, <2>5, DiskStays, LaunchMoves
<1>5. CASE Prefix!BootWine(g)
  <2>1. /\ UNCHANGED s15 /\ ByWine(g) /\ s15[g] # s12[g].wanted /\ s12[g].at = "prepare"
        /\ \/ Prefix!Ends(g) /\ UNCHANGED s14
           \/ Prefix!Goto(g, "copy") /\ s14' = [s14 EXCEPT ![g].own = TRUE, ![g].dlls = {}]
           \/ Prefix!Goto(g, "copy") /\ UNCHANGED s14
    BY <1>1, <1>2, <1>5 DEF Prefix!BootWine, Prefix!IsPrepared, Prefix!At, ByWine, Marked
  <2>2. CASE Prefix!Ends(g) /\ UNCHANGED s14
    BY <1>1, <2>1, <2>2, LaunchEnds
  <2>3. ASSUME Prefix!Goto(g, "copy"), PrefixDisk', Marked(g)',
               \A h \in PrefixGame : h # g => s14'[h] = s14[h],
               s14'[g].dlls \subseteq s14[g].dlls
        PROVE  PrefixInv'
    <3>1. PICK r : s12' = [s12 EXCEPT ![g] = r] /\ r = [s12[g] EXCEPT !.at = "copy"]
      BY <2>3 DEF Prefix!Goto
    <3>2. IsLaunch(r) /\ r.at = "copy" /\ r.runtime = s12[g].runtime /\ r.wanted = s12[g].wanted
      BY <3>1, GoesOn
    <3>3. ASSUME s12'[g] = r
          PROVE  InFlight(g)'
      <4>1. Wanting(g)'
        BY <1>1, <1>2, <1>3, <2>1, <2>3, <3>2, <3>3 DEF Wanting, WineMarked
      <4> QED BY <1>1, <1>2, <2>1, <3>2, <3>3, <4>1 DEF InFlight, Chose, ByWine
    <3> QED BY <1>1, <2>1, <2>3, <3>1, <3>2, <3>3, LaunchMoves
  <2>4. CASE Prefix!Goto(g, "copy") /\ UNCHANGED s14
    BY <1>1, <2>1, <2>3, <2>4, DiskStays
  <2>5. CASE /\ Prefix!Goto(g, "copy")
             /\ s14' = [s14 EXCEPT ![g].own = TRUE, ![g].dlls = {}]
    <3>1. /\ s14' \in [PrefixGame -> [own : BOOLEAN, pfx : BOOLEAN,
                                     dlls : SUBSET Prefix!Component]]
          /\ s14'[g].own /\ s14'[g].dlls = {} /\ s14'[g].pfx = s14[g].pfx
          /\ \A h \in PrefixGame : h # g => s14'[h] = s14[h]
      BY <1>1, <2>5 DEF PrefixInv, PrefixTypes, PrefixDisk
    <3>2. PrefixDisk'
      BY <1>1, <2>1, <3>1 DEF PrefixInv, PrefixTypes, PrefixDisk
    <3>3. WineMarked(g) => s15[g].components # s5
      BY <1>2, <1>3, <2>1 DEF Wanting
    <3>4. Marked(g)'
      BY <1>1, <2>1, <3>1, <3>3 DEF Marked, WineMarked, Prefix!RootHasDrive
    <3> QED BY <2>3, <2>5, <3>1, <3>2, <3>4
  <2> QED BY <2>1, <2>2, <2>4, <2>5
<1>6. CASE Prefix!CopyComponents(g)
  <2>1. s12[g].at = "copy" /\ ByWine(g) /\ s15[g] # s12[g].wanted
    BY <1>1, <1>6 DEF Prefix!CopyComponents, Prefix!At, InFlight
  <2>2. CASE Prefix!Ends(g) /\ UNCHANGED <<s14, s15>>
    BY <1>1, <2>2, LaunchEnds
  <2>3. ASSUME Prefix!RootHasDrive(g), Prefix!Goto(g, "run"),
               NEW copied \in BOOLEAN, NEW some \in SUBSET s12[g].wanted.components,
               copied => some = s12[g].wanted.components,
               Prefix!InstallIntoPrefix(g, some),
               Prefix!MarkPrepared(g, Prefix!Recorded(s12[g].wanted, copied))
        PROVE  PrefixInv'
    <3> DEFINE state == Prefix!Recorded(s12[g].wanted, copied)
    <3>1. /\ state \in Prefix!PrefixState /\ state # Absent /\ state.runtime = GameyfinWine
          /\ state.components = IF copied THEN s12[g].wanted.components ELSE {}
      BY <1>1, <1>2, <2>1 DEF Prefix!Recorded, Prefix!PrefixState, ByWine
    <3>2. /\ s14' \in [PrefixGame -> [own : BOOLEAN, pfx : BOOLEAN,
                                     dlls : SUBSET Prefix!Component]]
          /\ s14'[g].own = s14[g].own /\ s14'[g].pfx = s14[g].pfx
          /\ s14'[g].dlls = IF s14[g].pfx THEN s14[g].dlls ELSE s14[g].dlls \cup some
          /\ \A h \in PrefixGame : h # g => s14'[h] = s14[h]
      <4>1. some \subseteq Prefix!Component
        BY <1>2, <2>1, <2>3 DEF Prefix!PrefixState
      <4>2. s14 \in [PrefixGame -> [own : BOOLEAN, pfx : BOOLEAN,
                                    dlls : SUBSET Prefix!Component]]
        BY DEF PrefixInv, PrefixTypes, PrefixDisk
      <4>3. CASE s14[g].pfx
        BY <2>3, <4>2, <4>3 DEF Prefix!InstallIntoPrefix
      <4>4. CASE ~s14[g].pfx
        BY <1>1, <2>3, <4>1, <4>2, <4>4 DEF Prefix!InstallIntoPrefix
      <4> QED BY <4>3, <4>4
    <3>3. /\ s15' = [h \in PrefixGame |-> s15'[h]]
          /\ \A h \in PrefixGame : h # g => s15'[h] = s15[h]
          /\ s15'[g] \in {state, s15[g]}
      BY <2>3 DEF Prefix!MarkPrepared, PrefixInv, PrefixTypes, PrefixDisk
    <3> HIDE DEF state
    <3>4. PrefixDisk'
      BY <1>1, <3>2, <3>3 DEF PrefixInv, PrefixTypes, PrefixDisk
    <3>5. Prefix!RootHasDrive(g)'
      BY <2>3, <3>2 DEF Prefix!RootHasDrive
    <3>6. s14'[g].dlls \subseteq s12[g].wanted.components
      BY <1>2, <2>1, <2>3, <3>2 DEF Wanting
    <3>7. s12[g].wanted.components \subseteq s5
      BY <1>2, <2>1 DEF Wanting
    <3>8. ASSUME Marked(g)',
                 s15'[g] = s12[g].wanted /\ ~s14'[g].pfx =>
                    s14'[g].dlls = s12[g].wanted.components
          PROVE  PrefixInv'
      <4>1. PICK r : s12' = [s12 EXCEPT ![g] = r] /\ r = [s12[g] EXCEPT !.at = "run"]
        BY <2>3 DEF Prefix!Goto
      <4>2. /\ IsLaunch(r) /\ r.at = "run" /\ r.runtime = s12[g].runtime
            /\ r.wanted = s12[g].wanted
        BY <4>1, GoesOn
      <4>3. s12'[g] = r => InFlight(g)'
        BY <1>1, <1>2, <2>1, <3>8, <4>2 DEF InFlight, Chose, ByWine
      <4> QED BY <1>1, <3>2, <3>3, <3>4, <3>8, <4>1, <4>2, <4>3, LaunchMoves
    <3>9. CASE s15'[g] = state
      <4>1. ~s14'[g].pfx => \/ s14'[g].dlls = state.components
                            \/ state.components = {} /\ s12[g].wanted.components # {}
        BY <2>3, <3>1, <3>2, <3>6
      <4>2. Marked(g)'
        BY <1>1, <3>1, <3>5, <3>6, <3>7, <3>9, <4>1 DEF Marked, WineMarked
      <4>3. s15'[g] = s12[g].wanted /\ ~s14'[g].pfx => s14'[g].dlls = s12[g].wanted.components
        <5> DEFINE pfx == s14'[g].pfx
                   dlls == s14'[g].dlls
        <5> HIDE DEF pfx, dlls
        <5>1. state = s12[g].wanted /\ ~pfx => dlls = s12[g].wanted.components
          BY <4>1 DEF pfx, dlls
        <5> QED BY <3>9, <5>1 DEF pfx, dlls
      <4> QED BY <3>8, <4>2, <4>3
    <3>10. CASE s15'[g] = s15[g]
      <4>1. WineMarked(g) => s15[g].components # s5
        BY <1>2, <1>3, <2>1, <3>7 DEF Wanting
      <4>2. Marked(g)'
        BY <1>1, <3>5, <3>6, <3>7, <3>10, <4>1 DEF Marked, WineMarked
      <4> QED BY <2>1, <3>8, <3>10, <4>2
    <3> QED BY <3>3, <3>9, <3>10
  <2> QED BY <1>6, <2>2, <2>3 DEF Prefix!CopyComponents
<1>7. CASE Prefix!PrepareUmu(g)
  <2>1. /\ s12[g].at = "prepare" /\ s12[g].runtime \in Prefix!Build /\ ~ByWine(g)
        /\ s12[g].wanted.runtime # GameyfinWine
    BY <1>1, <1>7 DEF Prefix!PrepareUmu, Prefix!At, ByWine
  <2>2. CASE Prefix!Ends(g) /\ UNCHANGED <<s14, s15>>
    BY <1>1, <2>2, LaunchEnds
  <2>3. ASSUME s14' \in {s14, [s14 EXCEPT ![g].pfx = TRUE]},
               IF s14'[g].pfx \/ s14'[g].own
               THEN Prefix!Goto(g, "run") /\ Prefix!MarkPrepared(g, s12[g].wanted)
               ELSE Prefix!Ends(g) /\ UNCHANGED s15
        PROVE  PrefixInv'
    <3>1. /\ s14' \in [PrefixGame -> [own : BOOLEAN, pfx : BOOLEAN,
                                     dlls : SUBSET Prefix!Component]]
          /\ s14'[g].dlls = s14[g].dlls
          /\ \A h \in PrefixGame : h # g => s14'[h] = s14[h]
          /\ s14[g].own => s14'[g].own
          /\ s14[g].pfx => s14'[g].pfx
      <4>1. s14 \in [PrefixGame -> [own : BOOLEAN, pfx : BOOLEAN,
                                    dlls : SUBSET Prefix!Component]]
        BY DEF PrefixInv, PrefixTypes, PrefixDisk
      <4>2. CASE s14' = s14
        BY <4>1, <4>2
      <4>3. CASE s14' = [s14 EXCEPT ![g].pfx = TRUE]
        <5>1. PICK p : s14' = [s14 EXCEPT ![g] = p] /\ p = [s14[g] EXCEPT !.pfx = TRUE]
          BY <4>3
        <5>2. /\ p \in [own : BOOLEAN, pfx : BOOLEAN, dlls : SUBSET Prefix!Component]
              /\ p.own = s14[g].own /\ p.pfx /\ p.dlls = s14[g].dlls
          BY <1>1, <5>1
        <5> QED BY <4>1, <5>1, <5>2
      <4> QED BY <2>3, <4>2, <4>3
    <3>2. /\ s15' = [h \in PrefixGame |-> s15'[h]]
          /\ \A h \in PrefixGame : h # g => s15'[h] = s15[h]
          /\ s15'[g] = s15[g] \/ (s15'[g] = s12[g].wanted /\ (s14'[g].pfx \/ s14'[g].own))
      BY <2>3 DEF Prefix!MarkPrepared, PrefixInv, PrefixTypes, PrefixDisk
    <3>3. PrefixDisk'
      BY <1>1, <3>1, <3>2 DEF PrefixInv, PrefixTypes, PrefixDisk
    <3>4. Marked(g)'
      BY <1>1, <2>1, <3>1, <3>2 DEF Marked, WineMarked, Prefix!RootHasDrive
    <3>5. PICK r : /\ s12' = [s12 EXCEPT ![g] = r]
                   /\ r = Prefix!Idle \/ r = [s12[g] EXCEPT !.at = "run"]
      BY <2>3 DEF Prefix!Goto, Prefix!Ends
    <3>6. CASE r = Prefix!Idle
      <4>1. IsLaunch(r) /\ r.at = "idle"
        BY <3>6 DEF Prefix!Idle, IsLaunch
      <4>2. s12'[g] = r => InFlight(g)'
        BY <4>1 DEF InFlight, Chose
      <4> QED BY <1>1, <3>1, <3>2, <3>3, <3>4, <3>5, <4>1, <4>2, LaunchMoves
    <3>7. CASE r = [s12[g] EXCEPT !.at = "run"]
      <4>1. /\ IsLaunch(r) /\ r.at = "run" /\ r.runtime = s12[g].runtime
            /\ r.wanted = s12[g].wanted
        BY <3>7, GoesOn
      <4>2. s12'[g] = r => InFlight(g)'
        BY <1>1, <2>1, <4>1 DEF InFlight, Chose, ByWine
      <4> QED BY <1>1, <3>1, <3>2, <3>3, <3>4, <3>5, <4>1, <4>2, LaunchMoves
    <3> QED BY <3>5, <3>6, <3>7
  <2> QED BY <1>7, <2>2, <2>3 DEF Prefix!PrepareUmu
<1> QED BY <1>4, <1>5, <1>6, <1>7

(* The settings page, the update watch and the world leave the prefixes;   *)
(* a kill ends every launch.                                               *)
LEMMA WorldStays ==
    ASSUME PrefixInv, UNCHANGED <<s1, s5, s9, s14, s15>>,
           s12' = s12 \/ s12' = [g \in PrefixGame |-> Prefix!Idle]
    PROVE  PrefixInv'
<1>1. CASE s12' = s12
  <2>1. PrefixTypes'
    BY <1>1 DEF PrefixInv, PrefixTypes, PrefixDisk, IsLaunch
  <2>2. ASSUME NEW g \in PrefixGame
        PROVE  Marked(g)' /\ InFlight(g)'
    BY <1>1, DiskStays DEF PrefixInv, InFlight, Chose, ByWine, Wanting, WineMarked
  <2> QED BY <2>1, <2>2 DEF PrefixInv
<1>2. CASE s12' = [g \in PrefixGame |-> Prefix!Idle]
  <2>1. \A g \in PrefixGame : s12'[g] = Prefix!Idle
    BY <1>2
  <2>2. PrefixTypes'
    <3>1. IsLaunch(Prefix!Idle)
      BY DEF IsLaunch, Prefix!Idle
    <3>2. \A g \in PrefixGame : IsLaunch(s12'[g])
      BY <2>1, <3>1
    <3>3. s12' = [g \in PrefixGame |-> s12'[g]]
      BY <1>2
    <3> QED BY <3>2, <3>3 DEF PrefixInv, PrefixTypes, PrefixDisk
  <2>3. ASSUME NEW g \in PrefixGame
        PROVE  Marked(g)' /\ InFlight(g)'
    BY <2>1, DiskStays DEF InFlight, Chose, Prefix!Idle
  <2> QED BY <2>2, <2>3 DEF PrefixInv
<1> QED BY <1>1, <1>2

LEMMA PrefixInit == Prefix!Init => PrefixInv
<1> SUFFICES ASSUME Prefix!Init
             PROVE  PrefixInv
  OBVIOUS
<1>1. /\ s9 = 0 /\ s5 = {} /\ s12 = [g \in PrefixGame |-> Prefix!Idle]
      /\ s14 = [g \in PrefixGame |-> [own |-> FALSE, pfx |-> FALSE, dlls |-> {}]]
      /\ s15 = [g \in PrefixGame |-> Absent]
  BY DEF Prefix!Init
<1>2. IsLaunch(Prefix!Idle)
  BY DEF IsLaunch, Prefix!Idle
<1>3. PrefixTypes
  <2>1. \A g \in PrefixGame : IsLaunch(s12[g])
    BY <1>1, <1>2
  <2> QED BY <1>1, <2>1 DEF PrefixTypes, PrefixDisk
<1>4. ASSUME NEW g \in PrefixGame
      PROVE  Marked(g) /\ InFlight(g)
  BY <1>1 DEF Marked, WineMarked, InFlight, Chose, Prefix!Idle
<1> QED BY <1>3, <1>4 DEF PrefixInv

LEMMA PrefixStays ==
    ASSUME MaxRescale = 0, PrefixInv, Prefix!Next
    PROVE  PrefixInv'
<1> USE DEF Prefix!shared, Prefix!bounds, Prefix!perGame
<1>1. ASSUME NEW g \in PrefixGame, Prefix!Launch(g) \/ Prefix!Step(g) \/ Prefix!GameEnds(g)
      PROVE  PrefixInv'
  BY <1>1, ReadiesStay, ComponentsStay, PreparingStays DEF Prefix!Step
<1>2. ASSUME NEW g \in PrefixGame, NEW b \in Prefix!Build, Prefix!PinBuild(g, b)
      PROVE  PrefixInv'
  BY <1>2, WorldStays DEF Prefix!PinBuild
<1>3. ASSUME NEW f \in Family,
             Prefix!InstallProton(f) \/ Prefix!AnnounceUpdate(f) \/ Prefix!Release(f)
      PROVE  PrefixInv'
  BY <1>3, WorldStays DEF Prefix!InstallProton, Prefix!AnnounceUpdate, Prefix!Release
<1>4. ASSUME NEW b \in Prefix!Build, Prefix!RemoveProton(b)
      PROVE  PrefixInv'
  BY <1>4, WorldStays DEF Prefix!RemoveProton
<1>5. CASE Prefix!SettingsStep
  BY <1>5, WorldStays DEF Prefix!SettingsStep, Prefix!LockForInstall, Prefix!ReplaceBuild,
     Prefix!RenameBuild
<1>6. CASE Prefix!Rescale
  BY <1>6 DEF Prefix!Rescale, PrefixInv, PrefixTypes
<1>7. CASE Prefix!Kill
  BY <1>7, WorldStays DEF Prefix!Kill
<1> QED BY <1>1, <1>2, <1>3, <1>4, <1>5, <1>6, <1>7 DEF Prefix!Next

(* On screens of one scale a game starts in the prefix its marker says it  *)
(* has, whatever copy or write failed and whenever the app was killed.     *)
(* Screens of two scales are where a kill makes the marker lie.            *)
THEOREM StartsPreparedHolds ==
    ASSUME MaxRescale = 0
    PROVE  Spec => []StartsPrepared
<1> DEFINE Inv == part = "prefix" => PrefixInv
<1>1. Init => Inv
  BY PrefixInit DEF Init
<1>2. Inv /\ [Next]_vars => Inv'
  <2> SUFFICES ASSUME Inv, [Next]_vars, part = "prefix"
               PROVE  PrefixInv'
    BY PartStays
  <2>1. CASE Next
    BY <2>1, OnlyItsSteps, PrefixStays
  <2>2. CASE UNCHANGED vars
    BY <2>2, WorldStays DEF vars
  <2> QED BY <2>1, <2>2
<1>3. Inv => StartsPrepared
  BY DEF PrefixInv, InFlight, Chose, ByWine, StartsPrepared, Prefix!StartsPrepared, Prefix!At
<1> QED BY <1>1, <1>2, <1>3, PTL DEF Spec
=============================================================================
