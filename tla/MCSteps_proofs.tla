--------------------------- MODULE MCSteps_proofs ---------------------------
(***************************************************************************)
(* Proofs about the components that are checked side by side in MCSteps:   *)
(* the settings, the window, the session with the server, the sign-in      *)
(* profile, a game's files, the entry of its saves, the gamepad, the image *)
(* cache and the catalogue.  A behaviour is of one component, and stays    *)
(* with it; so each component has an invariant of its own, which its own   *)
(* steps keep.                                                             *)
(***************************************************************************)
EXTENDS MCSteps, TLAPS, FiniteSetTheorems, WellFoundedInduction

(* A behaviour stays with the component it is of.                          *)
LEMMA PartStays == [Next]_vars => part' = part
  BY DEF Next, vars, FilesStep, ChoiceStep, MigrationStep, PathsStep, TitlesStep,
     SignInStep, CatalogStep, PrefsStep, LoginStep, SteamStep, ShortcutsStep,
     PadStep, TrayStep, ImagesStep, after5, after6, after8, after9, after10,
     after11, after12, after13, after14

(* Nor does another component take a step in it.                           *)
LEMMA OnlyItsSteps ==
    Next =>
       /\ part = "preferences" => Prefs!Next
       /\ part = "window" => Tray!Next
       /\ part = "login" => Login!Next
       /\ part = "server" => SignIn!Next
       /\ part = "files" => Files!Next
       /\ part = "title" => Titles!Next
       /\ part = "gamepad" => Pad!Next
       /\ part = "images" => Images!Next
       /\ part = "catalogue" => Catalog!Next
  BY DEF Next, FilesStep, ChoiceStep, MigrationStep, PathsStep, TitlesStep,
     SignInStep, CatalogStep, PrefsStep, LoginStep, SteamStep, ShortcutsStep,
     PadStep, TrayStep, ImagesStep
-----------------------------------------------------------------------------
(* The settings.                                                           *)

PrefsTypes ==
    /\ s1 = [server |-> s1.server, backend |-> s1.backend, saves |-> s1.saves,
             root |-> s1.root, extra |-> s1.extra, limit |-> s1.limit]
    /\ s1.server \in {OwnServer, None} /\ s1.limit \in Limit
    /\ s6 \in [Caller -> [at : {"idle", "stored", "settled"}, moved : BOOLEAN,
                          limit : Limit \cup {None}]]
    /\ \A c \in Caller : s6[c].at = "idle" => s6[c] = Prefs!Idle

(* An id on record is of the store in use, or a command is about to forget *)
(* it.                                                                     *)
IdsFollow ==
    /\ s2 # None => s2.at # None
    /\ s3 # None => s3.at # None
    /\ s2 # None /\ s2 # Prefs!SaveStoreIdentity(s1) =>
          \E c \in Caller : s6[c].at = "stored" /\ s6[c].moved

(* A transfer obeys the limit that is stored, or the command that stored   *)
(* it is about to apply it.                                                *)
LimitFollows ==
    /\ \A c \in Caller : s6[c].limit # None => s6[c].limit = s1.limit
    /\ s5 => s4 = s1.limit \/ \E c \in Caller : s6[c].limit # None

PrefsInv == PrefsTypes /\ IdsFollow /\ LimitFollows

(* The settings start with their invariant.                                *)
LEMMA PrefsInit == part = "preferences" /\ Prefs!Init => PrefsInv
  BY MCStepsAssumption
  DEF MCStepsAssumption, Prefs!PreferencesAssumption, Prefs!Init, Prefs!Defaults, Prefs!Idle, PrefsInv, PrefsTypes, IdsFollow,
      LimitFollows

(* Every step of the settings keeps it.                                    *)
LEMMA PrefsStays ==
    ASSUME PrefsInv, Prefs!Next
    PROVE  PrefsInv'
<1> USE MCStepsAssumption DEF MCStepsAssumption, Prefs!PreferencesAssumption
<1>1. ASSUME NEW c \in Caller, NEW patch \in Prefs!Patch, Prefs!UpdateSettings(c, patch)
      PROVE  PrefsInv'
  <2>1. /\ s1' = [server |-> s1'.server, backend |-> s1'.backend, saves |-> s1'.saves,
                  root |-> s1'.root, extra |-> s1'.extra, limit |-> s1'.limit]
        /\ s1'.server = s1.server
        /\ s1'.limit \in Limit
        /\ patch.field # "limit" => s1'.limit = s1.limit
        /\ patch.field = "limit" => s1'.limit = patch.value
    BY <1>1 DEF Prefs!UpdateSettings, Prefs!Patch, Prefs!Patched, Prefs!Backend, PrefsInv, PrefsTypes
  <2> DEFINE moved == Prefs!SaveStoreIdentity(s1') # Prefs!SaveStoreIdentity(s1)
  <2>2. /\ s6' = [s6 EXCEPT ![c] = [at |-> "stored", moved |-> moved,
                                    limit |-> IF patch.field = "limit" THEN patch.value ELSE None]]
        /\ s6[c] = Prefs!Idle
        /\ UNCHANGED <<s2, s3, s4, s5>>
    BY <1>1 DEF Prefs!UpdateSettings, Prefs!Calls
  <2>3. patch.field = "limit" => patch.value \in Limit
    BY DEF Prefs!Patch, Prefs!Backend
  <2>4. PrefsTypes'
    <3>1. moved \in BOOLEAN
      OBVIOUS
    <3> HIDE DEF moved
    <3>2. s6' \in [Caller -> [at : {"idle", "stored", "settled"}, moved : BOOLEAN,
                              limit : Limit \cup {None}]]
      BY <2>2, <2>3, <3>1 DEF PrefsInv, PrefsTypes
    <3>3. \A d \in Caller : s6'[d].at = "idle" => s6'[d] = Prefs!Idle
      BY <2>2 DEF PrefsInv, PrefsTypes
    <3>4. s1'.server \in {OwnServer, None}
      BY <2>1 DEF PrefsInv, PrefsTypes
    <3> QED BY <2>1, <3>2, <3>3, <3>4 DEF PrefsTypes
  <2>5. IdsFollow'
    <3> SUFFICES ASSUME s2 # None, s2 # Prefs!SaveStoreIdentity(s1')
                 PROVE  \E d \in Caller : s6'[d].at = "stored" /\ s6'[d].moved
      BY <2>2 DEF PrefsInv, IdsFollow, Prefs!SaveStoreIdentity
    <3>1. s6'[c].at = "stored" /\ s6'[c].moved = moved
      BY <2>2 DEF PrefsInv, PrefsTypes
    <3>2. CASE moved
      BY <3>1, <3>2
    <3>3. CASE ~moved
      <4>1. PICK d \in Caller : s6[d].at = "stored" /\ s6[d].moved
        BY <3>3 DEF PrefsInv, IdsFollow
      <4> QED BY <2>2, <4>1 DEF PrefsInv, PrefsTypes, Prefs!Idle
    <3> QED BY <3>2, <3>3
  <2>6. LimitFollows'
    BY <2>1, <2>2, <2>3 DEF PrefsInv, PrefsTypes, LimitFollows, Prefs!Idle
  <2> QED BY <2>4, <2>5, <2>6 DEF PrefsInv
<1>2. ASSUME NEW c \in Caller, Prefs!ResetSettings(c)
      PROVE  PrefsInv'
  <2>1. /\ s1' = [server |-> s1.server, backend |-> s1.backend, saves |-> s1.saves,
                  root |-> s1.root, extra |-> s1.extra, limit |-> 0]
        /\ s6[c] = Prefs!Idle
        /\ s6' = [s6 EXCEPT ![c] = [at |-> "stored", moved |-> FALSE, limit |-> 0]]
        /\ UNCHANGED <<s2, s3, s4, s5>>
    BY <1>2 DEF Prefs!ResetSettings, Prefs!ResetPreferences, Prefs!Defaults, Prefs!Calls, PrefsInv, PrefsTypes
  <2> QED
    BY <2>1 DEF PrefsInv, PrefsTypes, IdsFollow, LimitFollows, Prefs!SaveStoreIdentity, Prefs!Idle
<1>3. ASSUME NEW c \in Caller, Prefs!ForgetSyncedSaveIds(c)
      PROVE  PrefsInv'
  BY <1>3 DEF Prefs!ForgetSyncedSaveIds, Prefs!Calls, PrefsInv, PrefsTypes, IdsFollow, LimitFollows,
     Prefs!SaveStoreIdentity, Prefs!Idle
<1>4. ASSUME NEW c \in Caller, Prefs!ApplyLimit(c)
      PROVE  PrefsInv'
  BY <1>4 DEF Prefs!ApplyLimit, Prefs!Calls, PrefsInv, PrefsTypes, IdsFollow, LimitFollows,
     Prefs!SaveStoreIdentity, Prefs!Idle
<1>5. ASSUME NEW server \in {OwnServer}, Prefs!SetServerUrl(server)
      PROVE  PrefsInv'
  <2>1. /\ s1' = [server |-> OwnServer, backend |-> s1.backend, saves |-> s1.saves,
                  root |-> s1.root, extra |-> s1.extra, limit |-> s1.limit]
        /\ UNCHANGED <<s2, s3, s4, s5, s6>>
    BY <1>5 DEF Prefs!SetServerUrl, Prefs!Sets, PrefsInv, PrefsTypes
  <2> QED BY <2>1 DEF PrefsInv, PrefsTypes, IdsFollow, LimitFollows, Prefs!SaveStoreIdentity
<1>6. ASSUME NEW roots, Prefs!Sets(Prefs!SetLibraryRoots(s1, roots))
      PROVE  PrefsInv'
  <2>1. /\ s1' = [server |-> s1.server, backend |-> s1.backend, saves |-> s1.saves,
                  root |-> s1'.root, extra |-> s1'.extra, limit |-> s1.limit]
        /\ UNCHANGED <<s2, s3, s4, s5, s6>>
    BY <1>6 DEF Prefs!Sets, Prefs!SetLibraryRoots, PrefsInv, PrefsTypes
  <2> QED BY <2>1 DEF PrefsInv, PrefsTypes, IdsFollow, LimitFollows, Prefs!SaveStoreIdentity
<1>7. CASE Prefs!StartDownload \/ Prefs!DownloadEnds \/ Prefs!SyncFails
  BY <1>7 DEF Prefs!StartDownload, Prefs!DownloadEnds, Prefs!SyncFails, PrefsInv, PrefsTypes,
     IdsFollow, LimitFollows
<1>8. CASE Prefs!OpenStore
  BY <1>8 DEF Prefs!OpenStore, PrefsInv, PrefsTypes, IdsFollow, LimitFollows
<1>9. CASE Prefs!RecordSynced
  BY <1>9 DEF Prefs!RecordSynced, PrefsInv, PrefsTypes, IdsFollow, LimitFollows
<1>10. CASE Prefs!Restart
  BY <1>10 DEF Prefs!Restart, Prefs!AtRest, Prefs!Idle, PrefsInv, PrefsTypes, IdsFollow, LimitFollows
<1> QED
  BY <1>1, <1>2, <1>3, <1>4, <1>5, <1>6, <1>7, <1>8, <1>9, <1>10
  DEF Prefs!Next, Prefs!AddLibraryRoot, Prefs!RemoveLibraryRoot, Prefs!SetDefaultLibraryRoot

(* Between commands a version id on record is of the store saves go to     *)
(* now, and transfers obey the limit that is stored (settings.rs).         *)
THEOREM SettingsObeyedHolds == Spec => []SettingsObeyed
<1> DEFINE Inv == part = "preferences" => PrefsInv
<1>1. Init => Inv
  BY PrefsInit DEF Init
<1>2. Inv /\ [Next]_vars => Inv'
  <2> SUFFICES ASSUME Inv, [Next]_vars, part = "preferences"
               PROVE  PrefsInv'
    BY PartStays
  <2>1. CASE Next
    BY <2>1, OnlyItsSteps, PrefsStays
  <2>2. CASE UNCHANGED vars
    BY <2>2 DEF vars, PrefsInv, PrefsTypes, IdsFollow, LimitFollows
  <2> QED BY <2>1, <2>2
<1>3. Inv => SettingsObeyed
  BY DEF PrefsInv, PrefsTypes, IdsFollow, LimitFollows, SettingsObeyed, Prefs!SettingsObeyed,
     Prefs!IdsOfStore, Prefs!LimitObeyed, Prefs!AtRest, Prefs!Idle
<1> QED BY <1>1, <1>2, <1>3, PTL DEF Spec
-----------------------------------------------------------------------------
(* The window.                                                             *)

(* Without a tray nothing hides the window or is about to let it go.       *)
TrayInv == s1 \/ (s5 \in {"shown", "minimised"} /\ s9 = {})

(* Every step of the window keeps its invariant.                           *)
LEMMA TrayStays ==
    ASSUME TrayInv, Tray!Next
    PROVE  TrayInv'
<1> USE DEF TrayInv, Tray!fixed
<1>1. CASE Tray!Close
  BY <1>1 DEF Tray!Close, Tray!Hides, Tray!Hide
<1>2. CASE Tray!StartUp
  BY <1>2 DEF Tray!StartUp, Tray!Hide
<1>3. CASE Tray!GameStarts \/ Tray!GameEnds \/ Tray!Turn \/ Tray!Quit
  BY <1>3 DEF Tray!GameStarts, Tray!GameEnds, Tray!Turn, Tray!Quit
<1>4. ASSUME NEW t \in s9, Tray!TimerDue(t) \/ Tray!TimerAsks(t) \/ Tray!TimerLetsGo(t)
      PROVE  TrayInv'
  BY <1>4 DEF Tray!TimerDue, Tray!TimerAsks, Tray!TimerLetsGo
<1>5. ASSUME NEW r \in Reveal,
             Tray!Ask(r) \/ Tray!GetWindow(r) \/ Tray!Focus(r) \/ Tray!Check(r)
      PROVE  TrayInv'
  BY <1>5 DEF Tray!Ask, Tray!GetWindow, Tray!Focus, Tray!Check
<1>6. ASSUME NEW r \in Reveal, Tray!Toggle(r)
      PROVE  TrayInv'
  BY <1>6 DEF Tray!Toggle, Tray!Hide
<1>7. ASSUME NEW r \in Reveal, Tray!Rebuild(r) \/ Tray!Show(r) \/ Tray!Remap(r)
      PROVE  TrayInv'
  BY <1>7 DEF Tray!Rebuild, Tray!Show, Tray!Remap
<1>8. ASSUME NEW w \in Watch, Tray!Watches(w) \/ Tray!LetsGo(w)
      PROVE  TrayInv'
  BY <1>8 DEF Tray!Watches, Tray!LetsGo, Tray!Behind
<1> QED
  BY <1>1, <1>2, <1>3, <1>4, <1>5, <1>6, <1>7, <1>8 DEF Tray!Next

(* A window that is not there can be had back from the tray, however many  *)
(* reveals, games and watches there are (lib.rs).                          *)
THEOREM ReachableHolds == Spec => []Reachable
<1> DEFINE Inv == part = "window" => TrayInv
<1>1. Init => Inv
  BY DEF Init, Tray!Init, TrayInv
<1>2. Inv /\ [Next]_vars => Inv'
  <2> SUFFICES ASSUME Inv, [Next]_vars, part = "window"
               PROVE  TrayInv'
    BY PartStays
  <2>1. CASE Next
    BY <2>1, OnlyItsSteps, TrayStays
  <2>2. CASE UNCHANGED vars
    BY <2>2 DEF vars, TrayInv
  <2> QED BY <2>1, <2>2
<1>3. Inv => Reachable
  BY DEF TrayInv, Reachable, Tray!Reachable
<1> QED BY <1>1, <1>2, <1>3, PTL DEF Spec
-----------------------------------------------------------------------------
(* The session with the server.                                            *)

SessionTasks ==
    [at : {"idle", "check", "user", "accepted", "create", "store", "connect", "revoke",
           "disconnect", "clear"},
     server : Server \cup {None}, token : SignIn!Token \cup {None}]

SessionTypes ==
    /\ s1 = "apart"
    /\ s2 \in [Server -> {"device", "apiKey", "none"}]
    /\ s4 \in 0 .. MaxTokens
    /\ s5 \in {"off", "loading", "ready"}
    /\ s6 \in SignIn!Settings /\ s7 \in SignIn!Settings
    /\ s9 \in SignIn!Client \cup {None}
    /\ s12 \in SessionTasks /\ s13 \in SessionTasks /\ s14 \in SessionTasks
    /\ s12.at # "idle" => s12.server \in Server
    /\ s13.at # "idle" => s13.server \in Server
    /\ s12.at \in {"store", "connect"} => s12.token # None
    /\ s13.at \in {"store", "connect"} => s13.token # None

(* While the app is up what is in memory is on disk, and at most one task  *)
(* that changes the session is under way.                                  *)
SessionAlone ==
    /\ s5 = "loading" => /\ s9 = None
                         /\ s12.at = "idle" /\ s13.at = "idle" /\ s14.at = "idle"
    /\ s5 = "ready" => /\ s6 = s7 /\ ~s8
                       /\ s12.at = "idle" \/ s13.at = "idle"
                       /\ s12.at = "idle" \/ s14.at = "idle"
                       /\ s13.at = "idle" \/ s14.at = "idle"

(* The client's token is the stored one; a task that is about to replace   *)
(* it has the client go on without one, and uses what it has stored.       *)
SessionToken ==
    s5 = "ready" =>
       /\ s9 # None /\ s9.token # None => s7.token = s9.token
       /\ s13.at # "idle" \/ s12.at \in {"create", "store", "connect"}
             => s9 = None \/ s9.token = None
       /\ s12.at = "connect" => s6.token = s12.token
       /\ s13.at = "connect" => s6.token = s13.token
       /\ s14.at = "clear" => s9 = None

SessionInv == SessionTypes /\ SessionAlone /\ SessionToken

(* The session starts with its invariant.                                  *)
LEMMA SessionInit == SignIn!Init => SessionInv
  BY MCStepsAssumption
  DEF MCStepsAssumption, SignIn!ServerSessionAssumption, SignIn!Init, SignIn!Idle,
      SignIn!Defaults, SignIn!Settings, SessionInv, SessionTypes, SessionAlone, SessionToken,
      SessionTasks

(* Every step of the session keeps it.                                     *)
LEMMA SessionStays ==
    ASSUME SessionInv, SignIn!Next
    PROVE  SessionInv' /\ SignIn!SessionKept
<1> USE MCStepsAssumption
    DEF MCStepsAssumption, SignIn!ServerSessionAssumption, SignIn!Settings, SignIn!Client,
        SignIn!servers, SignIn!config, SignIn!connection, SignIn!tasks, SessionInv, SessionTypes,
        SessionAlone, SessionToken, SessionTasks, SignIn!SessionKept, SignIn!HasSession
<1>1. CASE SignIn!Launch
  BY <1>1 DEF SignIn!Launch, SignIn!Idle, SignIn!Defaults
<1>2. CASE SignIn!Restore
  <2> DEFINE read == IF s8 THEN SignIn!Defaults ELSE s7
  <2>1. read \in SignIn!Settings
    BY DEF SignIn!Defaults
  <2> HIDE DEF read
  <2>2. /\ s5 = "loading" /\ s5' = "ready" /\ s6' = read /\ s7' = read /\ s8' = FALSE
        /\ ~s8 => s7' = s7
        /\ UNCHANGED <<s1, s2, s3, s4, s13, s14>>
    BY <1>2 DEF SignIn!Restore, read
  <2>3. \/ s9' = None
        \/ /\ read.server \in Server
           /\ s9' = [server |-> read.server, cookies |-> read.cookies, token |-> read.token]
    BY <1>2, <2>1, <2>2 DEF SignIn!Restore, SignIn!ConnectStored, SignIn!Connected
  <2>4. s12' = IF s9' = None THEN [at |-> "idle", server |-> None, token |-> None]
               ELSE [at |-> "check", server |-> read.server, token |-> None]
    <3>1. s12' = IF s9' = None THEN SignIn!Idle
                 ELSE [SignIn!Idle EXCEPT !.at = "check", !.server = s6'.server]
      BY <1>2, Zenon DEF SignIn!Restore
    <3>2. s6'.server = read.server
      BY <2>2
    <3> HIDE <1>2
    <3>3. CASE s9' = None
      BY <3>1, <3>3 DEF SignIn!Idle
    <3>4. CASE s9' # None
      <4>1. s12' = [SignIn!Idle EXCEPT !.at = "check", !.server = read.server]
        BY <3>1, <3>2, <3>4
      <4>2. s12' = [at |-> "check", server |-> read.server, token |-> None]
        BY ONLY <4>1 DEF SignIn!Idle
      <4> QED BY <3>4, <4>2
    <3> QED BY <3>3, <3>4
  <2> QED BY <2>1, <2>2, <2>3, <2>4
<1>3. ASSUME NEW answered \in BOOLEAN, SignIn!StartChecked(answered)
      PROVE  SessionInv' /\ SignIn!SessionKept
  BY <1>3 DEF SignIn!StartChecked, SignIn!Idle
<1>4. ASSUME NEW answered \in BOOLEAN, SignIn!Revoke(answered)
      PROVE  SessionInv' /\ SignIn!SessionKept
  BY <1>4 DEF SignIn!Revoke, SignIn!Steps
<1>5. ASSUME NEW answered \in BOOLEAN, SignIn!CheckSession(answered)
      PROVE  SessionInv' /\ SignIn!SessionKept
  BY <1>5 DEF SignIn!CheckSession
<1>6. ASSUME NEW breaks \in BOOLEAN, SignIn!Quit(breaks)
      PROVE  SessionInv' /\ SignIn!SessionKept
  BY <1>6 DEF SignIn!Quit
<1>7. ASSUME s5 # "off", NEW who \in {"start", "login"}, SignIn!CreateToken(who)
      PROVE  SessionInv' /\ SignIn!SessionKept
  <2>1. /\ s5 = "ready"
        /\ UNCHANGED <<s1, s2, s5, s6, s7, s8, s9, s10, s11, s14>>
    BY <1>7 DEF SignIn!CreateToken, SignIn!Task, SignIn!Becomes
  <2>2. CASE SignIn!Becomes(who, SignIn!Idle) /\ UNCHANGED <<s3, s4>>
    BY <1>7, <2>1, <2>2 DEF SignIn!CreateToken, SignIn!Task, SignIn!Becomes, SignIn!Idle
  <2>3. ASSUME NEW token \in SignIn!Token, s4' \in 0 .. MaxTokens,
               SignIn!Becomes(who, [SignIn!Task(who) EXCEPT !.at = "store", !.token = token])
        PROVE  SessionInv' /\ SignIn!SessionKept
    <3>1. token # None
      OBVIOUS
    <3>2. CASE who = "start"
      <4>1. /\ s12.at = "create" /\ s12' = [s12 EXCEPT !.at = "store", !.token = token]
            /\ s13' = s13
        BY <1>7, <2>3, <3>2 DEF SignIn!CreateToken, SignIn!Task, SignIn!Becomes
      <4>2. s12' = [at |-> "store", server |-> s12.server, token |-> token]
        BY <4>1
      <4>3. SessionTypes'
        BY <2>1, <2>3, <3>1, <4>1, <4>2
      <4>4. SessionAlone' /\ SessionToken' /\ SignIn!SessionKept
        BY <2>1, <2>3, <3>1, <4>1, <4>2
      <4> QED BY <4>3, <4>4
    <3>3. CASE who = "login"
      <4>1. /\ s13.at = "create" /\ s13' = [s13 EXCEPT !.at = "store", !.token = token]
            /\ s12' = s12
        BY <1>7, <2>3, <3>3 DEF SignIn!CreateToken, SignIn!Task, SignIn!Becomes
      <4>2. s13' = [at |-> "store", server |-> s13.server, token |-> token]
        BY <4>1
      <4>3. SessionTypes'
        BY <2>1, <2>3, <3>1, <4>1, <4>2
      <4>4. SessionAlone' /\ SessionToken' /\ SignIn!SessionKept
        BY <2>1, <2>3, <3>1, <4>1, <4>2
      <4> QED BY <4>3, <4>4
    <3> QED BY <3>2, <3>3
  <2>4. CASE s9 # None /\ s2[s9.server] # "none" /\ s4 < MaxTokens
    <3> DEFINE token == [of |-> s9.server, kind |-> s2[s9.server], n |-> s4 + 1]
    <3>1. token \in SignIn!Token
      BY <2>4 DEF SignIn!Token
    <3>2. \/ SignIn!Becomes(who, SignIn!Idle) /\ UNCHANGED <<s3, s4>>
          \/ /\ s4' = s4 + 1
             /\ SignIn!Becomes(who, [SignIn!Task(who) EXCEPT !.at = "store", !.token = token])
      BY <1>7 DEF SignIn!CreateToken
    <3>3. s4 + 1 \in 0 .. MaxTokens
      BY <2>4
    <3> HIDE DEF token
    <3> QED BY <2>2, <2>3, <3>1, <3>2, <3>3, ZenonT(60)
  <2> QED BY <1>7, <2>2, <2>4 DEF SignIn!CreateToken
<1>8. ASSUME s5 # "off", NEW who \in {"start", "login"}, SignIn!StoreToken(who)
      PROVE  SessionInv' /\ SignIn!SessionKept
  BY <1>8 DEF SignIn!StoreToken, SignIn!Task, SignIn!Becomes, SignIn!Idle, SignIn!Stored,
     SignIn!NotStored
<1>9. ASSUME s5 # "off", NEW who \in {"start", "login"}, SignIn!UseToken(who)
      PROVE  SessionInv' /\ SignIn!SessionKept
  BY <1>9 DEF SignIn!UseToken, SignIn!Task, SignIn!Becomes, SignIn!Idle, SignIn!Connected
<1>10. CASE s5 # "off" /\ (SignIn!PollWaits \/ SignIn!PollAccepted \/ SignIn!CheckExpires)
  BY <1>10 DEF SignIn!PollWaits, SignIn!PollAccepted, SignIn!CheckExpires, SignIn!Idle
<1>11. CASE s5 # "off" /\ SignIn!StoreLogin
  <2>1. /\ s13.at = "accepted" /\ s5 = "ready" /\ s13.server \in Server
        /\ UNCHANGED <<s1, s2, s3, s4, s5, s9, s10, s11, s12, s14>>
    BY <1>11 DEF SignIn!StoreLogin, SignIn!Stored, SignIn!NotStored
  <2>2. CASE /\ SignIn!Stored([s6 EXCEPT !.cookies = s13.server, !.token = None])
             /\ s13' = [s13 EXCEPT !.at = "create"]
    <3>1. /\ s6' = [server |-> s6.server, cookies |-> s13.server, token |-> None,
                    changed |-> s6.changed]
          /\ s7' = s6' /\ s8' = FALSE
      BY <2>2 DEF SignIn!Stored
    <3> QED BY <2>1, <2>2, <3>1
  <2>3. CASE SignIn!NotStored /\ s13' = SignIn!Idle
    BY <2>1, <2>3 DEF SignIn!NotStored, SignIn!Idle
  <2> QED BY <1>11, <2>2, <2>3 DEF SignIn!StoreLogin
<1>12. CASE s5 # "off" /\ SignIn!Disconnect
  BY <1>12 DEF SignIn!Disconnect, SignIn!Disconnected, SignIn!Steps
<1>13. CASE s5 # "off" /\ SignIn!ClearSession
  <2>11. SessionTypes'
    BY <1>13 DEF SignIn!ClearSession, SignIn!Stored, SignIn!NotStored, SignIn!Idle
  <2>12. SessionAlone'
    BY <1>13 DEF SignIn!ClearSession, SignIn!Stored, SignIn!NotStored, SignIn!Idle
  <2>13. SessionToken'
    BY <1>13 DEF SignIn!ClearSession, SignIn!Stored, SignIn!NotStored, SignIn!Idle
  <2>14. SignIn!SessionKept
    BY <1>13 DEF SignIn!ClearSession, SignIn!Stored, SignIn!NotStored, SignIn!Idle
  <2> QED BY <2>11, <2>12, <2>13, <2>14
<1>14. ASSUME NEW s \in Server, SignIn!SetServer(s)
       PROVE  SessionInv' /\ SignIn!SessionKept
  BY <1>14 DEF SignIn!SetServer, SignIn!Stored
<1>15. ASSUME NEW s \in Server, SignIn!Leave(s)
       PROVE  SessionInv' /\ SignIn!SessionKept
  <2>1. s14' = [at |-> "revoke", server |-> s, token |-> None]
    BY <1>15 DEF SignIn!Leave, SignIn!Idle
  <2>2. SessionTypes'
    BY <1>15, <2>1 DEF SignIn!Leave
  <2>3. SessionAlone' /\ SessionToken' /\ SignIn!SessionKept
    BY <1>15, <2>1 DEF SignIn!Leave, SignIn!Alone
  <2> QED BY <2>2, <2>3
<1>16. ASSUME NEW s \in Server, SignIn!SessionExpires(s)
       PROVE  SessionInv' /\ SignIn!SessionKept
  BY <1>16 DEF SignIn!SessionExpires
<1>17. ASSUME NEW signedIn \in BOOLEAN, SignIn!PollLogin(signedIn)
       PROVE  SessionInv' /\ SignIn!SessionKept
  <2>1. /\ s5 = "ready" /\ s12.at = "idle" /\ s13.at = "idle" /\ s14.at = "idle"
        /\ s6.server # None
        /\ UNCHANGED <<s1, s2, s4, s5, s6, s7, s8, s12, s14>>
    BY <1>17 DEF SignIn!PollLogin, SignIn!Alone
  <2>2. /\ s9' = [server |-> s6.server, cookies |-> s6.server, token |-> None]
        /\ s13' = [at |-> "user", server |-> s6.server, token |-> None]
    BY <1>17 DEF SignIn!PollLogin, SignIn!Idle, SignIn!Connected
  <2>3. s6.server \in Server
    BY <2>1 DEF SignIn!Settings
  <2>4. s9' \in SignIn!Client /\ s13' \in SessionTasks
    BY <2>2, <2>3 DEF SignIn!Client
  <2>5. SessionTypes'
    BY <2>1, <2>2, <2>3, <2>4
  <2>6. SessionAlone' /\ SessionToken' /\ SignIn!SessionKept
    BY <2>1, <2>2
  <2> QED BY <2>5, <2>6
<1>18. CASE SignIn!Patch
  <2>1. (~s6.changed) \in BOOLEAN
    OBVIOUS
  <2>2. /\ s6' = [server |-> s6.server, cookies |-> s6.cookies, token |-> s6.token,
                  changed |-> ~s6.changed]
        /\ s7' = s6' /\ s8' = FALSE
        /\ s5 = "ready"
        /\ UNCHANGED <<s1, s2, s3, s4, s5, s9, s10, s11, s12, s13, s14>>
    BY <1>18 DEF SignIn!Patch, SignIn!Changed, SignIn!Stored
  <2> QED BY <2>1, <2>2
<1> QED
  BY <1>1, <1>2, <1>3, <1>4, <1>5, <1>6, <1>7, <1>8, <1>9, <1>10, <1>11, <1>12, <1>13,
     <1>14, <1>15, <1>16, <1>17, <1>18, ZenonT(60)
  DEF SignIn!Next
-----------------------------------------------------------------------------
(* The profile of the sign-in window.                                      *)

ProfileTypes ==
    /\ s1 \in Login!Profile
    /\ s2 \in [Login!Profile -> SUBSET Nat]
    /\ s5 \in {None, s1}
    /\ s7 \in Nat
    /\ s8 \in [at : {"idle", "destroy", "delete", "move", "sweep"}, of : Login!Profile,
               tries : Nat, deleted : BOOLEAN, before : Nat]

(* The profile in use remembers no sign-in that was cleared, and one with  *)
(* a higher number none at all.                                            *)
ProfileClean ==
    /\ s10 \subseteq 1 .. s7
    /\ s2[s1] \cap s10 = {}
    /\ \A n \in Login!Profile : n > s1 => s2[n] = {}

(* A reset works without a window, on the profile in use, and comes to its *)
(* end with an empty one.                                                  *)
ProfileReset ==
    /\ s8.before <= s7
    /\ s8.at \in {"delete", "move", "sweep"} => s5 = None
    /\ s8.at \in {"delete", "move"} => s8.of = s1
    /\ s8.at \in {"idle", "destroy", "delete"} => ~s8.deleted
    /\ s8.at = "sweep" \/ (s8.at = "move" /\ s8.deleted) => s2[s1] = {}

ProfileInv == ProfileTypes /\ ProfileClean /\ ProfileReset

(* The sign-in profile starts with its invariant.                          *)
LEMMA ProfileInit == Login!Init => ProfileInv
  BY MCStepsAssumption
  DEF MCStepsAssumption, Login!LoginProfileAssumption, Login!Init, Login!Idle, Login!Profile,
      ProfileInv, ProfileTypes, ProfileClean, ProfileReset

(* Every step of the sign-in profile keeps it.                             *)
LEMMA ProfileStays ==
    ASSUME ProfileInv, Login!Next
    PROVE  ProfileInv'
<1> USE MCStepsAssumption
    DEF MCStepsAssumption, Login!LoginProfileAssumption, Login!Profile, Login!disk,
        Login!webview, Login!tasks, ProfileInv, ProfileTypes, ProfileClean, ProfileReset
<1>1. CASE Login!Start \/ Login!CloseLoginWindow \/ Login!Release
  BY <1>1 DEF Login!Start, Login!CloseLoginWindow, Login!Release
<1>2. CASE Login!Sweep
  BY <1>2 DEF Login!Sweep, Login!Emptied
<1>3. CASE Login!OpenLoginWindow
  BY <1>3 DEF Login!OpenLoginWindow, Login!ProfileDir
<1>4. CASE Login!SignIn
  <2>1. /\ s5 # None /\ s5 = s1
        /\ s7' = s7 + 1
        /\ s2' = [s2 EXCEPT ![s1] = @ \cup {s7 + 1}]
        /\ UNCHANGED <<s1, s4, s5, s6, s8, s9, s10, s11>>
    BY <1>4 DEF Login!SignIn
  <2>2. s7 + 1 \notin s10 /\ s10 \subseteq 1 .. s7'
    BY <2>1
  <2>3. s2' \in [Login!Profile -> SUBSET Nat]
    BY <2>1
  <2>4. s2'[s1] = s2[s1] \cup {s7 + 1} /\ \A n \in Login!Profile : n > s1 => s2'[n] = s2[n]
    BY <2>1
  <2> QED BY <2>1, <2>2, <2>3, <2>4
<1>5. CASE Login!ResetLoginProfile
  <2>1. /\ s8' = [at |-> "destroy", of |-> 0, tries |-> 0, deleted |-> FALSE, before |-> 0]
        /\ UNCHANGED <<s1, s2, s3, s4, s5, s6, s7, s9, s10, s11>>
    BY <1>5 DEF Login!ResetLoginProfile, Login!Idle
  <2> QED BY <2>1
<1>6. CASE Login!DestroyLoginWindow
  <2>1. /\ s8.at = "destroy"
        /\ s8' = [s8 EXCEPT !.at = "delete", !.of = s1, !.before = s7]
        /\ s5' = None
        /\ UNCHANGED <<s1, s2, s7, s10>>
    BY <1>6 DEF Login!DestroyLoginWindow, Login!Fault
  <2>2. s8' = [at |-> "delete", of |-> s1, tries |-> s8.tries, deleted |-> s8.deleted,
               before |-> s7]
    BY <2>1
  <2> QED BY <2>1, <2>2
<1>7. CASE Login!DeleteWithRetries
  <2>1. s8.at = "delete" /\ s8.of = s1 /\ UNCHANGED <<s1, s5, s7, s10>>
    BY <1>7 DEF Login!DeleteWithRetries
  <2>2. CASE Login!Emptied(s8.of) /\ s8' = [s8 EXCEPT !.at = "move", !.deleted = TRUE]
    <3>1. s2' = [s2 EXCEPT ![s1] = {}]
      BY <2>1, <2>2 DEF Login!Emptied
    <3>2. s8' = [at |-> "move", of |-> s8.of, tries |-> s8.tries, deleted |-> TRUE,
                 before |-> s8.before]
      BY <2>2
    <3> QED BY <2>1, <3>1, <3>2
  <2>3. CASE /\ s8' = [s8 EXCEPT !.tries = @ + 1,
                                 !.at = IF s8.tries + 1 = Attempts THEN "move" ELSE @]
             /\ UNCHANGED <<s2, s3>>
    <3>1. PICK at \in {"delete", "move"} :
             s8' = [at |-> at, of |-> s8.of, tries |-> s8.tries + 1, deleted |-> s8.deleted,
                    before |-> s8.before]
      BY <2>1, <2>3
    <3>2. s8.tries + 1 \in Nat
      OBVIOUS
    <3> QED BY <2>1, <2>3, <3>1, <3>2
  <2> QED BY <1>7, <2>2, <2>3 DEF Login!DeleteWithRetries
<1>8. CASE Login!MoveOn
  <2>1. s8.at = "move" /\ UNCHANGED <<s2, s3, s4, s5, s6, s7, s9, s10>>
    BY <1>8 DEF Login!MoveOn
  <2>2. CASE s8.deleted /\ s8' = [s8 EXCEPT !.at = "sweep"] /\ s1' = s1
    <3>1. s8' = [at |-> "sweep", of |-> s8.of, tries |-> s8.tries, deleted |-> s8.deleted,
                 before |-> s8.before]
      BY <2>2
    <3> QED BY <2>1, <2>2, <3>1
  <2>3. CASE /\ s8.of < MaxGeneration /\ s1' = s8.of + 1
             /\ s8' = [s8 EXCEPT !.at = "sweep"]
    <3>1. s8' = [at |-> "sweep", of |-> s8.of, tries |-> s8.tries, deleted |-> s8.deleted,
                 before |-> s8.before]
      BY <2>3
    <3>2. s1' \in 0 .. MaxGeneration /\ s1' > s1 /\ s2[s1'] = {}
      BY <2>1, <2>3
    <3> QED BY <2>1, <3>1, <3>2
  <2>4. CASE s8' = Login!Idle /\ s1' = s1
    BY <2>1, <2>4 DEF Login!Idle
  <2> QED BY <1>8, <2>2, <2>3, <2>4 DEF Login!MoveOn, Login!Following
<1>9. CASE Login!SweepAndTell
  <2>1. /\ s8.at = "sweep"
        /\ s8' = [at |-> "idle", of |-> 0, tries |-> 0, deleted |-> FALSE, before |-> 0]
        /\ s10' = s10 \cup 1 .. s8.before
        /\ UNCHANGED <<s1, s4, s5, s6, s7, s9, s11>>
    BY <1>9 DEF Login!SweepAndTell, Login!Idle
  <2>2. PICK gone : s2' = [p \in Login!Profile |-> IF p \in gone THEN {} ELSE s2[p]]
    BY <1>9 DEF Login!SweepAndTell
  <2>3. /\ s2' \in [Login!Profile -> SUBSET Nat] /\ s2'[s1] = {}
        /\ \A n \in Login!Profile : n > s1 => s2'[n] = {}
    BY <2>1, <2>2
  <2>4. s10' \subseteq 1 .. s7
    <3>1. s8.before \in Nat /\ s7 \in Nat /\ s8.before <= s7
      OBVIOUS
    <3>2. \A n \in 1 .. s8.before : n \in 1 .. s7
      BY ONLY <3>1
    <3>3. \A n \in s10 : n \in 1 .. s7
      OBVIOUS
    <3> QED BY ONLY <2>1, <3>2, <3>3, Zenon
  <2> QED BY <2>1, <2>3, <2>4
<1>10. ASSUME NEW torn \in BOOLEAN, Login!Kill(torn)
       PROVE  ProfileInv'
  BY <1>10 DEF Login!Kill, Login!Fault, Login!Idle
<1> QED
  BY <1>1, <1>2, <1>3, <1>4, <1>5, <1>6, <1>7, <1>8, <1>9, <1>10 DEF Login!Next

(* A sign-in ends when the user ends it, and then it does: the stored      *)
(* session is given up only by leaving it, a token in use is one that is   *)
(* stored, and no window works with a sign-in the user was told is cleared *)
(* (state.rs, auth_flow.rs).                                               *)
THEOREM SessionKeptHolds == Spec => SessionKept
<1> DEFINE Inv == /\ part = "server" => SessionInv
                  /\ part = "login" => ProfileInv
<1>1. Init => Inv
  BY SessionInit, ProfileInit DEF Init
<1>2. Inv /\ [Next]_vars => Inv'
  <2> SUFFICES ASSUME Inv, [Next]_vars
               PROVE  Inv'
    OBVIOUS
  <2>1. CASE Next
    BY <2>1, PartStays, OnlyItsSteps, SessionStays, ProfileStays
  <2>2. CASE UNCHANGED vars
    BY <2>2 DEF vars, SessionInv, SessionTypes, SessionAlone, SessionToken, ProfileInv,
       ProfileTypes, ProfileClean, ProfileReset
  <2> QED BY <2>1, <2>2
<1>3. Inv /\ [Next]_vars => [part = "server" => SignIn!SessionKept]_vars
  BY OnlyItsSteps, SessionStays
<1>4. Inv => (part = "server" => SignIn!TokenStored)
  BY DEF SessionInv, SessionTypes, SessionAlone, SessionToken, SignIn!TokenStored
<1>5. Inv => (part = "login" => Login!ClearedIsGone)
  BY DEF ProfileInv, ProfileTypes, ProfileClean, Login!ClearedIsGone
<1> QED BY <1>1, <1>2, <1>3, <1>4, <1>5, PTL DEF Spec, SessionKept
-----------------------------------------------------------------------------
(* A game's files.                                                         *)

FilesTypes ==
    /\ s1 \in Files!Version \cup {None}
    /\ s2 \in [Files!Place -> (SUBSET Files!Piece) \cup {None}]
    /\ s4 \in Nat
    /\ s6 = "downloading" => s4 < MaxVersions
    /\ s6 \in {"extracting", "extracted"} => s1 # None

(* Nothing stands where the new files are about to be put, which are       *)
(* there; and the old install is removed only when the new one stands.     *)
FilesPlaced ==
    /\ s6 \in {"putting", "replacing"} => s2["install"] = None
    /\ s6 \in {"copying", "clearing staging", "placing", "putting", "replacing"}
          => s2["incoming"] # None
    /\ s6 = "copying" => s2["staging"] # None
    /\ s6 = "clearing outgoing" => s2["install"] # None

FilesInv == FilesTypes /\ FilesPlaced

(* A game's files start with their invariant.                              *)
LEMMA FilesInit == Files!Init => FilesInv
  BY MCStepsAssumption
  DEF MCStepsAssumption, Files!GameFilesAssumption, Files!Init, FilesInv, FilesTypes, FilesPlaced,
      Files!Place

(* What removing a folder file by file does.                               *)
LEMMA FilesRemove ==
    ASSUME FilesInv, NEW from, NEW place \in Files!Place, NEW gone, NEW failed,
           Files!Remove(from, place, gone, failed)
    PROVE  /\ s6 = from /\ s6' \in {from, gone, failed}
           /\ UNCHANGED <<s1, s3, s4, s5, s7>>
           /\ s2' \in [Files!Place -> (SUBSET Files!Piece) \cup {None}]
           /\ \A other \in Files!Place : other # place => s2'[other] = s2[other]
<1>1. CASE /\ Files!HasContent(s2[place]) /\ Files!Step(from, from)
           /\ \E piece \in s2[place] : s2' = [s2 EXCEPT ![place] = @ \ {piece}]
           /\ s1' = s1
  <2>1. s2[place] \in SUBSET Files!Piece
    BY <1>1 DEF FilesInv, FilesTypes, Files!HasContent
  <2>2. PICK piece : s2' = [s2 EXCEPT ![place] = s2[place] \ {piece}]
    BY <1>1
  <2> QED BY <1>1, <2>1, <2>2 DEF FilesInv, FilesTypes, Files!Step
<1>2. CASE /\ Files!Step(from, gone) /\ s2' = [s2 EXCEPT ![place] = None] /\ s1' = s1
  BY <1>2 DEF FilesInv, FilesTypes, Files!Step
<1>3. CASE Files!Step(from, failed) /\ UNCHANGED <<s1, s2>>
  BY <1>3 DEF FilesInv, FilesTypes, Files!Step
<1> QED BY <1>1, <1>2, <1>3 DEF Files!Remove

(* A version consists of pieces.                                           *)
LEMMA FilesAll == \A v \in Files!Version : Files!All(v) \in SUBSET Files!Piece
  BY DEF Files!All, Files!Piece

(* Every step of a game's files keeps their invariant.                     *)
LEMMA FilesStays ==
    ASSUME FilesInv, Files!Next
    PROVE  FilesInv' /\ Files!OldKept
<1> USE MCStepsAssumption
    DEF MCStepsAssumption, Files!GameFilesAssumption, FilesInv, FilesTypes, FilesPlaced
<1>10. Files!Place = {"staging", "incoming", "outgoing", "install"}
  BY DEF Files!Place
<1>11. \A tree : Files!Whole(tree) => tree # None
  BY DEF Files!Whole
<1>12. ASSUME s2'["install"] = s2["install"], s2'["outgoing"] = s2["outgoing"]
       PROVE  Files!OldKept
  BY <1>12 DEF Files!OldKept
<1>13. \A tree \in SUBSET Files!Piece : tree # None
  OBVIOUS
<1>1. CASE \/ Files!StartDownload \/ Files!ExtractDownload \/ Files!MoveIntoPlace
           \/ Files!DeleteDownload \/ Files!DeleteStaging \/ Files!UninstallGame
           \/ Files!Scan \/ Files!Adopt \/ Files!Crash
  BY <1>1, <1>12
  DEF Files!StartDownload, Files!ExtractDownload, Files!MoveIntoPlace, Files!DeleteDownload,
      Files!DeleteStaging, Files!UninstallGame, Files!Begin, Files!ExistingArchive, Files!Scan,
      Files!Adopt, Files!Crash, Files!Version
<1>2. CASE \/ Files!RecordExtracted \/ Files!RecordMove \/ Files!RecordInstall
           \/ Files!RecordDiscard \/ Files!RecordStaging \/ Files!RecordUninstall
  BY <1>2, <1>12
  DEF Files!RecordExtracted, Files!RecordMove, Files!RecordInstall, Files!RecordDiscard,
      Files!RecordStaging, Files!RecordUninstall, Files!Recorded
<1>3. CASE \/ Files!ExtractFails \/ Files!Extracted \/ Files!KeepArchive \/ Files!ArchiveStays
           \/ Files!CopyFails \/ Files!Copied \/ Files!NotSetAside \/ Files!NothingToReplace
           \/ Files!RenameFails
  BY <1>3, <1>12
  DEF Files!ExtractFails, Files!Extracted, Files!KeepArchive, Files!ArchiveStays,
      Files!CopyFails, Files!Copied, Files!NotSetAside, Files!NothingToReplace, Files!RenameFails,
      Files!Step
<1>4. CASE Files!RemoveArchive \/ Files!DiscardArchive
  BY <1>4, <1>12 DEF Files!RemoveArchive, Files!DiscardArchive, Files!Step
<1>5. CASE Files!Downloaded
  BY <1>5, <1>12 DEF Files!Downloaded, Files!Version
<1>6. CASE \/ Files!ClearIncoming \/ Files!ClearCopy \/ Files!ClearStaging
           \/ Files!DiscardStaging \/ Files!RemoveStaging
  <2>1. CASE Files!ClearIncoming
    <3>1. /\ s6 = "clearing incoming" /\ s6' \in {"clearing incoming", "taking"}
          /\ UNCHANGED <<s1, s4>>
          /\ s2' \in [Files!Place -> (SUBSET Files!Piece) \cup {None}]
          /\ s2'["install"] = s2["install"] /\ s2'["outgoing"] = s2["outgoing"]
      BY <2>1, <1>10, FilesRemove, ZenonT(60) DEF Files!ClearIncoming
    <3> QED BY <3>1, <1>12
  <2>2. CASE Files!ClearCopy
    <3>1. /\ s6 = "clearing copy" /\ s6' \in {"clearing copy", "idle"}
          /\ UNCHANGED <<s1, s4>>
          /\ s2' \in [Files!Place -> (SUBSET Files!Piece) \cup {None}]
          /\ s2'["install"] = s2["install"] /\ s2'["outgoing"] = s2["outgoing"]
      BY <2>2, <1>10, FilesRemove, ZenonT(60) DEF Files!ClearCopy
    <3> QED BY <3>1, <1>12
  <2>3. CASE Files!ClearStaging
    <3>1. /\ s6 = "clearing staging" /\ s6' \in {"clearing staging", "placing"}
          /\ UNCHANGED <<s1, s4>>
          /\ s2' \in [Files!Place -> (SUBSET Files!Piece) \cup {None}]
          /\ s2'["install"] = s2["install"] /\ s2'["outgoing"] = s2["outgoing"]
          /\ s2'["incoming"] = s2["incoming"]
      BY <2>3, <1>10, FilesRemove, ZenonT(60) DEF Files!ClearStaging
    <3> QED BY <3>1, <1>12
  <2>4. CASE Files!DiscardStaging
    <3>1. /\ s6 = "discarding" /\ s6' \in {"discarding", "recording discard", "idle"}
          /\ UNCHANGED <<s1, s4>>
          /\ s2' \in [Files!Place -> (SUBSET Files!Piece) \cup {None}]
          /\ s2'["install"] = s2["install"] /\ s2'["outgoing"] = s2["outgoing"]
      BY <2>4, <1>10, FilesRemove DEF Files!DiscardStaging
    <3> QED BY <3>1, <1>12
  <2>5. CASE Files!RemoveStaging
    <3>1. /\ s6 = "removing staging"
          /\ s6' \in {"removing staging", "recording staging", "idle"}
          /\ UNCHANGED <<s1, s4>>
          /\ s2' \in [Files!Place -> (SUBSET Files!Piece) \cup {None}]
          /\ s2'["install"] = s2["install"] /\ s2'["outgoing"] = s2["outgoing"]
      BY <2>5, <1>10, FilesRemove DEF Files!RemoveStaging
    <3> QED BY <3>1, <1>12
  <2> QED BY <1>6, <2>1, <2>2, <2>3, <2>4, <2>5
<1>7. CASE Files!Unpacked \/ Files!ExtractOne
  <2>1. PICK tree \in SUBSET Files!Piece : s2' = [s2 EXCEPT !["staging"] = tree]
    <3>1. CASE Files!Unpacked
      <4>1. s6 = "downloading" /\ s2' = [s2 EXCEPT !["staging"] = Files!All(s4 + 1)]
        BY <3>1, Zenon DEF Files!Unpacked
      <4>2. s4 + 1 \in Files!Version
        BY ONLY <4>1, MCStepsAssumption, FilesTypes
        DEF MCStepsAssumption, Files!GameFilesAssumption, FilesTypes, Files!Version
      <4>3. Files!All(s4 + 1) \in SUBSET Files!Piece
        BY <4>2, FilesAll
      <4> QED BY <4>1, <4>3
    <3>2. CASE Files!ExtractOne
      <4>1. s1 \in Files!Version
        BY <3>2 DEF Files!ExtractOne, Files!Step
      <4> DEFINE there == IF s2["staging"] = None THEN {} ELSE s2["staging"]
      <4>2. there \in SUBSET Files!Piece
        BY <1>10
      <4> HIDE DEF there
      <4>3. PICK piece \in Files!All(s1) \ there :
               s2' = [s2 EXCEPT !["staging"] = there \cup {piece}]
        BY <3>2 DEF Files!ExtractOne, there
      <4>4. there \cup {piece} \in SUBSET Files!Piece
        BY <4>1, <4>2, FilesAll
      <4> QED BY <4>3, <4>4
    <3> QED BY <1>7, <3>1, <3>2
  <2>2. s1' = s1 /\ s6' \in {"recording unpacked", "extracting"}
        /\ s4' \in Nat /\ (s6' = "extracting" => s6 = "extracting")
    <3>1. CASE Files!Unpacked
      <4>1. s1' = s1 /\ s6' = "recording unpacked" /\ s4' = s4 + 1
        BY <3>1, Zenon DEF Files!Unpacked
      <4>2. s4' \in Nat
        <5>1. s4 \in Nat
          OBVIOUS
        <5>2. s4' = s4 + 1
          BY <4>1, Zenon
        <5> QED BY ONLY <5>1, <5>2
      <4> QED BY <4>1, <4>2
    <3>2. CASE Files!ExtractOne
      BY <3>2 DEF Files!ExtractOne, Files!Step
    <3> QED BY <1>7, <3>1, <3>2
  <2>3. /\ s2' \in [Files!Place -> (SUBSET Files!Piece) \cup {None}]
        /\ s2'["install"] = s2["install"] /\ s2'["outgoing"] = s2["outgoing"]
    BY <2>1, <1>10
  <2> QED BY <2>2, <2>3, <1>12
<1>8. CASE Files!Take
  <2>1. /\ s2' = [s2 EXCEPT !["incoming"] = s2["staging"], !["staging"] = None]
        /\ s2["staging"] # None /\ s6' = "placing" /\ UNCHANGED <<s1, s4>>
    BY <1>8 DEF Files!Take, Files!Step
  <2>2. /\ s2' \in [Files!Place -> (SUBSET Files!Piece) \cup {None}]
        /\ s2'["incoming"] = s2["staging"]
        /\ s2'["install"] = s2["install"] /\ s2'["outgoing"] = s2["outgoing"]
    BY <2>1, <1>10
  <2> QED BY <2>1, <2>2, <1>12
<1>9. CASE Files!StartCopy \/ Files!CopyOne
  <2>1. PICK tree \in SUBSET Files!Piece : s2' = [s2 EXCEPT !["incoming"] = tree]
    <3>1. CASE Files!StartCopy
      <4> DEFINE tree == IF s2["incoming"] = None THEN {} ELSE s2["incoming"]
      <4>1. tree \in SUBSET Files!Piece
        BY <1>10
      <4>2. s2' = [s2 EXCEPT !["incoming"] = tree]
        BY <3>1 DEF Files!StartCopy
      <4> QED BY <4>1, <4>2
    <3>2. CASE Files!CopyOne
      <4>1. s6 = "copying"
        BY <3>2 DEF Files!CopyOne, Files!Step
      <4>2. PICK piece \in s2["staging"] \ s2["incoming"] :
               s2' = [s2 EXCEPT !["incoming"] = s2["incoming"] \cup {piece}]
        BY <3>2 DEF Files!CopyOne
      <4>3. s2["incoming"] \cup {piece} \in SUBSET Files!Piece
        <5>1. s2["staging"] \in SUBSET Files!Piece /\ s2["incoming"] \in SUBSET Files!Piece
          BY <4>1, <1>10
        <5> QED BY <4>2, <5>1
      <4> QED BY <4>2, <4>3
    <3> QED BY <1>9, <3>1, <3>2
  <2>2. s6' = "copying" /\ UNCHANGED <<s1, s4>>
    BY <1>9 DEF Files!StartCopy, Files!CopyOne, Files!Step
  <2>3. /\ s2' \in [Files!Place -> (SUBSET Files!Piece) \cup {None}]
        /\ s2'["incoming"] = tree /\ s2'["staging"] = s2["staging"]
        /\ s2'["install"] = s2["install"] /\ s2'["outgoing"] = s2["outgoing"]
    BY <2>1, <1>10
  <2>4. tree # None /\ s2["staging"] # None
    BY <1>9, <1>13 DEF Files!StartCopy, Files!CopyOne, Files!Step
  <2> QED BY <2>2, <2>3, <2>4, <1>12
<1>14. CASE Files!SetAside
  <2>1. /\ s2' = [s2 EXCEPT !["outgoing"] = s2["install"], !["install"] = None]
        /\ s6 = "placing" /\ s6' = "replacing" /\ s2["install"] # None
        /\ UNCHANGED <<s1, s4>>
    BY <1>14 DEF Files!SetAside, Files!Step
  <2>2. /\ s2' \in [Files!Place -> (SUBSET Files!Piece) \cup {None}]
        /\ s2'["outgoing"] = s2["install"] /\ s2'["install"] = None
        /\ s2'["incoming"] = s2["incoming"]
    BY <2>1, <1>10
  <2>3. Files!OldKept
    BY <2>1, <2>2 DEF Files!OldKept
  <2> QED BY <2>1, <2>2, <2>3
<1>15. CASE Files!Put
  <2>1. /\ s2' = [s2 EXCEPT !["install"] = s2["incoming"], !["incoming"] = None]
        /\ s6 \in {"putting", "replacing"} /\ s6' \in {"clearing outgoing", "recording move"}
        /\ UNCHANGED <<s1, s4>>
    BY <1>15 DEF Files!Put, Files!Step
  <2>2. /\ s2' \in [Files!Place -> (SUBSET Files!Piece) \cup {None}]
        /\ s2'["outgoing"] = s2["outgoing"] /\ s2'["install"] = s2["incoming"]
    BY <2>1, <1>10
  <2>3. Files!OldKept
    BY <2>1, <2>2, <1>11 DEF Files!OldKept
  <2> QED BY <2>1, <2>2, <2>3
<1>16. CASE Files!ClearOutgoing
  <2>1. /\ s6 = "clearing outgoing" /\ s6' \in {"clearing outgoing", "recording move"}
        /\ UNCHANGED <<s1, s4>>
        /\ s2' \in [Files!Place -> (SUBSET Files!Piece) \cup {None}]
        /\ s2'["install"] = s2["install"]
    BY <1>16, <1>10, FilesRemove, ZenonT(60) DEF Files!ClearOutgoing
  <2>2. Files!OldKept
    BY <2>1 DEF Files!OldKept
  <2> QED BY <2>1, <2>2
<1>17. CASE Files!RemoveInstall
  <2>1. /\ s6 = "removing install"
        /\ s6' \in {"removing install", "recording uninstall", "idle"}
        /\ UNCHANGED <<s1, s4>>
        /\ s2' \in [Files!Place -> (SUBSET Files!Piece) \cup {None}]
    BY <1>17, <1>10, FilesRemove DEF Files!RemoveInstall
  <2> QED BY <2>1 DEF Files!OldKept
<1> QED
  BY <1>1, <1>2, <1>3, <1>4, <1>5, <1>6, <1>7, <1>8, <1>9, <1>14, <1>15, <1>16, <1>17
  DEF Files!Next, Files!Extracting, Files!Moving, Files!Removing

(* An installed game is there, in its folder or set aside, until it is     *)
(* uninstalled or another stands in its place, whatever fails in moving    *)
(* files and wherever the app ends (move_into_place, install.rs).          *)
THEOREM OldKeptHolds == Spec => OldKept
<1> DEFINE Inv == part = "files" => FilesInv
<1>1. Init => Inv
  BY FilesInit DEF Init
<1>2. Inv /\ [Next]_vars => Inv'
  <2> SUFFICES ASSUME Inv, [Next]_vars, part = "files"
               PROVE  FilesInv'
    BY PartStays
  <2>1. CASE Next
    BY <2>1, OnlyItsSteps, FilesStays
  <2>2. CASE UNCHANGED vars
    BY <2>2 DEF vars, FilesInv, FilesTypes, FilesPlaced
  <2> QED BY <2>1, <2>2
<1>3. Inv /\ [Next]_vars => [part = "files" => Files!OldKept]_vars
  BY OnlyItsSteps, FilesStays
<1> QED BY <1>1, <1>2, <1>3, PTL DEF Spec, OldKept
-----------------------------------------------------------------------------
(* The entry of a game's saves.                                            *)

Names == {"steam-id", "exact", "normalized", "fuzzy"}

Place == {"idle", "waiting", "searching", "found", "asking", "adopting", "uploading"}

TitleTypes ==
    /\ s1 \in Seq(Editions) /\ s1 # <<>>
    /\ s2 \in Nat /\ s2 <= Len(s1)
    /\ s3 \in [title : TitleEntry \cup {None}, attempted : BOOLEAN, candidates : SUBSET TitleEntry,
               stamp : Nat, paths : BOOLEAN]
    /\ s3.stamp <= s2
    /\ s5 \in [TitleTask -> [at : Place, left : Seq(Names), began : Nat, title : TitleEntry \cup {None},
                        candidates : SUBSET TitleEntry]]
    /\ s6 \in TitleEntry \cup {None}

(* Somebody named it, or the database gave it alone.                       *)
Known(e) ==
    e \in s8 \/ \E i \in DOMAIN s1, lookup \in {"steam-id", "exact", "normalized"} :
                   s1[i][lookup] = {e}

(* An entry is passed on only from where it was known.                     *)
TitlesKnown ==
    /\ s3.title # None => Known(s3.title)
    /\ s6 # None => Known(s6)
    /\ \A t \in TitleTask : s5[t].title # None => Known(s5[t].title)
    /\ \A t \in TitleTask : s5[t].at = "adopting" => s5[t].title # None

Passed(k) ==
    \A j \in 1 .. k - 1 : ~Titles!Final(Titles!Lookups[j], s1[s2][Titles!Lookups[j]])

(* A search has the helper to itself, and looks in one database.           *)
SearchesAlone ==
    \A t \in TitleTask :
       /\ s5[t].at \in {"searching", "found"} => s4 = t
       /\ s5[t].at = "searching" =>
             \E k \in 1 .. 4 :
                /\ s5[t].left = SubSeq(Titles!Lookups, k, 4)
                /\ k = 1 => s5[t].began = s2
                /\ k > 1 => s2 # 0 /\ Passed(k)
       /\ s5[t].at = "found" =>
             /\ s2 # 0
             /\ Titles!Outcome(s1[s2]) = [title |-> s5[t].title, candidates |-> s5[t].candidates]

(* What is remembered of this database is what a search in it finds.       *)
RecordFits ==
    s3.title = None /\ Titles!Remembered(s3) =>
       Titles!Outcome(s1[s2]) = [title |-> None, candidates |-> s3.candidates]

TitleInv == TitleTypes /\ TitlesKnown /\ SearchesAlone /\ RecordFits

(* The four lookups, the fuzzy one last.                                   *)
LEMMA FourLookups ==
    /\ Titles!Lookups \in Seq(Names)
    /\ DOMAIN Titles!Lookups = 1 .. 4 /\ Len(Titles!Lookups) = 4
    /\ Titles!Lookups[4] = "fuzzy"
    /\ \A i \in 1 .. 3 : Titles!Lookups[i] \in {"steam-id", "exact", "normalized"}
    /\ \A i \in 1 .. 4 : Titles!Lookups[i] \in {"steam-id", "exact", "normalized", "fuzzy"}
<1> DEFINE l == Titles!Lookups
<1>1. l = <<"steam-id", "exact", "normalized", "fuzzy">>
  BY DEF Titles!Lookups
<1> HIDE DEF l
<1>2. l \in Seq(Names) /\ Len(l) = 4 /\ DOMAIN l = 1 .. 4
  BY <1>1 DEF Names
<1>3. l[1] = "steam-id" /\ l[2] = "exact" /\ l[3] = "normalized" /\ l[4] = "fuzzy"
  BY <1>1
<1>4. \A i \in 1 .. 4 : i = 1 \/ i = 2 \/ i = 3 \/ i = 4
  OBVIOUS
<1>5. \A i \in 1 .. 3 : i = 1 \/ i = 2 \/ i = 3
  OBVIOUS
<1> QED BY <1>2, <1>3, <1>4, <1>5 DEF l

(* A search ends with the first lookup that settles it.                    *)
LEMMA OutcomeIs ==
    ASSUME NEW d, NEW k \in 1 .. 4,
           Titles!Final(Titles!Lookups[k], d[Titles!Lookups[k]]),
           \A j \in 1 .. k - 1 : ~Titles!Final(Titles!Lookups[j], d[Titles!Lookups[j]])
    PROVE  Titles!Outcome(d) =
              IF Titles!Certain(Titles!Lookups[k], d[Titles!Lookups[k]])
              THEN [title |-> Titles!TheOnly(d[Titles!Lookups[k]]), candidates |-> {}]
              ELSE [title |-> None, candidates |-> d[Titles!Lookups[k]]]
<1> DEFINE Ends(i) == Titles!Final(Titles!Lookups[i], d[Titles!Lookups[i]])
<1> DEFINE First(i) == Ends(i) /\ \A j \in 1 .. i - 1 : ~Ends(j)
<1> DEFINE n == CHOOSE i \in DOMAIN Titles!Lookups : First(i)
<1>1. k \in DOMAIN Titles!Lookups /\ First(k)
  BY FourLookups
<1>2. n \in DOMAIN Titles!Lookups /\ First(n)
  BY <1>1
<1>0. /\ Ends(k) /\ \A j \in 1 .. k - 1 : ~Ends(j)
      /\ Ends(n) /\ \A j \in 1 .. n - 1 : ~Ends(j)
  BY <1>1, <1>2
<1>3. n = k
  <2>1. n \in 1 .. 4 /\ k \in 1 .. 4
    BY <1>2, FourLookups
  <2> HIDE DEF Ends, n
  <2>2. ~(n < k) /\ ~(k < n)
    BY <1>0, <2>1
  <2> QED BY <2>1, <2>2
<1> HIDE DEF First
<1>4. Titles!Outcome(d) = LET found == d[Titles!Lookups[n]]
                          IN  IF Titles!Certain(Titles!Lookups[n], found)
                              THEN [title |-> Titles!TheOnly(found), candidates |-> {}]
                              ELSE [title |-> None, candidates |-> found]
  BY DEF Titles!Outcome, First, Ends
<1> HIDE DEF n
<1> QED BY <1>3, <1>4

(* What is left of them, from the k-th on.                                 *)
LEMMA LookupsLeft ==
    \A k \in 1 .. 4 :
       /\ SubSeq(Titles!Lookups, k, 4) \in Seq(Names)
       /\ Head(SubSeq(Titles!Lookups, k, 4)) = Titles!Lookups[k]
       /\ k < 4 => Tail(SubSeq(Titles!Lookups, k, 4)) = SubSeq(Titles!Lookups, k + 1, 4)
       /\ SubSeq(Titles!Lookups, k, 4) = Titles!Lookups => k = 1
<1> TAKE k \in 1 .. 4
<1>1. SubSeq(Titles!Lookups, k, 4) \in Seq(Names)
  <2>1. /\ Titles!Lookups \in Seq(Names) /\ Len(Titles!Lookups) = 4
        /\ k \in Nat /\ k >= 1 /\ k <= 4
    BY FourLookups
  <2>2. \A i \in 1 .. 4 : Titles!Lookups[i] \in Names
    BY <2>1
  <2> QED BY <2>1, <2>2
<1>2. Head(SubSeq(Titles!Lookups, k, 4)) = Titles!Lookups[k]
  BY FourLookups
<1>3. k < 4 => Tail(SubSeq(Titles!Lookups, k, 4)) = SubSeq(Titles!Lookups, k + 1, 4)
  BY FourLookups
<1>4. SubSeq(Titles!Lookups, k, 4) = Titles!Lookups => k = 1
  <2>1. Len(SubSeq(Titles!Lookups, k, 4)) = 5 - k
    BY FourLookups
  <2> QED BY <2>1, FourLookups
<1> QED BY <1>1, <1>2, <1>3, <1>4

(* A game's entry starts with its invariant.                               *)
LEMMA TitleInit == Titles!Init => TitleInv
<1> SUFFICES ASSUME Titles!Init
             PROVE  TitleInv
  OBVIOUS
<1> USE MCStepsAssumption DEF MCStepsAssumption, Titles!SaveTitleAssumption
<1>1. PICK d \in Editions : s1 = <<d>>
  BY DEF Titles!Init
<1>2. /\ s2 = 0 /\ s3 = Titles!NeverLookedUp /\ s5 = [t \in TitleTask |-> Titles!Idle] /\ s6 = None
  BY DEF Titles!Init
<1>3. TitleTypes
  BY <1>1, <1>2 DEF TitleTypes, Titles!NeverLookedUp, Titles!Idle, Place
<1>4. TitlesKnown /\ SearchesAlone /\ RecordFits
  BY <1>2 DEF TitlesKnown, SearchesAlone, RecordFits, Titles!Remembered, Titles!NeverLookedUp,
     Titles!Idle
<1> QED BY <1>3, <1>4 DEF TitleInv

(* What is known stays known.                                              *)
LEMMA KnownStays ==
    ASSUME NEW e, Known(e), s1 \in Seq(Editions), s1' = s1 \/ (\E d : s1' = Append(s1, d)),
           s8 \subseteq s8'
    PROVE  Known(e)'
<1>1. CASE e \in s8
  BY <1>1 DEF Known
<1>2. ASSUME NEW i \in DOMAIN s1, NEW lookup \in {"steam-id", "exact", "normalized"},
             s1[i][lookup] = {e}
      PROVE  Known(e)'
  <2>1. i \in DOMAIN s1' /\ s1'[i] = s1[i]
    OBVIOUS
  <2>2. s1'[i][lookup] = {e}
    BY <1>2, <2>1
  <2> QED BY <2>1, <2>2 DEF Known
<1> QED BY <1>1, <1>2 DEF Known

(* Where neither the database nor the record changes, a task that is not   *)
(* searching keeps the rest as it was.                                     *)
LEMMA TaskMoves ==
    ASSUME TitleInv, NEW t \in TitleTask, NEW r, UNCHANGED <<s1, s2, s3>>,
           s5' = [s5 EXCEPT ![t] = r],
           r \in [at : Place, left : Seq(Names), began : Nat, title : TitleEntry \cup {None},
                  candidates : SUBSET TitleEntry],
           r.at \notin {"searching", "found"},
           r.title # None => r.title \in s8' \/ r.title = s6 \/ r.title = s3.title \/ r.title = s5[t].title,
           r.at = "adopting" => r.title # None,
           s6' = s6 \/ s6' = None \/ s6' = s5[t].title,
           s4' = s4 \/ s4 = t \/ \A u \in TitleTask \ {t} : s5[u].at \notin {"searching", "found"},
           s8 \subseteq s8'
    PROVE  TitleInv'
<1>1. TitleTypes'
  BY DEF TitleInv, TitleTypes
<1>2. /\ \A u \in TitleTask : u # t => s5'[u] = s5[u]
      /\ s5'[t] = r
  BY DEF TitleInv, TitleTypes
<1>3. TitlesKnown'
  <2>1. \A e : Known(e) => Known(e)'
    BY KnownStays DEF TitleInv, TitleTypes
  <2>2. \A e \in s8' : Known(e)'
    BY DEF Known
  <2>3. r.title # None => Known(r.title)'
    BY <2>1, <2>2 DEF TitleInv, TitlesKnown
  <2>4. (s6 # None => Known(s6))'
    BY <2>1 DEF TitleInv, TitlesKnown
  <2>5. (s3.title # None => Known(s3.title))'
    BY <2>1 DEF TitleInv, TitlesKnown
  <2> QED BY <1>2, <2>1, <2>3, <2>4, <2>5 DEF TitleInv, TitlesKnown
<1>4. SearchesAlone'
  <2>1. \A u \in TitleTask : u # t => s5'[u] = s5[u]
    BY <1>2
  <2>2. \A u \in TitleTask \ {t} : s5[u].at \in {"searching", "found"} => s4' = u
    BY DEF TitleInv, SearchesAlone
  <2>3. \A k : Passed(k)' <=> Passed(k)
    BY DEF Passed
  <2> QED BY <1>2, <2>2, <2>3 DEF TitleInv, SearchesAlone
<1>5. RecordFits'
  BY DEF TitleInv, RecordFits, Titles!Remembered
<1> QED BY <1>1, <1>3, <1>4, <1>5 DEF TitleInv

(* What a lookup does to its task.                                         *)
LEMMA LookupMoves ==
    ASSUME NEW t, Titles!Lookup(t), NEW lookup, lookup = Head(s5[t].left)
    PROVE  s5' = [s5 EXCEPT ![t] = Titles!Searched(s5[t], lookup, s1[s2'][lookup])]
  BY DEF Titles!Lookup

(* A certain lookup found one entry.                                       *)
LEMMA CertainIs ==
    ASSUME NEW lookup, NEW found \in SUBSET TitleEntry, IsFiniteSet(TitleEntry),
           Titles!Certain(lookup, found)
    PROVE  \E e \in TitleEntry : found = {e} /\ e = Titles!TheOnly(found)
<1>0. IsFiniteSet(found)
  BY FS_Subset
<1>1. Cardinality(found) = 1
  <2>1. Titles!Cardinality(found) = Cardinality(found)
    BY DEF Titles!Cardinality, Cardinality
  <2> QED BY <2>1 DEF Titles!Certain
<1>2. PICK e : found = {e}
  BY <1>0, <1>1, FS_Singleton
<1>3. e = Titles!TheOnly(found)
  BY <1>2 DEF Titles!TheOnly
<1> QED BY <1>2, <1>3

(* Every step about the entry keeps it.                                    *)
LEMMA TitleStays ==
    ASSUME TitleInv, Titles!Next
    PROVE  TitleInv'
<1> USE MCStepsAssumption DEF MCStepsAssumption, Titles!SaveTitleAssumption
<1> DEFINE Tasks == [at : Place, left : Seq(Names), began : Nat, title : TitleEntry \cup {None},
                     candidates : SUBSET TitleEntry]
<1>0. /\ TitleTypes /\ TitlesKnown /\ SearchesAlone /\ RecordFits
      /\ None \notin TitleEntry
      /\ \A d \in Editions : d \in [Names -> SUBSET TitleEntry]
  BY DEF TitleInv, Titles!IsEdition, Names
<1>n. /\ Titles!Idle = [at |-> "idle", left |-> <<>>, began |-> 0, title |-> None, candidates |-> {}]
      /\ Titles!Idle \in Tasks
  BY DEF Titles!Idle, Place
<1>1. ASSUME NEW t \in TitleTask, Titles!Refresh(t)
      PROVE  TitleInv'
  <2>1. PICK place \in {"asking", "waiting"} : s5' = [s5 EXCEPT ![t] = [s5[t] EXCEPT !.at = place]]
    BY <1>1 DEF Titles!Refresh, Titles!Goto
  <2>2. /\ UNCHANGED <<s1, s2, s3, s4, s6, s8>>
    BY <1>1 DEF Titles!Refresh
  <2>3. PICK r : r = [s5[t] EXCEPT !.at = place]
    OBVIOUS
  <2>4. /\ r \in Tasks /\ r.at = place /\ r.title = s5[t].title
    BY <2>3, <1>0 DEF TitleTypes, Place
  <2>5. s5' = [s5 EXCEPT ![t] = r]
    BY <2>1, <2>3
  <2> HIDE DEF Tasks
  <2> QED BY <2>2, <2>4, <2>5, TaskMoves DEF Tasks
<1>2. ASSUME NEW t \in TitleTask, Titles!BackUp(t)
      PROVE  TitleInv'
  <2>1. PICK title : /\ title = IF s3.title # None THEN s3.title ELSE OwnTitle
                     /\ s5' = [s5 EXCEPT ![t] = [Titles!Idle EXCEPT !.at = "uploading", !.title = title]]
                     /\ s8' = IF s3.title = None THEN s8 \cup {title} ELSE s8
    BY <1>2 DEF Titles!BackUp
  <2>2. UNCHANGED <<s1, s2, s3, s4, s6>>
    BY <1>2 DEF Titles!BackUp
  <2>3. PICK r : r = [Titles!Idle EXCEPT !.at = "uploading", !.title = title]
    OBVIOUS
  <2>4. title \in TitleEntry
    BY <2>1, <1>0 DEF TitleTypes
  <2>5. r \in Tasks /\ r.at = "uploading" /\ r.title = title
    BY <2>3, <2>4, <1>n DEF Place
  <2>6. s5' = [s5 EXCEPT ![t] = r]
    BY <2>1, <2>3
  <2>7. title \in s8' \/ title = s3.title
    BY <2>1
  <2> QED BY <2>1, <2>2, <2>5, <2>6, <2>7, TaskMoves
<1>3. ASSUME NEW t \in TitleTask, Titles!TakeTurn(t)
      PROVE  TitleInv'
  <2>1. PICK r : r = [Titles!Idle EXCEPT !.at = "searching", !.left = Titles!Lookups, !.began = s2]
    OBVIOUS
  <2>2. /\ s5[t].at = "waiting" /\ s4 = None /\ s4' = t /\ s5' = [s5 EXCEPT ![t] = r]
        /\ UNCHANGED <<s1, s2, s3, s6, s8>>
    BY <1>3, <2>1 DEF Titles!TakeTurn
  <2>3. /\ r \in Tasks /\ r.at = "searching" /\ r.left = Titles!Lookups /\ r.began = s2
        /\ r.title = None
    BY <2>1, <1>n, <1>0, FourLookups DEF Place, TitleTypes
  <2>4. s5'[t] = r /\ \A u \in TitleTask : u # t => s5'[u] = s5[u]
    BY <2>2, <1>0 DEF TitleTypes
  <2>5. TitleTypes'
    BY <2>2, <2>3, <1>0 DEF TitleTypes
  <2>6. TitlesKnown'
    <3>1. \A e : Known(e) => Known(e)'
      BY <2>2, <1>0, KnownStays DEF TitleTypes
    <3> QED BY <1>0, <2>2, <2>3, <2>4, <3>1 DEF TitlesKnown
  <2>7. SearchesAlone'
    <3>1. \A u \in TitleTask : s5[u].at \notin {"searching", "found"}
      BY <1>0, <2>2 DEF SearchesAlone
    <3>2. SubSeq(Titles!Lookups, 1, 4) = Titles!Lookups
      BY FourLookups
    <3> QED BY <2>2, <2>3, <2>4, <3>1, <3>2 DEF SearchesAlone
  <2>8. RecordFits'
    BY <1>0, <2>2 DEF RecordFits, Titles!Remembered
  <2> QED BY <2>5, <2>6, <2>7, <2>8 DEF TitleInv
<1>4. ASSUME NEW t \in TitleTask, Titles!AskStore(t)
      PROVE  TitleInv'
  <2>1. UNCHANGED <<s1, s2, s3, s4, s6, s8>>
    BY <1>4 DEF Titles!AskStore
  <2>2. CASE s6 # None /\ s5' = [s5 EXCEPT ![t] = [Titles!Idle EXCEPT !.at = "adopting", !.title = s6]]
    <3>1. PICK r : r = [Titles!Idle EXCEPT !.at = "adopting", !.title = s6]
      OBVIOUS
    <3>2. r \in Tasks /\ r.at = "adopting" /\ r.title = s6
      BY <3>1, <1>n, <1>0 DEF Place, TitleTypes
    <3> QED BY <2>1, <2>2, <3>1, <3>2, TaskMoves
  <2>3. CASE s5' = [s5 EXCEPT ![t] = Titles!Idle]
    BY <1>n, <2>1, <2>3, TaskMoves
  <2> QED BY <1>4, <2>2, <2>3 DEF Titles!AskStore
<1>5. ASSUME NEW t \in TitleTask, Titles!Upload(t) \/ Titles!Fail(t)
      PROVE  TitleInv'
  <2>1. /\ s5' = [s5 EXCEPT ![t] = Titles!Idle] /\ UNCHANGED <<s1, s2, s3, s8>>
        /\ s4' = s4 \/ s4 = t
        /\ s6' = s6 \/ s6' = s5[t].title
    BY <1>5 DEF Titles!Upload, Titles!Fail
  <2> QED BY <1>n, <2>1, TaskMoves
<1>6. ASSUME NEW t \in TitleTask, Titles!Remember(t)
      PROVE  TitleInv'
  <2>1. /\ s5[t].at = "found" /\ s4 = t /\ s4' = None /\ UNCHANGED <<s1, s2, s6, s8>>
        /\ s3' = [s3 EXCEPT !.title = s5[t].title, !.candidates = s5[t].candidates,
                            !.attempted = TRUE, !.stamp = s2]
    BY <1>6, <1>0 DEF Titles!Remember, SearchesAlone
  <2>2. /\ s3' \in [title : TitleEntry \cup {None}, attempted : BOOLEAN, candidates : SUBSET TitleEntry,
                    stamp : Nat, paths : BOOLEAN]
        /\ s3'.title = s5[t].title /\ s3'.candidates = s5[t].candidates /\ s3'.stamp = s2
    BY <2>1, <1>0 DEF TitleTypes
  <2>3. PICK r \in Tasks : /\ s5' = [s5 EXCEPT ![t] = r]
                           /\ r.at \in {"idle", "uploading", "asking"}
                           /\ r.title \in {None, s5[t].title}
    <3>1. CASE s5[t].title # None
      <4>1. PICK r \in Titles!GoesOn(s5[t].title) : s5' = [s5 EXCEPT ![t] = r]
        BY <1>6, <3>1 DEF Titles!Remember
      <4>2. r \in Tasks /\ r.at \in {"idle", "uploading", "asking"} /\ r.title \in {None, s5[t].title}
        BY <4>1, <1>n, <1>0 DEF Titles!GoesOn, Place, TitleTypes
      <4> QED BY <4>1, <4>2
    <3>2. CASE s5[t].title = None
      <4>1. PICK r \in {[Titles!Idle EXCEPT !.at = "asking"]} : s5' = [s5 EXCEPT ![t] = r]
        BY <1>6, <3>2 DEF Titles!Remember
      <4>2. r \in Tasks /\ r.at \in {"idle", "uploading", "asking"} /\ r.title \in {None, s5[t].title}
        BY <4>1, <1>n DEF Place
      <4> QED BY <4>1, <4>2
    <3> QED BY <3>1, <3>2
  <2>4. s5'[t] = r /\ \A u \in TitleTask : u # t => s5'[u] = s5[u]
    BY <2>3, <1>0 DEF TitleTypes
  <2>5. TitleTypes'
    BY <2>1, <2>2, <2>3, <1>0 DEF TitleTypes
  <2>6. TitlesKnown'
    <3>1. \A e : Known(e) => Known(e)'
      BY <2>1, <1>0, KnownStays DEF TitleTypes
    <3> QED BY <1>0, <2>1, <2>2, <2>3, <2>4, <3>1 DEF TitlesKnown
  <2>7. SearchesAlone'
    <3>1. \A u \in TitleTask : u # t => s5[u].at \notin {"searching", "found"}
      BY <1>0, <2>1 DEF SearchesAlone
    <3> QED BY <2>3, <2>4, <3>1 DEF SearchesAlone
  <2>8. RecordFits'
    <3>1. Titles!Outcome(s1[s2]) = [title |-> s5[t].title, candidates |-> s5[t].candidates]
      BY <1>0, <2>1 DEF SearchesAlone
    <3> QED BY <2>1, <2>2, <3>1 DEF RecordFits
  <2> QED BY <2>5, <2>6, <2>7, <2>8 DEF TitleInv
<1>7. ASSUME NEW t \in TitleTask, Titles!Adopt(t)
      PROVE  TitleInv'
  <2>1. /\ s5[t].at = "adopting" /\ UNCHANGED <<s1, s2, s4, s6, s8>>
        /\ s3' = [s3 EXCEPT !.title = s5[t].title, !.candidates = {}]
    BY <1>7 DEF Titles!Adopt
  <2>2. /\ s3' \in [title : TitleEntry \cup {None}, attempted : BOOLEAN, candidates : SUBSET TitleEntry,
                    stamp : Nat, paths : BOOLEAN]
        /\ s3'.title = s5[t].title /\ s3'.title # None /\ s3'.stamp = s3.stamp
    BY <2>1, <1>0 DEF TitleTypes, TitlesKnown
  <2>3. PICK r \in Tasks : /\ s5' = [s5 EXCEPT ![t] = r]
                           /\ r.at \in {"idle", "uploading"}
                           /\ r.title \in {None, s5[t].title}
    <3>1. PICK r \in Titles!GoesOn(s5[t].title) : s5' = [s5 EXCEPT ![t] = r]
      BY <1>7 DEF Titles!Adopt
    <3>2. r \in Tasks /\ r.at \in {"idle", "uploading"} /\ r.title \in {None, s5[t].title}
      BY <3>1, <1>n, <1>0 DEF Titles!GoesOn, Place, TitleTypes
    <3> QED BY <3>1, <3>2
  <2>4. s5'[t] = r /\ \A u \in TitleTask : u # t => s5'[u] = s5[u]
    BY <2>3, <1>0 DEF TitleTypes
  <2>5. TitleTypes'
    BY <2>1, <2>2, <2>3, <1>0 DEF TitleTypes
  <2>6. TitlesKnown'
    <3>1. \A e : Known(e) => Known(e)'
      BY <2>1, <1>0, KnownStays DEF TitleTypes
    <3> QED BY <1>0, <2>1, <2>2, <2>3, <2>4, <3>1 DEF TitlesKnown
  <2>7. SearchesAlone'
    <3>1. \A k : Passed(k)' <=> Passed(k)
      BY <2>1 DEF Passed
    <3> QED BY <1>0, <2>1, <2>3, <2>4, <3>1 DEF SearchesAlone
  <2>8. RecordFits'
    BY <2>2 DEF RecordFits
  <2> QED BY <2>5, <2>6, <2>7, <2>8 DEF TitleInv
(* Nothing of the tasks changes.                                           *)
<1>8. ASSUME UNCHANGED <<s2, s4, s5>>, s8 \subseteq s8',
             s1' = s1 \/ (\E d \in Editions : s1' = Append(s1, d)),
             s6' = s6 \/ s6' = None \/ s6' \in TitleEntry \cap s8',
             s3' \in [title : TitleEntry \cup {None}, attempted : BOOLEAN, candidates : SUBSET TitleEntry,
                      stamp : Nat, paths : BOOLEAN],
             s3'.stamp = s3.stamp,
             s3'.title = s3.title \/ s3'.title = None \/ s3'.title \in s8',
             \/ s3'.title # None \/ ~s3'.attempted
             \/ /\ s3'.title = s3.title /\ s3'.attempted = s3.attempted
                /\ s3'.candidates = s3.candidates
      PROVE  TitleInv'
  <2>1. s1' \in Seq(Editions) /\ s1' # <<>> /\ Len(s1) <= Len(s1') /\ Len(s1') \in Nat
    <3>1. ASSUME NEW d \in Editions, s1' = Append(s1, d)
          PROVE  s1' \in Seq(Editions) /\ s1' # <<>> /\ Len(s1) <= Len(s1') /\ Len(s1') \in Nat
      BY <3>1, <1>0 DEF TitleTypes
    <3> QED BY <1>8, <3>1, <1>0 DEF TitleTypes
  <2>2. s2 # 0 => s1'[s2] = s1[s2]
    BY <1>8, <1>0 DEF TitleTypes
  <2>3. TitleTypes'
    BY <1>8, <1>0, <2>1 DEF TitleTypes
  <2>4. TitlesKnown'
    <3>1. \A e : Known(e) => Known(e)'
      BY <1>8, <1>0, KnownStays DEF TitleTypes
    <3>2. \A e \in s8' : Known(e)'
      BY DEF Known
    <3>3. (s3.title # None => Known(s3.title))'
      BY <3>1, <3>2, <1>8, <1>0 DEF TitlesKnown
    <3>4. (s6 # None => Known(s6))'
      BY <3>1, <3>2, <1>8, <1>0 DEF TitlesKnown
    <3> QED BY <1>0, <1>8, <3>1, <3>3, <3>4 DEF TitlesKnown
  <2>5. SearchesAlone'
    <3>1. s2 # 0 => \A k : Passed(k)' <=> Passed(k)
      BY <1>8, <2>2 DEF Passed
    <3> QED BY <1>0, <1>8, <2>2, <3>1 DEF SearchesAlone
  <2>6. RecordFits'
    <3> SUFFICES ASSUME (s3.title = None /\ Titles!Remembered(s3))'
                 PROVE  (Titles!Outcome(s1[s2]) = [title |-> None, candidates |-> s3.candidates])'
      BY DEF RecordFits
    <3>1. s3'.title = s3.title /\ s3'.attempted = s3.attempted /\ s3'.candidates = s3.candidates
      BY <1>8 DEF Titles!Remembered
    <3>2. s2 # 0 /\ s3.title = None /\ Titles!Remembered(s3)
      BY <1>8, <3>1 DEF Titles!Remembered
    <3> QED BY <1>0, <1>8, <2>2, <3>1, <3>2 DEF RecordFits
  <2> QED BY <2>3, <2>4, <2>5, <2>6 DEF TitleInv
<1>9. ASSUME NEW d \in Editions, Titles!Publish(d)
      PROVE  TitleInv'
  BY <1>9, <1>8, <1>0 DEF Titles!Publish, TitleTypes
<1>10. ASSUME NEW e \in TitleEntry \cup {None}, Titles!SetSaveTitle(e)
       PROVE  TitleInv'
  <2>1. /\ UNCHANGED <<s1, s2, s4, s5, s6>> /\ s8' = s8 \cup ({e} \ {None})
        /\ s3' = [s3 EXCEPT !.title = e, !.attempted = e # None, !.candidates = {}]
    BY <1>10 DEF Titles!SetSaveTitle
  <2>2. /\ s3' \in [title : TitleEntry \cup {None}, attempted : BOOLEAN, candidates : SUBSET TitleEntry,
                    stamp : Nat, paths : BOOLEAN]
        /\ s3'.title = e /\ s3'.attempted = (e # None) /\ s3'.stamp = s3.stamp
    BY <2>1, <1>0 DEF TitleTypes
  <2> QED BY <2>1, <2>2, <1>8
<1>11. ASSUME NEW e \in TitleEntry, Titles!StoredElsewhere(e)
       PROVE  TitleInv'
  BY <1>11, <1>8, <1>0 DEF Titles!StoredElsewhere, TitleTypes
<1>12. CASE Titles!VersionsDeleted
  BY <1>12, <1>8, <1>0 DEF Titles!VersionsDeleted, TitleTypes
<1>13. ASSUME NEW any \in BOOLEAN, Titles!SetFolders(any)
       PROVE  TitleInv'
  <2>1. /\ UNCHANGED <<s1, s2, s4, s5, s6, s8>>
        /\ s3' = IF any THEN [s3 EXCEPT !.paths = TRUE, !.attempted = FALSE, !.candidates = {}]
                 ELSE [s3 EXCEPT !.paths = FALSE]
    BY <1>13 DEF Titles!SetFolders
  <2>2. /\ s3' \in [title : TitleEntry \cup {None}, attempted : BOOLEAN, candidates : SUBSET TitleEntry,
                    stamp : Nat, paths : BOOLEAN]
        /\ s3'.title = s3.title /\ s3'.stamp = s3.stamp
        /\ ~s3'.attempted \/ (s3'.attempted = s3.attempted /\ s3'.candidates = s3.candidates)
    BY <2>1, <1>0 DEF TitleTypes
  <2> QED BY <2>1, <2>2, <1>8
<1>14. CASE Titles!Crash
  <2>1. /\ UNCHANGED <<s1, s2, s3, s6, s8>> /\ s5' = [t \in TitleTask |-> Titles!Idle]
    BY <1>14 DEF Titles!Crash
  <2>2. TitleTypes'
    BY <2>1, <1>0, <1>n DEF TitleTypes
  <2>3. TitlesKnown'
    <3>1. \A e : Known(e) => Known(e)'
      BY <2>1, <1>0, KnownStays DEF TitleTypes
    <3> QED BY <1>0, <1>n, <2>1, <3>1 DEF TitlesKnown
  <2>4. SearchesAlone'
    BY <1>n, <2>1 DEF SearchesAlone
  <2>5. RecordFits'
    BY <1>0, <2>1 DEF RecordFits, Titles!Remembered
  <2> QED BY <2>2, <2>3, <2>4, <2>5 DEF TitleInv
<1>15. CASE Titles!Update
  <2>1. /\ UNCHANGED <<s1, s3, s5, s6, s8>> /\ s4 = None /\ s2' = Len(s1)
    BY <1>15 DEF Titles!Update
  <2>2. TitleTypes'
    BY <2>1, <1>0 DEF TitleTypes
  <2>3. TitlesKnown'
    <3>1. \A e : Known(e) => Known(e)'
      BY <2>1, <1>0, KnownStays DEF TitleTypes
    <3> QED BY <1>0, <2>1, <3>1 DEF TitlesKnown
  <2>4. SearchesAlone'
    BY <1>0, <2>1 DEF SearchesAlone
  <2>5. RecordFits'
    <3>1. Titles!Remembered(s3)' => s2' = s2
      BY <1>0, <2>1 DEF TitleTypes, Titles!Remembered
    <3> QED BY <1>0, <2>1, <3>1 DEF RecordFits, Titles!Remembered
  <2> QED BY <2>2, <2>3, <2>4, <2>5 DEF TitleInv
<1>16. ASSUME NEW t \in TitleTask, Titles!Lookup(t)
       PROVE  TitleInv'
  <2>1. /\ s5[t].at = "searching" /\ s4 = t /\ UNCHANGED <<s1, s3, s4, s6, s8>>
        /\ s2' \in Titles!Renewals(t)
    BY <1>16, <1>0 DEF Titles!Lookup, SearchesAlone
  <2>2. PICK k \in 1 .. 4 : /\ s5[t].left = SubSeq(Titles!Lookups, k, 4)
                            /\ k = 1 => s5[t].began = s2
                            /\ k > 1 => s2 # 0 /\ Passed(k)
    BY <1>0, <2>1 DEF SearchesAlone
  <2>3. /\ s2' \in {s2, Len(s1)} /\ s2' # 0 /\ s2' \in Nat /\ s2 <= s2' /\ s2' <= Len(s1)
        /\ k > 1 => s2' = s2
    <3>1. k > 1 => s5[t].left # Titles!Lookups
      <4>1. SubSeq(Titles!Lookups, k, 4) = Titles!Lookups => k = 1
        BY LookupsLeft
      <4> QED BY <2>2, <4>1
    <3>2. k > 1 => s2' = s2
      BY <2>1, <3>1 DEF Titles!Renewals
    <3>3. k = 1 => s2' \in {s2, Len(s1)} \ {0}
      <4>1. k = 1 => SubSeq(Titles!Lookups, 1, 4) = Titles!Lookups
        BY FourLookups
      <4> QED BY <2>1, <2>2, <4>1 DEF Titles!Renewals
    <3> QED BY <2>2, <3>2, <3>3, <1>0 DEF TitleTypes
  <2> DEFINE lookup == Titles!Lookups[k]
             found == s1[s2'][lookup]
  <2>4. lookup \in Names /\ found \in SUBSET TitleEntry
    <3>1. s1[s2'] \in Editions
      BY <2>3, <1>0 DEF TitleTypes
    <3> QED BY <3>1, <1>0, FourLookups DEF Names
  <2>5. \A j \in 1 .. k - 1 : ~Titles!Final(Titles!Lookups[j], s1[s2'][Titles!Lookups[j]])
    BY <2>2, <2>3 DEF Passed
  <2>6. /\ Head(s5[t].left) = lookup
        /\ k < 4 => Tail(s5[t].left) = SubSeq(Titles!Lookups, k + 1, 4)
    BY <2>2, LookupsLeft
  <2>7. PICK r : r = Titles!Searched(s5[t], lookup, found) /\ s5' = [s5 EXCEPT ![t] = r]
    <3>1. s5' = [s5 EXCEPT ![t] = Titles!Searched(s5[t], lookup, s1[s2'][lookup])]
      BY <1>16, <2>6, LookupMoves
    <3> QED BY <3>1
  <2>8. s5'[t] = r /\ \A u \in TitleTask : u # t => s5'[u] = s5[u] /\ s5[u].at \notin {"searching", "found"}
    BY <2>1, <2>7, <1>0 DEF TitleTypes, SearchesAlone
  <2>f. IsFiniteSet(TitleEntry)
    BY DEF Titles!IsFiniteSet, IsFiniteSet
  <2> HIDE DEF found, lookup
  <2>r. ASSUME r \in Tasks, r.at # "adopting", r.title # None => Known(r.title)',
               r.at = "searching" =>
                 \E i \in 1 .. 4 :
                    /\ r.left = SubSeq(Titles!Lookups, i, 4)
                    /\ i > 1 /\ Passed(i)',
               r.at = "found" =>
                 Titles!Outcome(s1[s2']) = [title |-> r.title, candidates |-> r.candidates]
        PROVE  TitleInv'
    <3>1. TitleTypes'
      BY <2>r, <2>1, <2>3, <2>7, <1>0 DEF TitleTypes
    <3>2. TitlesKnown'
      <4>1. \A e : Known(e) => Known(e)'
        BY <2>1, <1>0, KnownStays DEF TitleTypes
      <4> QED BY <1>0, <2>r, <2>1, <2>8, <4>1 DEF TitlesKnown
    <3>3. SearchesAlone'
      <4>1. ASSUME NEW u \in TitleTask, s5'[u].at \in {"searching", "found"}
            PROVE  u = t
        BY <4>1, <2>8
      <4>2. \A i \in 1 .. 4 : i > 1 => i # 1
        OBVIOUS
      <4>3. s5'[t].at = "searching" =>
              \E i \in 1 .. 4 : /\ s5'[t].left = SubSeq(Titles!Lookups, i, 4)
                                /\ i = 1 => s5'[t].began = s2'
                                /\ i > 1 => s2' # 0 /\ Passed(i)'
        BY <2>r, <2>3, <2>8, <4>2
      <4>4. s5'[t].at = "found" =>
              /\ s2' # 0
              /\ Titles!Outcome(s1[s2']) = [title |-> s5'[t].title, candidates |-> s5'[t].candidates]
        BY <2>r, <2>3, <2>8
      <4>5. s1' = s1 /\ s4' = t
        BY <2>1
      <4> QED BY <4>1, <4>3, <4>4, <4>5 DEF SearchesAlone
    <3>4. RecordFits'
      <4>1. Titles!Remembered(s3)' => s2' = s2
        BY <1>0, <2>1, <2>3 DEF TitleTypes, Titles!Remembered
      <4> QED BY <1>0, <2>1, <4>1 DEF RecordFits, Titles!Remembered
    <3> QED BY <3>1, <3>2, <3>3, <3>4 DEF TitleInv
  <2>o. Titles!Final(lookup, found) =>
           Titles!Outcome(s1[s2']) = IF Titles!Certain(lookup, found)
                                     THEN [title |-> Titles!TheOnly(found), candidates |-> {}]
                                     ELSE [title |-> None, candidates |-> found]
    BY <2>2, <2>5, OutcomeIs DEF lookup, found
  <2>9. CASE Titles!Certain(lookup, found)
    <3>1. PICK e \in TitleEntry : found = {e} /\ e = Titles!TheOnly(found)
      BY <2>f, <2>4, <2>9, CertainIs
    <3>2. r = [Titles!Idle EXCEPT !.at = "found", !.title = e]
      BY <2>7, <2>9, <3>1 DEF Titles!Searched
    <3>3. r \in Tasks /\ r.at = "found" /\ r.title = e /\ r.candidates = {}
      BY <3>2, <1>n DEF Place
    <3>4. Titles!Outcome(s1[s2']) = [title |-> e, candidates |-> {}]
      BY <2>o, <2>9, <3>1 DEF Titles!Final
    <3>5. Known(e)'
      <4>1. lookup \in {"steam-id", "exact", "normalized"}
        BY <2>4, <2>9 DEF Titles!Certain, Names
      <4>2. s2' \in DOMAIN s1'
        BY <2>1, <2>3, <1>0 DEF TitleTypes
      <4>3. s1'[s2'][lookup] = {e}
        BY <2>1, <3>1 DEF found
      <4> QED BY <4>1, <4>2, <4>3 DEF Known
    <3> HIDE DEF Tasks
    <3> QED BY <2>r, <3>3, <3>4, <3>5
  <2>10. CASE ~Titles!Certain(lookup, found) /\ Titles!Final(lookup, found)
    <3>2. r = [Titles!Idle EXCEPT !.at = "found", !.candidates = found]
      BY <2>7, <2>10 DEF Titles!Searched
    <3>3. r \in Tasks /\ r.at = "found" /\ r.title = None /\ r.candidates = found
      BY <3>2, <2>4, <1>n DEF Place
    <3>4. Titles!Outcome(s1[s2']) = [title |-> None, candidates |-> found]
      BY <2>o, <2>10
    <3> HIDE DEF Tasks
    <3> QED BY <2>r, <3>3, <3>4
  <2>11. CASE ~Titles!Certain(lookup, found) /\ ~Titles!Final(lookup, found)
    <3>1. k < 4
      BY <2>11, FourLookups DEF Titles!Final, lookup
    <3>2. r = [s5[t] EXCEPT !.left = SubSeq(Titles!Lookups, k + 1, 4)]
      BY <2>6, <2>7, <2>11, <3>1 DEF Titles!Searched
    <3>3. SubSeq(Titles!Lookups, k + 1, 4) \in Seq(Names)
      BY <3>1, LookupsLeft
    <3>4. /\ r \in Tasks /\ r.at = "searching" /\ r.title = s5[t].title
          /\ r.left = SubSeq(Titles!Lookups, k + 1, 4)
      BY <3>2, <3>3, <2>1, <1>0 DEF TitleTypes
    <3>5. Passed(k + 1)'
      <4>1. ASSUME NEW j \in 1 .. k
            PROVE  ~Titles!Final(Titles!Lookups[j], s1'[s2'][Titles!Lookups[j]])
        <5>1. CASE j = k
          BY <5>1, <2>1, <2>11 DEF lookup, found
        <5>2. CASE j # k
          BY <5>2, <2>1, <2>5
        <5> QED BY <5>1, <5>2
      <4>2. k + 1 - 1 = k
        OBVIOUS
      <4> QED BY <4>1, <4>2 DEF Passed
    <3>e. PICK kept : kept = s5[t].title
      OBVIOUS
    <3>6. kept # None => Known(kept)'
      <4>1. \A e : Known(e) => Known(e)'
        BY <2>1, <1>0, KnownStays DEF TitleTypes
      <4> QED BY <4>1, <3>e, <1>0 DEF TitlesKnown
    <3>7. k + 1 \in 1 .. 4 /\ k + 1 > 1
      BY <3>1
    <3> HIDE DEF Tasks
    <3> QED BY <2>r, <3>4, <3>e, <3>5, <3>6, <3>7
  <2> QED BY <2>9, <2>10, <2>11
<1> QED BY <1>1, <1>2, <1>3, <1>4, <1>5, <1>6, <1>7, <1>9, <1>10, <1>11, <1>12, <1>13, <1>14,
       <1>15, <1>16 DEF Titles!Next

(* It does not depend on the history of answers.                           *)
LEMMA TitleStutters == ASSUME TitleInv, UNCHANGED <<s1, s2, s3, s4, s5, s6, s8>> PROVE TitleInv'
  BY DEF TitleInv, TitleTypes, TitlesKnown, Known, SearchesAlone, Passed, RecordFits,
     Titles!Remembered

(* The entry a game's saves are kept under was named or certain, and what  *)
(* is remembered of a search is what one would find.                       *)
THEOREM IdentifiedHolds == Spec => []Identified
<1> DEFINE Inv == part = "title" => TitleInv
<1>1. Init => Inv
  BY TitleInit DEF Init
<1>2. Inv /\ [Next]_vars => Inv'
  <2> SUFFICES ASSUME Inv, [Next]_vars, part = "title"
               PROVE  TitleInv'
    BY PartStays
  <2>1. CASE Next
    BY <2>1, OnlyItsSteps, TitleStays
  <2>2. CASE UNCHANGED vars
    BY <2>2, TitleStutters DEF vars
  <2> QED BY <2>1, <2>2
<1>3. Inv => Identified
  <2> SUFFICES ASSUME TitleInv
               PROVE  Titles!NeverGuessed /\ Titles!SearchedAgain
    BY DEF Identified
  <2>1. Titles!NeverGuessed
    BY DEF TitleInv, TitlesKnown, Known, Titles!NeverGuessed, Titles!Range
  <2>2. Titles!SearchedAgain
    BY DEF TitleInv, RecordFits, Titles!SearchedAgain
  <2> QED BY <2>1, <2>2
<1> QED BY <1>1, <1>2, <1>3, PTL DEF Spec
-----------------------------------------------------------------------------
(* The gamepad.                                                            *)

Buttons == {"south", "trigger"} \cup Direction

PadTypes ==
    /\ s1 \in [attached : BOOLEAN, trigger : {"axis"}, travel : 0 .. 3,
               direction : Direction \cup {None}]
    /\ s2 \in Seq({"south"})
    /\ s6 \in [direction : Direction \cup {None}, since : Nat, fired : Nat]
    /\ s7 \in BOOLEAN
    /\ s9 \in [Buttons -> Nat]

(* What a poll may send was pressed since the last one: as many buttons as *)
(* wait, a trigger that is not known to be pulled, a direction that is not *)
(* the one known to be held.                                               *)
PressesOwed ==
    /\ Len(s2) <= s9["south"]
    /\ ~s7 /\ s1.travel # 0 => s9["trigger"] = 1
    /\ s1.direction \notin {None, s6.direction} => s9[s1.direction] = 1

PadInv == PadTypes /\ PressesOwed

(* As many fresh presses are sent as there are places for them.            *)
LEMMA SentAtMost ==
    ASSUME NEW events, NEW b, NEW k \in Nat, NEW n \in Nat,
           \A i \in DOMAIN events : events[i] = Pad!Event(b, FALSE) => i \in k + 1 .. k + n
    PROVE  Pad!Sent(events, b) \in Nat /\ Pad!Sent(events, b) <= n
<1> DEFINE S == {i \in DOMAIN events : events[i] = Pad!Event(b, FALSE)}
<1>1. S \subseteq k + 1 .. k + n
  OBVIOUS
<1>2. IsFiniteSet(k + 1 .. k + n) /\ Cardinality(k + 1 .. k + n) = n
  <2>1. Cardinality(k + 1 .. k + n) = IF k + 1 > k + n THEN 0 ELSE (k + n) - (k + 1) + 1
    BY FS_Interval
  <2> QED BY <2>1, FS_Interval
<1>3. Cardinality(S) \in Nat /\ Cardinality(S) <= n
  <2> HIDE DEF S
  <2>1. IsFiniteSet(S) /\ Cardinality(S) <= n
    BY <1>1, <1>2, FS_Subset
  <2> QED BY <2>1, FS_CardinalityType
<1>4. Pad!Cardinality(S) = Cardinality(S)
  BY DEF Pad!Cardinality, Cardinality
<1>5. Pad!Sent(events, b) = Pad!Cardinality(S)
  BY DEF Pad!Sent
<1> QED BY <1>3, <1>4, <1>5

(* A step that sends nothing sends no press.                               *)
LEMMA NothingSent == \A b : Pad!Sent(<<>>, b) = 0
<1> TAKE b
<1>1. \A i \in DOMAIN <<>> : <<>>[i] = Pad!Event(b, FALSE) => i \in 0 + 1 .. 0 + 0
  OBVIOUS
<1>2. Pad!Sent(<<>>, b) \in Nat /\ Pad!Sent(<<>>, b) <= 0
  BY <1>1, SentAtMost
<1> QED BY <1>2

(* What the repeater returns, taken apart.                                 *)
LEMMA FieldsAre ==
    \A h, f : [held |-> h, fires |-> f].held = h /\ [held |-> h, fires |-> f].fires = f
  OBVIOUS

(* A trigger is pulled or it is not.                                       *)
LEMMA PulledIs == \A was \in BOOLEAN : \A travel : Pad!Pulled(was, travel) \in BOOLEAN
<1> TAKE was \in BOOLEAN
<1> TAKE travel
<1>1. (travel # 0) \in BOOLEAN /\ (travel >= 2) \in BOOLEAN
  OBVIOUS
<1> QED BY Zenon, <1>1 DEF Pad!Pulled

(* The repeater follows the direction held, and fires a fresh press only   *)
(* when it changes.                                                        *)
LEMMA RepeaterFires ==
    ASSUME PadTypes, NEW d \in Direction \cup {None}, NEW time \in Nat
    PROVE  /\ Pad!Update(d, time).held \in
                 [direction : Direction \cup {None}, since : Nat, fired : Nat]
           /\ Pad!Update(d, time).held.direction = d
           /\ \/ Pad!Update(d, time).fires = <<>>
              \/ /\ d \in Direction
                 /\ \/ /\ d # s6.direction
                       /\ Pad!Update(d, time).fires = <<Pad!Event(d, FALSE)>>
                    \/ Pad!Update(d, time).fires = <<Pad!Event(d, TRUE)>>
<1> DEFINE Held == [direction : Direction \cup {None}, since : Nat, fired : Nat]
           U == Pad!Update(d, time)
<1>0. Delay \in Nat /\ None \notin Direction
  BY MCStepsAssumption DEF MCStepsAssumption, Pad!GamepadAssumption
<1>1. \A age \in Nat : Pad!Later(age, time) \in Nat
  BY <1>0 DEF Pad!Later
<1>2. PICK aged : aged = [s6 EXCEPT !.since = Pad!Later(s6.since, time),
                                    !.fired = Pad!Later(s6.fired, time)]
  OBVIOUS
<1>3. aged \in Held /\ aged.direction = s6.direction
  BY <1>1, <1>2 DEF PadTypes
<1>4. CASE d = None
  <2>1. U = [held |-> Pad!Idle, fires |-> <<>>]
    BY <1>4 DEF Pad!Update
  <2> QED BY <1>4, <2>1 DEF Pad!Idle
<1>5. CASE d # None /\ d # s6.direction
  <2>1. U = [held |-> [Pad!Idle EXCEPT !.direction = d], fires |-> <<Pad!Event(d, FALSE)>>]
    BY <1>5 DEF Pad!Update
  <2>2. PICK h : h = [Pad!Idle EXCEPT !.direction = d]
    OBVIOUS
  <2>3. h \in Held /\ h.direction = d
    BY <2>2 DEF Pad!Idle
  <2>4. U.held = h /\ U.fires = <<Pad!Event(d, FALSE)>>
    BY Zenon, <2>1, <2>2, FieldsAre
  <2> HIDE DEF U
  <2>5. d \in Direction
    BY <1>5
  <2>6. U.held \in Held /\ U.held.direction = d
    BY <2>3, <2>4
  <2> QED BY Zenon, <1>5, <2>4, <2>5, <2>6 DEF U
<1>6. CASE d # None /\ d = s6.direction
  <2>1. \/ U = [held |-> aged, fires |-> <<>>]
        \/ U = [held |-> [aged EXCEPT !.fired = 0], fires |-> <<Pad!Event(d, TRUE)>>]
    BY <1>2, <1>6 DEF Pad!Update
  <2>2. PICK h : h = [aged EXCEPT !.fired = 0]
    OBVIOUS
  <2>3. h \in Held /\ h.direction = s6.direction
    BY <1>3, <2>2
  <2>4. CASE U = [held |-> aged, fires |-> <<>>]
    <3>1. U.held = aged /\ U.fires = <<>>
      BY <2>4
    <3> QED BY <3>1, <1>3, <1>6
  <2>5. CASE U = [held |-> h, fires |-> <<Pad!Event(d, TRUE)>>]
    <3>1. U.held = h /\ U.fires = <<Pad!Event(d, TRUE)>>
      BY Zenon, <2>5, FieldsAre
    <3> HIDE DEF U
    <3>2. d \in Direction
      BY <1>6
    <3>3. U.held \in Held /\ U.held.direction = d
      BY <2>3, <3>1, <1>6
    <3> QED BY Zenon, <3>1, <3>2, <3>3 DEF U
  <2> QED BY <2>1, <2>2, <2>4, <2>5
<1> QED BY <1>4, <1>5, <1>6

(* What a poll of a pad does.                                              *)
LEMMA PollDoes ==
    ASSUME PadInv, Pad!Poll
    PROVE  \E fires :
              /\ UNCHANGED s1 /\ s2' = <<>>
              /\ s6' \in [direction : Direction \cup {None}, since : Nat, fired : Nat]
              /\ s6'.direction = s1.direction
              /\ s7' = Pad!Pulled(s7, s1.travel)
              /\ s9' = Pad!Settled(s2, s7', s6')
              /\ \/ s8' = <<>>
                 \/ s8' = Pad!Pressed(s2)
                          \o (IF s7' /\ ~s7 THEN <<Pad!Event("trigger", FALSE)>> ELSE <<>>)
                          \o fires
              /\ \/ fires = <<>>
                 \/ /\ s1.direction \in Direction
                    /\ \/ /\ s1.direction # s6.direction
                          /\ fires = <<Pad!Event(s1.direction, FALSE)>>
                       \/ fires = <<Pad!Event(s1.direction, TRUE)>>
<1>1. PICK time \in Pad!Slept :
         /\ s2' = Pad!Drained(s2)
         /\ s6' = Pad!Update(s1.direction, time).held
         /\ s7' = Pad!Pulled(s7, s1.travel)
         /\ s8' = IF s4 THEN Pad!Pressed(s2)
                             \o (IF Pad!Pulled(s7, s1.travel) /\ ~s7
                                 THEN <<Pad!Event("trigger", FALSE)>> ELSE <<>>)
                             \o Pad!Update(s1.direction, time).fires
                  ELSE <<>>
         /\ s9' = Pad!Settled(s2, Pad!Pulled(s7, s1.travel), Pad!Update(s1.direction, time).held)
  BY DEF Pad!Poll
<1>2. time \in Nat
  BY MCStepsAssumption DEF MCStepsAssumption, Pad!GamepadAssumption, Pad!Slept
<1>3. UNCHANGED s1
  BY DEF Pad!Poll
<1>4. s1.direction \in Direction \cup {None} /\ PadTypes
  BY DEF PadInv, PadTypes
<1>5. PICK fires : fires = Pad!Update(s1.direction, time).fires
  OBVIOUS
<1> QED BY <1>1, <1>2, <1>3, <1>4, <1>5, RepeaterFires DEF Pad!Drained

(* What a poll leaves owed, press by press.                                *)
LEMMA SettledIs ==
    ASSUME PadTypes, NEW left, NEW pulled \in BOOLEAN, NEW h
    PROVE  /\ Pad!Settled(left, pulled, h) \in [Buttons -> Nat]
           /\ Pad!Settled(left, pulled, h)["south"] = 0
           /\ ~pulled /\ s1.travel # 0 =>
                 Pad!Settled(left, pulled, h)["trigger"] = s9["trigger"]
           /\ \A b \in Direction : b # h.direction =>
                 Pad!Settled(left, pulled, h)[b] = s9[b]
<1> DEFINE S == Pad!Settled(left, pulled, h)
<1>0. Direction \cap {"south", "trigger"} = {}
  BY MCStepsAssumption DEF MCStepsAssumption, Pad!GamepadAssumption
<1>1. S = [b \in Buttons |->
             CASE b = "south"   -> 0
               [] b = "trigger" -> IF pulled \/ s1.travel = 0 THEN 0 ELSE s9[b]
               [] OTHER         -> IF h.direction = b THEN 0 ELSE s9[b]]
  BY DEF Pad!Settled, PadTypes
<1> HIDE DEF S
<1>2. S["south"] = 0
  BY <1>1 DEF Buttons
<1>3. S["trigger"] = IF pulled \/ s1.travel = 0 THEN 0 ELSE s9["trigger"]
  BY <1>1 DEF Buttons
<1>4. \A b \in Direction : S[b] = IF h.direction = b THEN 0 ELSE s9[b]
  BY <1>0, <1>1 DEF Buttons
<1>5. \A b \in Buttons : S[b] \in Nat
  BY <1>2, <1>3, <1>4 DEF Buttons, PadTypes
<1>6. S \in [Buttons -> Nat]
  BY <1>1, <1>5
<1> QED BY <1>2, <1>3, <1>4, <1>6 DEF S

(* Every step of the gamepad keeps its invariant.                          *)
LEMMA PadStays ==
    ASSUME PadInv, Pad!Next
    PROVE  PadInv'
<1>0. /\ PadTypes /\ PressesOwed /\ None \notin Direction
      /\ Direction \cap {"south", "trigger"} = {}
  BY MCStepsAssumption DEF PadInv, MCStepsAssumption, Pad!GamepadAssumption
<1>1. CASE Pad!Plug
  <2>1. PICK p : p = [s1 EXCEPT !.attached = ~s1.attached, !.travel = 0, !.direction = None]
    OBVIOUS
  <2>2. /\ p \in [attached : BOOLEAN, trigger : {"axis"}, travel : 0 .. 3,
                  direction : Direction \cup {None}]
        /\ p.travel = 0 /\ p.direction = None
    <3>1. PICK on : on = ~s1.attached
      OBVIOUS
    <3>2. on \in BOOLEAN
      BY <3>1
    <3>3. p = [s1 EXCEPT !.attached = on, !.travel = 0, !.direction = None]
      BY <2>1, <3>1
    <3>4. p.attached = on /\ p.trigger = s1.trigger /\ p.travel = 0 /\ p.direction = None
      BY <1>0, <3>3 DEF PadTypes
    <3>5. p = [attached |-> p.attached, trigger |-> p.trigger, travel |-> p.travel,
               direction |-> p.direction]
      BY <1>0, <3>3 DEF PadTypes
    <3>6. s1.trigger = "axis"
      BY <1>0 DEF PadTypes
    <3> QED BY <3>2, <3>4, <3>5, <3>6
  <2>3. s1' = p /\ UNCHANGED <<s2, s6, s7, s9>>
    BY <1>1, <2>1 DEF Pad!Plug, Pad!Quiet, Pad!thread
  <2> QED BY <1>0, <2>2, <2>3 DEF PadInv, PadTypes, PressesOwed
<1>2. CASE Pad!PushButton
  <2>1. /\ s2' = Append(s2, "south") /\ UNCHANGED <<s1, s6, s7>>
        /\ s9' = [s9 EXCEPT !["south"] = s9["south"] + 1]
    BY <1>2 DEF Pad!PushButton, Pad!Quiet, Pad!thread
  <2>2. s2' \in Seq({"south"}) /\ Len(s2') = Len(s2) + 1 /\ Len(s2) \in Nat
    BY <1>0, <2>1 DEF PadTypes
  <2>3. /\ s9' \in [Buttons -> Nat] /\ s9'["south"] = s9["south"] + 1 /\ s9["south"] \in Nat
        /\ \A b \in Buttons : b # "south" => s9'[b] = s9[b]
    BY <1>0, <2>1 DEF PadTypes, Buttons
  <2>4. s1.direction # None => s1.direction \in Buttons /\ s1.direction # "south"
    BY <1>0 DEF PadTypes, Buttons
  <2> QED BY <1>0, <2>1, <2>2, <2>3, <2>4 DEF PadInv, PadTypes, PressesOwed, Buttons
<1>3. ASSUME NEW travel \in 0 .. 3, Pad!MoveTrigger(travel)
      PROVE  PadInv'
  <2>1. PICK p : p = [s1 EXCEPT !.travel = travel]
    OBVIOUS
  <2>2. /\ p \in [attached : BOOLEAN, trigger : {"axis"}, travel : 0 .. 3,
                  direction : Direction \cup {None}]
        /\ p.travel = travel /\ p.direction = s1.direction
    BY <1>0, <2>1 DEF PadTypes
  <2>3. /\ s1' = p /\ UNCHANGED <<s2, s6, s7>>
        /\ s9' = IF s1.travel = 0 THEN [s9 EXCEPT !["trigger"] = 1] ELSE s9
    BY <1>0, <1>3, <2>1 DEF Pad!MoveTrigger, Pad!Quiet, Pad!thread, PadTypes
  <2>4. /\ s9' \in [Buttons -> Nat] /\ s9'["trigger"] = IF s1.travel = 0 THEN 1 ELSE s9["trigger"]
        /\ \A b \in Buttons : b # "trigger" => s9'[b] = s9[b]
    BY <1>0, <2>3 DEF PadTypes, Buttons
  <2>5. s1.direction # None => s1.direction \in Buttons /\ s1.direction # "trigger"
    BY <1>0 DEF PadTypes, Buttons
  <2> QED BY <1>0, <2>2, <2>3, <2>4, <2>5 DEF PadInv, PadTypes, PressesOwed, Buttons
<1>4. ASSUME NEW d \in Direction \cup {None}, Pad!Hold(d)
      PROVE  PadInv'
  <2>1. PICK p : p = [s1 EXCEPT !.direction = d]
    OBVIOUS
  <2>2. /\ p \in [attached : BOOLEAN, trigger : {"axis"}, travel : 0 .. 3,
                  direction : Direction \cup {None}]
        /\ p.travel = s1.travel /\ p.direction = d
    BY <1>0, <2>1 DEF PadTypes
  <2>3. /\ s1' = p /\ UNCHANGED <<s2, s6, s7>>
        /\ s9' = [b \in DOMAIN s9 |->
                    IF b \in Direction THEN (IF b = d THEN 1 ELSE 0) ELSE s9[b]]
    BY <1>4, <2>1 DEF Pad!Hold, Pad!Quiet, Pad!thread
  <2>4. /\ s9' \in [Buttons -> Nat] /\ s9'["trigger"] = s9["trigger"] /\ s9'["south"] = s9["south"]
        /\ d # None => s9'[d] = 1
    BY <1>0, <2>3 DEF PadTypes, Buttons
  <2> QED BY <1>0, <2>2, <2>3, <2>4 DEF PadInv, PadTypes, PressesOwed
<1>5. CASE Pad!Focus \/ Pad!Enable
  BY <1>0, <1>5 DEF Pad!Focus, Pad!Enable, Pad!Quiet, Pad!thread, PadInv, PadTypes, PressesOwed
<1>6. CASE Pad!PollNothing
  <2>1. /\ s2' = <<>> /\ UNCHANGED <<s1, s6, s7>>
        /\ s9' = Pad!Settled(<<>>, FALSE, s6)
    BY <1>6 DEF Pad!PollNothing, Pad!Drained
  <2>2. /\ s9' \in [Buttons -> Nat] /\ s9'["south"] = 0
        /\ s1.travel # 0 => s9'["trigger"] = s9["trigger"]
        /\ \A b \in Direction : b # s6.direction => s9'[b] = s9[b]
    <3>1. PICK off \in BOOLEAN : off = FALSE
      OBVIOUS
    <3>2. PICK left : left = <<>>
      OBVIOUS
    <3>3. s9' = Pad!Settled(left, off, s6)
      BY Zenon, <2>1, <3>1, <3>2
    <3> QED BY <1>0, <3>1, <3>3, SettledIs
  <2>a. s2' = <<>> /\ UNCHANGED <<s1, s6, s7>>
    BY Zenon, <2>1
  <2>3. PadTypes'
    BY <1>0, <2>a, <2>2 DEF PadTypes
  <2>4. s1.direction \notin {None, s6.direction} => s1.direction \in Direction
    BY <1>0 DEF PadTypes
  <2>5. s9'["trigger"] = s9["trigger"] \/ s1.travel = 0
    BY <2>2
  <2>6. Len(s2') <= s9'["south"]
    BY <2>a, <2>2
  <2> QED BY <1>0, <2>a, <2>2, <2>3, <2>4, <2>5, <2>6 DEF PadInv, PressesOwed
<1>7. CASE Pad!Poll
  <2>1. /\ UNCHANGED s1 /\ s2' = <<>>
        /\ s6' \in [direction : Direction \cup {None}, since : Nat, fired : Nat]
        /\ s6'.direction = s1.direction
        /\ s7' = Pad!Pulled(s7, s1.travel)
        /\ s9' = Pad!Settled(s2, s7', s6')
    BY <1>7, PollDoes
  <2>2. s7' \in BOOLEAN
    <3>1. s7 \in BOOLEAN
      BY <1>0 DEF PadTypes
    <3> QED BY <2>1, <3>1, PulledIs
  <2>3. /\ s9' \in [Buttons -> Nat] /\ s9'["south"] = 0
        /\ ~s7' /\ s1.travel # 0 => s9'["trigger"] = s9["trigger"]
    <3>1. PICK h, p : h = s6' /\ p = s7'
      OBVIOUS
    <3> QED BY <1>0, <2>1, <2>2, <3>1, SettledIs
  <2>4. ~s7' /\ s1.travel # 0 => ~s7
    BY <1>0, <2>1 DEF Pad!Pulled, PadTypes
  <2> QED BY <1>0, <2>1, <2>2, <2>3, <2>4 DEF PadInv, PadTypes, PressesOwed
<1> QED BY <1>1, <1>2, <1>3, <1>4, <1>5, <1>6, <1>7 DEF Pad!Next

(* What a step sends was owed before it.                                   *)
LEMMA PadSends ==
    ASSUME PadInv, Pad!Next
    PROVE  Pad!NoPhantom
<1>0. /\ PadTypes /\ PressesOwed /\ None \notin Direction
      /\ Direction \cap {"south", "trigger"} = {}
  BY MCStepsAssumption DEF PadInv, MCStepsAssumption, Pad!GamepadAssumption
<1>1. CASE s8' = <<>>
  <2>1. \A b \in Buttons : s9[b] >= 0
    BY <1>0 DEF PadTypes
  <2>2. \A b \in Pad!Press \cup Direction : Pad!Sent(s8', b) = 0
    BY <1>1, NothingSent
  <2> QED BY <2>1, <2>2 DEF Pad!NoPhantom, Pad!Press, Buttons
<1>2. CASE Pad!Poll /\ s8' # <<>>
  <2>1. PICK fires :
              /\ s7' = Pad!Pulled(s7, s1.travel)
              /\ s8' = Pad!Pressed(s2)
                       \o (IF s7' /\ ~s7 THEN <<Pad!Event("trigger", FALSE)>> ELSE <<>>)
                       \o fires
              /\ \/ fires = <<>>
                 \/ /\ s1.direction \in Direction
                    /\ \/ /\ s1.direction # s6.direction
                          /\ fires = <<Pad!Event(s1.direction, FALSE)>>
                       \/ fires = <<Pad!Event(s1.direction, TRUE)>>
    BY <1>2, PollDoes
  <2> DEFINE E == [button : Buttons, repeat : BOOLEAN]
             n == Len(s2)
  <2>2. PICK a : a = Pad!Pressed(s2)
    OBVIOUS
  <2>3. PICK c : c = IF s7' /\ ~s7 THEN <<Pad!Event("trigger", FALSE)>> ELSE <<>>
    OBVIOUS
  <2>n. n \in Nat /\ DOMAIN s2 = 1 .. n /\ \A i \in 1 .. n : s2[i] = "south"
    BY <1>0 DEF PadTypes
  <2>e. \A b \in Buttons, rep \in BOOLEAN :
           /\ Pad!Event(b, rep) \in E
           /\ Pad!Event(b, rep).button = b /\ Pad!Event(b, rep).repeat = rep
    BY DEF Pad!Event
  <2>4. n \in Nat /\ a \in Seq(E) /\ Len(a) = n /\ \A i \in 1 .. n : a[i].button = "south"
    <3>1. a = [i \in 1 .. n |-> Pad!Event(s2[i], FALSE)]
      BY <2>2, <2>n DEF Pad!Pressed
    <3>2. \A i \in 1 .. n : a[i] \in E /\ a[i].button = "south"
      BY <2>e, <2>n, <3>1 DEF Buttons
    <3> HIDE DEF E, n
    <3>3. a \in [1 .. n -> E]
      BY <3>1, <3>2
    <3>4. a \in Seq(E) /\ Len(a) = n
      BY <2>n, <3>3
    <3> QED BY <2>n, <3>2, <3>4
  <2>5. /\ c \in Seq(E) /\ Len(c) \in {0, 1}
        /\ \A i \in 1 .. Len(c) : c[i].button = "trigger"
        /\ Len(c) = 1 => s7' /\ ~s7
    <3>1. PICK x : x = Pad!Event("trigger", FALSE)
      OBVIOUS
    <3>2. x \in E /\ x.button = "trigger"
      BY <2>e, <3>1 DEF Buttons
    <3>3. c = <<>> \/ (c = <<x>> /\ s7' /\ ~s7)
      BY Zenon, <2>3, <3>1
    <3> HIDE DEF E, n
    <3>4. CASE c = <<>>
      BY <3>4
    <3>5. CASE c = <<x>> /\ s7' /\ ~s7
      BY <3>2, <3>5
    <3> QED BY <3>3, <3>4, <3>5
  <2>6. /\ fires \in Seq(E) /\ Len(fires) \in {0, 1}
        /\ \A i \in 1 .. Len(fires) : fires[i].button = s1.direction /\ s1.direction \in Direction
        /\ \A i \in 1 .. Len(fires) : fires[i].repeat \/ s1.direction # s6.direction
    <3>1. CASE fires = <<>>
      <4> HIDE DEF E
      <4> QED BY <3>1
    <3>2. ASSUME NEW rep \in BOOLEAN, fires = <<Pad!Event(s1.direction, rep)>>,
                 s1.direction \in Direction, rep \/ s1.direction # s6.direction
          PROVE  /\ fires \in Seq(E) /\ Len(fires) \in {0, 1}
                 /\ \A i \in 1 .. Len(fires) :
                       fires[i].button = s1.direction /\ s1.direction \in Direction
                 /\ \A i \in 1 .. Len(fires) : fires[i].repeat \/ s1.direction # s6.direction
      <4>1. PICK x : x = Pad!Event(s1.direction, rep)
        OBVIOUS
      <4>2. x \in E /\ x.button = s1.direction /\ x.repeat = rep
        BY <2>e, <3>2, <4>1 DEF Buttons
      <4>3. fires = <<x>>
        BY Zenon, <3>2, <4>1
      <4> HIDE DEF E
      <4> QED BY <3>2, <4>2, <4>3
    <3> QED BY <2>1, <3>1, <3>2
  <2>7. PICK m : m = Len(c)
    OBVIOUS
  <2>8. PICK q : q = Len(fires)
    OBVIOUS
  <2>9. PICK events : events = a \o c \o fires
    OBVIOUS
  <2>10. /\ s8' = events /\ DOMAIN events = 1 .. n + m + q
         /\ \A i \in 1 .. n : events[i] = a[i]
         /\ \A i \in 1 .. m : events[n + i] = c[i]
         /\ \A i \in 1 .. q : events[n + m + i] = fires[i]
    <3> HIDE DEF E, n
    <3>1. s8' = events
      BY <2>1, <2>2, <2>3, <2>9
    <3>2. PICK ac : ac = a \o c
      OBVIOUS
    <3>3. n \in Nat /\ m \in {0, 1} /\ q \in {0, 1}
      BY <2>4, <2>5, <2>6, <2>7, <2>8
    <3>4. /\ ac \in Seq(E) /\ Len(ac) = n + m
          /\ \A i \in 1 .. n : ac[i] = a[i]
          /\ \A i \in 1 .. m : ac[n + i] = c[i]
      BY <2>4, <2>5, <2>7, <3>2, <3>3
    <3>5. events = ac \o fires
      BY <2>9, <3>2
    <3>6. /\ events \in Seq(E) /\ Len(events) = n + m + q
          /\ \A i \in 1 .. n + m : events[i] = ac[i]
          /\ \A i \in 1 .. q : events[n + m + i] = fires[i]
      <4>1. PICK p \in Nat : p = n + m
        BY <3>3
      <4>2. Len(ac) = p /\ Len(fires) = q /\ q \in Nat
        BY <2>8, <3>3, <3>4, <4>1
      <4>3. /\ events \in Seq(E) /\ Len(events) = p + q
            /\ \A i \in 1 .. p : events[i] = ac[i]
            /\ \A i \in 1 .. q : events[p + i] = fires[i]
        BY <2>6, <3>4, <3>5, <4>2
      <4> QED BY <4>1, <4>3
    <3>7. DOMAIN events = 1 .. n + m + q
      BY <3>3, <3>6
    <3>8. \A i \in 1 .. n : i \in 1 .. n + m
      BY <3>3
    <3>9. \A i \in 1 .. m : n + i \in 1 .. n + m
      BY <3>3
    <3> QED BY <3>1, <3>4, <3>6, <3>7, <3>8, <3>9
  <2> HIDE DEF E
  <2>11. n \in Nat /\ m \in Nat /\ q \in Nat /\ m <= 1 /\ q <= 1
    BY <2>4, <2>5, <2>6, <2>7, <2>8
  <2>12. \A i \in 1 .. n + m + q : \/ i \in 1 .. n
                                   \/ \E j \in 1 .. m : i = n + j
                                   \/ \E j \in 1 .. q : i = n + m + j
    <3> HIDE DEF n
    <3> TAKE i \in 1 .. n + m + q
    <3>1. CASE i <= n
      BY <2>11, <3>1
    <3>2. CASE i > n /\ i <= n + m
      <4>1. i - n \in 1 .. m /\ i = n + (i - n)
        BY <2>11, <3>2
      <4> QED BY <4>1
    <3>3. CASE i > n + m
      <4>1. i - (n + m) \in 1 .. q /\ i = n + m + (i - (n + m))
        BY <2>11, <3>3
      <4> QED BY <4>1
    <3> QED BY <2>11, <3>1, <3>2, <3>3
  <2>13. \A i \in DOMAIN s8' :
            \/ i \in 1 .. n /\ s8'[i].button = "south"
            \/ i \in n + 1 .. n + m /\ s8'[i].button = "trigger"
            \/ /\ i \in n + m + 1 .. n + m + q /\ s8'[i].button = s1.direction
               /\ s1.direction \in Direction
               /\ s8'[i].repeat \/ s1.direction # s6.direction
    <3> HIDE DEF n
    <3> TAKE i \in DOMAIN s8'
    <3>0. i \in 1 .. n + m + q
      BY <2>10
    <3>1. CASE i \in 1 .. n
      BY <2>4, <2>10, <3>1
    <3>2. ASSUME NEW j \in 1 .. m, i = n + j
          PROVE  i \in n + 1 .. n + m /\ s8'[i].button = "trigger"
      BY <2>5, <2>7, <2>10, <2>11, <3>2
    <3>3. ASSUME NEW j \in 1 .. q, i = n + m + j
          PROVE  /\ i \in n + m + 1 .. n + m + q /\ s8'[i].button = s1.direction
                 /\ s1.direction \in Direction
                 /\ s8'[i].repeat \/ s1.direction # s6.direction
      BY <2>6, <2>8, <2>10, <2>11, <3>3
    <3> QED BY <2>12, <3>0, <3>1, <3>2, <3>3
  <2> HIDE DEF n
  <2>14. ASSUME NEW b \in Pad!Press \cup Direction
         PROVE  Pad!Sent(s8', b) <= s9[b]
    <3>1. b = "south" \/ b = "trigger" \/ b \in Direction
      BY DEF Pad!Press
    <3>2. \A i \in DOMAIN s8' : s8'[i] = Pad!Event(b, FALSE) =>
             s8'[i].button = b /\ ~s8'[i].repeat
      BY DEF Pad!Event
    <3>3. s9[b] \in Nat
      BY <1>0, <3>1 DEF PadTypes, Buttons
    <3>4. CASE b = "south"
      <4>0. 1 .. n = 0 + 1 .. 0 + n
        BY <2>11
      <4>a. \A i \in DOMAIN s8' : s8'[i] = Pad!Event(b, FALSE) => i \in 1 .. n
        BY <1>0, <2>13, <3>2, <3>4
      <4>1. \A i \in DOMAIN s8' : s8'[i] = Pad!Event(b, FALSE) => i \in 0 + 1 .. 0 + n
        BY <4>0, <4>a
      <4>2. Pad!Sent(s8', b) \in Nat /\ Pad!Sent(s8', b) <= n
        BY <2>11, <4>1, SentAtMost
      <4> QED BY <1>0, <2>11, <3>3, <3>4, <4>2 DEF PressesOwed, n
    <3>5. CASE b = "trigger"
      <4>1. \A i \in DOMAIN s8' : s8'[i] = Pad!Event(b, FALSE) => i \in n + 1 .. n + m
        BY <1>0, <2>11, <2>13, <3>2, <3>5
      <4>2. Pad!Sent(s8', b) \in Nat /\ Pad!Sent(s8', b) <= m
        BY <2>11, <4>1, SentAtMost
      <4>3. m = 1 => s9[b] = 1
        <5>1. m = 1 => ~s7 /\ s7'
          BY <2>5, <2>7
        <5>2. s7' /\ ~s7 => s1.travel # 0
          BY <1>0, <2>1 DEF Pad!Pulled, PadTypes
        <5> QED BY <1>0, <3>5, <5>1, <5>2 DEF PressesOwed
      <4> QED BY <2>11, <3>3, <4>2, <4>3
    <3>6. CASE b \in Direction
      <4>1. \A i \in DOMAIN s8' : s8'[i] = Pad!Event(b, FALSE) =>
               i \in (n + m) + 1 .. (n + m) + q /\ s1.direction = b /\ b # s6.direction
        BY <1>0, <2>11, <2>13, <3>2, <3>6
      <4>2. CASE s1.direction = b /\ b # s6.direction
        <5>1. n + m \in Nat
          BY <2>11
        <5>2. Pad!Sent(s8', b) \in Nat /\ Pad!Sent(s8', b) <= q
          BY <2>11, <4>1, <5>1, SentAtMost
        <5>3. s9[b] = 1
          BY <1>0, <3>6, <4>2 DEF PressesOwed
        <5> QED BY <2>11, <5>2, <5>3
      <4>3. CASE ~(s1.direction = b /\ b # s6.direction)
        <5>1. \A i \in DOMAIN s8' : s8'[i] = Pad!Event(b, FALSE) => i \in 0 + 1 .. 0 + 0
          BY <4>1, <4>3
        <5>2. Pad!Sent(s8', b) \in Nat /\ Pad!Sent(s8', b) <= 0
          BY <5>1, SentAtMost
        <5> QED BY <3>3, <5>2
      <4> QED BY <4>2, <4>3
    <3> QED BY <3>1, <3>4, <3>5, <3>6
  <2> QED BY <2>14 DEF Pad!NoPhantom
<1>3. CASE ~Pad!Poll
  BY <1>1, <1>3 DEF Pad!Next, Pad!Plug, Pad!PushButton, Pad!MoveTrigger, Pad!Hold, Pad!Focus,
     Pad!Enable, Pad!PollNothing, Pad!Quiet
<1> QED BY <1>1, <1>2, <1>3

(* Every press the page is told of was made.                               *)
THEOREM NoPhantomHolds == Spec => NoPhantom
<1> DEFINE Inv == part = "gamepad" => PadInv
<1>1. Init => Inv
  <2> SUFFICES ASSUME Pad!Init
               PROVE  PadInv
    BY DEF Init
  <2> USE MCStepsAssumption DEF MCStepsAssumption, Pad!GamepadAssumption
  <2>1. PICK t \in {"axis"} :
          s1 = [attached |-> FALSE, trigger |-> t, travel |-> 0, direction |-> None]
    BY DEF Pad!Init
  <2>2. /\ s2 = <<>> /\ s6 = Pad!Idle /\ s7 = FALSE
        /\ s9 = [p \in Pad!Press \cup Direction |-> 0]
    BY DEF Pad!Init
  <2>3. s9 \in [Buttons -> Nat] /\ s9["south"] = 0
    BY <2>2 DEF Buttons, Pad!Press
  <2>4. /\ s1.travel = 0 /\ s1.direction = None
        /\ s1 \in [attached : BOOLEAN, trigger : {"axis"}, travel : 0 .. 3,
                   direction : Direction \cup {None}]
    BY <2>1
  <2>5. s6 \in [direction : Direction \cup {None}, since : Nat, fired : Nat]
    BY <2>2 DEF Pad!Idle
  <2>6. s2 = <<>> /\ s7 = FALSE
    BY Zenon, <2>2
  <2>7. s2 \in Seq({"south"}) /\ Len(s2) = 0
    BY <2>6
  <2>8. PadTypes
    BY <2>3, <2>4, <2>5, <2>6, <2>7 DEF PadTypes
  <2> QED BY <2>3, <2>4, <2>7, <2>8 DEF PadInv, PressesOwed
<1>2. Inv /\ [Next]_vars => Inv'
  <2> SUFFICES ASSUME Inv, [Next]_vars, part = "gamepad"
               PROVE  PadInv'
    BY PartStays
  <2>1. CASE Next
    BY <2>1, OnlyItsSteps, PadStays
  <2>2. CASE UNCHANGED vars
    BY <2>2 DEF vars, PadInv, PadTypes, PressesOwed
  <2> QED BY <2>1, <2>2
<1>3. Inv /\ [Next]_vars => [part = "gamepad" => Pad!NoPhantom]_vars
  BY OnlyItsSteps, PadSends
<1> QED BY <1>1, <1>2, <1>3, PTL DEF Spec, NoPhantom
-----------------------------------------------------------------------------
(* The image cache.                                                        *)

CacheEntry == [key : Images!Key, size : 0 .. 2, used : Nat]

Waits == {"idle", "get", "touch", "set", "fetch", "put", "write", "turn", "scale"}

CacheTypes ==
    /\ s1 \in [Images!Key -> {None} \cup [len : 0 .. 2, used : Nat]]
    /\ s2 \in Nat
    /\ s3 \in [ImageRequest -> [at : Waits, of : Images!Key \cup {None},
                                key : Images!Key \cup {None}, len : 0 .. 2,
                                open : BOOLEAN, again : BOOLEAN]]
    /\ \A r \in ImageRequest :
           s3[r].at # "idle" => s3[r].key \in Images!Key /\ s3[r].of \in Images!Key
    /\ s4 \in [at : {"start", "listed", "done"}, listed : SUBSET CacheEntry,
               left : SUBSET CacheEntry, gone : SUBSET CacheEntry]
    /\ s5 \in Nat

(* Each use of a file has a time of its own.                               *)
UsesDiffer ==
    /\ \A k \in Images!Key : s1[k] # None => s1[k].used <= s2
    /\ \A j, k \in Images!Key :
           (s1[j] # None /\ s1[k] # None /\ s1[j].used = s1[k].used) => j = k

(* A file that a request has open is there.                               *)
OpenIsThere ==
    \A r \in ImageRequest :
        s3[r].open => s3[r].at \in {"set", "write"} /\ s1[s3[r].key] # None

(* What was listed is told apart by file and by use; what is still to see  *)
(* was used later than what was removed; and unless something failed it is *)
(* all that was not removed, and there.                                    *)
PruneInOrder ==
    /\ s4.at = "start" => s4.listed = {} /\ s4.left = {} /\ s4.gone = {}
    /\ s4.left \cup s4.gone \subseteq s4.listed /\ s4.left \cap s4.gone = {}
    /\ IsFiniteSet(s4.listed)
    /\ \A e, f \in s4.listed : (e.used = f.used \/ e.key = f.key) => e = f
    /\ \A g \in s4.gone, l \in s4.left : g.used <= l.used
    /\ s5 = 0 => s4.left = s4.listed \ s4.gone /\ \A e \in s4.left : s1[e.key] # None

CacheInv ==
    CacheTypes /\ UsesDiffer /\ OpenIsThere /\ PruneInOrder /\ Images!PrunedLeastRecent

LEMMA CountsAlike ==
    ASSUME NEW S
    PROVE  Images!Cardinality(S) = Cardinality(S)
BY DEF Cardinality, Images!Cardinality

(* Parts of a listing take what they take together.                        *)
LEMMA BytesSplit ==
    ASSUME NEW L \in SUBSET CacheEntry, IsFiniteSet(L), NEW G \in SUBSET L
    PROVE  /\ Images!Bytes(L) = Images!Bytes(G) + Images!Bytes(L \ G)
           /\ Images!Bytes(G) \in Nat /\ Images!Bytes(L \ G) \in Nat
           /\ Images!Bytes({}) = 0
<1> DEFINE Of(S) == {b \in S \X (1 .. 2) : b[2] <= b[1].size}
<1>1. IsFiniteSet(L \X (1 .. 2))
  <2>1. IsFiniteSet(1 .. 2)
    BY FS_Interval, 1 \in Int, 2 \in Int
  <2> QED BY <2>1, FS_Product
<1>2. IsFiniteSet(Of(G)) /\ IsFiniteSet(Of(L \ G))
  <2>1. Of(G) \in SUBSET (L \X (1 .. 2)) /\ Of(L \ G) \in SUBSET (L \X (1 .. 2))
    OBVIOUS
  <2> HIDE DEF Of
  <2> QED BY <1>1, <2>1, FS_Subset
<1>3. Of(L) = Of(G) \cup Of(L \ G) /\ Of(G) \cap Of(L \ G) = {} /\ Of({}) = {}
  OBVIOUS
<1>4. \A S : Images!Bytes(S) = Cardinality(Of(S))
  BY CountsAlike DEF Images!Bytes
<1> HIDE DEF Of
<1>5. /\ Cardinality(Of(L)) = Cardinality(Of(G)) + Cardinality(Of(L \ G)) - Cardinality({})
      /\ Cardinality(Of(G)) \in Nat /\ Cardinality(Of(L \ G)) \in Nat
  BY <1>2, <1>3, FS_Union, FS_CardinalityType
<1> QED BY <1>3, <1>4, <1>5, FS_EmptySet

(* The cache starts with its invariant.                                    *)
LEMMA CacheInit == Images!Init => CacheInv
<1> SUFFICES ASSUME Images!Init PROVE CacheInv
  OBVIOUS
<1>1. CacheTypes
  BY DEF Images!Init, Images!Idle, CacheTypes, Waits
<1>2. UsesDiffer
  BY DEF Images!Init, UsesDiffer
<1>3. PruneInOrder
  BY FS_EmptySet DEF Images!Init, PruneInOrder
<1>4. Images!PrunedLeastRecent
  BY DEF Images!Init, Images!PrunedLeastRecent
<1>5. OpenIsThere
  BY DEF Images!Init, Images!Idle, OpenIsThere
<1> QED BY <1>1, <1>2, <1>3, <1>4, <1>5 DEF CacheInv

(* A step that is not the pruner's removes nothing unless it counts as a   *)
(* fault, so it leaves the pruner's order as it was.                       *)
LEMMA PrunerWaits ==
    ASSUME CacheInv, UNCHANGED s4, s5' \in Nat,
           s5' = 0 => s5 = 0 /\ \A k \in Images!Key : s1[k] # None => s1'[k] # None
    PROVE  PruneInOrder' /\ Images!PrunedLeastRecent'
<1>1. \A e \in s4.left : e.key \in Images!Key
  BY DEF CacheInv, CacheTypes, CacheEntry
<1>2. PruneInOrder'
  BY <1>1 DEF CacheInv, PruneInOrder
<1>3. Images!PrunedLeastRecent'
  BY DEF CacheInv, Images!PrunedLeastRecent, Images!Bytes
<1> QED BY <1>2, <1>3

(* So do requests, each of which has one file in hand.                     *)
LEMMA RequestStays ==
    ASSUME CacheInv, NEW r \in ImageRequest,
           \/ \E key \in Images!Key : Images!Ask(r, key)
           \/ Images!Hit(r) \/ Images!Miss(r) \/ Images!TouchReads(r) \/ Images!TouchSets(r)
           \/ Images!Answered(r) \/ Images!Unanswered(r)
           \/ Images!PutOpens(r) \/ Images!PutWrites(r) \/ Images!PutEnds(r)
           \/ Images!TakeTurn(r) \/ Images!Scale(r)
    PROVE  CacheInv'
<1> USE MCStepsAssumption DEF MCStepsAssumption, Images!ImageCacheAssumption
<1>1. CacheTypes /\ UsesDiffer /\ OpenIsThere
  BY DEF CacheInv
<1> DEFINE Fits(q) ==
          /\ q \in [at : Waits, of : Images!Key \cup {None}, key : Images!Key \cup {None},
                   len : 0 .. 2, open : BOOLEAN, again : BOOLEAN]
          /\ q.at # "idle" => q.key \in Images!Key /\ q.of \in Images!Key
<1>2. ASSUME NEW q, Fits(q), s3' = [s3 EXCEPT ![r] = q], UNCHANGED <<s1, s2, s4>>,
             s5' \in Nat, s5' = 0 => s5 = 0,
             q.open => q.at \in {"set", "write"} /\ s1[q.key] # None
      PROVE  CacheInv'
  <2>1. PruneInOrder' /\ Images!PrunedLeastRecent'
    BY <1>2, PrunerWaits
  <2>2. CacheTypes'
    BY <1>1, <1>2 DEF CacheTypes
  <2>3. UsesDiffer' /\ OpenIsThere'
    BY <1>1, <1>2 DEF CacheTypes, UsesDiffer, OpenIsThere
  <2> QED BY <2>1, <2>2, <2>3 DEF CacheInv
<1>3. ASSUME NEW key \in Images!Key, Images!Ask(r, key)
      PROVE  CacheInv'
  <2>1. PICK q : q = [Images!Idle EXCEPT !.at = "get", !.of = key, !.key = key]
    OBVIOUS
  <2>2. s3' = [s3 EXCEPT ![r] = q] /\ UNCHANGED <<s1, s2, s4, s5>>
    BY <1>3, <2>1 DEF Images!Ask
  <2>3. Fits(Images!Idle) /\ ~Images!Idle.open
    BY DEF Images!Idle, Waits
  <2>4. Fits(q) /\ ~q.open
    BY <2>1, <2>3 DEF Waits
  <2> HIDE DEF Fits
  <2> QED BY <1>1, <1>2, <2>2, <2>4 DEF CacheTypes
<1>4. ASSUME NEW to \in Waits, s3[r].at # "idle", ~s3[r].open, to # "idle",
             s3' = [s3 EXCEPT ![r].at = to], UNCHANGED <<s1, s2, s4, s5>>
      PROVE  CacheInv'
  <2> DEFINE q == [s3[r] EXCEPT !.at = to]
  <2>1. s3' = [s3 EXCEPT ![r] = q] /\ Fits(q) /\ ~q.open
    BY <1>1, <1>4 DEF CacheTypes
  <2> HIDE DEF q
  <2> QED BY <1>1, <1>2, <1>4, <2>1 DEF CacheTypes
<1>5. CASE Images!Hit(r) \/ Images!Answered(r)
  BY <1>1, <1>4, <1>5 DEF Images!Hit, Images!Answered, Images!At, Images!Goes, Waits, OpenIsThere
<1>6. ASSUME s3' = [s3 EXCEPT ![r] = Images!Idle], UNCHANGED <<s1, s2, s4>>,
             s5' \in Nat, s5' = 0 => s5 = 0
      PROVE  CacheInv'
  <2>1. Fits(Images!Idle) /\ ~Images!Idle.open
    BY DEF Images!Idle, Waits
  <2> QED BY <1>2, <1>6, <2>1
<1>7. CASE Images!Unanswered(r)
  BY <1>1, <1>6, <1>7 DEF Images!Unanswered, Images!Fault, CacheTypes
<1>8. CASE Images!Scale(r)
  BY <1>1, <1>4, <1>6, <1>8
  DEF Images!Scale, Images!At, Images!Goes, Waits, OpenIsThere, CacheTypes
<1>9. CASE Images!TakeTurn(r)
  <2>1. PICK q : q = [s3[r] EXCEPT !.at = "get", !.key = s3[r].of, !.again = TRUE]
    OBVIOUS
  <2>2. /\ s3' = [s3 EXCEPT ![r] = q]
        /\ s3[r].at = "turn" /\ UNCHANGED <<s1, s2, s4, s5>>
    BY <1>1, <1>9, <2>1 DEF Images!TakeTurn, Images!At, CacheTypes
  <2>3. s3[r].of \in Images!Key /\ ~s3[r].open
    BY <1>1, <2>2 DEF CacheTypes, OpenIsThere
  <2>4. Fits(q) /\ ~q.open
    BY <1>1, <2>1, <2>3 DEF CacheTypes, Waits
  <2> HIDE DEF Fits
  <2> QED BY <1>1, <1>2, <2>2, <2>4 DEF CacheTypes
<1>10. CASE Images!Miss(r)
  <2>1. /\ s3[r].at = "get" /\ UNCHANGED <<s1, s2, s4, s5>>
        /\ s3[r].key \in Images!Key /\ s3[r].of \in Images!Key /\ ~s3[r].open
    BY <1>1, <1>10 DEF Images!Miss, Images!At, CacheTypes, OpenIsThere
  <2>2. CASE s3[r].again
    <3>1. s3' = [s3 EXCEPT ![r].at = "scale"]
      BY <1>1, <1>10, <2>2 DEF Images!Miss, CacheTypes
    <3> QED BY <1>4, <2>1, <3>1 DEF Waits
  <2>3. CASE ~s3[r].again /\ s3[r].key[2] = "small"
    <3>1. PICK full : full = <<s3[r].key[1], "full">>
      OBVIOUS
    <3>2. PICK q : q = [s3[r] EXCEPT !.key = full]
      OBVIOUS
    <3>6. s3[r].key = <<s3[r].key[1], s3[r].key[2]>>
      BY <2>1 DEF Images!Key
    <3>7. PICK p : p = IF s3[r].again THEN [s3[r] EXCEPT !.at = "scale"]
                       ELSE IF s3[r].key[2] = "small"
                            THEN [s3[r] EXCEPT !.key = <<s3[r].key[1], "full">>]
                       ELSE [s3[r] EXCEPT !.at = "fetch"]
      OBVIOUS
    <3>8. s3' = [s3 EXCEPT ![r] = p]
      BY <1>1, <1>10, <3>7, Zenon DEF Images!Miss, CacheTypes
    <3>3. s3' = [s3 EXCEPT ![r] = q]
      BY <2>3, <3>1, <3>2, <3>7, <3>8
    <3>4. full \in Images!Key
      BY <2>1, <3>1 DEF Images!Key
    <3>5. Fits(q) /\ ~q.open
      BY <1>1, <2>1, <3>2, <3>4 DEF CacheTypes
    <3> HIDE DEF Fits
    <3> QED BY <1>1, <1>2, <2>1, <3>3, <3>5 DEF CacheTypes
  <2>4. CASE ~s3[r].again /\ s3[r].key[2] # "small"
    <3>1. s3' = [s3 EXCEPT ![r].at = "fetch"]
      BY <1>1, <1>10, <2>4 DEF Images!Miss, CacheTypes
    <3> QED BY <1>4, <2>1, <3>1 DEF Waits
  <2> QED BY <2>2, <2>3, <2>4
<1>11. CASE Images!TouchReads(r)
  <2>1. PICK there : there = s1[s3[r].key]
    OBVIOUS
  <2>2. PICK open \in BOOLEAN : open <=> there # None
    OBVIOUS
  <2>3. PICK len : len = IF there = None THEN 0 ELSE there.len
    OBVIOUS
  <2>4. PICK q : q = [s3[r] EXCEPT !.at = "set", !.open = open, !.len = len]
    OBVIOUS
  <2>5. /\ s3[r].key \in Images!Key /\ s3[r].of \in Images!Key
        /\ UNCHANGED <<s1, s2, s4, s5>>
    BY <1>1, <1>11 DEF Images!TouchReads, Images!At, CacheTypes
  <2>6. s3' = [s3 EXCEPT ![r].at = "set", ![r].open = there # None, ![r].len = len]
    BY <1>11, <2>1, <2>3, Zenon DEF Images!TouchReads
  <2>7. s3' = [s3 EXCEPT ![r] = q]
    BY <1>1, <2>2, <2>4, <2>6 DEF CacheTypes
  <2>8. len \in 0 .. 2
    BY <1>1, <2>1, <2>3, <2>5 DEF CacheTypes
  <2>9. Fits(q) /\ q.at = "set" /\ q.key = s3[r].key /\ (q.open <=> open)
    BY <1>1, <2>4, <2>5, <2>8 DEF CacheTypes, Waits
  <2> HIDE DEF Fits
  <2> QED BY <1>1, <1>2, <2>1, <2>2, <2>5, <2>7, <2>9 DEF CacheTypes
<1>12. ASSUME Images!Served(r), s3[r].at \in {"set", "write"}
       PROVE  \E q : /\ s3' = [s3 EXCEPT ![r] = q] /\ Fits(q) /\ ~q.open
  <2>1. PICK q : /\ s3' = [s3 EXCEPT ![r] = q]
                 /\ q \in {Images!Idle, [s3[r] EXCEPT !.at = "turn", !.open = FALSE]}
    BY <1>1, <1>12 DEF Images!Served, CacheTypes
  <2>2. Fits(q) /\ ~q.open
    <3>1. CASE q = Images!Idle
      BY <3>1 DEF Waits, Images!Idle
    <3>2. CASE q = [s3[r] EXCEPT !.at = "turn", !.open = FALSE]
      <4>1. q = [at |-> "turn", of |-> s3[r].of, key |-> s3[r].key, len |-> s3[r].len,
                 open |-> FALSE, again |-> s3[r].again]
        BY <1>1, <3>2 DEF CacheTypes
      <4> QED BY <1>1, <1>12, <4>1 DEF CacheTypes, Waits
    <3> QED BY <2>1, <3>1, <3>2
  <2> QED BY <2>1, <2>2
<1>13. CASE Images!PutEnds(r)
  <2>1. Images!Served(r) /\ s3[r].at = "write" /\ UNCHANGED <<s1, s2, s4, s5>>
    BY <1>13 DEF Images!PutEnds, Images!At
  <2>2. PICK q : s3' = [s3 EXCEPT ![r] = q] /\ Fits(q) /\ ~q.open
    BY <1>12, <2>1
  <2> HIDE DEF Fits
  <2> QED BY <1>1, <1>2, <2>1, <2>2 DEF CacheTypes
(* A file that is written is there from then on, under a use of its own.   *)
<1>14. ASSUME NEW key \in Images!Key, NEW entry \in [len : 0 .. 2, used : Nat],
              s1' = [s1 EXCEPT ![key] = entry],
              \/ entry.used = s2 + 1 /\ s2' = s2 + 1
              \/ s1[key] # None /\ entry.used = s1[key].used /\ s2' = s2,
              NEW q, Fits(q), s3' = [s3 EXCEPT ![r] = q], UNCHANGED <<s4, s5>>,
              q.open => q.at \in {"set", "write"} /\ q.key = key
       PROVE  CacheInv'
  <2>1. /\ entry # None /\ s1'[key] = entry
        /\ \A k \in Images!Key \ {key} : s1'[k] = s1[k]
    BY <1>1, <1>14 DEF CacheTypes
  <2>2. \A k \in Images!Key : s1[k] # None => s1'[k] # None
    BY <2>1
  <2>3. PruneInOrder' /\ Images!PrunedLeastRecent'
    BY <1>1, <1>14, <2>2, PrunerWaits DEF CacheTypes
  <2>4. CacheTypes'
    BY <1>1, <1>14 DEF CacheTypes
  <2>5. UsesDiffer'
    BY <1>1, <1>14, <2>1 DEF CacheTypes, UsesDiffer
  <2>6. OpenIsThere'
    <3>1. ASSUME NEW x \in ImageRequest \ {r}, s3'[x].open
          PROVE  s3'[x].at \in {"set", "write"} /\ s1'[s3'[x].key] # None
      <4>1. s3'[x] = s3[x]
        BY <1>1, <1>14 DEF CacheTypes
      <4>2. s3[x].at \in {"set", "write"} /\ s1[s3[x].key] # None /\ s3[x].key \in Images!Key
        BY <1>1, <3>1, <4>1 DEF CacheTypes, OpenIsThere
      <4> QED BY <2>2, <4>1, <4>2
    <3>2. s3'[r] = q
      BY <1>1, <1>14 DEF CacheTypes
    <3> QED BY <1>14, <2>1, <3>1, <3>2 DEF OpenIsThere
  <2> QED BY <2>3, <2>4, <2>5, <2>6 DEF CacheInv
<1>15. CASE Images!TouchSets(r)
  <2>1. Images!Served(r) /\ s3[r].at = "set" /\ UNCHANGED <<s4, s5>>
    BY <1>15 DEF Images!TouchSets, Images!At
  <2>2. PICK q : s3' = [s3 EXCEPT ![r] = q] /\ Fits(q) /\ ~q.open
    BY <1>12, <2>1
  <2>3. CASE s3[r].open
    <3>1. PICK entry : entry = [len |-> s3[r].len, used |-> s2 + 1]
      OBVIOUS
    <3>2. /\ s1' = [s1 EXCEPT ![s3[r].key] = entry] /\ s2' = s2 + 1
          /\ s3[r].key \in Images!Key /\ entry \in [len : 0 .. 2, used : Nat]
          /\ entry.used = s2 + 1
      BY <1>1, <1>15, <2>1, <2>3, <3>1 DEF Images!TouchSets, CacheTypes
    <3> HIDE DEF Fits
    <3> QED BY <1>14, <2>1, <2>2, <3>2
  <2>4. CASE ~s3[r].open
    <3>1. UNCHANGED <<s1, s2>>
      BY <1>15, <2>4 DEF Images!TouchSets
    <3> HIDE DEF Fits
    <3> QED BY <1>1, <1>2, <2>1, <2>2, <3>1 DEF CacheTypes
  <2> QED BY <2>3, <2>4
<1>16. CASE Images!PutOpens(r)
  <2>1. PICK entry : entry = [len |-> 0, used |-> s2 + 1]
    OBVIOUS
  <2>2. PICK q : q = [s3[r] EXCEPT !.at = "write", !.open = TRUE, !.len = 0]
    OBVIOUS
  <2>3. /\ s1' = [s1 EXCEPT ![s3[r].key] = entry] /\ s2' = s2 + 1
        /\ s3[r].key \in Images!Key /\ s3[r].of \in Images!Key
        /\ entry \in [len : 0 .. 2, used : Nat] /\ entry.used = s2 + 1
        /\ UNCHANGED <<s4, s5>>
    BY <1>1, <1>16, <2>1 DEF Images!PutOpens, Images!At, CacheTypes
  <2>6. s3' = [s3 EXCEPT ![r].at = "write", ![r].open = TRUE, ![r].len = 0]
    BY <1>16, Zenon DEF Images!PutOpens
  <2>4. s3' = [s3 EXCEPT ![r] = q]
    BY <1>1, <2>2, <2>6 DEF CacheTypes
  <2>5. Fits(q) /\ q.at = "write" /\ q.key = s3[r].key
    <3>1. s3[r] \in [at : Waits, of : Images!Key \cup {None}, key : Images!Key \cup {None},
                      len : 0 .. 2, open : BOOLEAN, again : BOOLEAN]
      BY <1>1 DEF CacheTypes
    <3>2. "write" \in Waits
      BY DEF Waits
    <3>4. PICK yes \in BOOLEAN : yes = TRUE
      OBVIOUS
    <3>5. PICK none \in 0 .. 2 : none = 0
      OBVIOUS
    <3>6. q = [s3[r] EXCEPT !.at = "write", !.open = yes, !.len = none]
      BY <2>2, <3>4, <3>5, Zenon
    <3>3. q \in [at : Waits, of : Images!Key \cup {None}, key : Images!Key \cup {None},
                len : 0 .. 2, open : BOOLEAN, again : BOOLEAN]
      BY <3>1, <3>2, <3>6
    <3> QED BY <2>2, <2>3, <3>1, <3>3
  <2> HIDE DEF Fits
  <2> QED BY <1>14, <2>3, <2>4, <2>5
<1>17. CASE Images!PutWrites(r)
  <2>1. PICK q : q = [s3[r] EXCEPT !.len = s3[r].len + 1]
    OBVIOUS
  <2>2. /\ s3[r].at = "write" /\ s3[r].len < Images!Size(s3[r].key)
        /\ s3' = [s3 EXCEPT ![r] = q] /\ UNCHANGED <<s2, s4, s5>>
        /\ s1' = IF s3[r].open
                  THEN [s1 EXCEPT ![s3[r].key].len = Images!Longer(@, s3[r].len + 1)] ELSE s1
    BY <1>1, <1>17, <2>1 DEF Images!PutWrites, Images!At, CacheTypes
  <2>3. s3[r].len + 1 \in 0 .. 2 /\ s3[r].key \in Images!Key /\ s3[r].of \in Images!Key
    BY <1>1, <2>2 DEF Images!Size, CacheTypes
  <2>4. Fits(q) /\ q.at = "write" /\ q.key = s3[r].key /\ (q.open <=> s3[r].open)
    BY <1>1, <2>1, <2>2, <2>3 DEF CacheTypes
  <2> HIDE DEF Fits
  <2>5. CASE s3[r].open
    <3>1. PICK there : there = s1[s3[r].key]
      OBVIOUS
    <3>2. there # None /\ there \in [len : 0 .. 2, used : Nat]
      BY <1>1, <2>3, <2>5, <3>1 DEF CacheTypes, OpenIsThere
    <3>3. PICK entry : entry = [there EXCEPT !.len = Images!Longer(there.len, s3[r].len + 1)]
      OBVIOUS
    <3>4. entry \in [len : 0 .. 2, used : Nat] /\ entry.used = there.used
      BY <2>3, <3>2, <3>3 DEF Images!Longer
    <3>5. s1' = [s1 EXCEPT ![s3[r].key] = entry]
      BY <1>1, <2>2, <2>3, <2>5, <3>1, <3>3 DEF CacheTypes
    <3> QED BY <1>14, <2>2, <2>3, <2>4, <3>1, <3>2, <3>4, <3>5
  <2>6. CASE ~s3[r].open
    BY <1>1, <1>2, <2>2, <2>4, <2>6 DEF CacheTypes
  <2> QED BY <2>5, <2>6
<1> QED BY <1>3, <1>5, <1>7, <1>8, <1>11, <1>13, <1>15, <1>16,
            <1>9, <1>10, <1>17

(* The listing is finite and tells the files apart.                        *)
LEMMA ListingInOrder ==
    ASSUME CacheTypes, UsesDiffer
    PROVE  /\ Images!Listed \in SUBSET CacheEntry /\ IsFiniteSet(Images!Listed)
           /\ \A e \in Images!Listed : s1[e.key] # None
           /\ \A e, f \in Images!Listed : (e.used = f.used \/ e.key = f.key) => e = f
<1> USE MCStepsAssumption DEF MCStepsAssumption, Images!ImageCacheAssumption
<1> DEFINE There == {k \in Images!Key : s1[k] # None}
           of == [k \in There |-> [key |-> k, size |-> s1[k].len, used |-> s1[k].used]]
<1>1. IsFiniteSet(There)
  <2>1. IsFiniteSet(Image) /\ IsFiniteSet({"full", "small"})
    <3>1. IsFiniteSet(Image)
      BY DEF IsFiniteSet, Images!IsFiniteSet
    <3>2. IsFiniteSet({"full"} \cup {"small"}) /\ {"full"} \cup {"small"} = {"full", "small"}
      BY FS_Singleton, FS_Union
    <3> QED BY <3>1, <3>2
  <2>2. IsFiniteSet(Images!Key)
    BY <2>1, FS_Product DEF Images!Key
  <2> QED BY <2>2, FS_Subset
<1>2. Images!Listed = {of[k] : k \in There}
  BY DEF Images!Listed
<1>3. of \in Surjection(There, Images!Listed)
  BY <1>2 DEF Surjection
<1>4. IsFiniteSet(Images!Listed)
  BY <1>1, <1>3, FS_Surjection
<1>5. \A k \in There : of[k] \in CacheEntry /\ of[k].key = k /\ of[k].used = s1[k].used
  BY DEF CacheTypes, CacheEntry
<1> HIDE DEF of
<1> QED BY <1>2, <1>4, <1>5 DEF UsesDiffer

(* The pruner's steps keep it: a file that goes is the one of the listing  *)
(* used last of those gone, so what stays together with it was too much.   *)
LEMMA PrunerStays ==
    ASSUME CacheInv,
           Images!PruneLists \/ Images!PruneRemoves \/ Images!PruneEnds \/ Images!Clear
    PROVE  CacheInv'
<1> USE MCStepsAssumption DEF MCStepsAssumption, Images!ImageCacheAssumption
<1>1. CacheTypes /\ UsesDiffer /\ OpenIsThere /\ PruneInOrder /\ Images!PrunedLeastRecent
  BY DEF CacheInv
<1>2. \A G \in SUBSET s4.listed :
          /\ Images!Bytes(s4.listed) = Images!Bytes(G) + Images!Bytes(s4.listed \ G)
          /\ Images!Bytes(G) \in Nat /\ Images!Bytes(s4.listed \ G) \in Nat
          /\ Images!Bytes({}) = 0
  BY <1>1, BytesSplit DEF CacheTypes, PruneInOrder
(* Files that are gone are gone for whoever had them open.                 *)
<1>3. ASSUME NEW away \in SUBSET Images!Key, UNCHANGED s2,
             DOMAIN s1' = Images!Key, s1' = [k \in Images!Key |-> s1'[k]],
             \A k \in Images!Key : s1'[k] = IF k \in away THEN None ELSE s1[k],
             s3' = [r \in ImageRequest |-> s3'[r]],
             \A r \in ImageRequest :
                 \/ s3'[r] = s3[r] /\ (s3[r].open => s3[r].key \notin away)
                 \/ s3'[r] = [s3[r] EXCEPT !.open = FALSE],
             s4' \in [at : {"start", "listed", "done"}, listed : SUBSET CacheEntry,
                      left : SUBSET CacheEntry, gone : SUBSET CacheEntry],
             s5' \in Nat
      PROVE  CacheTypes' /\ UsesDiffer' /\ OpenIsThere'
  <2>1. s1' \in [Images!Key -> {None} \cup [len : 0 .. 2, used : Nat]]
    BY <1>1, <1>3 DEF CacheTypes
  <2>2. ASSUME NEW r \in ImageRequest
        PROVE  /\ s3'[r] \in [at : Waits, of : Images!Key \cup {None}, key : Images!Key \cup {None},
                              len : 0 .. 2, open : BOOLEAN, again : BOOLEAN]
               /\ s3'[r].at = s3[r].at /\ s3'[r].key = s3[r].key /\ s3'[r].of = s3[r].of
               /\ s3'[r].open => s3[r].open /\ s3[r].key \notin away
    <3>1. s3[r] \in [at : Waits, of : Images!Key \cup {None}, key : Images!Key \cup {None},
                     len : 0 .. 2, open : BOOLEAN, again : BOOLEAN]
      BY <1>1 DEF CacheTypes
    <3>3. CASE s3'[r] = s3[r] /\ (s3[r].open => s3[r].key \notin away)
      BY <3>1, <3>3
    <3>4. CASE s3'[r] = [s3[r] EXCEPT !.open = FALSE]
      BY <3>1, <3>4
    <3> QED BY <1>3, <3>3, <3>4
  <2>3. CacheTypes'
    <3>1. s3' \in [ImageRequest -> [at : Waits, of : Images!Key \cup {None},
                                    key : Images!Key \cup {None}, len : 0 .. 2,
                                    open : BOOLEAN, again : BOOLEAN]]
      BY <1>3, <2>2
    <3> QED BY <1>1, <1>3, <2>1, <2>2, <3>1 DEF CacheTypes
  <2>4. UsesDiffer'
    BY <1>1, <1>3 DEF UsesDiffer
  <2>5. OpenIsThere'
    <3>1. ASSUME NEW r \in ImageRequest, s3'[r].open
          PROVE  s3'[r].at \in {"set", "write"} /\ s1'[s3'[r].key] # None
      <4>1. s3[r].at \in {"set", "write"} /\ s1[s3[r].key] # None /\ s3[r].key \notin away
        BY <1>1, <2>2, <3>1 DEF OpenIsThere
      <4>2. s3[r].key \in Images!Key
        BY <1>1, <4>1 DEF CacheTypes
      <4> QED BY <1>3, <2>2, <4>1, <4>2
    <3> QED BY <3>1 DEF OpenIsThere
  <2> QED BY <2>3, <2>4, <2>5
<1>4. ASSUME UNCHANGED <<s1, s2, s3>>,
             s4' \in [at : {"start", "listed", "done"}, listed : SUBSET CacheEntry,
                      left : SUBSET CacheEntry, gone : SUBSET CacheEntry],
             s5' \in Nat
      PROVE  CacheTypes' /\ UsesDiffer' /\ OpenIsThere'
  BY <1>1, <1>4 DEF CacheTypes, UsesDiffer, OpenIsThere
<1>5. CASE Images!PruneLists
  <2>1. /\ s4.at = "start" /\ UNCHANGED <<s1, s2, s3, s5>>
        /\ s4' = [at |-> "listed", listed |-> Images!Listed, left |-> Images!Listed, gone |-> {}]
    BY <1>5 DEF Images!PruneLists
  <2>2. /\ Images!Listed \in SUBSET CacheEntry /\ IsFiniteSet(Images!Listed)
        /\ \A e \in Images!Listed : s1[e.key] # None
        /\ \A e, f \in Images!Listed : (e.used = f.used \/ e.key = f.key) => e = f
    BY <1>1, ListingInOrder
  <2>3. CacheTypes' /\ UsesDiffer' /\ OpenIsThere'
    <3>1. s4' \in [at : {"start", "listed", "done"}, listed : SUBSET CacheEntry,
                   left : SUBSET CacheEntry, gone : SUBSET CacheEntry]
      BY <2>1, <2>2
    <3> QED BY <1>1, <1>4, <2>1, <3>1 DEF CacheTypes
  <2>4. PruneInOrder'
    BY <2>1, <2>2 DEF PruneInOrder
  <2>5. Images!PrunedLeastRecent'
    BY <2>1 DEF Images!PrunedLeastRecent
  <2> QED BY <2>3, <2>4, <2>5 DEF CacheInv
<1>6. CASE Images!PruneEnds
  <2>1. /\ s4.at = "listed" /\ (Images!StillOver => s4.left = {})
        /\ UNCHANGED <<s1, s2, s3, s5>>
        /\ s4' = [s4 EXCEPT !.at = "done"]
    BY <1>6 DEF Images!PruneEnds
  <2>2. /\ s4' \in [at : {"start", "listed", "done"}, listed : SUBSET CacheEntry,
                    left : SUBSET CacheEntry, gone : SUBSET CacheEntry]
        /\ s4'.at = "done" /\ s4'.listed = s4.listed /\ s4'.left = s4.left /\ s4'.gone = s4.gone
    BY <1>1, <2>1 DEF CacheTypes
  <2>3. CacheTypes' /\ UsesDiffer' /\ OpenIsThere'
    BY <1>1, <1>4, <2>1, <2>2 DEF CacheTypes
  <2>4. PruneInOrder'
    BY <1>1, <2>1, <2>2 DEF PruneInOrder
  <2>5. s5 = 0 => Images!Bytes(s4.listed \ s4.gone) <= MaxBytes
    <3>1. CASE Images!StillOver
      <4>1. s5 = 0 => s4.listed \ s4.gone = {}
        BY <1>1, <2>1, <3>1 DEF PruneInOrder
      <4> QED BY <1>2, <4>1
    <3>2. CASE ~Images!StillOver
      <4>1. s4.gone \in SUBSET s4.listed
        BY <1>1 DEF PruneInOrder
      <4>2. /\ Images!Bytes(s4.listed) = Images!Bytes(s4.gone) + Images!Bytes(s4.listed \ s4.gone)
            /\ Images!Bytes(s4.gone) \in Nat /\ Images!Bytes(s4.listed \ s4.gone) \in Nat
            /\ MaxBytes \in Nat
        BY <1>2, <4>1
      <4>3. ~(Images!Bytes(s4.listed) - Images!Bytes(s4.gone) > MaxBytes)
        BY <3>2 DEF Images!StillOver
      <4> QED BY <4>2, <4>3
    <3> QED BY <3>1, <3>2
  <2>6. Images!PrunedLeastRecent'
    BY <1>1, <2>1, <2>2, <2>5 DEF Images!PrunedLeastRecent, Images!Bytes
  <2> QED BY <2>3, <2>4, <2>6 DEF CacheInv
<1>7. CASE Images!Clear
  <2>1. /\ s5' = s5 + 1 /\ UNCHANGED <<s2, s4>>
        /\ s1' = [k \in Images!Key |-> None]
        /\ s3' = [r \in ImageRequest |-> [s3[r] EXCEPT !.open = FALSE]]
    BY <1>7 DEF Images!Clear, Images!Fault
  <2>2. s5' \in Nat /\ s5' # 0
    BY <1>1, <2>1 DEF CacheTypes
  <2>3. CacheTypes' /\ UsesDiffer' /\ OpenIsThere'
    <3>1. s3' = [r \in ImageRequest |-> s3'[r]]
      BY <2>1
    <3>2. \A r \in ImageRequest : s3'[r] = [s3[r] EXCEPT !.open = FALSE]
      BY <2>1
    <3> QED BY <1>1, <1>3, <2>1, <2>2, <3>1, <3>2 DEF CacheTypes
  <2>4. PruneInOrder' /\ Images!PrunedLeastRecent'
    BY <2>1, <2>2, PrunerWaits
  <2> QED BY <2>3, <2>4 DEF CacheInv
<1>8. CASE Images!PruneRemoves
  <2>1. PICK e \in Images!LeastRecent(s4.left) :
            \/ /\ s1[e.key] # None
               /\ Images!Unlinked(e.key)
               /\ s4' = [s4 EXCEPT !.left = @ \ {e}, !.gone = @ \cup {e}]
               /\ UNCHANGED s5
            \/ /\ s4' = [s4 EXCEPT !.left = @ \ {e}]
               /\ IF s1[e.key] = None THEN UNCHANGED s5 ELSE Images!Fault
               /\ UNCHANGED <<s1, s3>>
    BY <1>8 DEF Images!PruneRemoves
  <2>2. s4.at = "listed" /\ Images!StillOver /\ UNCHANGED s2
    BY <1>8 DEF Images!PruneRemoves
  <2>3. /\ e \in s4.left /\ e \in s4.listed /\ e \notin s4.gone /\ e \in CacheEntry
        /\ \A l \in s4.left : e.used <= l.used
        /\ \A g \in s4.gone : g.used <= e.used
        /\ e.key \in Images!Key /\ e.used \in Nat
    BY <1>1, <2>1 DEF Images!LeastRecent, CacheTypes, PruneInOrder, CacheEntry
  (* It goes. *)
  <2>4. ASSUME s1[e.key] # None, Images!Unlinked(e.key), UNCHANGED s5,
               s4' = [s4 EXCEPT !.left = @ \ {e}, !.gone = @ \cup {e}]
        PROVE  CacheInv'
    <3>1. /\ s4' \in [at : {"start", "listed", "done"}, listed : SUBSET CacheEntry,
                      left : SUBSET CacheEntry, gone : SUBSET CacheEntry]
          /\ s4'.at = "listed" /\ s4'.listed = s4.listed
          /\ s4'.left = s4.left \ {e} /\ s4'.gone = s4.gone \cup {e}
      BY <1>1, <2>2, <2>3, <2>4 DEF CacheTypes
    <3>2. /\ s1' = [s1 EXCEPT ![e.key] = None]
          /\ s3' = [r \in ImageRequest |-> IF s3[r].key = e.key
                                      THEN [s3[r] EXCEPT !.open = FALSE] ELSE s3[r]]
      BY <2>4 DEF Images!Unlinked
    <3>3. \A k \in Images!Key : s1'[k] = IF k \in {e.key} THEN None ELSE s1[k]
      BY <1>1, <3>2 DEF CacheTypes
    <3>4. CacheTypes' /\ UsesDiffer' /\ OpenIsThere'
      <4>1. s1' = [k \in Images!Key |-> s1'[k]] /\ DOMAIN s1' = Images!Key
        BY <1>1, <3>2 DEF CacheTypes
      <4>2. s3' = [r \in ImageRequest |-> s3'[r]]
        BY <3>2
      <4>3. \A r \in ImageRequest :
                \/ s3'[r] = s3[r] /\ (s3[r].open => s3[r].key \notin {e.key})
                \/ s3'[r] = [s3[r] EXCEPT !.open = FALSE]
        BY <3>2
      <4>4. s5' \in Nat /\ {e.key} \in SUBSET Images!Key
        BY <1>1, <2>3, <2>4 DEF CacheTypes
      <4> QED BY <1>3, <2>2, <3>1, <3>3, <4>1, <4>2, <4>3, <4>4
    <3>5. PruneInOrder'
      <4>1. s5' = 0 => s4'.left = s4'.listed \ s4'.gone /\ \A f \in s4'.left : s1'[f.key] # None
        <5>1. ASSUME s5 = 0, NEW f \in s4.left \ {e}
              PROVE  s1'[f.key] # None
          <6>1. f.key # e.key /\ f.key \in Images!Key /\ s1[f.key] # None
            BY <1>1, <2>3, <5>1 DEF PruneInOrder, CacheTypes, CacheEntry
          <6> QED BY <3>3, <6>1
        <5> QED BY <1>1, <2>4, <3>1, <5>1 DEF PruneInOrder
      <4>2. s4'.left \cup s4'.gone \subseteq s4'.listed /\ s4'.left \cap s4'.gone = {}
        BY <1>1, <2>3, <3>1 DEF PruneInOrder
      <4>3. \A g \in s4'.gone, l \in s4'.left : g.used <= l.used
        BY <1>1, <2>3, <3>1 DEF PruneInOrder
      <4> QED BY <1>1, <3>1, <4>1, <4>2, <4>3 DEF PruneInOrder
    <3>6. Images!PrunedLeastRecent'
      <4>1. s5' = 0 => \A g \in s4'.gone, k \in s4'.listed \ s4'.gone : g.used <= k.used
        BY <3>5 DEF PruneInOrder
      <4>2. ASSUME NEW m \in s4'.gone, \A o \in s4'.gone : o.used <= m.used
            PROVE  Images!Bytes((s4'.listed \ s4'.gone) \cup {m}) > MaxBytes
        <5>1. m \in s4.listed /\ m.used \in Nat
          BY <1>1, <2>3, <3>1, <4>2 DEF PruneInOrder, CacheTypes, CacheEntry
        <5>2. m.used = e.used
          BY <2>3, <3>1, <4>2, <5>1
        <5>3. m = e
          BY <1>1, <2>3, <5>1, <5>2 DEF PruneInOrder
        <5>4. (s4'.listed \ s4'.gone) \cup {m} = s4.listed \ s4.gone
          BY <2>3, <3>1, <5>3
        <5>5. s4.gone \in SUBSET s4.listed
          BY <1>1 DEF PruneInOrder
        <5>6. Images!Bytes(s4.listed \ s4.gone) > MaxBytes
          BY <1>2, <2>2, <5>5 DEF Images!StillOver
        <5> QED BY <5>4, <5>6
      <4>3. /\ \A m \in s4'.gone : (\A o \in s4'.gone : o.used <= m.used)
                  => Images!Bytes((s4'.listed \ s4'.gone) \cup {m}) > MaxBytes
            /\ s4'.at # "done"
        BY <3>1, <4>2
      <4> QED BY <4>1, <4>3 DEF Images!PrunedLeastRecent, Images!Bytes
    <3> QED BY <3>4, <3>5, <3>6 DEF CacheInv
  (* It is passed over, which takes a fault. *)
  <2>5. ASSUME s4' = [s4 EXCEPT !.left = @ \ {e}], UNCHANGED <<s1, s3>>,
               IF s1[e.key] = None THEN UNCHANGED s5 ELSE Images!Fault
        PROVE  CacheInv'
    <3>1. /\ s4' \in [at : {"start", "listed", "done"}, listed : SUBSET CacheEntry,
                      left : SUBSET CacheEntry, gone : SUBSET CacheEntry]
          /\ s4'.at = "listed" /\ s4'.listed = s4.listed
          /\ s4'.left = s4.left \ {e} /\ s4'.gone = s4.gone
      BY <1>1, <2>2, <2>3, <2>5 DEF CacheTypes
    <3>2. s5' \in Nat /\ s5' # 0
      BY <1>1, <2>3, <2>5 DEF CacheTypes, PruneInOrder, Images!Fault
    <3>3. CacheTypes' /\ UsesDiffer' /\ OpenIsThere'
      BY <1>4, <2>2, <2>5, <3>1, <3>2
    <3>4. PruneInOrder'
      BY <1>1, <2>3, <3>1, <3>2 DEF PruneInOrder
    <3>5. Images!PrunedLeastRecent'
      BY <1>1, <3>1, <3>2 DEF Images!PrunedLeastRecent, Images!Bytes
    <3> QED BY <3>3, <3>4, <3>5 DEF CacheInv
  <2> QED BY <2>1, <2>4, <2>5
<1> QED BY <1>5, <1>6, <1>7, <1>8

(* The cache keeps its invariant.                                          *)
LEMMA CacheStays == CacheInv /\ Images!Next => CacheInv'
<1> SUFFICES ASSUME CacheInv, Images!Next PROVE CacheInv'
  OBVIOUS
<1>1. CASE Images!PruneLists \/ Images!PruneRemoves \/ Images!PruneEnds \/ Images!Clear
  BY <1>1, PrunerStays
<1>2. CASE \E r \in ImageRequest :
               \/ \E key \in Images!Key : Images!Ask(r, key)
               \/ Images!Hit(r) \/ Images!Miss(r) \/ Images!TouchReads(r) \/ Images!TouchSets(r)
               \/ Images!Answered(r) \/ Images!Unanswered(r)
               \/ Images!PutOpens(r) \/ Images!PutWrites(r) \/ Images!PutEnds(r)
               \/ Images!TakeTurn(r) \/ Images!Scale(r)
  BY <1>2, RequestStays
<1> QED BY <1>1, <1>2 DEF Images!Next

(* The cache drops what was used least recently when it was listed, and no *)
(* more than it must, however many requests use the files meanwhile and    *)
(* whatever the images and the bounds are (image_cache.rs).                *)
THEOREM PrunedLeastRecentHolds == Spec => []PrunedLeastRecent
<1> DEFINE Inv == part = "images" => CacheInv
<1>1. Init => Inv
  BY CacheInit DEF Init
<1>2. Inv /\ [Next]_vars => Inv'
  <2> SUFFICES ASSUME Inv, [Next]_vars, part = "images"
               PROVE  CacheInv'
    BY PartStays
  <2>1. CASE Next
    BY <2>1, OnlyItsSteps, CacheStays
  <2>2. CASE UNCHANGED vars
    <3>1. UNCHANGED <<s1, s2, s3, s4, s5>>
      BY <2>2 DEF vars
    <3>2. CacheInv
      OBVIOUS
    <3> QED BY <3>1, <3>2 DEF CacheInv, CacheTypes, UsesDiffer, OpenIsThere, PruneInOrder,
               Images!PrunedLeastRecent, Images!Bytes
  <2> QED BY <2>1, <2>2
<1>3. Inv => PrunedLeastRecent
  BY DEF CacheInv, PrunedLeastRecent
<1> QED BY <1>1, <1>2, <1>3, PTL DEF Spec
-----------------------------------------------------------------------------
(* A set of numbers has a least one.                                       *)
LEMMA LeastNumber ==
    ASSUME NEW T \in SUBSET Nat, T # {}
    PROVE  \E x \in T : \A y \in T : x <= y
<1> DEFINE Less == {ss \in Nat \X Nat : ss[1] < ss[2]}
<1>1. IsWellFoundedOn(Less, Nat)
  BY NatLessThanWellFounded, Zenon DEF OpToRel
<1>2. PICK x \in T : \A y \in T : <<y, x>> \notin Less
  <2> HIDE DEF Less
  <2> QED BY <1>1, WFMin
<1>3. ASSUME NEW y \in T PROVE x <= y
  <2>1. ~(y < x)
    BY <1>2, x \in Nat, y \in Nat
  <2> QED BY <2>1, x \in Nat, y \in Nat
<1> QED BY <1>3

(* An order without ties, and the places it gives.                         *)
Orders(R, H) ==
    /\ \A g \in H : <<g, g>> \notin R
    /\ \A g, h \in H : g # h => <<g, h>> \in R \/ <<h, g>> \in R
    /\ \A f, g, h \in H : <<f, g>> \in R /\ <<g, h>> \in R => <<f, h>> \in R

PlacedBy(R, H, at) == \A g \in H : at[g] = Cardinality({h \in H : <<h, g>> \in R})

(* In a list without ties the places are 0, 1, ... without a gap: as many  *)
(* are before place m as m says.                                           *)
LEMMA PlacesFill ==
    ASSUME NEW H, IsFiniteSet(H), NEW R, NEW at \in [H -> Nat],
           Orders(R, H), PlacedBy(R, H, at)
    PROVE  /\ \A g \in H : at[g] < Cardinality(H)
           /\ \A m \in 0 .. Cardinality(H) : Cardinality({g \in H : at[g] < m}) = m
<1> DEFINE Ahead(g) == {h \in H : <<h, g>> \in R}
           First(m) == {g \in H : at[g] < m}
<1> USE DEF Orders, PlacedBy
<1>1. ASSUME NEW S \in SUBSET H
      PROVE  IsFiniteSet(S) /\ Cardinality(S) \in Nat
  BY FS_Subset, FS_CardinalityType
<1>2. ASSUME NEW g \in H, NEW h \in H, <<h, g>> \in R
      PROVE  at[h] < at[g]
  <2>1. Ahead(h) \cup {h} \subseteq Ahead(g) /\ h \notin Ahead(h)
    BY <1>2
  <2>2. IsFiniteSet(Ahead(h)) /\ IsFiniteSet(Ahead(g))
        /\ Cardinality(Ahead(h)) \in Nat /\ Cardinality(Ahead(g)) \in Nat
    BY <1>1
  <2>3. at[h] = Cardinality(Ahead(h)) /\ at[g] = Cardinality(Ahead(g))
    OBVIOUS
  <2> HIDE DEF Ahead
  <2>4. Cardinality(Ahead(h) \cup {h}) = Cardinality(Ahead(h)) + 1
    BY <2>1, <2>2, FS_AddElement
  <2>5. Cardinality(Ahead(h) \cup {h}) <= Cardinality(Ahead(g))
    BY <2>1, <2>2, FS_Subset
  <2> QED BY <2>2, <2>3, <2>4, <2>5
<1>3. ASSUME NEW g \in H
      PROVE  at[g] < Cardinality(H)
  <2>1. Ahead(g) \cup {g} \subseteq H /\ g \notin Ahead(g) /\ at[g] = Cardinality(Ahead(g))
    OBVIOUS
  <2>2. IsFiniteSet(Ahead(g)) /\ Cardinality(Ahead(g)) \in Nat /\ Cardinality(H) \in Nat
    BY <1>1
  <2> HIDE DEF Ahead
  <2>3. Cardinality(Ahead(g) \cup {g}) = Cardinality(Ahead(g)) + 1
    BY <2>1, <2>2, FS_AddElement
  <2>4. Cardinality(Ahead(g) \cup {g}) <= Cardinality(H)
    BY <2>1, FS_Subset
  <2> QED BY <2>1, <2>2, <2>3, <2>4
(* The first of the others is at the next place. *)
<1>4. ASSUME NEW m \in Nat, m < Cardinality(H), Cardinality(First(m)) = m
      PROVE  Cardinality(First(m + 1)) = m + 1
  <2>1. H \ First(m) # {}
    <3>1. First(m) \subseteq H /\ First(m) # H
      BY <1>4
    <3> QED BY <3>1
  <2>2. PICK x \in H \ First(m) : \A y \in H \ First(m) : at[x] <= at[y]
    <3> DEFINE Places == {at[g] : g \in H \ First(m)}
    <3>1. Places \in SUBSET Nat /\ Places # {}
      BY <2>1
    <3>2. PICK p \in Places : \A q \in Places : p <= q
      <4> HIDE DEF Places
      <4> QED BY <3>1, LeastNumber
    <3> QED BY <3>2
  <2>3. x \in H /\ at[x] \in Nat /\ m <= at[x]
    BY <2>2
  <2>4. ASSUME NEW h \in Ahead(x) PROVE h \in First(m)
    <3>1. h \in H /\ at[h] < at[x] /\ at[h] \in Nat
      BY <1>2, <2>3
    <3> QED BY <2>2, <2>3, <3>1
  <2>5. ASSUME NEW h \in First(m) PROVE h \in Ahead(x)
    <3>1. h \in H /\ at[h] < at[x] /\ at[h] \in Nat /\ h # x
      BY <2>3
    <3>2. ~(<<x, h>> \in R)
      BY <1>2, <2>3, <3>1
    <3> QED BY <2>3, <3>1, <3>2
  <2>6. Ahead(x) = First(m)
    BY <2>4, <2>5
  <2>7. at[x] = m
    BY <1>4, <2>3, <2>6
  <2>8. ASSUME NEW h \in H, at[h] = m PROVE h = x
    <3>1. ~(<<h, x>> \in R) /\ ~(<<x, h>> \in R)
      <4>1. ~(at[h] < at[x]) /\ ~(at[x] < at[h])
        BY <2>3, <2>7, <2>8
      <4> QED BY <1>2, <2>3, <4>1
    <3> QED BY <2>3, <3>1
  <2>9. First(m + 1) = First(m) \cup {x} /\ x \notin First(m)
    BY <2>2, <2>3, <2>7, <2>8
  <2>10. IsFiniteSet(First(m))
    BY <1>1
  <2> HIDE DEF First
  <2> QED BY <1>4, <2>9, <2>10, FS_AddElement
<1>5. ASSUME NEW m \in 0 .. Cardinality(H), Cardinality(First(m)) # m
      PROVE  FALSE
  <2> DEFINE Bad == {n \in 0 .. Cardinality(H) : Cardinality(First(n)) # n}
  <2>1. Bad \in SUBSET Nat /\ Bad # {}
    <3>1. Cardinality(H) \in Nat
      BY <1>1
    <3> HIDE DEF First
    <3> QED BY <1>5, <3>1
  <2>2. PICK b \in Bad : \A n \in Bad : b <= n
    <3> HIDE DEF Bad
    <3> QED BY <2>1, LeastNumber
  <2>3. Cardinality(H) \in Nat /\ b \in 0 .. Cardinality(H) /\ Cardinality(First(b)) # b
    BY <1>1, <2>2
  <2>4. First(0) = {}
    OBVIOUS
  <2>5. b # 0
    <3>1. Cardinality(First(0)) = 0
      BY <2>4, FS_EmptySet
    <3> HIDE DEF First
    <3> QED BY <2>3, <3>1
  <2>6. b - 1 \in 0 .. Cardinality(H) /\ b - 1 \notin Bad
    <3>1. b - 1 \in Nat /\ b - 1 \in 0 .. Cardinality(H) /\ ~(b <= b - 1)
      BY <2>3, <2>5
    <3> HIDE DEF Bad
    <3> QED BY <2>2, <3>1
  <2>7. Cardinality(First(b - 1)) = b - 1 /\ b - 1 \in Nat /\ b - 1 < Cardinality(H)
    <3>1. b - 1 \in Nat /\ b - 1 < Cardinality(H)
      BY <2>3, <2>5
    <3> HIDE DEF First
    <3> QED BY <2>6, <3>1
  <2>8. Cardinality(First((b - 1) + 1)) = (b - 1) + 1
    <3> HIDE DEF First
    <3> QED BY <1>4, <2>7
  <2>9. (b - 1) + 1 = b
    BY <2>3
  <2> HIDE DEF First
  <2> QED BY <2>3, <2>8, <2>9
<1> QED BY <1>3, <1>5
-----------------------------------------------------------------------------
(* The catalogue.                                                          *)

CatalogMirror == [games : [Catalog!Game -> Nat], at : Nat]

(* A mirror has, as it is now, every game last changed up to its time.     *)
Knows(m) ==
    /\ m.at <= s3
    /\ \A g \in Catalog!Game : s2[g] # 0 /\ s2[g] <= m.at => m.games[g] = s2[g]

(* No two changes are at one time, and what is stored knows its part.      *)
CatalogBase ==
    /\ s2 \in [Catalog!Game -> Nat] /\ s3 \in 0 .. MaxTime
    /\ \A g \in Catalog!Game : s2[g] <= s3
    /\ \A g, h \in Catalog!Game : s2[g] = s2[h] /\ s2[g] # 0 => g = h
    /\ s5 \in CatalogMirror /\ s6 \in CatalogMirror
    /\ Knows(s5) /\ Knows(s6)

Fetches ==
    [step : {"none", "asked", "details", "delta", "whole", "fetched"},
     previous : CatalogMirror, got : [Catalog!Game -> Nat], at : Nat,
     ids : SUBSET Catalog!Game, all : SUBSET Catalog!Game, page : Nat, read : Nat]

(* Of a delta every game is to be asked for, was, or is as it was.         *)
DetailsFit(f, still) ==
    /\ f.at <= s3
    /\ \A g \in Catalog!Game : s2[g] # 0 /\ s2[g] <= f.at =>
           /\ g \in f.all
           /\ g \in f.ids \/ f.got[g] = s2[g]
              \/ (f.got[g] = 0 /\ f.previous.games[g] = s2[g])
    /\ still => /\ f.at = s3 /\ f.all = Catalog!Held(s2)
                /\ \A g \in Catalog!Game : g \notin f.all => f.got[g] = 0

(* The places in the server's list, and what the pages up to one hold.     *)
Ahead(step, g) ==
    {h \in Catalog!Held(s2) : IF step = "delta" THEN s2[h] > s2[g] ELSE h < g}

Paged(step, n) == {g \in Catalog!Held(s2) : Cardinality(Ahead(step, g)) < n * PageSize}

PagesFit(f) ==
    /\ f.got = [g \in Catalog!Game |-> IF g \in Paged(f.step, f.page) THEN s2[g] ELSE 0]
    /\ f.read = Cardinality(Paged(f.step, f.page))

FetchFits(f, still) ==
    /\ f \in Fetches /\ Knows(f.previous)
    /\ f.step = "asked" => f.got = Catalog!Nothing /\ f.page = 0 /\ f.read = 0
    /\ f.step = "details" => DetailsFit(f, still)
    /\ f.step \in {"delta", "whole"} => PagesFit(f)
    /\ f.step = "fetched" => Knows([games |-> f.got, at |-> f.at]) /\ (still => f.got = s2)

CatalogInv == CatalogBase /\ FetchFits(s7, s8)

LEMMA CatalogCountsAlike ==
    ASSUME NEW S
    PROVE  Catalog!Cardinality(S) = Cardinality(S)
BY DEF Cardinality, Catalog!Cardinality

(* A game is in a finite list, which is what there are games for.          *)
LEMMA GamesFinite ==
    /\ IsFiniteSet(Catalog!Game) /\ Catalog!Game \subseteq Nat /\ Catalog!Game # {}
    /\ \A S \in SUBSET Catalog!Game : IsFiniteSet(S) /\ Cardinality(S) \in Nat
<1> USE MCStepsAssumption DEF MCStepsAssumption, Catalog!CatalogueAssumption
<1>1. IsFiniteSet(1 .. MaxGame)
  BY FS_Interval, 1 \in Int, MaxGame \in Int
<1>2. Catalog!Game = 1 .. MaxGame /\ 1 \in 1 .. MaxGame
  BY DEF Catalog!Game
<1>3. \A S \in SUBSET (1 .. MaxGame) : IsFiniteSet(S) /\ Cardinality(S) \in Nat
  BY <1>1, FS_Subset, FS_CardinalityType
<1> QED BY <1>1, <1>2, <1>3

(* Before a list there is nothing, and a page ends it if it is short or    *)
(* as much has been read as there is.                                      *)
LEMMA PagesEnd ==
    ASSUME CatalogBase, NEW step, NEW n \in Nat
    PROVE  /\ Paged(step, 0) = {} /\ Cardinality({}) = 0
           /\ Paged(step, n) \subseteq Paged(step, n + 1)
           /\ Cardinality(Paged(step, n + 1)) =
                 Cardinality(Paged(step, n)) + Cardinality(Paged(step, n + 1) \ Paged(step, n))
           /\ Cardinality(Paged(step, n)) \in Nat
           /\ Cardinality(Paged(step, n + 1) \ Paged(step, n)) \in Nat
           /\ \/ Cardinality(Paged(step, n + 1) \ Paged(step, n)) < PageSize
              \/ Cardinality(Paged(step, n + 1)) >= Cardinality(Catalog!Held(s2))
              => Paged(step, n + 1) = Catalog!Held(s2)
<1> USE MCStepsAssumption DEF MCStepsAssumption, Catalog!CatalogueAssumption
<1> DEFINE H == Catalog!Held(s2)
           First(m) == {g \in H : Cardinality(Ahead(step, g)) < m}
<1>1. H \in SUBSET Catalog!Game
  BY DEF Catalog!Held
<1>2. \A S \in SUBSET H : IsFiniteSet(S) /\ Cardinality(S) \in Nat
  BY <1>1, GamesFinite
<1>3. \A g \in H : Ahead(step, g) \in SUBSET H
  BY DEF Ahead
<1>4. /\ \A g \in H : Cardinality(Ahead(step, g)) < Cardinality(H)
      /\ \A m \in 0 .. Cardinality(H) : Cardinality(First(m)) = m
  <2> DEFINE R == {hg \in H \X H : IF step = "delta" THEN s2[hg[1]] > s2[hg[2]] ELSE hg[1] < hg[2]}
             at == [g \in H |-> Cardinality(Ahead(step, g))]
  <2>1. at \in [H -> Nat]
    BY <1>2, <1>3
  <2>2. \A g \in H : Ahead(step, g) = {h \in H : <<h, g>> \in R}
    BY DEF Ahead
  <2>3. \A g \in H : g \in Nat /\ s2[g] \in Nat /\ s2[g] # 0 /\ g \in Catalog!Game
    BY <1>1, GamesFinite DEF CatalogBase, Catalog!Held
  <2>4. \A g, h \in H : <<g, h>> \in R <=> (IF step = "delta" THEN s2[g] > s2[h] ELSE g < h)
    OBVIOUS
  <2>5. Orders(R, H)
    <3>1. \A g, h \in H : s2[g] = s2[h] => g = h
      BY <2>3 DEF CatalogBase
    <3> HIDE DEF H, R
    <3> QED BY <2>3, <2>4, <3>1 DEF Orders
  <2>6. PlacedBy(R, H, at)
    BY <2>2 DEF PlacedBy
  <2>7. IsFiniteSet(H)
    BY <1>2
  <2>8. /\ \A g \in H : at[g] < Cardinality(H)
        /\ \A m \in 0 .. Cardinality(H) : Cardinality({g \in H : at[g] < m}) = m
    <3> HIDE DEF H, R, at
    <3> QED BY <2>1, <2>5, <2>6, <2>7, PlacesFill
  <2>9. \A m : {g \in H : at[g] < m} = First(m)
    OBVIOUS
  <2> HIDE DEF First, H
  <2> QED BY <2>8, <2>9
<1>5. \A m \in Nat : Paged(step, m) = First(m * PageSize)
  BY DEF Paged
<1>6. PICK a \in Nat : a = n * PageSize
  OBVIOUS
<1>7. (n + 1) * PageSize = a + PageSize /\ 0 * PageSize = 0
  BY <1>6
<1>8. Paged(step, n) = First(a) /\ Paged(step, n + 1) = First(a + PageSize)
      /\ Paged(step, 0) = First(0)
  BY <1>5, <1>6, <1>7
<1>9. \A g \in H : Cardinality(Ahead(step, g)) \in Nat
  BY <1>2, <1>3
<1>10. First(0) = {} /\ First(a) \subseteq First(a + PageSize) /\ First(a + PageSize) \subseteq H
  BY <1>9
<1>11. Cardinality(First(a + PageSize)) =
          Cardinality(First(a)) + Cardinality(First(a + PageSize) \ First(a))
  <2>1. IsFiniteSet(First(a + PageSize)) /\ Cardinality(First(a + PageSize)) \in Nat
        /\ Cardinality(First(a)) \in Nat /\ First(a + PageSize) \cap First(a) = First(a)
    BY <1>2, <1>10
  <2> HIDE DEF First
  <2>2. Cardinality(First(a + PageSize) \ First(a)) =
           Cardinality(First(a + PageSize)) - Cardinality(First(a + PageSize) \cap First(a))
    <3>1. PICK S : S = First(a + PageSize)
      OBVIOUS
    <3>2. PICK T : T = First(a)
      OBVIOUS
    <3>3. Cardinality(S \ T) = Cardinality(S) - Cardinality(S \cap T)
      BY <2>1, <3>1, FS_Difference
    <3> QED BY <3>1, <3>2, <3>3
  <2>3. Cardinality(First(a + PageSize) \cap First(a)) = Cardinality(First(a))
    BY <2>1
  <2> QED BY <2>1, <2>2, <2>3
<1>12. CASE a + PageSize <= Cardinality(H)
  <2>1. Cardinality(H) \in Nat
    BY <1>2
  <2>2. Cardinality(First(a + PageSize)) = a + PageSize /\ Cardinality(First(a)) = a
    <3>1. a \in 0 .. Cardinality(H) /\ a + PageSize \in 0 .. Cardinality(H)
      BY <1>12, <2>1
    <3> HIDE DEF First, H
    <3> QED BY <1>4, <3>1
  <2>3. Cardinality(First(a + PageSize) \ First(a)) \in Nat
        /\ Cardinality(First(a)) \in Nat
    BY <1>2, <1>10
  <2>4. ~(Cardinality(First(a + PageSize) \ First(a)) < PageSize)
    <3> HIDE DEF First
    <3> QED BY <1>11, <2>2, <2>3
  <2>5. Cardinality(First(a + PageSize)) >= Cardinality(H) => First(a + PageSize) = H
    <3>1. IsFiniteSet(H)
      BY <1>2
    <3> HIDE DEF First, H
    <3>2. Cardinality(First(a + PageSize)) <= Cardinality(H)
      BY <1>10, <3>1, FS_Subset
    <3>3. Cardinality(First(a + PageSize)) = Cardinality(H) => First(a + PageSize) = H
      BY <1>10, <3>1, FS_Subset
    <3> QED BY <2>1, <2>2, <3>2, <3>3
  <2> HIDE DEF First
  <2> QED BY <1>8, <1>10, <1>11, <2>2, <2>3, <2>4, <2>5, FS_EmptySet
<1>13. CASE ~(a + PageSize <= Cardinality(H))
  <2>1. First(a + PageSize) = H
    <3>1. \A g \in H : Cardinality(Ahead(step, g)) < a + PageSize
      BY <1>2, <1>4, <1>9, <1>13
    <3> QED BY <3>1
  <2>2. Cardinality(First(a + PageSize) \ First(a)) \in Nat
        /\ Cardinality(First(a)) \in Nat
    BY <1>2, <1>10
  <2> HIDE DEF First
  <2> QED BY <1>8, <1>10, <1>11, <2>1, <2>2, FS_EmptySet
<1> QED BY <1>12, <1>13

(* The newest change of a list is one of its times.                        *)
LEMMA NewestIsTime ==
    ASSUME s3 \in 0 .. MaxTime, NEW list \in [Catalog!Game -> 0 .. s3]
    PROVE  Catalog!NewestUpdate(list) \in 0 .. s3
<1> USE MCStepsAssumption DEF MCStepsAssumption, Catalog!CatalogueAssumption
<1> DEFINE Ages == {MaxTime - list[g] : g \in Catalog!Game}
<1>1. Ages \in SUBSET Nat /\ Ages # {}
  <2>1. \A g \in Catalog!Game : list[g] \in 0 .. s3 /\ MaxTime - list[g] \in Nat
    OBVIOUS
  <2> QED BY <2>1, GamesFinite
<1>2. PICK a \in Ages : \A b \in Ages : a <= b
  <2> HIDE DEF Ages
  <2> QED BY <1>1, LeastNumber
<1>3. PICK g \in Catalog!Game : a = MaxTime - list[g]
  BY <1>2
<1>4. \A h \in Catalog!Game : list[h] <= list[g]
  <2>1. ASSUME NEW h \in Catalog!Game PROVE list[h] <= list[g]
    <3>1. MaxTime - list[g] <= MaxTime - list[h]
      BY <1>2, <1>3
    <3>2. list[g] \in 0 .. s3 /\ list[h] \in 0 .. s3
      OBVIOUS
    <3> QED BY <3>1, <3>2
  <2> QED BY <2>1
<1>5. list[g] \in Catalog!Time
  BY DEF Catalog!Time
<1>6. \E h \in Catalog!Game : list[h] = Catalog!NewestUpdate(list)
  BY <1>4, <1>5 DEF Catalog!NewestUpdate
<1> QED BY <1>6

(* A fetch that has not been asked for, and no mirror, fit.                *)
LEMMA NothingFits ==
    ASSUME CatalogBase, NEW still
    PROVE  /\ Catalog!NoMirror \in CatalogMirror /\ Knows(Catalog!NoMirror)
           /\ Catalog!NoFetch \in Fetches /\ FetchFits(Catalog!NoFetch, still)
<1>1. Catalog!NoMirror \in CatalogMirror /\ Knows(Catalog!NoMirror)
  BY DEF CatalogBase, Catalog!NoMirror, Catalog!Nothing, CatalogMirror, Knows
<1>2. Catalog!NoFetch \in Fetches
  BY <1>1 DEF Catalog!NoFetch, Catalog!Nothing, Fetches
<1>3. Catalog!NoFetch.step = "none" /\ Catalog!NoFetch.previous = Catalog!NoMirror
  BY DEF Catalog!NoFetch
<1> QED BY <1>1, <1>2, <1>3 DEF FetchFits

LEMMA CatalogInit == Catalog!Init => CatalogInv
<1> USE MCStepsAssumption DEF MCStepsAssumption, Catalog!CatalogueAssumption
<1> SUFFICES ASSUME Catalog!Init PROVE CatalogInv
  OBVIOUS
<1>1. s2 = Catalog!Nothing /\ s3 = 0 /\ s5 = Catalog!NoMirror /\ s6 = Catalog!NoMirror
      /\ s7 = Catalog!NoFetch
  BY DEF Catalog!Init
<1>2. CatalogBase
  BY <1>1 DEF CatalogBase, Catalog!Nothing, Catalog!NoMirror, CatalogMirror, Knows
<1> QED BY <1>1, <1>2, NothingFits DEF CatalogInv

(* While the library rests it is enough to look at the fetch and at what   *)
(* is stored.                                                              *)
LEMMA CatalogMoves ==
    ASSUME CatalogInv, UNCHANGED <<s2, s3>>, s5' \in CatalogMirror, s6' \in CatalogMirror,
           Knows(s5'), Knows(s6'), FetchFits(s7', s8')
    PROVE  CatalogInv'
<1>1. CatalogBase'
  BY DEF CatalogInv, CatalogBase, CatalogMirror, Knows
<1>2. FetchFits(s7, s8)'
  BY DEF FetchFits, Fetches, CatalogMirror, Knows, DetailsFit, PagesFit, Paged, Ahead,
         Catalog!Held, Catalog!Nothing
<1> QED BY <1>1, <1>2 DEF CatalogInv

(* A change of the library is later than all that is known of it, and does *)
(* not come between two pages.                                             *)
LEMMA LibraryChanges ==
    ASSUME CatalogInv, NEW c \in Catalog!Game, Catalog!Change(c) \/ Catalog!RemoveGame(c)
    PROVE  CatalogInv'
<1> USE MCStepsAssumption DEF MCStepsAssumption, Catalog!CatalogueAssumption
<1>1. PICK to \in {0, s3 + 1} :
          s2' = [s2 EXCEPT ![c] = to] /\ s3' = s3 + 1 /\ s3 < MaxTime /\ s8' = FALSE
          /\ UNCHANGED <<s5, s6, s7>> /\ s7.step \notin {"delta", "whole"}
  BY DEF Catalog!Change, Catalog!RemoveGame, Catalog!MayChange
<1>2. CatalogBase /\ FetchFits(s7, s8)
  BY DEF CatalogInv
<1>3. s2 \in [Catalog!Game -> Nat] /\ s3 \in Nat /\ s3' \in 0 .. MaxTime
      /\ s2' \in [Catalog!Game -> Nat]
  BY <1>1, <1>2 DEF CatalogBase
<1>4. \A g \in Catalog!Game : s2'[g] = IF g = c THEN to ELSE s2[g]
  BY <1>1, <1>3
<1>5. ASSUME NEW m \in CatalogMirror, Knows(m)
      PROVE  /\ m.at <= s3'
             /\ \A g \in Catalog!Game : s2'[g] # 0 /\ s2'[g] <= m.at => m.games[g] = s2'[g]
  BY <1>1, <1>3, <1>4, <1>5 DEF Knows, CatalogMirror
<1>6. CatalogBase'
  <2>1. \A g \in Catalog!Game : s2'[g] <= s3'
    BY <1>1, <1>2, <1>3, <1>4 DEF CatalogBase
  <2>2. \A g, h \in Catalog!Game : s2'[g] = s2'[h] /\ s2'[g] # 0 => g = h
    BY <1>1, <1>2, <1>3, <1>4 DEF CatalogBase
  <2>3. Knows(s5)' /\ Knows(s6)'
    BY <1>1, <1>2, <1>5 DEF CatalogBase, Knows
  <2> QED BY <1>1, <1>2, <1>3, <2>1, <2>2, <2>3 DEF CatalogBase, CatalogMirror
<1>7. FetchFits(s7, s8)'
  <2>1. s7 \in Fetches /\ Knows(s7.previous) /\ s7.previous \in CatalogMirror
    BY <1>2 DEF FetchFits, Fetches
  <2>2. (s7 \in Fetches)' /\ Knows(s7.previous)'
    BY <1>1, <1>5, <2>1 DEF Knows, Fetches, CatalogMirror
  <2>3. s7.step = "details" => DetailsFit(s7, s8)'
    <3> SUFFICES ASSUME s7.step = "details" PROVE DetailsFit(s7, s8)'
      OBVIOUS
    <3>1. s7.at \in Nat /\ s7.at <= s3
      BY <1>2, <2>1 DEF FetchFits, DetailsFit, Fetches
    <3>2. ASSUME NEW g \in Catalog!Game, s2'[g] # 0, s2'[g] <= s7.at
          PROVE  g # c /\ s2'[g] = s2[g]
      BY <1>1, <1>3, <1>4, <3>1, <3>2
    <3> QED BY <1>1, <1>2, <1>3, <3>1, <3>2 DEF FetchFits, DetailsFit
  <2>4. s7.step = "fetched" => Knows([games |-> s7.got, at |-> s7.at])'
    <3> SUFFICES ASSUME s7.step = "fetched" PROVE Knows([games |-> s7.got, at |-> s7.at])'
      OBVIOUS
    <3>1. Knows([games |-> s7.got, at |-> s7.at])
      BY <1>2 DEF FetchFits
    <3>2. [games |-> s7.got, at |-> s7.at] \in CatalogMirror
      BY <2>1 DEF Fetches, CatalogMirror
    <3> QED BY <1>1, <1>5, <3>1, <3>2 DEF Knows
  <2>5. s7.step = "asked" => s7.got = Catalog!Nothing /\ s7.page = 0 /\ s7.read = 0
    BY <1>2 DEF FetchFits
  <2> QED BY <1>1, <2>2, <2>3, <2>4, <2>5 DEF FetchFits, Catalog!Nothing
<1> QED BY <1>6, <1>7 DEF CatalogInv

(* Each step of a fetch that reads no page keeps what it knows.            *)
LEMMA FetchSteps ==
    ASSUME CatalogInv,
           \/ Catalog!Ask \/ Catalog!GetAll \/ Catalog!ApplySync \/ Catalog!ListPages
           \/ \E yes \in BOOLEAN : Catalog!Sync(yes) \/ Catalog!Remember(yes)
           \/ \E batch \in SUBSET Catalog!Game : Catalog!Details(batch)
           \/ Catalog!FetchFails \/ Catalog!SignOut \/ Catalog!SignIn \/ Catalog!Restart
    PROVE  CatalogInv'
<1> USE MCStepsAssumption DEF MCStepsAssumption, Catalog!CatalogueAssumption
<1>1. CatalogBase /\ FetchFits(s7, s8) /\ s7 \in Fetches
      /\ s5 \in CatalogMirror /\ s6 \in CatalogMirror /\ Knows(s5) /\ Knows(s6)
      /\ s7.previous \in CatalogMirror /\ Knows(s7.previous)
  BY DEF CatalogInv, CatalogBase, FetchFits, Fetches
<1>2. s2 \in [Catalog!Game -> Nat] /\ s3 \in Nat /\ \A g \in Catalog!Game : s2[g] <= s3
  BY <1>1 DEF CatalogBase
<1>3. /\ Catalog!NoMirror \in CatalogMirror /\ Knows(Catalog!NoMirror)
      /\ Catalog!NoFetch \in Fetches /\ FetchFits(Catalog!NoFetch, s8')
  BY <1>1, NothingFits
<1>4. ASSUME UNCHANGED <<s2, s3, s5, s6>>, FetchFits(s7', s8')
      PROVE  CatalogInv'
  BY <1>1, <1>4, CatalogMoves
<1>5. CASE Catalog!Ask
  <2>1. PICK previous \in {Catalog!NoMirror, s5} :
            s7' = [Catalog!NoFetch EXCEPT !.step = "asked", !.previous = previous]
    BY <1>5 DEF Catalog!Ask
  <2>2. UNCHANGED <<s2, s3, s5, s6>>
    BY <1>5 DEF Catalog!Ask
  <2>3. previous \in CatalogMirror /\ Knows(previous)
    BY <1>1, <1>3, <2>1
  <2>4. /\ s7' \in Fetches /\ s7'.previous = previous /\ s7'.step = "asked"
        /\ s7'.got = Catalog!Nothing /\ s7'.page = 0 /\ s7'.read = 0
    BY <1>3, <2>1, <2>3 DEF Fetches, Catalog!NoFetch
  <2>5. FetchFits(s7', s8')
    BY <2>3, <2>4 DEF FetchFits
  <2> QED BY <1>4, <2>2, <2>5
<1>6. CASE Catalog!GetAll
  <2>1. s7' = [s7 EXCEPT !.step = "fetched", !.got = s2, !.at = 0] /\ UNCHANGED <<s2, s3, s5, s6, s8>>
    BY <1>6 DEF Catalog!GetAll, Catalog!Fetching, Catalog!Fetched
  <2>2. s7' \in Fetches /\ s7'.previous = s7.previous /\ s7'.step = "fetched"
        /\ s7'.got = s2 /\ s7'.at = 0
    BY <1>1, <1>2, <2>1 DEF Fetches
  <2>3. FetchFits(s7', s8')
    BY <1>1, <1>2, <2>2 DEF FetchFits, Knows
  <2> QED BY <1>4, <2>1, <2>3
<1>7. ASSUME NEW full \in BOOLEAN, Catalog!Sync(full)
      PROVE  CatalogInv'
  <2>1. PICK since : since = IF full THEN 0 ELSE s7.previous.at
    OBVIOUS
  <2>2. PICK previous : previous = IF full THEN Catalog!NoMirror ELSE s7.previous
    OBVIOUS
  <2>3. PICK ids : ids = {g \in Catalog!Game : s2[g] > since}
    OBVIOUS
  <2>4. /\ s7.step = "asked" /\ UNCHANGED <<s2, s3, s5, s6, s8>>
        /\ s7' = [s7 EXCEPT !.step = "details", !.previous = previous, !.ids = ids,
                            !.all = Catalog!Held(s2), !.at = s3]
    BY <1>7, <2>1, <2>2, <2>3 DEF Catalog!Sync, Catalog!Fetching
  <2>5. previous \in CatalogMirror /\ Knows(previous) /\ since = previous.at
    BY <1>1, <1>3, <2>1, <2>2 DEF Catalog!NoMirror
  <2>6. s7.got = Catalog!Nothing
    BY <1>1, <2>4 DEF FetchFits
  <2>7. /\ s7' \in Fetches /\ s7'.previous = previous /\ s7'.step = "details"
        /\ s7'.ids = ids /\ s7'.all = Catalog!Held(s2) /\ s7'.at = s3
        /\ s7'.got = Catalog!Nothing
    BY <1>1, <1>2, <2>3, <2>4, <2>5, <2>6 DEF Fetches, Catalog!Held
  <2>8. DetailsFit(s7', s8')
    <3>1. \A g \in Catalog!Game : s2[g] # 0 =>
              g \in Catalog!Held(s2) /\ (g \in ids \/ previous.games[g] = s2[g])
      BY <1>2, <2>3, <2>5 DEF Knows, CatalogMirror, Catalog!Held
    <3>2. \A g \in Catalog!Game : Catalog!Nothing[g] = 0
      BY DEF Catalog!Nothing
    <3> QED BY <1>2, <2>7, <3>1, <3>2 DEF DetailsFit
  <2>9. FetchFits(s7', s8')
    BY <2>5, <2>7, <2>8 DEF FetchFits
  <2> QED BY <1>4, <2>4, <2>9
<1>8. ASSUME NEW batch \in SUBSET Catalog!Game, Catalog!Details(batch)
      PROVE  CatalogInv'
  <2>1. PICK got : got = [g \in Catalog!Game |-> IF g \in batch THEN s2[g] ELSE s7.got[g]]
    OBVIOUS
  <2>2. /\ s7.step = "details" /\ UNCHANGED <<s2, s3, s5, s6, s8>> /\ batch \subseteq s7.ids
        /\ s7' = [s7 EXCEPT !.ids = s7.ids \ batch, !.got = got]
    BY <1>8, <2>1 DEF Catalog!Details, Catalog!Fetching
  <2>3. /\ s7' \in Fetches /\ s7'.previous = s7.previous /\ s7'.step = "details"
        /\ s7'.ids = s7.ids \ batch /\ s7'.all = s7.all /\ s7'.at = s7.at /\ s7'.got = got
    BY <1>1, <1>2, <2>1, <2>2 DEF Fetches
  <2>4. DetailsFit(s7, s8)
    BY <1>1, <2>2 DEF FetchFits
  <2>5. DetailsFit(s7', s8')
    <3>1. s7'.at <= s3
      BY <2>3, <2>4 DEF DetailsFit
    <3>2. ASSUME NEW g \in Catalog!Game, s2[g] # 0, s2[g] <= s7.at
          PROVE  /\ g \in s7.all
                 /\ g \in s7.ids \ batch \/ got[g] = s2[g]
                    \/ (got[g] = 0 /\ s7.previous.games[g] = s2[g])
      BY <2>1, <2>4, <3>2 DEF DetailsFit
    <3>3. s8' => /\ s7.at = s3 /\ s7.all = Catalog!Held(s2)
                 /\ \A g \in Catalog!Game : g \notin s7.all => got[g] = 0
      BY <2>1, <2>2, <2>4 DEF DetailsFit, Catalog!Held
    <3> QED BY <2>2, <2>3, <3>1, <3>2, <3>3 DEF DetailsFit
  <2>6. FetchFits(s7', s8')
    BY <1>1, <2>3, <2>5 DEF FetchFits
  <2> QED BY <1>4, <2>2, <2>6
<1>9. CASE Catalog!ApplySync
  <2>1. PICK got : got = Catalog!Merged(s7.previous.games, s7.got, s7.all)
    OBVIOUS
  <2>2. /\ s7.step = "details" /\ s7.ids = {} /\ UNCHANGED <<s2, s3, s5, s6, s8>>
        /\ s7' = [s7 EXCEPT !.step = "fetched", !.got = got, !.at = s7.at]
    BY <1>9, <2>1 DEF Catalog!ApplySync, Catalog!Fetching, Catalog!Fetched
  <2>3. got \in [Catalog!Game -> Nat]
        /\ \A g \in Catalog!Game :
              got[g] = IF s7.got[g] # 0 THEN s7.got[g]
                       ELSE IF g \in s7.all THEN s7.previous.games[g] ELSE 0
    BY <1>1, <2>1 DEF Catalog!Merged, Fetches, CatalogMirror
  <2>4. /\ s7' \in Fetches /\ s7'.previous = s7.previous /\ s7'.step = "fetched"
        /\ s7'.got = got /\ s7'.at = s7.at
    BY <1>1, <2>2, <2>3 DEF Fetches
  <2>5. DetailsFit(s7, s8)
    BY <1>1, <2>2 DEF FetchFits
  <2>6. \A g \in Catalog!Game : s2[g] # 0 /\ s2[g] <= s7.at => got[g] = s2[g]
    BY <2>2, <2>3, <2>5 DEF DetailsFit
  <2>7. s8 => got = s2
    <3> SUFFICES ASSUME s8, NEW g \in Catalog!Game PROVE got[g] = s2[g]
      BY <1>2, <2>3
    <3>1. CASE s2[g] # 0
      BY <1>2, <2>5, <2>6, <3>1 DEF DetailsFit
    <3>2. CASE s2[g] = 0
      BY <2>3, <2>5, <3>2 DEF DetailsFit, Catalog!Held
    <3> QED BY <3>1, <3>2
  <2>8. FetchFits(s7', s8')
    BY <1>1, <2>2, <2>4, <2>5, <2>6, <2>7 DEF FetchFits, Knows, DetailsFit
  <2> QED BY <1>4, <2>2, <2>8
<1>10. CASE Catalog!ListPages
  <2>1. PICK step \in {"delta", "whole"} : s7' = [s7 EXCEPT !.step = step]
    BY <1>10 DEF Catalog!ListPages, Catalog!Fetching
  <2>2. s7.step = "asked" /\ UNCHANGED <<s2, s3, s5, s6, s8>>
    BY <1>10 DEF Catalog!ListPages, Catalog!Fetching
  <2>3. /\ s7' \in Fetches /\ s7'.previous = s7.previous /\ s7'.step = step
        /\ s7'.got = s7.got /\ s7'.page = s7.page /\ s7'.read = s7.read
    BY <1>1, <2>1 DEF Fetches
  <2>4. s7.got = Catalog!Nothing /\ s7.page = 0 /\ s7.read = 0
    BY <1>1, <2>2 DEF FetchFits
  <2>5. Paged(step, 0) = {} /\ Cardinality({}) = 0
    BY <1>1, PagesEnd, 0 \in Nat
  <2>6. PagesFit(s7')
    BY <2>3, <2>4, <2>5 DEF PagesFit, Catalog!Nothing
  <2>7. FetchFits(s7', s8')
    BY <1>1, <2>1, <2>3, <2>6 DEF FetchFits
  <2> QED BY <1>4, <2>2, <2>7
<1>11. ASSUME NEW written \in BOOLEAN, Catalog!Remember(written)
       PROVE  CatalogInv'
  <2>1. PICK m : m = [games |-> s7.got, at |-> s7.at]
    OBVIOUS
  <2>2. s7.step = "fetched" /\ s5' = m /\ s6' \in {m, s6} /\ s7' = Catalog!NoFetch
        /\ UNCHANGED <<s2, s3>>
    BY <1>11, <2>1 DEF Catalog!Remember
  <2>3. m \in CatalogMirror /\ Knows(m)
    BY <1>1, <2>1, <2>2 DEF FetchFits, Fetches, CatalogMirror
  <2> QED BY <1>1, <1>3, <2>2, <2>3, CatalogMoves
<1>12. CASE Catalog!FetchFails
  BY <1>3, <1>4, <1>12 DEF Catalog!FetchFails, Catalog!Fetching
<1>13. CASE Catalog!SignOut
  <2>1. s5' = Catalog!NoMirror /\ s6' = Catalog!NoMirror /\ UNCHANGED <<s2, s3, s7, s8>>
    BY <1>13 DEF Catalog!SignOut
  <2> QED BY <1>1, <1>3, <2>1, CatalogMoves
<1>14. CASE Catalog!SignIn
  BY <1>1, <1>4, <1>14 DEF Catalog!SignIn
<1>15. CASE Catalog!Restart
  <2>1. s5' = s6 /\ s7' = Catalog!NoFetch /\ UNCHANGED <<s2, s3, s6>>
    BY <1>15 DEF Catalog!Restart
  <2> QED BY <1>1, <1>3, <2>1, CatalogMoves
<1> QED BY <1>5, <1>6, <1>7, <1>8, <1>9, <1>10, <1>11, <1>12, <1>13, <1>14, <1>15

(* A page holds the next places; with it the fetch has all up to there,    *)
(* and with the last one all there is.                                     *)
LEMMA PageTurns ==
    ASSUME CatalogInv, s7.step \in {"delta", "whole"},
           NEW q, q = Catalog!Turned(Catalog!Page)
    PROVE  /\ q \in Fetches /\ q.step = s7.step /\ q.previous = s7.previous /\ PagesFit(q)
           /\ q.page = s7.page + 1
           /\ Catalog!Page \subseteq Paged(s7.step, q.page)
           /\ Catalog!LastPage(Catalog!Page) => Paged(s7.step, q.page) = Catalog!Held(s2)
<1> USE MCStepsAssumption DEF MCStepsAssumption, Catalog!CatalogueAssumption
<1>1. CatalogBase /\ s7 \in Fetches /\ PagesFit(s7) /\ s2 \in [Catalog!Game -> Nat]
  BY DEF CatalogInv, CatalogBase, FetchFits
<1> DEFINE step == s7.step
           n == s7.page
<1>2. n \in Nat /\ s7.got \in [Catalog!Game -> Nat] /\ s7.read \in Nat
  BY <1>1 DEF Fetches
<1>3. \A g \in Catalog!Held(s2) : Catalog!Place(g) = Cardinality(Ahead(step, g))
                                  /\ Cardinality(Ahead(step, g)) \in Nat
  <2>1. \A g \in Catalog!Held(s2) :
            {h \in Catalog!Held(s2) : Catalog!Before(h, g)} = Ahead(step, g)
    BY DEF Catalog!Before, Ahead
  <2>2. \A g : Ahead(step, g) \in SUBSET Catalog!Game
    BY DEF Ahead, Catalog!Held
  <2>3. \A g : Cardinality(Ahead(step, g)) \in Nat
    BY <2>2, GamesFinite
  <2> QED BY <2>1, <2>3, CatalogCountsAlike DEF Catalog!Place
<1>4. Catalog!Page = Paged(step, n + 1) \ Paged(step, n)
  <2>1. PICK a \in Nat : a = n * PageSize
    BY <1>2
  <2>2. PICK b \in Nat : b = (n + 1) * PageSize
    BY <1>2
  <2>3. Catalog!Page = {g \in Catalog!Held(s2) : Catalog!Place(g) \in a .. b - 1}
    BY <2>1, <2>2 DEF Catalog!Page
  <2>4. /\ Paged(step, n) = {g \in Catalog!Held(s2) : Cardinality(Ahead(step, g)) < a}
        /\ Paged(step, n + 1) = {g \in Catalog!Held(s2) : Cardinality(Ahead(step, g)) < b}
    BY <2>1, <2>2 DEF Paged
  <2> HIDE DEF step, n
  <2>5. ASSUME NEW g \in Catalog!Held(s2)
        PROVE  Catalog!Place(g) \in a .. b - 1
                  <=> Cardinality(Ahead(step, g)) < b /\ ~(Cardinality(Ahead(step, g)) < a)
    BY <1>3
  <2> QED BY <2>3, <2>4, <2>5
<1>5. /\ Paged(step, n) \subseteq Paged(step, n + 1)
      /\ Cardinality(Paged(step, n + 1)) =
            Cardinality(Paged(step, n)) + Cardinality(Catalog!Page)
      /\ Cardinality(Catalog!Page) \in Nat /\ Cardinality(Paged(step, n)) \in Nat
      /\ \/ Cardinality(Catalog!Page) < PageSize
         \/ Cardinality(Paged(step, n + 1)) >= Cardinality(Catalog!Held(s2))
         => Paged(step, n + 1) = Catalog!Held(s2)
  <2> HIDE DEF step, n
  <2> QED BY <1>1, <1>2, <1>4, PagesEnd
<1>6. PICK got : got = Catalog!TakenIn(Catalog!Page, s7.got)
  OBVIOUS
<1>7. PICK read : read = s7.read + Cardinality(Catalog!Page)
  OBVIOUS
<1>8. q = [s7 EXCEPT !.got = got, !.page = n + 1, !.read = read]
  BY <1>6, <1>7, CatalogCountsAlike DEF Catalog!Turned, Catalog!Size
<1>9. got = [g \in Catalog!Game |-> IF g \in Paged(step, n + 1) THEN s2[g] ELSE 0]
  <2>1. s7.got = [g \in Catalog!Game |-> IF g \in Paged(step, n) THEN s2[g] ELSE 0]
    BY <1>1 DEF PagesFit
  <2> HIDE DEF step, n
  <2> QED BY <1>4, <1>5, <1>6, <2>1 DEF Catalog!TakenIn
<1>10. s7.read = Cardinality(Paged(step, n))
  BY <1>1 DEF PagesFit
<1>11. got \in [Catalog!Game -> Nat] /\ read \in Nat
  BY <1>1, <1>2, <1>5, <1>7, <1>9
<1>12. /\ q \in Fetches /\ q.step = s7.step /\ q.previous = s7.previous
       /\ q.page = n + 1 /\ q.got = got /\ q.read = read
  <2>1. PICK page \in Nat : page = n + 1
    BY <1>2
  <2>2. q = [s7 EXCEPT !.got = got, !.page = page, !.read = read]
    BY <1>8, <2>1
  <2>3. PICK f \in Fetches : f = s7
    BY <1>1
  <2>4. PICK r : r = [f EXCEPT !.got = got, !.page = page, !.read = read]
    OBVIOUS
  <2>5. /\ r \in Fetches /\ r.step = f.step /\ r.previous = f.previous
        /\ r.page = page /\ r.got = got /\ r.read = read
    BY ONLY <1>11, <2>4, f \in Fetches, page \in Nat DEF Fetches
  <2> QED BY <2>1, <2>2, <2>3, <2>4, <2>5
<1>13. PagesFit(q)
  BY <1>5, <1>7, <1>9, <1>10, <1>12 DEF PagesFit
<1>14. Catalog!LastPage(Catalog!Page) => Paged(step, n + 1) = Catalog!Held(s2)
  <2>1. Catalog!LastPage(Catalog!Page) <=>
            \/ Cardinality(Catalog!Page) < PageSize
            \/ s7.read + Cardinality(Catalog!Page) >= Cardinality(Catalog!Held(s2))
    BY CatalogCountsAlike DEF Catalog!LastPage, Catalog!Size
  <2> HIDE DEF step, n
  <2> QED BY <1>5, <1>10, <2>1
<1> QED BY <1>4, <1>12, <1>13, <1>14

(* A list that was read to its end is the server's, and so is its time.    *)
LEMMA WholeFits ==
    ASSUME CatalogInv, NEW at, at \in 0 .. s3, NEW still,
           NEW q, q = [s7 EXCEPT !.step = "fetched", !.got = s2, !.at = at]
    PROVE  FetchFits(q, still)
<1>1. CatalogBase /\ s7 \in Fetches /\ Knows(s7.previous) /\ s3 \in Nat
      /\ s2 \in [Catalog!Game -> Nat]
  BY DEF CatalogInv, CatalogBase, FetchFits
<1>2. at \in Nat
  BY <1>1
<1>3. PICK f \in Fetches : f = s7
  BY <1>1
<1>4. PICK list \in [Catalog!Game -> Nat] : list = s2
  BY <1>1
<1>5. PICK r : r = [f EXCEPT !.step = "fetched", !.got = list, !.at = at]
  OBVIOUS
<1>6. /\ r \in Fetches /\ r.previous = f.previous /\ r.step = "fetched"
      /\ r.got = list /\ r.at = at
  BY ONLY <1>2, <1>5, f \in Fetches, list \in [Catalog!Game -> Nat] DEF Fetches
<1>7. /\ q \in Fetches /\ q.previous = s7.previous /\ q.step = "fetched"
      /\ q.got = s2 /\ q.at = at
  BY <1>3, <1>4, <1>5, <1>6
<1> QED BY <1>1, <1>7 DEF FetchFits, Knows

(* Pages keep it as well: those that changed come first, so that a delta   *)
(* has them all; the others are as they were, and if there are as many as  *)
(* the server has, none was removed.                                       *)
LEMMA PageSteps ==
    ASSUME CatalogInv, Catalog!DeltaPage \/ Catalog!WholePage
    PROVE  CatalogInv'
<1> USE MCStepsAssumption DEF MCStepsAssumption, Catalog!CatalogueAssumption
<1>1. CatalogBase /\ FetchFits(s7, s8) /\ s7 \in Fetches
      /\ s5 \in CatalogMirror /\ s6 \in CatalogMirror /\ Knows(s5) /\ Knows(s6)
      /\ s7.previous \in CatalogMirror /\ Knows(s7.previous)
  BY DEF CatalogInv, CatalogBase, FetchFits, Fetches
<1>2. s2 \in [Catalog!Game -> Nat] /\ s3 \in 0 .. MaxTime /\ \A g \in Catalog!Game : s2[g] <= s3
  BY <1>1 DEF CatalogBase
<1>3. /\ UNCHANGED <<s2, s3, s5, s6, s8>> /\ s7.step \in {"delta", "whole"}
      /\ Catalog!DeltaPage => s7.step = "delta"
      /\ Catalog!WholePage => s7.step = "whole"
  BY DEF Catalog!DeltaPage, Catalog!WholePage, Catalog!Fetching
<1>4. PICK next : next = Catalog!Turned(Catalog!Page)
  OBVIOUS
<1>5. /\ next \in Fetches /\ next.step = s7.step /\ next.previous = s7.previous
      /\ PagesFit(next) /\ next.page = s7.page + 1
      /\ Catalog!Page \subseteq Paged(s7.step, next.page)
      /\ Catalog!LastPage(Catalog!Page) => Paged(s7.step, next.page) = Catalog!Held(s2)
  BY <1>3, <1>4, PageTurns
<1>6. FetchFits(next, s8)
  BY <1>1, <1>3, <1>5 DEF FetchFits
<1>7. \A g \in Catalog!Game :
          next.got[g] = IF g \in Paged(s7.step, next.page) THEN s2[g] ELSE 0
  BY <1>5 DEF PagesFit
<1>8. Catalog!NewestUpdate(s2) \in 0 .. s3
  BY <1>2, NewestIsTime
<1>9. CASE Catalog!WholePage
  <2>1. CASE Catalog!LastPage(Catalog!Page)
    <3>1. next.got = s2
      <4>1. \A g \in Catalog!Game : next.got[g] = s2[g]
        BY <1>2, <1>5, <1>7, <2>1 DEF Catalog!Held
      <4> QED BY <1>2, <1>5, <4>1 DEF Fetches
    <3>2. s7' = [s7 EXCEPT !.step = "fetched", !.got = s2, !.at = Catalog!NewestUpdate(s2)]
      BY <1>4, <1>9, <2>1, <3>1 DEF Catalog!WholePage, Catalog!Fetching, Catalog!Fetched
    <3>3. FetchFits(s7', s8)
      BY <1>8, <3>2, WholeFits
    <3> QED BY <1>1, <1>3, <3>3, CatalogMoves
  <2>2. CASE ~Catalog!LastPage(Catalog!Page)
    <3>1. s7' = next
      BY <1>4, <1>9, <2>2 DEF Catalog!WholePage, Catalog!Fetching
    <3> QED BY <1>1, <1>3, <1>6, <3>1, CatalogMoves
  <2> QED BY <2>1, <2>2
<1>10. CASE Catalog!DeltaPage
  <2>1. PICK since \in Nat : since = s7.previous.at
    BY <1>1 DEF CatalogMirror
  <2>2. PICK changed : changed =
            [g \in Catalog!Game |-> IF next.got[g] >= since THEN next.got[g] ELSE 0]
    OBVIOUS
  <2>3. PICK games : games = Catalog!Merged(s7.previous.games, changed, Catalog!Game)
    OBVIOUS
  <2>4. PICK at : at = IF Catalog!Held(games) = {} THEN since ELSE Catalog!NewestUpdate(games)
    OBVIOUS
  <2>5. s7' = IF ~Catalog!LastPage(Catalog!Page) /\ \A g \in Catalog!Page : s2[g] >= since
              THEN next
              ELSE IF Catalog!Cardinality(Catalog!Held(games)) = Catalog!Cardinality(Catalog!Held(s2))
              THEN Catalog!Fetched(games, at)
              ELSE [Catalog!NoFetch EXCEPT !.step = "whole"]
    BY <1>4, <1>10, <2>1, <2>2, <2>3, <2>4 DEF Catalog!DeltaPage, Catalog!Fetching
  <2>6. CASE ~Catalog!LastPage(Catalog!Page) /\ \A g \in Catalog!Page : s2[g] >= since
    <3>1. s7' = next
      BY <2>5, <2>6
    <3> QED BY <1>1, <1>3, <1>6, <3>1, CatalogMoves
  <2>7. ASSUME Catalog!LastPage(Catalog!Page) \/ \E g \in Catalog!Page : ~(s2[g] >= since),
               NEW h \in Catalog!Held(s2), s2[h] >= since
        PROVE  h \in Paged("delta", next.page)
    <3>1. CASE Catalog!LastPage(Catalog!Page)
      BY <1>3, <1>5, <1>10, <2>7, <3>1
    <3>2. ASSUME NEW g \in Catalog!Page, ~(s2[g] >= since)
          PROVE  h \in Paged("delta", next.page)
      <4>1. g \in Paged("delta", next.page) /\ g \in Catalog!Held(s2)
        BY <1>3, <1>5, <1>10, <3>2 DEF Paged
      <4>2. Ahead("delta", h) \subseteq Ahead("delta", g) /\ Ahead("delta", g) \in SUBSET Catalog!Game
            /\ Ahead("delta", h) \in SUBSET Catalog!Game
        BY <1>2, <2>7, <3>2, <4>1 DEF Ahead, Catalog!Held
      <4>3. /\ Cardinality(Ahead("delta", h)) <= Cardinality(Ahead("delta", g))
            /\ Cardinality(Ahead("delta", h)) \in Nat /\ Cardinality(Ahead("delta", g)) \in Nat
        BY <4>2, GamesFinite, FS_Subset
      <4>4. PICK b \in Nat : b = next.page * PageSize
        BY <1>5 DEF Fetches
      <4>5. Cardinality(Ahead("delta", g)) < b
        BY <4>1, <4>4 DEF Paged
      <4>6. Cardinality(Ahead("delta", h)) < b
        BY <4>3, <4>5
      <4> QED BY <2>7, <4>4, <4>6 DEF Paged
    <3> QED BY <2>7, <3>1, <3>2
  <2>8. ASSUME Catalog!LastPage(Catalog!Page) \/ \E g \in Catalog!Page : ~(s2[g] >= since),
               Catalog!Cardinality(Catalog!Held(games)) = Catalog!Cardinality(Catalog!Held(s2)),
               s7' = Catalog!Fetched(games, at)
        PROVE  CatalogInv'
    <3>1. \A g \in Catalog!Game : games[g] = IF changed[g] # 0 THEN changed[g]
                                             ELSE s7.previous.games[g]
      BY <2>3 DEF Catalog!Merged
    <3>2. ASSUME NEW g \in Catalog!Held(s2)
          PROVE  games[g] = s2[g] /\ g \in Catalog!Held(games)
      <4>1. g \in Catalog!Game /\ s2[g] # 0 /\ s2[g] \in Nat
        BY <1>2 DEF Catalog!Held
      <4>2. CASE s2[g] >= since
        <5>1. next.got[g] = s2[g]
          BY <1>3, <1>7, <1>10, <2>7, <2>8, <4>1, <4>2
        <5>2. changed[g] = s2[g]
          BY <2>2, <4>1, <4>2, <5>1
        <5> QED BY <3>1, <4>1, <5>2 DEF Catalog!Held
      <4>3. CASE ~(s2[g] >= since)
        <5>1. next.got[g] = s2[g] \/ next.got[g] = 0
          BY <1>7, <4>1
        <5>2. changed[g] = 0
          BY <2>2, <4>1, <4>3, <5>1
        <5>3. s7.previous.games[g] = s2[g]
          BY <1>1, <2>1, <4>1, <4>3 DEF Knows
        <5> QED BY <3>1, <4>1, <5>2, <5>3 DEF Catalog!Held
      <4> QED BY <4>2, <4>3
    <3>3. Catalog!Held(games) = Catalog!Held(s2)
      <4>1. Catalog!Held(s2) \subseteq Catalog!Held(games)
            /\ Catalog!Held(games) \in SUBSET Catalog!Game
        BY <3>2 DEF Catalog!Held
      <4>2. Cardinality(Catalog!Held(games)) = Cardinality(Catalog!Held(s2))
        BY <2>8, CatalogCountsAlike
      <4> QED BY <4>1, <4>2, GamesFinite, FS_Subset
    <3>4. games = s2
      <4>1. \A g \in Catalog!Game : games[g] = s2[g]
        BY <3>2, <3>3 DEF Catalog!Held
      <4>2. games = [g \in Catalog!Game |-> games[g]]
        BY <2>3 DEF Catalog!Merged
      <4> QED BY <1>2, <4>1, <4>2
    <3>5. at \in 0 .. s3
      <4>1. since <= s3
        BY <1>1, <2>1 DEF Knows
      <4> QED BY <1>2, <1>8, <2>4, <3>4, <4>1
    <3>6. s7' = [s7 EXCEPT !.step = "fetched", !.got = s2, !.at = at]
      BY <2>8, <3>4 DEF Catalog!Fetched
    <3>7. FetchFits(s7', s8)
      BY <3>5, <3>6, WholeFits
    <3> QED BY <1>1, <1>3, <3>7, CatalogMoves
  <2>9. ASSUME s7' = [Catalog!NoFetch EXCEPT !.step = "whole"]
        PROVE  CatalogInv'
    <3>1. Catalog!NoFetch \in Fetches /\ Knows(Catalog!NoMirror)
          /\ Catalog!NoFetch.previous = Catalog!NoMirror
          /\ Catalog!NoFetch.got = Catalog!Nothing /\ Catalog!NoFetch.page = 0
          /\ Catalog!NoFetch.read = 0
      BY <1>1, NothingFits DEF Catalog!NoFetch
    <3>2. /\ s7' \in Fetches /\ s7'.previous = Catalog!NoMirror /\ s7'.step = "whole"
          /\ s7'.got = Catalog!Nothing /\ s7'.page = 0 /\ s7'.read = 0
      BY <2>9, <3>1 DEF Fetches
    <3>3. Paged("whole", 0) = {} /\ Cardinality({}) = 0
      BY <1>1, PagesEnd, 0 \in Nat
    <3>4. PagesFit(s7')
      BY <3>2, <3>3 DEF PagesFit, Catalog!Nothing
    <3>5. FetchFits(s7', s8)
      BY <3>1, <3>2, <3>4 DEF FetchFits
    <3> QED BY <1>1, <1>3, <3>5, CatalogMoves
  <2> QED BY <2>5, <2>6, <2>8, <2>9
<1> QED BY <1>9, <1>10

(* The catalogue keeps its invariant.                                      *)
LEMMA CatalogStays == CatalogInv /\ Catalog!Next => CatalogInv'
  BY LibraryChanges, FetchSteps, PageSteps DEF Catalog!Next

(* However the library changed before, during earlier fetches or while the *)
(* app was closed, a fetch during which it rests lists exactly what the    *)
(* server has, whether the server has deltas, sends all at once or is read *)
(* page after page: for any number of games and changes and for batches    *)
(* and pages of any size (catalog.rs, v1.rs, AppState::games).             *)
THEOREM EveryGameHolds == Spec => []EveryGame
<1> DEFINE Inv == part = "catalogue" => CatalogInv
<1>1. Init => Inv
  BY CatalogInit DEF Init
<1>2. Inv /\ [Next]_vars => Inv'
  <2> SUFFICES ASSUME Inv, [Next]_vars, part = "catalogue"
               PROVE  CatalogInv'
    BY PartStays
  <2>1. CASE Next
    BY <2>1, OnlyItsSteps, CatalogStays
  <2>2. CASE UNCHANGED vars
    <3>1. UNCHANGED <<s2, s3, s5, s6, s7, s8>>
      BY <2>2 DEF vars
    <3>2. /\ s5 \in CatalogMirror /\ s6 \in CatalogMirror /\ Knows(s5) /\ Knows(s6)
          /\ FetchFits(s7, s8) /\ CatalogInv
      BY DEF CatalogInv, CatalogBase
    <3> QED BY <3>1, <3>2, CatalogMoves
  <2> QED BY <2>1, <2>2
<1>3. Inv => EveryGame
  BY DEF CatalogInv, FetchFits, EveryGame, Catalog!EveryGame
<1> QED BY <1>1, <1>2, <1>3, PTL DEF Spec
=============================================================================
