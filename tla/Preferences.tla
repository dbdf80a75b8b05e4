----------------------------- MODULE Preferences ----------------------------
(***************************************************************************)
(* The settings and what has to follow them (src-tauri/src/settings.rs,    *)
(* ipc/session.rs): which store the saves go to and the version ids that   *)
(* mean something only there, the speed limit the transfers read, and the  *)
(* games folders.                                                          *)
(*                                                                         *)
(* update_settings stores the change under settings_writer and brings the  *)
(* rest in line afterwards, each in an action of its own, so two commands  *)
(* may interleave and the app may be killed in between.                    *)
(***************************************************************************)
EXTENDS Integers, Sequences, FiniteSets, SequencesExt

CONSTANTS
    Server,     \* the servers the user may name
    Folder,     \* the folders: of games, and of saves
    Limit,      \* the speed limits chosen from, 0 of them unlimited
    None,       \* nothing there
    Caller,     \* commands that may be under way at once
    Syncs,      \* whether a save sync may be under way while a command is
    Killed      \* whether the app may be killed while a command is under way

PreferencesAssumption ==
    /\ None \notin Server \cup Folder
    /\ 0 \in Limit /\ None \notin Limit
    /\ Syncs \in BOOLEAN
    /\ Killed \in BOOLEAN

VARIABLES
    settings,   \* the settings, in memory and on disk
    synced,     \* the store last_synced_save_id of a game came from
    syncing,    \* the store a save sync under way opened
    limit,      \* what the transfers are limited to
    transfer,   \* whether one runs
    command     \* the commands under way

vars == <<settings, synced, syncing, limit, transfer, command>>

Backend == {"server", "folder", "webdav"}
Store == [backend : Backend, at : Server \cup Folder \cup {None}]

Settings ==
    [server : Server \cup {None}, backend : Backend, saves : Folder \cup {None},
     root : Folder \cup {None}, extra : Seq(Folder), limit : Limit]

Defaults == [server |-> None, backend |-> "server", saves |-> None,
             root |-> None, extra |-> <<>>, limit |-> 0]

(* Version ids from one store mean nothing to another. *)
SaveStoreIdentity(s) ==
    [backend |-> s.backend, at |-> IF s.backend = "server" THEN s.server ELSE s.saves]

(* Every games folder, the default first, without duplicates. *)
LibraryRoots(s) ==
    LET all == (IF s.root = None THEN <<>> ELSE <<s.root>>) \o s.extra
    IN  FoldSeq(LAMBDA r, roots : IF r \in Range(roots) THEN roots ELSE Append(roots, r), <<>>, all)

SetLibraryRoots(s, roots) ==
    [s EXCEPT !.root = IF roots = <<>> THEN None ELSE Head(roots),
              !.extra = IF roots = <<>> THEN <<>> ELSE Tail(roots)]

(* Fields the user changes, each with what may be sent for it. *)
Patch ==
    [field : {"limit"}, value : Limit] \cup [field : {"backend"}, value : Backend]
        \cup [field : {"saves", "root"}, value : Folder]

Patched(s, patch) ==
    CASE patch.field = "limit" -> [s EXCEPT !.limit = patch.value]
      [] patch.field = "backend" -> [s EXCEPT !.backend = patch.value]
      [] patch.field = "saves" -> [s EXCEPT !.saves = patch.value]
      [] patch.field = "root" -> [s EXCEPT !.root = patch.value]

(* The server, the session, the games folders and the save location stay.  *)
ResetPreferences(s) == [s EXCEPT !.limit = Defaults.limit]

Idle == [at |-> "idle", moved |-> FALSE, limit |-> None]

Init ==
    /\ settings = Defaults
    /\ synced = None
    /\ syncing = None
    /\ limit = 0
    /\ transfer = FALSE
    /\ command = [c \in Caller |-> Idle]

TypeOK ==
    /\ settings \in Settings
    /\ synced \in Store \cup {None} /\ syncing \in Store \cup {None}
    /\ limit \in Limit
    /\ transfer \in BOOLEAN
    /\ command \in [Caller -> [at : {"idle", "stored", "settled"}, moved : BOOLEAN,
                               limit : Limit \cup {None}]]
    /\ settings.extra # <<>> => settings.root # None

Calls(c, next) == command' = [command EXCEPT ![c] = next]

AtRest == \A c \in Caller : command[c] = Idle
-----------------------------------------------------------------------------
(* update_settings and reset_settings. *)

UpdateSettings(c, patch) ==
    /\ command[c] = Idle
    /\ settings' = Patched(settings, patch)
    /\ Calls(c, [at |-> "stored",
                 moved |-> SaveStoreIdentity(settings') # SaveStoreIdentity(settings),
                 limit |-> IF patch.field = "limit" THEN patch.value ELSE None])
    /\ UNCHANGED <<synced, syncing, limit, transfer>>

ResetSettings(c) ==
    /\ command[c] = Idle
    /\ settings' = ResetPreferences(settings)
    /\ Calls(c, [at |-> "stored", moved |-> FALSE, limit |-> settings'.limit])
    /\ UNCHANGED <<synced, syncing, limit, transfer>>

(* A mistake to check against: the ids are kept. *)
ForgetNothing(c) ==
    /\ command[c].at = "stored"
    /\ Calls(c, [command[c] EXCEPT !.at = "settled"])
    /\ UNCHANGED <<settings, synced, syncing, limit, transfer>>

(* Otherwise the old store's ids reach the new one as an upload's base.    *)
ForgetSyncedSaveIds(c) ==
    /\ command[c].at = "stored"
    /\ synced' = IF command[c].moved THEN None ELSE synced
    /\ Calls(c, [command[c] EXCEPT !.at = "settled"])
    /\ UNCHANGED <<settings, syncing, limit, transfer>>

(* The live counterpart of a setting that has one. *)
ApplyLimit(c) ==
    /\ command[c].at = "settled"
    /\ limit' = IF command[c].limit = None THEN limit ELSE command[c].limit
    /\ Calls(c, Idle)
    /\ UNCHANGED <<settings, synced, syncing, transfer>>
-----------------------------------------------------------------------------
(* Other commands that change the settings; nothing follows them. *)

Sets(next) ==
    /\ settings' = next
    /\ UNCHANGED <<synced, syncing, limit, transfer, command>>

SetServerUrl(server) == Sets([settings EXCEPT !.server = server])

AddLibraryRoot(root) ==
    /\ root \notin Range(LibraryRoots(settings))
    /\ Sets(SetLibraryRoots(settings, Append(LibraryRoots(settings), root)))

(* At least one games folder is needed. *)
RemoveLibraryRoot(root) ==
    LET remaining == SelectSeq(LibraryRoots(settings), LAMBDA r : r # root)
    IN  /\ remaining # <<>>
        /\ Sets(SetLibraryRoots(settings, remaining))

SetDefaultLibraryRoot(root) ==
    /\ root \in Range(LibraryRoots(settings))
    /\ Sets(SetLibraryRoots(settings,
                <<root>> \o SelectSeq(LibraryRoots(settings), LAMBDA r : r # root)))
-----------------------------------------------------------------------------
(* What depends on the settings. *)

(* start_download reads the limit from the settings again. *)
StartDownload ==
    /\ ~transfer
    /\ transfer' = TRUE
    /\ limit' = settings.limit
    /\ UNCHANGED <<settings, synced, syncing, command>>

DownloadEnds ==
    /\ transfer
    /\ transfer' = FALSE
    /\ UNCHANGED <<settings, synced, syncing, limit, command>>

(* A save sync opens the store of the settings, and records its version.   *)
OpenStore ==
    /\ syncing = None
    /\ SaveStoreIdentity(settings).at # None
    /\ (~Syncs => AtRest)
    /\ syncing' = SaveStoreIdentity(settings)
    /\ UNCHANGED <<settings, synced, limit, transfer, command>>

RecordSynced ==
    /\ syncing # None
    /\ (~Syncs => syncing = SaveStoreIdentity(settings) /\ AtRest)
    /\ synced' = syncing
    /\ syncing' = None
    /\ UNCHANGED <<settings, limit, transfer, command>>

SyncFails ==
    /\ syncing # None
    /\ syncing' = None
    /\ UNCHANGED <<settings, synced, limit, transfer, command>>

(* The app ends, or is killed, and is started again. *)
Restart ==
    /\ (~Killed => AtRest)
    /\ command' = [c \in Caller |-> Idle]
    /\ syncing' = None
    /\ transfer' = FALSE
    /\ limit' = 0
    /\ UNCHANGED <<settings, synced>>
-----------------------------------------------------------------------------
Next ==
    \/ \E c \in Caller :
          \/ \E patch \in Patch : UpdateSettings(c, patch)
          \/ ResetSettings(c) \/ ForgetSyncedSaveIds(c) \/ ApplyLimit(c)
    \/ \E server \in Server : SetServerUrl(server)
    \/ \E root \in Folder :
          AddLibraryRoot(root) \/ RemoveLibraryRoot(root) \/ SetDefaultLibraryRoot(root)
    \/ StartDownload \/ DownloadEnds
    \/ OpenStore \/ RecordSynced \/ SyncFails
    \/ Restart

Spec == Init /\ [][Next]_vars
-----------------------------------------------------------------------------
(* A version id that is on record came from the store the saves go to now: *)
(* sent to another store as the base of an upload, it would match a        *)
(* stranger's version or none.                                             *)
IdsOfStore == AtRest /\ synced # None => synced = SaveStoreIdentity(settings)

(* Between commands, running transfers obey the limit that is stored.      *)
LimitObeyed == AtRest /\ transfer => limit = settings.limit

SettingsObeyed == IdsOfStore /\ LimitObeyed
=============================================================================
