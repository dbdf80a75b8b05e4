---------------------------- MODULE ServerSession ---------------------------
(***************************************************************************)
(* The app's connection to its server: settings and startup                *)
(* (src-tauri/src/state.rs), signing in and out and changing the server    *)
(* (ipc/session.rs, auth_flow.rs), the swap of a web session for a token   *)
(* that survives it, and the remembered session check.                     *)
(*                                                                         *)
(* The commands run on a thread pool and await the server: every step      *)
(* between two requests is an action.  A change to the settings is one     *)
(* action, for it holds settings_writer, and a kill within it leaves the   *)
(* file of before or after.                                                *)
(***************************************************************************)
EXTENDS Integers, FiniteSets

CONSTANTS
    Server,     \* the servers the user signs in to
    None,       \* nothing there
    Modes,      \* "apart": one command that changes the session at a time;
                \* "together": they overlap each other and the start
    MaxTokens,  \* bound: tokens ever issued
    MaxClients  \* bound: changes of the client in one run of the app

Token == [of : Server, kind : {"device", "apiKey"}, n : 1 .. MaxTokens]

ServerSessionAssumption ==
    /\ None \notin Server \cup Token
    /\ Modes \subseteq {"apart", "together"}
    /\ MaxTokens \in Nat /\ MaxClients \in Nat

VARIABLES
    mode,       \* one of Modes, for good
    offers,     \* what each server issues: device tokens, API keys, or neither
    valid,      \* the web sessions and tokens the servers accept
    issued,     \* tokens ever issued
    up,         \* the app: off, loading, or ready (restored)
    mem,        \* the settings in memory
    file,       \* settings.json
    broken,     \* settings.json cannot be read
    client,     \* the client in use
    generation, \* client_generation
    checked,    \* the last session check: of which generation, and its answer
    start,      \* restore, after it has read the settings
    login,      \* poll_login
    out         \* sign_out, reset_login, or set_server_url to another server

servers == <<mode, offers, valid, issued>>
config == <<up, mem, file, broken>>
connection == <<client, generation, checked>>
tasks == <<start, login, out>>
vars == <<servers, config, connection, tasks>>

Defaults == [server |-> None, cookies |-> None, token |-> None, changed |-> FALSE]

Settings ==
    [server : Server \cup {None}, cookies : Server \cup {None},
     token : Token \cup {None}, changed : BOOLEAN]

HasSession(s) == s.cookies # None \/ s.token # None

Client == [server : Server, cookies : Server \cup {None}, token : Token \cup {None}]

Idle == [at |-> "idle", server |-> None, token |-> None]

Init ==
    /\ mode \in Modes
    /\ offers \in [Server -> {"device", "apiKey", "none"}]
    /\ valid = [cookies |-> {}, tokens |-> {}]
    /\ issued = 0
    /\ up = "off"
    /\ mem = Defaults
    /\ file = Defaults
    /\ broken = FALSE
    /\ client = None
    /\ generation = 0
    /\ checked = None
    /\ start = Idle
    /\ login = Idle
    /\ out = Idle

TypeOK ==
    /\ mode \in Modes
    /\ offers \in [Server -> {"device", "apiKey", "none"}]
    /\ valid \in [cookies : SUBSET Server, tokens : SUBSET Token]
    /\ issued \in 0 .. MaxTokens
    /\ up \in {"off", "loading", "ready"}
    /\ mem \in Settings /\ file \in Settings /\ broken \in BOOLEAN
    /\ client \in Client \cup {None}
    /\ generation \in 0 .. MaxClients
    /\ checked = None \/ checked \in [of : 0 .. MaxClients, answer : {"in", "out", "offline"}]
    /\ \A t \in {start, login, out} :
          /\ t.at \in {"idle", "check", "user", "accepted", "create", "store", "connect",
                       "revoke", "disconnect", "clear"}
          /\ t.server \in Server \cup {None}
          /\ t.token \in Token \cup {None}

Alone(tasksAtRest) == mode = "apart" => \A t \in tasksAtRest : t.at = "idle"
-----------------------------------------------------------------------------
(* The settings and the client. *)

Stored(s) == /\ mem' = s
             /\ file' = s
             /\ broken' = FALSE
             /\ UNCHANGED up

NotStored == UNCHANGED config

(* A client for a server, with whatever proves who the user is. *)
Connected(server, cookies, token) ==
    /\ generation < MaxClients
    /\ client' = [server |-> server, cookies |-> cookies, token |-> token]
    /\ generation' = generation + 1
    /\ UNCHANGED checked

Disconnected ==
    /\ generation < MaxClients
    /\ client' = None
    /\ generation' = generation + 1
    /\ UNCHANGED checked

(* What the server makes of a client's requests. *)
Accepts(c) ==
    IF c.token # None
    THEN c.token \in valid.tokens /\ c.token.of = c.server
    ELSE c.cookies = c.server /\ c.server \in valid.cookies

(* A token wins over the cookies, which come along. *)
ConnectStored(s) ==
    IF s.server # None /\ HasSession(s)
    THEN Connected(s.server, s.cookies, s.token)
    ELSE UNCHANGED connection
-----------------------------------------------------------------------------
(* Startup: AppState::restore. *)

Launch ==
    /\ up = "off"
    /\ up' = "loading"
    /\ mem' = Defaults
    /\ client' = None /\ generation' = 0 /\ checked' = None
    /\ start' = Idle /\ login' = Idle /\ out' = Idle
    /\ UNCHANGED <<servers, file, broken>>

(* An unreadable file is set aside and the app starts afresh; otherwise a  *)
(* stored session is connected before anyone may ask about it.             *)
Restore ==
    /\ up = "loading"
    /\ up' = "ready"
    /\ mem' = IF broken THEN Defaults ELSE file
    /\ file' = mem'
    /\ broken' = FALSE
    /\ ConnectStored(mem')
    /\ start' = IF client' = None THEN Idle ELSE [Idle EXCEPT !.at = "check", !.server = mem'.server]
    /\ UNCHANGED <<servers, login, out>>

(* A session from before the server issued tokens is upgraded. *)
StartChecked(answered) ==
    /\ start.at = "check"
    /\ start' = IF /\ client # None /\ answered
                   /\ Accepts(client) /\ mem.token = None
                THEN [start EXCEPT !.at = "create"]
                ELSE Idle
    /\ UNCHANGED <<servers, config, connection, login, out>>

(* The process ends, or is killed; the file may turn out unreadable. *)
Quit(breaks) ==
    /\ up # "off"
    /\ up' = "off"
    /\ broken' = (broken \/ breaks)
    /\ UNCHANGED <<servers, mem, file, connection, tasks>>
-----------------------------------------------------------------------------
(* adopt_device_token, of the start or of a sign-in.                       *)

Task(who) == IF who = "start" THEN start ELSE login

Becomes(who, task) ==
    /\ UNCHANGED out
    /\ IF who = "start" THEN start' = task /\ UNCHANGED login
                        ELSE login' = task /\ UNCHANGED start

(* A device token, else an API key; or no client, no answer, no endpoint. *)
CreateToken(who) ==
    /\ Task(who).at = "create"
    /\ UNCHANGED <<mode, offers, config, connection>>
    /\ \/ /\ Becomes(who, Idle)
          /\ UNCHANGED <<valid, issued>>
       \/ /\ client # None
          /\ Accepts(client)
          /\ offers[client.server] # "none"
          /\ issued < MaxTokens
          /\ issued' = issued + 1
          /\ LET token == [of |-> client.server, kind |-> offers[client.server],
                           n |-> issued + 1]
             IN  /\ valid' = [valid EXCEPT !.tokens = @ \cup {token}]
                 /\ Becomes(who, [Task(who) EXCEPT !.at = "store", !.token = token])

(* Stored before use: a token only in memory would be lost on the next     *)
(* start.  One that cannot be stored is not used.                          *)
StoreToken(who) ==
    /\ Task(who).at = "store"
    /\ \/ /\ Stored([mem EXCEPT !.token = Task(who).token])
          /\ Becomes(who, [Task(who) EXCEPT !.at = "connect"])
       \/ /\ NotStored
          /\ Becomes(who, Idle)
    /\ UNCHANGED <<servers, connection>>

UseToken(who) ==
    /\ Task(who).at = "connect"
    /\ Connected(Task(who).server, mem.cookies, Task(who).token)
    /\ Becomes(who, Idle)
    /\ UNCHANGED <<servers, config>>
-----------------------------------------------------------------------------
(* Signing in: poll_login, called again and again while the window is open. *)

SetServer(s) ==
    /\ up = "ready"
    /\ mem.server = None
    /\ Stored([mem EXCEPT !.server = s])
    /\ UNCHANGED <<servers, connection, tasks>>

(* The window's cookies, whether or not they authenticate yet. *)
PollLogin(signedIn) ==
    /\ up = "ready"
    /\ login.at = "idle"
    /\ Alone({start, out})
    /\ mem.server # None
    /\ valid' = IF signedIn THEN [valid EXCEPT !.cookies = @ \cup {mem.server}] ELSE valid
    /\ Connected(mem.server, mem.server, None)
    /\ login' = [Idle EXCEPT !.at = "user", !.server = mem.server]
    /\ UNCHANGED <<mode, offers, issued, config, start, out>>

PollWaits ==
    /\ login.at = "user"
    /\ login' = Idle
    /\ UNCHANGED <<servers, config, connection, start, out>>

(* The server knows the user: an API key this replaces is revoked. *)
PollAccepted ==
    /\ login.at = "user"
    /\ client # None
    /\ Accepts(client)
    /\ valid' = [valid EXCEPT !.tokens = {t \in @ : t # mem.token \/ t.kind = "device"}]
    /\ login' = [login EXCEPT !.at = "accepted"]
    /\ UNCHANGED <<mode, offers, issued, config, connection, start, out>>

StoreLogin ==
    /\ login.at = "accepted"
    /\ \/ /\ Stored([mem EXCEPT !.cookies = login.server, !.token = None])
          /\ login' = [login EXCEPT !.at = "create"]
       \/ /\ NotStored
          /\ login' = Idle
    /\ UNCHANGED <<servers, connection, start, out>>

(* The web session times out at the server. *)
SessionExpires(s) ==
    /\ s \in valid.cookies
    /\ valid' = [valid EXCEPT !.cookies = @ \ {s}]
    /\ UNCHANGED <<mode, offers, issued, config, connection, tasks>>
-----------------------------------------------------------------------------
(* Signing out, and another server: forget_session, set_server_url.        *)

Leave(server) ==
    /\ up = "ready"
    /\ out.at = "idle"
    /\ Alone({start, login})
    /\ mem.server # None
    /\ out' = [Idle EXCEPT !.at = "revoke", !.server = server]
    /\ UNCHANGED <<servers, config, connection, start, login>>

Steps(to) ==
    /\ out' = [out EXCEPT !.at = to]
    /\ UNCHANGED <<start, login>>

(* Only a web session may revoke an API key, only a device token itself. *)
MayRevoke ==
    /\ client # None
    /\ mem.token # None
    /\ IF mem.token.kind = "apiKey"
       THEN mem.cookies = client.server /\ mem.cookies \in valid.cookies
       ELSE Accepts(client)

(* Best effort: no answer in time is as good. *)
Revoke(answered) ==
    /\ out.at = "revoke"
    /\ valid' = IF answered /\ MayRevoke THEN [valid EXCEPT !.tokens = @ \ {mem.token}] ELSE valid
    /\ Steps("disconnect")
    /\ UNCHANGED <<mode, offers, issued, config, connection>>

(* The catalogue is forgotten next: Catalogue. *)
Disconnect ==
    /\ out.at = "disconnect"
    /\ Disconnected
    /\ Steps("clear")
    /\ UNCHANGED <<servers, config>>

ClearSession ==
    /\ out.at = "clear"
    /\ \/ Stored([mem EXCEPT !.cookies = None, !.token = None, !.server = out.server])
       \/ NotStored
    /\ out' = Idle
    /\ UNCHANGED <<servers, connection, start, login>>
-----------------------------------------------------------------------------
(* Settings changed, the session asked about. *)

(* A mistake to check against: what the page does not show is left out. *)
ChangedAlone == Stored([Defaults EXCEPT !.server = mem.server, !.changed = ~mem.changed])

Changed == Stored([mem EXCEPT !.changed = ~@])

(* update_settings is refused until startup has read the file. *)
Patch ==
    /\ up = "ready"
    /\ Changed
    /\ UNCHANGED <<servers, connection, tasks>>

(* check_session: five seconds' answer of the same client is used again. *)
CheckSession(answered) ==
    /\ up = "ready"
    /\ client # None
    /\ (checked # None => checked.of # generation)
    /\ checked' = [of |-> generation,
                   answer |-> IF ~answered THEN "offline"
                              ELSE IF Accepts(client) THEN "in" ELSE "out"]
    /\ UNCHANGED <<servers, config, client, generation, tasks>>

CheckExpires ==
    /\ checked # None
    /\ checked' = None
    /\ UNCHANGED <<servers, config, client, generation, tasks>>
-----------------------------------------------------------------------------
Next ==
    \/ Launch \/ Restore
    \/ \E answered \in BOOLEAN :
          StartChecked(answered) \/ Revoke(answered) \/ CheckSession(answered)
    \/ \E breaks \in BOOLEAN : Quit(breaks)
    \/ up # "off" /\ \/ \E who \in {"start", "login"} :
                           CreateToken(who) \/ StoreToken(who) \/ UseToken(who)
                     \/ PollWaits \/ PollAccepted \/ StoreLogin
                     \/ Disconnect \/ ClearSession \/ CheckExpires
    \/ \E s \in Server : SetServer(s) \/ Leave(s) \/ SessionExpires(s)
    \/ \E signedIn \in BOOLEAN : PollLogin(signedIn)
    \/ Patch

Spec == Init /\ [][Next]_vars
-----------------------------------------------------------------------------
(* A restart finds the user signed in as before: the stored session is     *)
(* given up only by leaving it or by a newer sign-in, whatever is changed  *)
(* while the app still starts; and a token in use is one that is stored.   *)
SessionKept ==
    ~broken /\ HasSession(file) /\ ~HasSession(file') => out.at = "clear"

TokenStored ==
    up # "off" /\ client # None /\ client.token # None => file.token = client.token
=============================================================================
