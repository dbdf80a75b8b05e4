---------------------------- MODULE WindowsPrefix ----------------------------
(***************************************************************************)
(* Readying a Windows game's prefix before it starts on Linux: find or     *)
(* download a runtime (Proton through umu, or Gameyfin's Wine), choose the *)
(* one this program runs on, prepare the game's prefix when its marker     *)
(* does not describe what is wanted, and start.  The downloads are shared  *)
(* by every game and made under one lock; builds are replaced and removed  *)
(* from the settings page meanwhile; the app may be killed at any step.    *)
(*                                                                         *)
(* One Wine version exists at a time (the app never upgrades it) and so    *)
(* does one of each graphics component, so both are just there or not.     *)
(***************************************************************************)
EXTENDS Naturals, FiniteSets

CONSTANTS
  Game,          \* the Windows games
  Family,        \* the families of Proton builds; DefaultFamily is UMU-Proton
  DefaultFamily,
  Wine,          \* Gameyfin's Wine, as a runtime
  Unset,         \* no pin, no marker, nobody, no runtime
  Host,          \* the machines: umu's preflight passes, 32-bit libraries, DXVK, Direct3D 12
  MaxVersion,    \* bound: versions of a family that are ever released
  MaxRescale,    \* bound: the DPIs of the screens, but one
  MaxKills,      \* bound: how often the app is killed
  MaxLaunches    \* bound: launches in all

Component == {"dxvk", "vkd3d"}
Build == [family : Family, version : 1 .. MaxVersion]

(* What a prefix's marker holds: a change of any field re-prepares it.     *)
PrefixState == [dpi : 0 .. MaxRescale, runtime : Build \cup {Wine},
                components : SUBSET Component]

PrefixAssumption ==
  /\ DefaultFamily \in Family
  /\ Host \subseteq [umu : BOOLEAN, lib32 : BOOLEAN, dxvk : BOOLEAN, d3d12 : BOOLEAN]
  /\ {MaxVersion, MaxRescale, MaxKills, MaxLaunches} \subseteq Nat
  /\ MaxVersion > 0
  /\ Wine \notin Build /\ Unset \notin PrefixState

VARIABLES
  host,      \* what this machine can do
  feed,      \* per family, the newest release
  protons,   \* the Proton builds on disk
  wine,      \* is Gameyfin's Wine on disk
  graphics,  \* the graphics components on disk
  lock,      \* who holds the runtime lock: a game, the settings page, or nobody
  swap,      \* the build the settings page installs, and how far it is
  announced, \* per family, the release a notification was last shown for (0: none)
  dpi, kills, launches,
  run,       \* per game, its launch: the step it is at, whether its program is a 32-bit one, the
             \* runtime chosen, the prefix state wanted, and whether it asked the components' feeds
  pin,       \* per game, the Proton build chosen for it
  prefix,    \* per game, the folders of its prefix and the components in Wine's system folder
  marker     \* per game, the marker in its prefix

shared == <<host, feed, protons, wine, graphics, announced>>
bounds == <<dpi, kills, launches>>
perGame == <<run, pin, prefix, marker>>
vars == <<host, feed, protons, wine, graphics, lock, swap, announced, dpi, kills,
          launches, run, pin, prefix, marker>>

NoSwap == [at |-> "idle", build |-> Unset]
Steps == {"idle", "ensure", "fetch", "choose", "graphics", "components", "prepare",
          "copy", "run"}
Idle == [at |-> "idle", is32 |-> FALSE, runtime |-> Unset, wanted |-> Unset, asked |-> FALSE]

TypeOK ==
  /\ host \in Host
  /\ feed \in [Family -> 1 .. MaxVersion]
  /\ protons \subseteq Build
  /\ wine \in BOOLEAN
  /\ graphics \subseteq Component
  /\ lock \in Game \cup {"settings", Unset}
  /\ swap \in [at : {"idle", "waiting", "download", "swapping"}, build : Build \cup {Unset}]
  /\ announced \in [Family -> 0 .. MaxVersion]
  /\ dpi \in 0 .. MaxRescale /\ kills \in 0 .. MaxKills /\ launches \in 0 .. MaxLaunches
  /\ run \in [Game -> [at : Steps, is32 : BOOLEAN, runtime : Build \cup {Wine, Unset},
                     wanted : PrefixState \cup {Unset}, asked : BOOLEAN]]
  /\ pin \in [Game -> Build \cup {Unset}]
  /\ prefix \in [Game -> [own : BOOLEAN, pfx : BOOLEAN, dlls : SUBSET Component]]
  /\ marker \in [Game -> PrefixState \cup {Unset}]
---------------------------------------------------------------------------
(* Which build and which runtime                                           *)

OfFamily(f) == {b \in protons : b.family = f}
Newest(S) == CHOOSE b \in S : \A c \in S : b.version >= c.version

(* proton::pick: the pinned build, else the newest of its family, else the *)
(* newest UMU-Proton, else any.                                            *)
Pick(wish) ==
  CASE wish \in protons -> wish
    [] wish # Unset /\ wish \notin protons /\ OfFamily(wish.family) # {} ->
         Newest(OfFamily(wish.family))
    [] OTHER -> IF OfFamily(DefaultFamily) # {} THEN Newest(OfFamily(DefaultFamily))
                                                ELSE Newest(protons)

ContainerCanRun(g) == host.lib32 \/ ~run[g].is32

WineOnly(g) == ~host.umu \/ ~ContainerCanRun(g)

(* Proton when it can run this program and there is a build, else Wine.    *)
DetectRuntime(g) ==
  CASE host.umu /\ ContainerCanRun(g) /\ protons # {} -> Pick(pin[g])
    [] (~host.umu \/ ~ContainerCanRun(g) \/ protons = {}) /\ wine -> Wine
    [] OTHER -> Unset

(* latest_release: what a family's feed offers.                            *)
Latest(f) == [family |-> f, version |-> feed[f]]

(* One build per family: installing one removes the family's others.       *)
Installed(b) == {c \in protons : c.family # b.family} \cup {b}
---------------------------------------------------------------------------
(* The prefix and its marker                                               *)

(* wine_root goes by whether a pfx folder is there, whoever runs the game. *)
RootHasDrive(g) == prefix[g].pfx \/ prefix[g].own

IsPrepared(g, state) == RootHasDrive(g) /\ marker[g] = state

RecordedAsWanted(state, copied) == state
(* What is recorded: without the components when they did not go in.       *)
Recorded(state, copied) == IF copied THEN state ELSE [state EXCEPT !.components = {}]

At(g) == run[g].at
(* mark_prepared, whose failure is only logged.                            *)
MarkPrepared(g, state) ==
  \/ marker' = [marker EXCEPT ![g] = state]
  \/ UNCHANGED marker

(* install_into_prefix: the components' DLLs are copied under wine_root;    *)
(* a copy that fails leaves some of them.                                   *)
InstallIntoPrefix(g, components) ==
  prefix' = IF prefix[g].pfx THEN prefix
            ELSE [prefix EXCEPT ![g].dlls = @ \cup components]

Goto(g, step) == run' = [run EXCEPT ![g].at = step]
Ends(g) == run' = [run EXCEPT ![g] = Idle]
---------------------------------------------------------------------------
Init ==
  /\ host \in Host
  /\ feed = [f \in Family |-> 1]
  /\ protons \in SUBSET {b \in Build : b.version = 1}
  /\ wine = FALSE /\ graphics = {}
  /\ lock = Unset /\ swap = NoSwap
  /\ announced = [f \in Family |-> 0]
  /\ dpi = 0 /\ kills = 0 /\ launches = 0
  /\ run = [g \in Game |-> Idle]
  /\ pin = [g \in Game |-> Unset]
  /\ prefix = [g \in Game |-> [own |-> FALSE, pfx |-> FALSE, dlls |-> {}]]
  /\ marker = [g \in Game |-> Unset]

(* A launch, or a setup program, of either width: it reads the claim first, *)
(* so a game has one at a time.                                             *)
Launch(g) ==
  /\ At(g) = "idle" /\ launches < MaxLaunches
  /\ launches' = launches + 1
  /\ \E b \in BOOLEAN : run' = [run EXCEPT ![g].at = "ensure", ![g].is32 = b]
  /\ UNCHANGED <<shared, lock, swap, dpi, kills, pin, prefix, marker>>

(* Under the lock: is there anything to run it on at all?                  *)
CheckRuntime(g) ==
  /\ At(g) = "ensure" /\ lock = Unset
  /\ IF (IF WineOnly(g) THEN ~wine ELSE protons = {})
     THEN lock' = g /\ Goto(g, "fetch")
     ELSE lock' = lock /\ Goto(g, "choose")
  /\ UNCHANGED <<shared, swap, bounds, pin, prefix, marker>>

(* The download, which may fail: the launch goes on to what it finds.      *)
FetchRuntime(g) ==
  /\ At(g) = "fetch"
  /\ \/ UNCHANGED <<protons, wine>>
     \/ WineOnly(g) /\ wine' = TRUE /\ UNCHANGED protons
     \/ /\ ~WineOnly(g)
        /\ protons' = Installed(Latest(DefaultFamily))
        /\ UNCHANGED wine
  /\ lock' = Unset /\ Goto(g, "choose")
  /\ UNCHANGED <<host, feed, graphics, announced, swap, bounds, pin, prefix, marker>>

(* The runtime, and what the prefix should be.  Whether it needs setting   *)
(* up is asked before the components are filled in.                        *)
Chosen(g, found, state, next) ==
  run' = [run EXCEPT ![g].runtime = found, ![g].wanted = state, ![g].at = next]
ChooseRuntime(g) ==
  LET found == DetectRuntime(g)
      state == [dpi |-> dpi, runtime |-> found, components |-> {}]
  IN /\ At(g) = "choose"
     /\ CASE found = Unset -> Ends(g)
          [] found = Wine /\ ~IsPrepared(g, state) -> Chosen(g, found, state, "graphics")
          [] found = Wine /\ IsPrepared(g, state) ->
               Chosen(g, found, [state EXCEPT !.components = graphics], "prepare")
          [] OTHER -> Chosen(g, found, state, "prepare")
     /\ UNCHANGED <<shared, lock, swap, bounds, pin, prefix, marker>>

MissingComponents ==
  {c \in Component \ graphics : c = "dxvk" \/ host.d3d12}

Resolved(g, found) ==
  run' = [run EXCEPT ![g].at = "prepare", ![g].wanted.components = found]

(* ensure_installed, under the lock.                                       *)
CheckComponents(g) ==
  /\ At(g) = "graphics" /\ lock = Unset
  /\ CASE ~host.dxvk -> Goto(g, "prepare") /\ UNCHANGED lock
       [] host.dxvk /\ MissingComponents = {} -> Resolved(g, graphics) /\ UNCHANGED lock
       [] OTHER -> /\ lock' = g
                   /\ run' = [run EXCEPT ![g].at = "components", ![g].asked = TRUE]
  /\ UNCHANGED <<shared, swap, bounds, pin, prefix, marker>>

(* Each download of its own accord; one that fails is left for later.      *)
FetchComponents(g) ==
  /\ At(g) = "components"
  /\ \E got \in SUBSET MissingComponents : graphics' = graphics \cup got
  /\ Resolved(g, graphics')
  /\ lock' = Unset
  /\ UNCHANGED <<host, feed, protons, wine, announced, swap, bounds, pin, prefix, marker>>
(* Nothing to prepare.                                                     *)
AlreadyPrepared(g) ==
  /\ At(g) = "prepare" /\ IsPrepared(g, run[g].wanted)
  /\ Goto(g, "run")
  /\ UNCHANGED <<shared, lock, swap, bounds, pin, prefix, marker>>

(* wineboot: it makes Wine's drive and puts Wine's own Direct3D back.  It   *)
(* may not start at all, or report success and leave no drive.              *)
BootWine(g) ==
  /\ At(g) = "prepare" /\ run[g].runtime = Wine /\ ~IsPrepared(g, run[g].wanted)
  /\ \/ Ends(g) /\ UNCHANGED prefix
     \/ /\ Goto(g, "copy")
        /\ \/ prefix' = [prefix EXCEPT ![g].own = TRUE, ![g].dlls = {}]
           \/ UNCHANGED prefix
  /\ UNCHANGED <<shared, lock, swap, bounds, pin, marker>>

(* The components are copied where wine_root says, then the marker is       *)
(* written; neither failure stops the launch.                               *)
CopyComponents(g) ==
  /\ At(g) = "copy"
  /\ \/ ~RootHasDrive(g) /\ Ends(g) /\ UNCHANGED <<prefix, marker>>
     \/ /\ RootHasDrive(g) /\ Goto(g, "run")
        /\ \E copied \in BOOLEAN, some \in SUBSET run[g].wanted.components :
             /\ copied => some = run[g].wanted.components
             /\ InstallIntoPrefix(g, some)
             /\ MarkPrepared(g, Recorded(run[g].wanted, copied))
  /\ UNCHANGED <<shared, lock, swap, bounds, pin>>

(* Proton's script builds the prefix itself on the first import; whether it *)
(* did is told by the drive being there, under whichever root.              *)
PrepareUmu(g) ==
  /\ At(g) = "prepare" /\ run[g].runtime \in Build /\ ~IsPrepared(g, run[g].wanted)
  /\ \/ Ends(g) /\ UNCHANGED <<prefix, marker>>
     \/ /\ prefix' \in {prefix, [prefix EXCEPT ![g].pfx = TRUE]}
        /\ IF prefix'[g].pfx \/ prefix'[g].own
           THEN Goto(g, "run") /\ MarkPrepared(g, run[g].wanted)
           ELSE Ends(g) /\ UNCHANGED marker
  /\ UNCHANGED <<shared, lock, swap, bounds, pin>>

GameEnds(g) ==
  /\ At(g) = "run"
  /\ Ends(g)
  /\ UNCHANGED <<shared, lock, swap, bounds, pin, prefix, marker>>
---------------------------------------------------------------------------
(* The settings page, the update watch, and the world                      *)

(* The release is looked up before the lock is taken.                      *)
InstallProton(f) ==
  /\ swap.at = "idle"
  /\ swap' = [at |-> "waiting", build |-> Latest(f)]
  /\ UNCHANGED <<shared, lock, bounds, perGame>>

LockForInstall ==
  /\ swap.at = "waiting" /\ lock = Unset
  /\ lock' = "settings" /\ swap' = [swap EXCEPT !.at = "download"]
  /\ UNCHANGED <<shared, bounds, perGame>>

(* The download or its checksum may fail; else the folder of that name is  *)
(* removed first,                                                          *)
ReplaceBuild ==
  /\ swap.at = "download"
  /\ \/ lock' = Unset /\ swap' = NoSwap /\ UNCHANGED protons
     \/ /\ protons' = protons \ {swap.build}
        /\ swap' = [swap EXCEPT !.at = "swapping"] /\ UNCHANGED lock
  /\ UNCHANGED <<host, feed, wine, graphics, announced, bounds, perGame>>

(* and the unpacked one renamed to it.                                     *)
RenameBuild ==
  /\ swap.at = "swapping"
  /\ protons' = Installed(swap.build)
  /\ lock' = Unset /\ swap' = NoSwap
  /\ UNCHANGED <<host, feed, wine, graphics, announced, bounds, perGame>>

(* Removing takes no lock and asks nobody.                                 *)
RemoveProton(b) ==
  /\ b \in protons
  /\ protons' = protons \ {b}
  /\ UNCHANGED <<host, feed, wine, graphics, announced, lock, swap, bounds, perGame>>

(* Every twelve hours: a release newer than the installed build of its     *)
(* family is announced once.                                               *)
AnnounceUpdate(f) ==
  /\ OfFamily(f) # {}
  /\ feed[f] > Newest(OfFamily(f)).version
  /\ announced[f] # feed[f]
  /\ announced' = [announced EXCEPT ![f] = feed[f]]
  /\ UNCHANGED <<host, feed, protons, wine, graphics, lock, swap, bounds, perGame>>

Release(f) ==
  /\ feed[f] < MaxVersion
  /\ feed' = [feed EXCEPT ![f] = @ + 1]
  /\ UNCHANGED <<host, protons, wine, graphics, announced, lock, swap, bounds, perGame>>

PinBuild(g, b) ==
  /\ At(g) = "idle" /\ b \in protons /\ pin[g] # b
  /\ pin' = [pin EXCEPT ![g] = b]
  /\ UNCHANGED <<shared, lock, swap, bounds, run, prefix, marker>>

(* The window is opened on a monitor of another scale, or moved to one.    *)
Rescale ==
  /\ dpi' \in (0 .. MaxRescale) \ {dpi}
  /\ UNCHANGED <<shared, lock, swap, kills, launches, perGame>>

Kill ==
  /\ kills < MaxKills
  /\ kills' = kills + 1
  /\ lock' = Unset /\ swap' = NoSwap
  /\ run' = [g \in Game |-> Idle]
  /\ UNCHANGED <<shared, dpi, launches, pin, prefix, marker>>

Step(g) ==
  \/ CheckRuntime(g) \/ FetchRuntime(g) \/ ChooseRuntime(g) \/ CheckComponents(g)
  \/ FetchComponents(g) \/ AlreadyPrepared(g) \/ BootWine(g) \/ CopyComponents(g)
  \/ PrepareUmu(g)

SettingsStep == LockForInstall \/ ReplaceBuild \/ RenameBuild

Next ==
  \/ \E g \in Game : Launch(g) \/ Step(g) \/ GameEnds(g)
  \/ \E g \in Game, b \in Build : PinBuild(g, b)
  \/ \E f \in Family : InstallProton(f) \/ AnnounceUpdate(f) \/ Release(f)
  \/ \E b \in Build : RemoveProton(b)
  \/ SettingsStep \/ Rescale \/ Kill

(* Tokio's mutex hands itself over in order, so who waits for it gets it:  *)
(* strong fairness for the steps that take it.                             *)
Fairness ==
  /\ \A g \in Game : SF_vars(Step(g))
  /\ WF_vars(ReplaceBuild) /\ WF_vars(RenameBuild)

Spec == Init /\ [][Next]_vars /\ Fairness
---------------------------------------------------------------------------
(* A game that starts in a prefix only Wine has used, under a marker that  *)
(* says what is wanted, finds exactly the components the marker names in   *)
(* Wine's system folder: no failed copy, failed write or kill in between   *)
(* lets a prefix pass for prepared that is not.                            *)
StartsPrepared ==
  \A g \in Game :
    At(g) = "run" /\ run[g].runtime = Wine /\ ~prefix[g].pfx /\ marker[g] = run[g].wanted
      => prefix[g].dlls = run[g].wanted.components

(* "Not fatal: the prefix still runs, and its marker makes the next launch *)
(* retry" (src-tauri/src/graphics.rs): a game that starts on Wine without  *)
(* DXVK, which the driver supports, has asked for it in this launch.       *)
RetriesComponents ==
  \A g \in Game :
    At(g) = "run" /\ run[g].runtime = Wine /\ host.dxvk /\ "dxvk" \notin graphics => run[g].asked

(* "Where drive_c and dosdevices live: the prefix itself for Wine, a pfx   *)
(* subdirectory for Proton" (prefix.rs): the root the app works on is the  *)
(* one the running game uses.                                              *)
RootIsTheRuntimes ==
  \A g \in Game :
    At(g) = "run" => (run[g].runtime = Wine) = ~prefix[g].pfx
=============================================================================
