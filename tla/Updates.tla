------------------------------- MODULE Updates -------------------------------
(***************************************************************************)
(* Keeping the app up to date (src-tauri/src/updater.rs): whether a newer  *)
(* release is out, installing it the way the package allows, and starting  *)
(* again on it.  In a Flatpak the update and the new start are asked of    *)
(* the host, and a second copy of the app hands itself to the one that     *)
(* runs (the single-instance plugin in lib.rs) and exits.  Versions are    *)
(* numbers.  Not here: progress, release notes, the signature.             *)
(***************************************************************************)
EXTENDS Integers

CONSTANTS
    MaxVersion,   \* bound: releases
    MaxChecks,    \* bound: times GitHub is asked
    Reuse,        \* CHECK_REUSE, in ticks of the clock
    Polls,        \* how often the relaunch looks whether the sandbox closed
    Prompt,       \* whether an app that quits is gone before the last of them
    HostAnswers,  \* whether `flatpak info` always tells the commit
    None

Channels == {"self", "flatpak", "package", "development"}

VARIABLES
    channel,    \* how this copy was installed, for good
    origin,     \* whether the Flatpak tracks an online repository, for good
    feed,       \* the newest release: its version and whether it is a real one
    repo,       \* the version the update would fetch
    deployed,   \* the version on disk
    running,    \* the version of the copy that runs, None if none does
    answer,     \* LAST_CHECK: None, or a status, its age and whether it failed
    checks,     \* times GitHub was asked
    install,    \* the update under way: its step and the commit before it
    outcome,    \* what the last one reported
    relaunch,   \* the host's script: looks left, None when it is not there
    leaving     \* whether the copy that runs is on its way out

vars == <<channel, origin, feed, repo, deployed, running, answer, checks, install, outcome,
          relaunch, leaving>>

package == <<channel, origin>>
world == <<feed, repo>>

NotInstalling == [step |-> "none", before |-> None]

TypeOK ==
    /\ channel \in Channels /\ origin \in BOOLEAN
    /\ feed \in [version : 1 .. MaxVersion, real : BOOLEAN]
    /\ repo \in 1 .. MaxVersion /\ deployed \in 1 .. MaxVersion
    /\ running \in 1 .. MaxVersion \cup {None}
    /\ answer = None \/ answer \in [latest : 1 .. MaxVersion \cup {None}, available : BOOLEAN,
                                    failed : BOOLEAN, age : 0 .. Reuse]
    /\ checks \in 0 .. MaxChecks
    /\ install \in [step : {"none", "origin", "before", "updating", "after", "looking"},
                    before : 1 .. MaxVersion \cup {None}]
    /\ outcome \in {"none", "installed", "up to date", "refused"}
    /\ relaunch \in 0 .. Polls \cup {None} /\ leaving \in BOOLEAN

Init ==
    /\ channel \in Channels /\ origin \in BOOLEAN
    /\ feed = [version |-> 1, real |-> TRUE] /\ repo = 1 /\ deployed = 1 /\ running = 1
    /\ answer = None /\ checks = 0
    /\ install = NotInstalling /\ outcome = "none"
    /\ relaunch = None /\ leaving = FALSE

Publish ==
    /\ feed.version < MaxVersion
    /\ \E real \in BOOLEAN : feed' = [version |-> feed.version + 1, real |-> real]
    /\ UNCHANGED <<package, repo, deployed, running, answer, checks, install, outcome,
                   relaunch, leaving>>

(* The repository, or what the updater fetches, has it later than GitHub. *)
CatchUp ==
    /\ repo < feed.version
    /\ repo' = feed.version
    /\ UNCHANGED <<package, feed, deployed, running, answer, checks, install, outcome,
                   relaunch, leaving>>

Up == running # None /\ ~leaving
-----------------------------------------------------------------------------
(* Checking                                                                *)

(* Only what is newer than the copy that asks, and no draft or pre-release. *)
Status(failed) ==
    LET known == ~failed /\ channel # "development" /\ feed.real
    IN [latest |-> IF known THEN feed.version ELSE None,
        available |-> known /\ feed.version > running,
        failed |-> failed, age |-> 0]

Recent == answer # None /\ ~answer.failed /\ answer.age < Reuse

(* check_cached, with the answer kept unless it is asked for anew. *)
Check(force) ==
    /\ Up
    /\ force \/ ~Recent
    /\ checks < MaxChecks
    /\ checks' = checks + 1
    /\ \E failed \in IF channel = "development" THEN {FALSE} ELSE BOOLEAN :
           answer' = Status(failed)
    /\ UNCHANGED <<package, world, deployed, running, install, outcome, relaunch, leaving>>

Tick ==
    /\ answer # None /\ answer.age < Reuse
    /\ answer' = [answer EXCEPT !.age = @ + 1]
    /\ UNCHANGED <<package, world, deployed, running, checks, install, outcome, relaunch, leaving>>
-----------------------------------------------------------------------------
(* Installing                                                              *)

Ended(how) == install' = NotInstalling /\ outcome' = how

At(step) == Up /\ install.step = step

Goes(step) == install' = [install EXCEPT !.step = step] /\ UNCHANGED outcome

(* install_update, from a status that offers one. *)
Install ==
    /\ At("none")
    /\ CASE channel = "flatpak" -> Goes("origin")
         [] channel = "self" -> Goes("looking")
         [] OTHER -> Ended("refused")
    /\ UNCHANGED <<package, world, deployed, running, answer, checks, relaunch, leaving>>

(* Without a repository to track, an update would find nothing for ever. *)
Origin ==
    /\ At("origin")
    /\ Ended("refused") \/ (origin /\ Goes("before"))
    /\ UNCHANGED <<package, world, deployed, running, answer, checks, relaunch, leaving>>

(* The commit on disk, as far as the host tells it. *)
Commits == IF HostAnswers THEN {deployed} ELSE {deployed, None}

Before ==
    /\ At("before")
    /\ \E commit \in Commits : install' = [step |-> "updating", before |-> commit]
    /\ UNCHANGED <<package, world, deployed, running, answer, checks, outcome, relaunch, leaving>>

(* host_flatpak_update: nothing newer in the repository is a success too. *)
Update ==
    /\ At("updating")
    /\ \/ deployed' = repo /\ Goes("after")
       \/ deployed' = deployed /\ Ended("refused")
    /\ UNCHANGED <<package, world, running, answer, checks, relaunch, leaving>>

SameCommit(after) == install.before # None /\ install.before = after

After ==
    /\ At("after")
    /\ \E commit \in Commits : Ended(IF SameCommit(commit) THEN "refused" ELSE "installed")
    /\ UNCHANGED <<package, world, deployed, running, answer, checks, relaunch, leaving>>

(* self_install: the signed bundle takes the place of this one. *)
SelfInstall ==
    /\ At("looking")
    /\ \/ deployed' = deployed /\ Ended("refused")
       \/ deployed' = deployed /\ repo <= running /\ Ended("up to date")
       \/ deployed' = repo /\ repo > running /\ Ended("installed")
    /\ UNCHANGED <<package, world, running, answer, checks, relaunch, leaving>>
-----------------------------------------------------------------------------
(* Starting again                                                          *)

(* restart_app, and a start forgets what the last copy knew. *)
Restart ==
    /\ Up /\ channel # "flatpak"
    /\ running' = deployed
    /\ answer' = None /\ install' = NotInstalling /\ outcome' = "none"
    /\ UNCHANGED <<package, world, deployed, checks, relaunch, leaving>>

(* The script goes on the host before the app quits. *)
RestartFlatpak ==
    /\ Up /\ channel = "flatpak"
    /\ relaunch' = Polls /\ leaving' = TRUE
    /\ UNCHANGED <<package, world, deployed, running, answer, checks, install, outcome>>

(* The process is gone, and with it the single-instance name. *)
Gone ==
    /\ leaving
    /\ running' = None /\ leaving' = FALSE
    /\ answer' = None /\ install' = NotInstalling /\ outcome' = "none"
    /\ UNCHANGED <<package, world, deployed, checks, relaunch>>

(* The sandbox lasts at least as long as the app, and longer with a game.  *)
Wait ==
    /\ relaunch # None /\ relaunch > 0
    /\ Prompt /\ running # None => relaunch > 1
    /\ relaunch' = relaunch - 1
    /\ UNCHANGED <<package, world, deployed, running, answer, checks, install, outcome, leaving>>

(* A mistake to check against: a script that does not wait. *)
WaitedNever == TRUE

(* The sandbox is seen closed, or the script has looked often enough. *)
Waited == running = None \/ relaunch = 0

(* flatpak run: it hands itself to a copy that still runs, and exits. *)
Start ==
    /\ relaunch # None /\ Waited
    /\ relaunch' = None
    /\ running' = IF running = None THEN deployed ELSE running
    /\ UNCHANGED <<package, world, deployed, answer, checks, install, outcome, leaving>>

Next ==
    \/ Publish \/ CatchUp
    \/ \E force \in BOOLEAN : Check(force)
    \/ Tick
    \/ Install \/ Origin \/ Before \/ Update \/ After \/ SelfInstall
    \/ Restart \/ RestartFlatpak \/ Gone \/ Wait \/ Start

(* A process that was told to quit does, and a script runs on. *)
Spec == Init /\ [][Next]_vars /\ WF_vars(Gone) /\ WF_vars(Wait) /\ WF_vars(Start)
-----------------------------------------------------------------------------
Leaves == leaving

(* "GitHub announces a release before the Flatpak repository has it, so    *)
(* say so honestly" (flatpak_update): what is reported as updated is newer *)
(* than the copy that runs.                                                *)
UpdatedIsNew == outcome = "installed" /\ Up => deployed > running
=============================================================================
