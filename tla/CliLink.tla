------------------------------ MODULE CliLink ------------------------------
(* `npx @nestjs/observe link` (cli/): the device-code poll, and then what    *)
(* it does to the project, one file at a time. The command may be            *)
(* interrupted anywhere and run again on what it left.                       *)
EXTENDS Integers, Sequences

CONSTANTS ExpiresIn, FirstInterval, SLOW_DOWN_SECONDS,
          MaxRuns        \* bound: times the command is run

\* The collector's, in seconds, as RFC 8628 has them; a poll waits at least one.
ASSUME LinkAssumption ==
  ExpiresIn \in Nat /\ FirstInterval \in Nat \ {0} /\ SLOW_DOWN_SECONDS \in Nat

VARIABLES
  project,    \* the files the command reads and writes
  step,       \* where the command is ("idle": not running)
  setup,      \* what inspectProject found for this run
  clock, interval,   \* seconds since the code was issued, seconds between polls
  exitCode,   \* of the run before (0, 1; -1: interrupted or none)
  runs,
  asked,      \* history: the interval the collector has asked for
  approvedEver, \* history: some run was given a key pair
  torn        \* history: interrupted between the two files of the wiring
linkVars == <<project, step, setup, clock, interval, exitCode, runs, asked, approvedEver, torn>>

(* The shapes of a project the command's decisions tell apart.               *)
Sources == {"one", "none", "several", "odd"}  \* main.ts: found, not, more than one, not editable
Projects ==
  [env: {"none"}, ignored: {FALSE}, scripts: {"nest", "other"}, loadsEnv: {FALSE},
   sdk: {"none", "old", "current"}, nest: {"none", "10", "11"}, source: Sources,
   moduleWired: BOOLEAN, mainWired: BOOLEAN, notes: {FALSE}]

LinkInit ==
  /\ project \in {p \in Projects :
       /\ p.sdk # "none" => p.nest = "11"
       /\ p.mainWired = p.moduleWired
       /\ p.moduleWired => p.sdk # "none" /\ p.source = "one"}
  /\ step = "idle" /\ setup = [install |-> FALSE, wire |-> FALSE]
  /\ clock = 0 /\ interval = 0 /\ exitCode = -1 /\ runs = 0 /\ asked = 0
  /\ approvedEver = FALSE /\ torn = FALSE

-----------------------------------------------------------------------------
usesSdk_installed == project.sdk # "none"
usesSdk == project.moduleWired \/ project.mainWired

(* inspectProject: wire when no source file names the package; install when  *)
(* it is not a dependency, or is to be wired and is older than this one.     *)
inspectProject ==
  LET wire == ~usesSdk
  IN [install |-> project.sdk = "none" \/ (wire /\ project.sdk = "old"), wire |-> wire]
unsupported == inspectProject.install /\ project.nest # "11"

(* link(): inspection, then POST cli-link/sessions; a project that cannot    *)
(* take the SDK and a collector that cannot be reached end it.               *)
beginLink(reached) ==
  /\ step = "idle" /\ runs < MaxRuns
  /\ runs' = runs + 1 /\ setup' = inspectProject
  /\ clock' = 0 /\ interval' = FirstInterval /\ asked' = FirstInterval
  /\ IF unsupported \/ ~reached THEN step' = "idle" /\ exitCode' = 1
                                ELSE step' = "polling" /\ exitCode' = -1
  /\ UNCHANGED <<project, approvedEver, torn>>

ends(code) == step' = "idle" /\ exitCode' = code

(* waitForApproval: while the code has not expired, sleep and ask. Network   *)
(* failures and pages that are no answer are asked again.                    *)
poll(reply) ==
  /\ step = "polling" /\ clock < ExpiresIn /\ clock' = clock + interval
  /\ interval' = interval + IF reply = "slow_down" THEN SLOW_DOWN_SECONDS ELSE 0
  /\ asked' = asked + IF reply = "slow_down" THEN SLOW_DOWN_SECONDS ELSE 0
  /\ CASE reply = "approved" -> step' = "env" /\ UNCHANGED exitCode
       [] reply \in {"access_denied", "expired_token"} -> ends(1)
       [] OTHER -> UNCHANGED <<step, exitCode>>
  /\ approvedEver' = (approvedEver \/ reply = "approved")
  /\ UNCHANGED <<project, setup, runs, torn>>
Replies == {"approved", "authorization_pending", "slow_down", "access_denied",
            "expired_token", "unreachable"}

codeExpires ==
  /\ step = "polling" /\ clock >= ExpiresIn /\ ends(1)
  /\ UNCHANGED <<project, setup, clock, interval, runs, asked, approvedEver, torn>>

-----------------------------------------------------------------------------
Rest == UNCHANGED <<setup, clock, interval, runs, asked, approvedEver>>
goTo(next) == step' = next /\ UNCHANGED exitCode

(* writeEnvFile replaces an earlier pair and keeps every other line.         *)
writeEnvFile ==
  /\ step = "env" /\ project' = [project EXCEPT !.env = "pair"]
  /\ goTo("ignore") /\ Rest /\ UNCHANGED torn

ensureEnvIgnored ==
  /\ step = "ignore" /\ project' = [project EXCEPT !.ignored = TRUE]
  /\ goTo("scripts") /\ Rest /\ UNCHANGED torn

(* Only scripts that run `nest start` are given --env-file.                  *)
addEnvFileToStartScripts ==
  /\ step = "scripts"
  /\ project' = [project EXCEPT !.loadsEnv = @ \/ project.scripts = "nest"]
  /\ goTo("install") /\ Rest /\ UNCHANGED torn

(* The package manager's command, when it is needed; failing it ends here.   *)
addDependency(succeeds) ==
  /\ step = "install" /\ UNCHANGED torn /\ Rest
  /\ IF ~setup.install THEN goTo("wire") /\ UNCHANGED project
     ELSE IF succeeds THEN goTo("wire") /\ project' = [project EXCEPT !.sdk = "current"]
     ELSE ends(1) /\ UNCHANGED project

(* wire, wireApplication, planWiring: every edit is worked out and parsed    *)
(* first; what cannot be done is left for the person (manual).               *)
planWiring ==
  /\ step = "wire" /\ UNCHANGED <<project, torn>> /\ Rest
  /\ IF setup.wire /\ project.source = "one" THEN goTo("wireModule") ELSE goTo("notes")
wireRootModule ==
  /\ step = "wireModule" /\ project' = [project EXCEPT !.moduleWired = TRUE]
  /\ goTo("wireMain") /\ Rest /\ UNCHANGED torn
wireMain ==
  /\ step = "wireMain" /\ project' = [project EXCEPT !.mainWired = TRUE]
  /\ goTo("notes") /\ Rest /\ UNCHANGED torn

(* writeAgentNotes adds its section once, and may fail without ending it.    *)
writeAgentNotes(succeeds) ==
  /\ step = "notes" /\ project' = [project EXCEPT !.notes = @ \/ succeeds]
  /\ ends(0) /\ Rest /\ UNCHANGED torn

(* Ctrl-C, or a file that cannot be written: link() rejects and main exits.  *)
interrupted ==
  /\ step # "idle" /\ ends(-1)
  /\ torn' = (torn \/ step = "wireMain")
  /\ UNCHANGED <<project, setup, clock, interval, runs, asked, approvedEver>>

linkStep ==
  \/ codeExpires \/ writeEnvFile \/ ensureEnvIgnored \/ addEnvFileToStartScripts
  \/ planWiring \/ wireRootModule \/ wireMain
  \/ \E reply \in Replies : poll(reply)
  \/ \E succeeds \in BOOLEAN : addDependency(succeeds) \/ writeAgentNotes(succeeds)
LinkNext == linkStep \/ interrupted \/ \E reached \in BOOLEAN : beginLink(reached)

LinkSpec == LinkInit /\ [][LinkNext]_linkVars

-----------------------------------------------------------------------------
LinkTypeOK ==
  /\ project \in [env: {"none", "pair"}, ignored: BOOLEAN, scripts: {"nest", "other"},
                  loadsEnv: BOOLEAN, sdk: {"none", "old", "current"},
                  nest: {"none", "10", "11"}, source: Sources, moduleWired: BOOLEAN,
                  mainWired: BOOLEAN, notes: BOOLEAN]
  /\ setup \in [install: BOOLEAN, wire: BOOLEAN] /\ exitCode \in {-1, 0, 1}
  /\ interval \in 0..(FirstInterval + SLOW_DOWN_SECONDS * ExpiresIn)

(* The command never asks faster than the collector told it to.              *)
PollsAsSlowlyAsAsked == step = "polling" => interval >= asked

(* Whatever earlier runs left undone, a run that ends well leaves the pair   *)
(* in an ignored .env, the SDK installed, and an application that could be   *)
(* wired wired in both its files, unless a run was cut between the two.      *)
LinkedMeansSetUp ==
  exitCode = 0 =>
    /\ project.env = "pair" /\ project.ignored
    /\ project.scripts = "nest" => project.loadsEnv
    /\ project.sdk # "none"
    /\ project.moduleWired # project.mainWired => torn
    /\ project.source = "one" => project.moduleWired

(* A project is wired only where its one main.ts could be edited.            *)
OnlyEditableWired == project.moduleWired \/ project.mainWired => project.source = "one"

(* "Nothing is written until the key pair has arrived" - a link that was     *)
(* denied, expired or interrupted before leaves the project as it was - and  *)
(* one that ends well leaves a project that is set up (link).                *)
LinkIsCareful ==
  [][/\ LinkTypeOK' /\ PollsAsSlowlyAsAsked' /\ LinkedMeansSetUp' /\ OnlyEditableWired'
     /\ project' # project => approvedEver]_linkVars

(* A run ends of itself: a code that is never approved expires.              *)
LinkEnds == step = "polling" ~> step = "idle"
=============================================================================
