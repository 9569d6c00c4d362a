---------------------------- MODULE FetchObserver ----------------------------
(***************************************************************************)
(* The wrapper of the global `fetch` that reads model calls: installed as  *)
(* soon as a module is created, active while an application's agent runs,  *)
(* taken out again by an application that turned model calls off.  Several *)
(* applications share the process, and other libraries wrap `fetch` too.   *)
(*                                                                         *)
(* `layers` is what the global `fetch` goes through, outermost first: the  *)
(* numbers of our wrappers, 200 for a library's, 100 for the native one.   *)
(***************************************************************************)
EXTENDS Naturals, Sequences, FiniteSets

CONSTANTS Apps, LlmOff,   \* the applications, and those with model calls off
          MaxWrappers     \* bound: wrappers of ours, and of other libraries

ASSUME FetchAssumption == MaxWrappers \in 1 .. 99 /\ "none" \notin Apps

VARIABLES layers, installed, reader, app
fetchVars == <<layers, installed, reader, app>>

Ours(l) == l \in 1 .. MaxWrappers
Count(P(_)) == Cardinality({i \in DOMAIN layers : P(layers[i])})

FetchInit ==
  /\ layers = <<100>> /\ installed = [wrapper |-> 0, original |-> <<>>]
  /\ reader = "none" /\ app = [a \in Apps |-> "new"]

\* installLlmFetchObserver(): only the outermost layer is looked at.
installed_after ==
  IF Ours(layers[1]) THEN [layers |-> layers, installed |-> installed]
  ELSE LET w == Count(Ours) + 1
       IN [layers |-> <<w>> \o layers, installed |-> [wrapper |-> w, original |-> layers]]
CanInstall == Ours(layers[1]) \/ Count(Ours) < MaxWrappers

\* uninstallLlmFetchObserver(): only while the wrapper is still the global one.
uninstall_always ==
  /\ reader' = "none"
  /\ IF installed.wrapper # 0
     THEN layers' = installed.original /\ installed' = [wrapper |-> 0, original |-> <<>>]
     ELSE UNCHANGED <<layers, installed>>
uninstallLlmFetchObserver ==
  /\ reader' = "none"
  /\ IF installed.wrapper # 0 /\ layers[1] = installed.wrapper
     THEN layers' = installed.original /\ installed' = [wrapper |-> 0, original |-> <<>>]
     ELSE UNCHANGED <<layers, installed>>

\* The module is created: its wrapper goes in before any client can capture
\* `fetch`, and comes out if the options already say so.
created(a) ==
  /\ app[a] = "new" /\ CanInstall
  /\ app' = [app EXCEPT ![a] = "created"]
  /\ layers' = installed_after.layers /\ installed' = installed_after.installed
  /\ UNCHANGED reader
\* The agent is constructed.
activateLlmFetchObserver(a) ==
  /\ app[a] = "created"
  /\ app' = [app EXCEPT ![a] = "running"]
  /\ IF a \in LlmOff THEN uninstallLlmFetchObserver
     ELSE /\ CanInstall
          /\ layers' = installed_after.layers /\ installed' = installed_after.installed
          /\ reader' = a
\* onApplicationShutdown(): another application's observer goes on.
deactivateLlm(a) ==
  /\ app[a] = "running"
  /\ app' = [app EXCEPT ![a] = "stopped"]
  /\ reader' = IF reader = a THEN "none" ELSE reader
  /\ UNCHANGED <<layers, installed>>
\* Another library wraps `fetch`, on top of whatever is there.
otherWraps ==
  /\ Count(LAMBDA l : l = 200) < MaxWrappers
  /\ layers' = <<200>> \o layers
  /\ UNCHANGED <<installed, reader, app>>

FetchNext ==
  \/ otherWraps
  \/ \E a \in Apps : created(a) \/ activateLlmFetchObserver(a) \/ deactivateLlm(a)

FetchSpec == FetchInit /\ [][FetchNext]_fetchVars

\* Model calls are never read for an application that has shut down or that
\* turned them off, in whichever order applications start and stop.
ReadsForTheRunning == reader = "none" \/ (app[reader] = "running" /\ reader \notin LlmOff)

\* The application finds `fetch` as it would without the agent: taking the
\* wrapper out never takes out what another library put on top of it, native
\* `fetch` stays at the bottom, and calls are read for a running application
\* only (uninstallLlmFetchObserver).
FetchLeftAsFound ==
  [][/\ ReadsForTheRunning'
     /\ Cardinality({i \in DOMAIN layers' : layers'[i] = 200})
          >= Cardinality({i \in DOMAIN layers : layers[i] = 200})
     /\ layers'[Len(layers')] = 100]_fetchVars
=============================================================================
