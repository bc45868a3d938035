------------------------------ MODULE ModelWork ------------------------------
(***************************************************************************)
(* Who may use the decision providers: the live engine, its startup probe, *)
(* single cycles, advisory analyses, backtests and their probes, and Codex *)
(* CLI logins, as the handlers of src/candlepilot/api.py let them start.   *)
(* What each then does is in DecisionRoute, AnalysisDesk and ReplayJobs;   *)
(* here a live run is only begun and ended.                                *)
(*                                                                         *)
(* The handlers run on one event loop: what a handler reads and writes     *)
(* between two awaits is one action.  Settings stand for everything a      *)
(* startup probe measures (provider, its model, cadence, candidates), but  *)
(* for the account the Codex CLI is logged in to.                          *)
(***************************************************************************)
EXTENDS AnalysisDesk, ReplayJobs

CONSTANTS
    MaxSettings,   \* bound: versions the settings may reach
    MaxStarts,     \* bound: requests of any kind that begin something
    MaxBoots       \* bound: restarts of the process

ASSUME ModelWorkAssumption ==
    MaxSettings \in Nat \ {0} /\ MaxStarts \in Nat /\ MaxBoots \in Nat

VARIABLES
    holder,      \* the handler that holds engine_start_lock
    live,        \* engine.running, and what the run was begun for
    probe,       \* engine.startup_probe
    settings,    \* version of what the next run would use
    auth,        \* the Codex CLI login
    restarting,  \* restart_pending
    disturbed,   \* history: a probe's premises were changed behind its back
    count        \* bounds: requests that began something, boots

workVars == <<holder, live, probe, settings, auth, restarting, disturbed, count>>
vars == <<analysisVars, replayVars, workVars>>

Holders == {"none", "probe", "probeThenStart", "start", "once", "close"}

\* asked: let in, waiting for the lock of the login manager; late: under way,
\* and a run, its start or its probe was too when it began
Logins == {"none", "asked", "on", "late"}

NoProbe == [state |-> "none", timeout |-> NoTimeout, measured |-> 0]

TypeOK ==
    /\ AnalysisTypeOK /\ ReplayTypeOK
    /\ holder \in Holders
    /\ live \in [running : BOOLEAN, scheduled : BOOLEAN, timeout : Timeouts, settings : 0..MaxSettings]
    /\ probe \in [state : {"none", "running", "ready", "stale", "spent"},
                  timeout : Timeouts \union {NoTimeout}, measured : 0..MaxSettings]
    /\ settings \in 1..MaxSettings
    /\ auth \in Logins /\ restarting \in BOOLEAN /\ disturbed \in BOOLEAN
    /\ count \in [starts : 0..MaxStarts, boots : 0..MaxBoots]

NotLive == [running |-> FALSE, scheduled |-> FALSE, timeout |-> Own, settings |-> 0]

Init ==
    /\ AnalysisInit /\ ReplayInit
    /\ holder = "none" /\ live = NotLive /\ probe = NoProbe
    /\ settings = 1 /\ auth = "none" /\ restarting = FALSE /\ disturbed = FALSE
    /\ count = [starts |-> 0, boots |-> 0]

-----------------------------------------------------------------------------
(* background_model_work *)

\* codex_auth_manager.active: not while a login waits for the manager's lock
AuthActive == auth \in {"on", "late"}

\* mutant: an analysis that is still creating its rows is not seen
BusyOnceQueued ==
    holder # "none" \/ ReplayActive \/ TaskAlive \/ AuthActive

BusyBesideRound ==
    holder # "none" \/ DeskLocked \/ ReplayActive \/ TaskAlive \/ AuthActive

BackgroundWork == BusyBesideRound \/ RoundRunning

\* configure_decision_timeout undoes the last override before it sets its own
Unset == IF restore = NoTimeout THEN timeout ELSE restore

Configure(t) ==
    /\ restore' = Unset /\ timeout' = t
    /\ crossed' = (crossed \/ Overriding # {})

Restore ==
    /\ restore' = NoTimeout /\ timeout' = Unset
    /\ crossed' = (crossed \/ (restore # NoTimeout /\ Overriding # {}))

KeepTimeout == UNCHANGED <<timeout, restore, crossed>>

\* mutant: a change of settings leaves the last probe usable
NeverInvalidated == probe

\* invalidate_startup_probe leaves a probe that is still running alone
Invalidated == IF probe.state = "ready" THEN [probe EXCEPT !.state = "stale"] ELSE probe

Begin ==
    /\ count.starts < MaxStarts
    /\ count' = [count EXCEPT !.starts = @ + 1]

KeepJobs == UNCHANGED <<job, runRow, probed, cutRuns>>
KeepRest == KeepJobs /\ UNCHANGED analysisVars

-----------------------------------------------------------------------------
(* The startup probe: perform_startup_probe, live_startup_probe *)

\* the timeout is the request's, else the provider's
AskProbe(h) ==
    /\ Begin
    /\ h \in {"probe", "probeThenStart"}
    /\ ~BackgroundWork /\ ~live.running
    /\ holder' = h
    /\ \E t \in RunTimeouts \union {timeout} :
          /\ Configure(t)
          /\ probe' = [NoProbe EXCEPT !.timeout = t]
    /\ KeepRest
    /\ UNCHANGED <<live, settings, auth, restarting, disturbed>>

Probing == holder \in {"probe", "probeThenStart"} /\ probe.state \in {"none", "running"}

\* the progress record is published before the provider is called
PublishProbe ==
    /\ Probing /\ probe.state = "none"
    /\ probe' = [probe EXCEPT !.state = "running", !.measured = settings]
    /\ KeepTimeout /\ KeepRest
    /\ UNCHANGED <<holder, live, settings, auth, restarting, disturbed, count>>

ProbeSucceeds ==
    /\ Probing /\ probe.state = "running"
    /\ probe' = [probe EXCEPT !.state = "ready"]
    /\ holder' = IF holder = "probe" THEN "none" ELSE "start"
    /\ KeepTimeout /\ KeepRest
    /\ UNCHANGED <<live, settings, auth, restarting, disturbed, count>>

\* mutant: the error path forgets the timeouts
ProbeFailsUnrestored ==
    /\ Probing
    /\ probe' = [probe EXCEPT !.state = IF @ = "running" THEN "spent" ELSE @]
    /\ holder' = "none"
    /\ KeepTimeout /\ KeepRest
    /\ UNCHANGED <<live, settings, auth, restarting, disturbed, count>>

ProbeFails ==
    /\ Probing
    /\ probe' = [probe EXCEPT !.state = IF @ = "running" THEN "spent" ELSE @]
    /\ holder' = "none"
    /\ Restore /\ KeepRest
    /\ UNCHANGED <<live, settings, auth, restarting, disturbed, count>>

-----------------------------------------------------------------------------
(* begin_live_run: start_engine, probe_and_start_engine, run_engine_once *)

\* a scheduled run needs a fresh probe with the same timeout; that timeout is
\* not configured again.  After probe_and_start the lock is held already.
AskStart ==
    /\ Begin
    /\ ~BackgroundWork /\ ~live.running
    /\ probe.state = "ready"
    /\ probe.timeout \in RunTimeouts \union {timeout}
    /\ holder' = "start"
    /\ KeepTimeout /\ KeepRest
    /\ UNCHANGED <<live, probe, settings, auth, restarting, disturbed>>

AskOnce ==
    /\ Begin
    /\ ~BackgroundWork /\ ~live.running
    /\ holder' = "once"
    /\ \E t \in RunTimeouts \union {timeout} : Configure(t)
    /\ KeepRest
    /\ UNCHANGED <<live, probe, settings, auth, restarting, disturbed>>

\* engine.start returned: the probe is used up, or invalidated by a single cycle
Started ==
    /\ holder \in {"start", "once"}
    /\ live' = [running |-> TRUE, scheduled |-> holder = "start",
                timeout |-> timeout, settings |-> settings]
    /\ probe' = IF holder = "start" THEN [probe EXCEPT !.state = "spent"] ELSE Invalidated
    /\ holder' = "none"
    /\ crossed' = (crossed \/ Overriding # {})
    /\ UNCHANGED <<timeout, restore>> /\ KeepRest
    /\ UNCHANGED <<settings, auth, restarting, disturbed, count>>

StartFails ==
    /\ holder \in {"start", "once"}
    /\ probe' = IF holder = "start" THEN [probe EXCEPT !.state = "spent"] ELSE probe
    /\ holder' = "none"
    /\ disturbed' = (disturbed \/ (holder = "once" /\ probe.state = "ready"))
    /\ Restore /\ KeepRest
    /\ UNCHANGED <<live, settings, auth, restarting, count>>

\* stop, emergency stop, an automatic stop, the end of a single cycle: no lock
\* is taken, and the timeouts are put back whether or not a run was found
StopEngine ==
    /\ live' = NotLive
    /\ Restore
    /\ disturbed' = (disturbed \/ holder # "none" \/ probe.state = "ready")
    /\ KeepRest
    /\ UNCHANGED <<holder, probe, settings, auth, restarting, count>>

\* manual closing of positions holds the start lock, so nothing starts meanwhile
ManualClose ==
    /\ Begin
    /\ holder = "none" /\ ~live.running
    /\ holder' = "close"
    /\ KeepTimeout /\ KeepRest
    /\ UNCHANGED <<live, probe, settings, auth, restarting, disturbed>>

ManualCloseEnds ==
    /\ holder = "close"
    /\ holder' = "none"
    /\ KeepTimeout /\ KeepRest
    /\ UNCHANGED <<live, probe, settings, auth, restarting, disturbed, count>>

-----------------------------------------------------------------------------
(* Settings and logins *)

\* a handler that calls the live provider, or is about to
Starting == holder \in Holders \ {"none", "close"}

\* provider, cadence, candidates or limits: refused only while the engine runs
\* (a provider's model or effort beside other work too)
Select ==
    /\ ~live.running /\ settings < MaxSettings
    /\ settings' = settings + 1
    /\ probe' = Invalidated
    /\ disturbed' = (disturbed \/ holder # "none")
    /\ KeepTimeout /\ KeepRest
    /\ UNCHANGED <<holder, live, auth, restarting, count>>

\* ensure_codex_auth_change_allowed, for a login or a logout; the manager's lock
\* may be held for as long as a query of the usage limits takes
AskLogin ==
    /\ Begin
    /\ ~live.running /\ ~BackgroundWork /\ auth = "none"
    /\ auth' = "asked"
    /\ KeepTimeout /\ KeepRest
    /\ UNCHANGED <<holder, live, probe, settings, restarting, disturbed>>

\* start_login has the lock: nothing is checked again
BeginLogin ==
    /\ auth = "asked"
    /\ auth' = IF live.running \/ Starting THEN "late" ELSE "on"
    /\ probe' = Invalidated
    /\ KeepTimeout /\ KeepRest
    /\ UNCHANGED <<holder, live, settings, restarting, disturbed, count>>

\* logout has run its command; or there is no CLI, or it fails
LogoutEnds ==
    /\ auth = "asked"
    /\ auth' = "none"
    /\ probe' \in {probe, Invalidated}
    /\ KeepTimeout /\ KeepRest
    /\ UNCHANGED <<holder, live, settings, restarting, disturbed, count>>

\* success, failure, its ten minutes, or a cancellation
LoginEnds ==
    /\ AuthActive
    /\ auth' = "none"
    /\ KeepTimeout /\ KeepRest
    /\ UNCHANGED <<holder, live, probe, settings, restarting, disturbed, count>>

-----------------------------------------------------------------------------
(* The process *)

RestartBackend ==
    /\ ~live.running /\ ~BackgroundWork /\ ~restarting
    /\ restarting' = TRUE
    /\ KeepTimeout /\ KeepRest
    /\ UNCHANGED <<holder, live, probe, settings, auth, disturbed, count>>

\* a crash, or the re-exec a quarter of a second later: started jobs are lost
Boot ==
    /\ count.boots < MaxBoots
    /\ AnalysisBoot /\ ReplayBoot
    /\ holder' = "none" /\ live' = NotLive /\ probe' = NoProbe
    /\ auth' = "none" /\ restarting' = FALSE /\ disturbed' = FALSE
    /\ count' = [count EXCEPT !.boots = @ + 1]
    /\ UNCHANGED settings

-----------------------------------------------------------------------------

DeskStep ==
    \/ /\ AnalysisStep \/ StartSchedule(live.running)
       /\ UNCHANGED <<replayVars, workVars>>
    \/ /\ ~live.running
       /\ QueueRequest(BusyBesideRound) \/ QueueRound(BusyBesideRound)
       /\ Begin
       /\ UNCHANGED <<replayVars, holder, live, probe, settings, auth, restarting, disturbed>>

JobStep ==
    \/ /\ ReplayStep(settings)
       /\ UNCHANGED <<analysisVars, workVars>>
    \/ /\ \E j \in Jobs : AskReplay(j, live.running)
       /\ Begin
       /\ UNCHANGED <<analysisVars, holder, live, probe, settings, auth, restarting, disturbed>>

Next ==
    \/ DeskStep \/ JobStep
    \/ \E h \in {"probe", "probeThenStart"} : AskProbe(h)
    \/ PublishProbe \/ ProbeSucceeds \/ ProbeFails
    \/ AskStart \/ AskOnce \/ Started \/ StartFails \/ StopEngine
    \/ ManualClose \/ ManualCloseEnds
    \/ Select \/ AskLogin \/ BeginLogin \/ LogoutEnds \/ LoginEnds
    \/ RestartBackend \/ Boot

Spec == Init /\ [][Next]_vars

-----------------------------------------------------------------------------

\* A live run or its startup probe never shares the provider with an analysis,
\* although both kinds of request await after their checks; nor with a Codex
\* login, but for one that was let in before the run's own request and waited
\* for the login manager's lock while that request passed its checks.
LiveExcludesAdvice ==
    (live.running \/ Starting) => ~DeskLocked /\ ~TaskAlive /\ auth # "on"

\* A timeout override never outlives what it was set for: with no job replaying
\* and no run, startup or probe result left to serve, a provider has its own
\* timeout back, on every error path - provided the overrides were nested.  A
\* probe result that went stale counts as one left to serve: invalidating it
\* does not put its timeout back, the next stop, start or probe does.
TimeoutsRestored ==
    (Overriding = {} /\ ~crossed /\ ~live.running /\ ~Starting
        /\ probe.state \in {"none", "spent"}) => timeout = Own

\* A scheduled run decides with the settings and under the timeout its startup
\* probe measured, unless one was changed while a handler held the start lock,
\* a stop or a failed single cycle put the timeouts back and left the probe
\* usable, or overrides crossed.
RunMatchesProbe ==
    (live.running /\ live.scheduled /\ ~disturbed /\ ~crossed) =>
        live.settings = probe.measured /\ live.timeout = probe.timeout

\* Every open audit row of the two kinds of work is somebody's to close.
OpenWorkHasTask == OpenRowsHaveTask /\ OpenRunsHaveTask
=============================================================================
