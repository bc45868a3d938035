----------------------------- MODULE ReplayJobs -----------------------------
(***************************************************************************)
(* The jobs that replay history against the real providers: backtests, and *)
(* the probe that times a provider before a backtest is paid for.  Each    *)
(* overrides the timeout of a provider object that the live engine and the *)
(* other jobs share.  src/candlepilot/api.py, backtest/probe.py and the    *)
(* backtest rows of storage/database.py.                                   *)
(*                                                                         *)
(* A request checks that nothing runs, awaits, and only then registers its *)
(* task: two requests, or a request and another kind of work, can pass     *)
(* their checks together.  crossed records that one override was set or    *)
(* undone inside another.                                                  *)
(***************************************************************************)
EXTENDS Naturals, FiniteSets

CONSTANTS
    Backtests, Probes,   \* the jobs an execution may start
    RunTimeouts,         \* the timeouts a request may ask for
    RequiresProbe        \* of the provider: FALSE for a local rule provider

Own == "own"             \* the timeout a provider was configured with
Ceiling == "ceiling"     \* PROBE_CEILING_SECONDS
NoTimeout == "none"

Jobs == Backtests \union Probes
Timeouts == RunTimeouts \union {Own, Ceiling}

ASSUME ReplayJobsAssumption ==
    /\ Backtests \intersect Probes = {}
    /\ {Own, Ceiling, NoTimeout} \intersect RunTimeouts = {}
    /\ RequiresProbe \in BOOLEAN

VARIABLES
    timeout,   \* of the provider object every job shares
    restore,   \* what the engine will put back, NoTimeout when nothing
    job,       \* [Jobs -> its request, then its task]
    runRow,    \* [Backtests -> its audit row]
    probed,    \* the settings the last clean probe measured, 0 when none
    crossed,   \* history: overrides that were not nested
    cutRuns    \* history: runs whose closing was itself cut short

replayVars == <<timeout, restore, job, runRow, probed, crossed, cutRuns>>

\* idle, then a request that has checked, then the phases of the task
RequestPhases == {"checking", "creating"}
TaskPhases == {"loading", "replaying", "finishing", "failing", "cancelling"}

ReplayTypeOK ==
    /\ timeout \in Timeouts
    /\ restore \in Timeouts \union {NoTimeout}
    /\ job \in [Jobs -> [phase : {"idle"} \union RequestPhases \union TaskPhases,
                         asked : Timeouts, saved : Timeouts]]
    /\ runRow \in [Backtests -> {"absent", "running", "closed"}]
    /\ probed \in Nat
    /\ crossed \in BOOLEAN
    /\ cutRuns \subseteq Backtests

Idle == [phase |-> "idle", asked |-> Own, saved |-> Own]

ReplayInit ==
    /\ timeout = Own /\ restore = NoTimeout
    /\ job = [j \in Jobs |-> Idle]
    /\ runRow = [b \in Backtests |-> "absent"]
    /\ probed = 0 /\ crossed = FALSE /\ cutRuns = {}

Registered(j) == job[j].phase \in TaskPhases
Overriding == {j \in Jobs : job[j].phase = "replaying"}

\* active_backtest_tasks, and probe_task when it is not done
ReplayActive == \E j \in Jobs : Registered(j)

To(j, phase) == job' = [job EXCEPT ![j].phase = phase]

-----------------------------------------------------------------------------
(* start_backtest and start_probe *)

\* the check; the timeout is the request's, else the provider's at this moment
AskReplay(j, live) ==
    /\ ~live /\ ~ReplayActive
    /\ job[j].phase = "idle"
    /\ j \in Backtests => runRow[j] = "absent"
    /\ \E t \in RunTimeouts \union {timeout} :
           job' = [job EXCEPT ![j] = [phase |-> "checking", asked |-> t, saved |-> Own]]
    /\ UNCHANGED <<timeout, restore, runRow, probed, crossed, cutRuns>>

\* 404, 409 or 422 from _checked_spec, a missing or stale probe, a failed insert
Reject(j) ==
    /\ job[j].phase \in RequestPhases
    /\ To(j, "idle")
    /\ UNCHANGED <<timeout, restore, runRow, probed, crossed, cutRuns>>

\* _probe_estimate: five clean calls with the settings of now, where the
\* provider asks for a probe at all
Estimate(b, settings) ==
    /\ b \in Backtests /\ job[b].phase = "checking"
    /\ RequiresProbe => probed = settings
    /\ To(b, "creating")
    /\ UNCHANGED <<timeout, restore, runRow, probed, crossed, cutRuns>>

\* the row exists and the task is registered
RegisterBacktest(b) ==
    /\ b \in Backtests /\ job[b].phase = "creating"
    /\ To(b, "loading")
    /\ runRow' = [runRow EXCEPT ![b] = "running"]
    /\ UNCHANGED <<timeout, restore, probed, crossed, cutRuns>>

\* earlier measurements are dropped with the registration
RegisterProbe(p) ==
    /\ p \in Probes /\ job[p].phase = "checking"
    /\ To(p, "loading")
    /\ probed' = 0
    /\ UNCHANGED <<timeout, restore, runRow, crossed, cutRuns>>

-----------------------------------------------------------------------------
(* _run_backtest and _run_probe *)

\* the history is loaded: _timeouts, or probe_provider, sets its override
Override(j) ==
    LET t == IF j \in Probes THEN Ceiling ELSE job[j].asked
    IN /\ job[j].phase = "loading"
       /\ job' = [job EXCEPT ![j].phase = "replaying", ![j].saved = timeout]
       /\ timeout' = t
       /\ crossed' = (crossed \/ Overriding # {})
       /\ UNCHANGED <<restore, runRow, probed, cutRuns>>

LoadFails(j) ==
    /\ job[j].phase = "loading"
    /\ To(j, IF j \in Probes THEN "idle" ELSE "failing")
    /\ UNCHANGED <<timeout, restore, runRow, probed, crossed, cutRuns>>

\* leaving the block puts back what was found on entering it
Undo(j, phase) ==
    /\ To(j, phase)
    /\ timeout' = job[j].saved
    /\ UNCHANGED <<restore, runRow, crossed, cutRuns>>

ReplayEnds(j, settings) ==
    /\ job[j].phase = "replaying"
    /\ IF j \in Probes
       THEN Undo(j, "idle") /\ probed' \in {0, settings}
       ELSE Undo(j, "finishing") /\ UNCHANGED probed

\* cancel_probe and cancel_backtest, wherever the task is
CancelReplay(j) ==
    /\ Registered(j)
    /\ \/ /\ job[j].phase = "replaying"
          /\ Undo(j, IF j \in Probes THEN "idle" ELSE "cancelling")
          /\ UNCHANGED probed
       \/ /\ job[j].phase \in {"loading", "finishing"}
          /\ To(j, IF j \in Probes THEN "idle" ELSE "cancelling")
          /\ UNCHANGED <<timeout, restore, runRow, probed, crossed, cutRuns>>
       \/ \* inside a handler: its write is lost
          /\ job[j].phase \in {"failing", "cancelling"}
          /\ To(j, "idle")
          /\ cutRuns' = cutRuns \union {j}
          /\ UNCHANGED <<timeout, restore, runRow, probed, crossed>>

\* finish_backtest_run, then the task's entry goes
FinishRun(b) ==
    /\ b \in Backtests /\ job[b].phase \in {"finishing", "failing", "cancelling"}
    /\ To(b, "idle")
    /\ runRow' = [runRow EXCEPT ![b] = "closed"]
    /\ UNCHANGED <<timeout, restore, probed, crossed, cutRuns>>

\* a write that fails: 'completed' has a handler left, the handlers have none
FinishFails(b) ==
    /\ b \in Backtests /\ job[b].phase \in {"finishing", "failing", "cancelling"}
    /\ IF job[b].phase = "finishing"
       THEN To(b, "failing") /\ UNCHANGED cutRuns
       ELSE To(b, "idle") /\ cutRuns' = cutRuns \union {b}
    /\ UNCHANGED <<timeout, restore, runRow, probed, crossed>>

\* fail_open_backtest_runs at startup; the providers are built anew
ReplayBoot ==
    /\ timeout' = Own /\ restore' = NoTimeout
    /\ job' = [j \in Jobs |-> Idle]
    /\ runRow' = [b \in Backtests |-> IF runRow[b] = "running" THEN "closed" ELSE runRow[b]]
    /\ probed' = 0 /\ crossed' = FALSE /\ cutRuns' = {}

ReplayStep(settings) ==
    \/ \E j \in Jobs :
          Reject(j) \/ Override(j) \/ LoadFails(j) \/ ReplayEnds(j, settings) \/ CancelReplay(j)
    \/ \E b \in Backtests :
          Estimate(b, settings) \/ RegisterBacktest(b) \/ FinishRun(b) \/ FinishFails(b)
    \/ \E p \in Probes : RegisterProbe(p)

\* A backtest row that says "running" has a task that will close it, unless a
\* cancellation interrupted the handler that was closing it.
OpenRunsHaveTask ==
    \A b \in Backtests : runRow[b] = "running" => Registered(b) \/ b \in cutRuns
=============================================================================
