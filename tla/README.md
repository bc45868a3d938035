# CandlePilot: TLA+ models and proofs

CandlePilot trades Binance USD-M futures on the testnet: one asyncio process
(FastAPI, SQLite, no worker threads that keep state) asks a language model for
decisions, lets a deterministic risk policy size or refuse them, and executes
them with a stop and a take profit at the exchange. This directory models the
parts of `src/candlepilot` whose correctness depends on the order of events or
on arithmetic at a limit, checks them with TLC and proves the most important
results with TLAPS.

Paths below are relative to `src/candlepilot/` of the repository unless they
begin with `docs/`, `tests/` or `DOCS.md`.

## 1. Inventory of the system

| Component | State it keeps | Operations | Hard behaviour | What makes it correct |
|---|---|---|---|---|
| Broker, protected entry (`broker/binance_testnet.py`) | none of its own; orders, positions and closePosition legs live at the exchange | `execute_with_stop`, recovery loops, `_emergency_reduce`, `handle_user_event` | each request may be refused, lost, or applied with its answer lost; fills and triggers between requests; the user-stream task interferes | a position at rest has a stop, a dead entry stays dead, a rescue takes off exactly what was opened, nothing stays behind |
| Broker, account operations (same file) | none | `reconcile_account`, `emergency_flatten`, `close_position_market`, `trailing_positions`, `replace_stop_loss`, fills | many symbols, partial failure, two reads of different moments | a flatten that reports success left a flat account; a moved stop is there or its loss is known |
| Trading engine (`application/engine.py`) | `running`, `emergency_locked`, `auto_stop_reason`, `live_run_id`, `rescue_count` | `start`, `stop`, `emergency_stop`, `clear_emergency_lock`, `process_pending_entry`, `_execute_order` | every method awaits between its tests and its writes, several tasks call it | one open run, no order after a stop, a lock that survives restarts, no waiting intent outlives its run |
| Scheduler (`application/scheduler.py`) | task list, symbol locks, stop event, detached stop task | cadence, universe and guard tasks, `request_auto_stop`, `request_emergency_stop`, `stop`, `run_once` | tasks that stop themselves; cycle timeouts; locks held over a cycle | a stop waits for every task, a requested stop happens |
| Guard pass (`application/scheduler.py`, `trailing_positions`) | a snapshot of every position | read, trailing stop, partial take profit, escalation | the position changes behind the snapshot; the pass is cancelled anywhere | what the guard does to a position is right for the position that is there |
| Trailing stop (`risk/trailing.py`) | per symbol best mark, R, progress per profile, saved in `runtime_state` | `maintain`, `_maintain_profile`, reload | replaces the only stop of a position; crash between exchange and database | the stop only tightens, keeps its distance, and is never lost silently |
| Partial take profit experiment (`risk/partial_take_profit.py`) | per symbol and profile a stage, saved | `maintain` | event row and memory can disagree | each sale happens once, in order |
| Risk policy (`risk/engine.py`) | none (pure) | `evaluate` | rounding between and after the comparisons; the portfolio moves after it was read | the limits hold after rounding and filling |
| Decision route (`engine.py`: `evaluate_batch`, `evaluate`) | `route_failure_count`, `_provider_route_lock`, audit rows of a cycle | attempts, retry with refreshed inputs, recording, execution of decisions | failures in the middle of a batch; cancellation by cycle timeout or stop | tokens counted once, replay inputs of the right attempt, failures end the run |
| Provider adapters (`providers/`) | a semaphore and a subprocess per call | `generate_intents`, `generate_intent`, structured calls | unusable output with usage; cancellation while the process dies | one call at a time, no lost usage |
| Analysis-assisted decisions (`analysis/decision.py`) | one audit row per symbol and call | `AnalysisDecisionBridge.generate` | rows opened before the call, settled after it | shadow decisions never trade, rows are closed |
| Advisory analyses (`analysis/service.py`, `analysis/scheduler.py`, `api.py`) | queue, task, rounds, audit rows | start, cancel, scheduled rounds, restart | cancellation inside a handler, boundaries passing during a round | every open row is somebody's to close |
| Access to the providers (`api.py`) | `engine_start_lock`, `startup_probe`, timeouts of the provider objects, `active_backtest_tasks`, `probe_task`, logins | probe, start, run once, select, analyse, replay, log in, close, restart | checks before an await, used after it; overrides nested in overrides | what may not share a provider does not, a run is the one that was probed |
| Backtest (`backtest/`) | a simulated exchange, the progress of a pass, the job's row | replay of a window per provider, probe | fees and funding booked in two places, limits that rest, failures in the middle | trades explain the cash, no look-ahead, a failed run ends where it was last known |
| User stream (`broker/user_stream.py`, `application/testnet_feed.py`) | listen key, socket, last 4096 events | `events`, `process`, `stop` | what happens during a reconnect is never sent; a failing audit; a handler that fails ends the feed | a partly filled entry is frozen before the next event; a dead feed is noticed |
| Audit repository (`storage/`) | SQLite tables | runs, inferences, decisions, executions, fills, runtime state | each call is its own transaction, and some read before they lock; a row is written from two sides | rows agree with the engine after any crash; a row never falls behind an event; a fill is listed once, also one the stream missed |
| API and lifespan (`api.py`) | locks and tasks above | handlers, startup, shutdown | requests overlap, some take no lock | see engine and access |
| Instance lock, market data, settings, web maintenance, frontend | lock file, caches, files | I/O and presentation | outside the process or read-only | not modelled, section 7 |

How they interact: the API starts and stops the engine and the scheduler. The
scheduler's cadence task calls `engine.evaluate_batch` and so the provider
route, the risk policy and the broker; its guard task calls
`engine.process_pending_entry`, `evaluate_stop_reason`, the trailing stop and
the partial take profit. The user-stream task calls `broker.handle_user_event`,
the guard polls whether it is alive. Advisory analyses, backtests and probes
call the same provider objects as the route; the API decides who may. The
engine writes everything it does to the audit repository, and reads the waiting
intents and the lock from it. All of this is one event loop: code between two
awaits is atomic, everything else interleaves.

## 2. Modules

| Module | Models | Composes |
|---|---|---|
| `EntryContract` | what `execute_with_stop` promises about one symbol | - |
| `ProtectedEntry` | `execute_with_stop` with its helpers, and `_execute_order`'s classification, one request per action | implements `EntryContract` through `Contract == INSTANCE EntryContract WITH ...` |
| `TradingEngine` | engine, scheduler and API handlers of a run, one step per await | uses of an order what `ProtectedEntry` establishes about its results |
| `AccountFlatten` | `emergency_flatten` and `clear_emergency_lock` on a moving account, request by request | - |
| `VenuePosition` | one position at the exchange and the snapshot the guard reads of it | - |
| `TrailingStop` | `TrailingStopManager` and `replace_stop_loss`, one action per await | extends `VenuePosition` |
| `PartialTakeProfit` | `PartialTakeProfitManager` | extends `VenuePosition` |
| `GuardTick` | the guard pass with stops and crashes in the middle | `TrailingStop`, `PartialTakeProfit` |
| `RiskPolicy` | `evaluate` as pure operators on integers | - |
| `PortfolioRisk` | tasks that read the account, size an order on it and execute it later | extends `RiskPolicy` |
| `DecisionRules` | local strategy, translation of an advice, division of tokens, as operators | - |
| `ProviderCalls` | one physical provider call, its output and its process | - |
| `DecisionRoute` | one cadence's decisions, from the attempts to the orders | `ProviderCalls`, `DecisionRules` |
| `AnalysisDesk` | the advisory queue, its task, rounds and rows | - |
| `ReplayJobs` | backtests, probes and their timeout overrides | - |
| `ModelWork` | the handlers that let work begin at the providers | `AnalysisDesk`, `ReplayJobs` |
| `SimulatedExchange` | the exchange of a backtest: every operation maps a record to the next | - |
| `BacktestRun` | one model's pass over a window | extends `SimulatedExchange` |
| `UserFeed` | the orders of one symbol, what the stream delivers of them, what the feed task makes of each event | - |
| `FillAudit` | execution rows, the joined list of fills, and `GET /api/fills` | extends `UserFeed` |
| `..._proofs` | theorems and proofs | extend `ProtectedEntry`, `TradingEngine`, `AccountFlatten`, `ModelWork`, `GuardTick`, `DecisionRoute`, `FillAudit`, `BacktestRun` |
| `MC...` | constant values for TLC | extend the module of their name |

### 2.1 ProtectedEntry

A sequence of opening orders (`OPEN`, `ADD`; `MARKET`, `LIMIT`) on one symbol.
`pc` is the await the coroutine stands at; each action is one signed request:
what it does at the exchange together with the reply.

| Action | Code |
|---|---|
| `StartOrder` | `risk/engine.py` opening guards, and `reconcile_account` after an emergency |
| `Prepare`, `PrepareFails` | `sync_time`, `_candlepilot_protective_orders`, `configure_symbol` |
| `Submit`, `SubmitRejected`, `SubmitTimesOut`, `SubmitBreaks` | `_place_order` of the entry; the last is an answer that cannot be read although the order was applied |
| `RecoverFinds`, `RecoverMisses`, `RecoverTimesOut`, `RecoverErrors` | `_recover_unknown_order` |
| `Confirm` | `_wait_for_opening_limit_fill` |
| `CancelRemainder`, `CancelRemainderFails`, `SettleRemainder` | the DELETE and `_recover_terminal_order` |
| `Unbracket`, `Place` (and `...Fails`) | removal of the old legs of an ADD, the new stop, the new take profit |
| `Cleanup`, `Rescue`, `RecoverRescue`, `Restore` (and failures), `Raise` | the `except` block, `ProtectiveStopError`, and what `_execute_order` makes of it |
| `TaskCancelled` | `CancelledError` out of a cycle timeout or a stop |
| `FreezePartialEntry` | `handle_user_event` |
| `EntryFills`, `TriggerFires`, `TriggerRetires`, `PositionShrinks` | the exchange, reduce-only orders and humans |
| `EmergencyFlatten` | `emergency_flatten` with any subset of its effects |

Data: a contract is a number, a price does not occur. A leg is told apart by who
placed it: this order (`new`), an earlier one (`old`), a human (`manual`, which
the code never removes and which makes the exchange refuse a second leg).
`NEW` and `PARTIALLY_FILLED` are one status told apart by `filled`.

The constants `Rejects`, `Lost` and `Applied` say which endpoints may answer
with an API error, lose a request, or lose the answer of an applied request by a
timeout; `AnswersBreak` allows `SubmitBreaks`, since the code takes every
transport error but a timeout for a plain failure.
`HandledFaults` names the combination the code is written to survive. What is
proved for all faults and what only under `HandledFaults` is the line between
the code's guarantees and its assumptions.

### 2.2 TradingEngine

Processes: the cadence task and the guard (`Workers`), the detached task of
`request_auto_stop` (`reaper`), and API callers (`Clients`). A shutdown is the
same sequence for whoever performs it: `cancelTasks` (`scheduler.stop`; skipped
when a worker calls `emergency_stop` itself), `drop` (`cancel_pending_entries`),
`finish` (`finish_live_run`, then `running = False` and for a kill the lock),
`persist` (`set_runtime_state`), `flatten` (`emergency_flatten`).

A start is `Restore`, then `reconcile` (waiting intents cancelled, unprotected
positions refused, health checks) and `begin` (`create_live_run`,
`running = True`, `scheduler.start`). `CrashAndRestart` is the death of the
process at any point together with the recovery in `lifespan` before requests
are served. `Orphans` says what a cancelled order request may leave.

The lock is kept twice, in memory and as a row of the database. The sessions of
the database have connections and threads of their own (`storage/database.py:78`,
WAL at 86), so nothing orders their requests, and every access to the row is a
step of its own:

| Action | Code |
|---|---|
| `ReadLock` | the read in `restore_runtime_state`, called by a start |
| `DropExpired` | the deletion of a row that was read as expired |
| `Unlock`, `Relock` | what the start then sets in memory |
| `Inspect` | the reconciliation of `clear_emergency_lock` |
| `Lift`, `DeleteLock` | the lock is lifted in memory, then its row is deleted |
| `Lock`, `Persist` | `emergency_stop` locks in memory, then writes the row |

`overlap` is history: since the last emergency stop began, a start or a lifting
read or freed the lock while the other was under way.

An order is what the engine sees of it: `Judge` (refresh and risk), `Record`
(audit and the last `_order_submission_block_reason`), `Enter`, `Bracket`,
`Audit`/`AuditUnsafe`. `UNSAFE` stands for every result after which
`_execute_order` calls `emergency_stop`: `UNKNOWN`, an incomplete rescue, or a
rescue whose cleanup or restoration failed. A symbol is `flat`, `naked` or
`covered`.

Timing assumptions, all written as `Nobody(...)` in a guard:
- the health checks of a start, which launch subprocesses or call providers,
  take longer than the remaining writes and the flatten of a shutdown already
  in progress (`BeginRun`);
- an emergency flatten ends before the next UTC midnight (`DayTurns`);
- all waiters of one `gather` are resumed before another request is answered
  (`AskStart`).

Abstractions: one cadence task stands for all cadences, whose symbol locks are
disjoint by construction; a cycle takes any non-empty set of symbols the guard
has not locked. Opening orders on flat symbols only (`ADD` is the business of
`ProtectedEntry`). A failed provider route is a cycle that fails or a run limit
reached, both nondeterministic (`DecisionRoute` has the details).
`GuardEscalates` stands for the death of the user stream and for a stop lost by
the trailing replacement (`GuardTick` has the latter).

`AccountFlatten` is the `flatten` step of a shutdown taken apart. A caller is a
coroutine inside `emergency_stop` or `clear_emergency_lock`; neither takes a
lock, so two of them overlap.

| Action | Code |
|---|---|
| `EmergencyStop`, `ClearEmergencyLock` | the handlers up to their first await |
| `Read`, `ReadFails` | `sync_time` and the three reads of a `gather`, answered one by one |
| `Decide` | the two tests of `clear_emergency_lock` and the write of the lock |
| `BeginCancel`, `CancelAll`, `Deleted`, `DeleteFails` | `cancel_all`: both DELETEs of a symbol at once; the first failure is the end of the wait, not of the other request |
| `BeginClose`, `Close`, `CloseRefused`, `CloseTimesOut` | the reduce-only MARKET order for each position that was read |
| `RecoverFinds`, `RecoverMisses`, `RecoverFails` | `_recover_unknown_order` of that order |
| `BeginVerify`, `Verify`, `VerifyFails` | the loop that reads the account until it is flat, and the verdict |
| `Fill`, `StopFires`, `Arrive` | the exchange: a resting order is executed in part, a stop fires, a close whose answer was lost arrives |

Bounds: one order per caller and symbol is on its way, and a DELETE that
outlived its `cancel_all` is answered before the same caller cancels that symbol
again. `skew` lets the account move between the reads of one check.

### 2.3 The guard: VenuePosition, TrailingStop, PartialTakeProfit, GuardTick

One symbol; positions follow one another. `VenuePosition` holds the truth
(`position`, `mark`, `stop`) and the snapshot (`seen`), filled by two requests
that run at the same time (`ReadAccount`, `ReadLevels`, `ReadFails`).
`BeginPass` takes the symbol lock, after which the engine's own orders wait; the
exchange, humans and the mark do not. Prices are integers, R is counted in
quarters so that the profiles' fractions stay whole.

| Action | Code |
|---|---|
| `Load`, `Forget`, `Observe`, `Save` | `_ensure_loaded`, the removal of closed symbols, `_observe`, the `runtime_state` write |
| `ProfileQuiet`, `ProfileFills`, `ProfileRecords`, `ProfileReplaces`, `ProfilesDone` | the branches of `_maintain_profile` and of the loop over profiles |
| `FindStop`, `RemoveStop`, `InstallStop`, `RestoreStop`, `Fail` | `replace_stop_loss`: look up, DELETE, POST, put the old one back, `ProtectiveStopError` |
| `RecordCritical`, `NoteApplied` | the audit row of a lost protection before the escalation, of a moved stop |
| `LoadBook`, `TargetQuiet`, `TargetRecords`, `TargetsDone`, `CutRecord` | `PartialTakeProfitManager.maintain`: the progress changes first, then the event is written; that write may fail or be cancelled |
| `EndPass`, `Escalate` | the end of the guard poll, `request_emergency_stop` (its shutdown is in `TradingEngine`) |
| `StopEngine`, `Crash`, `StartEngine` | the pass is cancelled at any await, or its process dies; the next one has a mode of its own |

`Faults` names what may go wrong: `AllFaults` are refused, lost and
applied-but-unanswered requests of each step, a database that fails the trailing
stop (`"database"`) or the experiment (`"experiment"`), and the skew of the two
reads. `HandledFaults` leaves out three the code does not survive (section 4):
`"removeApplied"`, `"database"` and `"skew"`. `MaxMishaps` bounds failing writes of
the experiment, stops and crashes together. `lost` is history: the sales at the
target whose row was never written. Two reductions keep the state small without losing behaviour:
`MarkMatters` and `PositionMatters` let the environment move only when some step
of the pass still reads it, and `Unremembered` leaves out two successive
positions with the same average price to the last digit.

### 2.4 Risk: RiskPolicy, PortfolioRisk

`Evaluate` is the policy: the vetoes in their order (`Admitted`), the structure
gate (`StructurePasses`), the buffered stop, the levels, the three budgets
(`Budget`, `MarginQuantity`, limits of the symbol), the rounded quantity, and the
reward-to-risk test on the rounded figures. Prices carry no decimals, fills two,
money at risk four, so that every rounding the code does with `Decimal` is an
integer division here. `PortfolioRisk` adds time and a second actor: the cycle of the one cadence and
the guard, which executes waiting limit intents. Each reads the portfolio under the
lock of its symbol, sizes the order on that reading (`Size`, `RecheckIntent`), and
the fill comes later and between the reference price and the slipped book;
meanwhile the other task trades another symbol, stops tighten and positions end.
The code's cycle locks all symbols of its batch, the model's only the one at
work, which allows more interleavings. `late` is history: the positions to which an
order was added that was sized before an order of the other task filled
(`Outdated`).

### 2.5 Decisions: DecisionRules, ProviderCalls, DecisionRoute

`ProviderCalls` gives per adapter and per kind of output (`Ends`) what comes
back: an answer, or an error with the usage the adapter had parsed by then. A
call holds the semaphore until its process is reaped; `Interrupt`, `Reap`,
`Abandon` are the two seconds after a cancellation. `DecisionRoute` follows a
cycle: `Begin`, `Attempt`, `Prepared`, the call, `Refresh` before a retry,
`RecordAttempts` and `RecordResult` (one row per symbol, tokens divided with
remainder by `Share`), `Evaluate`, and the boundary between formal and shadow
decisions in `Execute`. `Cancel` is a cycle timeout or a stop at any await,
`Unwind` what the handlers then still write; `GuardPoll` and `StopRun` end the
run after the failure limit. `OtherJob` is a second task at the same provider
object. `ledger` is history: tokens handed over and written, inputs asked and
saved, decisions traded.

### 2.6 Access to the providers: AnalysisDesk, ReplayJobs, ModelWork

`ModelWork` has one action per stretch between two awaits of the handlers of
`api.py`. `holder` is the owner of `engine_start_lock`; `probe` is
`engine.startup_probe` with what it measured; `settings` is a version number of
everything a probe measures, but for the Codex account. A login or logout is let in
(`AskLogin`), waits for the lock of the login manager, which a reading of the rate
limits or a logout may hold for up to 15 seconds, and only then is under way
(`BeginLogin`, `LogoutEnds`, `LoginEnds`); nothing is checked again. `auth` is
`"asked"` while it waits, and `"late"` if a run, its start or its probe had begun by
the time it came on. The desk's lock and task, and the jobs' request
phase (`checking`, `creating`) and task phase, are separate on purpose: the code
checks, awaits, and only then registers. Timeouts are names: the provider's own,
a probe's ceiling, those of requests. A backtest of a provider that needs none skips
its probe (`RequiresProbe`). `restore` is what the engine will put back,
`job[j].saved` what a job will. `crossed`, `disturbed`, `cutRows` and `cutRuns`
are history variables that name the circumstances under which the code does not
deliver (section 4); so is `stranded`, the analysis rows that a failing write
elsewhere in their batch left behind.

### 2.7 Backtest: SimulatedExchange, BacktestRun

An exchange is a record with cash, positions, resting limits, orders scheduled
for the next bar, trades; `Execute`, `Activate`, `Settle`, `CloseAll` are the
methods of `SimulatedExchange`, with fees, slippage and funding as whole numbers.
`BacktestRun` is `BacktestRunner.run`: settle what has closed, ask, retry, give up
with a rollback to the last answer, book orders at once or for the next bar,
close everything at the end. Price paths, answers and accepted orders are
choices. The loops over bars, symbols and open positions are recursive functions
over `0..n`, in the order the code visits them, so that the proofs can follow
them. `BacktestRunAssumption` says of the inputs what the code makes sure of:
decision times come sorted and inside the window (`decision_times`, and `sorted`
over recorded batches), a CLOSE is the one order that only reduces, and a
position taken over starts with the window, without fees or funding of its own
(`SimulatedExchange.__init__`).

### 2.8 Records of what was executed: UserFeed, FillAudit

Positions of one symbol follow one another; round `n` has an entry, a leg of its
bracket (`-sl` or `-tp`), an order of the model to close or reduce it, and a manual close.
`order` is the exchange. `events` and `rows` are the tables `user_stream_events`
and `executions`.

| Action | Code |
|---|---|
| `EntryFills`, `LegFires`, `ModelFills` | the exchange; each change sends its event if a socket is open |
| `Connect`, `Disconnect` | `BinanceTestnetUserStream.events`: what was on its way when the socket broke, and all that happens before the next one, is never sent again |
| `Receive`, `LookUp`, `StoreEvent`, `StoreFails` | `TestnetUserFeed.process` up to the handler; `record_user_event` in two steps, since its session takes the write lock only with the INSERT |
| `Handle`, `HandleFails` | `handle_user_event`, and the end of the feed when it fails |
| `PlaceEntry`, `CancelRemainder`, `Bracket` | `execute_with_stop` as far as its report depends on it |
| `PlaceClose`, `Answer` | a reduce-only order of the model: a CLOSE sells what is held, a REDUCE a part of it, after which the legs stand for the rest |
| `Record`, `RecordFails` | `record_execution`, which applies the events already there |
| `StopFeed`, `CancelTasks` | the two halves of `scheduler.stop`, in this order |
| `CloseManually` | `manually_close_position` when it succeeds; once per round |
| `BeginPoll` ... `EndPoll` | `GET /api/fills`: read the list, ask for manual orders that have a row alone and, on a flat account, for the exits of entries without one, store each answer, read again |

`Kept`, `Fallback`, `RelatedTo` are `recent_trade_fills`. `Advance` is
`_apply_order_update`. `Mistaken` and `PartExplains` name the two ways in which the
code relates a sale to an entry whose own exit is still to come. Left out: the event
that announces a new order, which advances no row; a single order that both the stream and the
request describe differently (quantities are those of the exchange), `ADD`,
manual closes that fail half-way, page limits, the one-second memo of the
account, and the clock of the retries, for which `FindNothing` says that any
order may be passed over.

## 3. Runs

| Run | Question | Distinct states |
|---|---|---|
| `MCProtectedEntry` | safety, contract and liveness of an order under the handled faults; orders of 3 contracts, positions up to 5, 4 requests per loop as in the code | 73,328 |
| `MCAllFaults` | what still holds when every request may fail in every way and the task may be cancelled | 159,077 |
| `MCTradingEngine` | two API callers that start, stop and kill, limit intents, cycle timeouts, safe results | 924,112 |
| `MCEmergency` | two API callers with all requests, market orders, all results, two runs | 4,992,401 |
| `MCFlatten` | two overlapping flattens and unlocks of one symbol with fills in parts, every request may fail | 2,298,090 |
| `MCGuardTick` | two positions one after the other, a live and a shadow profile over four prices, one simulated target, failing requests, one failing write, stop or crash | 1,794,539 |
| `MCPortfolioRisk` | up to three executed orders of the cycle and the guard over three symbols: openings, additions, reductions, waiting limits, two plans, wide and narrow books | 852,728 |
| `MCDecisionRoute` | every adapter and both modes, one or two symbols, three attempts, two cycles, another job at the provider | 1,073,699 |
| `MCModelWork` | three requests of any kind that begin work, a change of settings, a restart, one backtest, one probe, two advisory rows, a login | 2,656,504 |
| `MCBacktest` | all paths of three bar shapes for one symbol and a falling one beside it, six orders, a carried position, provider failures | 600,198 |
| `MCFillAudit` | an earlier position whose exit was missed, known to nobody, by its event or by its row alone, and one that is traded, closed or reduced, entries of two contracts, all faults | 1,304,641 |
| `MCWorkerKill` | a divergence from the documents (section 4) | stops at a counterexample |

What the passing runs show:
- `ProtectedEntry`: `RestsProtected` (no naked position at rest),
  `ReportedEntryIsDead`, `NoOrphanLegs`, `ImplementsContract`,
  `NakedIsTemporary` under the handled faults; `SuccessIsBracketed`,
  `RescueUndoes`, `OldBracketOutlivesEntry` under all.
- `TradingEngine`: `StoppedIsQuiet`, `NoStrayIntents`, `AutoStopEnds`,
  `NoTradingOverNaked`, `FlattenSticks`; and a persisted lock is in force
  (`LockIsEffective`), unless a start or a lifting overlapped the emergency stop.
- `AccountFlatten`: a flatten that reports success left an account with no
  position, no resting order and no stop (`FlatIsFlat`); a close sized on an
  old reading never turns or enlarges a position (`ClosesOnlyShrink`); the lock
  opens on a clean account (`UnlocksClean`).
- `GuardTick`: a stop that the guard lost ends the run (`LostStopEscalates`);
  the stop a pass moves keeps the profile's distance from the best mark, across
  restarts (`StopKeepsDistance`); the exchange stop of a position never loosens
  (`StopOnlyTightens`); a simulated sale happens once, and a breakeven sale, or the
  end of a half-sold position, is recorded only after its sale at the target was
  simulated (`SimulatedSalesInOrder`). The row of that sale is there too, unless its
  own write failed or was cancelled.
- `PortfolioRisk`: the loss at all stops and the margin, of the portfolio
  (`PortfolioWithinLimits`) and of each symbol (`SymbolWithinLimits`), stay within
  their limits after rounding, filling, adding and tightening. The portfolio may be
  beyond its limit by one order, which was sized before an order of the other task
  filled; all positions but that one are within the limit.
- `DecisionRoute`: `TokensRecorded`, `ReplayMatchesDecision`,
  `ShadowNeverTrades` (at once, through a waiting intent, or in a later run),
  `OneCallAtATime`, `RowsCloseUnlessCut`, `ThresholdStops` (a failure limit
  reached in a cycle that is cancelled still ends the run).
- `ModelWork`: a run, its start and its probe share the providers with no analysis
  and no login (`LiveExcludesAdvice`), but for a login that was let in before;
  `RunMatchesProbe`; `TimeoutsRestored`; every open row has somebody to close it
  (`OpenWorkHasTask`), but for rows whose closing was cut or failed (`cutRows`,
  `cutRuns`) and those `stranded`.
- `BacktestRun`: `TradesExplainCash`, `NoFutureInPortfolio`,
  `FailedRunEndsAtLastAnswer`.
- `FillAudit`: a row is never behind a stored event, and no late event takes a
  final fill back (`RowsKeepUp`); the fill that the feed and a request stored both
  is listed once, as the stream told it (`FillsListedOnce`); a poll of a flat
  account that got its answers lists every stop and target that had fired
  (`PollFindsExits`), unless another sale had been related to its entry; the feed goes on only when the partly filled entry is dead
  (`PartialFillsFreeze`).

Each property is broken by a mutant of the code (operators commented `mutant`,
listed in `PROJECT.json`), so none holds by the shape of the model. The type
invariants (`TypeOK`) and three more safety properties (`RescueWithinEntry`,
`OneOpenRow`, `EveryPositionTried`) are in no run: they were checked while the
modules were written, and those of `ProtectedEntry`, `TradingEngine`,
`AccountFlatten` and `ModelWork` are proved.

Why the bounds are enough.
- `ProtectedEntry`: `Qty = 3` gives an entry with no fill, two different partial
  fills and a complete one, and a rescue that is partial in two ways;
  `MaxPosition = 5` lets an ADD meet positions smaller and, after reductions,
  larger than itself. A loop of 4 requests can be exhausted, succeed early and
  succeed at the last request.
- `TradingEngine`: two symbols let a batch contain two orders and let guard and
  cadence work at the same time; two callers are the fewest for two overlapping
  requests; `MaxRuns = 2` lets the state of one run leak into the next, which is
  why the emergencies, whose remains matter most, are checked with it. Symbols and
  callers are interchangeable in `MCEmergency`, which has no liveness property.
  `RescueLimit = 1` reaches the limit with one order; the code compares the count
  only with the limit. Crashes and day changes are unbounded.
- `AccountFlatten`: two callers are the fewest that overlap; two contracts the
  fewest that can be executed in parts; two passes of a retry loop let it succeed
  late or be exhausted. Calls follow one another without bound. `FlattenSpec`
  leaves out initial states that are the mirror image of others, and those in
  which position and resting order together exceed `MaxSize`. With two symbols,
  one caller and one contract the same properties hold too (203,306 states); the
  theorems remove all bounds.
- `GuardTick`: with two openings the remains of one position (memory, saved row,
  snapshot) meet the next one; one stop or crash can fall at any await, and
  passes before and after it are unbounded. Four prices suffice for a profile to
  activate, fall back and trail. A longer run multiplies positions, not
  situations: nothing survives the second position that did not survive the first. One mishap
  is a failing write, a stop or a crash; that two of them do not combine to anything
  worse is what `SalesKeepOrder` shows, for any number (section 5).
- `PortfolioRisk`: two symbols are the fewest on which cycle and guard trade at
  once, the third has a position for both to read; three orders can use up each
  budget, take it back by a reduction and use it again; steps and prices are chosen so that rounding is
  coarse (lots of one, prices around ten), which makes a comparison done before a
  rounding instead of after it visible.
- `DecisionRoute`: three attempts are the code's own limit; two cycles let a
  count, a row or an intent of one reach the next; three tokens do not divide by
  two symbols.
- `ModelWork`: three requests are the fewest with a job, a probe and a start in
  one behaviour; one restart suffices because it resets everything but rows and
  settings. Theorems remove all three bounds (section 5).
- `BacktestRun`: three bars give an order that rests over a bar, one that is
  scheduled for the next, and one that is open at the end; "wild" bars hit stop
  and target at once.
- `FillAudit`: two contracts are the fewest of which one can be filled first.
  Two rounds, of which the second is played (`PlaceEntry`) and the first is what
  `Init` says of the past, are the fewest in which an exit can be taken for that
  of another entry. `Backlog = 1`: orders fill only while the
  feed has nothing on its way or in hand; cancellations do not wait, so that a
  second event can follow, and both can be lost. With `Backlog = 2` the same
  properties hold (2.3 million states, too long for the run).
  Polls, reconnects, starts and stops are unbounded.

Restrictions of the runs and why. `MCTradingEngine` excludes the results that
need an emergency, and the requests to lift a lock, which `MCEmergency` has.
`MCEmergency` excludes limit intents, which keeps the
guard from trading and so from calling `emergency_stop` while the cadence task
trades: that interleaving violates `FlattenSticks` (`MCWorkerKill`). For the
same reason `MCEmergency` has no cycle timeouts: a cycle cancelled inside
`execute_with_stop`, or inside its own `emergency_stop`, leaves a naked
position in a running engine.

Fairness. `ProtectedEntry`: weak fairness of the coroutine as a whole; asyncio
resumes a coroutine whose request has completed, and every request completes
because the HTTP client has a timeout. `TradingEngine`: weak fairness of each
worker's order, each process's shutdown and each client's handler, for the same
reason. `DecisionRoute`: of the
cycle's steps (a provider call has a timeout), of the guard's poll, and, once a
stop has been requested, of the shutdown and of its cancellation of the cycle.
Nothing is assumed of the callers, the exchange, the model, or the beginning of
a cycle.

Deadlock is checked except in `MCPortfolioRisk`, `MCDecisionRoute` and
`MCBacktest`: the first two end when their bound on orders or cycles is reached
with nothing left to do, and a replay is over when it is over.

## 4. Divergences and limits of what the code promises

These disagree with the documents:
1. `MCWorkerKill`: a task whose order needs an emergency calls `emergency_stop`
   itself; other tasks are not cancelled first, and their entries may execute
   after the flatten (`engine.py:872`, `894`). `docs/market-and-runtime.md:198`
   asks for the tasks to be cancelled and awaited before the flatten.
2. A MARKET entry executed in part and then expired is returned as a plain
   failure, without bracket or emergency (`binance_testnet.py:680`), although
   `README.md:31` of the repository promises a bracket for what is filled and
   protection of partial fills. `MCProtectedEntry` with `MarketFills <- AnyFill`
   violates `RestsProtected`.
3. `clear_emergency_lock` reads positions, orders and algo orders at three
   moments; an order that fills between them is in none of the answers, and the
   lock opens over a position (`engine.py:532`), although `DOCS.md:57` allows it
   only on an account without any. `MCFlatten` with `Faults <- AllFaults` violates
   `UnlocksClean`.
4. A start or a lifting of the lock takes no notice of an emergency stop. A start
   that read no row (`engine.py:536-552`) frees the lock in memory after
   `emergency_stop` has locked and written its row (498-505); a lifting (532-534)
   frees memory, and then deletes the row that was just written.
   `docs/risk-and-execution.md:336-337` says that the lock is persisted and kept over
   restarts until the next UTC day. `MCEmergency` with `overlap = "no"` dropped from
   `LockIsEffective` violates it. After such a lifting there may be no row for the next
   restart to find.
5. `partial_take_profit.py:201-206` changes the progress before it writes the event;
   if the write fails, the next pass goes on from the changed progress and records
   the breakeven sale, or the end of the position, of a sale that has no row.
   `docs/risk-and-execution.md:254-258` and `docs/storage-and-observability.md:16` list
   the sale at 1R as an event of its own. `MCGuardTick` with `\cup lost` dropped from
   `SimulatedSalesInOrder` violates it.
6. The guard executes a waiting limit order (`scheduler.py:242-255`) while the cycle
   sizes and executes on other symbols (`engine.py:1500-1545`): locks are per symbol,
   the portfolio each was read before the other's order filled. Together they may
   take the risk at all stops beyond the 4 % of `docs/risk-and-execution.md:107` and
   `DOCS.md:156`, and the margin beyond its limit, by at most one order.
   `MCPortfolioRisk` without the exception for `late` violates `PortfolioWithinLimits`.
   There is one cadence (`_normalize_cadences`, `engine.py:271-283`), so that no third
   task takes part.
7. A REDUCE of the model whose FILLED event arrived is related to the entry
   (`database.py:1087-1088`, `1594-1628`), which then counts as explained
   (`api.py:2827-2843`): a stop or target that fires for the rest while the stream is
   offline is never asked for, although `docs/risk-and-execution.md:330-335` has it
   found. `MCFillAudit` without `~PartExplains(n)` in `BeginPoll` violates
   `PollFindsExits`.
8. A login or logout of the Codex CLI is refused while the engine runs or a probe is
   in progress (`api.py:957-968`), but after these checks it waits for the lock of
   the login manager (`codex_auth.py:171`), which a reading of the rate limits or a
   logout may hold for up to 15 seconds; a start, a probe or a single cycle that
   begins meanwhile sees no login (`active` is set later, 155-157) and runs beside it.
   `MCModelWork` with `auth \in {"none", "asked"}` in place of `auth # "on"` violates
   `LiveExcludesAdvice`.
9. The third rescue of a run does not stop its batch: `engine.py:870` only counts, the
   other orders of the batch follow, and the run is ended by the check after them.
   `docs/market-and-runtime.md:213-215` says that the run stops at once when the audit
   of the third rescue is complete. No property says at which order; that the run
   ends is `AutoStopEnds`.
Others bound what the properties say. Each can be reproduced by the change
of a constant or of the formula named:

| Behaviour | Where | How to see it |
|---|---|---|
| A DELETE of an old leg that times out after it was applied is taken for one that was not: the leg is not put back and nothing escalates | `binance_testnet.py:739` | `MCProtectedEntry` with the algo endpoints in `Applied` violates `RestsProtected` |
| An API error other than -2013 while an unknown entry is looked up ends as `FAILED` although the entry may be live | `binance_testnet.py:1044` | `MCProtectedEntry` with `Rejects <- Endpoints` violates `ReportedEntryIsDead` |
| A transport error other than a timeout, or an answer that is not JSON, behind a POST that was applied ends as `FAILED`; the entry may be live or filled, without bracket or emergency (`engine.py:874-897`) | `binance_testnet.py:254-277` | `MCProtectedEntry` with `AnswersBreak = TRUE` violates `RestsProtected` and `ReportedEntryIsDead` |
| A lost answer of the DELETE in `replace_stop_loss` is an ordinary failure: the stop may be gone and nothing escalates | `binance_testnet.py:898` | `MCGuardTick` with `Faults <- LostAnswer` violates `LostStopEscalates` |
| A failing audit of a lost protection takes the place of the escalation | `risk/trailing.py:310` | `"database"` in `Faults` violates `LostStopEscalates` |
| Account and trigger orders are read at two moments: a position reopened in between is paired with the older stop, and R is inferred from it | `binance_testnet.py:584` | `"skew"` in `Faults` violates `StopKeepsDistance` |
| A model's close of an entry whose event is missing is related to the entry before it, whose own missed exit is then never asked for | `database.py:1600` | `MCFillAudit` without `~Mistaken(n)` in `BeginPoll` violates `PollFindsExits` |
| An insert that fails leaves the rows inserted before it in the batch, and a closing write that fails leaves the rest of the queue: they stay pending, with no task, until the next restart closes them | `api.py:2969-2980`, `2928-2942` | `MCModelWork` with `\union stranded` dropped from `OpenRowsHaveTask` violates `OpenWorkHasTask` |

Seen while modelling and kept out of the properties by a named history variable
or a guard, since no document promises the contrary:
- an emergency stop during a start can leave a running engine with the lock set
  in memory; a stop during a start is lost; `request_emergency_stop` is dropped
  while an automatic stop is active;
- settings may change while a probe measures them, and only a finished probe is
  invalidated; a stop or a failed single cycle puts the timeouts back but leaves
  the probe usable, so a run may start without the timeout that was measured
  (`disturbed`); the timeout of a probe that was invalidated stays set until the next
  start, stop or probe (`TimeoutsRestored` counts it as one left to serve);
- requests for jobs check, await and then register: a backtest, a probe and a
  start can pass their checks together, and overrides of one provider's timeout
  that are not nested leave the wrong one behind (`crossed`);
- a cancellation that interrupts a handler which is settling rows leaves them
  open until the next restart (`cutRows`, `cutRuns`, `ledger.cut`); a second
  cancellation during the two seconds a process is given to die leaves it behind
  (`twice`);
- an HTTP answer without a message raises before its usage is parsed, so those
  tokens are in no row (`providers/openai_compatible.py:100`);
- an entry that was filled in part and then cancelled is not FILLED: it is not
  listed, and its missed exit is not asked for (`database.py:994`); the fills of
  an emergency flatten have rows of their own only;
- the cooldown after a stop is rebuilt from stored events: a stop that the stream
  missed and no poll has fetched yet cools nothing down.

## 5. Proofs

`tlapm` checks the eight `_proofs` modules completely, for every value of the
constants that satisfies the named assumptions (`QuantityAssumption`,
`FaultAssumption`, `ConstantAssumption`, `FlattenAssumption`, `AnalysisDeskAssumption`,
`ReplayJobsAssumption`, `ModelWorkAssumption`, `VenueAssumption`,
`SimulatedExchangeAssumption`, `BacktestRunAssumption`, ...; each is
evaluated by TLC in the runs of its module). Where a theorem holds only for some
constants, the condition is its `ASSUME`, named, and given below with its reason;
each is satisfied by the constants of a run.

`ProtectedEntry_proofs`. The properties are not inductive: that a rescue is
complete depends on what the report said when the bracket was attempted. Two
inductive invariants carry the argument.
- `Ledger` (all faults): `TypeOK`, `Budget` (a running loop has requests left),
  `EntryShape` (status and fills agree), `EntryKnown` (from the bracket on the
  entry is dead and the report equals it), `RescueBooks` (what was opened, what
  was taken off, and what is held), `BracketBuilt`. It implies `TypeCorrect`,
  `RescueTakesOwn`, `RescuedIsUndone`, `SucceededIsBracketed`, and with one
  lemma about steps `OldBracketKept`.
- `Cover` (under `HandledFaults`): `MarketWhole`, `Progress` (what has been
  removed, placed and failed at each program point), `NewLegs`, `OldStopKept`
  (contracts not of this order keep their stop, or the loss is on record),
  `EndsWell`. It implies `NeverNakedAtRest`, `EndedEntryIsDead`,
  `FailureLeavesNoLegs`, and step by step `EntryImplementsContract`.

`TradingEngine_proofs`, for any number of symbols, callers and runs:
`TypeCorrect`; `OneLiveRow` from `StartBooks` (at most one start is in progress,
and only in a stopped engine, together with the property: without it a second
start could begin a run over the first); `LockSurvives` from `LockBooks`: whoever
is about to persist the lock has set it in memory (`LockedFirst`), a read made while
somebody is about to write is an overlap (`Overlapped`), and a start or lifting that
is about to free the lock read that there was none to respect (`ReadsFree`).
- `StopsAreQuiet` and `IntentsEndWithRun` rest on `Orderly`: who holds the
  shutdown, which tasks are still alive at each of its program points, and which
  worker holds which symbol. They assume `NoEmergencyResults`, that no order
  ends in an emergency stop of its own: with such an order the same properties
  fail for the reason of section 4 (the task stops the engine beside the
  scheduler).
- `NakedStaysInHand` and `FlatStaysFlat` rest on `Guarded`: a naked position has
  somebody on the way to the emergency stop or a lock in force, and after a
  flatten no worker is past the check before its order. They assume
  `CadenceOnly` (no limit orders, and no cycle timeouts, which is how
  `MCEmergency` isolates the one task that trades): the other combination is the
  divergence `MCWorkerKill` shows.

`GuardTick_proofs`, for all prices, distances, trailing profiles, targets and
positions. `Types` and `AtHand` (what the pass has in hand belongs to the
position it read, or that is gone) carry all of them.
- `NoNakedSleep` adds `RealPrices` and `StopHeld` (a running engine is without
  its stop only inside a replacement, its restoration or the escalation). It
  assumes `NoLostDelete`: a DELETE that was applied and whose answer was lost,
  or a database that fails there, leaves the pass by an exception, as section 4
  lists. Every other fault is allowed.
- `StopTightens` adds `SeenIsReal`, `Remembers` and `Ratchet` (the stop the pass
  is about to place or put back is not behind the one at the exchange).
- `DistanceKept` adds `Distances`: a stop is the first one or keeps the
  distance, for memory, plan and exchange alike. `LateActivation` says that
  trailing begins at a gain of at least its distance plus the initial risk, which
  the code's live profile satisfies with equality (activation 2R, distance 1R,
  `risk/trailing.py:30`, in quarters 8 = 4 + 4). Without it the first trailed
  stop could lie on the losing side of the entry: rounding to the tick takes up to
  a tick, and the initial risk is what makes room for it.
- `SalesKeepOrder` adds `Unseen`, `FillsFrozen`, `SalesRecorded` and
  `EndsFollowSales`: what memory or the saved state calls sold is in the table or
  among the `lost`. Writes may fail and be cancelled any number of times.
- `NoSkew` (last three, the only assumption of the third): the two reads of a
  snapshot meet the same account. With
  `"skew"` a position that was closed and opened again in between is read with
  the stop of the other.

`DecisionRoute_proofs`, without further conditions, for every set of adapters,
callers, batches, token counts and number of attempts. `RouteInvariant` joins
`Exclusive` (who is past the semaphore holds it, and every process is waited
for unless its caller was cancelled twice), `CycleCalls` (the cycle calls in one
place only), `Leaves`, `AsksWithInputs` and `TokensTraced`: what has been
reported is written, in the attempts kept, in the result, or cut off by a
cancellation that is recorded. `TokensAddUp` also needs what `_split_usage`
promises, that the shares of a batch add up to the whole, and what recording a
list of attempts writes (`PaidShares`, `SpreadWhole`, `SpreadAllWhole`).

`FillAudit_proofs`, without further conditions, for any number of rounds,
contracts and waiting events and every set of faults. `Behind(r, s)` says that a
record tells of the present or the past of an order; `Moves` what an order may
become; every record stays `Behind` its order (`NothingInvented`) and every row
stays `Behind` its order and `Covers` the events of it (`RowsFollow`). `OneOrder`
and `OneExit` are what the exchange and the engine guarantee: fills that fit, and
that the stop or target of the bracket, or a manual close, ends a position whatever
the model has sold of it before. `EventInHand` and `ExitsOnTheirWay` say that the index a
SELECT came to still points to the same fill when the INSERT follows, whatever
the other side stored in between, and that an exit that is due is in the table,
asked for, or in hand. `FillsListedOnce` itself is a fact about `Kept`
(`KeptExists`, `KeptOnce`): the last live event of a fill wins, or its last copy.

Induction over data. The library's induction theorems cannot be used, but the
set form can: `AllNaturals` (a set of naturals with 0 and all successors is
`Nat`) follows from `WFMin` for `<`, and gives the sums of `DecisionRoute` and,
in `FillAudit`, the value of the row that `record_execution` folds out of the
events (`RowStepsExist`, `RowOfFollows`) and the maximum of a set of indices
(`MaximumExists`).

`AccountFlatten_proofs`, for any number of symbols, callers and contracts.
`FlatMeansFlat` and `LockOpensOnClean` need an invariant about time: what a
caller has read, tried or left undone is, at each of its program points, enough
to know what the account can still hold, whatever others did since. They rest on
`Calmer`, the fact that no step opens a position except the fill of an order
that was resting, and that nothing adds an order or a stop. `NothingPassedOver`
follows the set of positions through the loop; `ClosesShrink` is `Calmer` without
the fills.

`ModelWork_proofs`, for any number of analyses, backtests, probes, timeouts,
settings, requests and restarts. `Books` joins the types to what ties each queue
and row to its owner: `DeskShape` (a task has a queue, the rows being created
belong to the lock), with `cutRows` and `stranded` as its exceptions,
`OpenRunsHaveTask`, `ProbePhases` (a probe has no row to
close). From it `TypeCorrect` and `OpenWorkIsTended`. `LiveIsAlone` is inductive
over `TypeOK`. `TimeoutsComeBack` needs `Nested` (while overrides nest, at most
one job has set one, what the engine will put back is the provider's own timeout,
and what a job will put back is the timeout outside all jobs) and `Served` (a
timeout still to be put back serves a run, a start or a probe result).
`RunsAsProbed` adds `LoneRun` and `Fresh` (what a finished or running probe
measured is what is set now, for every holder of the lock). The lemmas `JobMoves`
and `JobsKeepBase` reduce every step of a job to three kinds: quiet, setting its
override, undoing it.

`BacktestRun_proofs`, for any finite set of symbols, window, decision times,
price paths, orders, positions taken over, equity, slippage, fee and number of
attempts. `PassInvariant` joins three parts; none of them is a consequence of the
properties alone, and TLC has checked the three together on the instance of
`MCBacktest` (all 600,198 states).
- `TypeOK`, with the shape of every record: no order waits for a bar that the
  window does not have, or `Activate` would read a price that does not exist.
- `Books`: `Balanced`, the account explained by trades and open positions, for
  the exchange and for its saved copy, to which a failed run returns.
- `Timely`: up to `Clock` (the instant the pass has settled to) every symbol has
  settled exactly the bars that have closed; `OnTime` (what is held was decided
  before its fill, no later than the open of the next bar to settle; an order
  that rests or is scheduled was decided before it can fill, and is scheduled for
  no bar that is settled already); `Past` (trades are over, and the bars whose
  triggers ended them have closed); the saved copy is `Over` by the last answer.

The argument goes from small to large. Sums: one summand changes, one is added
(`TotalOfChanged`, `TotalOfMore`), hence one position changes or one trade is
booked (`PositionChanges`, `TradeAdded`). Operations: `Good` is kept by each
method of the exchange on one symbol, and leaves the others alone (`Elsewhere`):
`BookKeeps`, `OpenKeeps`, `FillKeeps`, `TriggerKeeps`, `FundingKeeps`,
`FillRestingKeeps`, `ActivateKeeps`, `ExecuteKeeps`. Loops: a bar
(`SettleBarKeeps`) moves a symbol to the next one, the bars of a symbol
(`SettleSymbolKeeps`) to the instant, the symbols (`SettleAllKeeps`) the whole
exchange. `LoopRuns` and `LoopLeads` are the induction over a loop, again from
`AllNaturals`. Steps: one lemma per action of `Next`.

Only model-checked:
- the liveness properties (`NakedIsTemporary`, `AutoStopEnds`, `ThresholdStops`):
  liveness under fairness is out of the prover's reach;
- `PortfolioWithinLimits` and `SymbolWithinLimits` of `PortfolioRisk`. They do not
  hold for all constants: `Reduce` keeps the cost of what is left as a whole
  number, so that its average price is rounded down to a cent, which for a SHORT
  can raise the loss at the stop by a cent per contract. The code keeps the
  average price that the exchange reports. A theorem needs an exact average, or
  a bound for the rounding, before anything else.

## 6. Plan

Done: `EntryContract`, `ProtectedEntry`, `TradingEngine`; the guard; risk; the
decision route with its adapters; access to the providers; the backtest; the
emergency flatten; the user stream and the records of fills; the proofs of
section 5, which cover all safety properties but those of `PortfolioRisk`.

Modules left, most important first:
1. `ManualClose`: `close_position_market` request by request, with its failures
   per stage and close-all, composed with `FillAudit` through `CloseManually`.
2. `RunAttribution`: which run and which decision a fill belongs to
   (`recent_live_run_performance`, `position_entry_context`).
3. The listen key and its renewal, and the sequencer of the user stream.

Theorems to add: `SymbolWithinLimits` and `PortfolioWithinLimits`, once the average
price of a reduced position is exact (section 5): the rounded quantity times the
rounded distance fits the budget. Fees of at most 100 % and a bid and ask around
the mark are needed as well, and for the portfolio what the other task can have
added since the reading.

## 7. Not modelled, and why

- Instance lock: `flock` on one file, a single call of the operating system; the
  models assume the single process it guarantees.
- Market data client and cache, features, scanner: read-only input and numeric
  transformations; what the models need of them is that a reading has a version
  or a sign.
- Web maintenance and installers: root jobs and shell scripts outside the
  process; of updates, backups and log maintenance only `restart_pending` is in
  `ModelWork`.
- Configuration, settings file, pricing, observability, authentication, the
  frontend: no concurrent state, or presentation of what the rest decides.
- User stream: exact replays, which the sequencer drops, events of status NEW, and the renewal of the
  listen key, whose failure closes the socket like any other (`Disconnect`).
- Records: attribution of fills to runs, profit and fees, events of other kinds
  than `ORDER_TRADE_UPDATE`, additions to a position and their fills.
- Guard: the write of a trailing-stop event that is cut by a cancellation; a lost row
  there changes nothing the pass reads.
- In modelled components: the universe task (it only refreshes the list of
  candidates); prompt building, event parsing and price tables; the moment in
  which the start lock passes from one waiting manual close to the next;
  provider failover lists and cooldown
  clocks; in the backtest partial closes, the re-entry cooldown, equity curve and
  statistics, loading of history and the comparison of several providers.

`PROJECT.json` lists every component with its status and every hazard with the
properties that would catch it.
