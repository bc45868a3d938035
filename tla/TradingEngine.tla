---- MODULE TradingEngine ----
(***************************************************************************)
(* The life of a live run: TradingEngine (start, stop, emergency_stop,     *)
(* clear_emergency_lock, _execute_order and the two paths that lead to     *)
(* it), TradingScheduler (cadence task, guard task, detached auto-stop     *)
(* task) and the API handlers that drive them.  One process runs them all  *)
(* as asyncio tasks, so a step here is what happens from one await to the  *)
(* next, and any task may run between two steps of another.                *)
(*                                                                         *)
(* An order is the business of ProtectedEntry; here it is what the engine  *)
(* sees of it: the entry reaches the exchange, the bracket follows, and    *)
(* execute_with_stop ends in one of Results.                               *)
(***************************************************************************)
EXTENDS Naturals, FiniteSets

CONSTANTS
  Symbols,
  Clients,        \* callers of the API, each with one request in flight
  Requests,       \* what they ask for: start, stop, kill, clear
  Kinds,          \* decisions: hold, market, limit (waits for its price)
  Results,        \* how execute_with_stop may end
  RescueLimit,    \* MAX_RESCUES_PER_RUN
  MaxRuns,        \* bound: live runs in the history of one database
  CycleTimeouts   \* whether a cycle may exceed its cadence budget

ASSUME ConstantAssumption ==
  /\ {"cadence", "guard", "reaper", "none"} \cap Clients = {}
  /\ Requests \subseteq {"start", "stop", "kill", "clear"}
  /\ Kinds \subseteq {"hold", "market", "limit"}
  /\ Results \subseteq {"SUCCEEDED", "FAILED", "RESCUED", "UNSAFE"}
  /\ RescueLimit \in Nat \ {0}
  /\ MaxRuns \in Nat
  /\ CycleTimeouts \in BOOLEAN

\* The scheduler's tasks, the detached task of request_auto_stop, the handlers.
Workers == {"cadence", "guard"}
Stoppers == {"reaper"} \cup Clients
Processes == Workers \cup Stoppers

VARIABLES
  \* TradingEngine
  engine,     \* running or stopped
  lock,       \* emergency_locked
  autoStop,   \* auto_stop_reason, set or not
  run,        \* live_run_id, 0 for None
  rescues,    \* rescue_count
  \* the database
  rows,       \* status of each live run
  pending,    \* per symbol, the run whose limit intent waits there, or 0
  saved,      \* the runtime_state row emergency_locked_until
  \* the exchange
  held,       \* per symbol: flat, naked (no stop) or covered
  \* the tasks
  pc,
  goal,       \* stop or kill, for a process that shuts the run down
  job,        \* what a worker is trading, see Jobs
  batch,      \* symbols locked by the cycle in progress
  todo,       \* those of them without an outcome yet
  flattened,  \* history: emergency_flatten succeeded, and no run began since
  overlap     \* history: a start or an unlock overlapped the last emergency stop

engineVars == <<engine, lock, autoStop, run, rescues>>
databaseVars == <<rows, pending, saved>>
taskVars == <<goal, job, batch, todo>>
historyVars == <<flattened, overlap>>
vars == <<engineVars, databaseVars, held, pc, taskVars, historyVars>>

Runs == 1..MaxRuns
Jobs == [symbol : Symbols \cup {"none"}, run : 0..MaxRuns, kind : Kinds \cup Results \cup {"none", "UNSAFE"}]
NoJob == [symbol |-> "none", run |-> 0, kind |-> "none"]

Shutdown == {"cancelTasks", "drop", "finish", "persist", "flatten"}
Trading == {"refreshing", "recording", "entering", "bracketing", "auditing"}
Restoring == {"restore", "expire", "unlock", "relock"}
Starting == Restoring \cup {"reconcile", "begin"}
Clearing == {"inspect", "clear", "delete"}
TaskLabels == {"off", "idle", "ended", "deciding", "assess"} \cup Trading \cup Shutdown
HandlerLabels == {"idle"} \cup Starting \cup Clearing \cup Shutdown

To(p, label) == pc' = [pc EXCEPT ![p] = label]

\* _order_submission_block_reason
Blocked == lock = "locked" \/ autoStop = "requested" \/ engine = "stopped"

\* Timing assumptions: the health checks of a start outlast the writes and the
\* flatten of a shutdown in progress, and an emergency flatten ends before the
\* next UTC midnight.
Nobody(labels) == \A p \in Processes : pc[p] \notin labels

----------------------------------------------------------------------------
\* A worker's order.

\* The cycle goes on with its next symbol, the guard with its next poll.
NextJob(w, label) ==
  /\ job' = [job EXCEPT ![w] = NoJob]
  /\ IF w = "cadence" THEN todo' = todo \ {job[w].symbol} ELSE UNCHANGED todo
  /\ To(w, label)

Resting(w) == IF w = "cadence" THEN "assess" ELSE "idle"

\* After the refresh: the risk policy accepts an opening order only on a flat
\* symbol without another waiting intent; it may always refuse.
Judge(w) ==
  /\ pc[w] = "refreshing"
  /\ \/ \E kind \in IF w = "guard" THEN Kinds \ {"hold"} ELSE {job[w].kind} :
          LET s == job[w].symbol IN
          /\ held[s] = "flat"
          /\ w = "cadence" => pending[s] = 0 /\ ~Blocked
          /\ job' = [job EXCEPT ![w].kind = kind]
          /\ To(w, "recording")
          /\ UNCHANGED todo
     \/ /\ w = "cadence"
        /\ NextJob(w, "assess")
     \/ /\ w = "guard"
        /\ job' = [job EXCEPT ![w].kind = "none"]
        /\ To(w, "recording")
        /\ UNCHANGED todo
  /\ UNCHANGED <<engineVars, databaseVars, held, goal, batch, historyVars>>

\* record_risk or update_risk; then the last check before the broker.
Record(w) ==
  LET j == job[w] IN
  /\ pc[w] = "recording"
  /\ pending' = [pending EXCEPT ![j.symbol] = IF j.kind = "limit" THEN j.run ELSE 0]
  /\ IF j.kind = "market" /\ ~Blocked
     THEN To(w, "entering") /\ UNCHANGED <<job, todo>>
     ELSE NextJob(w, Resting(w))
  /\ UNCHANGED <<engineVars, rows, saved, held, goal, batch, historyVars>>

\* The entry is executed, refused, or left in an unknown state.
Enter(w) ==
  LET s == job[w].symbol IN
  /\ pc[w] = "entering"
  /\ \/ /\ held' = [held EXCEPT ![s] = "naked"]
        /\ To(w, "bracketing")
        /\ UNCHANGED job
     \/ /\ "FAILED" \in Results
        /\ job' = [job EXCEPT ![w].kind = "FAILED"]
        /\ To(w, "auditing")
        /\ UNCHANGED held
     \/ /\ "UNSAFE" \in Results
        /\ held' \in {held, [held EXCEPT ![s] = "naked"]}
        /\ job' = [job EXCEPT ![w].kind = "UNSAFE"]
        /\ To(w, "auditing")
  /\ UNCHANGED <<engineVars, databaseVars, goal, batch, todo, historyVars>>

\* What an order may leave, by its result: UNSAFE stands for every result that
\* requires the emergency lock.
Leaves(result) ==
  CASE result = "SUCCEEDED" -> {"covered"}
    [] result = "RESCUED" -> {"flat"}
    [] OTHER -> {"flat", "naked"}

\* The bracket is in place, or the entry is undone, or neither; on a symbol
\* somebody else has closed, both the bracket and the rescue are refused.
Bracket(w) ==
  LET s == job[w].symbol IN
  /\ pc[w] = "bracketing"
  /\ \E result \in (Results \ {"FAILED"}) \cup {"UNSAFE"} :
       /\ result \in Results \/ held[s] = "flat"
       /\ \E status \in Leaves(result) :
            /\ held[s] = "flat" => result = "UNSAFE" /\ status = "flat"
            /\ held' = [held EXCEPT ![s] = status]
       /\ job' = [job EXCEPT ![w].kind = result]
  /\ To(w, "auditing")
  /\ UNCHANGED <<engineVars, databaseVars, goal, batch, todo, historyVars>>

\* The attempt is on record; what must not go on calls emergency_stop.  Rescues
\* count up to the limit they are compared with.
Audit(w) ==
  /\ pc[w] = "auditing"
  /\ job[w].kind # "UNSAFE"
  /\ rescues' = IF job[w].kind = "RESCUED" /\ rescues < RescueLimit THEN rescues + 1 ELSE rescues
  /\ NextJob(w, Resting(w))
  /\ UNCHANGED <<engine, lock, autoStop, run, databaseVars, held, goal, batch, historyVars>>

\* A start or an unlock is about to free the lock in memory on what it has read,
\* or reads while an emergency stop has yet to write its row.
Overlap(happens) == overlap' = IF happens THEN "yes" ELSE overlap
FreeingLock == \E c \in Clients : pc[c] \in {"expire", "unlock", "clear"}
WritingLock == \E p \in Processes : pc[p] = "persist"

\* emergency_locked = True, if there is an emergency.
LockIf(emergency) ==
  /\ lock' = IF emergency THEN "locked" ELSE lock
  /\ overlap' = IF ~emergency THEN overlap ELSE IF FreeingLock THEN "yes" ELSE "no"

\* emergency_stop before its first await, see also Finish.
Lock(p) ==
  /\ engine' = "stopped"
  /\ LockIf(TRUE)
  /\ To(p, "persist")

AuditUnsafe(w) ==
  /\ pc[w] = "auditing"
  /\ job[w].kind = "UNSAFE"
  /\ goal' = [goal EXCEPT ![w] = "kill"]
  /\ IF engine = "running"
     THEN To(w, "drop") /\ UNCHANGED <<engine, lock, overlap>>
     ELSE Lock(w)
  /\ UNCHANGED <<autoStop, run, rescues, databaseVars, held, job, batch, todo, flattened>>

----------------------------------------------------------------------------
\* The cadence task.

\* run_cycle: the symbol locks are taken for the whole cycle.
BeginCycle ==
  /\ pc["cadence"] = "idle"
  /\ engine = "running"
  /\ autoStop = "none"
  /\ batch' \in SUBSET Symbols \ {{}}
  /\ job["guard"].symbol \notin batch'
  /\ todo' = batch'
  /\ To("cadence", "deciding")
  /\ UNCHANGED <<engineVars, databaseVars, held, goal, job, historyVars>>

\* The provider has answered for the whole batch, or the cycle fails.
Decide ==
  /\ pc["cadence"] = "deciding"
  /\ \/ To("cadence", "assess") /\ UNCHANGED <<batch, todo>>
     \/ To("cadence", "idle") /\ batch' = {} /\ todo' = {}
  /\ UNCHANGED <<engineVars, databaseVars, held, goal, job, historyVars>>

\* _evaluate_batch_result: HOLD ends here, and so does what is blocked.
Assess(s) ==
  /\ pc["cadence"] = "assess"
  /\ s \in todo
  /\ \E kind \in Kinds :
       IF kind = "hold" \/ Blocked
       THEN todo' = todo \ {s} /\ UNCHANGED <<pc, job>>
       ELSE /\ job' = [job EXCEPT !["cadence"] = [symbol |-> s, run |-> run, kind |-> kind]]
            /\ To("cadence", "refreshing")
            /\ UNCHANGED todo
  /\ UNCHANGED <<engineVars, databaseVars, held, goal, batch, historyVars>>

\* Mutant for AutoStopEnds: the reason is set, the detached task is not created.
RequestReasonOnly(g, worker, label) ==
  IF pc["reaper"] = "idle"
  THEN /\ autoStop' = "requested"
       /\ goal' = [goal EXCEPT !["reaper"] = g]
       /\ To(worker, label)
  ELSE To(worker, label) /\ UNCHANGED <<autoStop, goal>>

\* request_auto_stop and request_emergency_stop: dropped while one is active.
RequestStop(g, worker, label) ==
  IF pc["reaper"] = "idle"
  THEN /\ autoStop' = "requested"
       /\ goal' = [goal EXCEPT !["reaper"] = g]
       /\ pc' = [pc EXCEPT ![worker] = label, !["reaper"] = "cancelTasks"]
  ELSE To(worker, label) /\ UNCHANGED <<autoStop, goal>>

\* evaluate_stop_reason: the rescues are used up, or a limit of the run may be
\* reached at any time.
EndCycle ==
  /\ pc["cadence"] = "assess"
  /\ todo = {}
  /\ batch' = {}
  /\ \/ engine = "running" /\ RequestStop("stop", "cadence", "idle")
     \/ /\ engine = "running" => rescues < RescueLimit
        /\ To("cadence", "idle")
        /\ UNCHANGED <<autoStop, goal>>
  /\ UNCHANGED <<engine, lock, run, rescues, databaseVars, held, job, todo, historyVars>>

----------------------------------------------------------------------------
\* The guard task.

\* process_pending_entry: a blocked or expired intent is cancelled.
DropIntent(s) ==
  /\ pc["guard"] = "idle"
  /\ engine = "running" /\ autoStop = "none"
  /\ pending[s] = run /\ s \notin batch
  /\ pending' = [pending EXCEPT ![s] = 0]
  /\ UNCHANGED <<engineVars, rows, saved, held, pc, taskVars, historyVars>>

Recheck(s) ==
  /\ pc["guard"] = "idle"
  /\ engine = "running" /\ autoStop = "none"
  /\ pending[s] = run /\ s \notin batch
  /\ ~Blocked
  /\ job' = [job EXCEPT !["guard"] = [symbol |-> s, run |-> run, kind |-> "none"]]
  /\ To("guard", "refreshing")
  /\ UNCHANGED <<engineVars, databaseVars, held, goal, batch, todo, historyVars>>

\* evaluate_stop_reason in the guard, which polls no more.
GuardStops ==
  /\ pc["guard"] = "idle"
  /\ engine = "running"
  /\ RequestStop("stop", "guard", "ended")
  /\ UNCHANGED <<engine, lock, run, rescues, databaseVars, held, job, batch, todo, historyVars>>

\* The user stream died, or a trailing replacement lost a stop.
GuardEscalates ==
  /\ pc["guard"] = "idle"
  /\ engine = "running"
  /\ held' \in {held} \cup {[held EXCEPT ![s] = "naked"] : s \in {x \in Symbols \ batch : held[x] = "covered"}}
  /\ RequestStop("kill", "guard", "ended")
  /\ UNCHANGED <<engine, lock, run, rescues, databaseVars, job, batch, todo, historyVars>>

----------------------------------------------------------------------------
\* scheduler.stop, engine.stop and engine.emergency_stop.

\* A cancelled order request may have reached the exchange.
Orphans(workers) ==
  LET sent == {job[w].symbol : w \in {v \in workers : pc[v] = "entering"}} IN
  held' \in {[s \in Symbols |-> IF s \in lost THEN "naked" ELSE held[s]] : lost \in SUBSET sent}

\* Mutant for StoppedIsQuiet: the guard is not among the tasks of scheduler.stop.
CancelCadences(p) ==
  /\ pc[p] = "cancelTasks"
  /\ Orphans({"cadence"})
  /\ job' = [job EXCEPT !["cadence"] = NoJob]
  /\ batch' = {} /\ todo' = {}
  /\ pc' = [q \in Processes |->
              IF q = "cadence" THEN "off"
              ELSE IF q # p THEN pc[q]
              ELSE IF engine = "running" THEN "drop"
              ELSE IF goal[p] = "kill" THEN "persist" ELSE "idle"]
  /\ LockIf(engine = "stopped" /\ goal[p] = "kill")
  /\ UNCHANGED <<engine, autoStop, run, rescues, databaseVars, goal, flattened>>

\* Mutant for FlattenSticks: an order in flight is neither cancelled nor awaited.
CancelIdle(p) ==
  LET idle == {w \in Workers : pc[w] \notin {"entering", "bracketing"}} IN
  /\ pc[p] = "cancelTasks"
  /\ job' = [w \in Workers |-> IF w \in idle THEN NoJob ELSE job[w]]
  /\ UNCHANGED <<batch, todo, held>>
  /\ pc' = [q \in Processes |->
              IF q \in idle THEN "off"
              ELSE IF q # p THEN pc[q]
              ELSE IF engine = "running" THEN "drop"
              ELSE IF goal[p] = "kill" THEN "persist" ELSE "idle"]
  /\ LockIf(engine = "stopped" /\ goal[p] = "kill")
  /\ UNCHANGED <<engine, autoStop, run, rescues, databaseVars, goal, flattened>>

\* The tasks are cancelled and awaited; if there is no run to end, a kill
\* locks at once.
CancelTasks(p) ==
  /\ pc[p] = "cancelTasks"
  /\ Orphans(Workers)
  /\ job' = [w \in Workers |-> NoJob]
  /\ batch' = {} /\ todo' = {}
  /\ pc' = [q \in Processes |->
              IF q \in Workers THEN "off"
              ELSE IF q # p THEN pc[q]
              ELSE IF engine = "running" THEN "drop"
              ELSE IF goal[p] = "kill" THEN "persist" ELSE "idle"]
  /\ LockIf(engine = "stopped" /\ goal[p] = "kill")
  /\ UNCHANGED <<engine, autoStop, run, rescues, databaseVars, goal, flattened>>

\* Mutant for NoStrayIntents: an emergency stop leaves the intents waiting.
DropUnlessKill(p) ==
  /\ pc[p] = "drop"
  /\ pending' = [s \in Symbols |-> IF pending[s] = run /\ goal[p] = "stop" THEN 0 ELSE pending[s]]
  /\ To(p, "finish")
  /\ UNCHANGED <<engineVars, rows, saved, held, taskVars, historyVars>>

\* cancel_pending_entries of the current run.
Drop(p) ==
  /\ pc[p] = "drop"
  /\ pending' = [s \in Symbols |-> IF pending[s] = run THEN 0 ELSE pending[s]]
  /\ To(p, "finish")
  /\ UNCHANGED <<engineVars, rows, saved, held, goal, job, batch, todo, historyVars>>

RowStatus(p) ==
  IF goal[p] = "kill" THEN "emergency_stopped"
  ELSE IF autoStop = "requested" THEN "auto_stopped" ELSE "stopped"

\* finish_live_run touches an open row only.
Finish(p) ==
  /\ pc[p] = "finish"
  /\ rows' = [r \in Runs |-> IF r = run /\ rows[r] = "open" THEN RowStatus(p) ELSE rows[r]]
  /\ IF goal[p] = "kill"
     THEN Lock(p)
     ELSE engine' = "stopped" /\ To(p, "idle") /\ UNCHANGED <<lock, overlap>>
  /\ UNCHANGED <<autoStop, run, rescues, pending, saved, held, taskVars, flattened>>

Persist(p) ==
  /\ pc[p] = "persist"
  /\ saved' = "active"
  /\ To(p, "flatten")
  /\ UNCHANGED <<engineVars, rows, pending, held, taskVars, historyVars>>

\* emergency_flatten closes everything, or raises EmergencyFlattenError, which
\* ends a cycle.
Flatten(p) ==
  /\ pc[p] = "flatten"
  /\ \/ /\ held' = [s \in Symbols |-> "flat"]
        /\ flattened' = IF engine = "stopped" THEN "yes" ELSE flattened
        /\ IF p \in Workers THEN NextJob(p, Resting(p)) /\ UNCHANGED batch
           ELSE To(p, "idle") /\ UNCHANGED <<job, batch, todo>>
     \/ /\ held' \in {[s \in Symbols |-> IF s \in closed THEN "flat" ELSE held[s]] : closed \in SUBSET Symbols}
        /\ To(p, "idle")
        /\ job' = IF p \in Workers THEN [job EXCEPT ![p] = NoJob] ELSE job
        /\ IF p = "cadence" THEN batch' = {} /\ todo' = {} ELSE UNCHANGED <<batch, todo>>
        /\ UNCHANGED flattened
  /\ UNCHANGED <<engineVars, databaseVars, goal, overlap>>

----------------------------------------------------------------------------
\* API handlers.

\* stop and emergency-stop take no lock and check nothing.
AskShutdown(c, g) ==
  /\ pc[c] = "idle"
  /\ g \in Requests
  /\ goal' = [goal EXCEPT ![c] = g]
  /\ To(c, "cancelTasks")
  /\ UNCHANGED <<engineVars, databaseVars, held, job, batch, todo, historyVars>>

\* engine_start_lock serialises starts; whoever waits for the same tasks as a
\* stop that has been answered has been resumed.
AskStart(c) ==
  /\ "start" \in Requests
  /\ pc[c] = "idle"
  /\ engine = "stopped"
  /\ Nobody(Starting \cup {"cancelTasks"})
  /\ To(c, "restore")
  /\ UNCHANGED <<engineVars, databaseVars, held, taskVars, historyVars>>

\* restore_runtime_state reads the row, and acts on what it has read later: the
\* requests of the database have connections of their own.
ReadLock(c) ==
  /\ pc[c] = "restore"
  /\ To(c, CASE saved = "none" -> "unlock" [] saved = "expired" -> "expire" [] OTHER -> "relock")
  /\ Overlap(WritingLock)
  /\ UNCHANGED <<engineVars, databaseVars, held, taskVars, flattened>>

\* The row that was read as expired is deleted, whatever it holds by now.
DropExpired(c) ==
  /\ pc[c] = "expire"
  /\ saved' = "none"
  /\ To(c, "unlock")
  /\ UNCHANGED <<engineVars, rows, pending, held, taskVars, historyVars>>

Unlock(c) ==
  /\ pc[c] = "unlock"
  /\ lock' = "free"
  /\ To(c, "reconcile")
  /\ UNCHANGED <<engine, autoStop, run, rescues, databaseVars, held, taskVars, historyVars>>

\* A locked engine refuses the start.
Relock(c) ==
  /\ pc[c] = "relock"
  /\ lock' = "locked"
  /\ To(c, "idle")
  /\ UNCHANGED <<engine, autoStop, run, rescues, databaseVars, held, taskVars, historyVars>>

Restore(c) == ReadLock(c) \/ DropExpired(c) \/ Unlock(c) \/ Relock(c)

\* Mutant for NoTradingOverNaked: the start ignores unprotected positions.
ReconcileBlindly(c) ==
  /\ pc[c] = "reconcile"
  /\ pending' = [s \in Symbols |-> 0]
  /\ To(c, "begin") \/ To(c, "idle")
  /\ UNCHANGED <<engineVars, rows, saved, held, taskVars, historyVars>>

\* Waiting intents of any run are cancelled; an unprotected position or a
\* failed health check refuses the start.
Reconcile(c) ==
  /\ pc[c] = "reconcile"
  /\ pending' = [s \in Symbols |-> 0]
  /\ \/ (\A s \in Symbols : held[s] # "naked") /\ To(c, "begin")
     \/ To(c, "idle")
  /\ UNCHANGED <<engineVars, rows, saved, held, taskVars, historyVars>>

NewRun == 1 + Cardinality({r \in Runs : rows[r] # "none"})

\* create_live_run, running = True, scheduler.start.
BeginRun(c) ==
  /\ pc[c] = "begin"
  /\ Nobody(Shutdown \ {"cancelTasks"})
  /\ IF NewRun \in Runs
     THEN /\ run' = NewRun
          /\ rows' = [rows EXCEPT ![NewRun] = "open"]
          /\ rescues' = 0
          /\ autoStop' = "none"
          /\ engine' = "running"
          /\ flattened' = "no" /\ UNCHANGED overlap
          /\ pc' = [q \in Processes |->
                      IF q = c \/ (q \in Workers /\ pc["cadence"] = "off") THEN "idle" ELSE pc[q]]
     ELSE /\ To(c, "idle")
          /\ UNCHANGED <<engine, run, rows, rescues, autoStop, historyVars>>
  /\ UNCHANGED <<lock, pending, saved, held, taskVars>>

AskClear(c) ==
  /\ "clear" \in Requests
  /\ pc[c] = "idle"
  /\ engine = "stopped"
  /\ To(c, "inspect")
  /\ UNCHANGED <<engineVars, databaseVars, held, taskVars, historyVars>>

\* clear_emergency_lock reads the account, and goes on if it is empty.
Inspect(c) ==
  /\ pc[c] = "inspect"
  /\ To(c, IF \A s \in Symbols : held[s] = "flat" THEN "clear" ELSE "idle")
  /\ Overlap(WritingLock)
  /\ UNCHANGED <<engineVars, databaseVars, held, taskVars, flattened>>

\* The lock is lifted in memory first.
Lift(c) ==
  /\ pc[c] = "clear"
  /\ lock' = "free"
  /\ To(c, "delete")
  /\ UNCHANGED <<engine, autoStop, run, rescues, databaseVars, held, taskVars, historyVars>>

\* Mutant for LockIsEffective: the persisted lock stays when the lock is cleared.
KeepRow(c) ==
  /\ pc[c] = "delete"
  /\ To(c, "idle")
  /\ UNCHANGED <<engineVars, databaseVars, held, taskVars, historyVars>>

DeleteLock(c) ==
  /\ pc[c] = "delete"
  /\ saved' = "none"
  /\ To(c, "idle")
  /\ UNCHANGED <<engineVars, rows, pending, held, taskVars, historyVars>>

Clear(c) == Inspect(c) \/ Lift(c) \/ DeleteLock(c)

----------------------------------------------------------------------------
\* The environment.

\* asyncio.timeout cancels a cycle that exceeds its budget.
CycleTimesOut ==
  /\ CycleTimeouts
  /\ pc["cadence"] \notin {"off", "idle"}
  /\ Orphans({"cadence"})
  /\ job' = [job EXCEPT !["cadence"] = NoJob]
  /\ batch' = {} /\ todo' = {}
  /\ To("cadence", "idle")
  /\ UNCHANGED <<engineVars, databaseVars, goal, historyVars>>

\* The process dies; the next one interrupts the open run, cancels what waits
\* and restores the lock before it serves requests.
CrashAndRestart ==
  /\ Orphans(Workers)
  /\ engine' = "stopped" /\ autoStop' = "none" /\ run' = 0 /\ rescues' = 0
  /\ lock' = IF saved = "active" THEN "locked" ELSE "free"
  /\ saved' = IF saved = "expired" THEN "none" ELSE saved
  /\ overlap' = "no"
  /\ rows' = [r \in Runs |-> IF rows[r] = "open" THEN "interrupted" ELSE rows[r]]
  /\ pending' = [s \in Symbols |-> 0]
  /\ pc' = [p \in Processes |-> IF p \in Workers THEN "off" ELSE "idle"]
  /\ goal' = [p \in Processes |-> "stop"]
  /\ job' = [w \in Workers |-> NoJob] /\ batch' = {} /\ todo' = {}
  /\ UNCHANGED flattened

\* The next UTC midnight passes.
DayTurns ==
  /\ saved = "active"
  /\ Nobody({"flatten"})
  /\ saved' = "expired"
  /\ UNCHANGED <<engineVars, rows, pending, held, pc, taskVars, historyVars>>

\* A protective order closes its position.
BracketFires(s) ==
  /\ held[s] = "covered"
  /\ held' = [held EXCEPT ![s] = "flat"]
  /\ UNCHANGED <<engineVars, databaseVars, pc, taskVars, historyVars>>

\* Manual closes wait for the start lock and need a stopped engine.
ManualClose(s) ==
  /\ engine = "stopped"
  /\ Nobody(Starting)
  /\ held[s] # "flat"
  /\ held' = [held EXCEPT ![s] = "flat"]
  /\ UNCHANGED <<engineVars, databaseVars, pc, taskVars, historyVars>>

----------------------------------------------------------------------------

Init ==
  /\ engine = "stopped" /\ lock = "free" /\ autoStop = "none"
  /\ run = 0 /\ rescues = 0
  /\ rows = [r \in Runs |-> "none"]
  /\ pending = [s \in Symbols |-> 0]
  /\ saved = "none"
  /\ held = [s \in Symbols |-> "flat"]
  /\ pc = [p \in Processes |-> IF p \in Workers THEN "off" ELSE "idle"]
  /\ goal = [p \in Processes |-> "stop"]
  /\ job = [w \in Workers |-> NoJob]
  /\ batch = {} /\ todo = {}
  /\ flattened = "no" /\ overlap = "no"

Trade(w) == Judge(w) \/ Record(w) \/ Enter(w) \/ Bracket(w) \/ Audit(w) \/ AuditUnsafe(w)

EndRun(p) == CancelTasks(p) \/ Drop(p) \/ Finish(p) \/ Persist(p) \/ Flatten(p)

Cycle == BeginCycle \/ Decide \/ (\E s \in Symbols : Assess(s)) \/ EndCycle

Guard == (\E s \in Symbols : DropIntent(s) \/ Recheck(s)) \/ GuardStops \/ GuardEscalates

Handle(c) == Restore(c) \/ Reconcile(c) \/ BeginRun(c) \/ Clear(c)

Ask(c) == AskShutdown(c, "stop") \/ AskShutdown(c, "kill") \/ AskStart(c) \/ AskClear(c)

Environment ==
  \/ CycleTimesOut \/ CrashAndRestart \/ DayTurns
  \/ \E s \in Symbols : BracketFires(s) \/ ManualClose(s)

Next ==
  \/ \E w \in Workers : Trade(w)
  \/ \E p \in Processes : EndRun(p)
  \/ Cycle
  \/ Guard
  \/ \E c \in Clients : Handle(c) \/ Ask(c)
  \/ Environment

\* asyncio resumes every task whose await has completed, and awaits complete.
Fairness ==
  /\ \A w \in Workers : WF_vars(Trade(w))
  /\ \A p \in Processes : WF_vars(EndRun(p))
  /\ \A c \in Clients : WF_vars(Handle(c))

Spec == Init /\ [][Next]_vars /\ Fairness

----------------------------------------------------------------------------
\* Properties.

TypeOK ==
  /\ engine \in {"stopped", "running"} /\ lock \in {"free", "locked"}
  /\ autoStop \in {"none", "requested"}
  /\ run \in 0..MaxRuns /\ rescues \in 0..RescueLimit
  /\ rows \in [Runs -> {"none", "open", "stopped", "auto_stopped", "emergency_stopped", "interrupted"}]
  /\ pending \in [Symbols -> 0..MaxRuns]
  /\ saved \in {"none", "active", "expired"}
  /\ held \in [Symbols -> {"flat", "naked", "covered"}]
  /\ pc \in [Processes -> TaskLabels \cup HandlerLabels]
  /\ \A w \in Workers : pc[w] \in TaskLabels
  /\ \A p \in Stoppers : pc[p] \in HandlerLabels
  /\ goal \in [Processes -> {"stop", "kill"}]
  /\ job \in [Workers -> Jobs]
  /\ batch \subseteq Symbols /\ todo \subseteq batch
  /\ flattened \in {"no", "yes"} /\ overlap \in {"no", "yes"}

ShuttingDown == \E p \in Processes : pc[p] \in Shutdown

\* Once a stop has been answered no task is still placing an order, so that no
\* position opens, or opens without its bracket, behind the operator's back.
StoppedIsQuiet ==
  engine = "stopped" /\ ~ShuttingDown
    => \A w \in Workers : pc[w] \notin {"entering", "bracketing"}

\* Ending a run, however it ends, cancels its waiting limit intents: none can
\* trigger in a later run.
NoStrayIntents ==
  engine = "stopped" /\ ~ShuttingDown => \A s \in Symbols : pending[s] = 0

\* The database has an open live run exactly while that run is running.
OneOpenRow == \A r \in Runs : rows[r] = "open" <=> engine = "running" /\ run = r

\* While a persisted lock has not expired it is in force, over restarts, days,
\* refused and repeated starts, and requests to lift it, except while one that
\* was granted is about to delete it, and unless a start or such a request had
\* read the old state when the emergency stop locked or wrote its row.
LockIsEffective ==
  saved = "active" /\ overlap = "no" => lock = "locked" \/ \E c \in Clients : pc[c] = "delete"

\* After a successful emergency flatten the account stays flat until the next
\* run: no order that was on its way arrives late.
FlattenSticks == flattened = "yes" => \A s \in Symbols : held[s] = "flat"

\* A run never goes on over a position without a stop: its order is still
\* being finished, or the run is being shut down.
NoTradingOverNaked ==
  engine = "running" /\ ~ShuttingDown =>
    \A s \in Symbols : held[s] = "naked" =>
      \E w \in Workers : job[w].symbol = s /\ pc[w] \in {"bracketing", "auditing"}

\* A requested automatic stop ends the run.
AutoStopEnds == autoStop = "requested" ~> engine = "stopped"
====
