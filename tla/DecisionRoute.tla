---- MODULE DecisionRoute ----
(***************************************************************************)
(* One cadence of the scheduler asking the selected provider for the       *)
(* decisions of a batch of symbols, and what the engine does with them:    *)
(* up to three attempts with fresh inputs, one analysis row per symbol in  *)
(* the shadow mode, the audit of every attempt, and the orders.  The cycle *)
(* may be cancelled at any await, by its time budget and by a stop; the    *)
(* provider may be busy with the call of another job.                      *)
(***************************************************************************)
EXTENDS ProviderCalls, DecisionRules

CONSTANTS
  Batches,    \* the symbols of a cycle, in order
  Modes,      \* analysis_decision_mode: "off", "shadow"
  Readings,   \* charts the local strategy may see
  Advices,    \* analyses the model may return in the shadow mode
  Choices,    \* actions it may return otherwise
  MaxAttempts,  \* DECISION_PROVIDER_MAX_ATTEMPTS
  MaxCycles   \* bound: cycles in a behaviour

Cycle == "cycle"
Symbols == UNION {{b[i] : i \in DOMAIN b} : b \in Batches}

\* A cycle without symbols asks nobody.
ASSUME RouteAssumption ==
  /\ MaxAttempts \in Nat \ {0} /\ MaxCycles \in Nat
  /\ Cycle \in Callers
  /\ Batches \subseteq Seq(Symbols) \ {<<>>}

VARIABLES
  mode,       \* analysis_decision_mode of the run
  running,    \* engine.running
  stopping,   \* auto_stop_reason is set
  failures,   \* route_failure_count
  pc,         \* where the cycle stands
  leaving,    \* the cycle is cancelled and unwinds
  batch,      \* its symbols
  inputs,     \* which snapshots and portfolio of this cycle are at hand
  failed,     \* usage of the failed batches, in order
  result,     \* usage and actions of the answer, or NoResult
  index,      \* results that have been evaluated
  rows,       \* analysis rows of this attempt are open
  held,       \* side of the position, per symbol
  waiting,    \* waiting limit intents: "none", "formal", "shadow"
  cycles,     \* cycles so far
  ledger      \* history of this cycle: see NewLedger

routeVars == <<mode, running, stopping, failures, pc, leaving, batch, inputs, failed, result,
               index, rows, held, waiting, cycles, ledger>>
vars == <<callVars, routeVars>>

NoResult == [ok |-> FALSE, usage |-> 0, actions |-> <<>>]
\* Tokens the adapters handed over and tokens of the rows written; inputs of the
\* last call and inputs saved for replay; the stages a cancellation has hit;
\* whether the cycle has reached its end; shadow decisions that were traded.
NewLedger == [handed |-> 0, written |-> 0, asked |-> 0, replay |-> 0, cut |-> {},
              complete |-> FALSE, traded |-> ledger.traded]
At(stage) == pc = stage /\ ~leaving
Shadowed == mode = "shadow"

----------------------------------------------------------------------------
\* run_cycle up to evaluate_batch.

\* Once the threshold is reached a cycle only raises an error.
Begin(b) ==
  /\ running /\ pc = "idle" /\ ~stopping
  /\ failures < MaxAttempts
  /\ cycles < MaxCycles
  /\ cycles' = cycles + 1
  /\ batch' = b /\ inputs' = 1
  /\ ledger' = NewLedger
  /\ pc' = "attempt"
  /\ UNCHANGED <<callVars, mode, running, stopping, failures, leaving, failed, result, index, rows,
                 held, waiting>>

\* What a cycle leaves behind for nobody.
Forget == batch' = <<>> /\ inputs' = 0 /\ failed' = <<>> /\ result' = NoResult /\ index' = 0

\* The portfolio gets its entry context; the shadow mode creates and starts one
\* analysis row per symbol before it calls the provider.
Attempt ==
  /\ At("attempt")
  /\ IF Shadowed THEN pc' = "prepare" /\ rows' = TRUE /\ UNCHANGED call
     ELSE pc' = "call" /\ call' = [call EXCEPT ![Cycle] = "queued"] /\ UNCHANGED rows
  /\ ledger' = IF Shadowed THEN ledger ELSE [ledger EXCEPT !.asked = inputs]
  /\ UNCHANGED <<adapter, holder, live, twice, mode, running, stopping, failures, leaving, batch,
                 inputs, failed, result, index, held, waiting, cycles>>

Prepared ==
  /\ At("prepare")
  /\ pc' = "call"
  /\ Ask(Cycle)
  /\ ledger' = [ledger EXCEPT !.asked = inputs]
  /\ UNCHANGED <<mode, running, stopping, failures, leaving, batch, inputs, failed, result, index,
                 rows, held, waiting, cycles>>

StartCall(c) == Start(c) /\ UNCHANGED routeVars

----------------------------------------------------------------------------
\* The answer, or what stands in for it.

\* Actions of a good answer, symbol by symbol.
ActionsOf(choice) ==
  [i \in DOMAIN batch |->
     LET s == batch[i] IN
     IF adapter = "local" THEN LocalIntent(choice[i], held[s], waiting[s] # "none")
     ELSE IF Shadowed THEN AssistedIntent(choice[i], held[s])
     ELSE choice[i]]
PossibleChoices ==
  [DOMAIN batch -> IF adapter = "local" THEN Readings ELSE IF Shadowed THEN Advices ELSE Choices]

\* The attempt has its answer: the route is healthy again, or one failure nearer
\* to its limit (_provider_failure_batch) and, below it, sleeps 5 or 15 seconds.
Conclude(answer) ==
  IF answer.ok
  THEN pc' = "record" /\ failures' = 0 /\ UNCHANGED failed
  ELSE /\ failures' = failures + 1
       /\ failed' = Append(failed, answer.usage)
       /\ pc' = IF failures' < MaxAttempts THEN "sleep" ELSE "record"

\* After the call the shadow mode settles its rows first.
AfterCall(answer, actions) ==
  /\ result' = [ok |-> answer.ok, usage |-> answer.usage,
                actions |-> IF answer.ok THEN actions ELSE <<>>]
  /\ ledger' = [ledger EXCEPT !.handed = @ + answer.usage]
  /\ IF rows THEN pc' = "settle" /\ UNCHANGED <<failures, failed>> ELSE Conclude(answer)

CallReturns(end, tokens, choice) ==
  /\ At("call")
  /\ Return(Cycle)
  /\ AfterCall(IF Shadowed THEN Assisted(end, tokens) ELSE Intents(end, tokens, Len(batch)),
               ActionsOf(choice))
  /\ UNCHANGED <<mode, running, stopping, leaving, batch, inputs, index, rows, held, waiting, cycles>>

\* asyncio.timeout(provider.timeout) of the attempt.
CallTimesOut ==
  /\ At("call") /\ adapter # "local"
  /\ Interrupt(Cycle)
  /\ IF call'[Cycle] = "none" THEN AfterCall(Lost, <<>>)
     ELSE UNCHANGED <<pc, result, ledger, failures, failed>>
  /\ UNCHANGED <<mode, running, stopping, leaving, batch, inputs, index, rows, held, waiting, cycles>>

CallReaped ==
  /\ pc = "call"
  /\ Reap(Cycle)
  /\ IF leaving
     THEN pc' = (IF rows THEN "settle" ELSE "unwound") /\ UNCHANGED <<result, ledger, failures, failed>>
     ELSE AfterCall(Lost, <<>>)
  /\ UNCHANGED <<mode, running, stopping, leaving, batch, inputs, index, rows, held, waiting, cycles>>

\* repository.succeed, or fail: of an error, or of a cancellation.
Settle ==
  /\ pc = "settle"
  /\ rows' = FALSE
  /\ IF leaving THEN pc' = "unwound" /\ UNCHANGED <<failures, failed>> ELSE Conclude(result)
  /\ UNCHANGED <<callVars, mode, running, stopping, leaving, batch, inputs, result, index, held,
                 waiting, cycles, ledger>>

\* A row per symbol with its share of the tokens.
Spread(total) ==
  LET n == Len(batch)
      sums[i \in 0..n] == IF i = 0 THEN 0 ELSE sums[i - 1] + Share(total, n, i)
  IN sums[n]
SpreadAll(usages) ==
  LET sums[i \in 0..Len(usages)] == IF i = 0 THEN 0 ELSE sums[i - 1] + Spread(usages[i])
  IN sums[Len(usages)]

\* The inputs of a retry are read again; if that fails the failed attempts are
\* recorded and the cycle ends with an error.
Refresh ==
  /\ At("sleep")
  /\ \/ inputs' = inputs + 1 /\ pc' = "attempt" /\ UNCHANGED <<batch, failed, result, index, ledger>>
     \/ /\ pc' = "idle"
        /\ ledger' = [ledger EXCEPT !.written = @ + SpreadAll(failed), !.complete = TRUE]
        /\ Forget
  /\ UNCHANGED <<callVars, mode, running, stopping, failures, leaving, rows, held, waiting, cycles>>

\* _record_replay_inputs, after the loop; `result` is what the symbols get.
SaveRound(recorded, replayed) ==
  /\ ledger' = [ledger EXCEPT !.replay = replayed, !.written = @ + SpreadAll(recorded)]
  /\ result' = IF result.ok THEN result
               ELSE [ok |-> FALSE, usage |-> failed[Len(failed)],
                     actions |-> [i \in DOMAIN batch |-> Hold]]
  /\ failed' = <<>>
  /\ pc' = "verdict"
  /\ UNCHANGED <<callVars, mode, running, stopping, failures, leaving, batch, inputs, index, rows,
                 held, waiting, cycles>>

\* Mutants: the last failed batch is recorded here and again as the result; the
\* inputs the cycle began with are saved.
RecordAttemptsAll      == At("record") /\ SaveRound(failed, inputs)
RecordAttemptsOriginal ==
  At("record") /\ SaveRound(IF result.ok THEN failed ELSE SubSeq(failed, 1, Len(failed) - 1),
                            inputs - (IF result.ok THEN Len(failed) ELSE Len(failed) - 1))
\* The failed attempts are recorded, but for the last one if none succeeded: it
\* becomes the result, a HOLD for every symbol.  The inputs of the last attempt
\* are saved for a replay.
RecordAttempts ==
  At("record") /\ SaveRound(IF result.ok THEN failed ELSE SubSeq(failed, 1, Len(failed) - 1), inputs)

----------------------------------------------------------------------------
\* _evaluate_batch_result, symbol by symbol.

Blocked == stopping \/ ~running
Boundary == IF Shadowed THEN "shadow" ELSE "formal"
Opened(action) == IF action = "OPEN_LONG" THEN "LONG" ELSE "SHORT"
\* The risk policy lets an OPEN through on a free symbol, a CLOSE on a position.
Acceptable(s, action) ==
  IF action = "CLOSE" THEN held[s] # "NONE"
  ELSE action # Hold /\ held[s] = "NONE" /\ waiting[s] = "none"

\* Mutant: the boundary of the shadow mode is applied to waiting intents only.
ExecuteUnbounded(s, action, origin) ==
  /\ held' = [held EXCEPT ![s] = IF action = "CLOSE" THEN "NONE" ELSE Opened(action)]
  /\ ledger' = [ledger EXCEPT !.traded = @ \cup {origin}]
\* _is_order_execution_eligible: only a formal decision reaches the exchange.
Execute(s, action, origin) ==
  IF origin = "shadow" THEN UNCHANGED <<held, ledger>>
  ELSE /\ held' = [held EXCEPT ![s] = IF action = "CLOSE" THEN "NONE" ELSE Opened(action)]
       /\ ledger' = [ledger EXCEPT !.traded = @ \cup {origin}]

RecordResult ==
  /\ At("verdict") /\ index < Len(batch)
  /\ ledger' = [ledger EXCEPT !.written = @ + Share(result.usage, Len(batch), index + 1)]
  /\ pc' = "risk"
  /\ UNCHANGED <<callVars, mode, running, stopping, failures, leaving, batch, inputs, failed,
                 result, index, rows, held, waiting, cycles>>

\* Blocked, too old, refresh failed, refused by the policy, resting, executed.
Evaluate ==
  /\ At("risk")
  /\ index' = index + 1
  /\ pc' = "verdict"
  /\ LET s == batch[index + 1]  action == result.actions[index + 1] IN
       \/ UNCHANGED <<held, waiting, ledger>>
       \/ /\ ~Blocked /\ Acceptable(s, action) /\ action # "CLOSE"
          /\ waiting' = [waiting EXCEPT ![s] = Boundary]
          /\ UNCHANGED <<held, ledger>>
       \/ /\ ~Blocked /\ Acceptable(s, action)
          /\ Execute(s, action, Boundary)
          /\ UNCHANGED waiting
  /\ UNCHANGED <<callVars, mode, running, stopping, failures, leaving, batch, inputs, failed,
                 result, rows, cycles>>

\* evaluate_stop_reason at the end of the batch.
EndCycle ==
  /\ At("verdict") /\ index = Len(batch)
  /\ pc' = "idle"
  /\ Forget
  /\ stopping' = (stopping \/ failures >= MaxAttempts)
  /\ ledger' = [ledger EXCEPT !.complete = TRUE]
  /\ UNCHANGED <<callVars, mode, running, failures, leaving, rows, held, waiting, cycles>>

\* process_pending_entry of the guard: the intent keeps the boundary it was
\* saved with.
Recheck(s) ==
  /\ running /\ waiting[s] # "none"
  /\ pc = "idle" \/ \A i \in DOMAIN batch : batch[i] # s
  /\ waiting' = [waiting EXCEPT ![s] = "none"]
  /\ \/ UNCHANGED <<held, ledger>>
     \/ ~Blocked /\ held[s] = "NONE"
        /\ \E action \in {"OPEN_LONG", "OPEN_SHORT"} : Execute(s, action, waiting[s])
  /\ UNCHANGED <<callVars, mode, running, stopping, failures, pc, leaving, batch, inputs, failed,
                 result, index, rows, cycles>>

----------------------------------------------------------------------------
\* Cancellation and stops.

\* Mutant: the bridge does not settle its rows when it is cancelled in the call.
CancelPlain ==
  /\ pc # "idle" /\ pc # "unwound"
  /\ leaving' = TRUE
  /\ ledger' = [ledger EXCEPT !.cut = @ \cup {pc}]
  /\ IF pc = "call"
     THEN (Interrupt(Cycle) \/ Abandon(Cycle)) /\ pc' = IF call'[Cycle] = "none" THEN "unwound" ELSE pc
     ELSE UNCHANGED callVars /\ pc' = "unwound"
  /\ UNCHANGED <<mode, running, stopping, failures, batch, inputs, failed, result, index, rows,
                 held, waiting, cycles>>
\* The cadence budget or scheduler.stop() cancels the cycle where it stands.
\* The bridge settles its rows if the cancellation reaches it in the call.
Cancel ==
  /\ pc # "idle" /\ pc # "unwound"
  /\ leaving' = TRUE
  /\ ledger' = [ledger EXCEPT !.cut = @ \cup {pc}]
  /\ IF pc = "call"
     THEN /\ Interrupt(Cycle) \/ Abandon(Cycle)
          /\ pc' = IF call'[Cycle] # "none" THEN pc ELSE IF rows THEN "settle" ELSE "unwound"
     ELSE UNCHANGED callVars /\ pc' = "unwound"
  /\ UNCHANGED <<mode, running, stopping, failures, batch, inputs, failed, result, index, rows,
                 held, waiting, cycles>>

\* The task is gone; rows it left open stay so until fail_open at the next start
\* of the process.
Unwind ==
  /\ pc = "unwound"
  /\ pc' = "idle"
  /\ Forget
  /\ leaving' = FALSE
  /\ rows' = FALSE
  /\ UNCHANGED <<callVars, mode, running, stopping, failures, held, waiting, cycles, ledger>>

\* Mutant: the guard looks at the route only while a cycle is at work.
GuardPollInCycle ==
  /\ running /\ ~stopping /\ failures >= MaxAttempts /\ pc # "idle"
  /\ stopping' = TRUE
  /\ UNCHANGED <<callVars, mode, running, failures, pc, leaving, batch, inputs, failed, result,
                 index, rows, held, waiting, cycles, ledger>>
\* The guard's own evaluate_stop_reason, also after a cancelled cycle.
GuardPoll ==
  /\ running /\ ~stopping /\ failures >= MaxAttempts
  /\ stopping' = TRUE
  /\ UNCHANGED <<callVars, mode, running, failures, pc, leaving, batch, inputs, failed, result,
                 index, rows, held, waiting, cycles, ledger>>

\* A stop ends the run once the cycle is gone; its waiting intents are cancelled.
StopRun ==
  /\ running /\ pc = "idle"
  /\ running' = FALSE /\ stopping' = FALSE
  /\ waiting' = [s \in Symbols |-> "none"]
  /\ UNCHANGED <<callVars, mode, failures, pc, leaving, batch, inputs, failed, result, index, rows,
                 held, cycles, ledger>>

\* start(): a fresh route, perhaps in the other mode.
StartRun ==
  /\ ~running /\ pc = "idle"
  /\ running' = TRUE /\ stopping' = FALSE /\ failures' = 0
  /\ mode' \in (IF adapter = "local" THEN Modes \ {"shadow"} ELSE Modes)
  /\ UNCHANGED <<callVars, pc, leaving, batch, inputs, failed, result, index, rows, held,
                 waiting, cycles, ledger>>

\* The bracket or a human closes a position.
PositionEnds(s) ==
  /\ held[s] # "NONE" /\ pc = "idle"
  /\ held' = [held EXCEPT ![s] = "NONE"]
  /\ UNCHANGED <<callVars, mode, running, stopping, failures, pc, leaving, batch, inputs, failed,
                 result, index, rows, waiting, cycles, ledger>>

\* Another job of the process uses the provider.
OtherJob ==
  /\ \E c \in Callers \ {Cycle} :
       Ask(c) \/ Start(c) \/ Return(c) \/ Interrupt(c) \/ Reap(c) \/ Abandon(c)
  /\ UNCHANGED routeVars

Init ==
  /\ CallInit
  /\ mode \in (IF adapter = "local" THEN Modes \ {"shadow"} ELSE Modes)
  /\ running = TRUE /\ stopping = FALSE
  /\ failures = 0
  /\ pc = "idle" /\ leaving = FALSE
  /\ batch = <<>> /\ inputs = 0 /\ failed = <<>> /\ result = NoResult /\ index = 0
  /\ rows = FALSE
  /\ held = [s \in Symbols |-> "NONE"]
  /\ waiting = [s \in Symbols |-> "none"]
  /\ cycles = 0
  /\ ledger = [handed |-> 0, written |-> 0, asked |-> 0, replay |-> 0, cut |-> {},
               complete |-> FALSE, traded |-> {}]

CycleSteps ==
  \/ Attempt \/ Prepared \/ StartCall(Cycle)
  \/ \E end \in Ends, tokens \in Tokens, choice \in PossibleChoices : CallReturns(end, tokens, choice)
  \/ CallTimesOut \/ CallReaped \/ Settle
  \/ Refresh \/ RecordAttempts
  \/ RecordResult \/ Evaluate \/ EndCycle \/ Unwind

Next ==
  \/ \E b \in Batches : Begin(b)
  \/ CycleSteps \/ Cancel
  \/ \E s \in Symbols : Recheck(s) \/ PositionEnds(s)
  \/ GuardPoll \/ StopRun \/ StartRun
  \/ OtherJob \/ (Fade /\ UNCHANGED routeVars)

\* Awaits are answered, the guard polls, a requested stop is carried out.
Spec == /\ Init /\ [][Next]_vars
        /\ WF_vars(CycleSteps) /\ WF_vars(GuardPoll) /\ WF_vars(stopping /\ StopRun)
        /\ WF_vars(stopping /\ Cancel)

----------------------------------------------------------------------------
\* A cycle that was not cancelled has written, over the rows of all its
\* attempts, exactly the tokens its provider calls handed over, however they
\* divide among the symbols.
TokensRecorded == pc = "idle" /\ ledger.complete => ledger.written = ledger.handed

\* What is saved for replay is what the last provider call of the cycle was
\* asked with, also when the attempts before it failed on older inputs.
ReplayMatchesDecision == ledger.replay # 0 => ledger.replay = ledger.asked

\* No decision of the shadow mode reaches the exchange: not at once, not as a
\* resting limit intent, not after the next run has left the shadow mode.
ShadowNeverTrades == "shadow" \notin ledger.traded

\* The provider has one subprocess at a time, whoever calls it and whenever the
\* callers are cancelled, unless a call is cancelled a second time while its
\* process is still dying.
OneCallAtATime == live <= 1 \/ twice

\* Analysis rows are left open only by a cancellation that hits the bridge
\* before it calls the provider, or while it settles the rows.
RowsCloseUnlessCut ==
  rows /\ pc \notin {"prepare", "call", "settle"} =>
    pc = "unwound" /\ ledger.cut \cap {"prepare", "settle"} # {}

\* Three failed attempts in a row end the run, even if the cycle they happened
\* in is cancelled before it can say so.
ThresholdStops == running /\ failures >= MaxAttempts ~> ~running
====
