---- MODULE GuardTick ----
(***************************************************************************)
(* The guard pass of the scheduler over one position: the trailing stop,   *)
(* then the partial take profit experiment, between whatever the exchange  *)
(* and the engine do, with stops of the engine and crashes of the process  *)
(* in the middle of a pass.                                                *)
(***************************************************************************)
EXTENDS TrailingStop, PartialTakeProfit

vars == <<venueVars, passVars, trailingVars, partialVars>>

Init == VenueInit /\ TrailingInit /\ PartialInit

\* A new average price differs from the ones remembered or saved: two
\* positions in a row with the same average to the last digit are outside
\* the model.
Unremembered(side, price) ==
  \A held \in {state, saved.state, book, bookSaved} :
    ~(held.side = side /\ held.entry = price)

EngineOrders ==
  /\ \/ \E side \in Sides, entry \in Entries :
          Unremembered(side, entry) /\ Open(side, entry)
     \/ \E entry \in Prices, trigger \in Prices \cup {stop} :
          Unremembered(position.side, entry) /\ Add(entry, trigger)
  /\ fills' = NoFills
  /\ UNCHANGED <<mode, state, loaded, saved, dirty, todo, candidate, previous,
                 partialVars>>

ExchangeMoves ==
  /\ (\E price \in Prices : MoveMark(price)) \/ Close
  /\ UNCHANGED <<trailingVars, partialVars>>

GuardReads ==
  /\ BeginPass \/ ReadAccount \/ ReadLevels \/ ReadFails
  /\ UNCHANGED <<trailingVars, partialVars>>

Trailing == TrailingNext /\ UNCHANGED partialVars
Partial  == PartialNext /\ UNCHANGED trailingVars

\* What the request or transaction in flight may still do after the task that
\* waits for it is gone.
InFlight ==
  \/ UNCHANGED <<stop, truth, saved, bookSaved>>
  \/ pc = "remove" /\ stop' = NoPrice /\ UNCHANGED <<truth, saved, bookSaved>>
  \/ pc = "install" /\ Accepted(candidate) /\ Placed(candidate) /\ UNCHANGED <<saved, bookSaved>>
  \/ pc = "restore" /\ Accepted(previous) /\ Placed(previous) /\ UNCHANGED <<saved, bookSaved>>
  \/ pc = "save" /\ saved' = [mode |-> mode, state |-> state]
     /\ UNCHANGED <<stop, truth, bookSaved>>

\* What one pass leaves behind for nobody.
ForgetPass ==
  /\ pc' = "idle"
  /\ seen' = Unread /\ have' = {}
  /\ dirty' = FALSE /\ todo' = <<>> /\ candidate' = NoPrice /\ previous' = NoPrice
  /\ bookDirty' = FALSE /\ left' = <<>>

\* The guard goes to sleep.
EndPass ==
  /\ pc = "done"
  /\ ForgetPass
  /\ UNCHANGED <<venueVars, running, mode, state, loaded, saved, fills,
                 experiment, bookSaved, mishaps>>

\* scheduler.stop(): the guard is cancelled at its await; positions stay.
StopEngine ==
  /\ "stop" \in Faults /\ mishaps < MaxMishaps
  /\ running
  /\ mishaps' = mishaps + 1
  /\ running' = FALSE
  /\ ForgetPass
  /\ InFlight
  /\ CutRecord \/ UNCHANGED experiment
  /\ UNCHANGED <<position, mark, openings, mode, state, loaded, fills>>

\* The process dies and is started again, perhaps with another mode.
Crash ==
  /\ "crash" \in Faults /\ mishaps < MaxMishaps
  /\ mishaps' = mishaps + 1
  /\ running' = FALSE
  /\ ForgetPass
  /\ mode' \in Modes
  /\ state' = NoState /\ loaded' = FALSE
  /\ book' = NoBook /\ bookLoaded' = FALSE
  /\ fills' = NoFills
  /\ InFlight
  /\ UNCHANGED <<position, mark, openings, sold, lost>>

\* engine.start: reconcile_account refuses a position without a stop.
StartEngine ==
  /\ ~running
  /\ position # Flat => stop # NoPrice
  /\ running' = TRUE
  /\ UNCHANGED <<venueVars, pc, seen, have, trailingVars, partialVars>>

\* TrailingStopCriticalError: request_emergency_stop ends the run and flattens
\* the account (TradingEngine).
Escalate ==
  /\ pc = "escalate"
  /\ ForgetPass
  /\ running' = FALSE
  /\ position' = Flat /\ stop' = NoPrice
  /\ truth' = [risk |-> 0, peak |-> NoPrice, tightest |-> NoPrice]
  /\ UNCHANGED <<mark, openings, mode, state, loaded, saved, fills, experiment,
                 bookSaved, mishaps>>

Next ==
  \/ EngineOrders \/ ExchangeMoves
  \/ GuardReads \/ Trailing \/ Partial \/ EndPass
  \/ StopEngine \/ Crash \/ StartEngine \/ Escalate

\* The guard task goes on: each of its requests is answered.
Pass == GuardReads \/ Trailing \/ Partial \/ EndPass \/ Escalate
Spec == Init /\ [][Next]_vars

----------------------------------------------------------------------------
TypeOK ==
  /\ position \in [side : Sides \cup {"NONE"}, entry : Nat, quantity : Nat]
  /\ mark \in Prices
  /\ {stop, candidate, previous} \subseteq Nat
  /\ openings \in 0..MaxOpenings
  /\ {running, loaded, dirty, bookLoaded, bookDirty} \subseteq BOOLEAN
  /\ mishaps \in 0..MaxMishaps
  /\ have \subseteq {"account", "levels"}
  /\ mode \in Modes
  /\ todo \in Seq(DOMAIN Profiles) /\ left \in Seq(DOMAIN Targets)
  /\ \A s \in {state, saved.state} :
       /\ s.side \in Sides \cup {"NONE"} /\ {s.entry, s.risk, s.best} \subseteq Nat
       /\ s.progress \in [DOMAIN Profiles ->
                            [active : BOOLEAN, last : Nat, filled : BOOLEAN]]
  /\ \A b \in {book, bookSaved} :
       b.progress \in [DOMAIN Targets ->
          [stage : {"waiting", "partial", "breakeven", "unviable"}, quantity : Nat]]
  /\ fills \in [DOMAIN Profiles -> Nat]

\* Between two passes of a running engine no position is without its stop: a
\* stop the replacement lost ends the run.
LostStopEscalates ==
  running /\ pc = "idle" /\ position # Flat => stop # NoPrice

\* While one position lasts, its exchange stop is never looser than it was:
\* replacements, restorations, restarts and changes of mode only tighten it.
StopOnlyTightens ==
  position # Flat /\ stop # NoPrice => stop = truth.tightest

\* A stop the guard has moved stays a whole R (of the profile's distance)
\* behind the best mark this position has seen, with R as it was when the
\* position was opened, however often the process was restarted in between.
StopKeepsDistance ==
  position # Flat /\ stop # NoPrice =>
    \/ Distance(position.entry, stop) = truth.risk
       /\ LossSide(position.side, position.entry, stop)
    \/ 4 * Gain(position.side, stop, truth.peak)
         >= Profiles[LiveProfile].distance * truth.risk

\* One process sells one position in simulation at most once per profile, over
\* all passes and runs.  The event table never holds a breakeven sale, nor the
\* end of a half-sold position, of which no sale at the target was simulated
\* before, at the same entry and for the same profile, through new positions,
\* ADDs, stops, crashes and failing writes.  The row of that sale may be missing
\* for one reason only: its own write failed, or a stop cancelled it.
SimulatedSalesInOrder ==
  /\ \A i \in DOMAIN Profiles : fills[i] <= 1
  /\ \A e \in sold :
       e.status \in {"breakeven", "closed"} =>
         [e EXCEPT !.status = "partial"] \in sold \cup lost

====
