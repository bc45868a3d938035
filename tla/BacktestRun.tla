----------------------------- MODULE BacktestRun -----------------------------
(***************************************************************************)
(* One model's pass over a window: BacktestRunner.run of src/candlepilot/  *)
(* backtest/runner.py over the exchange of SimulatedExchange.  The price   *)
(* path, what the provider answers and what the risk policy accepts are    *)
(* choices; settling, booking, retrying and rolling back are the code's.   *)
(***************************************************************************)
EXTENDS SimulatedExchange

CONSTANTS
    NumBars,      \* bars of the window, which ends when the last one closes
    Instants,     \* the decision times, in order
    Paths,        \* [Symbols -> the price paths it may take]
    Orders,       \* the orders the risk policy may accept
    Carried,      \* the positions a replay may take over
    MaxAttempts   \* DECISION_PROVIDER_MAX_ATTEMPTS

End == Closes(NumBars - 1)

ASSUME BacktestRunAssumption ==
    /\ NumBars \in Nat \ {0} /\ MaxAttempts \in Nat \ {0}
    /\ Instants \in Seq(0..End)
    /\ \A i, j \in 1..Len(Instants) : i < j => Instants[i] <= Instants[j]
    /\ \A s \in Symbols : \A path \in Paths[s] : path \in [0..(NumBars - 1) -> Bar]
    /\ \A order \in Orders :
          /\ order \in Order
          /\ order.reduceOnly <=> order.kind = "CLOSE"
    /\ \A c \in Carried :
          /\ c \in Position
          /\ c.since = 0 /\ c.decided = 0 /\ c.fees = 0 /\ c.funding = 0

VARIABLES
    bars,      \* the price path
    ex,        \* the exchange
    saved,     \* its copy after the last batch that was answered
    run        \* progress of the pass

vars == <<bars, ex, saved, run>>

Phases == {"ready", "asking", "booking", "closing", "done", "raised"}

TypeOK ==
    /\ bars \in [Symbols -> [0..(NumBars - 1) -> Bar]]
    /\ run \in [phase : Phases, step : 1..(Len(Instants) + 1), settled : [Symbols -> 0..NumBars],
                batch : Seq(Symbols), attempt : 0..MaxAttempts, failed : BOOLEAN,
                success : -1..End]
    /\ run.phase \in {"asking", "booking"} => run.step <= Len(Instants) /\ run.batch # <<>>
    /\ \A e \in {ex, saved} :
          /\ e \in Exchange
          /\ \A s \in Symbols : e.scheduled[s] # None => e.scheduled[s].bar < NumBars

Init ==
    /\ bars \in [Symbols -> UNION {Paths[s] : s \in Symbols}]
    /\ \A s \in Symbols : bars[s] \in Paths[s]
    /\ \E c \in [Symbols -> Carried \union {None}] : ex = NewExchange(c)
    /\ saved = ex
    /\ run = [phase |-> "ready", step |-> 1, settled |-> [s \in Symbols |-> 0],
              batch |-> <<>>, attempt |-> 0, failed |-> FALSE, success |-> -1]

Now == Instants[run.step]

-----------------------------------------------------------------------------
(* _settle_until: each bar that has closed is settled once, the order       *)
(* scheduled for a bar is placed before that bar is settled                 *)

Closed(t) == Cardinality({k \in 0..(NumBars - 1) : Closes(k) <= t})

SettleBar(e, s, k) == Settle(Activate(e, s, Opens(k), bars), s, bars[s][k], Opens(k))

SettleSymbol(e, s, through) ==
    LET n == Larger(0, Closed(through) - run.settled[s])
        after[i \in 0..n] ==
            IF i = 0 THEN e ELSE SettleBar(after[i - 1], s, run.settled[s] + i - 1)
    IN Activate(after[n], s, through, bars)

SettleAll(e, through) ==
    LET n == Len(SymbolOrder)
        after[i \in 0..n] ==
            IF i = 0 THEN e ELSE SettleSymbol(after[i - 1], SymbolOrder[i], through)
    IN after[n]

SettledAt(t) == [s \in Symbols |-> Larger(run.settled[s], Closed(t))]

\* a price for a position: the last close, else its own average
Marks(e, t) ==
    [s \in Symbols |->
        IF Closed(t) > 0 THEN bars[s][Closed(t) - 1].close
        ELSE IF e.position[s] # None THEN e.position[s].cost \div e.position[s].quantity
        ELSE 0]

-----------------------------------------------------------------------------
(* The pass *)

Advance(r) == [r EXCEPT !.phase = "ready", !.step = @ + 1, !.batch = <<>>, !.attempt = 0]

\* all symbols are settled up to the instant before any of them decides; those
\* without enough history get no snapshot and no call
NextBatch ==
    /\ run.phase = "ready" /\ run.step <= Len(Instants)
    /\ ex' = SettleAll(ex, Now)
    /\ \E ready \in SUBSET Symbols :
          LET settled == [run EXCEPT !.settled = SettledAt(Now)]
          IN run' = IF ready = {} THEN Advance(settled)
                    ELSE [settled EXCEPT !.phase = "asking", !.attempt = 1,
                                         !.batch = SetToSeq(ready)]
    /\ UNCHANGED <<bars, saved>>

CallFails ==
    /\ run.phase = "asking" /\ run.attempt < MaxAttempts
    /\ run' = [run EXCEPT !.attempt = @ + 1]
    /\ UNCHANGED <<bars, ex, saved>>

\* mutant: the settling of the unanswered batch stays
GiveUpAsSettled ==
    /\ run.phase = "asking" /\ run.attempt = MaxAttempts
    /\ run' = [run EXCEPT !.phase = "closing", !.failed = TRUE]
    /\ UNCHANGED <<bars, ex, saved>>

\* the provider is given up: everything since the last answered batch is undone
GiveUp ==
    /\ run.phase = "asking" /\ run.attempt = MaxAttempts
    /\ run' = [run EXCEPT !.phase = "closing", !.failed = TRUE]
    /\ ex' = saved
    /\ UNCHANGED <<bars, saved>>

CallAnswers ==
    /\ run.phase = "asking"
    /\ run' = [run EXCEPT !.phase = "booking", !.success = Now]
    /\ UNCHANGED <<bars, ex, saved>>

\* the batch's last decision saves the copy a later failure returns to
Booked(e) ==
    /\ ex' = e
    /\ IF Len(run.batch) = 1
       THEN run' = Advance(run) /\ saved' = e
       ELSE run' = [run EXCEPT !.batch = Tail(@)] /\ UNCHANGED saved
    /\ UNCHANGED bars

\* HOLD, an order already waiting, or a rejection by the risk policy
NoOrder ==
    /\ run.phase = "booking"
    /\ Booked(ex)

\* the bar that can fill an order given now
NextBar == (Now + 1) \div 2

\* what the risk policy lets through: it sees earlier fills of the same batch
Fits(order, p) ==
    CASE order.kind = "OPEN" -> p = None
      [] order.kind = "ADD" -> p # None /\ p.side = order.side
      [] order.kind = "CLOSE" -> p # None /\ p.side = order.side

PlaceOrder ==
    /\ run.phase = "booking"
    /\ LET s == Head(run.batch)
           p == ex.position[s]
       IN /\ ~HasPending(ex, s)
          /\ NextBar < NumBars
          /\ \E order \in Orders :
                /\ Fits(order, p)
                /\ LET sized == [order EXCEPT !.quantity = IF order.reduceOnly THEN p.quantity ELSE @]
                       dated == [sized EXCEPT !.decided = Now]
                   IN Booked(Execute(ex, s, dated, Now, NextBar, bars))

\* writing the progress, or the risk policy, raised: the pass has no result
Raise ==
    /\ run.phase \in {"ready", "booking"}
    /\ run' = [run EXCEPT !.phase = "raised"]
    /\ UNCHANGED <<bars, ex, saved>>

Exhausted ==
    /\ run.phase = "ready" /\ run.step > Len(Instants)
    /\ run' = [run EXCEPT !.phase = "closing"]
    /\ UNCHANGED <<bars, ex, saved>>

EffectiveEnd == IF ~run.failed THEN End ELSE IF run.success >= 0 THEN run.success ELSE 0

\* settle what is left, close the positions at the last mark
Close ==
    /\ run.phase = "closing"
    /\ LET settled == IF run.failed THEN ex ELSE SettleAll(ex, EffectiveEnd)
       IN ex' = CloseAll(settled, Marks(settled, EffectiveEnd), EffectiveEnd)
    /\ run' = [run EXCEPT !.phase = "done"]
    /\ UNCHANGED <<bars, saved>>

Next ==
    \/ NextBatch \/ CallFails \/ GiveUp \/ CallAnswers
    \/ NoOrder \/ PlaceOrder \/ Raise \/ Exhausted \/ Close

Spec == Init /\ [][Next]_vars

-----------------------------------------------------------------------------

\* Cash and trades tell one story: what the account gained is what its closed
\* trades netted, less what open positions have paid or brought in already.
\* A finished run's net result is therefore the sum over its trades.
TradesExplainCash == ex.cash = Equity + NetOfTrades(ex) - Unattributed(ex)

\* No decision sees the future: while the model is asked or its orders are
\* booked, every fill in the portfolio is on a bar that has opened, every bar
\* settled has closed, and no fill is on a bar that opened before its decision.
NoFutureInPortfolio ==
    run.phase \in {"asking", "booking"} =>
        /\ \A s \in Symbols : Closes(run.settled[s] - 1) <= Now
        /\ \A s \in Held(ex) : ex.position[s].decided <= ex.position[s].since /\ ex.position[s].since <= Now
        /\ \A i \in 1..Len(ex.trades) : ex.trades[i].since <= ex.trades[i].exit /\ ex.trades[i].exit <= Now

\* A run the provider failed ends where its last answer was: nothing filled
\* after that answer is in its result, and no trigger of a bar that had not
\* closed by then.
FailedRunEndsAtLastAnswer ==
    (run.phase = "done" /\ run.failed) =>
        \A i \in 1..Len(ex.trades) :
            LET t == ex.trades[i]
            IN t.exit + (IF t.reason \in {"stop_loss", "take_profit"} THEN 2 ELSE 0) <= EffectiveEnd
=============================================================================
