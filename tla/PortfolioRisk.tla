---- MODULE PortfolioRisk ----
(***************************************************************************)
(* The portfolio the risk policy guards.  Two tasks of the engine add to   *)
(* it: the cycle of the one cadence, and the guard, which rechecks waiting *)
(* limit intents.  Each holds the lock of the symbol it works on, reads    *)
(* the account, lets the policy size the order on what it read, and        *)
(* executes it; the locks are per symbol, so the other task may trade      *)
(* another symbol in the meantime.  ProtectedEntry has the execution       *)
(* itself: here it fills at a price between the reference and the slipped  *)
(* book.                                                                   *)
(***************************************************************************)
EXTENDS RiskPolicy

CONSTANTS
  Intents,    \* what the model may ask for
  Plans,      \* the structured plans that may come with it
  Snapshots,  \* mark, bid and ask of a refreshed snapshot
  GuardSets,  \* which of stale, breaker, cooldown may hold
  MaxSteps    \* bound: orders executed in a behaviour

VARIABLES
  portfolio,  \* the positions at the exchange
  seen,       \* per task: the PortfolioState it has read
  work,       \* per task: its symbol and the order it is to execute
  waiting,    \* local pending intents, by symbol
  executed,   \* orders so far
  late        \* history: symbols of positions that an order added to which was
              \* sized before another order, of the other task, filled

vars == <<portfolio, seen, work, waiting, executed, late>>

Tasks == {"cycle", "guard"}

Idle == [symbol |-> "none", order |-> NoOrder]
NoIntent == [action |-> "HOLD"]
AtWork(t) == work[t].symbol # "none"
LockedSymbols == {work[t].symbol : t \in Tasks}

\* current_portfolio(): one gathered read, under the lock of the symbol.  The
\* guard takes up the symbols of waiting intents.
ReadPortfolio(t, s) ==
  /\ ~AtWork(t) /\ s \notin LockedSymbols
  /\ t = "guard" => waiting[s] # NoIntent
  /\ executed < MaxSteps
  /\ seen' = [seen EXCEPT ![t] = portfolio]
  /\ work' = [work EXCEPT ![t] = [Idle EXCEPT !.symbol = s]]
  /\ UNCHANGED <<portfolio, waiting, executed, late>>

Deciding(t) == AtWork(t) /\ work[t].order = NoOrder
EmptyPortfolio == [s \in Symbols |-> NoPosition]
Release(t) ==
  /\ work' = [work EXCEPT ![t] = Idle]
  /\ seen' = [seen EXCEPT ![t] = EmptyPortfolio]

\* _evaluate_batch_result of the cycle: the policy sizes the order on the portfolio read;
\* an unmarketable limit order becomes a waiting intent.
Size(intent, plan, snap, guards) ==
  LET t == "cycle" IN
  /\ Deciding(t)
  /\ LET s == work[t].symbol
         order == Evaluate(intent, plan, s, snap, seen[t],
                    guards \cup (IF waiting[s] # NoIntent THEN {"pending"} ELSE {}))
     IN IF order = NoOrder THEN Release(t) /\ UNCHANGED waiting
        ELSE IF order.waits
        THEN waiting' = [waiting EXCEPT ![s] = [intent |-> intent, plan |-> plan]] /\ Release(t)
        ELSE work' = [work EXCEPT ![t].order = order] /\ UNCHANGED <<seen, waiting>>
  /\ UNCHANGED <<portfolio, executed, late>>

\* process_pending_entry of the guard: a waiting intent runs through the whole
\* policy again, and is executed, kept or dropped.
RecheckIntent(snap, guards) ==
  LET t == "guard" IN
  /\ Deciding(t) /\ waiting[work[t].symbol] # NoIntent
  /\ LET s == work[t].symbol
         order == Evaluate(waiting[s].intent, waiting[s].plan, s, snap, seen[t], guards)
     IN IF order = NoOrder
        THEN waiting' = [waiting EXCEPT ![s] = NoIntent] /\ Release(t)
        ELSE IF order.waits
        THEN UNCHANGED waiting /\ Release(t)
        ELSE /\ waiting' = [waiting EXCEPT ![s] = NoIntent]
             /\ work' = [work EXCEPT ![t].order = order] /\ UNCHANGED seen
  /\ UNCHANGED <<portfolio, executed, late>>

\* Expired, stopped, or cancelled with the run.
DropWaiting(s) ==
  /\ waiting[s] # NoIntent /\ s \notin LockedSymbols
  /\ waiting' = [waiting EXCEPT ![s] = NoIntent]
  /\ UNCHANGED <<portfolio, seen, work, executed, late>>

\* The order fills; its position carries the stop of the order.
Merged(held, order, price) ==
  [side |-> order.side, quantity |-> held.quantity + order.quantity,
   cost |-> held.cost + order.quantity * price, stop |-> order.stop,
   margin |-> held.margin + RoundUp(order.quantity * order.entry, order.leverage) \div order.leverage,
   leverage |-> order.leverage]

\* The positions of the other symbols risk, or bind, more than the task has read.
Outdated(t, s) ==
  \/ StopRisk(portfolio, {s}) > StopRisk(seen[t], {s})
  \/ MarginUsed([portfolio EXCEPT ![s] = NoPosition])
       > MarginUsed([seen[t] EXCEPT ![s] = NoPosition])

FillOrder(t) ==
  /\ AtWork(t) /\ ~Deciding(t)
  /\ LET s == work[t].symbol  order == work[t].order IN
       /\ portfolio[s].side \in {"NONE", order.side}
       /\ \E price \in {order.entry * Cents, order.worst} :
            portfolio' = [portfolio EXCEPT ![s] = Merged(@, order, price)]
       /\ late' = IF Outdated(t, s) THEN late \cup {s} ELSE late
  /\ executed' = executed + 1
  /\ Release(t)
  /\ UNCHANGED waiting

\* The order is rejected, expires or is rescued: nothing changes.
FailOrder(t) ==
  /\ AtWork(t) /\ ~Deciding(t)
  /\ Release(t)
  /\ UNCHANGED <<portfolio, waiting, executed, late>>

\* REDUCE or CLOSE of the model: the policy lets any reduction through that the
\* lot rules allow; it executes at once.
Reduce(action) ==
  LET t == "cycle" IN
  /\ Deciding(t)
  /\ LET s == work[t].symbol
         held == portfolio[s]
         q == CloseQuantity(action, seen[t][s])
     IN /\ held # NoPosition /\ seen[t][s] = held /\ q > 0
        /\ portfolio' = [portfolio EXCEPT ![s] =
             IF q = held.quantity THEN NoPosition
             ELSE [held EXCEPT !.quantity = @ - q,
                               !.cost = (@ \div held.quantity) * (held.quantity - q),
                               !.margin = RoundUp(@ * (held.quantity - q), held.quantity) \div held.quantity]]
  /\ late' = {s \in late : portfolio'[s] # NoPosition}
  /\ Release(t)
  /\ UNCHANGED <<waiting, executed>>

\* The bracket or a human ends a position, or the trailing stop tightens it.
Ends(s) ==
  /\ portfolio[s] # NoPosition
  /\ portfolio' = [portfolio EXCEPT ![s] = NoPosition]
  /\ late' = late \ {s}
  /\ UNCHANGED <<seen, work, waiting, executed>>

Tighten(s) ==
  /\ portfolio[s] # NoPosition /\ s \notin LockedSymbols
  /\ portfolio' = [portfolio EXCEPT ![s].stop = @ + PriceTick * Dir(portfolio[s].side)]
  /\ Dir(portfolio[s].side) * (portfolio[s].cost - portfolio'[s].stop * portfolio[s].quantity * Cents) > 0
  /\ UNCHANGED <<seen, work, waiting, executed, late>>

Init ==
  /\ portfolio = EmptyPortfolio
  /\ seen = [t \in Tasks |-> EmptyPortfolio]
  /\ work = [t \in Tasks |-> Idle]
  /\ waiting = [s \in Symbols |-> NoIntent]
  /\ executed = 0
  /\ late = {}

Next ==
  \/ \E t \in Tasks :
       (\E s \in Symbols : ReadPortfolio(t, s)) \/ FillOrder(t) \/ FailOrder(t)
  \/ \E intent \in Intents, plan \in Plans, snap \in Snapshots, guards \in GuardSets :
       Size(intent, plan, snap, guards)
  \/ \E snap \in Snapshots, guards \in GuardSets : RecheckIntent(snap, guards)
  \/ \E action \in {"REDUCE", "CLOSE"} : Reduce(action)
  \/ \E s \in Symbols : DropWaiting(s) \/ Ends(s) \/ Tighten(s)

Spec == Init /\ [][Next]_vars

----------------------------------------------------------------------------
\* What all open positions lose together at their stops stays within the
\* portfolio limit (4 % of the equity in the code), and so does their margin.
\* The one exception is an order that was sized before an order of the other
\* task filled: it may take the portfolio beyond the limit, but only by itself.
\* All positions but that one are within the limit, so cycle and guard together
\* never add up two orders that should not be there.
PortfolioWithinLimits ==
  /\ \E but \in {{}} \cup {{s} : s \in late} : StopRisk(portfolio, but) <= MaxPortfolioRisk
  /\ \E but \in {{}} \cup {{s} : s \in late} :
       MarginUsed([s \in Symbols |-> IF s \in but THEN NoPosition ELSE portfolio[s]]) <= MaxMargin

\* One symbol stays within its limits of risk (1 %) and margin, over any
\* sequence of OPEN, ADD, REDUCE and tightenings, whatever the rounding and the
\* fill.
SymbolWithinLimits ==
  \A s \in Held(portfolio) :
    PositionRisk(portfolio[s]) <= MaxRisk /\ portfolio[s].margin <= MaxSymbolMargin

====
