------------------------- MODULE SimulatedExchange -------------------------
(***************************************************************************)
(* The exchange a backtest books against: positions, resting limits and    *)
(* orders scheduled for the next bar, filled and settled on 5-minute bars. *)
(* src/candlepilot/backtest/engine.py.  An exchange is a record; every     *)
(* operation maps an exchange to the next one.                             *)
(*                                                                         *)
(* Time is counted in half bars: bar k opens at 2k and closes at 2k + 2.   *)
(* Prices are small integers.  Money is counted in price units divided by  *)
(* Scale, so that fees and funding are whole numbers.                      *)
(***************************************************************************)
EXTENDS Integers, Sequences, FiniteSets, SequencesExt

CONSTANTS
    Symbols,
    Equity,     \* initial equity, in money
    Slip,       \* slippage of a market fill, in price units
    FeeRate,    \* fee of a fill, per Scale of its value
    None        \* no position, order, limit or target

Scale == 100

Side == {"LONG", "SHORT"}
Bar == [open : Int, low : Int, high : Int, close : Int, funding : Int]
Order == [kind : {"OPEN", "ADD", "CLOSE"}, side : Side, reduceOnly : BOOLEAN,
          limit : Int \union {None}, stop : Int, target : Int \union {None},
          quantity : Nat \ {0}, decided : Nat]
Position == [side : Side, quantity : Nat \ {0}, cost : Int, since : Nat, decided : Nat,
             stop : Int, target : Int \union {None}, fees : Int, funding : Int, carried : Int]
Resting == [order : Order, since : Nat]
Scheduled == [order : Order, bar : Nat]
Trade == [net : Int, exit : Nat, since : Nat,
          reason : {"stop_loss", "take_profit", "model_exit", "run_end"}]
Exchange == [cash : Int, position : [Symbols -> Position \union {None}],
             resting : [Symbols -> Resting \union {None}],
             scheduled : [Symbols -> Scheduled \union {None}],
             trades : Seq(Trade)]

ASSUME SimulatedExchangeAssumption ==
    /\ IsFiniteSet(Symbols) /\ Equity \in Int /\ Slip \in Nat /\ FeeRate \in Nat
    /\ None \notin Int \union Position \union Resting \union Scheduled

Opens(k) == 2 * k
Closes(k) == 2 * k + 2

Sign(side) == IF side = "LONG" THEN 1 ELSE -1
Buys(order) == (order.side = "LONG") # order.reduceOnly

\* f[1] + ... + f[n]
Total(f, n) ==
    LET sums[i \in 0..n] == IF i = 0 THEN 0 ELSE sums[i - 1] + f[i]
    IN sums[n]

\* the symbols, in the order the loops visit them
SymbolOrder == SetToSeq(Symbols)
TotalOf(amounts) ==
    Total([i \in DOMAIN SymbolOrder |-> amounts[SymbolOrder[i]]], Len(SymbolOrder))

\* carried: the equity already in a position taken over from the live account
NewExchange(carried) ==
    LET floating == TotalOf([s \in Symbols |-> IF carried[s] = None THEN 0 ELSE carried[s].carried])
    IN [cash |-> Equity - floating,
        position |-> carried,
        resting |-> [s \in Symbols |-> None],
        scheduled |-> [s \in Symbols |-> None],
        trades |-> <<>>]

HasPending(ex, s) == ex.resting[s] # None \/ ex.scheduled[s] # None

Slipped(price, buys) == IF buys THEN price + Slip ELSE price - Slip

Smaller(a, b) == IF a < b THEN a ELSE b
Larger(a, b) == IF a > b THEN a ELSE b

-----------------------------------------------------------------------------
(* Booking *)

\* cost is entry price times quantity: an addition averages the price.  An
\* entry always carries a stop; an addition without a target keeps the one
\* the position has.
OpenOrAdd(ex, s, order, fill, when, fee) ==
    LET p == ex.position[s]
        opened == [side |-> order.side, quantity |-> order.quantity,
                   cost |-> fill * order.quantity, since |-> when, decided |-> order.decided,
                   stop |-> order.stop, target |-> order.target,
                   fees |-> fee, funding |-> 0, carried |-> 0]
        added == [p EXCEPT !.quantity = @ + order.quantity,
                           !.cost = @ + fill * order.quantity,
                           !.fees = @ + fee,
                           !.stop = order.stop,
                           !.target = IF order.target = None THEN @ ELSE order.target]
    IN [ex EXCEPT !.position[s] = IF p = None THEN opened ELSE added]

\* mutant: funding is paid again when the position is closed
BookFundingTwice(ex, s, exit, when, fee, reason) ==
    LET p == ex.position[s]
        lifetime == Scale * Sign(p.side) * (exit * p.quantity - p.cost)
        net == lifetime - p.carried - p.fees - fee - p.funding
    IN [ex EXCEPT !.cash = @ + lifetime - p.funding,
                  !.position[s] = None,
                  !.trades = Append(@, [net |-> net, exit |-> when, since |-> p.since,
                                        reason |-> reason])]

\* Closing orders and triggers are for the whole position.  Funding changed
\* the cash when it was settled: here it is only attributed.
Book(ex, s, exit, when, fee, reason) ==
    LET p == ex.position[s]
        lifetime == Scale * Sign(p.side) * (exit * p.quantity - p.cost)
        net == lifetime - p.carried - p.fees - fee - p.funding
    IN [ex EXCEPT !.cash = @ + lifetime,
                  !.position[s] = None,
                  !.trades = Append(@, [net |-> net, exit |-> when, since |-> p.since,
                                        reason |-> reason])]

Fill(ex, s, order, base, when) ==
    LET slipped == Slipped(base, Buys(order))
        fill == IF order.limit = None THEN slipped
                ELSE IF Buys(order) THEN Smaller(slipped, order.limit)
                ELSE Larger(slipped, order.limit)
        fee == fill * order.quantity * FeeRate
        paid == [ex EXCEPT !.cash = @ - fee]
    IN IF ~order.reduceOnly THEN OpenOrAdd(paid, s, order, fill, when, fee)
       ELSE IF ex.position[s] = None THEN paid
       ELSE Book(paid, s, fill, when, fee, "model_exit")

\* a protective exit fills at its trigger
Trigger(ex, s, price, when, reason) ==
    LET p == ex.position[s]
        fill == Slipped(price, p.side = "SHORT")
        fee == fill * p.quantity * FeeRate
    IN Book([ex EXCEPT !.cash = @ - fee], s, fill, when, fee, reason)

-----------------------------------------------------------------------------
(* Orders *)

Marketable(order, price) ==
    order.limit = None \/ IF Buys(order) THEN order.limit >= price ELSE order.limit <= price

ExecuteAt(ex, s, order, open, when) ==
    IF Marketable(order, open) THEN Fill(ex, s, order, open, when)
    ELSE [ex EXCEPT !.resting[s] = [order |-> order, since |-> when]]

\* mutant: an order is in the portfolio before its bar has opened
ExecuteAtOnce(ex, s, order, now, bar, bars) ==
    ExecuteAt(ex, s, order, bars[s][bar].open, Opens(bar))

\* the first bar that opens at or after the decision fills it; when that bar
\* has not opened yet the order waits for simulated time to reach it
Execute(ex, s, order, now, bar, bars) ==
    IF Opens(bar) > now
    THEN [ex EXCEPT !.scheduled[s] = [order |-> order, bar |-> bar]]
    ELSE ExecuteAt(ex, s, order, bars[s][bar].open, Opens(bar))

Activate(ex, s, through, bars) ==
    LET waiting == ex.scheduled[s]
    IN IF waiting = None \/ Opens(waiting.bar) > through
       THEN ex
       ELSE LET taken == [ex EXCEPT !.scheduled[s] = None]
            IN IF waiting.order.reduceOnly /\ ex.position[s] = None
               THEN taken
               ELSE ExecuteAt(taken, s, waiting.order, bars[s][waiting.bar].open,
                              Opens(waiting.bar))

-----------------------------------------------------------------------------
(* Settling one bar *)

Stopped(p, bar) == IF p.side = "LONG" THEN bar.low <= p.stop ELSE bar.high >= p.stop
Took(p, bar) ==
    p.target # None /\ IF p.side = "LONG" THEN bar.high >= p.target ELSE bar.low <= p.target

\* when a bar holds both triggers the stop wins
ApplyTriggers(ex, s, bar, when, allowTarget) ==
    LET p == ex.position[s]
    IN IF p = None THEN ex
       ELSE IF Stopped(p, bar) THEN Trigger(ex, s, p.stop, when, "stop_loss")
       ELSE IF allowTarget /\ Took(p, bar) THEN Trigger(ex, s, p.target, when, "take_profit")
       ELSE ex

ChargeFunding(ex, s, bar) ==
    IF ex.position[s] = None THEN ex
    ELSE LET p == ex.position[s]
             due == p.quantity * bar.close * bar.funding * Sign(p.side)
         IN [ex EXCEPT !.cash = @ - due, !.position[s].funding = @ + due]

\* a resting limit the bar reached; its own target is not granted in a bar
\* that may have touched the target first
FillResting(ex, s, bar, when) ==
    LET waiting == ex.resting[s]
        order == waiting.order
        touched == IF Buys(order) THEN bar.low <= order.limit ELSE bar.high >= order.limit
        atOpen == Marketable(order, bar.open)
        taken == [ex EXCEPT !.resting[s] = None]
    IN IF waiting = None THEN ex
       ELSE IF when < waiting.since \/ ~touched THEN ex
       ELSE IF order.reduceOnly /\ ex.position[s] = None THEN taken
       ELSE LET filled == Fill(taken, s, order, IF atOpen THEN bar.open ELSE order.limit, when)
            IN IF order.reduceOnly THEN filled
               ELSE ApplyTriggers(filled, s, bar, when, atOpen)

Settle(ex, s, bar, when) ==
    FillResting(ApplyTriggers(ChargeFunding(ex, s, bar), s, bar, when, TRUE), s, bar, when)

-----------------------------------------------------------------------------
(* The end of a run *)

Held(ex) == {s \in Symbols : ex.position[s] # None}

\* marks[s] is the last close the run has seen, or the entry's average price
CloseOne(ex, s, mark, when) ==
    IF ex.position[s] = None THEN ex ELSE Trigger(ex, s, mark, when, "run_end")

CloseAll(ex, marks, when) ==
    LET n == Len(SymbolOrder)
        flat[i \in 0..n] ==
            IF i = 0 THEN ex
            ELSE LET s == SymbolOrder[i] IN CloseOne(flat[i - 1], s, marks[s], when)
    IN [flat[n] EXCEPT !.resting = [s \in Symbols |-> None],
                       !.scheduled = [s \in Symbols |-> None]]

NetOfTrades(ex) == Total([i \in 1..Len(ex.trades) |-> ex.trades[i].net], Len(ex.trades))

\* what open positions have cost or brought already, without a trade to show it
Standing(p) == IF p = None THEN 0 ELSE p.fees + p.funding + p.carried
Unattributed(ex) == TotalOf([s \in Symbols |-> Standing(ex.position[s])])
=============================================================================
