---- MODULE RiskPolicy ----
(***************************************************************************)
(* AggressiveRiskPolicy: what becomes of an intent of the model, given a   *)
(* market snapshot and a portfolio.  Prices and quantities are integers;   *)
(* a fill price carries two decimals (Cents), an amount of money at risk   *)
(* four (the product of a price and a rate in percent).  LONG and SHORT    *)
(* are written once, with Dir as the sign of the side.                     *)
(***************************************************************************)
EXTENDS Integers, FiniteSets
LOCAL INSTANCE FiniteSetsExt

CONSTANTS
  Symbols,
  MaxRisk, MaxPortfolioRisk,   \* money at the stops: one symbol, all of them
  MaxMargin, MaxSymbolMargin,  \* initial margin: all symbols, one of them
  Balance,                     \* available_balance of an empty account
  MaxLeverage,
  Fee, Slippage,               \* rates in percent
  RewardRisk,                  \* minimum_reward_risk_ratio in percent
  Buffer,                      \* SELECTIVE_STRUCTURE_STOP_BUFFER in percent
  PriceTick, QuantityStep, Smallest, Largest, Notional,  \* SymbolRules
  GateMode                     \* structure_gate_mode

ASSUME PolicyAssumption ==
  /\ {MaxRisk, MaxPortfolioRisk, MaxMargin, MaxSymbolMargin, Balance, Fee, Slippage,
      RewardRisk, Notional, Largest} \subseteq Nat
  /\ {MaxLeverage, PriceTick, QuantityStep, Smallest} \subseteq Nat \ {0}
  /\ MaxPortfolioRisk >= MaxRisk
  /\ Buffer \in Nat /\ Buffer >= 100
  /\ GateMode \in {"off", "shadow", "enforce"}

Cents == 100
None  == 0         \* no price
Opening  == {"OPEN_LONG", "OPEN_SHORT", "ADD"}
NoPosition == [side |-> "NONE", quantity |-> 0, cost |-> 0, stop |-> None,
               margin |-> 0, leverage |-> 1]

Dir(side) == IF side = "LONG" THEN 1 ELSE -1
Least(a, b) == IF a < b THEN a ELSE b
Most(a, b)  == IF a > b THEN a ELSE b
RoundDown(value, step) == (value \div step) * step
RoundUp(value, step)   == ((value + step - 1) \div step) * step
\* _to_tick away from the entry: a LONG rounds its stop down, its target up.
StopTick(side, scaled)   == IF side = "LONG" THEN RoundDown(scaled, PriceTick * Cents) \div Cents
                                             ELSE RoundUp(scaled, PriceTick * Cents) \div Cents
TargetTick(side, price)  == IF side = "LONG" THEN RoundUp(price, PriceTick)
                                             ELSE RoundDown(price, PriceTick)
EntryTick(side, price)   == IF side = "LONG" THEN RoundDown(price, PriceTick)
                                             ELSE RoundUp(price, PriceTick)

----------------------------------------------------------------------------
\* Money lost at the stop, with slippage of the exit and fees of both sides.

\* _effective_exit, in cents.
Exit(side, stop) == stop * (Cents - Dir(side) * Slippage)

\* _effective_entry, in cents: a market order is sized at the slipped book.
EffectiveEntry(side, type, entry, snap) ==
  IF type = "LIMIT" THEN entry * Cents
  ELSE (IF side = "LONG" THEN snap.ask ELSE snap.bid) * (Cents + Dir(side) * Slippage)

\* _effective_loss_per_unit of `quantity` contracts bought for `cost` in all.
LossAt(side, quantity, cost, stop) ==
  LET out == quantity * Exit(side, stop) IN
  100 * Most(0, Dir(side) * (cost - out)) + (cost + out) * Fee

PositionRisk(p) == LossAt(p.side, p.quantity, p.cost, p.stop)

Held(portfolio) == {s \in Symbols : portfolio[s] # NoPosition}
\* _portfolio_stop_risk without the symbol being added to.
StopRisk(portfolio, but) ==
  MapThenSumSet(LAMBDA s : PositionRisk(portfolio[s]), Held(portfolio) \ but)
MarginUsed(portfolio) == MapThenSumSet(LAMBDA s : portfolio[s].margin, Held(portfolio))

----------------------------------------------------------------------------
\* The gates before sizing.

Side(intent, held) ==
  IF intent.action = "ADD" THEN held.side
  ELSE IF intent.action = "OPEN_LONG" THEN "LONG" ELSE "SHORT"

\* Fresh snapshot, no loss breaker, no cooldown, no pending entry; leverage and
\* risk within the limits; OPEN needs an empty symbol, ADD the same leverage.
Admitted(intent, held, guards) ==
  /\ {"stale", "breaker", "cooldown", "pending"} \cap guards = {}
  /\ intent.leverage <= MaxLeverage
  /\ intent.risk <= MaxRisk
  /\ IF intent.action = "ADD"
     THEN held # NoPosition /\ intent.leverage = held.leverage
     ELSE held = NoPosition

\* _breakout_rejection: a breakout is declared on both fields, held for two
\* bars, and its trigger lies within a quarter ATR of the boundary.
BreakoutHolds(plan) ==
  plan.setup = "TREND_BREAKOUT" \/ plan.trigger = "BREAKOUT" =>
    /\ plan.trigger = "BREAKOUT" /\ plan.anchored
    /\ plan.heldBars /\ plan.atr > 0 /\ 4 * plan.boundaryGap <= plan.atr

\* _assess_structure and _structure_reference: six checks of a complete plan.
StructurePasses(intent, plan) ==
  /\ plan.complete
  /\ plan.atr > 0 /\ 2 * plan.anchorGap <= plan.atr
  /\ plan.extension < IF intent.action = "ADD" THEN 1 ELSE 2
  /\ plan.aligned
  /\ CASE plan.trigger = "BREAKOUT" -> plan.crossed /\ plan.heldBars /\ 4 * plan.boundaryGap <= plan.atr
       [] plan.trigger # "BREAKOUT" /\ intent.type = "LIMIT" -> 4 * plan.entryGap <= plan.atr
       [] plan.trigger = "REJECTION" /\ intent.type # "LIMIT" -> plan.crossed /\ plan.closedBeyond
       [] OTHER -> plan.crossed
  /\ plan.referenceKnown /\ 4 * plan.levelGap <= plan.atr /\ plan.stopBeyond

StructureAllows(intent, plan) == GateMode = "enforce" => StructurePasses(intent, plan)

\* _should_buffer_structure_stop
Buffered(intent, plan) ==
  /\ intent.action # "ADD" /\ plan.framework
  /\ plan.setup \in {"TREND_BREAKOUT", "TREND_CONTINUATION"}
  /\ plan.invalidation \in {"EMA", "DAILY_LEVEL"}

----------------------------------------------------------------------------
\* The levels of the order.

Entry(intent, side, snap) ==
  IF intent.type = "LIMIT" THEN EntryTick(side, intent.entry) ELSE snap.mark

\* The stop, widened by the buffer where it applies and aligned to the tick;
\* an ADD keeps the tighter stop of the position.
NewStop(intent, plan, side, entry) ==
  IF ~Buffered(intent, plan) THEN StopTick(side, intent.stop * Cents)
  ELSE StopTick(side, entry * Cents - Dir(side) * Buffer *
                      (IF side = "LONG" THEN entry - intent.stop ELSE intent.stop - entry))
Stop(intent, plan, side, entry, held) ==
  LET new == NewStop(intent, plan, side, entry) IN
  IF intent.action # "ADD" THEN new
  ELSE IF side = "LONG" THEN Most(new, held.stop) ELSE Least(new, held.stop)

\* stop < entry, mark < target for a LONG, mirrored for a SHORT.
LevelsOrdered(intent, side, entry, stop, target, mark, held) ==
  /\ entry > 0 /\ stop > 0 /\ target > 0
  /\ Dir(side) * (entry - intent.stop) > 0
  /\ intent.action = "ADD" => held.stop # None
  /\ Dir(side) * (entry - stop) > 0 /\ Dir(side) * (mark - stop) > 0
  /\ Dir(side) * (target - entry) > 0 /\ Dir(side) * (target - mark) > 0

Marketable(intent, side, entry, snap) ==
  intent.type = "LIMIT" /\ IF side = "LONG" THEN snap.ask <= entry ELSE snap.bid >= entry

----------------------------------------------------------------------------
\* Sizing.

\* Mutants of Budget: the ADD forgets what the position already risks, against
\* the limit of the portfolio, or against the limit of the symbol.
BudgetBesideOwn(intent, symbol, portfolio, stop) ==
  LET held == portfolio[symbol]
      own  == IF intent.action = "ADD" THEN LossAt(held.side, held.quantity, held.cost, stop) ELSE 0
      others == StopRisk(portfolio, IF intent.action = "ADD" THEN {symbol} ELSE {})
      limit  == IF intent.action = "ADD" THEN Least(intent.risk, Most(0, MaxRisk - own)) ELSE intent.risk
  IN Least(limit, Most(0, MaxPortfolioRisk - others))
BudgetPerOrder(intent, symbol, portfolio, stop) ==
  Least(intent.risk, Most(0, MaxPortfolioRisk - StopRisk(portfolio, {})))

\* Money this order may lose: what the model asked for, what is left of the
\* limit of the symbol (ADD) and of the portfolio.
Budget(intent, symbol, portfolio, stop) ==
  LET held == portfolio[symbol]
      own  == IF intent.action = "ADD" THEN LossAt(held.side, held.quantity, held.cost, stop) ELSE 0
      others == StopRisk(portfolio, IF intent.action = "ADD" THEN {symbol} ELSE {})
      limit  == IF intent.action = "ADD" THEN Least(intent.risk, Most(0, MaxRisk - own)) ELSE intent.risk
  IN Least(limit, Most(0, MaxPortfolioRisk - others - own))

\* What the free margin buys, at the worse of the entry and the book.
MarginQuantity(intent, side, entry, snap, portfolio, held) ==
  LET price == IF intent.type = "LIMIT"
               THEN Most(entry, IF side = "LONG" THEN snap.ask ELSE snap.bid) ELSE entry
      free  == Least(Most(0, MaxMargin - MarginUsed(portfolio)),
                     Least(Most(0, MaxSymbolMargin - held.margin),
                           Most(0, Balance - MarginUsed(portfolio))))
  IN (free * intent.leverage) \div price

Quantity(intent, symbol, side, entry, stop, snap, portfolio) ==
  LET perUnit == LossAt(side, 1, EffectiveEntry(side, intent.type, entry, snap), stop)
      raw == Least(Budget(intent, symbol, portfolio, stop) \div perUnit,
                   MarginQuantity(intent, side, entry, snap, portfolio, portfolio[symbol]))
  IN RoundDown(IF Largest > 0 THEN Least(raw, Largest) ELSE raw, QuantityStep)

\* _raw_reward_risk_ratio at the average price of the merged position.
RewardsEnough(side, cost, quantity, stop, target) ==
  LET risked == Dir(side) * (cost - stop * quantity * Cents) IN
  risked > 0 /\ 100 * Dir(side) * (target * quantity * Cents - cost) > RewardRisk * risked

NoOrder == [quantity |-> 0]

\* evaluate for an opening intent: the order, or NoOrder if it is refused.
Evaluate(intent, plan, symbol, snap, portfolio, guards) ==
  LET held   == portfolio[symbol]
      side   == Side(intent, held)
      entry  == Entry(intent, side, snap)
      stop   == Stop(intent, plan, side, entry, held)
      target == TargetTick(side, intent.target)
      q      == Quantity(intent, symbol, side, entry, stop, snap, portfolio)
  IN IF /\ Admitted(intent, held, guards)
        /\ BreakoutHolds(plan) /\ StructureAllows(intent, plan)
        /\ LevelsOrdered(intent, side, entry, stop, target, snap.mark, held)
        /\ q >= Smallest /\ q > 0 /\ q * entry >= Notional
        /\ RewardsEnough(side, held.cost + q * entry * Cents, held.quantity + q, stop, target)
     THEN [quantity |-> q, side |-> side, entry |-> entry, stop |-> stop, type |-> intent.type,
           worst |-> EffectiveEntry(side, intent.type, entry, snap),
           leverage |-> intent.leverage,
           waits |-> intent.type = "LIMIT" /\ ~Marketable(intent, side, entry, snap)]
     ELSE NoOrder

\* _close_order: the contracts a REDUCE or CLOSE takes off, 0 if it is refused.
CloseQuantity(action, held) ==
  LET whole == RoundDown(held.quantity, QuantityStep)
      q == IF action = "REDUCE" THEN RoundDown(whole \div 2, QuantityStep) ELSE whole
  IN IF q < Smallest \/ (Largest > 0 /\ q > Largest) THEN 0 ELSE q
====
