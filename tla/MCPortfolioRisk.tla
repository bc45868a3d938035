---- MODULE MCPortfolioRisk ----
(***************************************************************************)
(* Instances of PortfolioRisk for TLC: three symbols around a price of 10. *)
(***************************************************************************)
EXTENDS PortfolioRisk, TLC

Symmetry == Permutations(Symbols)

Asks(action, type, entry, stop, target, risk) ==
  [action |-> action, type |-> type, entry |-> entry, stop |-> stop, target |-> target,
   risk |-> risk, leverage |-> 2]

FewIntents ==
  {Asks("OPEN_LONG", "MARKET", 0, 8, 15, 50000), Asks("OPEN_SHORT", "LIMIT", 11, 13, 7, 40000),
   Asks("ADD", "MARKET", 0, 8, 15, 50000)}

\* A complete plan on a swing, and the same on an EMA (its stop is buffered).
SwingPlan ==
  [framework |-> TRUE, complete |-> TRUE, setup |-> "TREND_CONTINUATION", trigger |-> "RETEST",
   invalidation |-> "SWING", anchored |-> TRUE, atr |-> 4, anchorGap |-> 1, extension |-> 0,
   aligned |-> TRUE, crossed |-> TRUE, heldBars |-> TRUE, boundaryGap |-> 0, entryGap |-> 1,
   closedBeyond |-> TRUE, referenceKnown |-> TRUE, levelGap |-> 1, stopBeyond |-> TRUE]
FewPlans == {SwingPlan, [SwingPlan EXCEPT !.invalidation = "EMA"]}

FewSnapshots == {[mark |-> 10, bid |-> 9, ask |-> 11], [mark |-> 11, bid |-> 11, ask |-> 11]}
NoGuards     == {{}}
====
