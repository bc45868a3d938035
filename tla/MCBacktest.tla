----------------------------- MODULE MCBacktest -----------------------------
(* A window of three bars; one decision falls inside a bar, as in a replay. *)
EXTENDS BacktestRun

MCInstants == <<0, 3, 5>>

Candle(o, l, h, c, f) == [open |-> o, low |-> l, high |-> h, close |-> c, funding |-> f]

Quiet == Candle(20, 20, 20, 20, 1)      \* with funding
Falls == Candle(20, 16, 20, 18, 0)      \* reaches a long's stop
Rises == Candle(22, 18, 26, 24, 0)      \* reaches a target, not the stop
Wild == Candle(20, 14, 28, 20, -1)      \* reaches everything

\* "A" takes any path of three shapes, "B" only falls and then goes wild
MCPaths == [s \in Symbols |->
    IF s = "A" THEN [0..(NumBars - 1) -> {Quiet, Rises, Wild}]
    ELSE {[k \in 0..(NumBars - 1) |-> IF k = 0 THEN Falls ELSE Wild]}]

Intent(kind, side, limit, stop, target) ==
    [kind |-> kind, side |-> side, reduceOnly |-> kind = "CLOSE", limit |-> limit,
     stop |-> stop, target |-> target, quantity |-> 1, decided |-> 0]

MCOrders == {Intent("OPEN", "LONG", None, 16, 26), Intent("OPEN", "LONG", 18, 14, 24),
             Intent("OPEN", "SHORT", None, 28, 14), Intent("ADD", "LONG", 18, 16, None),
             Intent("CLOSE", "LONG", None, 0, None), Intent("CLOSE", "SHORT", None, 0, None)}

MCCarried == {[side |-> "LONG", quantity |-> 2, cost |-> 38, since |-> 0, decided |-> 0,
               stop |-> 16, target |-> None, fees |-> 0, funding |-> 0, carried |-> 200]}
=============================================================================
