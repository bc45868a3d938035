---- MODULE BacktestRun_proofs ----
(***************************************************************************)
(* Proofs about BacktestRun and the exchange it books on: for any finite   *)
(* set of symbols, any window, decision times, price paths, orders and     *)
(* positions taken over, any equity, slippage and fee.                     *)
(*                                                                         *)
(* First sums and loops, by induction over the naturals; then one lemma    *)
(* per operation of the exchange, about one symbol at a time; then the     *)
(* loops over bars and symbols; then the steps of the pass.                *)
(***************************************************************************)
EXTENDS BacktestRun, FiniteSetTheorems, SequenceTheorems, WellFoundedInduction, TLAPS

----------------------------------------------------------------------------
(***************************************************************************)
(* The exchange *)

Typed(e) ==
  /\ e \in Exchange
  /\ \A s \in Symbols : e.scheduled[s] # None => e.scheduled[s].bar < NumBars

\* The account explains itself by trades and open positions.
Balanced(e) == e.cash = Equity + NetOfTrades(e) - Unattributed(e)

\* Symbol s when bar k is the next one to settle: what is held was decided
\* before it was filled, no later than the open of that bar; what waits was
\* decided before it can be filled.
OnTime(e, s, k) ==
  /\ e.position[s] # None =>
       e.position[s].decided <= e.position[s].since /\ e.position[s].since <= Opens(k)
  /\ e.resting[s] # None => e.resting[s].order.decided <= e.resting[s].since
  /\ e.scheduled[s] # None =>
       e.scheduled[s].order.decided <= Opens(e.scheduled[s].bar) /\ k <= e.scheduled[s].bar

\* Trades are over by t, and so are the bars whose triggers ended them.
Past(e, t) ==
  \A i \in 1..Len(e.trades) :
    LET trade == e.trades[i]
    IN /\ trade.since <= trade.exit
       /\ trade.exit + (IF trade.reason \in {"stop_loss", "take_profit"} THEN 2 ELSE 0) <= t

\* The second half of it.
Over(e, t) ==
  \A i \in 1..Len(e.trades) :
    LET trade == e.trades[i]
    IN trade.exit + (IF trade.reason \in {"stop_loss", "take_profit"} THEN 2 ELSE 0) <= t

Good(e, s, k, t) == Typed(e) /\ Balanced(e) /\ OnTime(e, s, k) /\ Past(e, t)

----------------------------------------------------------------------------
\* The pass

\* The instant up to which everything has been settled.
Clock ==
  IF run.phase \in {"asking", "booking"} THEN Instants[run.step]
  ELSE IF run.step = 1 THEN 0 ELSE Instants[run.step - 1]

Books == Balanced(ex) /\ Balanced(saved)

Timely ==
  /\ run.phase \in {"ready", "asking", "booking"} => ~run.failed
  /\ run.phase \in {"ready", "asking", "booking"} \/ (run.phase = "closing" /\ ~run.failed) =>
       /\ run.settled = [s \in Symbols |-> Closed(Clock)]
       /\ \A s \in Symbols : OnTime(ex, s, Closed(Clock))
       /\ Past(ex, Clock)
  /\ run.phase \in {"ready", "asking"} => Over(saved, Larger(0, run.success))
  /\ run.phase = "booking" => run.success = Now
  /\ run.phase \in {"closing", "done"} /\ run.failed => Over(ex, EffectiveEnd)

\* The inductive invariant.
Inv == TypeOK /\ Books /\ Timely

(***************************************************************************)
(* Loops and sums *)

\* A set of naturals with 0 and all successors is Nat.
LEMMA AllNaturals ==
  ASSUME NEW T, T \subseteq Nat, 0 \in T, \A n \in T : n + 1 \in T
  PROVE  T = Nat
<1>. DEFINE less == OpToRel(<, Nat)
<1>. SUFFICES ASSUME Nat \ T # {} PROVE FALSE
  OBVIOUS
<1>1. \E x \in Nat \ T : \A y \in Nat \ T : ~(<<y, x>> \in less)
  <2>1. IsWellFoundedOn(less, Nat)
    BY NatLessThanWellFounded
  <2>. HIDE DEF less
  <2>. QED
    BY <2>1, WFMin
<1>2. PICK x \in Nat \ T : \A y \in Nat \ T : ~(<<y, x>> \in less)
  BY <1>1
<1>3. x # 0 /\ x - 1 \in Nat
  OBVIOUS
<1>4. <<x - 1, x>> \in less
  BY <1>3 DEF OpToRel
<1>5. x - 1 \in T
  BY <1>2, <1>3, <1>4
<1>. QED
  BY <1>3, <1>5

\* The states a loop of n rounds goes through, when round i takes x to
\* step[<<i, x>>].
Runs(after, n, base, step) ==
  after = [i \in 0..n |-> IF i = 0 THEN base ELSE step[<<i, after[i - 1]>>]]

\* A loop runs to its end.
LEMMA LoopRuns ==
  ASSUME NEW n \in Nat, NEW base, NEW step
  PROVE  \E after : Runs(after, n, base, step)
<1>. DEFINE T == {m \in Nat : \E after : Runs(after, m, base, step)}
<1>1. 0 \in T
  <2>1. Runs([i \in 0..0 |-> base], 0, base, step)
    BY DEF Runs
  <2>. QED
    BY <2>1
<1>2. ASSUME NEW m \in T PROVE m + 1 \in T
  <2>1. PICK after : Runs(after, m, base, step)
    OBVIOUS
  <2>. DEFINE more == [i \in 0..(m + 1) |-> IF i = m + 1 THEN step[<<m + 1, after[m]>>] ELSE after[i]]
  <2>2. \A i \in 0..(m + 1) : more[i] = IF i = 0 THEN base ELSE step[<<i, more[i - 1]>>]
    <3>1. \A i \in 0..m : after[i] = IF i = 0 THEN base ELSE step[<<i, after[i - 1]>>]
      BY <2>1 DEF Runs
    <3>2. \A i \in 0..m : more[i] = after[i]
      OBVIOUS
    <3>3. more[m + 1] = step[<<m + 1, more[m]>>]
      BY <3>2
    <3>4. ASSUME NEW i \in 0..m PROVE more[i] = IF i = 0 THEN base ELSE step[<<i, more[i - 1]>>]
      <4>1. i # 0 => more[i - 1] = after[i - 1]
        BY <3>2
      <4>. HIDE DEF more
      <4>. QED
        BY <3>1, <3>2, <4>1
    <3>. HIDE DEF more
    <3>. QED
      BY <3>3, <3>4
  <2>3. more = [i \in 0..(m + 1) |-> more[i]]
    OBVIOUS
  <2>4. Runs(more, m + 1, base, step)
    <3>. HIDE DEF more
    <3>. QED
      BY <2>2, <2>3 DEF Runs
  <2>. HIDE DEF more
  <2>. QED
    BY <2>4
<1>3. T = Nat
  <2>. HIDE DEF T
  <2>1. T \subseteq Nat
    BY DEF T
  <2>. QED
    BY <1>1, <1>2, <2>1, AllNaturals
<1>. QED
  BY <1>3

\* What holds at the start of a loop and is kept by each round holds at each of
\* its points; here, that the state is in D.
Kept(after, n, D) ==
  after[0] \in D /\ \A i \in 1..n : after[i - 1] \in D => after[i] \in D

LEMMA LoopStays ==
  ASSUME NEW n \in Nat, NEW D, NEW after, Kept(after, n, D)
  PROVE  \A i \in 0..n : after[i] \in D
<1>. DEFINE T == {m \in Nat : m <= n => after[m] \in D}
<1>1. 0 \in T
  BY DEF Kept
<1>2. ASSUME NEW m \in T PROVE m + 1 \in T
  <2>. SUFFICES ASSUME m + 1 <= n PROVE after[m + 1] \in D
    OBVIOUS
  <2>1. after[m] \in D
    OBVIOUS
  <2>2. m + 1 \in 1..n /\ (m + 1) - 1 = m
    OBVIOUS
  <2>3. after[(m + 1) - 1] \in D => after[m + 1] \in D
    BY <2>2 DEF Kept
  <2>. QED
    BY <2>1, <2>2, <2>3
<1>3. T = Nat
  <2>. HIDE DEF T
  <2>1. T \subseteq Nat
    BY DEF T
  <2>. QED
    BY <1>1, <1>2, <2>1, AllNaturals
<1>. QED
  BY <1>3

Summands(f, n) == \A i \in 1..n : f[i] \in Int
\* The partial sums of f.
Sums(g, f, n) == g[0] = 0 /\ \A i \in 1..n : g[i] = g[i - 1] + f[i]

LEMMA SumsExist ==
  ASSUME NEW n \in Nat, NEW f, Summands(f, n)
  PROVE  \E g : /\ Sums(g, f, n) /\ \A i \in 0..n : g[i] \in Int
                /\ g = [i \in 0..n |-> IF i = 0 THEN 0 ELSE g[i - 1] + f[i]]
<1>. DEFINE more == [p \in (1..n) \X Int |-> p[2] + f[p[1]]]
<1>1. PICK g : Runs(g, n, 0, more)
  <2>. HIDE DEF more
  <2>. QED
    BY LoopRuns
<1>2. g[0] = 0
  BY <1>1 DEF Runs
<1>3. ASSUME NEW i \in 1..n PROVE g[i] = more[<<i, g[i - 1]>>]
  <2>1. i \in 0..n /\ i # 0
    OBVIOUS
  <2>. HIDE DEF more
  <2>. QED
    BY <1>1, <2>1 DEF Runs
<1>4. ASSUME NEW i \in 1..n, g[i - 1] \in Int PROVE g[i] \in Int /\ g[i] = g[i - 1] + f[i]
  <2>1. <<i, g[i - 1]>> \in (1..n) \X Int
    BY <1>4
  <2>2. more[<<i, g[i - 1]>>] = g[i - 1] + f[i]
    BY <2>1
  <2>3. f[i] \in Int
    BY DEF Summands
  <2>4. g[i] = more[<<i, g[i - 1]>>]
    BY <1>3
  <2>. HIDE DEF more
  <2>. QED
    BY <1>4, <2>2, <2>3, <2>4
<1>. HIDE DEF more
<1>5. Kept(g, n, Int)
  BY <1>2, <1>4 DEF Kept
<1>6. \A i \in 0..n : g[i] \in Int
  BY <1>5, LoopStays
<1>7. \A i \in 1..n : g[i] = g[i - 1] + f[i]
  BY <1>4, <1>6
<1>8. g = [i \in 0..n |-> g[i]]
  BY <1>1 DEF Runs
<1>9. g = [i \in 0..n |-> IF i = 0 THEN 0 ELSE g[i - 1] + f[i]]
  <2>1. \A i \in 0..n : g[i] = IF i = 0 THEN 0 ELSE g[i - 1] + f[i]
    <3>1. \A i \in 0..n : i = 0 \/ i \in 1..n
      OBVIOUS
    <3>. QED
      BY <1>2, <1>7, <3>1
  <2>. QED
    BY <1>8, <2>1
<1>. QED
  BY <1>2, <1>6, <1>7, <1>9 DEF Sums

\* Total is the last of the partial sums, whichever function has them.
LEMMA TotalIs ==
  ASSUME NEW n \in Nat, NEW f, NEW g, Summands(f, n), Sums(g, f, n)
  PROVE  Total(f, n) = g[n] /\ g[n] \in Int
<1>. DEFINE Is(h) == h = [i \in 0..n |-> IF i = 0 THEN 0 ELSE h[i - 1] + f[i]]
            sums == CHOOSE h : Is(h)
<1>1. Is(sums)
  <2>1. \E h : Is(h)
    BY SumsExist
  <2>. HIDE DEF Is
  <2>. QED
    BY <2>1
<1>2. Total(f, n) = sums[n]
  BY DEF Total
<1>. HIDE DEF sums
<1>. DEFINE T == {m \in Nat : m <= n => g[m] \in Int /\ sums[m] = g[m]}
<1>3. 0 \in T
  BY <1>1 DEF Sums
<1>4. ASSUME NEW m \in T PROVE m + 1 \in T
  <2>. SUFFICES ASSUME m + 1 <= n PROVE g[m + 1] \in Int /\ sums[m + 1] = g[m + 1]
    OBVIOUS
  <2>1. m + 1 \in 1..n /\ m + 1 \in 0..n /\ m + 1 # 0 /\ (m + 1) - 1 = m
    OBVIOUS
  <2>2. sums[m + 1] = sums[(m + 1) - 1] + f[m + 1]
    BY <1>1, <2>1
  <2>3. g[m + 1] = g[(m + 1) - 1] + f[m + 1] /\ f[m + 1] \in Int
    BY <2>1 DEF Sums, Summands
  <2>4. g[m] \in Int /\ sums[m] = g[m]
    OBVIOUS
  <2>. QED
    BY <2>1, <2>2, <2>3, <2>4
<1>5. T = Nat
  <2>. HIDE DEF T
  <2>1. T \subseteq Nat
    BY DEF T
  <2>. QED
    BY <1>3, <1>4, <2>1, AllNaturals
<1>6. n \in T
  BY <1>5
<1>. QED
  BY <1>2, <1>6

LEMMA TotalInt ==
  ASSUME NEW n \in Nat, NEW f, Summands(f, n)
  PROVE  Total(f, n) \in Int
<1>1. PICK g : Sums(g, f, n)
  BY SumsExist
<1>. QED
  BY <1>1, TotalIs

LEMMA TotalOfNone ==
  ASSUME NEW f
  PROVE  Total(f, 0) = 0
<1>1. PICK g : Sums(g, f, 0)
  <2>. DEFINE g == [i \in 0..0 |-> 0]
  <2>1. Sums(g, f, 0)
    BY DEF Sums
  <2>. QED
    BY <2>1
<1>2. Summands(f, 0)
  BY DEF Summands
<1>3. g[0] = 0
  BY <1>1 DEF Sums
<1>. QED
  BY <1>1, <1>2, <1>3, TotalIs

\* A sum depends on its summands only.
LEMMA TotalOfSame ==
  ASSUME NEW n \in Nat, NEW f, NEW h, Summands(f, n), \A i \in 1..n : h[i] = f[i]
  PROVE  Total(h, n) = Total(f, n)
<1>1. PICK g : Sums(g, f, n)
  BY SumsExist
<1>2. Summands(h, n) /\ Sums(g, h, n)
  BY <1>1 DEF Summands, Sums
<1>. QED
  BY <1>1, <1>2, TotalIs

\* One more summand.
LEMMA TotalOfMore ==
  ASSUME NEW n \in Nat, NEW f, NEW h, Summands(f, n), \A i \in 1..n : h[i] = f[i],
         h[n + 1] \in Int
  PROVE  Total(h, n + 1) = Total(f, n) + h[n + 1]
<1>1. PICK sums : Sums(sums, f, n) /\ \A i \in 0..n : sums[i] \in Int
  BY SumsExist
<1>2. Total(f, n) = sums[n]
  BY <1>1, TotalIs
<1>. DEFINE g == [i \in 0..(n + 1) |-> IF i = n + 1 THEN sums[n] + h[n + 1] ELSE sums[i]]
<1>3. g[0] = 0 /\ g[n + 1] = sums[n] + h[n + 1]
  BY <1>1 DEF Sums
<1>4. ASSUME NEW i \in 1..(n + 1) PROVE g[i] = g[i - 1] + h[i] /\ h[i] \in Int
  <2>1. CASE i = n + 1
    BY <2>1
  <2>2. CASE i # n + 1
    <3>1. i \in 1..n /\ i - 1 \in 0..n
      BY <2>2
    <3>2. g[i] = sums[i] /\ g[i - 1] = sums[i - 1]
      BY <3>1
    <3>3. sums[i] = sums[i - 1] + f[i] /\ f[i] \in Int /\ h[i] = f[i]
      BY <1>1, <3>1 DEF Sums, Summands
    <3>. QED
      BY <3>2, <3>3
  <2>. QED
    BY <2>1, <2>2
<1>. HIDE DEF g
<1>5. n + 1 \in Nat /\ Summands(h, n + 1) /\ Sums(g, h, n + 1)
  BY <1>3, <1>4 DEF Summands, Sums
<1>6. Total(h, n + 1) = g[n + 1]
  BY <1>5, TotalIs
<1>. QED
  BY <1>2, <1>3, <1>6

\* One summand changes.
LEMMA TotalOfChanged ==
  ASSUME NEW n \in Nat, NEW f, NEW h, NEW j \in 1..n, Summands(f, n), Summands(h, n),
         \A i \in (1..n) \ {j} : h[i] = f[i]
  PROVE  Total(h, n) = Total(f, n) + h[j] - f[j]
<1>1. PICK sums : Sums(sums, f, n) /\ \A i \in 0..n : sums[i] \in Int
  BY SumsExist
<1>2. Total(f, n) = sums[n]
  BY <1>1, TotalIs
<1>. DEFINE g == [i \in 0..n |-> IF i < j THEN sums[i] ELSE sums[i] + h[j] - f[j]]
<1>3. g[0] = 0 /\ g[n] = sums[n] + h[j] - f[j]
  BY <1>1 DEF Sums
<1>4. ASSUME NEW i \in 1..n PROVE g[i] = g[i - 1] + h[i]
  <2>1. i - 1 \in 0..n /\ i \in 0..n
    OBVIOUS
  <2>2. sums[i] = sums[i - 1] + f[i] /\ sums[i] \in Int /\ sums[i - 1] \in Int
    BY <1>1, <2>1 DEF Sums
  <2>3. f[i] \in Int /\ h[i] \in Int /\ f[j] \in Int /\ h[j] \in Int /\ (i # j => h[i] = f[i])
    BY DEF Summands
  <2>4. CASE i < j
    BY <2>1, <2>2, <2>3, <2>4
  <2>5. CASE i = j
    BY <2>1, <2>2, <2>3, <2>5
  <2>6. CASE i > j
    BY <2>1, <2>2, <2>3, <2>6
  <2>. QED
    BY <2>4, <2>5, <2>6
<1>. HIDE DEF g
<1>5. Sums(g, h, n)
  BY <1>3, <1>4 DEF Sums
<1>6. Total(h, n) = g[n]
  BY <1>5, TotalIs
<1>. QED
  BY <1>2, <1>3, <1>6

(***************************************************************************)
(* The symbols in their order, and the sums over them *)

\* SetToSeq lists a finite set: everything in it, once.
LEMMA ListOfSet ==
  ASSUME NEW S, IsFiniteSet(S)
  PROVE  /\ Cardinality(S) \in Nat
         /\ SetToSeq(S) \in [1..Cardinality(S) -> S]
         /\ \A i, j \in 1..Cardinality(S) : SetToSeq(S)[i] = SetToSeq(S)[j] => i = j
         /\ \A x \in S : \E i \in 1..Cardinality(S) : SetToSeq(S)[i] = x
<1>. DEFINE n == Cardinality(S)
            list == SetToSeq(S)
<1>1. n \in Nat /\ ExistsBijection(1..n, S)
  BY FS_CardinalityType
<1>2. \E f \in [1..n -> S] : IsInjective(f)
  <2>1. PICK f : f \in Bijection(1..n, S)
    BY <1>1 DEF ExistsBijection
  <2>2. f \in [1..n -> S] /\ \A i, j \in 1..n : f[i] = f[j] => i = j
    BY <2>1 DEF Bijection, Injection, IsInjective
  <2>. QED
    BY <2>2 DEF IsInjective
<1>3. list \in [1..n -> S] /\ IsInjective(list)
  BY <1>2 DEF SetToSeq
<1>4. \A i, j \in 1..n : list[i] = list[j] => i = j
  BY <1>3 DEF IsInjective
<1>5. list \in Surjection(1..n, S)
  <2>1. list \in Injection(1..n, S)
    BY <1>3, <1>4 DEF Injection, IsInjective
  <2>2. Cardinality(1..n) = n
    BY <1>1, FS_Interval, 1 \in Int, n \in Int
  <2>. QED
    BY <2>1, <2>2, FS_Injection
<1>6. \A x \in S : \E i \in 1..n : list[i] = x
  BY <1>3, <1>5 DEF Surjection
<1>. QED
  BY <1>1, <1>3, <1>4, <1>6

LEMMA SymbolsListed ==
  /\ Len(SymbolOrder) \in Nat
  /\ DOMAIN SymbolOrder = 1..Len(SymbolOrder)
  /\ \A i \in 1..Len(SymbolOrder) : SymbolOrder[i] \in Symbols
  /\ \A s \in Symbols : \E j \in 1..Len(SymbolOrder) :
       SymbolOrder[j] = s /\ \A i \in (1..Len(SymbolOrder)) \ {j} : SymbolOrder[i] # s
<1>. DEFINE n == Cardinality(Symbols)
<1>1. n \in Nat /\ SymbolOrder \in [1..n -> Symbols]
  BY ListOfSet, SimulatedExchangeAssumption DEF SymbolOrder, SimulatedExchangeAssumption
<1>2. Len(SymbolOrder) = n
  BY <1>1
<1>3. \A i, j \in 1..n : SymbolOrder[i] = SymbolOrder[j] => i = j
  BY ListOfSet, SimulatedExchangeAssumption DEF SymbolOrder, SimulatedExchangeAssumption
<1>4. \A s \in Symbols : \E i \in 1..n : SymbolOrder[i] = s
  BY ListOfSet, SimulatedExchangeAssumption DEF SymbolOrder, SimulatedExchangeAssumption
<1>. QED
  BY <1>1, <1>2, <1>3, <1>4

LEMMA TotalOfInt ==
  ASSUME NEW amounts \in [Symbols -> Int]
  PROVE  TotalOf(amounts) \in Int
<1>. DEFINE f == [i \in DOMAIN SymbolOrder |-> amounts[SymbolOrder[i]]]
<1>1. Summands(f, Len(SymbolOrder))
  BY SymbolsListed DEF Summands
<1>. HIDE DEF f
<1>2. Total(f, Len(SymbolOrder)) \in Int
  BY <1>1, SymbolsListed, TotalInt
<1>. QED
  BY <1>2 DEF TotalOf, f

\* One symbol's amount changes.
LEMMA OneAmountChanges ==
  ASSUME NEW a \in [Symbols -> Int], NEW b \in [Symbols -> Int], NEW s \in Symbols,
         \A u \in Symbols \ {s} : b[u] = a[u]
  PROVE  TotalOf(b) = TotalOf(a) + b[s] - a[s]
<1>. DEFINE n == Len(SymbolOrder)
            f == [i \in DOMAIN SymbolOrder |-> a[SymbolOrder[i]]]
            h == [i \in DOMAIN SymbolOrder |-> b[SymbolOrder[i]]]
<1>1. PICK j \in 1..n : SymbolOrder[j] = s /\ \A i \in (1..n) \ {j} : SymbolOrder[i] # s
  BY SymbolsListed
<1>2. Summands(f, n) /\ Summands(h, n)
  BY SymbolsListed DEF Summands
<1>3. \A i \in (1..n) \ {j} : h[i] = f[i]
  BY <1>1, SymbolsListed
<1>4. h[j] = b[s] /\ f[j] = a[s]
  BY <1>1, SymbolsListed
<1>5. TotalOf(a) = Total(f, n) /\ TotalOf(b) = Total(h, n)
  BY DEF TotalOf
<1>6. n \in Nat
  BY SymbolsListed
<1>. HIDE DEF f, h, n
<1>7. Total(h, n) = Total(f, n) + h[j] - f[j]
  BY <1>1, <1>2, <1>3, <1>6, TotalOfChanged
<1>. QED
  BY <1>4, <1>5, <1>7

\* What a typed exchange and its books are made of.
LEMMA ExchangeParts ==
  ASSUME NEW e \in Exchange
  PROVE  /\ e.cash \in Int /\ NetOfTrades(e) \in Int /\ Unattributed(e) \in Int
         /\ \A s \in Symbols : e.position[s] \in Position \union {None} /\ Standing(e.position[s]) \in Int
<1>1. \A s \in Symbols : e.position[s] \in Position \union {None}
  BY DEF Exchange
<1>2. \A s \in Symbols : Standing(e.position[s]) \in Int
  BY <1>1 DEF Standing, Position
<1>3. Unattributed(e) \in Int
  BY <1>2, TotalOfInt DEF Unattributed
<1>4. NetOfTrades(e) \in Int
  <2>. DEFINE f == [i \in 1..Len(e.trades) |-> e.trades[i].net]
  <2>1. Len(e.trades) \in Nat /\ \A i \in 1..Len(e.trades) : e.trades[i] \in Trade
    BY DEF Exchange
  <2>2. Summands(f, Len(e.trades))
    BY <2>1 DEF Summands, Trade
  <2>. HIDE DEF f
  <2>3. Total(f, Len(e.trades)) \in Int
    BY <2>1, <2>2, TotalInt
  <2>. QED
    BY <2>3 DEF NetOfTrades, f
<1>. QED
  BY <1>1, <1>2, <1>3, <1>4 DEF Exchange

\* What becomes of the two sums when one position changes or a trade is added.
LEMMA PositionChanges ==
  ASSUME NEW e \in Exchange, NEW f \in Exchange, NEW s \in Symbols,
         \A u \in Symbols \ {s} : f.position[u] = e.position[u]
  PROVE  Unattributed(f) = Unattributed(e) + Standing(f.position[s]) - Standing(e.position[s])
<1>. DEFINE a == [u \in Symbols |-> Standing(e.position[u])]
            b == [u \in Symbols |-> Standing(f.position[u])]
<1>1. a \in [Symbols -> Int] /\ b \in [Symbols -> Int]
  BY ExchangeParts
<1>2. \A u \in Symbols \ {s} : b[u] = a[u]
  OBVIOUS
<1>3. a[s] = Standing(e.position[s]) /\ b[s] = Standing(f.position[s])
  OBVIOUS
<1>4. Unattributed(e) = TotalOf(a) /\ Unattributed(f) = TotalOf(b)
  BY DEF Unattributed
<1>. HIDE DEF a, b
<1>. QED
  BY <1>1, <1>2, <1>3, <1>4, OneAmountChanges

LEMMA TradeAdded ==
  ASSUME NEW e \in Exchange, NEW f, NEW trade \in Trade, f.trades = Append(e.trades, trade)
  PROVE  NetOfTrades(f) = NetOfTrades(e) + trade.net
<1>. DEFINE n == Len(e.trades)
            a == [i \in 1..n |-> e.trades[i].net]
            b == [i \in 1..(n + 1) |-> f.trades[i].net]
<1>1. n \in Nat /\ \A i \in 1..n : e.trades[i] \in Trade
  BY DEF Exchange
<1>2. Len(f.trades) = n + 1 /\ f.trades[n + 1] = trade /\ \A i \in 1..n : f.trades[i] = e.trades[i]
  BY DEF Exchange
<1>3. Summands(a, n) /\ (\A i \in 1..n : b[i] = a[i]) /\ b[n + 1] = trade.net /\ trade.net \in Int
  BY <1>1, <1>2 DEF Summands, Trade
<1>4. NetOfTrades(e) = Total(a, n) /\ NetOfTrades(f) = Total(b, n + 1)
  BY <1>2 DEF NetOfTrades
<1>. HIDE DEF a, b
<1>. QED
  BY <1>1, <1>3, <1>4, TotalOfMore

(***************************************************************************)
(* The operations of the exchange *)

\* Only symbol s is touched, and nothing of it waits that did not wait before.
PositionOnly(e, f, s) ==
  /\ f.resting = e.resting /\ f.scheduled = e.scheduled
  /\ \A u \in Symbols \ {s} : f.position[u] = e.position[u]

Elsewhere(e, f, s) ==
  \A u \in Symbols \ {s} :
    f.position[u] = e.position[u] /\ f.resting[u] = e.resting[u] /\ f.scheduled[u] = e.scheduled[u]

LEMMA NoneIsNothing ==
  None \notin Int /\ None \notin Position /\ None \notin Resting /\ None \notin Scheduled
BY SimulatedExchangeAssumption DEF SimulatedExchangeAssumption

LEMMA StandingOf ==
  /\ Standing(None) = 0
  /\ \A p \in Position : Standing(p) = p.fees + p.funding + p.carried
BY NoneIsNothing DEF Standing

\* An exchange with another account, position or list of trades.
Rebooked(e, f, s, now) ==
  f = [cash |-> f.cash, position |-> [e.position EXCEPT ![s] = now], resting |-> e.resting,
       scheduled |-> e.scheduled, trades |-> f.trades]

LEMMA Rebuilt ==
  ASSUME NEW e, e \in Exchange, NEW s, s \in Symbols, NEW now, now \in Position \union {None},
         NEW f, Rebooked(e, f, s, now), f.cash \in Int, f.trades \in Seq(Trade)
  PROVE  /\ f \in Exchange
         /\ f.position[s] = now /\ \A u \in Symbols \ {s} : f.position[u] = e.position[u]
         /\ f.resting = e.resting /\ f.scheduled = e.scheduled
<1>1. e.position \in [Symbols -> Position \union {None}]
  BY DEF Exchange
<1>2. [e.position EXCEPT ![s] = now] \in [Symbols -> Position \union {None}]
  BY <1>1
<1>3. /\ f.position = [e.position EXCEPT ![s] = now]
      /\ f.resting = e.resting /\ f.scheduled = e.scheduled
  BY DEF Rebooked
<1>4. e.resting \in [Symbols -> Resting \union {None}] /\ e.scheduled \in [Symbols -> Scheduled \union {None}]
  BY DEF Exchange
<1>5. f \in Exchange
  BY <1>2, <1>4 DEF Exchange, Rebooked
<1>. QED
  BY <1>1, <1>3, <1>5

\* A position is closed at a price: its trade carries what it cost and brought in.
IsBooked(e, f, s, exit, when, fee, reason) ==
  /\ exit \in Int /\ when \in Nat /\ fee \in Int
  /\ reason \in {"stop_loss", "take_profit", "model_exit", "run_end"}
  /\ f = Book([e EXCEPT !.cash = @ - fee], s, exit, when, fee, reason)

Ended(e, f, s, when, reason) ==
  /\ Typed(f) /\ (Balanced(e) => Balanced(f)) /\ PositionOnly(e, f, s)
  /\ f.position[s] = None
  /\ \E trade \in Trade :
       /\ f.trades = Append(e.trades, trade)
       /\ trade.since = e.position[s].since /\ trade.exit = when /\ trade.reason = reason

LEMMA BookKeeps ==
  ASSUME NEW e, Typed(e), NEW s \in Symbols, e.position[s] # None,
         NEW exit, NEW when, NEW fee, NEW reason, NEW f, IsBooked(e, f, s, exit, when, fee, reason)
  PROVE  Ended(e, f, s, when, reason)
<1>. DEFINE p == e.position[s]
            lifetime == Scale * Sign(p.side) * (exit * p.quantity - p.cost)
            net == lifetime - p.carried - p.fees - fee - p.funding
            trade == [net |-> net, exit |-> when, since |-> p.since, reason |-> reason]
            cash == e.cash - fee + lifetime
            trades == Append(e.trades, trade)
<1>. USE DEF IsBooked
<1>1. e \in Exchange /\ p \in Position
  BY DEF Typed, Exchange
<1>2. p.fees \in Int /\ p.funding \in Int /\ p.carried \in Int /\ p.since \in Nat
  BY <1>1 DEF Position
<1>3. lifetime \in Int
  <2>1. Scale * Sign(p.side) \in Int
    BY DEF Scale, Sign
  <2>2. exit * p.quantity - p.cost \in Int
    BY <1>1 DEF Position
  <2>. QED
    BY <2>1, <2>2
<1>4. Rebooked(e, f, s, None) /\ f.cash = cash /\ f.trades = trades
  BY <1>1 DEF Book, Exchange, Rebooked
<1>. HIDE DEF lifetime
<1>5. trade \in Trade
  BY <1>2, <1>3 DEF Trade
<1>6. /\ trades \in Seq(Trade) /\ cash \in Int
      /\ None \in Position \union {None}
  BY <1>1, <1>3, <1>5 DEF Exchange
<1>. HIDE DEF trade, cash, trades
<1>7. /\ f \in Exchange /\ f.cash = cash /\ f.trades = trades
      /\ f.resting = e.resting /\ f.scheduled = e.scheduled
  <2>1. f.cash \in Int /\ f.trades \in Seq(Trade)
    BY <1>4, <1>6
  <2>2. f \in Exchange /\ f.resting = e.resting /\ f.scheduled = e.scheduled
    <3>1. Rebooked(e, f, s, None)
      BY <1>4
    <3>2. None \in Position \union {None}
      OBVIOUS
    <3>3. e \in Exchange /\ f.cash \in Int /\ f.trades \in Seq(Trade)
      BY <1>1, <2>1
    <3>4. f.resting = e.resting /\ f.scheduled = e.scheduled
      BY <3>1 DEF Rebooked
    <3>5. f \in Exchange
      BY <3>1, <3>2, <3>3, Rebuilt
    <3>. QED
      BY <3>4, <3>5
  <2>. QED
    BY <1>4, <2>2
<1>8. f.position[s] = None /\ \A u \in Symbols \ {s} : f.position[u] = e.position[u]
  BY <1>1, <1>4, <1>6, Rebuilt
<1>9. Typed(f) /\ PositionOnly(e, f, s)
  BY <1>7, <1>8 DEF Typed, PositionOnly
<1>10. Balanced(e) => Balanced(f)
  <2>1. Unattributed(f) = Unattributed(e) - Standing(p)
    <3>1. Unattributed(f) = Unattributed(e) + Standing(f.position[s]) - Standing(e.position[s])
      BY <1>1, <1>7, <1>8, PositionChanges
    <3>2. Unattributed(e) \in Int /\ Standing(p) \in Int
      BY <1>1, ExchangeParts
    <3>. QED
      BY <1>8, <3>1, <3>2, StandingOf
  <2>2. Standing(p) = p.fees + p.funding + p.carried
    BY <1>1, StandingOf
  <2>3. NetOfTrades(f) = NetOfTrades(e) + net
    <3>1. NetOfTrades(f) = NetOfTrades(e) + trade.net
      BY <1>1, <1>5, <1>7, TradeAdded DEF trades
    <3>. QED
      BY <3>1 DEF trade
  <2>4. e.cash \in Int /\ NetOfTrades(e) \in Int /\ Unattributed(e) \in Int /\ Equity \in Int
    BY <1>1, ExchangeParts, SimulatedExchangeAssumption DEF SimulatedExchangeAssumption
  <2>5. net = lifetime - p.carried - p.fees - fee - p.funding /\ net \in Int
    BY <1>2, <1>3
  <2>6. Balanced(e) => e.cash = Equity + NetOfTrades(e) - Unattributed(e)
    BY DEF Balanced
  <2>7. f.cash = Equity + NetOfTrades(f) - Unattributed(f) => Balanced(f)
    BY DEF Balanced
  <2>. HIDE DEF net
  <2>. QED
    BY <1>2, <1>3, <1>7, <2>1, <2>2, <2>3, <2>4, <2>5, <2>6, <2>7 DEF cash
<1>11. trade.since = p.since /\ trade.exit = when /\ trade.reason = reason
  BY DEF trade
<1>. QED
  BY <1>5, <1>7, <1>8, <1>9, <1>10, <1>11 DEF trades, Ended

LEMMA PastMore ==
  ASSUME NEW e \in Exchange, NEW f, NEW t \in Nat, Past(e, t), NEW trade \in Trade,
         f.trades = Append(e.trades, trade), trade.since <= trade.exit,
         trade.exit + (IF trade.reason \in {"stop_loss", "take_profit"} THEN 2 ELSE 0) <= t
  PROVE  Past(f, t)
<1>1. Len(f.trades) = Len(e.trades) + 1 /\ f.trades[Len(e.trades) + 1] = trade
      /\ (\A i \in 1..Len(e.trades) : f.trades[i] = e.trades[i]) /\ Len(e.trades) \in Nat
  BY DEF Exchange
<1>2. \A i \in 1..Len(f.trades) : i = Len(e.trades) + 1 \/ i \in 1..Len(e.trades)
  BY <1>1
<1>. QED
  BY <1>1, <1>2 DEF Past

LEMMA PositionGrows ==
  ASSUME NEW p \in Position, NEW quantity, quantity \in Nat \ {0}, NEW cost, cost \in Int,
         NEW fees, fees \in Int, NEW stop, stop \in Int, NEW target, target \in Int \union {None}
  PROVE  [p EXCEPT !.quantity = quantity, !.cost = cost, !.fees = fees, !.stop = stop,
                   !.target = target] \in Position
BY DEF Position

\* A position is opened or added to: it carries its fee.
LEMMA OpenKeeps ==
  ASSUME NEW e, Typed(e), NEW s \in Symbols, NEW order \in Order, NEW fill \in Int, NEW when \in Nat,
         NEW fee \in Int, NEW f, f = OpenOrAdd([e EXCEPT !.cash = @ - fee], s, order, fill, when, fee)
  PROVE  /\ Typed(f) /\ (Balanced(e) => Balanced(f)) /\ PositionOnly(e, f, s)
         /\ f.position[s] # None /\ f.trades = e.trades
         /\ IF e.position[s] = None
            THEN f.position[s].since = when /\ f.position[s].decided = order.decided
            ELSE /\ f.position[s].since = e.position[s].since
                 /\ f.position[s].decided = e.position[s].decided
<1>. DEFINE p == e.position[s]
            opened == [side |-> order.side, quantity |-> order.quantity,
                       cost |-> fill * order.quantity, since |-> when, decided |-> order.decided,
                       stop |-> order.stop, target |-> order.target,
                       fees |-> fee, funding |-> 0, carried |-> 0]
            target == IF order.target = None THEN p.target ELSE order.target
            added == [p EXCEPT !.quantity = p.quantity + order.quantity,
                               !.cost = p.cost + fill * order.quantity,
                               !.fees = p.fees + fee,
                               !.stop = order.stop, !.target = target]
            now == IF p = None THEN opened ELSE added
<1>1. e \in Exchange /\ p \in Position \union {None} /\ e.cash \in Int
  BY DEF Typed, Exchange
<1>2. fill * order.quantity \in Int
  BY DEF Order
<1>3. f = [e EXCEPT !.cash = e.cash - fee, !.position = [e.position EXCEPT ![s] = now]]
  BY <1>1 DEF OpenOrAdd, Exchange
<1>4. CASE p = None
  <2>1. now = opened /\ opened \in Position
    BY <1>2, <1>4 DEF Position, Order
  <2>2. Standing(now) = Standing(p) + fee
    <3>1. Standing(opened) = opened.fees + opened.funding + opened.carried
      BY <2>1, StandingOf
    <3>2. Standing(p) = 0
      BY <1>4, StandingOf
    <3>. QED
      BY <2>1, <3>1, <3>2
  <2>3. now \in Position /\ now.since = when /\ now.decided = order.decided
    BY <2>1
  <2>. HIDE DEF now
  <2>4. /\ Rebooked(e, f, s, now) /\ f.cash = e.cash - fee /\ f.trades = e.trades
        /\ f.cash \in Int /\ f.trades \in Seq(Trade)
    <3>1. f.cash = e.cash - fee /\ f.trades = e.trades
      BY <1>1, <1>3 DEF Exchange
    <3>2. f.cash \in Int /\ f.trades \in Seq(Trade)
      BY <1>1, <3>1 DEF Exchange
    <3>3. Rebooked(e, f, s, now)
      BY <1>1, <1>3 DEF Exchange, Rebooked
    <3>. QED
      BY <3>1, <3>2, <3>3
  <2>5. /\ f \in Exchange /\ f.cash = e.cash - fee /\ f.trades = e.trades
        /\ f.resting = e.resting /\ f.scheduled = e.scheduled
    BY <1>1, <2>3, <2>4, Rebuilt
  <2>6. f.position[s] = now /\ \A u \in Symbols \ {s} : f.position[u] = e.position[u]
    BY <1>1, <2>3, <2>4, Rebuilt
  <2>7. Typed(f) /\ PositionOnly(e, f, s)
    BY <2>5, <2>6 DEF Typed, PositionOnly
  <2>8. Balanced(e) => Balanced(f)
    <3>1. Unattributed(f) = Unattributed(e) + Standing(f.position[s]) - Standing(e.position[s])
      BY <1>1, <2>5, <2>6, PositionChanges
    <3>2. e.cash \in Int /\ NetOfTrades(e) \in Int /\ Unattributed(e) \in Int /\ Standing(p) \in Int
      BY <1>1, ExchangeParts
    <3>3. NetOfTrades(f) = NetOfTrades(e)
      BY <2>5 DEF NetOfTrades
    <3>4. Equity \in Int
      BY SimulatedExchangeAssumption DEF SimulatedExchangeAssumption
    <3>. QED
      BY <2>2, <2>5, <2>6, <3>1, <3>2, <3>3, <3>4 DEF Balanced
  <2>9. f.position[s] # None
    BY <2>3, <2>6, NoneIsNothing
  <2>. QED
    BY <1>4, <2>3, <2>5, <2>6, <2>7, <2>8, <2>9
<1>5. CASE p # None
  <2>1. now = added /\ p \in Position
    BY <1>1, <1>5
  <2>2. p.quantity \in Nat \ {0} /\ order.quantity \in Nat \ {0} /\ p.cost \in Int /\ p.fees \in Int
    BY <2>1 DEF Position, Order
  <2>3. p.quantity + order.quantity \in Nat \ {0}
    BY <2>2
  <2>4. added \in Position
    <3>3. order.stop \in Int /\ order.target \in Int \union {None} /\ p.target \in Int \union {None}
      BY <2>1 DEF Order, Position
    <3>4. p.cost + fill * order.quantity \in Int /\ p.fees + fee \in Int
      BY <1>2, <2>2
    <3>5. target \in Int \union {None}
      BY <3>3
    <3>. HIDE DEF target
    <3>. QED
      BY <2>1, <2>3, <3>3, <3>4, <3>5, PositionGrows
  <2>5. added.fees = p.fees + fee /\ added.funding = p.funding /\ added.carried = p.carried
        /\ added.since = p.since /\ added.decided = p.decided
    BY <2>1 DEF Position
  <2>6. Standing(now) = Standing(p) + fee
    <3>1. Standing(added) = added.fees + added.funding + added.carried
      BY <2>4, StandingOf
    <3>2. Standing(p) = p.fees + p.funding + p.carried
      BY <2>1, StandingOf
    <3>3. p.funding \in Int /\ p.carried \in Int
      BY <2>1 DEF Position
    <3>. HIDE DEF added
    <3>. QED
      BY <2>1, <2>2, <2>5, <3>1, <3>2, <3>3
  <2>7. now \in Position /\ now.since = p.since /\ now.decided = p.decided
    BY <2>1, <2>4, <2>5
  <2>. HIDE DEF now
  <2>8. /\ Rebooked(e, f, s, now) /\ f.cash = e.cash - fee /\ f.trades = e.trades
        /\ f.cash \in Int /\ f.trades \in Seq(Trade)
    <3>1. f.cash = e.cash - fee /\ f.trades = e.trades
      BY <1>1, <1>3 DEF Exchange
    <3>2. f.cash \in Int /\ f.trades \in Seq(Trade)
      BY <1>1, <3>1 DEF Exchange
    <3>3. Rebooked(e, f, s, now)
      BY <1>1, <1>3 DEF Exchange, Rebooked
    <3>. QED
      BY <3>1, <3>2, <3>3
  <2>9. /\ f \in Exchange /\ f.cash = e.cash - fee /\ f.trades = e.trades
        /\ f.resting = e.resting /\ f.scheduled = e.scheduled
    BY <1>1, <2>7, <2>8, Rebuilt
  <2>10. f.position[s] = now /\ \A u \in Symbols \ {s} : f.position[u] = e.position[u]
    BY <1>1, <2>7, <2>8, Rebuilt
  <2>11. Typed(f) /\ PositionOnly(e, f, s)
    BY <2>9, <2>10 DEF Typed, PositionOnly
  <2>12. Balanced(e) => Balanced(f)
    <3>1. Unattributed(f) = Unattributed(e) + Standing(f.position[s]) - Standing(e.position[s])
      BY <1>1, <2>9, <2>10, PositionChanges
    <3>2. e.cash \in Int /\ NetOfTrades(e) \in Int /\ Unattributed(e) \in Int /\ Standing(p) \in Int
      BY <1>1, ExchangeParts
    <3>3. NetOfTrades(f) = NetOfTrades(e)
      BY <2>9 DEF NetOfTrades
    <3>4. Equity \in Int
      BY SimulatedExchangeAssumption DEF SimulatedExchangeAssumption
    <3>. QED
      BY <2>6, <2>9, <2>10, <3>1, <3>2, <3>3, <3>4 DEF Balanced
  <2>13. f.position[s] # None
    BY <2>7, <2>10, NoneIsNothing
  <2>. QED
    BY <1>5, <2>7, <2>9, <2>10, <2>11, <2>12, <2>13
<1>. QED
  BY <1>4, <1>5

\* The price of a fill is one.
LEMMA FillPrice ==
  ASSUME NEW order \in Order, NEW base \in Int
  PROVE  /\ Slipped(base, Buys(order)) \in Int
         /\ order.limit # None => order.limit \in Int
<1>1. Slip \in Int
  BY SimulatedExchangeAssumption DEF SimulatedExchangeAssumption
<1>. QED
  BY <1>1 DEF Slipped, Order

\* An order fills when bar k opens.
LEMMA FillKeeps ==
  ASSUME NEW e, NEW s \in Symbols, NEW k \in Nat, NEW t \in Nat, Good(e, s, k, t), Opens(k) <= t,
         NEW order \in Order, order.decided <= Opens(k), order.reduceOnly => e.position[s] # None,
         NEW base \in Int, NEW f, f = Fill(e, s, order, base, Opens(k))
  PROVE  Good(f, s, k, t) /\ PositionOnly(e, f, s)
<1>. DEFINE slipped == Slipped(base, Buys(order))
            price == IF order.limit = None THEN slipped
                     ELSE IF Buys(order) THEN Smaller(slipped, order.limit)
                     ELSE Larger(slipped, order.limit)
            fee == price * order.quantity * FeeRate
<1>1. price \in Int
  <2>1. slipped \in Int /\ (order.limit # None => order.limit \in Int)
    BY FillPrice
  <2>. HIDE DEF slipped
  <2>. QED
    BY <2>1 DEF Smaller, Larger
<1>2. fee \in Int
  <2>1. price * order.quantity \in Int
    BY <1>1 DEF Order
  <2>2. FeeRate \in Int
    BY SimulatedExchangeAssumption DEF SimulatedExchangeAssumption
  <2>. HIDE DEF price
  <2>. QED
    BY <2>1, <2>2
<1>3. f = IF ~order.reduceOnly THEN OpenOrAdd([e EXCEPT !.cash = @ - fee], s, order, price, Opens(k), fee)
          ELSE IF e.position[s] = None THEN [e EXCEPT !.cash = @ - fee]
          ELSE Book([e EXCEPT !.cash = @ - fee], s, price, Opens(k), fee, "model_exit")
  <2>1. Typed(e) /\ e.position[s] = [e EXCEPT !.cash = @ - fee].position[s]
    BY DEF Good, Typed, Exchange
  <2>. QED
    BY <2>1 DEF Fill
<1>. HIDE DEF fee, price
<1>4. Typed(e) /\ Balanced(e) /\ Past(e, t) /\ Opens(k) \in Nat /\ e \in Exchange
  BY DEF Good, Typed, Opens
<1>5. OnTime(e, s, k)
  BY DEF Good
<1>6. CASE ~order.reduceOnly
  <2>. DEFINE p == e.position[s]
  <2>1. f = OpenOrAdd([e EXCEPT !.cash = @ - fee], s, order, price, Opens(k), fee)
    BY <1>3, <1>6
  <2>2. /\ Typed(f) /\ Balanced(f) /\ PositionOnly(e, f, s) /\ f.trades = e.trades
        /\ IF p = None
           THEN f.position[s].since = Opens(k) /\ f.position[s].decided = order.decided
           ELSE f.position[s].since = p.since /\ f.position[s].decided = p.decided
    BY <1>1, <1>2, <1>4, <2>1, OpenKeeps
  <2>3. f.position[s].decided <= f.position[s].since /\ f.position[s].since <= Opens(k)
    <3>1. CASE p = None
      BY <1>4, <2>2, <3>1
    <3>2. CASE p # None
      BY <1>5, <2>2, <3>2 DEF OnTime
    <3>. QED
      BY <3>1, <3>2
  <2>4. f.resting = e.resting /\ f.scheduled = e.scheduled
    BY <2>2 DEF PositionOnly
  <2>5. OnTime(f, s, k)
    BY <1>5, <2>3, <2>4 DEF OnTime
  <2>6. Past(f, t)
    BY <1>4, <2>2 DEF Past
  <2>. QED
    BY <2>2, <2>5, <2>6 DEF Good
<1>7. CASE order.reduceOnly
  <2>1. e.position[s] # None
    BY <1>7
  <2>2. f = Book([e EXCEPT !.cash = @ - fee], s, price, Opens(k), fee, "model_exit")
    BY <1>3, <1>7, <2>1
  <2>3. Ended(e, f, s, Opens(k), "model_exit")
    <3>1. IsBooked(e, f, s, price, Opens(k), fee, "model_exit")
      BY <1>1, <1>2, <1>4, <2>2 DEF IsBooked
    <3>. QED
      BY <1>4, <2>1, <3>1, BookKeeps
  <2>4. PICK trade \in Trade :
          /\ f.trades = Append(e.trades, trade)
          /\ trade.since = e.position[s].since /\ trade.exit = Opens(k) /\ trade.reason = "model_exit"
    BY <2>3 DEF Ended
  <2>5. trade.since <= trade.exit
    BY <1>5, <2>1, <2>4 DEF OnTime
  <2>6. trade.exit + (IF trade.reason \in {"stop_loss", "take_profit"} THEN 2 ELSE 0) <= t
    BY <1>4, <2>4
  <2>7. Past(f, t)
    BY <1>4, <2>4, <2>5, <2>6, PastMore
  <2>8. f.resting = e.resting /\ f.scheduled = e.scheduled
    BY <2>3 DEF Ended, PositionOnly
  <2>9. OnTime(f, s, k)
    BY <1>5, <2>3, <2>8 DEF Ended, OnTime
  <2>. QED
    BY <1>4, <2>3, <2>7, <2>9 DEF Ended, Good
<1>. QED
  BY <1>6, <1>7

\* A position ends at its stop or target in bar k, or at a mark.
LEMMA TriggerBooks ==
  ASSUME NEW e, Typed(e), NEW s \in Symbols, e.position[s] # None, NEW price, price \in Int,
         NEW when, when \in Nat, NEW reason, reason \in {"stop_loss", "take_profit", "run_end"},
         NEW f, f = Trigger(e, s, price, when, reason)
  PROVE  Ended(e, f, s, when, reason)
<1>. DEFINE p == e.position[s]
            fill == Slipped(price, p.side = "SHORT")
            fee == fill * p.quantity * FeeRate
<1>1. p \in Position
  BY DEF Typed, Exchange
<1>2. Slip \in Int /\ FeeRate \in Int
  BY SimulatedExchangeAssumption DEF SimulatedExchangeAssumption
<1>3. fill \in Int
  BY <1>2 DEF Slipped
<1>4. fee \in Int
  <2>1. fill * p.quantity \in Int
    BY <1>1, <1>3 DEF Position
  <2>. HIDE DEF fill
  <2>. QED
    BY <1>2, <2>1
<1>5. f = Book([e EXCEPT !.cash = @ - fee], s, fill, when, fee, reason)
  BY DEF Trigger
<1>. HIDE DEF fee, fill, p
<1>6. IsBooked(e, f, s, fill, when, fee, reason)
  BY <1>3, <1>4, <1>5 DEF IsBooked
<1>. QED
  BY <1>6, BookKeeps

LEMMA TriggerKeeps ==
  ASSUME NEW e, NEW s \in Symbols, NEW k \in Nat, NEW t \in Nat, Good(e, s, k, t), Closes(k) <= t,
         e.position[s] # None, NEW price, price \in Int,
         NEW reason, reason \in {"stop_loss", "take_profit"},
         NEW f, f = Trigger(e, s, price, Opens(k), reason)
  PROVE  Good(f, s, k, t) /\ PositionOnly(e, f, s) /\ f.position[s] = None
<1>1. Typed(e) /\ Balanced(e) /\ Past(e, t) /\ OnTime(e, s, k) /\ Opens(k) \in Nat /\ e \in Exchange
  BY DEF Good, Typed, Opens
<1>2. Opens(k) + 2 <= t
  BY DEF Opens, Closes
<1>3. Ended(e, f, s, Opens(k), reason)
  BY <1>1, TriggerBooks
<1>4. PICK trade \in Trade :
        /\ f.trades = Append(e.trades, trade)
        /\ trade.since = e.position[s].since /\ trade.exit = Opens(k) /\ trade.reason = reason
  BY <1>3 DEF Ended
<1>5. trade.since <= trade.exit
  BY <1>1, <1>4 DEF OnTime
<1>6. trade.exit + (IF trade.reason \in {"stop_loss", "take_profit"} THEN 2 ELSE 0) <= t
  BY <1>1, <1>2, <1>4
<1>7. Past(f, t)
  BY <1>1, <1>4, <1>5, <1>6, PastMore
<1>8. f.resting = e.resting /\ f.scheduled = e.scheduled
  BY <1>3 DEF Ended, PositionOnly
<1>9. OnTime(f, s, k)
  BY <1>1, <1>3, <1>8 DEF Ended, OnTime
<1>. QED
  BY <1>1, <1>3, <1>7, <1>9 DEF Ended, Good

LEMMA ApplyTriggersKeeps ==
  ASSUME NEW e, NEW s \in Symbols, NEW k \in Nat, NEW t \in Nat, Good(e, s, k, t), Closes(k) <= t,
         NEW bar, bar \in Bar, NEW f,
         \E allow \in BOOLEAN : f = ApplyTriggers(e, s, bar, Opens(k), allow)
  PROVE  Good(f, s, k, t) /\ PositionOnly(e, f, s)
<1>. DEFINE p == e.position[s]
<1>1. p \in Position \union {None}
  BY DEF Good, Typed, Exchange
<1>2. CASE f = e
  BY <1>2 DEF PositionOnly
<1>3. CASE p # None /\ f = Trigger(e, s, p.stop, Opens(k), "stop_loss")
  <2>1. p.stop \in Int
    BY <1>1, <1>3 DEF Position
  <2>. QED
    BY <1>3, <2>1, TriggerKeeps
<1>4. CASE p # None /\ Took(p, bar) /\ f = Trigger(e, s, p.target, Opens(k), "take_profit")
  <2>1. p.target \in Int
    BY <1>1, <1>4 DEF Position, Took
  <2>. QED
    BY <1>4, <2>1, TriggerKeeps
<1>. QED
  BY <1>2, <1>3, <1>4 DEF ApplyTriggers

LEMMA FundingKeeps ==
  ASSUME NEW e, NEW s \in Symbols, NEW k \in Nat, NEW t \in Nat, Good(e, s, k, t),
         NEW bar, bar \in Bar, NEW f, f = ChargeFunding(e, s, bar)
  PROVE  Good(f, s, k, t) /\ PositionOnly(e, f, s)
<1>. DEFINE p == e.position[s]
            due == p.quantity * bar.close * bar.funding * Sign(p.side)
            now == [p EXCEPT !.funding = p.funding + due]
<1>1. Typed(e) /\ Balanced(e) /\ Past(e, t) /\ OnTime(e, s, k) /\ e \in Exchange
      /\ p \in Position \union {None} /\ e.cash \in Int
  BY DEF Good, Typed, Exchange
<1>2. CASE p = None
  BY <1>2 DEF ChargeFunding, PositionOnly
<1>3. CASE p # None
  <2>1. p \in Position /\ p.funding \in Int
    BY <1>1, <1>3 DEF Position
  <2>2. due \in Int
    <3>1. p.quantity * bar.close \in Int
      BY <2>1 DEF Position, Bar
    <3>2. p.quantity * bar.close * bar.funding \in Int
      BY <3>1 DEF Bar
    <3>. QED
      BY <3>2 DEF Sign
  <2>3. f = [e EXCEPT !.cash = e.cash - due, !.position = [e.position EXCEPT ![s] = now]]
    BY <1>1, <1>3 DEF ChargeFunding, Exchange
  <2>. HIDE DEF due
  <2>4. now \in Position
    BY <2>1, <2>2 DEF Position
  <2>5. now.fees = p.fees /\ now.carried = p.carried /\ now.funding = p.funding + due
        /\ now.since = p.since /\ now.decided = p.decided
    BY <2>1 DEF Position
  <2>6. Standing(now) = Standing(p) + due
    <3>1. Standing(now) = now.fees + now.funding + now.carried /\ Standing(p) = p.fees + p.funding + p.carried
      BY <2>1, <2>4, StandingOf
    <3>2. p.fees \in Int /\ p.carried \in Int
      BY <2>1 DEF Position
    <3>. HIDE DEF now
    <3>. QED
      BY <2>1, <2>2, <2>5, <3>1, <3>2
  <2>. HIDE DEF now
  <2>7. /\ f.cash = e.cash - due /\ f.trades = e.trades
    BY <1>1, <2>3 DEF Exchange
  <2>8. f.cash \in Int /\ f.trades \in Seq(Trade)
    BY <1>1, <2>2, <2>7 DEF Exchange
  <2>9. Rebooked(e, f, s, now)
    BY <1>1, <2>3 DEF Exchange, Rebooked
  <2>10. f \in Exchange /\ f.resting = e.resting /\ f.scheduled = e.scheduled
    BY <1>1, <2>4, <2>8, <2>9, Rebuilt
  <2>11. f.position[s] = now /\ \A u \in Symbols \ {s} : f.position[u] = e.position[u]
    BY <1>1, <2>4, <2>8, <2>9, Rebuilt
  <2>12. Typed(f) /\ PositionOnly(e, f, s)
    BY <1>1, <2>10, <2>11 DEF Typed, PositionOnly
  <2>13. Balanced(f)
    <3>1. Unattributed(f) = Unattributed(e) + Standing(f.position[s]) - Standing(e.position[s])
      BY <1>1, <2>10, <2>11, PositionChanges
    <3>2. e.cash \in Int /\ NetOfTrades(e) \in Int /\ Unattributed(e) \in Int /\ Standing(p) \in Int
      BY <1>1, ExchangeParts
    <3>3. NetOfTrades(f) = NetOfTrades(e)
      BY <2>7 DEF NetOfTrades
    <3>4. Equity \in Int
      BY SimulatedExchangeAssumption DEF SimulatedExchangeAssumption
    <3>. QED
      BY <1>1, <2>2, <2>6, <2>7, <2>11, <3>1, <3>2, <3>3, <3>4 DEF Balanced
  <2>14. Past(f, t)
    BY <1>1, <2>7 DEF Past
  <2>15. OnTime(f, s, k)
    BY <1>1, <1>3, <2>5, <2>10, <2>11 DEF OnTime
  <2>. QED
    BY <2>12, <2>13, <2>14, <2>15 DEF Good
<1>. QED
  BY <1>2, <1>3


\* What waits may change without the books knowing.
SameBooks(e, f) == f.cash = e.cash /\ f.position = e.position /\ f.trades = e.trades

LEMMA BooksStay ==
  ASSUME NEW e, NEW f, NEW s, NEW k, NEW t, Good(e, s, k, t), SameBooks(e, f), Typed(f), OnTime(f, s, k)
  PROVE  Good(f, s, k, t)
<1>1. NetOfTrades(f) = NetOfTrades(e) /\ Unattributed(f) = Unattributed(e)
  BY DEF SameBooks, NetOfTrades, Unattributed
<1>2. Balanced(f)
  BY <1>1 DEF Good, Balanced, SameBooks
<1>3. Past(f, t)
  BY DEF Good, Past, SameBooks
<1>. QED
  BY <1>2, <1>3 DEF Good

\* A limit that the bar does not reach at once rests.
LEMMA RestKeeps ==
  ASSUME NEW e, NEW s \in Symbols, NEW k \in Nat, NEW t \in Nat, Good(e, s, k, t),
         NEW rest, rest \in Resting \union {None}, rest # None => rest.order.decided <= rest.since,
         NEW f, f = [e EXCEPT !.resting[s] = rest]
  PROVE  Good(f, s, k, t) /\ Elsewhere(e, f, s) /\ f.scheduled = e.scheduled /\ f.position = e.position
<1>1. e \in Exchange /\ Typed(e) /\ OnTime(e, s, k)
  BY DEF Good, Typed
<1>2. SameBooks(e, f) /\ f.scheduled = e.scheduled
  BY <1>1 DEF Exchange, SameBooks
<1>3. f.resting = [e.resting EXCEPT ![s] = rest] /\ e.resting \in [Symbols -> Resting \union {None}]
  BY <1>1 DEF Exchange
<1>4. f.resting[s] = rest /\ \A u \in Symbols \ {s} : f.resting[u] = e.resting[u]
  BY <1>3
<1>5. f \in Exchange
  <2>1. f.resting \in [Symbols -> Resting \union {None}]
    BY <1>3
  <2>. QED
    BY <1>1, <1>3, <2>1 DEF Exchange
<1>6. Typed(f)
  BY <1>1, <1>2, <1>5 DEF Typed
<1>7. OnTime(f, s, k)
  BY <1>1, <1>2, <1>4 DEF OnTime, SameBooks
<1>8. Elsewhere(e, f, s)
  BY <1>2, <1>4 DEF Elsewhere, SameBooks
<1>. QED
  BY <1>2, <1>6, <1>7, <1>8, BooksStay DEF SameBooks

\* An order is scheduled, or taken off the schedule.
Planned(e, f, s, plan, k) ==
  /\ f = [e EXCEPT !.scheduled[s] = plan]
  /\ plan \in Scheduled \union {None}
  /\ plan # None => plan.order.decided <= Opens(plan.bar) /\ k <= plan.bar /\ plan.bar < NumBars

LEMMA ScheduleKeeps ==
  ASSUME NEW e, NEW s \in Symbols, NEW k \in Nat, NEW t \in Nat, Good(e, s, k, t),
         NEW f, NEW plan, Planned(e, f, s, plan, k)
  PROVE  Good(f, s, k, t) /\ Elsewhere(e, f, s) /\ f.scheduled[s] = plan /\ f.position = e.position
<1>. USE DEF Planned
<1>1. e \in Exchange /\ Typed(e) /\ OnTime(e, s, k)
  BY DEF Good, Typed
<1>2. SameBooks(e, f) /\ f.resting = e.resting
  BY <1>1 DEF Exchange, SameBooks
<1>3. f.scheduled = [e.scheduled EXCEPT ![s] = plan] /\ e.scheduled \in [Symbols -> Scheduled \union {None}]
  BY <1>1 DEF Exchange
<1>4. f.scheduled[s] = plan /\ \A u \in Symbols \ {s} : f.scheduled[u] = e.scheduled[u]
  BY <1>3
<1>5. f \in Exchange
  <2>1. f.scheduled \in [Symbols -> Scheduled \union {None}]
    BY <1>3
  <2>. QED
    BY <1>1, <1>3, <2>1 DEF Exchange
<1>6. Typed(f)
  BY <1>1, <1>4, <1>5 DEF Typed
<1>7. OnTime(f, s, k)
  BY <1>1, <1>2, <1>4 DEF OnTime, SameBooks
<1>8. Elsewhere(e, f, s)
  BY <1>2, <1>4 DEF Elsewhere, SameBooks
<1>. QED
  BY <1>2, <1>4, <1>6, <1>7, <1>8, BooksStay DEF SameBooks

LEMMA OnlyIsElsewhere ==
  ASSUME NEW e, NEW f, NEW s, PositionOnly(e, f, s)
  PROVE  Elsewhere(e, f, s)
BY DEF PositionOnly, Elsewhere

LEMMA ElsewhereChains ==
  ASSUME NEW e, NEW f, NEW g, NEW s, Elsewhere(e, f, s), Elsewhere(f, g, s)
  PROVE  Elsewhere(e, g, s)
BY DEF Elsewhere

\* An order that may be placed when bar k opens.
Placeable(e, s, order, k) ==
  /\ order \in Order /\ order.decided <= Opens(k)
  /\ order.reduceOnly => e.position[s] # None

LEMMA FillPlaced ==
  ASSUME NEW e, NEW s \in Symbols, NEW k \in Nat, NEW t \in Nat, Good(e, s, k, t), Opens(k) <= t,
         NEW order, Placeable(e, s, order, k), NEW base, base \in Int, NEW f, f = Fill(e, s, order, base, Opens(k))
  PROVE  Good(f, s, k, t) /\ PositionOnly(e, f, s)
BY FillKeeps DEF Placeable

LEMMA ExecuteAtKeeps ==
  ASSUME NEW e, NEW s \in Symbols, NEW k \in Nat, NEW t \in Nat, Good(e, s, k, t), Opens(k) <= t,
         NEW order, Placeable(e, s, order, k), NEW base, base \in Int,
         NEW f, f = ExecuteAt(e, s, order, base, Opens(k))
  PROVE  Good(f, s, k, t) /\ Elsewhere(e, f, s) /\ f.scheduled = e.scheduled
<1>1. CASE f = Fill(e, s, order, base, Opens(k))
  <2>1. Good(f, s, k, t) /\ PositionOnly(e, f, s)
    BY <1>1, FillPlaced
  <2>. QED
    BY <2>1, OnlyIsElsewhere DEF PositionOnly
<1>2. CASE f = [e EXCEPT !.resting[s] = [order |-> order, since |-> Opens(k)]]
  <2>. DEFINE rest == [order |-> order, since |-> Opens(k)]
  <2>1. rest \in Resting /\ rest.order.decided <= rest.since
    BY DEF Placeable, Resting, Opens
  <2>. HIDE DEF rest
  <2>2. rest \in Resting \union {None}
    BY <2>1
  <2>3. f = [e EXCEPT !.resting[s] = rest]
    BY <1>2 DEF rest
  <2>. QED
    BY <2>1, <2>2, <2>3, RestKeeps
<1>. QED
  BY <1>1, <1>2 DEF ExecuteAt

\* The order scheduled for bar k is placed when that bar opens, before the bar
\* is settled; what stays on the schedule is for a later bar.
LEMMA ActivateKeeps ==
  ASSUME NEW e, NEW s \in Symbols, NEW k \in Nat, NEW t \in Nat, Good(e, s, k, t),
         NEW through \in Nat, Opens(k) <= through, through < Closes(k), through <= t,
         bars \in [Symbols -> [0..(NumBars - 1) -> Bar]], NumBars \in Nat,
         NEW f, f = Activate(e, s, through, bars)
  PROVE  Good(f, s, k, t) /\ Elsewhere(e, f, s) /\ (f.scheduled[s] # None => k < f.scheduled[s].bar)
<1>. DEFINE plan == e.scheduled[s]
            taken == [e EXCEPT !.scheduled[s] = None]
            base == bars[s][plan.bar].open
<1>1. /\ plan \in Scheduled \union {None}
      /\ plan # None => plan.bar < NumBars /\ plan.order.decided <= Opens(plan.bar) /\ k <= plan.bar
  BY DEF Good, Typed, Exchange, OnTime
<1>2. CASE plan = None \/ Opens(plan.bar) > through
  <2>1. f = e
    BY <1>2 DEF Activate
  <2>2. plan # None => k < plan.bar
    <3>. SUFFICES ASSUME plan # None PROVE k < plan.bar
      OBVIOUS
    <3>1. plan.bar \in Nat /\ Opens(plan.bar) > through
      BY <1>1, <1>2 DEF Scheduled
    <3>. HIDE DEF plan
    <3>. QED
      BY <3>1 DEF Opens
  <2>. QED
    BY <2>1, <2>2 DEF Elsewhere
<1>3. CASE plan # None /\ ~(Opens(plan.bar) > through)
  <2>1. plan \in Scheduled /\ plan.bar \in Nat /\ plan.order \in Order
    BY <1>1, <1>3 DEF Scheduled
  <2>2. plan.bar = k
    <3>1. k <= plan.bar /\ Opens(plan.bar) <= through
      BY <1>1, <1>3, <2>1 DEF Opens
    <3>. HIDE DEF plan
    <3>. QED
      BY <2>1, <3>1 DEF Opens, Closes
  <2>3. Good(taken, s, k, t) /\ Elsewhere(e, taken, s) /\ taken.scheduled[s] = None /\ taken.position = e.position
    <3>1. Planned(e, taken, s, None, k)
      BY DEF Planned
    <3>. HIDE DEF taken
    <3>. QED
      BY <3>1, ScheduleKeeps
  <2>4. base \in Int
    <3>1. plan.bar \in 0..(NumBars - 1)
      BY <1>1, <1>3, <2>1
    <3>2. bars[s][plan.bar] \in Bar
      BY <3>1
    <3>. QED
      BY <3>2 DEF Bar
  <2>5. CASE plan.order.reduceOnly /\ e.position[s] = None
    <3>1. f = taken
      BY <1>3, <2>5 DEF Activate
    <3>. HIDE DEF taken
    <3>. QED
      BY <2>3, <3>1
  <2>6. CASE ~(plan.order.reduceOnly /\ e.position[s] = None)
    <3>1. f = ExecuteAt(taken, s, plan.order, base, Opens(k))
      BY <1>3, <2>2, <2>6 DEF Activate
    <3>2. Placeable(taken, s, plan.order, k)
      BY <1>1, <1>3, <2>1, <2>2, <2>3, <2>6 DEF Placeable
    <3>3. Opens(k) <= t
      BY DEF Opens
    <3>. HIDE DEF taken, plan, base
    <3>4. Good(f, s, k, t) /\ Elsewhere(taken, f, s) /\ f.scheduled = taken.scheduled
      BY <2>3, <2>4, <3>1, <3>2, <3>3, ExecuteAtKeeps
    <3>5. Elsewhere(e, f, s)
      BY <2>3, <3>4, ElsewhereChains
    <3>. QED
      BY <2>3, <3>4, <3>5
  <2>. QED
    BY <2>5, <2>6
<1>. QED
  BY <1>2, <1>3

(***************************************************************************)
(* One bar *)

LEMMA PositionOnlyChains ==
  ASSUME NEW e, NEW f, NEW g, NEW s, PositionOnly(e, f, s), PositionOnly(f, g, s)
  PROVE  PositionOnly(e, g, s)
BY DEF PositionOnly

\* What waits at the exchange meets the bar.
LEMMA FillRestingKeeps ==
  ASSUME NEW e, NEW s \in Symbols, NEW k \in Nat, NEW t \in Nat, Good(e, s, k, t), Closes(k) <= t,
         NEW bar, bar \in Bar, NEW f, f = FillResting(e, s, bar, Opens(k))
  PROVE  Good(f, s, k, t) /\ Elsewhere(e, f, s) /\ f.scheduled = e.scheduled
<1>. DEFINE waiting == e.resting[s]
            order == waiting.order
            atOpen == Marketable(order, bar.open)
            base == IF atOpen THEN bar.open ELSE order.limit
            taken == [e EXCEPT !.resting[s] = None]
            filled == Fill(taken, s, order, base, Opens(k))
<1>1. waiting \in Resting \union {None} /\ (waiting # None => order.decided <= waiting.since)
      /\ Opens(k) \in Nat /\ Opens(k) <= t
  BY DEF Good, Typed, Exchange, OnTime, Opens, Closes
<1>2. CASE f = e
  BY <1>2 DEF Elsewhere
<1>3. CASE waiting # None /\ ~(Opens(k) < waiting.since) /\ f # e
  <2>1. waiting \in Resting /\ order \in Order /\ waiting.since \in Nat /\ order.decided \in Nat
    BY <1>1, <1>3 DEF Resting, Order
  <2>2. Good(taken, s, k, t) /\ Elsewhere(e, taken, s) /\ taken.scheduled = e.scheduled
        /\ taken.position = e.position
    <3>1. None \in Resting \union {None}
      OBVIOUS
    <3>. HIDE DEF waiting
    <3>. QED
      BY <3>1, RestKeeps
  <2>3. CASE f = taken
    <3>. HIDE DEF taken
    <3>. QED
      BY <2>2, <2>3
  <2>4. CASE f # taken
    <3>1. ~(order.reduceOnly /\ e.position[s] = None)
          /\ f = IF order.reduceOnly THEN filled ELSE ApplyTriggers(filled, s, bar, Opens(k), atOpen)
      BY <1>3, <2>4 DEF FillResting
    <3>2. order.decided <= Opens(k)
      BY <1>1, <1>3, <2>1
    <3>3. Placeable(taken, s, order, k)
      BY <2>1, <2>2, <3>1, <3>2 DEF Placeable
    <3>4. base \in Int
      BY <2>1 DEF Bar, Order, Marketable
    <3>5. atOpen \in BOOLEAN
      BY DEF Marketable
    <3>. HIDE DEF taken, base, order, atOpen
    <3>6. Good(filled, s, k, t) /\ PositionOnly(taken, filled, s)
      BY <1>1, <2>2, <3>3, <3>4, FillPlaced
    <3>. HIDE DEF filled
    <3>7. CASE order.reduceOnly
      <4>1. f = filled
        BY <3>1, <3>7
      <4>2. Elsewhere(taken, filled, s)
        BY <3>6, OnlyIsElsewhere
      <4>3. Elsewhere(e, filled, s)
        BY <2>2, <4>2, ElsewhereChains
      <4>. QED
        BY <2>2, <3>6, <4>1, <4>3 DEF PositionOnly
    <3>8. CASE ~order.reduceOnly
      <4>1. f = ApplyTriggers(filled, s, bar, Opens(k), atOpen)
        BY <3>1, <3>8
      <4>2. Good(f, s, k, t) /\ PositionOnly(filled, f, s)
        <5>1. \E allow \in BOOLEAN : f = ApplyTriggers(filled, s, bar, Opens(k), allow)
          BY <3>5, <4>1
        <5>. QED
          BY <3>6, <5>1, ApplyTriggersKeeps
      <4>3. PositionOnly(taken, f, s)
        BY <3>6, <4>2, PositionOnlyChains
      <4>4. Elsewhere(taken, f, s)
        BY <4>3, OnlyIsElsewhere
      <4>5. Elsewhere(e, f, s)
        BY <2>2, <4>4, ElsewhereChains
      <4>. QED
        BY <2>2, <4>2, <4>3, <4>5 DEF PositionOnly
    <3>. QED
      BY <3>7, <3>8
  <2>. QED
    BY <2>3, <2>4
<1>. QED
  BY <1>2, <1>3 DEF FillResting

LEMMA SettleKeeps ==
  ASSUME NEW e, NEW s \in Symbols, NEW k \in Nat, NEW t \in Nat, Good(e, s, k, t), Closes(k) <= t,
         NEW bar, bar \in Bar, NEW f, f = Settle(e, s, bar, Opens(k))
  PROVE  Good(f, s, k, t) /\ Elsewhere(e, f, s) /\ f.scheduled = e.scheduled
<1>1. PICK charged : charged = ChargeFunding(e, s, bar)
  OBVIOUS
<1>2. PICK triggered : triggered = ApplyTriggers(charged, s, bar, Opens(k), TRUE)
  OBVIOUS
<1>3. f = FillResting(triggered, s, bar, Opens(k))
  BY <1>1, <1>2 DEF Settle
<1>4. Good(charged, s, k, t) /\ PositionOnly(e, charged, s)
  BY <1>1, FundingKeeps
<1>5. Good(triggered, s, k, t) /\ PositionOnly(charged, triggered, s)
  <2>1. \E allow \in BOOLEAN : triggered = ApplyTriggers(charged, s, bar, Opens(k), allow)
    BY <1>2
  <2>. QED
    BY <1>4, <2>1, ApplyTriggersKeeps
<1>6. Good(f, s, k, t) /\ Elsewhere(triggered, f, s) /\ f.scheduled = triggered.scheduled
  BY <1>3, <1>5, FillRestingKeeps
<1>7. PositionOnly(e, triggered, s)
  BY <1>4, <1>5, PositionOnlyChains
<1>8. Elsewhere(e, triggered, s)
  BY <1>7, OnlyIsElsewhere
<1>9. Elsewhere(e, f, s)
  BY <1>6, <1>8, ElsewhereChains
<1>. QED
  BY <1>6, <1>7, <1>9 DEF PositionOnly

\* A price path that the window's bars make.
Path == bars \in [Symbols -> [0..(NumBars - 1) -> Bar]] /\ NumBars \in Nat \ {0}

\* Bar k is settled: the next bar is the next one.
LEMMA SettleBarKeeps ==
  ASSUME Path, NEW e, NEW s \in Symbols, NEW k \in Nat, k < NumBars, NEW t \in Nat, Closes(k) <= t,
         Good(e, s, k, t), NEW f, f = SettleBar(e, s, k)
  PROVE  Good(f, s, k + 1, t) /\ Elsewhere(e, f, s)
<1>1. PICK active : active = Activate(e, s, Opens(k), bars)
  OBVIOUS
<1>2. Good(active, s, k, t) /\ Elsewhere(e, active, s)
      /\ (active.scheduled[s] # None => k < active.scheduled[s].bar)
  <2>1. Opens(k) \in Nat /\ Opens(k) <= Opens(k) /\ Opens(k) < Closes(k) /\ Opens(k) <= t
    BY DEF Opens, Closes
  <2>2. bars \in [Symbols -> [0..(NumBars - 1) -> Bar]] /\ NumBars \in Nat
    BY DEF Path
  <2>. QED
    BY <1>1, <2>1, <2>2, ActivateKeeps
<1>3. bars[s][k] \in Bar
  <2>1. k \in 0..(NumBars - 1)
    BY DEF Path
  <2>. QED
    BY <2>1 DEF Path
<1>4. f = Settle(active, s, bars[s][k], Opens(k))
  BY <1>1 DEF SettleBar
<1>5. Good(f, s, k, t) /\ Elsewhere(active, f, s) /\ f.scheduled = active.scheduled
  BY <1>2, <1>3, <1>4, SettleKeeps
<1>6. Elsewhere(e, f, s)
  BY <1>2, <1>5, ElsewhereChains
<1>7. OnTime(f, s, k + 1)
  <2>1. OnTime(f, s, k) /\ f \in Exchange
    BY <1>5 DEF Good, Typed
  <2>2. f.position[s] # None => f.position[s].since \in Nat
    BY <2>1 DEF Exchange, Position
  <2>3. f.scheduled[s] # None => f.scheduled[s].bar \in Nat
    BY <2>1 DEF Exchange, Scheduled
  <2>4. Opens(k) <= Opens(k + 1) /\ Opens(k) \in Nat /\ Opens(k + 1) \in Nat
    BY DEF Opens
  <2>5. f.position[s] # None => f.position[s].since <= Opens(k + 1)
    BY <2>1, <2>2, <2>4 DEF OnTime
  <2>6. f.scheduled[s] # None => k + 1 <= f.scheduled[s].bar
    BY <1>2, <1>5, <2>3
  <2>. QED
    BY <2>1, <2>5, <2>6 DEF OnTime
<1>. QED
  BY <1>5, <1>6, <1>7 DEF Good

(***************************************************************************)
(* The loops over bars and symbols *)

\* Round i of a loop takes a state in D[i - 1] to one in D[i].
Leads(after, n, D) ==
  after[0] \in D[0] /\ \A i \in 1..n : after[i - 1] \in D[i - 1] => after[i] \in D[i]

LEMMA LoopLeads ==
  ASSUME NEW n \in Nat, NEW D, NEW after, Leads(after, n, D)
  PROVE  \A i \in 0..n : after[i] \in D[i]
<1>. DEFINE T == {m \in Nat : m <= n => after[m] \in D[m]}
<1>1. 0 \in T
  BY DEF Leads
<1>2. ASSUME NEW m \in T PROVE m + 1 \in T
  <2>. SUFFICES ASSUME m + 1 <= n PROVE after[m + 1] \in D[m + 1]
    OBVIOUS
  <2>1. after[m] \in D[m]
    OBVIOUS
  <2>2. m + 1 \in 1..n /\ (m + 1) - 1 = m
    OBVIOUS
  <2>3. after[(m + 1) - 1] \in D[(m + 1) - 1] => after[m + 1] \in D[m + 1]
    BY <2>2 DEF Leads
  <2>. QED
    BY <2>1, <2>2, <2>3
<1>3. T = Nat
  <2>. HIDE DEF T
  <2>1. T \subseteq Nat
    BY DEF T
  <2>. QED
    BY <1>1, <1>2, <2>1, AllNaturals
<1>. QED
  BY <1>3

\* A loop whose rounds each lead from D[i - 1] to D[i] runs through them.
Rounds(n, base, step, D) ==
  base \in D[0] /\ \A i \in 1..n : \A x \in D[i - 1] : step[<<i, x>>] \in D[i]

LEMMA LoopGoes ==
  ASSUME NEW n \in Nat, NEW base, NEW step, NEW D, Rounds(n, base, step, D)
  PROVE  \E after : Runs(after, n, base, step) /\ \A i \in 0..n : after[i] \in D[i]
<1>1. PICK after : Runs(after, n, base, step)
  BY LoopRuns
<1>2. after[0] = base
  BY <1>1 DEF Runs
<1>3. \A i \in 1..n : after[i] = step[<<i, after[i - 1]>>]
  <2>1. \A i \in 1..n : i \in 0..n /\ i # 0
    OBVIOUS
  <2>. QED
    BY <1>1, <2>1 DEF Runs
<1>4. Leads(after, n, D)
  BY <1>2, <1>3 DEF Rounds, Leads
<1>5. \A i \in 0..n : after[i] \in D[i]
  BY <1>4, LoopLeads
<1>. QED
  BY <1>1, <1>5

\* Closed counts the bars that closed by t: the next one is open at t.
LEMMA ClosedIs ==
  ASSUME Path, NEW t \in 0..End
  PROVE  Closed(t) \in 0..NumBars /\ Opens(Closed(t)) <= t /\ t < Closes(Closed(t))
<1>1. NumBars \in Nat \ {0} /\ t \in Nat /\ t <= 2 * NumBars
  BY DEF Path, End, Closes
<1>2. PICK h \in Nat : 2 * h <= t /\ t < 2 * h + 2
  <2>1. (t \div 2) \in Nat /\ 2 * (t \div 2) <= t /\ t < 2 * (t \div 2) + 2
    BY <1>1
  <2>. QED
    BY <2>1
<1>3. {k \in 0..(NumBars - 1) : Closes(k) <= t} = 0..(h - 1)
  <2>1. ASSUME NEW k \in 0..(NumBars - 1), Closes(k) <= t PROVE k \in 0..(h - 1)
    BY <1>1, <1>2, <2>1 DEF Closes
  <2>2. ASSUME NEW k \in 0..(h - 1) PROVE k \in 0..(NumBars - 1) /\ Closes(k) <= t
    BY <1>1, <1>2 DEF Closes
  <2>. QED
    BY <2>1, <2>2
<1>4. Cardinality(0..(h - 1)) = h
  <2>1. Cardinality(0..(h - 1)) = IF 0 > h - 1 THEN 0 ELSE (h - 1) - 0 + 1
    BY FS_Interval, 0 \in Int, h - 1 \in Int
  <2>. QED
    BY <2>1
<1>5. Closed(t) = h
  BY <1>3, <1>4 DEF Closed
<1>. QED
  BY <1>1, <1>2, <1>5 DEF Opens, Closes

LEMMA ClosedGrows ==
  ASSUME Path, NEW t \in 0..End, NEW u \in 0..End, t <= u
  PROVE  Closed(t) <= Closed(u)
<1>1. /\ Closed(t) \in 0..NumBars /\ Opens(Closed(t)) <= t /\ t < Closes(Closed(t))
      /\ Closed(u) \in 0..NumBars /\ Opens(Closed(u)) <= u /\ u < Closes(Closed(u))
      /\ NumBars \in Nat
  BY ClosedIs DEF Path
<1>2. PICK a \in Nat, b \in Nat : a = Closed(t) /\ b = Closed(u)
  BY <1>1
<1>3. 2 * a <= t /\ u < 2 * b + 2
  BY <1>1, <1>2 DEF Opens, Closes
<1>4. a <= b
  BY <1>3, t \in Int, u \in Int
<1>. QED
  BY <1>2, <1>4

\* A symbol is settled up to t: every bar that closed by then, in order.
LEMMA SettleSymbolKeeps ==
  ASSUME Path, NEW e, NEW s \in Symbols, NEW t \in 0..End, run.settled[s] \in 0..Closed(t),
         Good(e, s, run.settled[s], t), NEW f, f = SettleSymbol(e, s, t)
  PROVE  Good(f, s, Closed(t), t) /\ Elsewhere(e, f, s)
<1>1. PICK base \in Nat : base = run.settled[s]
  <2>1. Closed(t) \in Int
    BY ClosedIs DEF Path
  <2>. QED
    BY <2>1
<1>2. PICK last \in Nat : last = Closed(t) /\ last <= NumBars
  BY ClosedIs DEF Path
<1>3. base <= last /\ Opens(last) <= t /\ t < Closes(last) /\ t \in Nat /\ NumBars \in Nat
  BY <1>1, <1>2, ClosedIs DEF Path
<1>. DEFINE n == Larger(0, Closed(t) - run.settled[s])
<1>4. n = last - base /\ n \in Nat /\ base + n = last
  BY <1>1, <1>2, <1>3 DEF Larger
<1>. HIDE DEF n
<1>. DEFINE D == [i \in 0..n |-> {x \in Exchange : Good(x, s, base + i, t) /\ Elsewhere(e, x, s)}]
            step == [p \in (1..n) \X Exchange |-> SettleBar(p[2], s, base + p[1] - 1)]
            Is(h) == h = [i \in 0..n |-> IF i = 0 THEN e ELSE SettleBar(h[i - 1], s, base + i - 1)]
<1>5. e \in D[0]
  BY <1>1, <1>4 DEF Good, Typed, Elsewhere
<1>6. ASSUME NEW i \in 1..n, NEW x \in D[i - 1]
      PROVE  x \in Exchange /\ SettleBar(x, s, base + i - 1) \in D[i]
  <2>1. PICK k \in Nat : k = base + i - 1
    OBVIOUS
  <2>2. k < NumBars /\ Closes(k) <= t /\ k = base + (i - 1) /\ k + 1 = base + i
    <3>. HIDE DEF D, step, Is
    <3>1. PICK j \in Nat : j = i /\ j <= n
      BY <1>4
    <3>2. k = base + (i - 1) /\ k + 1 = base + i
      BY <2>1
    <3>3. k + 1 <= last
      BY <1>4, <3>1, <3>2
    <3>4. 2 * last <= t
      BY <1>3 DEF Opens
    <3>5. Closes(k) <= t
      BY <1>3, <3>3, <3>4 DEF Closes
    <3>6. k < NumBars
      BY <1>2, <1>3, <3>3
    <3>. QED
      BY <3>2, <3>5, <3>6
  <2>3. x \in Exchange /\ Good(x, s, k, t) /\ Elsewhere(e, x, s)
    <3>1. D[i - 1] = {y \in Exchange : Good(y, s, base + (i - 1), t) /\ Elsewhere(e, y, s)}
      <4>1. i - 1 \in 0..n
        BY <1>4
      <4>. QED
        BY <4>1
    <3>2. x \in Exchange /\ Good(x, s, base + (i - 1), t) /\ Elsewhere(e, x, s)
      <4>. HIDE DEF D
      <4>1. x \in D[i - 1]
        OBVIOUS
      <4>. QED
        BY <3>1, <4>1
    <3>3. base + (i - 1) = k
      BY <2>2
    <3>. QED
      BY <3>2, <3>3
  <2>. HIDE DEF D
  <2>4. PICK y : y = SettleBar(x, s, k)
    OBVIOUS
  <2>5. Good(y, s, k + 1, t) /\ Elsewhere(x, y, s)
    BY <1>3, <2>2, <2>3, <2>4, SettleBarKeeps
  <2>6. Elsewhere(e, y, s)
    BY <2>3, <2>5, ElsewhereChains
  <2>7. y \in Exchange /\ Good(y, s, base + i, t)
    BY <2>2, <2>5 DEF Good, Typed
  <2>8. y \in D[i]
    BY <2>6, <2>7 DEF D
  <2>. QED
    BY <2>1, <2>3, <2>4, <2>8
<1>7. \E h : Is(h)
  <2>1. Rounds(n, e, step, D)
    <3>1. ASSUME NEW i \in 1..n, NEW x \in D[i - 1] PROVE step[<<i, x>>] \in D[i]
      <4>1. x \in Exchange /\ SettleBar(x, s, base + i - 1) \in D[i]
        BY <1>6
      <4>2. <<i, x>> \in (1..n) \X Exchange
        BY <4>1
      <4>3. step[<<i, x>>] = SettleBar(x, s, base + i - 1)
        BY <4>2
      <4>. QED
        BY <4>1, <4>3
    <3>. HIDE DEF D, step
    <3>. QED
      BY <1>5, <3>1 DEF Rounds
  <2>2. PICK h : Runs(h, n, e, step) /\ \A i \in 0..n : h[i] \in D[i]
    <3>. HIDE DEF D, step
    <3>. QED
      BY <1>4, <2>1, LoopGoes
  <2>3. ASSUME NEW i \in 0..n
        PROVE  h[i] = IF i = 0 THEN e ELSE SettleBar(h[i - 1], s, base + i - 1)
    <3>1. h[i] = IF i = 0 THEN e ELSE step[<<i, h[i - 1]>>]
      <4>. HIDE DEF D, step
      <4>. QED
        BY <2>2 DEF Runs
    <3>2. CASE i = 0
      BY <3>1, <3>2
    <3>3. CASE i # 0
      <4>1. i \in 1..n /\ i - 1 \in 0..n
        BY <1>4, <3>3
      <4>2. h[i - 1] \in D[i - 1]
        BY <2>2, <4>1
      <4>3. h[i - 1] \in Exchange
        BY <1>6, <4>1, <4>2
      <4>4. <<i, h[i - 1]>> \in (1..n) \X Exchange
        BY <4>1, <4>3
      <4>5. step[<<i, h[i - 1]>>] = SettleBar(h[i - 1], s, base + i - 1)
        BY <4>4
      <4>. QED
        BY <3>1, <3>3, <4>5
    <3>. QED
      BY <3>2, <3>3
  <2>4. h = [i \in 0..n |-> h[i]]
    <3>. HIDE DEF D, step
    <3>. QED
      BY <2>2 DEF Runs
  <2>5. Is(h)
    BY <2>3, <2>4
  <2>. HIDE DEF Is
  <2>. QED
    BY <2>5
<1>. DEFINE after == CHOOSE h : Is(h)
<1>8. Is(after)
  <2>. HIDE DEF Is
  <2>. QED
    BY <1>7
<1>9. f = Activate(after[n], s, t, bars)
  BY <1>1 DEF SettleSymbol, n
<1>. HIDE DEF after
<1>10. Leads(after, n, D)
  <2>1. after[0] = e
    BY <1>4, <1>8
  <2>2. ASSUME NEW i \in 1..n, after[i - 1] \in D[i - 1] PROVE after[i] \in D[i]
    <3>1. SettleBar(after[i - 1], s, base + i - 1) \in D[i]
      BY <1>6, <2>2
    <3>2. after[i] = SettleBar(after[i - 1], s, base + i - 1)
      <4>1. \A j \in 0..n : after[j] = IF j = 0 THEN e ELSE SettleBar(after[j - 1], s, base + j - 1)
        BY <1>8
      <4>2. i \in 0..n /\ i # 0
        BY <1>4
      <4>. HIDE DEF Is, D
      <4>. QED
        BY <4>1, <4>2
    <3>. HIDE DEF D, Is
    <3>. QED
      BY <3>1, <3>2
  <2>. HIDE DEF D
  <2>. QED
    BY <1>5, <2>1, <2>2 DEF Leads
<1>11. after[n] \in D[n]
  <2>. HIDE DEF D
  <2>1. n \in 0..n
    BY <1>4
  <2>. QED
    BY <1>4, <1>10, <2>1, LoopLeads
<1>12. Good(after[n], s, last, t) /\ Elsewhere(e, after[n], s)
  BY <1>4, <1>11
<1>. HIDE DEF D
<1>13. Good(f, s, last, t) /\ Elsewhere(after[n], f, s)
  <2>1. bars \in [Symbols -> [0..(NumBars - 1) -> Bar]]
    BY DEF Path
  <2>2. t <= t
    BY <1>3
  <2>. QED
    BY <1>3, <1>9, <1>12, <2>1, <2>2, ActivateKeeps
<1>14. Elsewhere(e, f, s)
  BY <1>12, <1>13, ElsewhereChains
<1>. QED
  BY <1>2, <1>13, <1>14

\* What is kept elsewhere stays on time.
LEMMA OnTimeElsewhere ==
  ASSUME NEW e, NEW f, NEW s, Elsewhere(e, f, s), NEW u \in Symbols \ {s}, NEW k, OnTime(e, u, k)
  PROVE  OnTime(f, u, k)
BY DEF Elsewhere, OnTime

\* The first i symbols have been settled up to t.
Partway(x, i, t) ==
  /\ Typed(x) /\ Balanced(x) /\ Past(x, t)
  /\ \A j \in 1..Len(SymbolOrder) :
       OnTime(x, SymbolOrder[j], IF j <= i THEN Closed(t) ELSE run.settled[SymbolOrder[j]])

Unsettled(t) == \A s \in Symbols : run.settled[s] \in 0..Closed(t)

LEMMA OneMoreSymbol ==
  ASSUME Path, NEW t \in 0..End, Unsettled(t), NEW i \in 1..Len(SymbolOrder), NEW x, Partway(x, i - 1, t),
         NEW y, y = SettleSymbol(x, SymbolOrder[i], t)
  PROVE  Partway(y, i, t)
<1>. DEFINE n == Len(SymbolOrder)
<1>1. PICK s \in Symbols : s = SymbolOrder[i]
  BY SymbolsListed
<1>2. \A j \in (1..n) \ {i} : SymbolOrder[j] \in Symbols \ {s}
  <2>1. PICK j \in 1..n : SymbolOrder[j] = s /\ \A h \in (1..n) \ {j} : SymbolOrder[h] # s
    BY SymbolsListed
  <2>2. j = i
    BY <1>1, <2>1
  <2>. QED
    BY <2>1, <2>2, SymbolsListed
<1>3. n \in Nat /\ i \in Nat /\ i <= n
  BY SymbolsListed
<1>4. run.settled[s] \in 0..Closed(t)
  BY DEF Unsettled
<1>5. Good(x, s, run.settled[s], t)
  <2>1. ~(i <= i - 1)
    BY <1>3
  <2>2. OnTime(x, SymbolOrder[i], IF i <= i - 1 THEN Closed(t) ELSE run.settled[SymbolOrder[i]])
    BY DEF Partway
  <2>3. OnTime(x, s, run.settled[s])
    BY <1>1, <2>1, <2>2
  <2>. QED
    BY <2>3 DEF Partway, Good
<1>6. Good(y, s, Closed(t), t) /\ Elsewhere(x, y, s)
  BY <1>1, <1>4, <1>5, SettleSymbolKeeps
<1>7. ASSUME NEW j \in 1..n
      PROVE  OnTime(y, SymbolOrder[j], IF j <= i THEN Closed(t) ELSE run.settled[SymbolOrder[j]])
  <2>1. CASE j = i
    <3>1. j <= i
      BY <1>3, <2>1
    <3>. QED
      BY <1>1, <1>6, <2>1, <3>1 DEF Good
  <2>2. CASE j # i
    <3>1. (j <= i) <=> (j <= i - 1)
      BY <1>3, <2>2
    <3>2. OnTime(x, SymbolOrder[j], IF j <= i THEN Closed(t) ELSE run.settled[SymbolOrder[j]])
      BY <3>1 DEF Partway
    <3>3. SymbolOrder[j] \in Symbols \ {s}
      BY <1>2, <2>2
    <3>. QED
      BY <1>6, <3>2, <3>3, OnTimeElsewhere
  <2>. QED
    BY <2>1, <2>2
<1>. QED
  BY <1>6, <1>7 DEF Partway, Good

\* All symbols are settled up to t.
LEMMA SettleAllKeeps ==
  ASSUME Path, NEW t \in 0..End, Unsettled(t), NEW e, Typed(e), Balanced(e), Past(e, t),
         \A s \in Symbols : OnTime(e, s, run.settled[s]), NEW f, f = SettleAll(e, t)
  PROVE  /\ Typed(f) /\ Balanced(f) /\ Past(f, t)
         /\ \A s \in Symbols : OnTime(f, s, Closed(t))
<1>. DEFINE n == Len(SymbolOrder)
            D == [i \in 0..n |-> {x \in Exchange : Partway(x, i, t)}]
            step == [p \in (1..n) \X Exchange |-> SettleSymbol(p[2], SymbolOrder[p[1]], t)]
            Is(h) == h = [i \in 0..n |-> IF i = 0 THEN e ELSE SettleSymbol(h[i - 1], SymbolOrder[i], t)]
<1>1. n \in Nat
  BY SymbolsListed
<1>. HIDE DEF n
<1>2. e \in D[0]
  <2>1. Partway(e, 0, t)
    <3>1. \A j \in 1..n : ~(j <= 0) /\ SymbolOrder[j] \in Symbols
      BY SymbolsListed DEF n
    <3>. QED
      BY <3>1 DEF Partway, n
  <2>2. e \in Exchange /\ 0 \in 0..n
    BY <1>1 DEF Typed
  <2>. QED
    BY <2>1, <2>2
<1>3. ASSUME NEW i \in 1..n, NEW x \in D[i - 1]
      PROVE  x \in Exchange /\ SettleSymbol(x, SymbolOrder[i], t) \in D[i]
  <2>1. D[i - 1] = {y \in Exchange : Partway(y, i - 1, t)}
    <3>1. i - 1 \in 0..n
      BY <1>1
    <3>. QED
      BY <3>1
  <2>2. x \in Exchange /\ Partway(x, i - 1, t)
    <3>. HIDE DEF D
    <3>1. x \in D[i - 1]
      OBVIOUS
    <3>. QED
      BY <2>1, <3>1
  <2>. HIDE DEF D
  <2>3. PICK y : y = SettleSymbol(x, SymbolOrder[i], t)
    OBVIOUS
  <2>4. Partway(y, i, t)
    BY <2>2, <2>3, OneMoreSymbol DEF n
  <2>5. y \in Exchange /\ i \in 0..n
    BY <1>1, <2>4 DEF Partway, Typed
  <2>6. y \in D[i]
    BY <2>4, <2>5 DEF D
  <2>. QED
    BY <2>2, <2>3, <2>6
<1>4. \E h : Is(h)
  <2>1. Rounds(n, e, step, D)
    <3>1. ASSUME NEW i \in 1..n, NEW x \in D[i - 1] PROVE step[<<i, x>>] \in D[i]
      <4>1. x \in Exchange /\ SettleSymbol(x, SymbolOrder[i], t) \in D[i]
        BY <1>3
      <4>2. <<i, x>> \in (1..n) \X Exchange
        BY <4>1
      <4>3. step[<<i, x>>] = SettleSymbol(x, SymbolOrder[i], t)
        BY <4>2
      <4>. QED
        BY <4>1, <4>3
    <3>. HIDE DEF D, step
    <3>. QED
      BY <1>2, <3>1 DEF Rounds
  <2>2. PICK h : Runs(h, n, e, step) /\ \A i \in 0..n : h[i] \in D[i]
    <3>. HIDE DEF D, step
    <3>. QED
      BY <1>1, <2>1, LoopGoes
  <2>3. ASSUME NEW i \in 0..n
        PROVE  h[i] = IF i = 0 THEN e ELSE SettleSymbol(h[i - 1], SymbolOrder[i], t)
    <3>1. h[i] = IF i = 0 THEN e ELSE step[<<i, h[i - 1]>>]
      <4>. HIDE DEF D, step
      <4>. QED
        BY <2>2 DEF Runs
    <3>2. CASE i = 0
      BY <3>1, <3>2
    <3>3. CASE i # 0
      <4>1. i \in 1..n /\ i - 1 \in 0..n
        BY <1>1, <3>3
      <4>2. h[i - 1] \in D[i - 1]
        BY <2>2, <4>1
      <4>3. h[i - 1] \in Exchange
        BY <1>3, <4>1, <4>2
      <4>4. <<i, h[i - 1]>> \in (1..n) \X Exchange
        BY <4>1, <4>3
      <4>5. step[<<i, h[i - 1]>>] = SettleSymbol(h[i - 1], SymbolOrder[i], t)
        BY <4>4
      <4>. QED
        BY <3>1, <3>3, <4>5
    <3>. QED
      BY <3>2, <3>3
  <2>4. h = [i \in 0..n |-> h[i]]
    <3>. HIDE DEF D, step
    <3>. QED
      BY <2>2 DEF Runs
  <2>5. Is(h)
    BY <2>3, <2>4
  <2>. HIDE DEF Is
  <2>. QED
    BY <2>5
<1>. DEFINE after == CHOOSE h : Is(h)
<1>5. Is(after)
  <2>. HIDE DEF Is
  <2>. QED
    BY <1>4
<1>6. f = after[n]
  BY DEF SettleAll, n
<1>. HIDE DEF after
<1>7. Leads(after, n, D)
  <2>1. after[0] = e
    BY <1>1, <1>5
  <2>2. ASSUME NEW i \in 1..n, after[i - 1] \in D[i - 1] PROVE after[i] \in D[i]
    <3>1. SettleSymbol(after[i - 1], SymbolOrder[i], t) \in D[i]
      BY <1>3, <2>2
    <3>2. after[i] = SettleSymbol(after[i - 1], SymbolOrder[i], t)
      <4>1. \A j \in 0..n : after[j] = IF j = 0 THEN e ELSE SettleSymbol(after[j - 1], SymbolOrder[j], t)
        BY <1>5
      <4>2. i \in 0..n /\ i # 0
        BY <1>1
      <4>. HIDE DEF Is, D
      <4>. QED
        BY <4>1, <4>2
    <3>. HIDE DEF D, Is
    <3>. QED
      BY <3>1, <3>2
  <2>. HIDE DEF D
  <2>. QED
    BY <1>2, <2>1, <2>2 DEF Leads
<1>8. after[n] \in D[n]
  <2>. HIDE DEF D
  <2>1. n \in 0..n
    BY <1>1
  <2>. QED
    BY <1>1, <1>7, <2>1, LoopLeads
<1>9. Partway(f, n, t)
  BY <1>1, <1>6, <1>8
<1>10. \A s \in Symbols : OnTime(f, s, Closed(t))
  <2>. SUFFICES ASSUME NEW s \in Symbols PROVE OnTime(f, s, Closed(t))
    OBVIOUS
  <2>1. PICK j \in 1..n : SymbolOrder[j] = s
    BY SymbolsListed DEF n
  <2>2. j <= n
    BY <1>1
  <2>. QED
    BY <1>9, <2>1, <2>2 DEF Partway, n
<1>. QED
  BY <1>9, <1>10 DEF Partway

(***************************************************************************)
(* The end of a run *)

\* The account of f is in order, and over by t if that of e was.
Closing(e, f, t) == Typed(f) /\ Balanced(f) /\ (Over(e, t) => Over(f, t))

LEMMA CloseOneKeeps ==
  ASSUME NEW t \in Nat, NEW e, NEW x, Closing(e, x, t), NEW s \in Symbols, NEW mark, mark \in Int,
         NEW y, y = CloseOne(x, s, mark, t)
  PROVE  Closing(e, y, t)
<1>1. Typed(x) /\ Balanced(x) /\ x \in Exchange
  BY DEF Closing, Typed
<1>2. CASE x.position[s] = None
  BY <1>2 DEF CloseOne
<1>3. CASE x.position[s] # None
  <2>1. y = Trigger(x, s, mark, t, "run_end")
    BY <1>3 DEF CloseOne
  <2>2. Ended(x, y, s, t, "run_end")
    <3>1. PICK reason : reason = "run_end"
      OBVIOUS
    <3>2. Ended(x, y, s, t, reason)
      BY <1>1, <1>3, <2>1, <3>1, TriggerBooks
    <3>. QED
      BY <3>1, <3>2
  <2>3. PICK trade \in Trade :
          y.trades = Append(x.trades, trade) /\ trade.exit = t /\ trade.reason = "run_end"
    BY <2>2 DEF Ended
  <2>4. Over(x, t) => Over(y, t)
    <3>1. /\ Len(y.trades) = Len(x.trades) + 1 /\ y.trades[Len(x.trades) + 1] = trade
          /\ (\A i \in 1..Len(x.trades) : y.trades[i] = x.trades[i]) /\ Len(x.trades) \in Nat
      BY <1>1, <2>3 DEF Exchange
    <3>2. \A i \in 1..Len(y.trades) : i = Len(x.trades) + 1 \/ i \in 1..Len(x.trades)
      BY <3>1
    <3>3. trade.exit + (IF trade.reason \in {"stop_loss", "take_profit"} THEN 2 ELSE 0) <= t
      BY <2>3
    <3>. QED
      BY <3>1, <3>2, <3>3 DEF Over
  <2>. QED
    BY <1>1, <2>2, <2>4 DEF Ended, Closing
<1>. QED
  BY <1>2, <1>3

LEMMA CloseAllKeeps ==
  ASSUME NEW t \in Nat, NEW e, Typed(e), Balanced(e), NEW marks, marks \in [Symbols -> Int],
         NEW f, f = CloseAll(e, marks, t)
  PROVE  Closing(e, f, t)
<1>. DEFINE n == Len(SymbolOrder)
            D == {x \in Exchange : Closing(e, x, t)}
            DD == [i \in 0..n |-> D]
            Round(x, i) == CloseOne(x, SymbolOrder[i], marks[SymbolOrder[i]], t)
            step == [p \in (1..n) \X Exchange |-> Round(p[2], p[1])]
            Is(h) == h = [i \in 0..n |-> IF i = 0 THEN e ELSE Round(h[i - 1], i)]
<1>1. n \in Nat
  BY SymbolsListed
<1>2. e \in D
  BY DEF Closing, Typed
<1>3. ASSUME NEW i \in 1..n, NEW x \in D PROVE x \in Exchange /\ Round(x, i) \in D
  <2>1. PICK s \in Symbols : s = SymbolOrder[i]
    BY SymbolsListed
  <2>2. PICK y : y = CloseOne(x, s, marks[s], t)
    OBVIOUS
  <2>3. marks[s] \in Int /\ Closing(e, x, t) /\ x \in Exchange
    OBVIOUS
  <2>. HIDE DEF D
  <2>4. Closing(e, y, t)
    BY <2>2, <2>3, CloseOneKeeps
  <2>5. y \in Exchange
    BY <2>4 DEF Closing, Typed
  <2>6. y \in D
    BY <2>4, <2>5 DEF D
  <2>. QED
    BY <2>1, <2>2, <2>3, <2>6
<1>. HIDE DEF n
<1>4. \E h : Is(h)
  <2>1. Rounds(n, e, step, DD)
    <3>1. e \in DD[0]
      <4>. HIDE DEF D
      <4>. QED
        BY <1>1, <1>2
    <3>2. ASSUME NEW i \in 1..n, NEW x \in DD[i - 1] PROVE step[<<i, x>>] \in DD[i]
      <4>1. x \in D /\ DD[i] = D
        <5>1. i - 1 \in 0..n /\ i \in 0..n
          BY <1>1
        <5>. HIDE DEF D
        <5>. QED
          BY <5>1
      <4>. HIDE DEF D, DD
      <4>2. x \in Exchange /\ Round(x, i) \in D
        BY <1>3, <4>1 DEF n
      <4>3. <<i, x>> \in (1..n) \X Exchange
        BY <4>2
      <4>. HIDE DEF Round
      <4>4. step[<<i, x>>] = Round(x, i)
        BY <4>3
      <4>. QED
        BY <4>1, <4>2, <4>4
    <3>. HIDE DEF DD, step
    <3>. QED
      BY <3>1, <3>2 DEF Rounds
  <2>2. PICK h : Runs(h, n, e, step) /\ \A i \in 0..n : h[i] \in DD[i]
    <3>. HIDE DEF DD, step
    <3>. QED
      BY <1>1, <2>1, LoopGoes
  <2>3. ASSUME NEW i \in 0..n PROVE h[i] = IF i = 0 THEN e ELSE Round(h[i - 1], i)
    <3>1. h[i] = IF i = 0 THEN e ELSE step[<<i, h[i - 1]>>]
      <4>. HIDE DEF DD, step
      <4>. QED
        BY <2>2 DEF Runs
    <3>2. CASE i = 0
      BY <3>1, <3>2
    <3>3. CASE i # 0
      <4>1. i \in 1..n /\ i - 1 \in 0..n
        BY <1>1, <3>3
      <4>2. h[i - 1] \in D
        <5>. HIDE DEF D
        <5>. QED
          BY <2>2, <4>1
      <4>3. h[i - 1] \in Exchange
        BY <4>2
      <4>4. <<i, h[i - 1]>> \in (1..n) \X Exchange
        BY <4>1, <4>3
      <4>. HIDE DEF Round
      <4>5. step[<<i, h[i - 1]>>] = Round(h[i - 1], i)
        BY <4>4
      <4>. QED
        BY <3>1, <3>3, <4>5
    <3>. QED
      BY <3>2, <3>3
  <2>4. h = [i \in 0..n |-> h[i]]
    <3>. HIDE DEF DD, step
    <3>. QED
      BY <2>2 DEF Runs
  <2>5. Is(h)
    <3>. HIDE DEF Round
    <3>. QED
      BY <2>3, <2>4
  <2>. HIDE DEF Is
  <2>. QED
    BY <2>5
<1>. DEFINE flat == CHOOSE h : Is(h)
<1>5. Is(flat)
  <2>. HIDE DEF Is
  <2>. QED
    BY <1>4
<1>6. f = [flat[n] EXCEPT !.resting = [s \in Symbols |-> None], !.scheduled = [s \in Symbols |-> None]]
  BY DEF CloseAll, n
<1>. HIDE DEF flat
<1>7. Kept(flat, n, D)
  <2>1. flat[0] = e
    BY <1>1, <1>5
  <2>2. ASSUME NEW i \in 1..n, flat[i - 1] \in D PROVE flat[i] \in D
    <3>1. Round(flat[i - 1], i) \in D
      BY <1>3, <2>2 DEF n
    <3>2. flat[i] = Round(flat[i - 1], i)
      <4>. HIDE DEF Round
      <4>1. \A j \in 0..n : flat[j] = IF j = 0 THEN e ELSE Round(flat[j - 1], j)
        BY <1>5
      <4>2. i \in 0..n /\ i # 0
        BY <1>1
      <4>. HIDE DEF Is, D
      <4>. QED
        BY <4>1, <4>2
    <3>. HIDE DEF D, Is, Round
    <3>. QED
      BY <3>1, <3>2
  <2>. HIDE DEF D
  <2>. QED
    BY <1>2, <2>1, <2>2 DEF Kept
<1>8. flat[n] \in D
  <2>. HIDE DEF D
  <2>1. n \in 0..n
    BY <1>1
  <2>. QED
    BY <1>1, <1>7, <2>1, LoopStays
<1>9. PICK g : g = flat[n] /\ g \in Exchange /\ Closing(e, g, t)
  BY <1>8
<1>10. f = [g EXCEPT !.resting = [s \in Symbols |-> None], !.scheduled = [s \in Symbols |-> None]]
  BY <1>6, <1>9
<1>11. /\ SameBooks(g, f)
       /\ f.scheduled = [s \in Symbols |-> None]
  BY <1>9, <1>10 DEF SameBooks, Exchange
<1>12. f \in Exchange
  <2>1. PICK idle : idle = [s \in Symbols |-> None]
    OBVIOUS
  <2>2. idle \in [Symbols -> Resting \union {None}] /\ idle \in [Symbols -> Scheduled \union {None}]
    BY <2>1
  <2>3. f = [[g EXCEPT !.resting = idle] EXCEPT !.scheduled = idle]
    BY <1>10, <2>1
  <2>. QED
    BY <1>9, <2>2, <2>3 DEF Exchange
<1>13. Typed(f)
  BY <1>11, <1>12 DEF Typed
<1>14. Balanced(f)
  <2>1. NetOfTrades(f) = NetOfTrades(g) /\ Unattributed(f) = Unattributed(g)
    BY <1>11 DEF SameBooks, NetOfTrades, Unattributed
  <2>. QED
    BY <1>9, <1>11, <2>1 DEF Closing, Balanced, SameBooks
<1>15. Over(g, t) => Over(f, t)
  BY <1>11 DEF SameBooks, Over
<1>. QED
  BY <1>9, <1>13, <1>14, <1>15 DEF Closing

LEMMA MarksTyped ==
  ASSUME Path, NEW t \in 0..End, NEW e \in Exchange
  PROVE  Marks(e, t) \in [Symbols -> Int]
<1>1. \A s \in Symbols : e.position[s] # None =>
         e.position[s].cost \in Int /\ e.position[s].quantity \in Nat \ {0}
  BY DEF Exchange, Position
<1>2. \A s \in Symbols : e.position[s] # None => (e.position[s].cost \div e.position[s].quantity) \in Int
  BY <1>1
<1>3. \A s \in Symbols : Closed(t) > 0 => bars[s][Closed(t) - 1].close \in Int
  <2>1. Closed(t) \in 0..NumBars
    BY ClosedIs
  <2>2. Closed(t) > 0 => Closed(t) - 1 \in 0..(NumBars - 1)
    BY <2>1 DEF Path
  <2>3. \A s \in Symbols : Closed(t) > 0 => bars[s][Closed(t) - 1] \in Bar
    BY <2>2 DEF Path
  <2>. QED
    BY <2>3 DEF Bar
<1>. QED
  BY <1>2, <1>3 DEF Marks

(***************************************************************************)
(* The inductive invariant *)

Progress == [phase : Phases, step : 1..(Len(Instants) + 1), settled : [Symbols -> 0..NumBars],
             batch : Seq(Symbols), attempt : 0..MaxAttempts, failed : BOOLEAN, success : -1..End]

\* TypeOK, by its parts.
LEMMA TypeParts ==
  TypeOK <=> /\ Path /\ run \in Progress /\ Typed(ex) /\ Typed(saved)
             /\ run.phase \in {"asking", "booking"} => run.step <= Len(Instants) /\ run.batch # <<>>
BY BacktestRunAssumption DEF TypeOK, Path, Progress, Typed, BacktestRunAssumption

LEMMA InstantsAre ==
  /\ Len(Instants) \in Nat /\ NumBars \in Nat \ {0} /\ MaxAttempts \in Nat \ {0}
  /\ End \in Nat /\ 0 \in 0..End
  /\ \A i \in 1..Len(Instants) : Instants[i] \in 0..End
  /\ \A i, j \in 1..Len(Instants) : i < j => Instants[i] <= Instants[j]
<1>1. NumBars \in Nat \ {0} /\ MaxAttempts \in Nat \ {0} /\ Instants \in Seq(0..End)
  BY BacktestRunAssumption DEF BacktestRunAssumption
<1>2. End \in Nat
  BY <1>1 DEF End, Closes
<1>3. \A i, j \in 1..Len(Instants) : i < j => Instants[i] <= Instants[j]
  BY BacktestRunAssumption DEF BacktestRunAssumption
<1>. HIDE DEF End
<1>4. Len(Instants) \in Nat /\ \A i \in 1..Len(Instants) : Instants[i] \in 0..End
  <2>1. ASSUME NEW S, NEW list \in Seq(S)
        PROVE  Len(list) \in Nat /\ \A i \in 1..Len(list) : list[i] \in S
    OBVIOUS
  <2>. QED
    BY <1>1, <2>1
<1>. QED
  BY <1>1, <1>2, <1>3, <1>4

LEMMA ClockIs ==
  ASSUME run \in Progress, run.phase \in {"asking", "booking"} => run.step <= Len(Instants)
  PROVE  /\ Clock \in 0..End
         /\ run.step <= Len(Instants) => Now \in 0..End /\ Clock <= Now
<1>1. run.step \in Nat /\ run.step >= 1 /\ run.step <= Len(Instants) + 1 /\ Len(Instants) \in Nat
  BY InstantsAre DEF Progress
<1>2. run.step # 1 => run.step - 1 \in 1..Len(Instants)
  BY <1>1
<1>3. run.step <= Len(Instants) => run.step \in 1..Len(Instants)
  BY <1>1
<1>4. run.step <= Len(Instants) => Instants[run.step] \in 0..End
  BY <1>3, InstantsAre
<1>5. run.step # 1 => Instants[run.step - 1] \in 0..End
  BY <1>2, InstantsAre
<1>6. run.step # 1 /\ run.step <= Len(Instants) => Instants[run.step - 1] <= Instants[run.step]
  <2>1. run.step - 1 < run.step
    BY <1>1
  <2>. QED
    BY <1>2, <1>3, <2>1, InstantsAre
<1>7. 0 \in 0..End /\ End \in Nat
  BY InstantsAre
<1>. HIDE DEF End
<1>. QED
  BY <1>4, <1>5, <1>6, <1>7 DEF Clock, Now

\* Trades that are over by t are over by a later u.
LEMMA PastLater ==
  ASSUME NEW e \in Exchange, NEW t \in Nat, NEW u \in Nat, t <= u, Past(e, t)
  PROVE  Past(e, u)
<1>1. \A i \in 1..Len(e.trades) : e.trades[i] \in Trade
  BY DEF Exchange
<1>2. \A i \in 1..Len(e.trades) : e.trades[i].exit \in Nat
  BY <1>1 DEF Trade
<1>. QED
  BY <1>2 DEF Past

LEMMA PastIsOver ==
  ASSUME NEW e, NEW t, Past(e, t)
  PROVE  Over(e, t)
BY DEF Past, Over

LEMMA InvParts ==
  ASSUME Inv
  PROVE  /\ Path /\ run \in Progress /\ Typed(ex) /\ Typed(saved) /\ ex \in Exchange
         /\ Balanced(ex) /\ Balanced(saved)
         /\ run.phase \in {"asking", "booking"} => run.step <= Len(Instants) /\ run.batch # <<>>
         /\ Clock \in 0..End
         /\ run.step <= Len(Instants) => Now \in 0..End /\ Clock <= Now
<1>1. TypeOK /\ Balanced(ex) /\ Balanced(saved)
  BY DEF Inv, Books
<1>2. /\ Path /\ run \in Progress /\ Typed(ex) /\ Typed(saved)
      /\ run.phase \in {"asking", "booking"} => run.step <= Len(Instants) /\ run.batch # <<>>
  BY <1>1, TypeParts
<1>3. Clock \in 0..End /\ (run.step <= Len(Instants) => Now \in 0..End /\ Clock <= Now)
  BY <1>2, ClockIs
<1>. QED
  BY <1>1, <1>2, <1>3 DEF Typed

\* The settling of everything up to a later instant, from where a pass stands.
LEMMA SettlesTo ==
  ASSUME Inv, run.phase \in {"ready", "closing"}, run.phase = "closing" => ~run.failed,
         NEW t \in 0..End, Clock <= t, NEW f, f = SettleAll(ex, t)
  PROVE  /\ Typed(f) /\ Balanced(f) /\ Past(f, t) /\ \A s \in Symbols : OnTime(f, s, Closed(t))
         /\ SettledAt(t) = [s \in Symbols |-> Closed(t)]
<1>1. /\ Path /\ Typed(ex) /\ ex \in Exchange /\ Balanced(ex) /\ Clock \in 0..End
  BY InvParts
<1>2. /\ run.settled = [s \in Symbols |-> Closed(Clock)]
      /\ \A s \in Symbols : OnTime(ex, s, Closed(Clock))
      /\ Past(ex, Clock)
  BY DEF Inv, Timely
<1>3. Closed(Clock) <= Closed(t) /\ Closed(Clock) \in Nat /\ Closed(t) \in Nat
  BY <1>1, ClosedGrows, ClosedIs
<1>4. \A s \in Symbols : run.settled[s] = Closed(Clock)
  BY <1>2
<1>5. Unsettled(t)
  BY <1>3, <1>4 DEF Unsettled
<1>6. Past(ex, t)
  <2>1. Clock \in Nat /\ t \in Nat
    BY <1>1
  <2>. QED
    BY <1>1, <1>2, <2>1, PastLater
<1>7. \A s \in Symbols : OnTime(ex, s, run.settled[s])
  BY <1>2, <1>4
<1>8. SettledAt(t) = [s \in Symbols |-> Closed(t)]
  <2>1. \A s \in Symbols : Larger(run.settled[s], Closed(t)) = Closed(t)
    BY <1>3, <1>4 DEF Larger
  <2>. QED
    BY <2>1 DEF SettledAt
<1>. QED
  BY <1>1, <1>5, <1>6, <1>7, <1>8, SettleAllKeeps

\* A pass that goes on: what has to be shown of the state after a step.
LEMMA GoesOn ==
  ASSUME Path', run' \in Progress, Typed(ex'), Typed(saved'), Balanced(ex'), Balanced(saved'),
         run'.phase \in {"ready", "asking", "booking"} \/ (run'.phase = "closing" /\ ~run'.failed),
         ~run'.failed,
         run'.phase \in {"asking", "booking"} => run'.step <= Len(Instants) /\ run'.batch # <<>>,
         NEW t, t = Clock', run'.settled = [s \in Symbols |-> Closed(t)], Past(ex', t),
         \A s \in Symbols : OnTime(ex', s, Closed(t)),
         run'.phase \in {"ready", "asking"} => Over(saved', Larger(0, run'.success)),
         run'.phase = "booking" => run'.success = Now'
  PROVE  Inv'
<1>1. TypeOK'
  BY DEF TypeOK, Path, Progress, Typed
<1>. QED
  BY <1>1 DEF Inv, Books, Timely

LEMMA InitInv ==
  ASSUME Init
  PROVE  Inv
<1>1. PICK c \in [Symbols -> Carried \union {None}] : ex = NewExchange(c)
  BY DEF Init
<1>2. \A s \in Symbols : c[s] # None =>
        c[s] \in Position /\ c[s].since = 0 /\ c[s].decided = 0 /\ c[s].fees = 0 /\ c[s].funding = 0
  BY BacktestRunAssumption DEF BacktestRunAssumption
<1>. DEFINE amounts == [s \in Symbols |-> IF c[s] = None THEN 0 ELSE c[s].carried]
            floating == TotalOf(amounts)
<1>3. amounts \in [Symbols -> Int]
  BY <1>2 DEF Position
<1>4. floating \in Int
  <2>. HIDE DEF amounts
  <2>. QED
    BY <1>3, TotalOfInt
<1>5. ex = [cash |-> Equity - floating, position |-> c, resting |-> [s \in Symbols |-> None],
            scheduled |-> [s \in Symbols |-> None], trades |-> <<>>]
  BY <1>1 DEF NewExchange
<1>6. amounts = [s \in Symbols |-> Standing(ex.position[s])]
  <2>1. ex.position = c
    BY <1>5
  <2>2. ASSUME NEW s \in Symbols PROVE (IF c[s] = None THEN 0 ELSE c[s].carried) = Standing(c[s])
    <3>1. CASE c[s] = None
      BY <3>1 DEF Standing
    <3>2. CASE c[s] # None
      <4>1. c[s].carried \in Int
        BY <1>2, <3>2 DEF Position
      <4>2. Standing(c[s]) = 0 + 0 + c[s].carried
        BY <1>2, <3>2 DEF Standing
      <4>. QED
        BY <3>2, <4>1, <4>2
    <3>. QED
      BY <3>1, <3>2
  <2>. QED
    BY <2>1, <2>2
<1>. HIDE DEF amounts
<1>7. Unattributed(ex) = floating
  BY <1>6 DEF Unattributed
<1>. HIDE DEF floating
<1>8. Equity \in Int
  BY SimulatedExchangeAssumption DEF SimulatedExchangeAssumption
<1>9. ex \in Exchange /\ ex.cash = Equity - floating /\ ex.position = c /\ ex.trades = <<>>
      /\ ex.resting = [s \in Symbols |-> None] /\ ex.scheduled = [s \in Symbols |-> None]
  <2>1. c \in [Symbols -> Position \union {None}]
    BY <1>2
  <2>2. PICK idle : idle = [s \in Symbols |-> None]
    OBVIOUS
  <2>3. idle \in [Symbols -> Resting \union {None}] /\ idle \in [Symbols -> Scheduled \union {None}]
    BY <2>2
  <2>4. ex = [cash |-> Equity - floating, position |-> c, resting |-> idle, scheduled |-> idle, trades |-> <<>>]
    BY <1>5, <2>2
  <2>5. Equity - floating \in Int /\ <<>> \in Seq(Trade)
    BY <1>4, <1>8
  <2>6. ex \in Exchange
    BY <2>1, <2>3, <2>4, <2>5 DEF Exchange
  <2>. QED
    BY <2>2, <2>4, <2>6
<1>10. Typed(ex)
  BY <1>9 DEF Typed
<1>11. Balanced(ex)
  <2>1. NetOfTrades(ex) = 0
    <3>1. Len(ex.trades) = 0
      BY <1>9
    <3>. QED
      BY <3>1, TotalOfNone DEF NetOfTrades
  <2>. QED
    BY <1>4, <1>7, <1>8, <1>9, <2>1 DEF Balanced
<1>12. saved = ex /\ run = [phase |-> "ready", step |-> 1, settled |-> [s \in Symbols |-> 0],
                            batch |-> <<>>, attempt |-> 0, failed |-> FALSE, success |-> -1]
  BY DEF Init
<1>13. Path
  <2>1. \A s \in Symbols : bars[s] \in [0..(NumBars - 1) -> Bar]
    BY BacktestRunAssumption DEF Init, BacktestRunAssumption
  <2>2. bars \in [Symbols -> UNION {Paths[s] : s \in Symbols}]
    BY DEF Init
  <2>3. bars \in [Symbols -> [0..(NumBars - 1) -> Bar]]
    BY <2>1, <2>2
  <2>. QED
    BY <2>3, InstantsAre DEF Path
<1>14. run \in Progress
  <2>1. [s \in Symbols |-> 0] \in [Symbols -> 0..NumBars] /\ 0 \in 0..MaxAttempts /\ -1 \in -1..End
        /\ 1 \in 1..(Len(Instants) + 1) /\ <<>> \in Seq(Symbols)
    <3>1. NumBars \in Nat /\ MaxAttempts \in Nat /\ End \in Nat /\ Len(Instants) \in Nat
      BY InstantsAre
    <3>. HIDE DEF End
    <3>. QED
      BY <3>1
  <2>. QED
    BY <1>12, <2>1 DEF Progress, Phases
<1>15. TypeOK
  BY <1>10, <1>12, <1>13, <1>14, TypeParts
<1>16. Clock = 0
  BY <1>12 DEF Clock
<1>17. Closed(0) = 0
  <2>1. Closed(0) \in 0..NumBars /\ Opens(Closed(0)) <= 0 /\ NumBars \in Nat
    <3>1. 0 \in 0..End
      BY InstantsAre
    <3>. QED
      BY <1>13, <3>1, ClosedIs DEF Path
  <2>2. PICK h \in Nat : h = Closed(0)
    BY <2>1
  <2>3. 2 * h <= 0
    BY <2>1, <2>2 DEF Opens
  <2>. QED
    BY <2>2, <2>3
<1>18. \A s \in Symbols : OnTime(ex, s, 0)
  BY <1>2, <1>9 DEF OnTime, Opens
<1>19. Past(ex, 0) /\ \A t : Over(saved, t)
  BY <1>9, <1>12 DEF Past, Over
<1>20. Timely
  BY <1>12, <1>16, <1>17, <1>18, <1>19 DEF Timely
<1>. QED
  BY <1>11, <1>12, <1>15, <1>20 DEF Inv, Books

LEMMA NextBatchInv ==
  ASSUME Inv, NextBatch
  PROVE  Inv'
<1>1. PICK ready \in SUBSET Symbols :
        LET settled == [run EXCEPT !.settled = SettledAt(Now)]
        IN run' = IF ready = {} THEN Advance(settled)
                  ELSE [settled EXCEPT !.phase = "asking", !.attempt = 1, !.batch = SetToSeq(ready)]
  BY DEF NextBatch
<1>2. run.phase = "ready" /\ run.step <= Len(Instants) /\ ex' = SettleAll(ex, Now)
      /\ bars' = bars /\ saved' = saved
  BY DEF NextBatch
<1>3. /\ Path /\ run \in Progress /\ Typed(saved) /\ Balanced(saved)
      /\ Now \in 0..End /\ Clock <= Now /\ Clock \in 0..End
  BY <1>2, InvParts
<1>4. PICK t \in 0..End : t = Now
  BY <1>3
<1>5. /\ Typed(ex') /\ Balanced(ex') /\ Past(ex', t) /\ \A s \in Symbols : OnTime(ex', s, Closed(t))
      /\ SettledAt(t) = [s \in Symbols |-> Closed(t)]
  BY <1>2, <1>3, <1>4, SettlesTo
<1>6. ~run.failed /\ Over(saved, Larger(0, run.success))
  BY <1>2 DEF Inv, Timely
<1>7. Path'
  BY <1>2, <1>3 DEF Path
<1>8. SettledAt(t) \in [Symbols -> 0..NumBars]
  <2>1. Closed(t) \in 0..NumBars
    BY <1>3, ClosedIs
  <2>. QED
    BY <1>5, <2>1
<1>9. run.step \in 1..Len(Instants) /\ run.step \in Nat /\ run.step + 1 \in 1..(Len(Instants) + 1)
      /\ Len(Instants) \in Nat /\ MaxAttempts \in Nat \ {0} /\ run.step + 1 # 1 /\ (run.step + 1) - 1 = run.step
  BY <1>2, <1>3, InstantsAre DEF Progress
<1>10. CASE ready = {}
  <2>1. run' = [run EXCEPT !.settled = SettledAt(t), !.phase = "ready", !.step = run.step + 1,
                           !.batch = <<>>, !.attempt = 0]
    BY <1>1, <1>3, <1>4, <1>10 DEF Advance, Progress
  <2>2. run' \in Progress
    <3>1. <<>> \in Seq(Symbols) /\ 0 \in 0..MaxAttempts
      BY <1>9
    <3>. QED
      BY <1>3, <1>8, <1>9, <2>1, <3>1 DEF Progress, Phases
  <2>3. run'.phase = "ready" /\ run'.step = run.step + 1 /\ run'.settled = SettledAt(t)
        /\ run'.failed = run.failed /\ run'.success = run.success
    BY <1>3, <2>1 DEF Progress
  <2>4. t = Clock'
    <3>1. Clock' = Instants[run'.step - 1]
      BY <1>9, <2>3 DEF Clock
    <3>. QED
      BY <1>4, <1>9, <2>3, <3>1 DEF Now
  <2>5. Inv'
    BY <1>2, <1>3, <1>5, <1>6, <1>7, <2>2, <2>3, <2>4, GoesOn
  <2>. QED
    BY <2>5
<1>11. CASE ready # {}
  <2>1. run' = [run EXCEPT !.settled = SettledAt(t), !.phase = "asking", !.attempt = 1,
                           !.batch = SetToSeq(ready)]
    BY <1>1, <1>3, <1>4, <1>11 DEF Progress
  <2>2. SetToSeq(ready) \in Seq(Symbols) /\ SetToSeq(ready) # <<>>
    <3>1. IsFiniteSet(ready)
      BY SimulatedExchangeAssumption, FS_Subset DEF SimulatedExchangeAssumption
    <3>2. PICK list : list = SetToSeq(ready)
      OBVIOUS
    <3>3. PICK n : n = Cardinality(ready)
      OBVIOUS
    <3>4. n \in Nat /\ list \in [1..n -> ready]
      BY <3>1, <3>2, <3>3, ListOfSet
    <3>5. \A x \in ready : \E i \in 1..n : list[i] = x
      BY <3>1, <3>2, <3>3, ListOfSet
    <3>6. list \in Seq(ready) /\ Len(list) = n
      BY <3>4
    <3>7. list \in Seq(Symbols)
      BY <3>6
    <3>8. list # <<>>
      <4>1. PICK x \in ready : TRUE
        BY <1>11
      <4>2. PICK i \in 1..n : list[i] = x
        BY <3>5, <4>1
      <4>3. n # 0
        BY <3>4, <4>2
      <4>. QED
        BY <3>6, <4>3
    <3>. QED
      BY <3>2, <3>7, <3>8
  <2>3. run' \in Progress
    <3>1. 1 \in 0..MaxAttempts
      BY <1>9
    <3>. QED
      BY <1>3, <1>8, <1>9, <2>1, <2>2, <3>1 DEF Progress, Phases
  <2>4. run'.phase = "asking" /\ run'.step = run.step /\ run'.settled = SettledAt(t)
        /\ run'.failed = run.failed /\ run'.success = run.success /\ run'.batch # <<>>
    BY <1>3, <2>1, <2>2 DEF Progress
  <2>5. t = Clock'
    BY <1>4, <2>4 DEF Clock, Now
  <2>6. Inv'
    BY <1>2, <1>3, <1>5, <1>6, <1>7, <2>3, <2>4, <2>5, GoesOn
  <2>. QED
    BY <2>6
<1>. QED
  BY <1>10, <1>11

\* A failed call: another attempt, an answer, or the return to the saved copy.
LEMMA CallFailsInv ==
  ASSUME Inv, CallFails
  PROVE  Inv'
<1>1. /\ run.phase = "asking" /\ run.attempt < MaxAttempts /\ run' = [run EXCEPT !.attempt = run.attempt + 1]
      /\ bars' = bars /\ ex' = ex /\ saved' = saved
  BY InvParts DEF CallFails, Progress
<1>2. Path' /\ Typed(ex') /\ Typed(saved') /\ Balanced(ex') /\ Balanced(saved') /\ run \in Progress
      /\ run.step <= Len(Instants) /\ run.batch # <<>>
  BY <1>1, InvParts DEF Path
<1>3. run' \in Progress /\ run'.phase = "asking" /\ run'.step = run.step /\ run'.settled = run.settled
      /\ run'.failed = run.failed /\ run'.success = run.success /\ run'.batch = run.batch
  <2>1. run.attempt + 1 \in 0..MaxAttempts
    BY <1>1, <1>2, InstantsAre DEF Progress
  <2>. QED
    BY <1>1, <1>2, <2>1 DEF Progress, Phases
<1>4. /\ ~run.failed /\ Over(saved, Larger(0, run.success))
      /\ run.settled = [s \in Symbols |-> Closed(Clock)]
      /\ \A s \in Symbols : OnTime(ex, s, Closed(Clock))
      /\ Past(ex, Clock)
  BY <1>1 DEF Inv, Timely
<1>5. Clock = Clock'
  BY <1>1, <1>3 DEF Clock
<1>. QED
  BY <1>1, <1>2, <1>3, <1>4, <1>5, GoesOn

LEMMA CallAnswersInv ==
  ASSUME Inv, CallAnswers
  PROVE  Inv'
<1>1. /\ run.phase = "asking" /\ run' = [run EXCEPT !.phase = "booking", !.success = Now]
      /\ bars' = bars /\ ex' = ex /\ saved' = saved
  BY DEF CallAnswers
<1>2. Path' /\ Typed(ex') /\ Typed(saved') /\ Balanced(ex') /\ Balanced(saved') /\ run \in Progress
      /\ run.step <= Len(Instants) /\ run.batch # <<>> /\ Now \in 0..End
  BY <1>1, InvParts DEF Path
<1>3. run' \in Progress /\ run'.phase = "booking" /\ run'.step = run.step /\ run'.settled = run.settled
      /\ run'.failed = run.failed /\ run'.success = Now /\ run'.batch = run.batch
  <2>1. Now \in -1..End
    <3>1. End \in Nat
      BY InstantsAre
    <3>. HIDE DEF End
    <3>. QED
      BY <1>2, <3>1
  <2>. QED
    BY <1>1, <1>2, <2>1 DEF Progress, Phases
<1>4. /\ ~run.failed
      /\ run.settled = [s \in Symbols |-> Closed(Clock)]
      /\ \A s \in Symbols : OnTime(ex, s, Closed(Clock))
      /\ Past(ex, Clock)
  BY <1>1 DEF Inv, Timely
<1>5. Clock = Clock' /\ Now' = Now
  BY <1>1, <1>3 DEF Clock, Now
<1>. QED
  BY <1>1, <1>2, <1>3, <1>4, <1>5, GoesOn

\* A pass that is over: what has to be shown of the state after a step.
LEMMA IsOver ==
  ASSUME Path', run' \in Progress, Typed(ex'), Typed(saved'), Balanced(ex'), Balanced(saved'),
         run'.phase \in {"closing", "done", "raised"}, run'.phase = "closing" => run'.failed,
         run'.phase \in {"closing", "done"} /\ run'.failed => Over(ex', EffectiveEnd')
  PROVE  Inv'
<1>1. TypeOK'
  BY DEF TypeOK, Path, Progress, Typed
<1>. QED
  BY <1>1 DEF Inv, Books, Timely

LEMMA GiveUpInv ==
  ASSUME Inv, GiveUp
  PROVE  Inv'
<1>1. /\ run.phase = "asking" /\ run' = [run EXCEPT !.phase = "closing", !.failed = TRUE]
      /\ bars' = bars /\ ex' = saved /\ saved' = saved
  BY DEF GiveUp
<1>2. Path' /\ Typed(ex') /\ Typed(saved') /\ Balanced(ex') /\ Balanced(saved') /\ run \in Progress
  BY <1>1, InvParts DEF Path
<1>3. run' \in Progress /\ run'.phase = "closing" /\ run'.failed /\ run'.success = run.success
  BY <1>1, <1>2 DEF Progress, Phases
<1>4. Over(saved, Larger(0, run.success))
  BY <1>1 DEF Inv, Timely
<1>5. EffectiveEnd' = Larger(0, run.success)
  <2>1. EffectiveEnd' = IF run.success >= 0 THEN run.success ELSE 0
    BY <1>3 DEF EffectiveEnd
  <2>2. run.success \in Int
    BY <1>2 DEF Progress
  <2>. QED
    BY <2>1, <2>2 DEF Larger
<1>6. Over(ex', EffectiveEnd')
  BY <1>1, <1>4, <1>5
<1>. QED
  BY <1>2, <1>3, <1>6, IsOver

LEMMA RaiseInv ==
  ASSUME Inv, Raise
  PROVE  Inv'
<1>1. /\ run' = [run EXCEPT !.phase = "raised"]
      /\ bars' = bars /\ ex' = ex /\ saved' = saved
  BY DEF Raise
<1>2. Path' /\ Typed(ex') /\ Typed(saved') /\ Balanced(ex') /\ Balanced(saved') /\ run \in Progress
  BY <1>1, InvParts DEF Path
<1>3. run' \in Progress /\ run'.phase = "raised"
  BY <1>1, <1>2 DEF Progress, Phases
<1>. QED
  BY <1>2, <1>3, IsOver

LEMMA ExhaustedInv ==
  ASSUME Inv, Exhausted
  PROVE  Inv'
<1>1. /\ run.phase = "ready" /\ run' = [run EXCEPT !.phase = "closing"]
      /\ bars' = bars /\ ex' = ex /\ saved' = saved
  BY DEF Exhausted
<1>2. Path' /\ Typed(ex') /\ Typed(saved') /\ Balanced(ex') /\ Balanced(saved') /\ run \in Progress
  BY <1>1, InvParts DEF Path
<1>3. run' \in Progress /\ run'.phase = "closing" /\ run'.step = run.step /\ run'.settled = run.settled
      /\ run'.failed = run.failed
  BY <1>1, <1>2 DEF Progress, Phases
<1>4. /\ ~run.failed
      /\ run.settled = [s \in Symbols |-> Closed(Clock)]
      /\ \A s \in Symbols : OnTime(ex, s, Closed(Clock))
      /\ Past(ex, Clock)
  BY <1>1 DEF Inv, Timely
<1>5. Clock = Clock'
  BY <1>1, <1>3 DEF Clock
<1>. QED
  BY <1>1, <1>2, <1>3, <1>4, <1>5, GoesOn

\* The last step: what is left is settled, the positions are closed.
LEMMA CloseInv ==
  ASSUME Inv, Close
  PROVE  Inv'
<1>1. PICK settled : settled = IF run.failed THEN ex ELSE SettleAll(ex, EffectiveEnd)
  OBVIOUS
<1>2. /\ run.phase = "closing" /\ ex' = CloseAll(settled, Marks(settled, EffectiveEnd), EffectiveEnd)
      /\ run' = [run EXCEPT !.phase = "done"] /\ bars' = bars /\ saved' = saved
  BY <1>1 DEF Close
<1>3. Path' /\ Path /\ Typed(ex) /\ Typed(saved') /\ Balanced(ex) /\ Balanced(saved') /\ run \in Progress
      /\ Clock \in 0..End
  BY <1>2, InvParts DEF Path
<1>4. EffectiveEnd \in 0..End /\ EffectiveEnd \in Nat
  <2>1. run.success \in -1..End /\ End \in Nat
    BY <1>3, InstantsAre DEF Progress
  <2>. HIDE DEF End
  <2>. QED
    BY <2>1 DEF EffectiveEnd
<1>5. run' \in Progress /\ run'.phase = "done" /\ run'.failed = run.failed /\ EffectiveEnd' = EffectiveEnd
  <2>1. run' \in Progress /\ run'.phase = "done" /\ run'.failed = run.failed /\ run'.success = run.success
    BY <1>2, <1>3 DEF Progress, Phases
  <2>. QED
    BY <2>1 DEF EffectiveEnd
<1>6. Typed(settled) /\ Balanced(settled) /\ (run.failed => Over(settled, EffectiveEnd))
  <2>1. CASE run.failed
    <3>1. Over(ex, EffectiveEnd)
      BY <1>2, <2>1 DEF Inv, Timely
    <3>. QED
      BY <1>1, <1>3, <2>1, <3>1
  <2>2. CASE ~run.failed
    <3>1. EffectiveEnd = End
      BY <2>2 DEF EffectiveEnd
    <3>2. PICK t \in 0..End : t = EffectiveEnd
      BY <1>4
    <3>3. Clock <= t
      <4>1. End \in Nat
        BY InstantsAre
      <4>. HIDE DEF End
      <4>. QED
        BY <1>3, <3>1, <3>2, <4>1
    <3>4. settled = SettleAll(ex, t)
      BY <1>1, <2>2, <3>2
    <3>5. Typed(settled) /\ Balanced(settled)
      BY <1>2, <2>2, <3>3, <3>4, SettlesTo
    <3>. QED
      BY <2>2, <3>5
  <2>. QED
    BY <2>1, <2>2
<1>7. Closing(settled, ex', EffectiveEnd)
  <2>1. PICK marks : marks = Marks(settled, EffectiveEnd)
    OBVIOUS
  <2>2. marks \in [Symbols -> Int]
    BY <1>3, <1>4, <1>6, <2>1, MarksTyped DEF Typed
  <2>. HIDE DEF EffectiveEnd
  <2>3. ex' = CloseAll(settled, marks, EffectiveEnd)
    BY <1>2, <2>1
  <2>. QED
    BY <1>4, <1>6, <2>2, <2>3, CloseAllKeeps
<1>8. Typed(ex') /\ Balanced(ex') /\ (run.failed => Over(ex', EffectiveEnd))
  BY <1>6, <1>7 DEF Closing
<1>. QED
  BY <1>3, <1>5, <1>8, IsOver

\* While decisions are booked: everything up to the instant has been settled.
LEMMA WhileBooking ==
  ASSUME Inv, run.phase = "booking"
  PROVE  /\ Path /\ run \in Progress /\ Typed(ex) /\ Typed(saved) /\ Balanced(ex) /\ Balanced(saved)
         /\ run.step <= Len(Instants) /\ run.batch # <<>> /\ Now \in 0..End
         /\ ~run.failed /\ run.success = Now /\ run.settled = [s \in Symbols |-> Closed(Now)]
         /\ \A s \in Symbols : Good(ex, s, Closed(Now), Now)
         /\ Past(ex, Now) /\ \A s \in Symbols : OnTime(ex, s, Closed(Now))
<1>1. /\ Path /\ run \in Progress /\ Typed(ex) /\ Typed(saved) /\ Balanced(ex) /\ Balanced(saved)
      /\ run.step <= Len(Instants) /\ run.batch # <<>> /\ Now \in 0..End
  BY InvParts
<1>2. Clock = Now
  BY DEF Clock, Now
<1>3. /\ ~run.failed /\ run.success = Now
      /\ run.settled = [s \in Symbols |-> Closed(Now)]
      /\ \A s \in Symbols : OnTime(ex, s, Closed(Now))
      /\ Past(ex, Now)
  BY <1>2 DEF Inv, Timely
<1>. QED
  BY <1>1, <1>3 DEF Good

LEMMA BookedInv ==
  ASSUME Inv, run.phase = "booking", NEW e, Booked(e), Typed(e), Balanced(e), Past(e, Now),
         \A s \in Symbols : OnTime(e, s, Closed(Now))
  PROVE  Inv'
<1>1. /\ Path /\ run \in Progress /\ Typed(ex) /\ Typed(saved) /\ Balanced(ex) /\ Balanced(saved)
      /\ run.step <= Len(Instants) /\ run.batch # <<>> /\ Now \in 0..End
      /\ ~run.failed /\ run.success = Now /\ run.settled = [s \in Symbols |-> Closed(Now)]
  BY WhileBooking
<1>2. ex' = e /\ bars' = bars
  BY DEF Booked
<1>3. Path'
  BY <1>1, <1>2 DEF Path
<1>4. CASE Len(run.batch) = 1
  <2>1. run' = [run EXCEPT !.phase = "ready", !.step = run.step + 1, !.batch = <<>>, !.attempt = 0]
        /\ saved' = e
    BY <1>1, <1>4 DEF Booked, Advance, Progress
  <2>2. run.step + 1 \in 1..(Len(Instants) + 1) /\ run.step + 1 # 1 /\ (run.step + 1) - 1 = run.step
    BY <1>1, InstantsAre DEF Progress
  <2>3. run' \in Progress
    <3>1. <<>> \in Seq(Symbols) /\ 0 \in 0..MaxAttempts
      BY InstantsAre
    <3>. QED
      BY <1>1, <2>1, <2>2, <3>1 DEF Progress, Phases
  <2>4. run'.phase = "ready" /\ run'.step = run.step + 1 /\ run'.settled = run.settled
        /\ run'.failed = run.failed /\ run'.success = Now
    BY <1>1, <2>1 DEF Progress
  <2>5. Clock' = Now
    BY <2>2, <2>4 DEF Clock, Now
  <2>6. Over(saved', Larger(0, run'.success))
    <3>1. Larger(0, Now) = Now
      <4>1. Now \in Nat
        BY <1>1
      <4>. QED
        BY <4>1 DEF Larger
    <3>2. Over(e, Now)
      BY PastIsOver
    <3>. QED
      BY <2>1, <2>4, <3>1, <3>2
  <2>7. PICK t : t = Now
    OBVIOUS
  <2>8. t = Clock' /\ run'.settled = [s \in Symbols |-> Closed(t)] /\ Past(ex', t)
        /\ \A s \in Symbols : OnTime(ex', s, Closed(t))
    BY <1>1, <1>2, <2>4, <2>5, <2>7
  <2>9. Typed(ex') /\ Typed(saved') /\ Balanced(ex') /\ Balanced(saved')
    BY <1>2, <2>1
  <2>. QED
    BY <1>1, <1>3, <2>3, <2>4, <2>6, <2>8, <2>9, GoesOn
<1>5. CASE Len(run.batch) # 1
  <2>1. run' = [run EXCEPT !.batch = Tail(run.batch)] /\ saved' = saved
    BY <1>1, <1>5 DEF Booked, Progress
  <2>2. Tail(run.batch) \in Seq(Symbols) /\ Tail(run.batch) # <<>>
    <3>1. run.batch \in Seq(Symbols)
      BY <1>1 DEF Progress
    <3>2. ASSUME NEW list \in Seq(Symbols), list # <<>>, Len(list) # 1
          PROVE  Tail(list) \in Seq(Symbols) /\ Tail(list) # <<>>
      <4>1. Tail(list) \in Seq(Symbols) /\ Len(Tail(list)) = Len(list) - 1
        BY <3>2, HeadTailProperties
      <4>2. Len(list) \in Nat /\ Len(list) # 0
        BY <3>2
      <4>3. Len(Tail(list)) # 0
        BY <3>2, <4>1, <4>2
      <4>4. Tail(list) # <<>>
        <5>1. PICK rest : rest = Tail(list)
          OBVIOUS
        <5>2. rest = <<>> => Len(rest) = 0
          OBVIOUS
        <5>. QED
          BY <4>3, <5>1, <5>2
      <4>. QED
        BY <4>1, <4>4
    <3>. QED
      BY <1>1, <1>5, <3>1, <3>2
  <2>3. run' \in Progress /\ run'.phase = "booking" /\ run'.step = run.step /\ run'.settled = run.settled
        /\ run'.failed = run.failed /\ run'.success = Now /\ run'.batch # <<>>
    BY <1>1, <2>1, <2>2 DEF Progress
  <2>4. Clock' = Now /\ Now' = Now
    BY <2>3 DEF Clock, Now
  <2>5. PICK t : t = Now
    OBVIOUS
  <2>6. t = Clock' /\ run'.settled = [s \in Symbols |-> Closed(t)] /\ Past(ex', t)
        /\ \A s \in Symbols : OnTime(ex', s, Closed(t))
    BY <1>1, <1>2, <2>3, <2>4, <2>5
  <2>7. Typed(ex') /\ Typed(saved') /\ Balanced(ex') /\ Balanced(saved')
    BY <1>1, <1>2, <2>1
  <2>. QED
    BY <1>1, <1>3, <2>3, <2>4, <2>6, <2>7, GoesOn
<1>. QED
  BY <1>4, <1>5

LEMMA NoOrderInv ==
  ASSUME Inv, NoOrder
  PROVE  Inv'
<1>1. run.phase = "booking" /\ Booked(ex)
  BY DEF NoOrder
<1>. QED
  BY <1>1, WhileBooking, BookedInv

\* The order of a decision is what the rule accepted, for what is held, dated
\* by the decision.
Dated(dated, order, p, now) ==
  dated = [[order EXCEPT !.quantity = IF order.reduceOnly THEN p.quantity ELSE @] EXCEPT !.decided = now]

LEMMA DatedOrder ==
  ASSUME NEW order, order \in Orders, NEW p, p \in Position \union {None}, Fits(order, p),
         NEW now, now \in Nat, NEW dated, Dated(dated, order, p, now)
  PROVE  dated \in Order /\ dated.decided = now /\ (dated.reduceOnly => p # None)
<1>1. order \in Order /\ (order.reduceOnly <=> order.kind = "CLOSE")
  BY BacktestRunAssumption DEF BacktestRunAssumption
<1>2. order.reduceOnly => p # None /\ p \in Position
  BY <1>1 DEF Fits
<1>3. PICK quantity : quantity = IF order.reduceOnly THEN p.quantity ELSE order.quantity
  OBVIOUS
<1>4. quantity \in Nat \ {0}
  BY <1>1, <1>2, <1>3 DEF Order, Position
<1>5. dated = [[order EXCEPT !.quantity = quantity] EXCEPT !.decided = now]
  BY <1>1, <1>3 DEF Order, Dated
<1>6. dated \in Order /\ dated.decided = now /\ dated.reduceOnly = order.reduceOnly
  BY <1>1, <1>4, <1>5 DEF Order
<1>. QED
  BY <1>2, <1>6

\* An order given now is filled by a bar that has opened, or waits for one.
LEMMA ExecuteKeeps ==
  ASSUME Path, Now \in 0..End, NEW e, NEW s \in Symbols, Good(e, s, Closed(Now), Now),
         NextBar < NumBars, NEW order, order \in Order, order.decided = Now,
         order.reduceOnly => e.position[s] # None,
         NEW f, f = Execute(e, s, order, Now, NextBar, bars)
  PROVE  Good(f, s, Closed(Now), Now) /\ Elsewhere(e, f, s)
<1>1. PICK k \in Nat : k = Closed(Now)
  BY ClosedIs DEF Path
<1>2. PICK now \in Nat : now = Now
  OBVIOUS
<1>3. Opens(k) <= now /\ now < Closes(k)
  BY <1>1, <1>2, ClosedIs
<1>4. PICK b \in Nat : b = NextBar /\ now <= 2 * b /\ 2 * b <= now + 1
  <2>1. ((now + 1) \div 2) \in Nat /\ now <= 2 * ((now + 1) \div 2) /\ 2 * ((now + 1) \div 2) <= now + 1
    OBVIOUS
  <2>. QED
    BY <1>2, <2>1 DEF NextBar
<1>5. k <= b /\ b < NumBars
  BY <1>3, <1>4 DEF Opens, Closes
<1>6. Good(e, s, k, now)
  BY <1>1, <1>2
<1>7. CASE Opens(b) > now
  <2>1. PICK plan : plan = [order |-> order, bar |-> b]
    OBVIOUS
  <2>2. f = [e EXCEPT !.scheduled[s] = plan]
    BY <1>2, <1>4, <1>7, <2>1 DEF Execute
  <2>3. plan \in Scheduled /\ plan.order.decided = now /\ plan.bar = b
    BY <1>2, <2>1 DEF Scheduled
  <2>4. Planned(e, f, s, plan, k)
    BY <1>5, <1>7, <2>2, <2>3 DEF Planned, Opens
  <2>5. Good(f, s, k, now) /\ Elsewhere(e, f, s)
    BY <1>6, <2>4, ScheduleKeeps
  <2>. QED
    BY <1>1, <1>2, <2>5
<1>8. CASE ~(Opens(b) > now)
  <2>1. b = k /\ Opens(k) = now
    BY <1>3, <1>4, <1>8 DEF Opens, Closes
  <2>2. PICK base : base = bars[s][k].open
    OBVIOUS
  <2>3. base \in Int
    <3>1. k \in 0..(NumBars - 1)
      BY <1>5, <2>1 DEF Path
    <3>2. bars[s][k] \in Bar
      BY <3>1 DEF Path
    <3>. QED
      BY <2>2, <3>2 DEF Bar
  <2>4. f = ExecuteAt(e, s, order, base, Opens(k))
    BY <1>2, <1>4, <1>8, <2>1, <2>2 DEF Execute
  <2>5. Placeable(e, s, order, k)
    BY <1>2, <2>1 DEF Placeable
  <2>6. Opens(k) <= now
    BY <1>3
  <2>7. Good(f, s, k, now) /\ Elsewhere(e, f, s)
    BY <1>6, <2>3, <2>4, <2>5, <2>6, ExecuteAtKeeps
  <2>. QED
    BY <1>1, <1>2, <2>7
<1>. QED
  BY <1>7, <1>8

LEMMA PlaceOrderInv ==
  ASSUME Inv, PlaceOrder
  PROVE  Inv'
<1>1. run.phase = "booking" /\ NextBar < NumBars
  BY DEF PlaceOrder
<1>2. /\ Path /\ run \in Progress /\ Typed(ex) /\ run.batch # <<>> /\ Now \in 0..End
      /\ \A s \in Symbols : Good(ex, s, Closed(Now), Now)
      /\ Past(ex, Now) /\ \A s \in Symbols : OnTime(ex, s, Closed(Now))
  BY <1>1, WhileBooking
<1>3. PICK s \in Symbols : s = Head(run.batch)
  BY <1>2 DEF Progress
<1>4. PICK order \in Orders :
        /\ Fits(order, ex.position[s])
        /\ LET sized == [order EXCEPT !.quantity = IF order.reduceOnly THEN ex.position[s].quantity ELSE @]
               dated == [sized EXCEPT !.decided = Now]
           IN Booked(Execute(ex, s, dated, Now, NextBar, bars))
  BY <1>3 DEF PlaceOrder
<1>5. PICK dated : dated = [[order EXCEPT !.quantity = IF order.reduceOnly THEN ex.position[s].quantity ELSE @]
                                   EXCEPT !.decided = Now]
  OBVIOUS
<1>6. PICK f : f = Execute(ex, s, dated, Now, NextBar, bars)
  OBVIOUS
<1>7. Booked(f)
  BY <1>4, <1>5, <1>6
<1>8. dated \in Order /\ dated.decided = Now /\ (dated.reduceOnly => ex.position[s] # None)
  <2>1. PICK p : p = ex.position[s]
    OBVIOUS
  <2>2. p \in Position \union {None}
    BY <1>2, <2>1 DEF Typed, Exchange
  <2>3. PICK now \in Nat : now = Now
    BY <1>2
  <2>4. Dated(dated, order, p, now)
    BY <1>5, <2>1, <2>3 DEF Dated
  <2>5. Fits(order, p)
    BY <1>4, <2>1
  <2>6. dated \in Order /\ dated.decided = now /\ (dated.reduceOnly => p # None)
    BY <2>2, <2>4, <2>5, DatedOrder
  <2>. QED
    BY <2>1, <2>3, <2>6
<1>9. Good(f, s, Closed(Now), Now) /\ Elsewhere(ex, f, s)
  BY <1>1, <1>2, <1>6, <1>8, ExecuteKeeps
<1>10. \A u \in Symbols : OnTime(f, u, Closed(Now))
  <2>. SUFFICES ASSUME NEW u \in Symbols PROVE OnTime(f, u, Closed(Now))
    OBVIOUS
  <2>1. CASE u = s
    BY <1>9, <2>1 DEF Good
  <2>2. CASE u # s
    <3>1. OnTime(ex, u, Closed(Now)) /\ u \in Symbols \ {s}
      BY <1>2, <2>2
    <3>. QED
      BY <1>9, <3>1, OnTimeElsewhere
  <2>. QED
    BY <2>1, <2>2
<1>11. Typed(f) /\ Balanced(f) /\ Past(f, Now)
  BY <1>9 DEF Good
<1>. QED
  BY <1>1, <1>7, <1>10, <1>11, BookedInv

LEMMA StutterInv ==
  ASSUME Inv, UNCHANGED vars
  PROVE  Inv'
BY DEF Inv, TypeOK, Books, Timely, Clock, Now, EffectiveEnd, vars

LEMMA NextInv ==
  ASSUME Inv, [Next]_vars
  PROVE  Inv'
<1>1. CASE NextBatch    BY <1>1, NextBatchInv
<1>2. CASE CallFails    BY <1>2, CallFailsInv
<1>3. CASE GiveUp       BY <1>3, GiveUpInv
<1>4. CASE CallAnswers  BY <1>4, CallAnswersInv
<1>5. CASE NoOrder      BY <1>5, NoOrderInv
<1>6. CASE PlaceOrder   BY <1>6, PlaceOrderInv
<1>7. CASE Raise        BY <1>7, RaiseInv
<1>8. CASE Exhausted    BY <1>8, ExhaustedInv
<1>9. CASE Close        BY <1>9, CloseInv
<1>10. CASE UNCHANGED vars  BY <1>10, StutterInv
<1>. QED
  BY <1>1, <1>2, <1>3, <1>4, <1>5, <1>6, <1>7, <1>8, <1>9, <1>10 DEF Next

(***************************************************************************)
(* The theorems *)

\* Everything the runner keeps, from the account to the settled bars, stays
\* in order through settling, booking, retries, a rollback and the closing.
THEOREM PassInvariant == Spec => []Inv
<1>1. Init => Inv
  BY InitInv
<1>2. Inv /\ [Next]_vars => Inv'
  BY NextInv
<1>. QED
  BY <1>1, <1>2, PTL DEF Spec

\* The pass keeps its types: no order is scheduled for a bar the window does
\* not have, and a batch that is asked or booked has symbols left.
THEOREM PassTypes == Spec => []TypeOK
<1>1. Inv => TypeOK
  BY DEF Inv
<1>. QED
  BY <1>1, PassInvariant, PTL

\* Cash and trades tell one story, for every price path, order and rollback:
\* what the account gained is what its trades netted, less what the open
\* positions have paid or brought in already.
THEOREM CashIsExplained == Spec => []TradesExplainCash
<1>1. Inv => TradesExplainCash
  BY DEF Inv, Books, Balanced, TradesExplainCash
<1>. QED
  BY <1>1, PassInvariant, PTL

\* No model is shown a portfolio from the future: every bar that was settled
\* has closed, every fill is on a bar that has opened, none before its decision.
THEOREM NoFutureIsSeen == Spec => []NoFutureInPortfolio
<1>1. Inv => NoFutureInPortfolio
  <2>. SUFFICES ASSUME Inv, run.phase \in {"asking", "booking"} PROVE NoFutureInPortfolio
    BY DEF NoFutureInPortfolio
  <2>1. Path /\ Typed(ex) /\ Now \in 0..End
    BY InvParts
  <2>2. Clock = Now
    BY DEF Clock, Now
  <2>3. /\ run.settled = [s \in Symbols |-> Closed(Now)]
        /\ \A s \in Symbols : OnTime(ex, s, Closed(Now))
        /\ Past(ex, Now)
    BY <2>2 DEF Inv, Timely
  <2>4. PICK k \in Nat : k = Closed(Now)
    BY <2>1, ClosedIs DEF Path
  <2>5. PICK now \in Nat : now = Now
    BY <2>1
  <2>6. Opens(k) <= now
    BY <2>1, <2>4, <2>5, ClosedIs
  <2>7. \A s \in Symbols : Closes(run.settled[s] - 1) <= Now
    <3>1. Closes(k - 1) <= now
      BY <2>6 DEF Opens, Closes
    <3>. QED
      BY <2>3, <2>4, <2>5, <3>1
  <2>8. ASSUME NEW s \in Held(ex)
        PROVE  ex.position[s].decided <= ex.position[s].since /\ ex.position[s].since <= Now
    <3>1. s \in Symbols /\ ex.position[s] # None
      BY DEF Held
    <3>2. ex.position[s].since \in Nat
      BY <2>1, <3>1 DEF Typed, Exchange, Position
    <3>3. ex.position[s].decided <= ex.position[s].since /\ ex.position[s].since <= Opens(k)
      BY <2>3, <2>4, <3>1 DEF OnTime
    <3>. QED
      BY <2>5, <2>6, <3>2, <3>3 DEF Opens
  <2>9. ASSUME NEW i \in 1..Len(ex.trades)
        PROVE  ex.trades[i].since <= ex.trades[i].exit /\ ex.trades[i].exit <= Now
    <3>1. ex.trades[i] \in Trade
      BY <2>1 DEF Typed, Exchange
    <3>2. ex.trades[i].exit \in Nat
      BY <3>1 DEF Trade
    <3>3. /\ ex.trades[i].since <= ex.trades[i].exit
          /\ ex.trades[i].exit + (IF ex.trades[i].reason \in {"stop_loss", "take_profit"} THEN 2 ELSE 0) <= now
      BY <2>3, <2>5 DEF Past
    <3>. QED
      BY <2>5, <3>2, <3>3
  <2>. QED
    BY <2>7, <2>8, <2>9 DEF NoFutureInPortfolio
<1>. QED
  BY <1>1, PassInvariant, PTL

\* A run the provider failed is rolled back to its last answer: its trades, the
\* closing ones included, are over by then.
THEOREM RollbackIsComplete == Spec => []FailedRunEndsAtLastAnswer
<1>1. Inv => FailedRunEndsAtLastAnswer
  BY DEF Inv, Timely, Over, FailedRunEndsAtLastAnswer
<1>. QED
  BY <1>1, PassInvariant, PTL
====
