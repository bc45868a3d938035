---- MODULE DecisionRoute_proofs ----
(***************************************************************************)
(* Proofs about the decisions of a cadence, for every set of adapters,     *)
(* callers, batches and token counts and every number of attempts: one     *)
(* process at a time, no trade out of the shadow mode, replay inputs that  *)
(* belong to the decision, rows that close, and token counts that add up.  *)
(* That the rows of a cycle are charged with exactly the tokens of its     *)
(* calls needs induction on the number of rows; it is done on sets of      *)
(* naturals, from the well-foundedness of <.                               *)
(***************************************************************************)
EXTENDS DecisionRoute, WellFoundedInduction, TLAPS

----------------------------------------------------------------------------
\* The calls of the provider.

CallTypes ==
  /\ adapter \in Adapters
  /\ call \in [Callers -> {"none", "queued", "running", "terminating"}]
  /\ holder \in Callers \cup {Nobody}
  /\ live \in Nat
  /\ twice \in BOOLEAN

\* Processes that somebody waits for.
InUse == IF HasProcess /\ holder # Nobody THEN 1 ELSE 0

\* Who is past the semaphore holds it, and every process is waited for, unless
\* its caller was cancelled twice.
Exclusive ==
  /\ \A c \in Callers :
       /\ call[c] \in {"running", "terminating"} <=> holder = c
       /\ call[c] = "terminating" => HasProcess
  /\ live >= InUse
  /\ ~twice => live = InUse

\* The cycle calls the provider in one place only.
CycleCalls == pc # "call" => call[Cycle] = "none"

\* What the provider's part of a step may be.
CallMoves ==
  \/ UNCHANGED callVars
  \/ Fade
  \/ \E c \in Callers : Ask(c) \/ Start(c) \/ Return(c) \/ Interrupt(c) \/ Reap(c) \/ Abandon(c)

----------------------------------------------------------------------------
\* The cycle.

Stages == {"idle", "attempt", "prepare", "call", "settle", "sleep", "record", "verdict", "risk",
           "unwound"}
Origins == {"none", "formal", "shadow"}
Ledgers == [handed : Nat, written : Nat, asked : Nat, replay : Nat, cut : SUBSET Stages,
            complete : BOOLEAN, traded : SUBSET Origins]

RouteTypes ==
  /\ pc \in Stages
  /\ leaving \in BOOLEAN
  /\ batch \in Seq(Symbols)
  /\ pc # "idle" => batch # <<>>
  /\ inputs \in Nat
  /\ failed \in Seq(Nat)
  /\ pc = "record" => result.ok \/ failed # <<>>
  /\ result.ok \in BOOLEAN /\ result.usage \in Nat
  /\ index \in Nat
  /\ rows \in BOOLEAN
  /\ waiting \in [Symbols -> Origins]
  /\ ledger \in Ledgers

\* Where a cancelled cycle may be.
Leaves == leaving => pc \in {"call", "settle", "unwound"}

\* Before its attempts are recorded a cycle has saved no inputs, and those at
\* hand are what it asked with.
AsksWithInputs ==
  /\ pc \in {"attempt", "prepare", "call", "settle", "sleep", "record"} => ledger.replay = 0
  /\ pc \in {"call", "settle", "sleep", "record"} => ledger.asked = inputs

----------------------------------------------------------------------------
\* The provider's side of a step keeps the semaphore and the processes.
LEMMA ExclusiveStep ==
  ASSUME CallTypes, Exclusive, CallMoves
  PROVE  CallTypes' /\ Exclusive'
<1>. USE AdapterAssumption DEF CallTypes, Exclusive, InUse, HasProcess, callVars, Nobody
<1>1. CASE UNCHANGED callVars
  BY <1>1
<1>2. CASE Fade
  BY <1>2 DEF Fade
<1>3. ASSUME NEW c \in Callers, Ask(c) PROVE CallTypes' /\ Exclusive'
  BY <1>3 DEF Ask
<1>4. ASSUME NEW c \in Callers, Start(c) PROVE CallTypes' /\ Exclusive'
  BY <1>4 DEF Start
<1>5. ASSUME NEW c \in Callers, Return(c) PROVE CallTypes' /\ Exclusive'
  BY <1>5 DEF Return, Release
<1>6. ASSUME NEW c \in Callers, Interrupt(c) PROVE CallTypes' /\ Exclusive'
  BY <1>6 DEF Interrupt, Release
<1>7. ASSUME NEW c \in Callers, Reap(c) PROVE CallTypes' /\ Exclusive'
  BY <1>7 DEF Reap, Release
<1>8. ASSUME NEW c \in Callers, Abandon(c) PROVE CallTypes' /\ Exclusive'
  BY <1>8 DEF Abandon, Release
<1>. QED
  BY <1>1, <1>2, <1>3, <1>4, <1>5, <1>6, <1>7, <1>8 DEF CallMoves

\* A step uses the provider for at most one caller, and for the cycle only as
\* the semaphore, the timeout and the cancellation allow.
LEMMA CallsMove ==
  ASSUME CycleCalls, [Next]_vars
  PROVE  CallMoves
<1>. USE DEF CallMoves, CycleCalls, callVars, routeVars
<1>1. CASE UNCHANGED vars
  BY <1>1 DEF vars
<1>2. ASSUME NEW b \in Batches, Begin(b) PROVE CallMoves
  BY <1>2 DEF Begin, NewLedger
<1>3. ASSUME Attempt PROVE CallMoves
  <2>1. Cycle \in Callers
    BY RouteAssumption
  <2>2. CASE Shadowed
    BY <1>3, <2>2 DEF Attempt
  <2>3. CASE ~Shadowed
    <3>1. Ask(Cycle)
      BY <1>3, <2>3 DEF Attempt, At, Ask
    <3>. QED
      BY <2>1, <3>1
  <2>. QED
    BY <2>2, <2>3
<1>4. ASSUME Prepared PROVE CallMoves
  <2>1. Cycle \in Callers
    BY RouteAssumption
  <2>. QED
    BY <1>4, <2>1 DEF Prepared
<1>5. ASSUME StartCall(Cycle) PROVE CallMoves
  <2>1. Cycle \in Callers
    BY RouteAssumption
  <2>. QED
    BY <1>5, <2>1 DEF StartCall
<1>6. ASSUME NEW end \in Ends, NEW tokens \in Tokens, NEW choice \in PossibleChoices, CallReturns(end, tokens, choice)
      PROVE  CallMoves
  <2>1. Cycle \in Callers
    BY RouteAssumption
  <2>. QED
    BY <1>6, <2>1 DEF CallReturns
<1>7. ASSUME CallTimesOut PROVE CallMoves
  <2>1. Cycle \in Callers
    BY RouteAssumption
  <2>. QED
    BY <1>7, <2>1 DEF CallTimesOut
<1>8. ASSUME CallReaped PROVE CallMoves
  <2>1. Cycle \in Callers
    BY RouteAssumption
  <2>. QED
    BY <1>8, <2>1 DEF CallReaped
<1>9. ASSUME Settle PROVE CallMoves
  BY <1>9 DEF Settle, Conclude
<1>10. ASSUME Refresh PROVE CallMoves
  BY <1>10 DEF Refresh, At, Forget
<1>11. ASSUME RecordAttempts PROVE CallMoves
  BY <1>11 DEF RecordAttempts, At, SaveRound
<1>12. ASSUME RecordResult PROVE CallMoves
  BY <1>12 DEF RecordResult, At
<1>13. ASSUME Evaluate PROVE CallMoves
  BY <1>13 DEF Evaluate, At, Execute
<1>14. ASSUME EndCycle PROVE CallMoves
  BY <1>14 DEF EndCycle, At, Forget
<1>15. ASSUME Unwind PROVE CallMoves
  BY <1>15 DEF Unwind, Forget
<1>16. ASSUME Cancel PROVE CallMoves
  <2>1. Cycle \in Callers
    BY RouteAssumption
  <2>. QED
    BY <1>16, <2>1 DEF Cancel
<1>17. ASSUME NEW s \in Symbols, Recheck(s) PROVE CallMoves
  BY <1>17 DEF Recheck, Execute
<1>18. ASSUME NEW s \in Symbols, PositionEnds(s) PROVE CallMoves
  BY <1>18 DEF PositionEnds
<1>19. ASSUME GuardPoll PROVE CallMoves
  BY <1>19 DEF GuardPoll
<1>20. ASSUME StopRun PROVE CallMoves
  BY <1>20 DEF StopRun
<1>21. ASSUME StartRun PROVE CallMoves
  BY <1>21 DEF StartRun
<1>22. ASSUME OtherJob PROVE CallMoves
  BY <1>22 DEF OtherJob
<1>23. ASSUME Fade, UNCHANGED routeVars PROVE CallMoves
  BY <1>23
<1>. QED
  BY <1>1, <1>2, <1>3, <1>4, <1>5, <1>6, <1>7, <1>8, <1>9, <1>10, <1>11, <1>12, <1>13, <1>14, <1>15, <1>16, <1>17, <1>18, <1>19, <1>20, <1>21, <1>22, <1>23 DEF Next, CycleSteps

\* The cycle is with the provider only in its call.
LEMMA CycleCallsStep ==
  ASSUME CallTypes, CycleCalls, [Next]_vars
  PROVE  CycleCalls'
<1>. USE DEF CallTypes, CycleCalls, callVars, routeVars
<1>1. CASE UNCHANGED vars
  BY <1>1 DEF vars
<1>2. ASSUME NEW b \in Batches, Begin(b) PROVE CycleCalls'
  BY <1>2 DEF Begin, NewLedger
<1>3. ASSUME Attempt PROVE CycleCalls'
  BY <1>3 DEF Attempt, At, Shadowed
<1>4. ASSUME Prepared PROVE CycleCalls'
  BY <1>4 DEF Prepared, At, Ask
<1>5. ASSUME StartCall(Cycle) PROVE CycleCalls'
  BY <1>5 DEF StartCall, Start
<1>6. ASSUME NEW end \in Ends, NEW tokens \in Tokens, NEW choice \in PossibleChoices, CallReturns(end, tokens, choice)
      PROVE  CycleCalls'
  <2>1. Cycle \in Callers
    BY RouteAssumption
  <2>. QED
    BY <1>6, <2>1 DEF CallReturns, Return, Release
<1>7. ASSUME CallTimesOut PROVE CycleCalls'
  BY <1>7 DEF CallTimesOut, At, AfterCall, Conclude, Interrupt, Release, Lost, Carried
<1>8. ASSUME CallReaped PROVE CycleCalls'
  <2>1. Cycle \in Callers
    BY RouteAssumption
  <2>. QED
    BY <1>8, <2>1 DEF CallReaped, Reap, Release
<1>9. ASSUME Settle PROVE CycleCalls'
  BY <1>9 DEF Settle, Conclude
<1>10. ASSUME Refresh PROVE CycleCalls'
  BY <1>10 DEF Refresh, At, Forget
<1>11. ASSUME RecordAttempts PROVE CycleCalls'
  BY <1>11 DEF RecordAttempts, At, SaveRound
<1>12. ASSUME RecordResult PROVE CycleCalls'
  BY <1>12 DEF RecordResult, At
<1>13. ASSUME Evaluate PROVE CycleCalls'
  BY <1>13 DEF Evaluate, At, Execute
<1>14. ASSUME EndCycle PROVE CycleCalls'
  BY <1>14 DEF EndCycle, At, Forget
<1>15. ASSUME Unwind PROVE CycleCalls'
  BY <1>15 DEF Unwind, Forget
<1>16. ASSUME Cancel PROVE CycleCalls'
  BY <1>16 DEF Cancel, Interrupt, Abandon, Release
<1>17. ASSUME NEW s \in Symbols, Recheck(s) PROVE CycleCalls'
  BY <1>17 DEF Recheck, Execute
<1>18. ASSUME NEW s \in Symbols, PositionEnds(s) PROVE CycleCalls'
  BY <1>18 DEF PositionEnds
<1>19. ASSUME GuardPoll PROVE CycleCalls'
  BY <1>19 DEF GuardPoll
<1>20. ASSUME StopRun PROVE CycleCalls'
  BY <1>20 DEF StopRun
<1>21. ASSUME StartRun PROVE CycleCalls'
  BY <1>21 DEF StartRun
<1>22. ASSUME OtherJob PROVE CycleCalls'
  <2>1. Cycle \in Callers
    BY RouteAssumption
  <2>2. PICK c \in Callers \ {Cycle} :
              Ask(c) \/ Start(c) \/ Return(c) \/ Interrupt(c) \/ Reap(c) \/ Abandon(c)
    BY <1>22 DEF OtherJob
  <2>3. call'[Cycle] = call[Cycle] \/ UNCHANGED call
    BY <2>1, <2>2 DEF Ask, Start, Return, Interrupt, Reap, Abandon, Release
  <2>. QED
    BY <1>22, <2>3 DEF OtherJob
<1>23. ASSUME Fade, UNCHANGED routeVars PROVE CycleCalls'
  BY <1>23 DEF Fade
<1>. QED
  BY <1>1, <1>2, <1>3, <1>4, <1>5, <1>6, <1>7, <1>8, <1>9, <1>10, <1>11, <1>12, <1>13, <1>14, <1>15, <1>16, <1>17, <1>18, <1>19, <1>20, <1>21, <1>22, <1>23 DEF Next, CycleSteps

----------------------------------------------------------------------------
\* Sums over the rows of a batch and over the batches of a cycle.

\* Induction on sets of naturals: the least natural outside T has a
\* predecessor, which is in T.
LEMMA AllNaturals ==
  ASSUME NEW T, T \subseteq Nat, 0 \in T, \A n \in T : n + 1 \in T
  PROVE  T = Nat
<1>. DEFINE less == OpToRel(<, Nat)
<1>. SUFFICES ASSUME Nat \ T # {} PROVE FALSE
  OBVIOUS
<1>1. \E x \in Nat \ T : \A y \in Nat \ T : ~(<<y, x>> \in less)
  <2>1. IsWellFoundedOn(less, Nat)
    BY NatLessThanWellFounded
  <2>. HIDE DEF less
  <2>. QED
    BY <2>1, WFMin
<1>2. PICK x \in Nat \ T : \A y \in Nat \ T : ~(<<y, x>> \in less)
  BY <1>1
<1>3. x # 0 /\ x - 1 \in Nat
  OBVIOUS
<1>4. <<x - 1, x>> \in less
  BY <1>3 DEF OpToRel
<1>5. x - 1 \in T
  BY <1>2, <1>3, <1>4
<1>. QED
  BY <1>3, <1>5

\* f adds up the first values of h.
Accumulates(f, n, h) ==
  f = [i \in 0..n |-> IF i = 0 THEN 0 ELSE f[i - 1] + h[i]]

\* There is such a function ...
LEMMA SumExists ==
  ASSUME NEW h, NEW n \in Nat
  PROVE  \E f : Accumulates(f, n, h)
<1>. DEFINE T == {k \in Nat : \E f : Accumulates(f, k, h)}
<1>1. 0 \in T
  <2>. DEFINE f == [i \in 0..0 |-> 0]
  <2>1. Accumulates(f, 0, h)
    BY DEF Accumulates
  <2>. QED
    BY <2>1
<1>2. ASSUME NEW k \in T PROVE k + 1 \in T
  <2>1. PICK f : f = [i \in 0..k |-> IF i = 0 THEN 0 ELSE f[i - 1] + h[i]]
    BY DEF Accumulates
  <2>. DEFINE g == [i \in 0..(k + 1) |-> IF i <= k THEN f[i] ELSE f[k] + h[k + 1]]
  <2>2. ASSUME NEW i \in 0..(k + 1) PROVE g[i] = IF i = 0 THEN 0 ELSE g[i - 1] + h[i]
    <3>1. CASE i = 0
      BY <2>1, <3>1
    <3>2. CASE i # 0 /\ i <= k
      <4>1. g[i] = f[i] /\ g[i - 1] = f[i - 1] /\ f[i] = f[i - 1] + h[i]
        BY <2>1, <3>2
      <4>. QED
        BY <3>2, <4>1
    <3>3. CASE i = k + 1
      <4>1. g[i] = f[k] + h[k + 1] /\ g[i - 1] = f[k] /\ i # 0
        BY <3>3
      <4>. QED
        BY <3>3, <4>1
    <3>. QED
      BY <3>1, <3>2, <3>3
  <2>3. g = [i \in 0..(k + 1) |-> g[i]]
    OBVIOUS
  <2>. HIDE DEF g
  <2>4. g = [i \in 0..(k + 1) |-> IF i = 0 THEN 0 ELSE g[i - 1] + h[i]]
    BY <2>2, <2>3
  <2>5. Accumulates(g, k + 1, h)
    BY <2>4 DEF Accumulates
  <2>. QED
    BY <2>5
<1>. HIDE DEF T
<1>3. T = Nat
  <2>1. T \subseteq Nat
    BY DEF T
  <2>. QED
    BY <1>1, <1>2, <2>1, AllNaturals
<1>. QED
  BY <1>3 DEF T

\* ... and only one, which agrees with that of a longer sum.
LEMMA SumUnique ==
  ASSUME NEW f, NEW g, NEW h, NEW n \in Nat, NEW m \in Nat, n <= m,
         Accumulates(f, n, h), Accumulates(g, m, h)
  PROVE  \A k \in 0..n : f[k] = g[k]
<1>. DEFINE T == {k \in Nat : k <= n => f[k] = g[k]}
<1>1. 0 \in T
  BY DEF Accumulates
<1>2. ASSUME NEW k \in T PROVE k + 1 \in T
  <2>1. CASE k + 1 <= n
    <3>1. f[k + 1] = f[k] + h[k + 1] /\ g[k + 1] = g[k] + h[k + 1]
      BY <2>1 DEF Accumulates
    <3>. QED
      BY <2>1, <3>1
  <2>2. CASE ~(k + 1 <= n)
    BY <2>2
  <2>. QED
    BY <2>1, <2>2
<1>3. T = Nat
  <2>1. T \subseteq Nat
    OBVIOUS
  <2>. HIDE DEF T
  <2>. QED
    BY <1>1, <1>2, <2>1, AllNaturals
<1>. QED
  BY <1>3

\* A sum of naturals is one.
LEMMA SumTypes ==
  ASSUME NEW f, NEW h, NEW n \in Nat, Accumulates(f, n, h), \A i \in 1..n : h[i] \in Nat
  PROVE  f \in [0..n -> Nat]
<1>. DEFINE T == {k \in Nat : k <= n => f[k] \in Nat}
<1>1. 0 \in T
  BY DEF Accumulates
<1>2. ASSUME NEW k \in T PROVE k + 1 \in T
  <2>1. CASE k + 1 <= n
    <3>1. f[k + 1] = f[k] + h[k + 1] /\ h[k + 1] \in Nat /\ f[k] \in Nat
      BY <2>1 DEF Accumulates
    <3>. QED
      BY <2>1, <3>1
  <2>2. CASE ~(k + 1 <= n)
    BY <2>2
  <2>. QED
    BY <2>1, <2>2
<1>3. T = Nat
  <2>1. T \subseteq Nat
    OBVIOUS
  <2>. HIDE DEF T
  <2>. QED
    BY <1>1, <1>2, <2>1, AllNaturals
<1>4. \A k \in 0..n : f[k] \in Nat
  BY <1>3
<1>. QED
  BY <1>4 DEF Accumulates

\* The function the model defines by recursion is the sum.
SumOf(n, h) == LET f[i \in 0..n] == IF i = 0 THEN 0 ELSE f[i - 1] + h[i] IN f

LEMMA SumIsSum ==
  ASSUME NEW h, NEW n \in Nat
  PROVE  Accumulates(SumOf(n, h), n, h)
<1>. DEFINE Is(f) == f = [i \in 0..n |-> IF i = 0 THEN 0 ELSE f[i - 1] + h[i]]
<1>1. \E f : Is(f)
  BY SumExists DEF Accumulates
<1>2. SumOf(n, h) = CHOOSE f : Is(f)
  BY DEF SumOf
<1>3. Is(CHOOSE f : Is(f))
  <2>. HIDE DEF Is
  <2>. QED
    BY <1>1
<1>. QED
  BY <1>2, <1>3 DEF Accumulates

\* What the first k of n rows are charged with.
Paid(total, n, k) ==
  k * (total \div n) + (IF k <= total % n THEN k ELSE total % n)

\* Row by row, all is charged in the end.
LEMMA PaidShares ==
  ASSUME NEW total \in Nat, NEW n \in Nat \ {0}
  PROVE  /\ Paid(total, n, 0) = 0 /\ Paid(total, n, n) = total
         /\ \A k \in Nat : /\ Paid(total, n, k) \in Nat /\ Share(total, n, k + 1) \in Nat
                           /\ Paid(total, n, k + 1) = Paid(total, n, k) + Share(total, n, k + 1)
<1>. DEFINE q == total \div n
            r == total % n
<1>1. q \in Nat /\ r \in Nat /\ r < n /\ total = q * n + r
  OBVIOUS
<1>2. Paid(total, n, 0) = 0 /\ Paid(total, n, n) = total
  <2>1. 0 * q = 0 /\ n * q = q * n
    BY <1>1
  <2>. HIDE DEF q, r
  <2>2. Paid(total, n, 0) = 0 * q + (IF 0 <= r THEN 0 ELSE r)
    BY DEF Paid, q, r
  <2>3. Paid(total, n, n) = n * q + (IF n <= r THEN n ELSE r)
    BY DEF Paid, q, r
  <2>. QED
    BY <1>1, <2>1, <2>2, <2>3
<1>3. ASSUME NEW k \in Nat
      PROVE  /\ Paid(total, n, k) \in Nat /\ Share(total, n, k + 1) \in Nat
             /\ Paid(total, n, k + 1) = Paid(total, n, k) + Share(total, n, k + 1)
  <2>1. (k + 1) * q = k * q + q /\ k * q \in Nat
    BY <1>1
  <2>. HIDE DEF q, r
  <2>2. Paid(total, n, k) = k * q + (IF k <= r THEN k ELSE r)
    BY DEF Paid, q, r
  <2>3. Paid(total, n, k + 1) = (k + 1) * q + (IF k + 1 <= r THEN k + 1 ELSE r)
    BY DEF Paid, q, r
  <2>4. Share(total, n, k + 1) = q + (IF k + 1 <= r THEN 1 ELSE 0)
    BY DEF Share, q, r
  <2>. QED
    BY <1>1, <2>1, <2>2, <2>3, <2>4
<1>. QED
  BY <1>2, <1>3

\* The rows of a batch are charged with the tokens of its call.
LEMMA SpreadWhole ==
  ASSUME batch \in Seq(Symbols), batch # <<>>, NEW total \in Nat
  PROVE  Spread(total) = total
<1>. DEFINE n == Len(batch)
            h == [i \in 1..n |-> Share(total, n, i)]
            g == [k \in 0..n |-> Paid(total, n, k)]
            Is(f) == f = [i \in 0..n |-> IF i = 0 THEN 0 ELSE f[i - 1] + Share(total, n, i)]
<1>1. n \in Nat \ {0}
  OBVIOUS
<1>2. Spread(total) = (CHOOSE f : Is(f))[n]
  BY DEF Spread
<1>. HIDE DEF n
<1>3. \A f : Is(f) <=> Accumulates(f, n, h)
  <2>1. ASSUME NEW f
        PROVE  [i \in 0..n |-> IF i = 0 THEN 0 ELSE f[i - 1] + Share(total, n, i)]
                 = [i \in 0..n |-> IF i = 0 THEN 0 ELSE f[i - 1] + h[i]]
    <3>1. ASSUME NEW i \in 0..n
          PROVE  (IF i = 0 THEN 0 ELSE f[i - 1] + Share(total, n, i))
                   = IF i = 0 THEN 0 ELSE f[i - 1] + h[i]
      BY <1>1
    <3>. QED
      BY <3>1
  <2>. QED
    BY <2>1 DEF Accumulates
<1>4. Accumulates(g, n, h)
  <2>1. ASSUME NEW i \in 0..n PROVE g[i] = IF i = 0 THEN 0 ELSE g[i - 1] + h[i]
    <3>1. CASE i = 0
      BY <3>1, <1>1, PaidShares
    <3>2. CASE i # 0
      <4>1. i - 1 \in Nat /\ (i - 1) + 1 = i /\ i \in 1..n
        BY <3>2, <1>1
      <4>2. Paid(total, n, (i - 1) + 1) = Paid(total, n, i - 1) + Share(total, n, (i - 1) + 1)
        BY <4>1, <1>1, PaidShares
      <4>. QED
        BY <3>2, <4>1, <4>2, <1>1
    <3>. QED
      BY <3>1, <3>2
  <2>2. g = [i \in 0..n |-> g[i]]
    OBVIOUS
  <2>. HIDE DEF g, h
  <2>. QED
    BY <2>1, <2>2 DEF Accumulates
<1>. HIDE DEF h
<1>5. Accumulates(CHOOSE f : Is(f), n, h)
  <2>1. \E f : Is(f)
    BY <1>1, <1>3, SumExists
  <2>2. Is(CHOOSE f : Is(f))
    <3>. HIDE DEF Is
    <3>. QED
      BY <2>1
  <2>. HIDE DEF Is
  <2>. QED
    BY <1>3, <2>2
<1>6. g[n] = total
  BY <1>1, PaidShares
<1>. HIDE DEF g, Is
<1>7. n \in 0..n
  BY <1>1
<1>. QED
  BY <1>1, <1>2, <1>4, <1>5, <1>6, <1>7, SumUnique

\* The sum of a sequence.
Total(s) == SumOf(Len(s), s)[Len(s)]

LEMMA TotalTypes ==
  ASSUME NEW s \in Seq(Nat)
  PROVE  Total(s) \in Nat
<1>1. Len(s) \in Nat /\ \A i \in 1..Len(s) : s[i] \in Nat
  OBVIOUS
<1>2. SumOf(Len(s), s) \in [0..Len(s) -> Nat]
  BY <1>1, SumIsSum, SumTypes
<1>. QED
  BY <1>1, <1>2 DEF Total

LEMMA TotalEmpty == Total(<<>>) = 0
<1>1. Len(<<>>) = 0
  OBVIOUS
<1>2. Accumulates(SumOf(0, <<>>), 0, <<>>)
  BY SumIsSum
<1>3. SumOf(0, <<>>)[0] = 0
  BY <1>2 DEF Accumulates
<1>. QED
  BY <1>1, <1>3 DEF Total

\* Sums of sequences that agree.
LEMMA TotalPrefix ==
  ASSUME NEW s \in Seq(Nat), NEW t \in Seq(Nat), Len(t) = Len(s) + 1,
         \A i \in 1..Len(s) : s[i] = t[i]
  PROVE  Total(t) = Total(s) + t[Len(t)]
<1>. DEFINE n == Len(s)
            f == SumOf(n, s)
            g == SumOf(n + 1, t)
            p == [k \in 0..n |-> g[k]]
<1>1. n \in Nat /\ Accumulates(f, n, s) /\ Accumulates(g, n + 1, t)
  BY SumIsSum
<1>. HIDE DEF f, g
<1>2. \A k \in 0..(n + 1) : g[k] = IF k = 0 THEN 0 ELSE g[k - 1] + t[k]
  BY <1>1 DEF Accumulates
<1>3. Accumulates(p, n, s)
  <2>1. ASSUME NEW i \in 0..n PROVE p[i] = IF i = 0 THEN 0 ELSE p[i - 1] + s[i]
    <3>1. i \in 0..(n + 1) /\ (i # 0 => i - 1 \in 0..n /\ i \in 1..n)
      BY <1>1
    <3>2. i # 0 => s[i] = t[i]
      BY <3>1
    <3>. QED
      BY <1>2, <3>1, <3>2
  <2>2. p = [i \in 0..n |-> p[i]]
    OBVIOUS
  <2>. HIDE DEF p
  <2>. QED
    BY <2>1, <2>2 DEF Accumulates
<1>4. n \in 0..n /\ n + 1 \in 0..(n + 1) /\ n + 1 # 0 /\ (n + 1) - 1 = n
  BY <1>1
<1>5. p[n] = f[n]
  <2>. HIDE DEF p, n
  <2>. QED
    BY <1>1, <1>3, <1>4, SumUnique
<1>6. g[n + 1] = f[n] + t[n + 1]
  BY <1>2, <1>4, <1>5
<1>. QED
  BY <1>6 DEF Total, f, g

LEMMA TotalAppend ==
  ASSUME NEW s \in Seq(Nat), NEW x \in Nat
  PROVE  Total(Append(s, x)) = Total(s) + x
<1>1. /\ Append(s, x) \in Seq(Nat) /\ Len(Append(s, x)) = Len(s) + 1
      /\ \A i \in 1..Len(s) : s[i] = Append(s, x)[i]
      /\ Append(s, x)[Len(s) + 1] = x
  OBVIOUS
<1>. QED
  BY <1>1, TotalPrefix

LEMMA TotalButLast ==
  ASSUME NEW s \in Seq(Nat), s # <<>>
  PROVE  /\ SubSeq(s, 1, Len(s) - 1) \in Seq(Nat)
         /\ Total(s) = Total(SubSeq(s, 1, Len(s) - 1)) + s[Len(s)]
<1>. DEFINE t == SubSeq(s, 1, Len(s) - 1)
<1>1. Len(s) \in Nat /\ Len(s) # 0
  OBVIOUS
<1>2. /\ t \in Seq(Nat) /\ Len(t) = Len(s) - 1
      /\ \A i \in 1..Len(t) : t[i] = s[i]
  <2>1. ASSUME NEW m \in Nat, m < Len(s)
        PROVE  /\ SubSeq(s, 1, m) \in Seq(Nat) /\ Len(SubSeq(s, 1, m)) = m
               /\ \A i \in 1..m : SubSeq(s, 1, m)[i] = s[i]
    BY <2>1
  <2>2. Len(s) - 1 \in Nat /\ Len(s) - 1 < Len(s)
    BY <1>1
  <2>. QED
    BY <2>1, <2>2
<1>3. Len(s) = Len(t) + 1
  BY <1>1, <1>2
<1>. HIDE DEF t
<1>4. Total(s) = Total(t) + s[Len(s)]
  BY <1>2, <1>3, TotalPrefix
<1>. QED
  BY <1>2, <1>4 DEF t

\* The rows of several batches are charged with the tokens of their calls.
LEMMA SpreadAllWhole ==
  ASSUME batch \in Seq(Symbols), batch # <<>>, NEW usages \in Seq(Nat)
  PROVE  SpreadAll(usages) = Total(usages)
<1>. DEFINE n == Len(usages)
            Is(f) == f = [i \in 0..n |-> IF i = 0 THEN 0 ELSE f[i - 1] + Spread(usages[i])]
<1>1. n \in Nat /\ \A i \in 1..n : usages[i] \in Nat /\ Spread(usages[i]) = usages[i]
  BY SpreadWhole
<1>2. SpreadAll(usages) = (CHOOSE f : Is(f))[n]
  BY DEF SpreadAll
<1>3. \A f : Is(f) <=> Accumulates(f, n, usages)
  <2>1. ASSUME NEW f
        PROVE  [i \in 0..n |-> IF i = 0 THEN 0 ELSE f[i - 1] + Spread(usages[i])]
                 = [i \in 0..n |-> IF i = 0 THEN 0 ELSE f[i - 1] + usages[i]]
    <3>1. ASSUME NEW i \in 0..n
          PROVE  (IF i = 0 THEN 0 ELSE f[i - 1] + Spread(usages[i]))
                   = IF i = 0 THEN 0 ELSE f[i - 1] + usages[i]
      BY <1>1
    <3>. QED
      BY <3>1
  <2>. QED
    BY <2>1 DEF Accumulates
<1>4. Accumulates(CHOOSE f : Is(f), n, usages)
  <2>1. \E f : Is(f)
    BY <1>1, <1>3, SumExists
  <2>2. Is(CHOOSE f : Is(f))
    <3>. HIDE DEF Is
    <3>. QED
      BY <2>1
  <2>. HIDE DEF Is
  <2>. QED
    BY <1>3, <2>2
<1>5. n \in 0..n /\ n <= n
  BY <1>1
<1>6. Accumulates(SumOf(n, usages), n, usages)
  BY <1>1, SumIsSum
<1>. HIDE DEF Is, n
<1>7. (CHOOSE f : Is(f))[n] = SumOf(n, usages)[n]
  BY <1>1, <1>4, <1>5, <1>6, SumUnique
<1>. QED
  BY <1>2, <1>7 DEF Total, n

----------------------------------------------------------------------------
\* The cycle, step by step.

\* Whatever the model prints, the adapter answers with a number of tokens.
LEMMA AnswerTypes ==
  ASSUME adapter \in Adapters, NEW end \in Ends, NEW tokens \in Tokens, NEW size \in Nat
  PROVE  \A a \in {Intents(end, tokens, size), Assisted(end, tokens), Lost} :
           a.ok \in BOOLEAN /\ a.usage \in Nat
<1>1. tokens \in Nat
  BY AdapterAssumption
<1>2. ASSUME NEW u \in Nat
      PROVE  \A a \in {Carried(u), Decided(u)} : a.ok \in BOOLEAN /\ a.usage \in Nat
  <2>1. Carried(u).ok \in BOOLEAN /\ Carried(u).usage \in Nat
    BY DEF Carried
  <2>2. Decided(u).ok \in BOOLEAN /\ Decided(u).usage \in Nat
    BY DEF Decided
  <2>. QED
    BY <2>1, <2>2
<1>. DEFINE answers == {Carried(tokens), Carried(0), Decided(tokens), Decided(0)}
<1>3. Assisted(end, tokens) \in answers /\ Lost \in answers
  BY DEF Assisted, Lost
<1>4. Intents(end, tokens, size) \in answers
  BY AdapterAssumption
     DEF Intents, CodexIntent, CodexIntents, ClaudeIntent, ClaudeIntents, HttpIntent, HttpIntents, Lost
<1>5. \A a \in answers : a.ok \in BOOLEAN /\ a.usage \in Nat
  BY <1>1, <1>2
<1>. QED
  BY <1>3, <1>4, <1>5

\* What a step may write into the ledger.
LEMMA LedgerTypes ==
  ASSUME ledger \in Ledgers, NEW n \in Nat
  PROVE  /\ NewLedger \in Ledgers
         /\ [ledger EXCEPT !.asked = n] \in Ledgers
         /\ [ledger EXCEPT !.handed = @ + n] \in Ledgers
         /\ [ledger EXCEPT !.written = @ + n] \in Ledgers
         /\ [ledger EXCEPT !.written = @ + n, !.complete = TRUE] \in Ledgers
         /\ [ledger EXCEPT !.complete = TRUE] \in Ledgers
         /\ \A m \in Nat : [ledger EXCEPT !.replay = m, !.written = @ + n] \in Ledgers
         /\ \A stage \in Stages : [ledger EXCEPT !.cut = @ \cup {stage}] \in Ledgers
         /\ \A origin \in Origins : [ledger EXCEPT !.traded = @ \cup {origin}] \in Ledgers
<1>1. NewLedger \in Ledgers
  BY DEF Ledgers, NewLedger
<1>2. [ledger EXCEPT !.asked = n] \in Ledgers
  BY DEF Ledgers
<1>3. [ledger EXCEPT !.handed = @ + n] \in Ledgers
  BY DEF Ledgers
<1>4. [ledger EXCEPT !.written = @ + n] \in Ledgers
  BY DEF Ledgers
<1>5. [ledger EXCEPT !.written = @ + n, !.complete = TRUE] \in Ledgers
  <2>1. [ledger EXCEPT !.written = @ + n, !.complete = TRUE]
          = [[ledger EXCEPT !.written = @ + n] EXCEPT !.complete = TRUE]
    BY DEF Ledgers
  <2>2. \A l \in Ledgers : [l EXCEPT !.complete = TRUE] \in Ledgers
    BY DEF Ledgers
  <2>. QED
    BY <1>4, <2>1, <2>2
<1>6. [ledger EXCEPT !.complete = TRUE] \in Ledgers
  BY DEF Ledgers
<1>7. ASSUME NEW m \in Nat
      PROVE  [ledger EXCEPT !.replay = m, !.written = @ + n] \in Ledgers
  <2>1. [ledger EXCEPT !.replay = m, !.written = @ + n]
          = [[ledger EXCEPT !.written = @ + n] EXCEPT !.replay = m]
    BY DEF Ledgers
  <2>2. \A l \in Ledgers : [l EXCEPT !.replay = m] \in Ledgers
    BY DEF Ledgers
  <2>. QED
    BY <1>4, <2>1, <2>2
<1>8. ASSUME NEW stage \in Stages
      PROVE  [ledger EXCEPT !.cut = @ \cup {stage}] \in Ledgers
  BY DEF Ledgers
<1>9. ASSUME NEW origin \in Origins
      PROVE  [ledger EXCEPT !.traded = @ \cup {origin}] \in Ledgers
  BY DEF Ledgers
<1>. QED
  BY <1>1, <1>2, <1>3, <1>4, <1>5, <1>6, <1>7, <1>8, <1>9

\* What an attempt ends with.
LEMMA ConcludeKeeps ==
  ASSUME failed \in Seq(Nat), NEW answer, answer.ok \in BOOLEAN, answer.usage \in Nat, Conclude(answer)
  PROVE  /\ pc' \in {"record", "sleep"} /\ failed' \in Seq(Nat)
         /\ pc' = "record" => answer.ok \/ failed' # <<>>
<1>1. CASE answer.ok
  BY <1>1 DEF Conclude
<1>2. CASE ~answer.ok
  <2>1. failed' = Append(failed, answer.usage)
    BY <1>2 DEF Conclude
  <2>2. failed' \in Seq(Nat) /\ failed' # <<>>
    BY <2>1
  <2>3. pc' \in {"record", "sleep"}
    BY <1>2 DEF Conclude
  <2>. QED
    BY <2>2, <2>3
<1>. QED
  BY <1>1, <1>2

\* An answer, or its absence, leaves the cycle well-formed.
LEMMA AnswerKept ==
  ASSUME RouteTypes, NEW answer, answer.ok \in BOOLEAN, answer.usage \in Nat, NEW actions,
         AfterCall(answer, actions), pc = "call",
         UNCHANGED <<leaving, batch, inputs, index, rows, waiting>>
  PROVE  RouteTypes'
<1>1. ledger' \in Ledgers
  BY LedgerTypes DEF RouteTypes, AfterCall
<1>2. result'.ok = answer.ok /\ result'.usage = answer.usage
  BY DEF AfterCall
<1>3. /\ pc' \in {"settle", "record", "sleep"} /\ failed' \in Seq(Nat)
      /\ pc' = "record" => answer.ok \/ failed' # <<>>
  <2>1. CASE rows
    BY <2>1 DEF AfterCall, RouteTypes
  <2>2. CASE ~rows
    <3>1. Conclude(answer)
      BY <2>2 DEF AfterCall
    <3>. QED
      BY <3>1, ConcludeKeeps DEF RouteTypes
  <2>. QED
    BY <2>1, <2>2
<1>. QED
  BY <1>1, <1>2, <1>3 DEF RouteTypes, Stages

\* The cycle stays well-formed: a batch to ask about, numbers of tokens, and a
\* failed attempt behind every refusal that is recorded.
LEMMA RouteTypesStep ==
  ASSUME CallTypes, RouteTypes, Leaves, [Next]_vars
  PROVE  RouteTypes'
<1>. USE DEF RouteTypes, Stages, Origins, callVars, routeVars
<1>1. CASE UNCHANGED vars
  BY <1>1 DEF vars
<1>2. ASSUME NEW b \in Batches, Begin(b) PROVE RouteTypes'
  <2>1. b \in Seq(Symbols) /\ b # <<>>
    BY RouteAssumption
  <2>2. ledger' \in Ledgers
    BY <1>2, LedgerTypes DEF Begin
  <2>. QED
    BY <1>2, <2>1, <2>2 DEF Begin
<1>3. ASSUME Attempt PROVE RouteTypes'
  <2>1. ledger' \in Ledgers
    BY <1>3, LedgerTypes DEF Attempt
  <2>. QED
    BY <1>3, <2>1 DEF Attempt, At
<1>4. ASSUME Prepared PROVE RouteTypes'
  <2>1. ledger' \in Ledgers
    BY <1>4, LedgerTypes DEF Prepared
  <2>. QED
    BY <1>4, <2>1 DEF Prepared, At
<1>5. ASSUME StartCall(Cycle) PROVE RouteTypes'
  BY <1>5 DEF StartCall, Start
<1>6. ASSUME NEW end \in Ends, NEW tokens \in Tokens, NEW choice \in PossibleChoices, CallReturns(end, tokens, choice)
      PROVE  RouteTypes'
  <2>. DEFINE answer == IF Shadowed THEN Assisted(end, tokens) ELSE Intents(end, tokens, Len(batch))
  <2>1. answer.ok \in BOOLEAN /\ answer.usage \in Nat
    BY AnswerTypes DEF CallTypes
  <2>2. AfterCall(answer, ActionsOf(choice))
    BY <1>6 DEF CallReturns
  <2>3. pc = "call" /\ UNCHANGED <<leaving, batch, inputs, index, rows, waiting>>
    BY <1>6 DEF CallReturns, At
  <2>. HIDE DEF answer
  <2>. QED
    BY <2>1, <2>2, <2>3, AnswerKept
<1>7. ASSUME CallTimesOut PROVE RouteTypes'
  <2>1. CASE AfterCall(Lost, <<>>)
    <3>1. Lost.ok \in BOOLEAN /\ Lost.usage \in Nat
      BY DEF Lost, Carried
    <3>2. pc = "call" /\ UNCHANGED <<leaving, batch, inputs, index, rows, waiting>>
      BY <1>7 DEF CallTimesOut, At
    <3>. QED
      BY <2>1, <3>1, <3>2, AnswerKept
  <2>2. CASE UNCHANGED <<pc, result, ledger, failures, failed>>
    BY <1>7, <2>2 DEF CallTimesOut
  <2>. QED
    BY <1>7, <2>1, <2>2 DEF CallTimesOut
<1>8. ASSUME CallReaped PROVE RouteTypes'
  <2>1. CASE AfterCall(Lost, <<>>)
    <3>1. Lost.ok \in BOOLEAN /\ Lost.usage \in Nat
      BY DEF Lost, Carried
    <3>2. pc = "call" /\ UNCHANGED <<leaving, batch, inputs, index, rows, waiting>>
      BY <1>8 DEF CallReaped
    <3>. QED
      BY <2>1, <3>1, <3>2, AnswerKept
  <2>2. CASE leaving
    BY <1>8, <2>2 DEF CallReaped
  <2>. QED
    BY <1>8, <2>1, <2>2 DEF CallReaped
<1>9. ASSUME Settle PROVE RouteTypes'
  <2>1. CASE leaving
    BY <1>9, <2>1 DEF Settle
  <2>2. CASE ~leaving
    <3>1. Conclude(result)
      BY <1>9, <2>2 DEF Settle
    <3>2. /\ pc' \in {"record", "sleep"} /\ failed' \in Seq(Nat)
          /\ pc' = "record" => result.ok \/ failed' # <<>>
      BY <3>1, ConcludeKeeps
    <3>. QED
      BY <1>9, <3>2 DEF Settle
  <2>. QED
    BY <2>1, <2>2
<1>10. ASSUME Refresh PROVE RouteTypes'
  <2>1. CASE inputs' = inputs + 1 /\ pc' = "attempt" /\ UNCHANGED <<batch, failed, result, index, ledger>>
    BY <1>10, <2>1 DEF Refresh, At
  <2>2. CASE /\ pc' = "idle"
             /\ ledger' = [ledger EXCEPT !.written = @ + SpreadAll(failed), !.complete = TRUE]
             /\ Forget
    <3>1. SpreadAll(failed) \in Nat
      BY <1>10, SpreadAllWhole, TotalTypes DEF Refresh, At
    <3>2. ledger' \in Ledgers
      BY <2>2, <3>1, LedgerTypes
    <3>. QED
      BY <1>10, <2>2, <3>2 DEF Refresh, Forget, NoResult
  <2>. QED
    BY <1>10, <2>1, <2>2 DEF Refresh
<1>11. ASSUME RecordAttempts PROVE RouteTypes'
  <2>. DEFINE recorded == IF result.ok THEN failed ELSE SubSeq(failed, 1, Len(failed) - 1)
  <2>1. At("record") /\ SaveRound(recorded, inputs)
    BY <1>11 DEF RecordAttempts
  <2>2. recorded \in Seq(Nat) /\ (~result.ok => failed[Len(failed)] \in Nat)
    BY <2>1, TotalButLast DEF At
  <2>. HIDE DEF recorded
  <2>3. SpreadAll(recorded) \in Nat
    BY <2>1, <2>2, SpreadAllWhole, TotalTypes DEF At
  <2>4. ledger' \in Ledgers
    BY <2>1, <2>3, LedgerTypes DEF SaveRound
  <2>5. result'.ok \in BOOLEAN /\ result'.usage \in Nat
    BY <2>1, <2>2 DEF SaveRound
  <2>6. pc' = "verdict" /\ failed' = <<>> /\ <<>> \in Seq(Nat)
    BY <2>1 DEF SaveRound
  <2>7. UNCHANGED <<leaving, batch, inputs, index, rows, waiting>> /\ batch # <<>>
    BY <2>1 DEF SaveRound, At
  <2>. QED
    BY <2>4, <2>5, <2>6, <2>7
<1>12. ASSUME RecordResult PROVE RouteTypes'
  <2>1. Len(batch) \in Nat \ {0}
    BY <1>12 DEF RecordResult, At
  <2>2. Share(result.usage, Len(batch), index + 1) \in Nat
    BY <2>1, PaidShares
  <2>3. ledger' \in Ledgers
    BY <1>12, <2>2, LedgerTypes DEF RecordResult
  <2>. QED
    BY <1>12, <2>3 DEF RecordResult, At
<1>13. ASSUME Evaluate PROVE RouteTypes'
  <2>1. Boundary \in Origins
    BY DEF Boundary
  <2>2. ledger' \in Ledgers
    BY <1>13, <2>1, LedgerTypes DEF Evaluate, Execute
  <2>3. waiting' \in [Symbols -> Origins]
    BY <1>13, <2>1 DEF Evaluate, Execute
  <2>. QED
    BY <1>13, <2>2, <2>3 DEF Evaluate, At
<1>14. ASSUME EndCycle PROVE RouteTypes'
  <2>1. ledger' \in Ledgers
    BY <1>14, LedgerTypes DEF EndCycle
  <2>. QED
    BY <1>14, <2>1 DEF EndCycle, At, Forget, NoResult
<1>15. ASSUME Unwind PROVE RouteTypes'
  <2>1. /\ batch' = <<>> /\ inputs' = 0 /\ failed' = <<>> /\ index' = 0 /\ pc' = "idle"
    BY <1>15 DEF Unwind, Forget, NoResult
  <2>2. leaving' = FALSE /\ rows' = FALSE /\ UNCHANGED <<waiting, ledger>>
    BY <1>15 DEF Unwind
  <2>3. batch' \in Seq(Symbols) /\ failed' \in Seq(Nat) /\ inputs' \in Nat /\ index' \in Nat
    BY <2>1
  <2>4. result'.ok \in BOOLEAN /\ result'.usage \in Nat
    BY <1>15 DEF Unwind, Forget, NoResult
  <2>. QED
    BY <2>1, <2>2, <2>3, <2>4
<1>16. ASSUME Cancel PROVE RouteTypes'
  <2>1. ledger' \in Ledgers
    BY <1>16, LedgerTypes DEF Cancel
  <2>2. pc' \in {pc, "settle", "unwound"}
    BY <1>16 DEF Cancel
  <2>. QED
    BY <1>16, <2>1, <2>2 DEF Cancel
<1>17. ASSUME NEW s \in Symbols, Recheck(s) PROVE RouteTypes'
  <2>1. waiting[s] \in Origins
    OBVIOUS
  <2>2. ledger' \in Ledgers
    BY <1>17, <2>1, LedgerTypes DEF Recheck, Execute
  <2>. QED
    BY <1>17, <2>2 DEF Recheck
<1>18. ASSUME NEW s \in Symbols, PositionEnds(s) PROVE RouteTypes'
  BY <1>18 DEF PositionEnds
<1>19. ASSUME GuardPoll PROVE RouteTypes'
  BY <1>19 DEF GuardPoll
<1>20. ASSUME StopRun PROVE RouteTypes'
  BY <1>20 DEF StopRun
<1>21. ASSUME StartRun PROVE RouteTypes'
  BY <1>21 DEF StartRun
<1>22. ASSUME OtherJob PROVE RouteTypes'
  BY <1>22 DEF OtherJob, Ask, Start, Return, Interrupt, Reap, Abandon, Release
<1>23. ASSUME Fade, UNCHANGED routeVars PROVE RouteTypes'
  BY <1>23 DEF Fade
<1>. QED
  BY <1>1, <1>2, <1>3, <1>4, <1>5, <1>6, <1>7, <1>8, <1>9, <1>10, <1>11, <1>12, <1>13, <1>14, <1>15, <1>16, <1>17, <1>18, <1>19, <1>20, <1>21, <1>22, <1>23 DEF Next, CycleSteps

\* A cancelled cycle is unwinding, in the call or while it settles its rows.
LEMMA LeavesStep ==
  ASSUME RouteTypes, Leaves, [Next]_vars
  PROVE  Leaves'
<1>. USE DEF Leaves, callVars, routeVars
<1>1. CASE UNCHANGED vars
  BY <1>1 DEF vars
<1>2. ASSUME NEW b \in Batches, Begin(b) PROVE Leaves'
  BY <1>2 DEF Begin, NewLedger
<1>3. ASSUME Attempt PROVE Leaves'
  BY <1>3 DEF Attempt, At, Shadowed
<1>4. ASSUME Prepared PROVE Leaves'
  BY <1>4 DEF Prepared, At, Ask
<1>5. ASSUME StartCall(Cycle) PROVE Leaves'
  BY <1>5 DEF StartCall, Start
<1>6. ASSUME NEW end \in Ends, NEW tokens \in Tokens, NEW choice \in PossibleChoices, CallReturns(end, tokens, choice)
      PROVE  Leaves'
  BY <1>6 DEF CallReturns, At, AfterCall, Conclude, Return, Release
<1>7. ASSUME CallTimesOut PROVE Leaves'
  BY <1>7 DEF CallTimesOut, At, AfterCall, Conclude, Interrupt, Release, Lost, Carried
<1>8. ASSUME CallReaped PROVE Leaves'
  BY <1>8 DEF CallReaped, AfterCall, Conclude, Reap, Release, Lost, Carried
<1>9. ASSUME Settle PROVE Leaves'
  BY <1>9 DEF Settle, Conclude
<1>10. ASSUME Refresh PROVE Leaves'
  BY <1>10 DEF Refresh, At, Forget
<1>11. ASSUME RecordAttempts PROVE Leaves'
  BY <1>11 DEF RecordAttempts, At, SaveRound
<1>12. ASSUME RecordResult PROVE Leaves'
  BY <1>12 DEF RecordResult, At
<1>13. ASSUME Evaluate PROVE Leaves'
  BY <1>13 DEF Evaluate, At, Execute
<1>14. ASSUME EndCycle PROVE Leaves'
  BY <1>14 DEF EndCycle, At, Forget
<1>15. ASSUME Unwind PROVE Leaves'
  BY <1>15 DEF Unwind, Forget
<1>16. ASSUME Cancel PROVE Leaves'
  BY <1>16 DEF Cancel, Interrupt, Abandon, Release
<1>17. ASSUME NEW s \in Symbols, Recheck(s) PROVE Leaves'
  BY <1>17 DEF Recheck, Execute
<1>18. ASSUME NEW s \in Symbols, PositionEnds(s) PROVE Leaves'
  BY <1>18 DEF PositionEnds
<1>19. ASSUME GuardPoll PROVE Leaves'
  BY <1>19 DEF GuardPoll
<1>20. ASSUME StopRun PROVE Leaves'
  BY <1>20 DEF StopRun
<1>21. ASSUME StartRun PROVE Leaves'
  BY <1>21 DEF StartRun
<1>22. ASSUME OtherJob PROVE Leaves'
  BY <1>22 DEF OtherJob, Ask, Start, Return, Interrupt, Reap, Abandon, Release
<1>23. ASSUME Fade, UNCHANGED routeVars PROVE Leaves'
  BY <1>23 DEF Fade
<1>. QED
  BY <1>1, <1>2, <1>3, <1>4, <1>5, <1>6, <1>7, <1>8, <1>9, <1>10, <1>11, <1>12, <1>13, <1>14, <1>15, <1>16, <1>17, <1>18, <1>19, <1>20, <1>21, <1>22, <1>23 DEF Next, CycleSteps

\* What the provider was asked with stays at hand until it is saved.
LEMMA AsksWithInputsStep ==
  ASSUME RouteTypes, Leaves, AsksWithInputs, [Next]_vars
  PROVE  AsksWithInputs'
<1>. USE DEF RouteTypes, Leaves, Ledgers, AsksWithInputs, callVars, routeVars
<1>1. CASE UNCHANGED vars
  BY <1>1 DEF vars
<1>2. ASSUME NEW b \in Batches, Begin(b) PROVE AsksWithInputs'
  BY <1>2 DEF Begin, NewLedger
<1>3. ASSUME Attempt PROVE AsksWithInputs'
  BY <1>3 DEF Attempt, At, Shadowed
<1>4. ASSUME Prepared PROVE AsksWithInputs'
  BY <1>4 DEF Prepared, At, Ask
<1>5. ASSUME StartCall(Cycle) PROVE AsksWithInputs'
  BY <1>5 DEF StartCall, Start
<1>6. ASSUME NEW end \in Ends, NEW tokens \in Tokens, NEW choice \in PossibleChoices, CallReturns(end, tokens, choice)
      PROVE  AsksWithInputs'
  BY <1>6 DEF CallReturns, At, AfterCall, Conclude, Return, Release
<1>7. ASSUME CallTimesOut PROVE AsksWithInputs'
  BY <1>7 DEF CallTimesOut, At, AfterCall, Conclude, Interrupt, Release, Lost, Carried
<1>8. ASSUME CallReaped PROVE AsksWithInputs'
  BY <1>8 DEF CallReaped, AfterCall, Conclude, Reap, Release, Lost, Carried
<1>9. ASSUME Settle PROVE AsksWithInputs'
  BY <1>9 DEF Settle, Conclude
<1>10. ASSUME Refresh PROVE AsksWithInputs'
  BY <1>10 DEF Refresh, At, Forget
<1>11. ASSUME RecordAttempts PROVE AsksWithInputs'
  BY <1>11 DEF RecordAttempts, At, SaveRound
<1>12. ASSUME RecordResult PROVE AsksWithInputs'
  BY <1>12 DEF RecordResult, At
<1>13. ASSUME Evaluate PROVE AsksWithInputs'
  BY <1>13 DEF Evaluate, At, Execute
<1>14. ASSUME EndCycle PROVE AsksWithInputs'
  BY <1>14 DEF EndCycle, At, Forget
<1>15. ASSUME Unwind PROVE AsksWithInputs'
  BY <1>15 DEF Unwind, Forget
<1>16. ASSUME Cancel PROVE AsksWithInputs'
  BY <1>16 DEF Cancel, Interrupt, Abandon, Release
<1>17. ASSUME NEW s \in Symbols, Recheck(s) PROVE AsksWithInputs'
  BY <1>17 DEF Recheck, Execute
<1>18. ASSUME NEW s \in Symbols, PositionEnds(s) PROVE AsksWithInputs'
  BY <1>18 DEF PositionEnds
<1>19. ASSUME GuardPoll PROVE AsksWithInputs'
  BY <1>19 DEF GuardPoll
<1>20. ASSUME StopRun PROVE AsksWithInputs'
  BY <1>20 DEF StopRun
<1>21. ASSUME StartRun PROVE AsksWithInputs'
  BY <1>21 DEF StartRun
<1>22. ASSUME OtherJob PROVE AsksWithInputs'
  BY <1>22 DEF OtherJob, Ask, Start, Return, Interrupt, Reap, Abandon, Release
<1>23. ASSUME Fade, UNCHANGED routeVars PROVE AsksWithInputs'
  BY <1>23 DEF Fade
<1>. QED
  BY <1>1, <1>2, <1>3, <1>4, <1>5, <1>6, <1>7, <1>8, <1>9, <1>10, <1>11, <1>12, <1>13, <1>14, <1>15, <1>16, <1>17, <1>18, <1>19, <1>20, <1>21, <1>22, <1>23 DEF Next, CycleSteps

\* What is saved for replay is what the provider was asked with.
LEMMA ReplayStep ==
  ASSUME RouteTypes, Leaves, AsksWithInputs, ReplayMatchesDecision, [Next]_vars
  PROVE  ReplayMatchesDecision'
<1>. USE DEF RouteTypes, Leaves, Ledgers, AsksWithInputs, ReplayMatchesDecision, callVars, routeVars
<1>1. CASE UNCHANGED vars
  BY <1>1 DEF vars
<1>2. ASSUME NEW b \in Batches, Begin(b) PROVE ReplayMatchesDecision'
  BY <1>2 DEF Begin, NewLedger
<1>3. ASSUME Attempt PROVE ReplayMatchesDecision'
  BY <1>3 DEF Attempt, At, Shadowed
<1>4. ASSUME Prepared PROVE ReplayMatchesDecision'
  BY <1>4 DEF Prepared, At, Ask
<1>5. ASSUME StartCall(Cycle) PROVE ReplayMatchesDecision'
  BY <1>5 DEF StartCall, Start
<1>6. ASSUME NEW end \in Ends, NEW tokens \in Tokens, NEW choice \in PossibleChoices, CallReturns(end, tokens, choice)
      PROVE  ReplayMatchesDecision'
  BY <1>6 DEF CallReturns, At, AfterCall, Conclude, Return, Release
<1>7. ASSUME CallTimesOut PROVE ReplayMatchesDecision'
  BY <1>7 DEF CallTimesOut, At, AfterCall, Conclude, Interrupt, Release, Lost, Carried
<1>8. ASSUME CallReaped PROVE ReplayMatchesDecision'
  BY <1>8 DEF CallReaped, AfterCall, Conclude, Reap, Release, Lost, Carried
<1>9. ASSUME Settle PROVE ReplayMatchesDecision'
  BY <1>9 DEF Settle, Conclude
<1>10. ASSUME Refresh PROVE ReplayMatchesDecision'
  BY <1>10 DEF Refresh, At, Forget
<1>11. ASSUME RecordAttempts PROVE ReplayMatchesDecision'
  BY <1>11 DEF RecordAttempts, At, SaveRound
<1>12. ASSUME RecordResult PROVE ReplayMatchesDecision'
  BY <1>12 DEF RecordResult, At
<1>13. ASSUME Evaluate PROVE ReplayMatchesDecision'
  BY <1>13 DEF Evaluate, At, Execute
<1>14. ASSUME EndCycle PROVE ReplayMatchesDecision'
  BY <1>14 DEF EndCycle, At, Forget
<1>15. ASSUME Unwind PROVE ReplayMatchesDecision'
  BY <1>15 DEF Unwind, Forget
<1>16. ASSUME Cancel PROVE ReplayMatchesDecision'
  BY <1>16 DEF Cancel, Interrupt, Abandon, Release
<1>17. ASSUME NEW s \in Symbols, Recheck(s) PROVE ReplayMatchesDecision'
  BY <1>17 DEF Recheck, Execute
<1>18. ASSUME NEW s \in Symbols, PositionEnds(s) PROVE ReplayMatchesDecision'
  BY <1>18 DEF PositionEnds
<1>19. ASSUME GuardPoll PROVE ReplayMatchesDecision'
  BY <1>19 DEF GuardPoll
<1>20. ASSUME StopRun PROVE ReplayMatchesDecision'
  BY <1>20 DEF StopRun
<1>21. ASSUME StartRun PROVE ReplayMatchesDecision'
  BY <1>21 DEF StartRun
<1>22. ASSUME OtherJob PROVE ReplayMatchesDecision'
  BY <1>22 DEF OtherJob, Ask, Start, Return, Interrupt, Reap, Abandon, Release
<1>23. ASSUME Fade, UNCHANGED routeVars PROVE ReplayMatchesDecision'
  BY <1>23 DEF Fade
<1>. QED
  BY <1>1, <1>2, <1>3, <1>4, <1>5, <1>6, <1>7, <1>8, <1>9, <1>10, <1>11, <1>12, <1>13, <1>14, <1>15, <1>16, <1>17, <1>18, <1>19, <1>20, <1>21, <1>22, <1>23 DEF Next, CycleSteps

\* A row that is left open was cut off before the call or in its settlement.
LEMMA RowsCloseStep ==
  ASSUME RouteTypes, Leaves, RowsCloseUnlessCut, [Next]_vars
  PROVE  RowsCloseUnlessCut'
<1>. USE DEF RouteTypes, Leaves, Ledgers, RowsCloseUnlessCut, callVars, routeVars
<1>1. CASE UNCHANGED vars
  BY <1>1 DEF vars
<1>2. ASSUME NEW b \in Batches, Begin(b) PROVE RowsCloseUnlessCut'
  BY <1>2 DEF Begin, NewLedger
<1>3. ASSUME Attempt PROVE RowsCloseUnlessCut'
  BY <1>3 DEF Attempt, At, Shadowed
<1>4. ASSUME Prepared PROVE RowsCloseUnlessCut'
  BY <1>4 DEF Prepared, At, Ask
<1>5. ASSUME StartCall(Cycle) PROVE RowsCloseUnlessCut'
  BY <1>5 DEF StartCall, Start
<1>6. ASSUME NEW end \in Ends, NEW tokens \in Tokens, NEW choice \in PossibleChoices, CallReturns(end, tokens, choice)
      PROVE  RowsCloseUnlessCut'
  BY <1>6 DEF CallReturns, At, AfterCall, Conclude, Return, Release
<1>7. ASSUME CallTimesOut PROVE RowsCloseUnlessCut'
  BY <1>7 DEF CallTimesOut, At, AfterCall, Conclude, Interrupt, Release, Lost, Carried
<1>8. ASSUME CallReaped PROVE RowsCloseUnlessCut'
  BY <1>8 DEF CallReaped, AfterCall, Conclude, Reap, Release, Lost, Carried
<1>9. ASSUME Settle PROVE RowsCloseUnlessCut'
  BY <1>9 DEF Settle, Conclude
<1>10. ASSUME Refresh PROVE RowsCloseUnlessCut'
  BY <1>10 DEF Refresh, At, Forget
<1>11. ASSUME RecordAttempts PROVE RowsCloseUnlessCut'
  BY <1>11 DEF RecordAttempts, At, SaveRound
<1>12. ASSUME RecordResult PROVE RowsCloseUnlessCut'
  BY <1>12 DEF RecordResult, At
<1>13. ASSUME Evaluate PROVE RowsCloseUnlessCut'
  BY <1>13 DEF Evaluate, At, Execute
<1>14. ASSUME EndCycle PROVE RowsCloseUnlessCut'
  BY <1>14 DEF EndCycle, At, Forget
<1>15. ASSUME Unwind PROVE RowsCloseUnlessCut'
  BY <1>15 DEF Unwind, Forget
<1>16. ASSUME Cancel PROVE RowsCloseUnlessCut'
  BY <1>16 DEF Cancel, Interrupt, Abandon, Release
<1>17. ASSUME NEW s \in Symbols, Recheck(s) PROVE RowsCloseUnlessCut'
  BY <1>17 DEF Recheck, Execute
<1>18. ASSUME NEW s \in Symbols, PositionEnds(s) PROVE RowsCloseUnlessCut'
  BY <1>18 DEF PositionEnds
<1>19. ASSUME GuardPoll PROVE RowsCloseUnlessCut'
  BY <1>19 DEF GuardPoll
<1>20. ASSUME StopRun PROVE RowsCloseUnlessCut'
  BY <1>20 DEF StopRun
<1>21. ASSUME StartRun PROVE RowsCloseUnlessCut'
  BY <1>21 DEF StartRun
<1>22. ASSUME OtherJob PROVE RowsCloseUnlessCut'
  BY <1>22 DEF OtherJob, Ask, Start, Return, Interrupt, Reap, Abandon, Release
<1>23. ASSUME Fade, UNCHANGED routeVars PROVE RowsCloseUnlessCut'
  BY <1>23 DEF Fade
<1>. QED
  BY <1>1, <1>2, <1>3, <1>4, <1>5, <1>6, <1>7, <1>8, <1>9, <1>10, <1>11, <1>12, <1>13, <1>14, <1>15, <1>16, <1>17, <1>18, <1>19, <1>20, <1>21, <1>22, <1>23 DEF Next, CycleSteps

\* No step trades a decision of the shadow mode, at once or later.
LEMMA ShadowStep ==
  ASSUME RouteTypes, ShadowNeverTrades, [Next]_vars
  PROVE  ShadowNeverTrades'
<1>. USE DEF RouteTypes, Ledgers, ShadowNeverTrades, callVars, routeVars
<1>1. CASE UNCHANGED vars
  BY <1>1 DEF vars
<1>2. ASSUME NEW b \in Batches, Begin(b) PROVE ShadowNeverTrades'
  BY <1>2 DEF Begin, NewLedger
<1>3. ASSUME Attempt PROVE ShadowNeverTrades'
  BY <1>3 DEF Attempt, At, Shadowed
<1>4. ASSUME Prepared PROVE ShadowNeverTrades'
  BY <1>4 DEF Prepared, At, Ask
<1>5. ASSUME StartCall(Cycle) PROVE ShadowNeverTrades'
  BY <1>5 DEF StartCall, Start
<1>6. ASSUME NEW end \in Ends, NEW tokens \in Tokens, NEW choice \in PossibleChoices, CallReturns(end, tokens, choice)
      PROVE  ShadowNeverTrades'
  BY <1>6 DEF CallReturns, At, AfterCall, Conclude, Return, Release
<1>7. ASSUME CallTimesOut PROVE ShadowNeverTrades'
  BY <1>7 DEF CallTimesOut, At, AfterCall, Conclude, Interrupt, Release, Lost, Carried
<1>8. ASSUME CallReaped PROVE ShadowNeverTrades'
  BY <1>8 DEF CallReaped, AfterCall, Conclude, Reap, Release, Lost, Carried
<1>9. ASSUME Settle PROVE ShadowNeverTrades'
  BY <1>9 DEF Settle, Conclude
<1>10. ASSUME Refresh PROVE ShadowNeverTrades'
  BY <1>10 DEF Refresh, At, Forget
<1>11. ASSUME RecordAttempts PROVE ShadowNeverTrades'
  BY <1>11 DEF RecordAttempts, At, SaveRound
<1>12. ASSUME RecordResult PROVE ShadowNeverTrades'
  BY <1>12 DEF RecordResult, At
<1>13. ASSUME Evaluate PROVE ShadowNeverTrades'
  BY <1>13 DEF Evaluate, At, Execute
<1>14. ASSUME EndCycle PROVE ShadowNeverTrades'
  BY <1>14 DEF EndCycle, At, Forget
<1>15. ASSUME Unwind PROVE ShadowNeverTrades'
  BY <1>15 DEF Unwind, Forget
<1>16. ASSUME Cancel PROVE ShadowNeverTrades'
  BY <1>16 DEF Cancel, Interrupt, Abandon, Release
<1>17. ASSUME NEW s \in Symbols, Recheck(s) PROVE ShadowNeverTrades'
  BY <1>17 DEF Recheck, Execute
<1>18. ASSUME NEW s \in Symbols, PositionEnds(s) PROVE ShadowNeverTrades'
  BY <1>18 DEF PositionEnds
<1>19. ASSUME GuardPoll PROVE ShadowNeverTrades'
  BY <1>19 DEF GuardPoll
<1>20. ASSUME StopRun PROVE ShadowNeverTrades'
  BY <1>20 DEF StopRun
<1>21. ASSUME StartRun PROVE ShadowNeverTrades'
  BY <1>21 DEF StartRun
<1>22. ASSUME OtherJob PROVE ShadowNeverTrades'
  BY <1>22 DEF OtherJob, Ask, Start, Return, Interrupt, Reap, Abandon, Release
<1>23. ASSUME Fade, UNCHANGED routeVars PROVE ShadowNeverTrades'
  BY <1>23 DEF Fade
<1>. QED
  BY <1>1, <1>2, <1>3, <1>4, <1>5, <1>6, <1>7, <1>8, <1>9, <1>10, <1>11, <1>12, <1>13, <1>14, <1>15, <1>16, <1>17, <1>18, <1>19, <1>20, <1>21, <1>22, <1>23 DEF Next, CycleSteps

----------------------------------------------------------------------------
\* The tokens.

\* Where the tokens are that the adapters handed over: in the failed batches, in
\* the answer, in the rows that have been written.
TokensTraced ==
  /\ pc \notin {"verdict", "risk", "unwound"} => index = 0
  /\ pc = "idle" => failed = <<>> /\ (ledger.complete => ledger.written = ledger.handed)
  /\ pc # "idle" => ~ledger.complete
  /\ ~leaving =>
       /\ pc \in {"attempt", "prepare", "call", "settle", "sleep", "record"} => ledger.written = 0
       /\ pc \in {"attempt", "prepare", "call", "sleep"} => ledger.handed = Total(failed)
       /\ pc = "sleep" => failed # <<>>
       /\ pc = "settle" => ledger.handed = Total(failed) + result.usage
       /\ pc = "record" =>
            ledger.handed = Total(failed) + (IF result.ok THEN result.usage ELSE 0)
       /\ pc = "verdict" =>
            /\ index <= Len(batch)
            /\ ledger.handed + Paid(result.usage, Len(batch), index) = ledger.written + result.usage
       /\ pc = "risk" =>
            /\ index < Len(batch)
            /\ ledger.handed + Paid(result.usage, Len(batch), index + 1) = ledger.written + result.usage

\* The end of an attempt moves the tokens of a refused answer to the failed ones.
LEMMA ConcludeTotals ==
  ASSUME failed \in Seq(Nat), NEW answer, answer.ok \in BOOLEAN, answer.usage \in Nat, Conclude(answer)
  PROVE  /\ pc' \in {"record", "sleep"}
         /\ pc' = "sleep" => ~answer.ok /\ failed' # <<>>
         /\ answer.ok => Total(failed') = Total(failed)
         /\ ~answer.ok => Total(failed') = Total(failed) + answer.usage
<1>1. CASE answer.ok
  BY <1>1 DEF Conclude
<1>2. CASE ~answer.ok
  <2>1. failed' = Append(failed, answer.usage)
    BY <1>2 DEF Conclude
  <2>2. failed' # <<>> /\ Total(failed') = Total(failed) + answer.usage
    BY <2>1, TotalAppend
  <2>3. pc' \in {"record", "sleep"}
    BY <1>2 DEF Conclude
  <2>. QED
    BY <1>2, <2>2, <2>3
<1>. QED
  BY <1>1, <1>2

\* The attempt has its answer and so the tokens of its call.
LEMMA AnswerTraced ==
  ASSUME RouteTypes, TokensTraced, NEW answer, answer.ok \in BOOLEAN, answer.usage \in Nat, NEW actions,
         AfterCall(answer, actions), pc = "call", ~leaving, UNCHANGED <<leaving, batch, index>>
  PROVE  TokensTraced'
<1>1. /\ ledger'.handed = ledger.handed + answer.usage
      /\ ledger'.written = ledger.written /\ ledger'.complete = ledger.complete
  BY DEF AfterCall, RouteTypes, Ledgers
<1>2. result'.ok = answer.ok /\ result'.usage = answer.usage
  BY DEF AfterCall
<1>3. /\ index = 0 /\ ~ledger.complete
      /\ ledger.written = 0 /\ ledger.handed = Total(failed)
  BY DEF TokensTraced
<1>4. Total(failed) \in Nat
  BY TotalTypes DEF RouteTypes
<1>5. CASE rows
  <2>1. pc' = "settle" /\ failed' = failed
    BY <1>5 DEF AfterCall
  <2>. QED
    BY <1>1, <1>2, <1>3, <1>4, <2>1 DEF TokensTraced
<1>6. CASE ~rows
  <2>1. /\ pc' \in {"record", "sleep"}
        /\ pc' = "sleep" => ~answer.ok /\ failed' # <<>>
        /\ answer.ok => Total(failed') = Total(failed)
        /\ ~answer.ok => Total(failed') = Total(failed) + answer.usage
    <3>1. Conclude(answer)
      BY <1>6 DEF AfterCall
    <3>. QED
      BY <3>1, ConcludeTotals DEF RouteTypes
  <2>. QED
    BY <1>1, <1>2, <1>3, <1>4, <2>1 DEF TokensTraced
<1>. QED
  BY <1>5, <1>6

\* One more row has been charged.
LEMMA RowCharged ==
  ASSUME NEW n \in Nat \ {0}, NEW usage \in Nat, NEW k \in Nat, NEW h \in Nat, NEW w \in Nat,
         h + Paid(usage, n, k) = w + usage
  PROVE  h + Paid(usage, n, k + 1) = (w + Share(usage, n, k + 1)) + usage
<1>. DEFINE paid == Paid(usage, n, k)
            next == Paid(usage, n, k + 1)
            share == Share(usage, n, k + 1)
<1>1. \A i \in Nat : /\ Paid(usage, n, i) \in Nat /\ Share(usage, n, i + 1) \in Nat
                     /\ Paid(usage, n, i + 1) = Paid(usage, n, i) + Share(usage, n, i + 1)
  BY PaidShares
<1>2. share \in Nat /\ paid \in Nat /\ next = paid + share
  BY <1>1
<1>3. h + paid = w + usage
  OBVIOUS
<1>. HIDE DEF paid, next, share
<1>4. h + next = (w + share) + usage
  BY <1>2, <1>3
<1>. QED
  BY <1>4 DEF next, share

\* Every step takes the tokens along.
LEMMA TokensTracedStep ==
  ASSUME CallTypes, RouteTypes, Leaves, TokensTraced, [Next]_vars
  PROVE  TokensTraced'
<1>. USE DEF RouteTypes, Leaves, Ledgers, TokensTraced, callVars, routeVars
<1>1. CASE UNCHANGED vars
  BY <1>1 DEF vars
<1>2. ASSUME NEW b \in Batches, Begin(b) PROVE TokensTraced'
  <2>1. /\ ledger'.handed = 0 /\ ledger'.written = 0 /\ ledger'.complete = FALSE
    BY <1>2 DEF Begin, NewLedger
  <2>2. pc' = "attempt" /\ failed' = <<>> /\ index' = 0
    BY <1>2 DEF Begin
  <2>. QED
    BY <2>1, <2>2, TotalEmpty
<1>3. ASSUME Attempt PROVE TokensTraced'
  BY <1>3 DEF Attempt, At, Shadowed
<1>4. ASSUME Prepared PROVE TokensTraced'
  BY <1>4 DEF Prepared, At, Ask
<1>5. ASSUME StartCall(Cycle) PROVE TokensTraced'
  BY <1>5 DEF StartCall, Start
<1>6. ASSUME NEW end \in Ends, NEW tokens \in Tokens, NEW choice \in PossibleChoices, CallReturns(end, tokens, choice)
      PROVE  TokensTraced'
  <2>. DEFINE answer == IF Shadowed THEN Assisted(end, tokens) ELSE Intents(end, tokens, Len(batch))
  <2>1. answer.ok \in BOOLEAN /\ answer.usage \in Nat
    BY AnswerTypes DEF CallTypes
  <2>2. AfterCall(answer, ActionsOf(choice))
    BY <1>6 DEF CallReturns
  <2>3. pc = "call" /\ ~leaving /\ UNCHANGED <<leaving, batch, index>>
    BY <1>6 DEF CallReturns, At
  <2>. HIDE DEF answer
  <2>. QED
    BY <2>1, <2>2, <2>3, AnswerTraced
<1>7. ASSUME CallTimesOut PROVE TokensTraced'
  <2>1. CASE AfterCall(Lost, <<>>)
    <3>1. Lost.ok \in BOOLEAN /\ Lost.usage \in Nat
      BY DEF Lost, Carried
    <3>2. pc = "call" /\ ~leaving /\ UNCHANGED <<leaving, batch, index>>
      BY <1>7 DEF CallTimesOut, At
    <3>. QED
      BY <2>1, <3>1, <3>2, AnswerTraced
  <2>2. CASE UNCHANGED <<pc, result, ledger, failures, failed>>
    BY <1>7, <2>2 DEF CallTimesOut, At
  <2>. QED
    BY <1>7, <2>1, <2>2 DEF CallTimesOut
<1>8. ASSUME CallReaped PROVE TokensTraced'
  <2>1. CASE ~leaving
    <3>1. Lost.ok \in BOOLEAN /\ Lost.usage \in Nat
      BY DEF Lost, Carried
    <3>2. pc = "call" /\ UNCHANGED <<leaving, batch, index>> /\ AfterCall(Lost, <<>>)
      BY <1>8, <2>1 DEF CallReaped
    <3>. QED
      BY <2>1, <3>1, <3>2, AnswerTraced
  <2>2. CASE leaving
    BY <1>8, <2>2 DEF CallReaped
  <2>. QED
    BY <2>1, <2>2
<1>9. ASSUME Settle PROVE TokensTraced'
  <2>1. CASE leaving
    BY <1>9, <2>1 DEF Settle
  <2>2. CASE ~leaving
    <3>1. /\ pc' \in {"record", "sleep"}
          /\ pc' = "sleep" => ~result.ok /\ failed' # <<>>
          /\ result.ok => Total(failed') = Total(failed)
          /\ ~result.ok => Total(failed') = Total(failed) + result.usage
      <4>1. Conclude(result)
        BY <1>9, <2>2 DEF Settle
      <4>. QED
        BY <4>1, ConcludeTotals
    <3>2. UNCHANGED <<index, leaving, batch, result, ledger>> /\ pc = "settle"
      BY <1>9 DEF Settle
    <3>3. Total(failed) \in Nat
      BY TotalTypes
    <3>. QED
      BY <2>2, <3>1, <3>2, <3>3
  <2>. QED
    BY <2>1, <2>2
<1>10. ASSUME Refresh PROVE TokensTraced'
  <2>1. CASE inputs' = inputs + 1 /\ pc' = "attempt" /\ UNCHANGED <<batch, failed, result, index, ledger>>
    BY <1>10, <2>1 DEF Refresh, At
  <2>2. CASE /\ pc' = "idle"
             /\ ledger' = [ledger EXCEPT !.written = @ + SpreadAll(failed), !.complete = TRUE]
             /\ Forget
    <3>1. SpreadAll(failed) = Total(failed) /\ Total(failed) \in Nat
      BY <1>10, SpreadAllWhole, TotalTypes DEF Refresh, At
    <3>2. /\ ledger'.written = ledger.written + SpreadAll(failed)
          /\ ledger'.handed = ledger.handed
      BY <2>2
    <3>3. ledger.written = 0 /\ ledger.handed = Total(failed)
      BY <1>10 DEF Refresh, At
    <3>4. failed' = <<>> /\ index' = 0
      BY <2>2 DEF Forget
    <3>. QED
      BY <2>2, <3>1, <3>2, <3>3, <3>4
  <2>. QED
    BY <1>10, <2>1, <2>2 DEF Refresh
<1>11. ASSUME RecordAttempts PROVE TokensTraced'
  <2>. DEFINE recorded == IF result.ok THEN failed ELSE SubSeq(failed, 1, Len(failed) - 1)
  <2>1. At("record") /\ SaveRound(recorded, inputs)
    BY <1>11 DEF RecordAttempts
  <2>2. /\ recorded \in Seq(Nat)
        /\ result.ok => Total(failed) = Total(recorded)
        /\ ~result.ok => Total(failed) = Total(recorded) + failed[Len(failed)] /\ failed[Len(failed)] \in Nat
    BY <2>1, TotalButLast DEF At
  <2>. HIDE DEF recorded
  <2>3. SpreadAll(recorded) = Total(recorded) /\ Total(recorded) \in Nat
    BY <2>1, <2>2, SpreadAllWhole, TotalTypes DEF At
  <2>4. /\ ledger'.written = ledger.written + SpreadAll(recorded)
        /\ ledger'.handed = ledger.handed /\ ledger'.complete = ledger.complete
    BY <2>1 DEF SaveRound
  <2>5. result'.usage = IF result.ok THEN result.usage ELSE failed[Len(failed)]
    BY <2>1 DEF SaveRound
  <2>6. pc' = "verdict" /\ UNCHANGED <<leaving, batch, index>>
    BY <2>1 DEF SaveRound
  <2>7. ~leaving /\ pc = "record" /\ Len(batch) \in Nat \ {0}
    BY <2>1 DEF At
  <2>8. result'.usage \in Nat
    BY <2>2, <2>5
  <2>9. Paid(result'.usage, Len(batch), 0) = 0
    BY <2>7, <2>8, PaidShares
  <2>10. /\ index = 0 /\ ~ledger.complete /\ ledger.written = 0
         /\ ledger.handed = Total(failed) + (IF result.ok THEN result.usage ELSE 0)
    BY <2>7
  <2>11. ledger'.handed = ledger'.written + result'.usage
    BY <2>2, <2>3, <2>4, <2>5, <2>10
  <2>. QED
    BY <2>4, <2>6, <2>7, <2>8, <2>9, <2>10, <2>11
<1>12. ASSUME RecordResult PROVE TokensTraced'
  <2>1. Len(batch) \in Nat \ {0} /\ pc = "verdict" /\ ~leaving /\ index < Len(batch)
    BY <1>12 DEF RecordResult, At
  <2>. DEFINE next == Paid(result.usage, Len(batch), index + 1)
              share == Share(result.usage, Len(batch), index + 1)
  <2>2. /\ ledger.handed + Paid(result.usage, Len(batch), index) = ledger.written + result.usage
        /\ ledger.handed \in Nat /\ ledger.written \in Nat /\ ~ledger.complete
    BY <2>1
  <2>3. ledger.handed + next = (ledger.written + share) + result.usage
    BY <2>1, <2>2, RowCharged
  <2>4. /\ ledger'.written = ledger.written + share
        /\ ledger'.handed = ledger.handed /\ ledger'.complete = ledger.complete
    BY <1>12 DEF RecordResult
  <2>5. pc' = "risk" /\ UNCHANGED <<index, leaving, batch, result>>
    BY <1>12 DEF RecordResult
  <2>6. ledger'.handed + Paid(result'.usage, Len(batch'), index' + 1) = ledger'.written + result'.usage
    BY <2>3, <2>4, <2>5
  <2>. HIDE DEF next, share
  <2>. QED
    BY <2>1, <2>2, <2>4, <2>5, <2>6
<1>13. ASSUME Evaluate PROVE TokensTraced'
  <2>1. /\ ledger'.written = ledger.written
        /\ ledger'.handed = ledger.handed /\ ledger'.complete = ledger.complete
    BY <1>13 DEF Evaluate, Execute
  <2>2. pc = "risk" /\ ~leaving /\ pc' = "verdict" /\ index' = index + 1 /\ UNCHANGED <<leaving, batch, result>>
    BY <1>13 DEF Evaluate, At
  <2>. QED
    BY <2>1, <2>2
<1>14. ASSUME EndCycle PROVE TokensTraced'
  <2>1. /\ ledger'.written = ledger.written /\ ledger'.handed = ledger.handed
    BY <1>14 DEF EndCycle
  <2>2. pc = "verdict" /\ ~leaving /\ index = Len(batch) /\ Len(batch) \in Nat \ {0}
    BY <1>14 DEF EndCycle, At
  <2>3. Paid(result.usage, Len(batch), index) = result.usage
    BY <2>2, PaidShares
  <2>4. ledger.handed = ledger.written
    BY <2>2, <2>3
  <2>5. pc' = "idle" /\ failed' = <<>> /\ index' = 0
    BY <1>14 DEF EndCycle, Forget
  <2>. QED
    BY <2>1, <2>4, <2>5
<1>15. ASSUME Unwind PROVE TokensTraced'
  BY <1>15 DEF Unwind, Forget
<1>16. ASSUME Cancel PROVE TokensTraced'
  BY <1>16 DEF Cancel, Interrupt, Abandon, Release
<1>17. ASSUME NEW s \in Symbols, Recheck(s) PROVE TokensTraced'
  BY <1>17 DEF Recheck, Execute
<1>18. ASSUME NEW s \in Symbols, PositionEnds(s) PROVE TokensTraced'
  BY <1>18 DEF PositionEnds
<1>19. ASSUME GuardPoll PROVE TokensTraced'
  BY <1>19 DEF GuardPoll
<1>20. ASSUME StopRun PROVE TokensTraced'
  BY <1>20 DEF StopRun
<1>21. ASSUME StartRun PROVE TokensTraced'
  BY <1>21 DEF StartRun
<1>22. ASSUME OtherJob PROVE TokensTraced'
  BY <1>22 DEF OtherJob, Ask, Start, Return, Interrupt, Reap, Abandon, Release
<1>23. ASSUME Fade, UNCHANGED routeVars PROVE TokensTraced'
  BY <1>23 DEF Fade
<1>. QED
  BY <1>1, <1>2, <1>3, <1>4, <1>5, <1>6, <1>7, <1>8, <1>9, <1>10, <1>11, <1>12, <1>13, <1>14, <1>15, <1>16, <1>17, <1>18, <1>19, <1>20, <1>21, <1>22, <1>23 DEF Next, CycleSteps

----------------------------------------------------------------------------
\* The invariant, and what it implies.

RouteInvariant ==
  /\ CallTypes /\ Exclusive /\ CycleCalls
  /\ RouteTypes /\ Leaves
  /\ AsksWithInputs /\ ReplayMatchesDecision
  /\ RowsCloseUnlessCut /\ ShadowNeverTrades
  /\ TokensTraced

LEMMA RouteStarts ==
  ASSUME Init
  PROVE  RouteInvariant
<1>1. CallTypes /\ Exclusive
  <2>1. /\ adapter \in Adapters /\ call = [c \in Callers |-> "none"]
        /\ holder = Nobody /\ live = 0 /\ twice = FALSE
    BY DEF Init, CallInit
  <2>2. InUse = 0
    BY <2>1 DEF InUse
  <2>3. CallTypes
    BY <2>1 DEF CallTypes
  <2>4. \A c \in Callers : call[c] = "none" /\ holder # c
    BY <2>1, AdapterAssumption DEF Nobody
  <2>. QED
    BY <2>1, <2>2, <2>3, <2>4 DEF Exclusive
<1>2. CycleCalls
  BY RouteAssumption DEF Init, CallInit, CycleCalls
<1>3. RouteTypes
  <2>1. batch \in Seq(Symbols) /\ failed \in Seq(Nat)
    BY DEF Init
  <2>2. ledger \in Ledgers
    BY DEF Init, Ledgers
  <2>3. result.ok \in BOOLEAN /\ result.usage \in Nat
    BY DEF Init, NoResult
  <2>4. waiting \in [Symbols -> Origins]
    BY DEF Init, Origins
  <2>. QED
    BY <2>1, <2>2, <2>3, <2>4 DEF Init, RouteTypes, Stages
<1>4. Leaves /\ RowsCloseUnlessCut
  BY DEF Init, Leaves, RowsCloseUnlessCut
<1>5. AsksWithInputs /\ ReplayMatchesDecision /\ ShadowNeverTrades
  BY DEF Init, AsksWithInputs, ReplayMatchesDecision, ShadowNeverTrades
<1>6. TokensTraced
  BY DEF Init, TokensTraced
<1>. QED
  BY <1>1, <1>2, <1>3, <1>4, <1>5, <1>6 DEF RouteInvariant

LEMMA RouteGoesOn ==
  ASSUME RouteInvariant, [Next]_vars
  PROVE  RouteInvariant'
<1>. USE DEF RouteInvariant
<1>1. CallTypes' /\ Exclusive'
  BY CallsMove, ExclusiveStep
<1>2. CycleCalls'
  BY CycleCallsStep
<1>3. RouteTypes' /\ Leaves'
  BY RouteTypesStep, LeavesStep
<1>4. AsksWithInputs' /\ ReplayMatchesDecision'
  BY AsksWithInputsStep, ReplayStep
<1>5. RowsCloseUnlessCut' /\ ShadowNeverTrades'
  BY RowsCloseStep, ShadowStep
<1>6. TokensTraced'
  BY TokensTracedStep
<1>. QED
  BY <1>1, <1>2, <1>3, <1>4, <1>5, <1>6

LEMMA RouteKept == Spec => []RouteInvariant
<1>1. Init => RouteInvariant
  BY RouteStarts
<1>2. RouteInvariant /\ [Next]_vars => RouteInvariant'
  BY RouteGoesOn
<1>. QED
  BY <1>1, <1>2, PTL DEF Spec

\* At most one subprocess of the provider is alive, however the calls of the
\* cycle and of other jobs interleave and are cancelled, unless a call is
\* cancelled again while its process is dying (providers/cli.py, the semaphore
\* of the adapter and its _terminate).
THEOREM OneProcessAtATime == Spec => []OneCallAtATime
<1>1. RouteInvariant => OneCallAtATime
  BY DEF RouteInvariant, CallTypes, Exclusive, InUse, OneCallAtATime
<1>. QED
  BY <1>1, RouteKept, PTL

\* No decision made in the shadow mode is ever executed, whatever modes the
\* later runs have (application/engine.py, _is_order_execution_eligible).
THEOREM ShadowStaysOut == Spec => []ShadowNeverTrades
<1>1. RouteInvariant => ShadowNeverTrades
  BY DEF RouteInvariant
<1>. QED
  BY <1>1, RouteKept, PTL

\* The inputs saved for replay are those of the last call, after any number of
\* failed attempts (application/engine.py, _record_replay_inputs).
THEOREM ReplayAsAsked == Spec => []ReplayMatchesDecision
<1>1. RouteInvariant => ReplayMatchesDecision
  BY DEF RouteInvariant
<1>. QED
  BY <1>1, RouteKept, PTL

\* Analysis rows stay open only behind a cancellation before the call or during
\* the settlement (analysis/decision.py).
THEOREM RowsAreSettled == Spec => []RowsCloseUnlessCut
<1>1. RouteInvariant => RowsCloseUnlessCut
  BY DEF RouteInvariant
<1>. QED
  BY <1>1, RouteKept, PTL

\* A cycle that ends has written every token its calls reported, for any batch
\* size, token count and number of attempts: the shares of the symbols lose no
\* remainder, and the last failed attempt is counted once.
THEOREM TokensAddUp == Spec => []TokensRecorded
<1>1. RouteInvariant => TokensRecorded
  BY DEF RouteInvariant, TokensTraced, TokensRecorded
<1>. QED
  BY <1>1, RouteKept, PTL
====
