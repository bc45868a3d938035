---- MODULE DecisionRules ----
(***************************************************************************)
(* What the decision makers make of what they see, as pure operators: the  *)
(* deterministic local strategy, the translation of an advisory analysis   *)
(* into an intent, and the division of one call's tokens over the symbols  *)
(* of its batch.                                                           *)
(***************************************************************************)
EXTENDS Integers, Sequences, FiniteSets
LOCAL INSTANCE FiniteSetsExt

Hold == "HOLD"
Sign(side) == IF side = "LONG" THEN 1 ELSE IF side = "SHORT" THEN -1 ELSE 0

----------------------------------------------------------------------------
\* Token counts of one physical call, split over the `size` rows of a batch.

Share(total, size, index) ==
  total \div size + (IF index <= total % size THEN 1 ELSE 0)

----------------------------------------------------------------------------
\* LocalRuleProvider: trend signs of five intervals, weighted in hundredths.

Weight == [i \in {"5m", "15m", "30m", "1h", "4h"} |->
  CASE i = "5m" -> 10 [] i = "15m" -> 15 [] i = "30m" -> 20 [] i = "1h" -> 25 [] i = "4h" -> 30]

Direction(signs) ==
  LET score == MapThenSumSet(LAMBDA i : Weight[i] * signs[i], DOMAIN Weight) IN
  IF score >= 45 THEN 1 ELSE IF score <= -45 THEN -1 ELSE 0

\* The trend is confirmed by the lower intervals, momentum, volume and distance
\* from the mean.
Confirmed(reading) ==
  LET d == Direction(reading.signs) IN
  /\ d # 0
  /\ reading.signs["5m"] = d
  /\ d \in {reading.signs["15m"], reading.signs["30m"]}
  /\ ~(reading.signs["1h"] = 0 - d /\ reading.signs["4h"] = 0 - d)
  /\ reading.momentum = <<d, d>>
  /\ reading.volume
  /\ d * reading.extension < 250

LocalIntent(reading, held, waits) ==
  LET d == Direction(reading.signs) IN
  IF ~reading.complete \/ waits \/ ~Confirmed(reading) THEN Hold
  ELSE IF held # "NONE" THEN IF d = 0 - Sign(held) THEN "CLOSE" ELSE Hold
  ELSE IF ~reading.levels THEN Hold   \* no ATR, or a level that is not positive
  ELSE IF d = 1 THEN "OPEN_LONG" ELSE "OPEN_SHORT"

----------------------------------------------------------------------------
\* AnalysisDecisionBridge._provider_result: an advisory direction with its
\* execution hints.

HintsComplete(advice) == advice.direction # 0 /\ advice.hints
AssistedIntent(advice, held) ==
  IF advice.direction = 0 THEN Hold
  ELSE IF held # "NONE" THEN IF advice.direction = Sign(held) THEN Hold ELSE "CLOSE"
  ELSE IF ~HintsComplete(advice) \/ ~advice.confident THEN Hold
  ELSE IF advice.direction = 1 THEN "OPEN_LONG" ELSE "OPEN_SHORT"
====
