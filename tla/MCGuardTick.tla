---- MODULE MCGuardTick ----
(***************************************************************************)
(* Instances of GuardTick for TLC.                                         *)
(***************************************************************************)
EXTENDS GuardTick

\* A shadow profile, 0.5R / 0.75R, and the live one, 2R / 1R.
TwoProfiles == <<[activation |-> 2, distance |-> 3], [activation |-> 8, distance |-> 4]>>
\* 1R / 50 %.
OneTarget == <<[target |-> 4, percent |-> 50]>>

PriceRange == 3..6
OneEntry   == {3}
AllModes   == {"shadow", "live"}

\* What the guard handles: every failure but a DELETE whose answer is lost, a
\* database that fails the trailing stop and a snapshot of two moments.  Writes
\* of the partial take profit experiment do fail.
HandledFaults == AllFaults \ {"removeApplied", "database", "skew"}
\* A DELETE that times out although the exchange carried it out.
LostAnswer == {"removeApplied"}
====
