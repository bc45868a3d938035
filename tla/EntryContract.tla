---- MODULE EntryContract ----
(***************************************************************************)
(* What BinanceTestnetBroker.execute_with_stop promises about one symbol,  *)
(* with the venue calls, the retries and the timeouts left out:            *)
(*   - while no opening order is in progress, and the account has not been *)
(*     handed to the emergency stop, an open position is covered by a      *)
(*     protective stop at the exchange;                                    *)
(*   - an order reported as failed or rescued leaves no more exposure than *)
(*     there was before it.                                                *)
(***************************************************************************)
EXTENDS Naturals

VARIABLES
  phase,      \* what the account is doing, see Phases
  position,   \* contracts held
  covered,    \* a stop protects the position
  before      \* the position when the order in progress began

contractVars == <<phase, position, covered, before>>

AtRest == {"idle", "committed", "undone"}
Phases == AtRest \cup {"working", "escalated"}

Safe == position = 0 \/ covered

Init ==
  /\ phase = "idle"
  /\ position \in Nat
  /\ covered \in BOOLEAN
  /\ before = position
  /\ Safe

\* An opening order is accepted only for an account that is safe.
Begin ==
  /\ phase # "working"
  /\ Safe
  /\ phase' = "working"
  /\ before' = position
  /\ UNCHANGED <<position, covered>>

\* While the order is in progress the position may be exposed.
Work ==
  /\ phase = "working"
  /\ position' \in Nat
  /\ covered' \in BOOLEAN
  /\ UNCHANGED <<phase, before>>

\* The order ends well: what is now held is protected.
Commit ==
  /\ phase = "working"
  /\ phase' = "committed"
  /\ position' \in Nat
  /\ covered' \in BOOLEAN
  /\ Safe'
  /\ UNCHANGED before

\* The order failed: its exposure is gone, the rest is protected.
Undo ==
  /\ phase = "working"
  /\ phase' = "undone"
  /\ position' \in 0..before
  /\ covered' \in BOOLEAN
  /\ Safe'
  /\ UNCHANGED before

\* The order ends in an account the emergency stop must clean up.
Escalate ==
  /\ phase = "working"
  /\ phase' = "escalated"
  /\ position' \in Nat
  /\ covered' \in BOOLEAN
  /\ UNCHANGED before

\* Triggers and other closes may shrink a position at rest, never expose it.
Shrink ==
  /\ phase \in AtRest
  /\ position' \in 0..position
  /\ covered' \in BOOLEAN
  /\ Safe'
  /\ UNCHANGED <<phase, before>>

\* The emergency stop cancels orders and closes what it can.
Flatten ==
  /\ phase = "escalated"
  /\ position' \in Nat
  /\ covered' \in BOOLEAN
  /\ UNCHANGED <<phase, before>>

Next == Begin \/ Work \/ Commit \/ Undo \/ Escalate \/ Shrink \/ Flatten

Spec == Init /\ [][Next]_contractVars
====
