---- MODULE ProtectedEntry_proofs ----
(***************************************************************************)
(* Proofs about ProtectedEntry, for every order size, every bound on the   *)
(* position and every number of recovery attempts.  Ledger holds whatever  *)
(* faults occur; Cover adds what holds under HandledFaults, and together   *)
(* they imply the safety properties and the refinement of EntryContract.   *)
(***************************************************************************)
EXTENDS ProtectedEntry, TLAPS

Placing    == {"begin", "submit", "recover", "confirm", "cancel", "settleRemainder"}
Protecting == {"unbracket", "placeSl", "placeTp"}
Undoing    == {"cleanup", "rescue", "recoverRescue", "restore", "raise"}

\* A retry loop that is still running has requests left.
Budget ==
  pc \in {"recover", "confirm", "settleRemainder", "recoverRescue"}
    => attempts < RecoveryAttempts

\* The status of the entry agrees with its executed quantity.
EntryShape ==
  /\ entry.status = "NEW" => entry.filled < Qty
  /\ entry.status = "FILLED" => entry.filled = Qty
  /\ entry.status = "NONE" => entry.filled = 0
  /\ pc \in {"begin", "submit"} => entry = NoOrder

\* From the bracket on, the entry is dead and the coroutine knows its fills.
EntryKnown ==
  pc \in Protecting \cup Undoing \/ (pc = "done" /\ outcome \in {"SUCCEEDED", "RESCUED"})
    => entry.status \in Terminal /\ report = entry

\* What the rescue took off, and what is left of the order's exposure.
RescueBooks ==
  /\ pc \notin {"recoverRescue", "restore", "raise", "done"} => rescue = NoOrder
  /\ rescue.filled <= entry.filled
  /\ position + rescue.filled <= before + entry.filled
  /\ \/ pc \in {"restore", "raise"} /\ "rescue" \notin issues
     \/ pc = "done" /\ outcome = "RESCUED"
     => rescue.filled = entry.filled

\* The new stop is in place while, and after, the take profit is placed.
BracketBuilt ==
  /\ pc = "placeTp" /\ position > 0 => bracket["sl"] = "new"
  /\ pc = "done" /\ outcome = "SUCCEEDED" =>
       /\ engine = "running"
       /\ position > 0 => bracket["sl"] = "new" /\ bracket["tp"] = "new"

Ledger == TypeOK /\ Budget /\ EntryShape /\ EntryKnown /\ RescueBooks /\ BracketBuilt

\* A MARKET entry is never partly executed, nor left open.
MarketWhole ==
  /\ entry.status = "EXPIRED" => entry.filled = 0
  /\ plan.type = "MARKET" => entry.status \in {"NONE", "FILLED", "EXPIRED"}

\* What the coroutine has removed, placed and failed at, by program point.
Progress ==
  /\ pc \in Placing => cancelled = {}
  /\ pc \in Placing \cup {"unbracket", "placeSl"} => fresh = {}
  /\ pc \in {"placeTp", "cleanup"} => fresh = {"sl"}
  /\ pc \in Placing \cup Protecting \cup {"cleanup"} => issues = {}
  /\ pc = "raise" => cancelled = {}

\* Where legs placed by this order can exist.
NewLegs ==
  /\ pc \in Placing \cup {"unbracket", "placeSl"} => \A l \in Legs : bracket[l] # "new"
  /\ pc \in {"placeTp", "cleanup"} => bracket["tp"] # "new"
  /\ pc \in Undoing \ {"cleanup"} /\ "cleanup" \notin issues => \A l \in Legs : bracket[l] # "new"

\* Contracts beyond this order's own keep the stop they had, unless it is
\* recorded as removed, or as impossible to put back.
OldStopKept ==
  pc # "done" /\ position + rescue.filled > entry.filled =>
    \/ bracket["sl"] \in {"old", "manual"}
    \/ "sl" \in cancelled
    \/ "restoration" \in issues

\* An order that ended without an emergency ended well.
EndsWell ==
  pc = "done" /\ engine = "running" =>
    /\ entry.status # "NEW"
    /\ position > 0 => bracket["sl"] # "none"
    /\ outcome \in {"none", "SUCCEEDED", "FAILED", "RESCUED"}
    /\ outcome \in {"FAILED", "RESCUED"} =>
         /\ position <= before
         /\ \A l \in Legs : bracket[l] # "new"

Cover == MarketWhole /\ Progress /\ NewLegs /\ OldStopKept /\ EndsWell

USE QuantityAssumption
USE DEF Orders, Statuses, NoOrder, Legs, Owners, Plans, Placing, Protecting, Undoing,
  vars, exchangeVars, localVars, callerVars, Settle, GoTo, Terminal

\* The sequence of orders starts from an account at rest.
LEMMA LedgerInit == Init => Ledger
  BY DEF Init, Ledger, TypeOK, Budget, EntryShape, EntryKnown, RescueBooks, BracketBuilt


\* Every action keeps the types, the budget of the retry loops and the shape
\* of the entry: these three are inductive together.
LEMMA TypeStep ==
  ASSUME TypeOK, Budget, EntryShape, [Next]_vars
  PROVE  TypeOK' /\ Budget' /\ EntryShape'
<1>. USE DEF TypeOK, Budget, EntryShape
<1>1. CASE StartOrder BY <1>1 DEF StartOrder
<1>2. CASE Prepare BY <1>2 DEF Prepare
<1>3. CASE PrepareFails BY <1>3 DEF PrepareFails
<1>4. CASE Submit BY <1>4 DEF Submit, EntryExecutes, AfterPlacement, Protect
<1>5. CASE SubmitRejected BY <1>5 DEF SubmitRejected
<1>5b. CASE SubmitBreaks BY <1>5b DEF SubmitBreaks, EntryExecutes
<1>6. CASE SubmitTimesOut BY <1>6 DEF SubmitTimesOut, EntryExecutes
<1>7. CASE RecoverFinds BY <1>7 DEF RecoverFinds, AfterPlacement, Protect
<1>8. CASE RecoverMisses BY <1>8 DEF RecoverMisses
<1>9. CASE RecoverTimesOut BY <1>9 DEF RecoverTimesOut
<1>10. CASE RecoverErrors BY <1>10 DEF RecoverErrors
<1>11. CASE Confirm BY <1>11 DEF Confirm, AfterRemainder, Protect
<1>12. CASE CancelRemainder
  BY <1>12 DEF CancelRemainder, Canceled, AfterRemainder, Protect
<1>13. CASE CancelRemainderFails BY <1>13 DEF CancelRemainderFails, Canceled
<1>14. CASE SettleRemainder BY <1>14 DEF SettleRemainder, AfterRemainder, Protect
<1>15. ASSUME NEW l \in Legs, Unbracket(l) PROVE TypeOK' /\ Budget' /\ EntryShape'
  BY <1>15 DEF Unbracket, SetLeg
<1>16. ASSUME NEW l \in Legs, UnbracketFails(l) PROVE TypeOK' /\ Budget' /\ EntryShape'
  BY <1>16 DEF UnbracketFails, AlgoFails, SetLeg, Abort
<1>17. ASSUME NEW l \in Legs, Place(l) PROVE TypeOK' /\ Budget' /\ EntryShape'
  BY <1>17 DEF Place, PlaceLabel, SetLeg
<1>18. ASSUME NEW l \in Legs, PlaceFails(l) PROVE TypeOK' /\ Budget' /\ EntryShape'
  BY <1>18 DEF PlaceFails, PlaceLabel, AlgoFails, SetLeg, Abort
<1>19. ASSUME NEW l \in Legs, Cleanup(l) PROVE TypeOK' /\ Budget' /\ EntryShape'
  BY <1>19 DEF Cleanup, DropFresh, SetLeg
<1>20. ASSUME NEW l \in Legs, CleanupFails(l) PROVE TypeOK' /\ Budget' /\ EntryShape'
  BY <1>20 DEF CleanupFails, AlgoFails, DropFresh, SetLeg
<1>21. CASE Rescue
  BY <1>21 DEF Rescue, RescueExecutes, AfterRescue, RescueComplete, ProtectedQty, Smaller
<1>22. CASE RescueFails BY <1>22 DEF RescueFails, AfterRescue
<1>23. CASE RescueTimesOut
  BY <1>23 DEF RescueTimesOut, RescueExecutes, ProtectedQty, Smaller
<1>24. CASE RecoverRescue
  <2>1. CASE /\ attempts + 1 < RecoveryAttempts
             /\ attempts' = attempts + 1
             /\ GoTo("recoverRescue")
             /\ UNCHANGED issues
    BY <1>24, <2>1 DEF RecoverRescue, TypeOK, Budget, EntryShape
  <2>2. ASSUME NEW c, AfterRescue(c) PROVE TypeOK' /\ Budget' /\ EntryShape'
    BY <1>24, <2>2 DEF RecoverRescue, AfterRescue, TypeOK, Budget, EntryShape
  <2>. QED
    BY <1>24, <2>1, <2>2 DEF RecoverRescue
<1>25. ASSUME NEW l \in Legs, Restore(l) PROVE TypeOK' /\ Budget' /\ EntryShape'
  <2>1. issues' \subseteq {"rescue", "cleanup", "restoration"}
    BY <1>25 DEF Restore, TypeOK
  <2>2. bracket' \in [Legs -> Owners]
    BY <1>25 DEF Restore, AlgoFails, SetLeg, TypeOK
  <2>3. /\ cancelled' \subseteq Legs
        /\ pc' \in {"raise", "restore"}
        /\ UNCHANGED <<position, entry, rescue, plan, report, attempts, stale, fresh, callerVars>>
    BY <1>25 DEF Restore, TypeOK
  <2>. QED
    BY <2>1, <2>2, <2>3 DEF TypeOK, Budget, EntryShape
<1>26. CASE Raise BY <1>26 DEF Raise
<1>27. CASE TaskCancelled BY <1>27 DEF TaskCancelled
<1>28. CASE EntryFills BY <1>28 DEF EntryFills
<1>29. CASE FreezePartialEntry BY <1>29 DEF FreezePartialEntry, Canceled
<1>30. ASSUME NEW l \in Legs, TriggerFires(l) PROVE TypeOK' /\ Budget' /\ EntryShape'
  BY <1>30 DEF TriggerFires, SetLeg
<1>31. ASSUME NEW l \in Legs, TriggerRetires(l) PROVE TypeOK' /\ Budget' /\ EntryShape'
  BY <1>31 DEF TriggerRetires, SetLeg
<1>32. CASE PositionShrinks BY <1>32 DEF PositionShrinks
<1>33. CASE EmergencyFlatten BY <1>33 DEF EmergencyFlatten, Canceled
<1>34. CASE UNCHANGED vars BY <1>34
<1>. QED
  BY <1>1, <1>2, <1>3, <1>4, <1>5, <1>5b, <1>6, <1>7, <1>8, <1>9, <1>10, <1>11, <1>12,
     <1>13, <1>14, <1>15, <1>16, <1>17, <1>18, <1>19, <1>20, <1>21, <1>22, <1>23,
     <1>24, <1>25, <1>26, <1>27, <1>28, <1>29, <1>30, <1>31, <1>32, <1>33, <1>34 DEF
     Next, Coroutine, Environment

\* The bracket and the except block are entered only with a terminal entry,
\* whose executed quantity nobody can change any more.
LEMMA EntryKnownStep ==
  ASSUME Ledger, [Next]_vars
  PROVE  EntryKnown'
<1>. USE DEF TypeOK, Budget, EntryShape, EntryKnown, RescueBooks, BracketBuilt, Ledger
<1>1. CASE StartOrder BY <1>1 DEF StartOrder
<1>2. CASE Prepare BY <1>2 DEF Prepare
<1>3. CASE PrepareFails BY <1>3 DEF PrepareFails
<1>4. CASE Submit BY <1>4 DEF Submit, EntryExecutes, AfterPlacement, Protect
<1>5. CASE SubmitRejected BY <1>5 DEF SubmitRejected
<1>5b. CASE SubmitBreaks BY <1>5b DEF SubmitBreaks, EntryExecutes
<1>6. CASE SubmitTimesOut BY <1>6 DEF SubmitTimesOut, EntryExecutes
<1>7. CASE RecoverFinds BY <1>7 DEF RecoverFinds, AfterPlacement, Protect
<1>8. CASE RecoverMisses BY <1>8 DEF RecoverMisses
<1>9. CASE RecoverTimesOut BY <1>9 DEF RecoverTimesOut
<1>10. CASE RecoverErrors BY <1>10 DEF RecoverErrors
<1>11. CASE Confirm BY <1>11 DEF Confirm, AfterRemainder, Protect
<1>12. CASE CancelRemainder
  BY <1>12 DEF CancelRemainder, Canceled, AfterRemainder, Protect
<1>13. CASE CancelRemainderFails BY <1>13 DEF CancelRemainderFails, Canceled
<1>14. CASE SettleRemainder BY <1>14 DEF SettleRemainder, AfterRemainder, Protect
<1>15. ASSUME NEW l \in Legs, Unbracket(l) PROVE EntryKnown'
  BY <1>15 DEF Unbracket, SetLeg
<1>16. ASSUME NEW l \in Legs, UnbracketFails(l) PROVE EntryKnown'
  BY <1>16 DEF UnbracketFails, AlgoFails, SetLeg, Abort
<1>17. ASSUME NEW l \in Legs, Place(l) PROVE EntryKnown'
  BY <1>17 DEF Place, PlaceLabel, SetLeg
<1>18. ASSUME NEW l \in Legs, PlaceFails(l) PROVE EntryKnown'
  BY <1>18 DEF PlaceFails, PlaceLabel, AlgoFails, SetLeg, Abort
<1>19. ASSUME NEW l \in Legs, Cleanup(l) PROVE EntryKnown'
  BY <1>19 DEF Cleanup, DropFresh, SetLeg
<1>20. ASSUME NEW l \in Legs, CleanupFails(l) PROVE EntryKnown'
  BY <1>20 DEF CleanupFails, AlgoFails, DropFresh, SetLeg
<1>21. CASE Rescue
  BY <1>21 DEF Rescue, RescueExecutes, AfterRescue, RescueComplete, ProtectedQty, Smaller
<1>22. CASE RescueFails BY <1>22 DEF RescueFails, AfterRescue
<1>23. CASE RescueTimesOut
  BY <1>23 DEF RescueTimesOut, RescueExecutes, ProtectedQty, Smaller
<1>24. CASE RecoverRescue
  BY <1>24 DEF RecoverRescue, AfterRescue, RescueComplete, ProtectedQty
<1>25. ASSUME NEW l \in Legs, Restore(l) PROVE EntryKnown'
  BY <1>25 DEF Restore, AlgoFails, SetLeg
<1>26. CASE Raise BY <1>26 DEF Raise
<1>27. CASE TaskCancelled BY <1>27 DEF TaskCancelled
<1>28. CASE EntryFills BY <1>28 DEF EntryFills
<1>29. CASE FreezePartialEntry BY <1>29 DEF FreezePartialEntry, Canceled
<1>30. ASSUME NEW l \in Legs, TriggerFires(l) PROVE EntryKnown'
  BY <1>30 DEF TriggerFires, SetLeg
<1>31. ASSUME NEW l \in Legs, TriggerRetires(l) PROVE EntryKnown'
  BY <1>31 DEF TriggerRetires, SetLeg
<1>32. CASE PositionShrinks BY <1>32 DEF PositionShrinks
<1>33. CASE EmergencyFlatten BY <1>33 DEF EmergencyFlatten, Canceled
<1>34. CASE UNCHANGED vars BY <1>34
<1>. QED
  BY <1>1, <1>2, <1>3, <1>4, <1>5, <1>5b, <1>6, <1>7, <1>8, <1>9, <1>10, <1>11, <1>12,
     <1>13, <1>14, <1>15, <1>16, <1>17, <1>18, <1>19, <1>20, <1>21, <1>22, <1>23,
     <1>24, <1>25, <1>26, <1>27, <1>28, <1>29, <1>30, <1>31, <1>32, <1>33, <1>34 DEF
     Next, Coroutine, Environment

\* What the rescue takes off is the order's own, and a rescue that is not
\* recorded as an issue took off all of it.
LEMMA RescueBooksStep ==
  ASSUME Ledger, [Next]_vars
  PROVE  RescueBooks'
<1>. USE DEF TypeOK, Budget, EntryShape, EntryKnown, RescueBooks, BracketBuilt, Ledger
<1>1. CASE StartOrder BY <1>1 DEF StartOrder
<1>2. CASE Prepare BY <1>2 DEF Prepare
<1>3. CASE PrepareFails BY <1>3 DEF PrepareFails
<1>4. CASE Submit BY <1>4 DEF Submit, EntryExecutes, AfterPlacement, Protect
<1>5. CASE SubmitRejected BY <1>5 DEF SubmitRejected
<1>5b. CASE SubmitBreaks BY <1>5b DEF SubmitBreaks, EntryExecutes
<1>6. CASE SubmitTimesOut BY <1>6 DEF SubmitTimesOut, EntryExecutes
<1>7. CASE RecoverFinds BY <1>7 DEF RecoverFinds, AfterPlacement, Protect
<1>8. CASE RecoverMisses BY <1>8 DEF RecoverMisses
<1>9. CASE RecoverTimesOut BY <1>9 DEF RecoverTimesOut
<1>10. CASE RecoverErrors BY <1>10 DEF RecoverErrors
<1>11. CASE Confirm BY <1>11 DEF Confirm, AfterRemainder, Protect
<1>12. CASE CancelRemainder
  BY <1>12 DEF CancelRemainder, Canceled, AfterRemainder, Protect
<1>13. CASE CancelRemainderFails BY <1>13 DEF CancelRemainderFails, Canceled
<1>14. CASE SettleRemainder BY <1>14 DEF SettleRemainder, AfterRemainder, Protect
<1>15. ASSUME NEW l \in Legs, Unbracket(l) PROVE RescueBooks'
  BY <1>15 DEF Unbracket, SetLeg
<1>16. ASSUME NEW l \in Legs, UnbracketFails(l) PROVE RescueBooks'
  BY <1>16 DEF UnbracketFails, AlgoFails, SetLeg, Abort
<1>17. ASSUME NEW l \in Legs, Place(l) PROVE RescueBooks'
  BY <1>17 DEF Place, PlaceLabel, SetLeg
<1>18. ASSUME NEW l \in Legs, PlaceFails(l) PROVE RescueBooks'
  BY <1>18 DEF PlaceFails, PlaceLabel, AlgoFails, SetLeg, Abort
<1>19. ASSUME NEW l \in Legs, Cleanup(l) PROVE RescueBooks'
  BY <1>19 DEF Cleanup, DropFresh, SetLeg
<1>20. ASSUME NEW l \in Legs, CleanupFails(l) PROVE RescueBooks'
  BY <1>20 DEF CleanupFails, AlgoFails, DropFresh, SetLeg
<1>21. CASE Rescue
  BY <1>21 DEF Rescue, RescueExecutes, AfterRescue, RescueComplete, ProtectedQty, Smaller
<1>22. CASE RescueFails BY <1>22 DEF RescueFails, AfterRescue
<1>23. CASE RescueTimesOut
  BY <1>23 DEF RescueTimesOut, RescueExecutes, ProtectedQty, Smaller
<1>24. CASE RecoverRescue
  BY <1>24 DEF RecoverRescue, AfterRescue, RescueComplete, ProtectedQty
<1>25. ASSUME NEW l \in Legs, Restore(l) PROVE RescueBooks'
  BY <1>25 DEF Restore, AlgoFails, SetLeg
<1>26. CASE Raise BY <1>26 DEF Raise
<1>27. CASE TaskCancelled BY <1>27 DEF TaskCancelled
<1>28. CASE EntryFills BY <1>28 DEF EntryFills
<1>29. CASE FreezePartialEntry BY <1>29 DEF FreezePartialEntry, Canceled
<1>30. ASSUME NEW l \in Legs, TriggerFires(l) PROVE RescueBooks'
  BY <1>30 DEF TriggerFires, SetLeg
<1>31. ASSUME NEW l \in Legs, TriggerRetires(l) PROVE RescueBooks'
  BY <1>31 DEF TriggerRetires, SetLeg
<1>32. CASE PositionShrinks BY <1>32 DEF PositionShrinks
<1>33. CASE EmergencyFlatten BY <1>33 DEF EmergencyFlatten, Canceled
<1>34. CASE UNCHANGED vars BY <1>34
<1>. QED
  BY <1>1, <1>2, <1>3, <1>4, <1>5, <1>5b, <1>6, <1>7, <1>8, <1>9, <1>10, <1>11, <1>12,
     <1>13, <1>14, <1>15, <1>16, <1>17, <1>18, <1>19, <1>20, <1>21, <1>22, <1>23,
     <1>24, <1>25, <1>26, <1>27, <1>28, <1>29, <1>30, <1>31, <1>32, <1>33, <1>34 DEF
     Next, Coroutine, Environment

\* The two legs of a successful order go in one after the other, and a fresh
\* leg disappears only with the position.
LEMMA BracketBuiltStep ==
  ASSUME Ledger, [Next]_vars
  PROVE  BracketBuilt'
<1>. USE DEF TypeOK, Budget, EntryShape, EntryKnown, RescueBooks, BracketBuilt, Ledger
<1>1. CASE StartOrder BY <1>1 DEF StartOrder
<1>2. CASE Prepare BY <1>2 DEF Prepare
<1>3. CASE PrepareFails BY <1>3 DEF PrepareFails
<1>4. CASE Submit BY <1>4 DEF Submit, EntryExecutes, AfterPlacement, Protect
<1>5. CASE SubmitRejected BY <1>5 DEF SubmitRejected
<1>5b. CASE SubmitBreaks BY <1>5b DEF SubmitBreaks, EntryExecutes
<1>6. CASE SubmitTimesOut BY <1>6 DEF SubmitTimesOut, EntryExecutes
<1>7. CASE RecoverFinds BY <1>7 DEF RecoverFinds, AfterPlacement, Protect
<1>8. CASE RecoverMisses BY <1>8 DEF RecoverMisses
<1>9. CASE RecoverTimesOut BY <1>9 DEF RecoverTimesOut
<1>10. CASE RecoverErrors BY <1>10 DEF RecoverErrors
<1>11. CASE Confirm BY <1>11 DEF Confirm, AfterRemainder, Protect
<1>12. CASE CancelRemainder
  BY <1>12 DEF CancelRemainder, Canceled, AfterRemainder, Protect
<1>13. CASE CancelRemainderFails BY <1>13 DEF CancelRemainderFails, Canceled
<1>14. CASE SettleRemainder BY <1>14 DEF SettleRemainder, AfterRemainder, Protect
<1>15. ASSUME NEW l \in Legs, Unbracket(l) PROVE BracketBuilt'
  BY <1>15 DEF Unbracket, SetLeg
<1>16. ASSUME NEW l \in Legs, UnbracketFails(l) PROVE BracketBuilt'
  BY <1>16 DEF UnbracketFails, AlgoFails, SetLeg, Abort
<1>17. ASSUME NEW l \in Legs, Place(l) PROVE BracketBuilt'
  BY <1>17 DEF Place, PlaceLabel, SetLeg
<1>18. ASSUME NEW l \in Legs, PlaceFails(l) PROVE BracketBuilt'
  BY <1>18 DEF PlaceFails, PlaceLabel, AlgoFails, SetLeg, Abort
<1>19. ASSUME NEW l \in Legs, Cleanup(l) PROVE BracketBuilt'
  BY <1>19 DEF Cleanup, DropFresh, SetLeg
<1>20. ASSUME NEW l \in Legs, CleanupFails(l) PROVE BracketBuilt'
  BY <1>20 DEF CleanupFails, AlgoFails, DropFresh, SetLeg
<1>21. CASE Rescue
  BY <1>21 DEF Rescue, RescueExecutes, AfterRescue, RescueComplete, ProtectedQty, Smaller
<1>22. CASE RescueFails BY <1>22 DEF RescueFails, AfterRescue
<1>23. CASE RescueTimesOut
  BY <1>23 DEF RescueTimesOut, RescueExecutes, ProtectedQty, Smaller
<1>24. CASE RecoverRescue
  BY <1>24 DEF RecoverRescue, AfterRescue, RescueComplete, ProtectedQty
<1>25. ASSUME NEW l \in Legs, Restore(l) PROVE BracketBuilt'
  BY <1>25 DEF Restore, AlgoFails, SetLeg
<1>26. CASE Raise BY <1>26 DEF Raise
<1>27. CASE TaskCancelled BY <1>27 DEF TaskCancelled
<1>28. CASE EntryFills BY <1>28 DEF EntryFills
<1>29. CASE FreezePartialEntry BY <1>29 DEF FreezePartialEntry, Canceled
<1>30. ASSUME NEW l \in Legs, TriggerFires(l) PROVE BracketBuilt'
  BY <1>30 DEF TriggerFires, SetLeg
<1>31. ASSUME NEW l \in Legs, TriggerRetires(l) PROVE BracketBuilt'
  BY <1>31 DEF TriggerRetires, SetLeg
<1>32. CASE PositionShrinks BY <1>32 DEF PositionShrinks
<1>33. CASE EmergencyFlatten BY <1>33 DEF EmergencyFlatten, Canceled
<1>34. CASE UNCHANGED vars BY <1>34
<1>. QED
  BY <1>1, <1>2, <1>3, <1>4, <1>5, <1>5b, <1>6, <1>7, <1>8, <1>9, <1>10, <1>11, <1>12,
     <1>13, <1>14, <1>15, <1>16, <1>17, <1>18, <1>19, <1>20, <1>21, <1>22, <1>23,
     <1>24, <1>25, <1>26, <1>27, <1>28, <1>29, <1>30, <1>31, <1>32, <1>33, <1>34 DEF
     Next, Coroutine, Environment

\* Ledger is an inductive invariant, whatever faults occur.
THEOREM LedgerInvariant == Spec => []Ledger
<1>1. Init => Ledger
  BY LedgerInit
<1>2. Ledger /\ [Next]_vars => Ledger'
  BY TypeStep, EntryKnownStep, RescueBooksStep, BracketBuiltStep DEF Ledger
<1>. QED
  BY <1>1, <1>2, PTL DEF Spec

\* Type correctness of execute_with_stop, its exchange and its caller.
THEOREM TypeCorrect == Spec => []TypeOK
<1>1. Ledger => TypeOK
  BY DEF Ledger
<1>. QED
  BY <1>1, LedgerInvariant, PTL

\* _emergency_reduce never takes off more than this order executed.
THEOREM RescueTakesOwn == Spec => []RescueWithinEntry
<1>1. Ledger => RescueWithinEntry
  BY DEF Ledger, RescueBooks, RescueWithinEntry
<1>. QED
  BY <1>1, LedgerInvariant, PTL

\* An order reported as RESCUED left no exposure of its own.
THEOREM RescuedIsUndone == Spec => []RescueUndoes
<1>1. Ledger => RescueUndoes
  BY DEF Ledger, TypeOK, RescueBooks, RescueUndoes
<1>. QED
  BY <1>1, LedgerInvariant, PTL

\* An order reported as SUCCEEDED is bracketed on both sides.
THEOREM SucceededIsBracketed == Spec => []SuccessIsBracketed
<1>1. Ledger => SuccessIsBracketed
  BY DEF Ledger, BracketBuilt, SuccessIsBracketed
<1>. QED
  BY <1>1, LedgerInvariant, PTL


\* The one coroutine step that removes a leg of an earlier order is
\* Unbracket, which runs only with a terminal entry; every other step that
\* removes one closes the position, or comes from the emergency stop.
LEMMA OldLegStep ==
  ASSUME NEW x \in Legs, Ledger, bracket[x] = "old", bracket'[x] = "none", position'
         = position, position > 0, [Next]_vars
  PROVE  entry.status \in Terminal \/ engine = "locked"
<1>. USE DEF Ledger, TypeOK, EntryKnown
<1>1. CASE StartOrder BY <1>1 DEF StartOrder
<1>2. CASE Prepare BY <1>2 DEF Prepare
<1>3. CASE PrepareFails BY <1>3 DEF PrepareFails
<1>4. CASE Submit BY <1>4 DEF Submit, EntryExecutes, AfterPlacement, Protect
<1>5. CASE SubmitRejected BY <1>5 DEF SubmitRejected
<1>5b. CASE SubmitBreaks BY <1>5b DEF SubmitBreaks, EntryExecutes
<1>6. CASE SubmitTimesOut BY <1>6 DEF SubmitTimesOut, EntryExecutes
<1>7. CASE RecoverFinds BY <1>7 DEF RecoverFinds, AfterPlacement, Protect
<1>8. CASE RecoverMisses BY <1>8 DEF RecoverMisses
<1>9. CASE RecoverTimesOut BY <1>9 DEF RecoverTimesOut
<1>10. CASE RecoverErrors BY <1>10 DEF RecoverErrors
<1>11. CASE Confirm BY <1>11 DEF Confirm, AfterRemainder, Protect
<1>12. CASE CancelRemainder
  BY <1>12 DEF CancelRemainder, Canceled, AfterRemainder, Protect
<1>13. CASE CancelRemainderFails BY <1>13 DEF CancelRemainderFails, Canceled
<1>14. CASE SettleRemainder BY <1>14 DEF SettleRemainder, AfterRemainder, Protect
<1>15. ASSUME NEW l \in Legs, Unbracket(l) PROVE entry.status \in Terminal \/ engine = "locked"
  BY <1>15 DEF Unbracket, SetLeg
<1>16. ASSUME NEW l \in Legs, UnbracketFails(l) PROVE entry.status \in Terminal \/ engine = "locked"
  BY <1>16 DEF UnbracketFails, AlgoFails, SetLeg, Abort
<1>17. ASSUME NEW l \in Legs, Place(l) PROVE entry.status \in Terminal \/ engine = "locked"
  BY <1>17 DEF Place, PlaceLabel, SetLeg
<1>18. ASSUME NEW l \in Legs, PlaceFails(l) PROVE entry.status \in Terminal \/ engine = "locked"
  BY <1>18 DEF PlaceFails, PlaceLabel, AlgoFails, SetLeg, Abort
<1>19. ASSUME NEW l \in Legs, Cleanup(l) PROVE entry.status \in Terminal \/ engine = "locked"
  BY <1>19 DEF Cleanup, DropFresh, SetLeg
<1>20. ASSUME NEW l \in Legs, CleanupFails(l) PROVE entry.status \in Terminal \/ engine = "locked"
  BY <1>20 DEF CleanupFails, AlgoFails, DropFresh, SetLeg
<1>21. CASE Rescue
  BY <1>21 DEF Rescue, RescueExecutes, AfterRescue, RescueComplete, ProtectedQty, Smaller
<1>22. CASE RescueFails BY <1>22 DEF RescueFails, AfterRescue
<1>23. CASE RescueTimesOut
  BY <1>23 DEF RescueTimesOut, RescueExecutes, ProtectedQty, Smaller
<1>24. CASE RecoverRescue
  BY <1>24 DEF RecoverRescue, AfterRescue, RescueComplete, ProtectedQty
<1>25. ASSUME NEW l \in Legs, Restore(l) PROVE entry.status \in Terminal \/ engine = "locked"
  BY <1>25 DEF Restore, AlgoFails, SetLeg
<1>26. CASE Raise BY <1>26 DEF Raise
<1>27. CASE TaskCancelled BY <1>27 DEF TaskCancelled
<1>28. CASE EntryFills BY <1>28 DEF EntryFills
<1>29. CASE FreezePartialEntry BY <1>29 DEF FreezePartialEntry, Canceled
<1>30. ASSUME NEW l \in Legs, TriggerFires(l) PROVE entry.status \in Terminal \/ engine = "locked"
  BY <1>30 DEF TriggerFires, SetLeg
<1>31. ASSUME NEW l \in Legs, TriggerRetires(l) PROVE entry.status \in Terminal \/ engine = "locked"
  BY <1>31 DEF TriggerRetires, SetLeg
<1>32. CASE PositionShrinks BY <1>32 DEF PositionShrinks
<1>33. CASE EmergencyFlatten BY <1>33 DEF EmergencyFlatten, Canceled
<1>34. CASE UNCHANGED vars BY <1>34
<1>. QED
  BY <1>1, <1>2, <1>3, <1>4, <1>5, <1>5b, <1>6, <1>7, <1>8, <1>9, <1>10, <1>11, <1>12,
     <1>13, <1>14, <1>15, <1>16, <1>17, <1>18, <1>19, <1>20, <1>21, <1>22, <1>23,
     <1>24, <1>25, <1>26, <1>27, <1>28, <1>29, <1>30, <1>31, <1>32, <1>33, <1>34 DEF
     Next, Coroutine, Environment

\* The old bracket of an ADD is removed only after its entry is dead.
THEOREM OldBracketKept == Spec => OldBracketOutlivesEntry
<1>1. Ledger /\ [Next]_vars =>
        [\A l \in Legs :
           bracket[l] = "old" /\ bracket'[l] = "none" /\ position' = position /\ position > 0
             => entry.status \in Terminal \/ engine = "locked"]_vars
  BY OldLegStep
<1>. QED
  BY <1>1, LedgerInvariant, PTL DEF Spec, OldBracketOutlivesEntry

\* An account at rest satisfies Cover.
LEMMA CoverInit == Init => Cover
  BY DEF Init, Cover, MarketWhole, Progress, NewLegs, OldStopKept, EndsWell

\* MARKET entries stay all-or-nothing, because the exchange executes them so
\* and only an open entry can be cancelled.
LEMMA MarketWholeStep ==
  ASSUME HandledFaults, Ledger, MarketWhole, [Next]_vars
  PROVE  MarketWhole'
<1>. USE DEF Ledger, TypeOK, EntryShape, MarketWhole, HandledFaults
<1>1. CASE StartOrder BY <1>1 DEF StartOrder
<1>2. CASE Prepare BY <1>2 DEF Prepare
<1>3. CASE PrepareFails BY <1>3 DEF PrepareFails
<1>4. CASE Submit BY <1>4 DEF Submit, EntryExecutes, AfterPlacement, Protect
<1>5. CASE SubmitRejected BY <1>5 DEF SubmitRejected
<1>5b. CASE SubmitBreaks BY <1>5b DEF SubmitBreaks, EntryExecutes
<1>6. CASE SubmitTimesOut BY <1>6 DEF SubmitTimesOut, EntryExecutes
<1>7. CASE RecoverFinds BY <1>7 DEF RecoverFinds, AfterPlacement, Protect
<1>8. CASE RecoverMisses BY <1>8 DEF RecoverMisses
<1>9. CASE RecoverTimesOut BY <1>9 DEF RecoverTimesOut
<1>10. CASE RecoverErrors BY <1>10 DEF RecoverErrors
<1>11. CASE Confirm BY <1>11 DEF Confirm, AfterRemainder, Protect
<1>12. CASE CancelRemainder
  BY <1>12 DEF CancelRemainder, Canceled, AfterRemainder, Protect
<1>13. CASE CancelRemainderFails BY <1>13 DEF CancelRemainderFails, Canceled
<1>14. CASE SettleRemainder BY <1>14 DEF SettleRemainder, AfterRemainder, Protect
<1>15. ASSUME NEW l \in Legs, Unbracket(l) PROVE MarketWhole'
  BY <1>15 DEF Unbracket, SetLeg
<1>16. ASSUME NEW l \in Legs, UnbracketFails(l) PROVE MarketWhole'
  BY <1>16 DEF UnbracketFails, AlgoFails, SetLeg, Abort
<1>17. ASSUME NEW l \in Legs, Place(l) PROVE MarketWhole'
  BY <1>17 DEF Place, PlaceLabel, SetLeg
<1>18. ASSUME NEW l \in Legs, PlaceFails(l) PROVE MarketWhole'
  BY <1>18 DEF PlaceFails, PlaceLabel, AlgoFails, SetLeg, Abort
<1>19. ASSUME NEW l \in Legs, Cleanup(l) PROVE MarketWhole'
  BY <1>19 DEF Cleanup, DropFresh, SetLeg
<1>20. ASSUME NEW l \in Legs, CleanupFails(l) PROVE MarketWhole'
  BY <1>20 DEF CleanupFails, AlgoFails, DropFresh, SetLeg
<1>21. CASE Rescue
  BY <1>21 DEF Rescue, RescueExecutes, AfterRescue, RescueComplete, ProtectedQty, Smaller
<1>22. CASE RescueFails BY <1>22 DEF RescueFails, AfterRescue
<1>23. CASE RescueTimesOut
  BY <1>23 DEF RescueTimesOut, RescueExecutes, ProtectedQty, Smaller
<1>24. CASE RecoverRescue
  BY <1>24 DEF RecoverRescue, AfterRescue, RescueComplete, ProtectedQty
<1>25. ASSUME NEW l \in Legs, Restore(l) PROVE MarketWhole'
  BY <1>25 DEF Restore, AlgoFails, SetLeg
<1>26. CASE Raise BY <1>26 DEF Raise
<1>27. CASE TaskCancelled BY <1>27 DEF TaskCancelled
<1>28. CASE EntryFills BY <1>28 DEF EntryFills
<1>29. CASE FreezePartialEntry BY <1>29 DEF FreezePartialEntry, Canceled
<1>30. ASSUME NEW l \in Legs, TriggerFires(l) PROVE MarketWhole'
  BY <1>30 DEF TriggerFires, SetLeg
<1>31. ASSUME NEW l \in Legs, TriggerRetires(l) PROVE MarketWhole'
  BY <1>31 DEF TriggerRetires, SetLeg
<1>32. CASE PositionShrinks BY <1>32 DEF PositionShrinks
<1>33. CASE EmergencyFlatten BY <1>33 DEF EmergencyFlatten, Canceled
<1>34. CASE UNCHANGED vars BY <1>34
<1>. QED
  BY <1>1, <1>2, <1>3, <1>4, <1>5, <1>5b, <1>6, <1>7, <1>8, <1>9, <1>10, <1>11, <1>12,
     <1>13, <1>14, <1>15, <1>16, <1>17, <1>18, <1>19, <1>20, <1>21, <1>22, <1>23,
     <1>24, <1>25, <1>26, <1>27, <1>28, <1>29, <1>30, <1>31, <1>32, <1>33, <1>34 DEF
     Next, Coroutine, Environment

\* The coroutine's own records follow its program point.
LEMMA ProgressStep ==
  ASSUME HandledFaults, Ledger, Progress, [Next]_vars
  PROVE  Progress'
<1>. USE DEF Ledger, TypeOK, EntryShape, Progress
<1>1. CASE StartOrder BY <1>1 DEF StartOrder
<1>2. CASE Prepare BY <1>2 DEF Prepare
<1>3. CASE PrepareFails BY <1>3 DEF PrepareFails
<1>4. CASE Submit BY <1>4 DEF Submit, EntryExecutes, AfterPlacement, Protect
<1>5. CASE SubmitRejected BY <1>5 DEF SubmitRejected
<1>5b. CASE SubmitBreaks BY <1>5b DEF SubmitBreaks, EntryExecutes
<1>6. CASE SubmitTimesOut BY <1>6 DEF SubmitTimesOut, EntryExecutes
<1>7. CASE RecoverFinds BY <1>7 DEF RecoverFinds, AfterPlacement, Protect
<1>8. CASE RecoverMisses BY <1>8 DEF RecoverMisses
<1>9. CASE RecoverTimesOut BY <1>9 DEF RecoverTimesOut
<1>10. CASE RecoverErrors BY <1>10 DEF RecoverErrors
<1>11. CASE Confirm BY <1>11 DEF Confirm, AfterRemainder, Protect
<1>12. CASE CancelRemainder
  BY <1>12 DEF CancelRemainder, Canceled, AfterRemainder, Protect
<1>13. CASE CancelRemainderFails BY <1>13 DEF CancelRemainderFails, Canceled
<1>14. CASE SettleRemainder BY <1>14 DEF SettleRemainder, AfterRemainder, Protect
<1>15. ASSUME NEW l \in Legs, Unbracket(l) PROVE Progress'
  BY <1>15 DEF Unbracket, SetLeg
<1>16. ASSUME NEW l \in Legs, UnbracketFails(l) PROVE Progress'
  BY <1>16 DEF UnbracketFails, AlgoFails, SetLeg, Abort
<1>17. ASSUME NEW l \in Legs, Place(l) PROVE Progress'
  BY <1>17 DEF Place, PlaceLabel, SetLeg
<1>18. ASSUME NEW l \in Legs, PlaceFails(l) PROVE Progress'
  BY <1>18 DEF PlaceFails, PlaceLabel, AlgoFails, SetLeg, Abort
<1>19. ASSUME NEW l \in Legs, Cleanup(l) PROVE Progress'
  BY <1>19 DEF Cleanup, DropFresh, SetLeg
<1>20. ASSUME NEW l \in Legs, CleanupFails(l) PROVE Progress'
  BY <1>20 DEF CleanupFails, AlgoFails, DropFresh, SetLeg
<1>21. CASE Rescue
  BY <1>21 DEF Rescue, RescueExecutes, AfterRescue, RescueComplete, ProtectedQty, Smaller
<1>22. CASE RescueFails BY <1>22 DEF RescueFails, AfterRescue
<1>23. CASE RescueTimesOut
  BY <1>23 DEF RescueTimesOut, RescueExecutes, ProtectedQty, Smaller
<1>24. CASE RecoverRescue
  BY <1>24 DEF RecoverRescue, AfterRescue, RescueComplete, ProtectedQty
<1>25. ASSUME NEW l \in Legs, Restore(l) PROVE Progress'
  BY <1>25 DEF Restore, AlgoFails, SetLeg
<1>26. CASE Raise BY <1>26 DEF Raise
<1>27. CASE TaskCancelled BY <1>27 DEF TaskCancelled
<1>28. CASE EntryFills BY <1>28 DEF EntryFills
<1>29. CASE FreezePartialEntry BY <1>29 DEF FreezePartialEntry, Canceled
<1>30. ASSUME NEW l \in Legs, TriggerFires(l) PROVE Progress'
  BY <1>30 DEF TriggerFires, SetLeg
<1>31. ASSUME NEW l \in Legs, TriggerRetires(l) PROVE Progress'
  BY <1>31 DEF TriggerRetires, SetLeg
<1>32. CASE PositionShrinks BY <1>32 DEF PositionShrinks
<1>33. CASE EmergencyFlatten BY <1>33 DEF EmergencyFlatten, Canceled
<1>34. CASE UNCHANGED vars BY <1>34
<1>. QED
  BY <1>1, <1>2, <1>3, <1>4, <1>5, <1>5b, <1>6, <1>7, <1>8, <1>9, <1>10, <1>11, <1>12,
     <1>13, <1>14, <1>15, <1>16, <1>17, <1>18, <1>19, <1>20, <1>21, <1>22, <1>23,
     <1>24, <1>25, <1>26, <1>27, <1>28, <1>29, <1>30, <1>31, <1>32, <1>33, <1>34 DEF
     Next, Coroutine, Environment

\* A fresh leg that outlives the cleanup is recorded as an issue: a cleanup
\* either works or is recorded as failed, since no algo request is applied
\* behind a timeout.
LEMMA NewLegsStep ==
  ASSUME HandledFaults, Ledger, Progress, NewLegs, [Next]_vars
  PROVE  NewLegs'
<1>. USE DEF Ledger, TypeOK, EntryShape, Progress, NewLegs, HandledFaults
<1>1. CASE StartOrder BY <1>1 DEF StartOrder
<1>2. CASE Prepare BY <1>2 DEF Prepare
<1>3. CASE PrepareFails BY <1>3 DEF PrepareFails
<1>4. CASE Submit BY <1>4 DEF Submit, EntryExecutes, AfterPlacement, Protect
<1>5. CASE SubmitRejected BY <1>5 DEF SubmitRejected
<1>5b. CASE SubmitBreaks BY <1>5b DEF SubmitBreaks, EntryExecutes
<1>6. CASE SubmitTimesOut BY <1>6 DEF SubmitTimesOut, EntryExecutes
<1>7. CASE RecoverFinds BY <1>7 DEF RecoverFinds, AfterPlacement, Protect
<1>8. CASE RecoverMisses BY <1>8 DEF RecoverMisses
<1>9. CASE RecoverTimesOut BY <1>9 DEF RecoverTimesOut
<1>10. CASE RecoverErrors BY <1>10 DEF RecoverErrors
<1>11. CASE Confirm BY <1>11 DEF Confirm, AfterRemainder, Protect
<1>12. CASE CancelRemainder
  BY <1>12 DEF CancelRemainder, Canceled, AfterRemainder, Protect
<1>13. CASE CancelRemainderFails BY <1>13 DEF CancelRemainderFails, Canceled
<1>14. CASE SettleRemainder BY <1>14 DEF SettleRemainder, AfterRemainder, Protect
<1>15. ASSUME NEW l \in Legs, Unbracket(l) PROVE NewLegs'
  BY <1>15 DEF Unbracket, SetLeg
<1>16. ASSUME NEW l \in Legs, UnbracketFails(l) PROVE NewLegs'
  BY <1>16 DEF UnbracketFails, AlgoFails, SetLeg, Abort
<1>17. ASSUME NEW l \in Legs, Place(l) PROVE NewLegs'
  BY <1>17 DEF Place, PlaceLabel, SetLeg
<1>18. ASSUME NEW l \in Legs, PlaceFails(l) PROVE NewLegs'
  BY <1>18 DEF PlaceFails, PlaceLabel, AlgoFails, SetLeg, Abort
<1>19. ASSUME NEW l \in Legs, Cleanup(l) PROVE NewLegs'
  BY <1>19 DEF Cleanup, DropFresh, SetLeg
<1>20. ASSUME NEW l \in Legs, CleanupFails(l) PROVE NewLegs'
  BY <1>20 DEF CleanupFails, AlgoFails, DropFresh, SetLeg
<1>21. CASE Rescue
  BY <1>21 DEF Rescue, RescueExecutes, AfterRescue, RescueComplete, ProtectedQty, Smaller
<1>22. CASE RescueFails BY <1>22 DEF RescueFails, AfterRescue
<1>23. CASE RescueTimesOut
  BY <1>23 DEF RescueTimesOut, RescueExecutes, ProtectedQty, Smaller
<1>24. CASE RecoverRescue
  BY <1>24 DEF RecoverRescue, AfterRescue, RescueComplete, ProtectedQty
<1>25. ASSUME NEW l \in Legs, Restore(l) PROVE NewLegs'
  BY <1>25 DEF Restore, AlgoFails, SetLeg
<1>26. CASE Raise BY <1>26 DEF Raise
<1>27. CASE TaskCancelled BY <1>27 DEF TaskCancelled
<1>28. CASE EntryFills BY <1>28 DEF EntryFills
<1>29. CASE FreezePartialEntry BY <1>29 DEF FreezePartialEntry, Canceled
<1>30. ASSUME NEW l \in Legs, TriggerFires(l) PROVE NewLegs'
  BY <1>30 DEF TriggerFires, SetLeg
<1>31. ASSUME NEW l \in Legs, TriggerRetires(l) PROVE NewLegs'
  BY <1>31 DEF TriggerRetires, SetLeg
<1>32. CASE PositionShrinks BY <1>32 DEF PositionShrinks
<1>33. CASE EmergencyFlatten BY <1>33 DEF EmergencyFlatten, Canceled
<1>34. CASE UNCHANGED vars BY <1>34
<1>. QED
  BY <1>1, <1>2, <1>3, <1>4, <1>5, <1>5b, <1>6, <1>7, <1>8, <1>9, <1>10, <1>11, <1>12,
     <1>13, <1>14, <1>15, <1>16, <1>17, <1>18, <1>19, <1>20, <1>21, <1>22, <1>23,
     <1>24, <1>25, <1>26, <1>27, <1>28, <1>29, <1>30, <1>31, <1>32, <1>33, <1>34 DEF
     Next, Coroutine, Environment

\* The old stop leaves its slot only into `cancelled`, and `cancelled` only
\* back into its slot or into the issues.
LEMMA OldStopKeptStep ==
  ASSUME HandledFaults, Ledger, Cover, [Next]_vars
  PROVE  OldStopKept'
<1>. USE DEF Ledger, TypeOK, EntryShape, Cover, RescueBooks, OldStopKept, EndsWell,
       Progress, HandledFaults
<1>1. CASE StartOrder BY <1>1 DEF StartOrder
<1>2. CASE Prepare BY <1>2 DEF Prepare
<1>3. CASE PrepareFails BY <1>3 DEF PrepareFails
<1>4. CASE Submit BY <1>4 DEF Submit, EntryExecutes, AfterPlacement, Protect
<1>5. CASE SubmitRejected BY <1>5 DEF SubmitRejected
<1>5b. CASE SubmitBreaks BY <1>5b DEF SubmitBreaks, EntryExecutes
<1>6. CASE SubmitTimesOut BY <1>6 DEF SubmitTimesOut, EntryExecutes
<1>7. CASE RecoverFinds BY <1>7 DEF RecoverFinds, AfterPlacement, Protect
<1>8. CASE RecoverMisses BY <1>8 DEF RecoverMisses
<1>9. CASE RecoverTimesOut BY <1>9 DEF RecoverTimesOut
<1>10. CASE RecoverErrors BY <1>10 DEF RecoverErrors
<1>11. CASE Confirm BY <1>11 DEF Confirm, AfterRemainder, Protect
<1>12. CASE CancelRemainder
  BY <1>12 DEF CancelRemainder, Canceled, AfterRemainder, Protect
<1>13. CASE CancelRemainderFails BY <1>13 DEF CancelRemainderFails, Canceled
<1>14. CASE SettleRemainder BY <1>14 DEF SettleRemainder, AfterRemainder, Protect
<1>15. ASSUME NEW l \in Legs, Unbracket(l) PROVE OldStopKept'
  BY <1>15 DEF Unbracket, SetLeg
<1>16. ASSUME NEW l \in Legs, UnbracketFails(l) PROVE OldStopKept'
  BY <1>16 DEF UnbracketFails, AlgoFails, SetLeg, Abort
<1>17. ASSUME NEW l \in Legs, Place(l) PROVE OldStopKept'
  BY <1>17 DEF Place, PlaceLabel, SetLeg
<1>18. ASSUME NEW l \in Legs, PlaceFails(l) PROVE OldStopKept'
  BY <1>18 DEF PlaceFails, PlaceLabel, AlgoFails, SetLeg, Abort
<1>19. ASSUME NEW l \in Legs, Cleanup(l) PROVE OldStopKept'
  BY <1>19 DEF Cleanup, DropFresh, SetLeg
<1>20. ASSUME NEW l \in Legs, CleanupFails(l) PROVE OldStopKept'
  BY <1>20 DEF CleanupFails, AlgoFails, DropFresh, SetLeg
<1>21. CASE Rescue
  BY <1>21 DEF Rescue, RescueExecutes, AfterRescue, RescueComplete, ProtectedQty, Smaller
<1>22. CASE RescueFails BY <1>22 DEF RescueFails, AfterRescue
<1>23. CASE RescueTimesOut
  BY <1>23 DEF RescueTimesOut, RescueExecutes, ProtectedQty, Smaller
<1>24. CASE RecoverRescue
  BY <1>24 DEF RecoverRescue, AfterRescue, RescueComplete, ProtectedQty
<1>25. ASSUME NEW l \in Legs, Restore(l) PROVE OldStopKept'
  BY <1>25 DEF Restore, AlgoFails, SetLeg
<1>26. CASE Raise BY <1>26 DEF Raise
<1>27. CASE TaskCancelled BY <1>27 DEF TaskCancelled
<1>28. CASE EntryFills BY <1>28 DEF EntryFills
<1>29. CASE FreezePartialEntry BY <1>29 DEF FreezePartialEntry, Canceled
<1>30. ASSUME NEW l \in Legs, TriggerFires(l) PROVE OldStopKept'
  BY <1>30 DEF TriggerFires, SetLeg
<1>31. ASSUME NEW l \in Legs, TriggerRetires(l) PROVE OldStopKept'
  BY <1>31 DEF TriggerRetires, SetLeg
<1>32. CASE PositionShrinks BY <1>32 DEF PositionShrinks
<1>33. CASE EmergencyFlatten BY <1>33 DEF EmergencyFlatten, Canceled
<1>34. CASE UNCHANGED vars BY <1>34
<1>. QED
  BY <1>1, <1>2, <1>3, <1>4, <1>5, <1>5b, <1>6, <1>7, <1>8, <1>9, <1>10, <1>11, <1>12,
     <1>13, <1>14, <1>15, <1>16, <1>17, <1>18, <1>19, <1>20, <1>21, <1>22, <1>23,
     <1>24, <1>25, <1>26, <1>27, <1>28, <1>29, <1>30, <1>31, <1>32, <1>33, <1>34 DEF
     Next, Coroutine, Environment

\* Every way for the coroutine to end without an emergency is a good end,
\* and nothing that happens afterwards undoes it.
LEMMA EndsWellStep ==
  ASSUME HandledFaults, Ledger, Cover, [Next]_vars
  PROVE  EndsWell'
<1>. USE DEF Ledger, TypeOK, EntryShape, Cover, EntryKnown, RescueBooks, BracketBuilt,
       MarketWhole, Progress, NewLegs, OldStopKept, EndsWell, HandledFaults
<1>1. CASE StartOrder BY <1>1 DEF StartOrder
<1>2. CASE Prepare BY <1>2 DEF Prepare
<1>3. CASE PrepareFails BY <1>3 DEF PrepareFails
<1>4. CASE Submit BY <1>4 DEF Submit, EntryExecutes, AfterPlacement, Protect
<1>5. CASE SubmitRejected BY <1>5 DEF SubmitRejected
<1>5b. CASE SubmitBreaks BY <1>5b DEF SubmitBreaks, EntryExecutes
<1>6. CASE SubmitTimesOut BY <1>6 DEF SubmitTimesOut, EntryExecutes
<1>7. CASE RecoverFinds BY <1>7 DEF RecoverFinds, AfterPlacement, Protect
<1>8. CASE RecoverMisses BY <1>8 DEF RecoverMisses
<1>9. CASE RecoverTimesOut BY <1>9 DEF RecoverTimesOut
<1>10. CASE RecoverErrors BY <1>10 DEF RecoverErrors
<1>11. CASE Confirm BY <1>11 DEF Confirm, AfterRemainder, Protect
<1>12. CASE CancelRemainder
  BY <1>12 DEF CancelRemainder, Canceled, AfterRemainder, Protect
<1>13. CASE CancelRemainderFails BY <1>13 DEF CancelRemainderFails, Canceled
<1>14. CASE SettleRemainder BY <1>14 DEF SettleRemainder, AfterRemainder, Protect
<1>15. ASSUME NEW l \in Legs, Unbracket(l) PROVE EndsWell'
  BY <1>15 DEF Unbracket, SetLeg
<1>16. ASSUME NEW l \in Legs, UnbracketFails(l) PROVE EndsWell'
  BY <1>16 DEF UnbracketFails, AlgoFails, SetLeg, Abort
<1>17. ASSUME NEW l \in Legs, Place(l) PROVE EndsWell'
  BY <1>17 DEF Place, PlaceLabel, SetLeg
<1>18. ASSUME NEW l \in Legs, PlaceFails(l) PROVE EndsWell'
  BY <1>18 DEF PlaceFails, PlaceLabel, AlgoFails, SetLeg, Abort
<1>19. ASSUME NEW l \in Legs, Cleanup(l) PROVE EndsWell'
  BY <1>19 DEF Cleanup, DropFresh, SetLeg
<1>20. ASSUME NEW l \in Legs, CleanupFails(l) PROVE EndsWell'
  BY <1>20 DEF CleanupFails, AlgoFails, DropFresh, SetLeg
<1>21. CASE Rescue
  BY <1>21 DEF Rescue, RescueExecutes, AfterRescue, RescueComplete, ProtectedQty, Smaller
<1>22. CASE RescueFails BY <1>22 DEF RescueFails, AfterRescue
<1>23. CASE RescueTimesOut
  BY <1>23 DEF RescueTimesOut, RescueExecutes, ProtectedQty, Smaller
<1>24. CASE RecoverRescue
  BY <1>24 DEF RecoverRescue, AfterRescue, RescueComplete, ProtectedQty
<1>25. ASSUME NEW l \in Legs, Restore(l) PROVE EndsWell'
  BY <1>25 DEF Restore, AlgoFails, SetLeg
<1>26. CASE Raise BY <1>26 DEF Raise
<1>27. CASE TaskCancelled BY <1>27 DEF TaskCancelled
<1>28. CASE EntryFills BY <1>28 DEF EntryFills
<1>29. CASE FreezePartialEntry BY <1>29 DEF FreezePartialEntry, Canceled
<1>30. ASSUME NEW l \in Legs, TriggerFires(l) PROVE EndsWell'
  BY <1>30 DEF TriggerFires, SetLeg
<1>31. ASSUME NEW l \in Legs, TriggerRetires(l) PROVE EndsWell'
  BY <1>31 DEF TriggerRetires, SetLeg
<1>32. CASE PositionShrinks BY <1>32 DEF PositionShrinks
<1>33. CASE EmergencyFlatten BY <1>33 DEF EmergencyFlatten, Canceled
<1>34. CASE UNCHANGED vars BY <1>34
<1>. QED
  BY <1>1, <1>2, <1>3, <1>4, <1>5, <1>5b, <1>6, <1>7, <1>8, <1>9, <1>10, <1>11, <1>12,
     <1>13, <1>14, <1>15, <1>16, <1>17, <1>18, <1>19, <1>20, <1>21, <1>22, <1>23,
     <1>24, <1>25, <1>26, <1>27, <1>28, <1>29, <1>30, <1>31, <1>32, <1>33, <1>34 DEF
     Next, Coroutine, Environment

\* Ledger and Cover are inductive together under HandledFaults.
LEMMA CoverInvariant ==
  ASSUME HandledFaults
  PROVE  Spec => [](Ledger /\ Cover)
<1>1. Init => Ledger /\ Cover
  BY LedgerInit, CoverInit
<1>2. Ledger /\ Cover /\ [Next]_vars => (Ledger /\ Cover)'
  <2>. SUFFICES ASSUME Ledger, Cover, [Next]_vars PROVE (Ledger /\ Cover)'
    OBVIOUS
  <2>1. Ledger'
    BY TypeStep, EntryKnownStep, RescueBooksStep, BracketBuiltStep DEF Ledger
  <2>2. Cover'
    BY HandledFaults, MarketWholeStep, ProgressStep, NewLegsStep, OldStopKeptStep, EndsWellStep
    DEF Cover
  <2>. QED
    BY <2>1, <2>2
<1>. QED
  BY <1>1, <1>2, PTL DEF Spec

\* Under HandledFaults no position rests without a stop, unless it escalated.
THEOREM NeverNakedAtRest ==
  ASSUME HandledFaults
  PROVE  Spec => []RestsProtected
<1>1. Cover => RestsProtected
  BY DEF Cover, EndsWell, RestsProtected
<1>. QED
  BY <1>1, CoverInvariant, HandledFaults, PTL

\* Under HandledFaults a reported order cannot fill any more.
THEOREM EndedEntryIsDead ==
  ASSUME HandledFaults
  PROVE  Spec => []ReportedEntryIsDead
<1>1. Cover => ReportedEntryIsDead
  BY DEF Cover, EndsWell, ReportedEntryIsDead
<1>. QED
  BY <1>1, CoverInvariant, HandledFaults, PTL

\* Under HandledFaults a failed order leaves no protective order behind.
THEOREM FailureLeavesNoLegs ==
  ASSUME HandledFaults
  PROVE  Spec => []NoOrphanLegs
<1>1. Cover => NoOrphanLegs
  BY DEF Cover, EndsWell, NoOrphanLegs
<1>. QED
  BY <1>1, CoverInvariant, HandledFaults, PTL

\* The initial states are initial states of the contract.
LEMMA ContractInit == Init => Contract!Init
  BY DEF Init, Contract!Init, Contract!Safe, ContractPhase


\* Every step is a step of the contract, or leaves its variables alone:
\* working steps are Work, the steps that settle are Commit, Undo or
\* Escalate, and what happens at rest is Shrink.
LEMMA ContractStep ==
  ASSUME HandledFaults, Ledger, Cover, Ledger', Cover', [Next]_vars
  PROVE  [Contract!Next]_(Contract!contractVars)
<1>. DEFINE Mapped == [Contract!Next]_(Contract!contractVars)
<1>. USE DEF Ledger, TypeOK, Cover, EndsWell, RescueBooks, ContractPhase,
       Contract!Next, Contract!contractVars, Contract!Safe, Contract!AtRest,
       Contract!Begin, Contract!Work, Contract!Commit, Contract!Undo,
       Contract!Escalate, Contract!Shrink, Contract!Flatten
<1>. SUFFICES Mapped OBVIOUS
<1>1. CASE StartOrder BY <1>1 DEF StartOrder
<1>2. CASE Prepare BY <1>2 DEF Prepare
<1>3. CASE PrepareFails BY <1>3 DEF PrepareFails
<1>4. CASE Submit BY <1>4 DEF Submit, EntryExecutes, AfterPlacement, Protect
<1>5. CASE SubmitRejected BY <1>5 DEF SubmitRejected
<1>5b. CASE SubmitBreaks BY <1>5b DEF SubmitBreaks, EntryExecutes
<1>6. CASE SubmitTimesOut BY <1>6 DEF SubmitTimesOut, EntryExecutes
<1>7. CASE RecoverFinds BY <1>7 DEF RecoverFinds, AfterPlacement, Protect
<1>8. CASE RecoverMisses BY <1>8 DEF RecoverMisses
<1>9. CASE RecoverTimesOut BY <1>9 DEF RecoverTimesOut
<1>10. CASE RecoverErrors BY <1>10 DEF RecoverErrors
<1>11. CASE Confirm BY <1>11 DEF Confirm, AfterRemainder, Protect
<1>12. CASE CancelRemainder
  BY <1>12 DEF CancelRemainder, Canceled, AfterRemainder, Protect
<1>13. CASE CancelRemainderFails BY <1>13 DEF CancelRemainderFails, Canceled
<1>14. CASE SettleRemainder BY <1>14 DEF SettleRemainder, AfterRemainder, Protect
<1>15. ASSUME NEW l \in Legs, Unbracket(l) PROVE Mapped
  BY <1>15 DEF Unbracket, SetLeg
<1>16. ASSUME NEW l \in Legs, UnbracketFails(l) PROVE Mapped
  BY <1>16 DEF UnbracketFails, AlgoFails, SetLeg, Abort
<1>17. ASSUME NEW l \in Legs, Place(l) PROVE Mapped
  BY <1>17 DEF Place, PlaceLabel, SetLeg
<1>18. ASSUME NEW l \in Legs, PlaceFails(l) PROVE Mapped
  BY <1>18 DEF PlaceFails, PlaceLabel, AlgoFails, SetLeg, Abort
<1>19. ASSUME NEW l \in Legs, Cleanup(l) PROVE Mapped
  BY <1>19 DEF Cleanup, DropFresh, SetLeg
<1>20. ASSUME NEW l \in Legs, CleanupFails(l) PROVE Mapped
  BY <1>20 DEF CleanupFails, AlgoFails, DropFresh, SetLeg
<1>21. CASE Rescue
  BY <1>21 DEF Rescue, RescueExecutes, AfterRescue, RescueComplete, ProtectedQty, Smaller
<1>22. CASE RescueFails BY <1>22 DEF RescueFails, AfterRescue
<1>23. CASE RescueTimesOut
  BY <1>23 DEF RescueTimesOut, RescueExecutes, ProtectedQty, Smaller
<1>24. CASE RecoverRescue
  BY <1>24 DEF RecoverRescue, AfterRescue, RescueComplete, ProtectedQty
<1>25. ASSUME NEW l \in Legs, Restore(l) PROVE Mapped
  BY <1>25 DEF Restore, AlgoFails, SetLeg
<1>26. CASE Raise BY <1>26 DEF Raise
<1>27. CASE TaskCancelled BY <1>27 DEF TaskCancelled
<1>28. CASE EntryFills BY <1>28 DEF EntryFills
<1>29. CASE FreezePartialEntry BY <1>29 DEF FreezePartialEntry, Canceled
<1>30. ASSUME NEW l \in Legs, TriggerFires(l) PROVE Mapped
  BY <1>30 DEF TriggerFires, SetLeg
<1>31. ASSUME NEW l \in Legs, TriggerRetires(l) PROVE Mapped
  BY <1>31 DEF TriggerRetires, SetLeg
<1>32. CASE PositionShrinks BY <1>32 DEF PositionShrinks
<1>33. CASE EmergencyFlatten BY <1>33 DEF EmergencyFlatten, Canceled
<1>34. CASE UNCHANGED vars BY <1>34
<1>. HIDE DEF Mapped, Ledger, TypeOK, Cover, EndsWell, RescueBooks, ContractPhase,
       Contract!Next, Contract!contractVars, Contract!Safe, Contract!AtRest,
       Contract!Begin, Contract!Work, Contract!Commit, Contract!Undo,
       Contract!Escalate, Contract!Shrink, Contract!Flatten
<1>. QED
  BY <1>1, <1>2, <1>3, <1>4, <1>5, <1>5b, <1>6, <1>7, <1>8, <1>9, <1>10, <1>11, <1>12,
     <1>13, <1>14, <1>15, <1>16, <1>17, <1>18, <1>19, <1>20, <1>21, <1>22, <1>23,
     <1>24, <1>25, <1>26, <1>27, <1>28, <1>29, <1>30, <1>31, <1>32, <1>33, <1>34 DEF
     Next, Coroutine, Environment

\* Refinement: under HandledFaults execute_with_stop implements EntryContract.
THEOREM EntryImplementsContract ==
  ASSUME HandledFaults
  PROVE  Spec => ImplementsContract
<1>1. Ledger /\ Cover /\ (Ledger /\ Cover)' /\ [Next]_vars
        => [Contract!Next]_(Contract!contractVars)
  BY HandledFaults, ContractStep
<1>. QED
  BY <1>1, ContractInit, CoverInvariant, HandledFaults, PTL
  DEF Spec, ImplementsContract, Contract!Spec
====
