------------------------ MODULE AccountFlatten_proofs ------------------------
(***************************************************************************)
(* Proofs about AccountFlatten: any number of symbols, of coroutines and   *)
(* of contracts, every fault.                                              *)
(***************************************************************************)
EXTENDS AccountFlatten, TLAPS

USE FlattenAssumption

-----------------------------------------------------------------------------
(* Types *)

\* What a reduce-only order of any size makes of a position.
LEMMA Reducing ==
  ASSUME NEW n \in Int, NEW order \in Int, NEW k \in 0..Reducible(n, order)
  PROVE  /\ k \in Nat /\ Toward0(n, k) \in Int
         /\ Size(Toward0(n, k)) <= Size(n)
         /\ Toward0(n, k) = 0 \/ SameSide(Toward0(n, k), n)
         /\ n = 0 => Toward0(n, k) = 0
BY DEF Reducible, Toward0, Size, SameSide

LEMMA SizeIsNat == \A n \in Int : Size(n) \in Nat
BY DEF Size

LEMMA BlankHasType == Blank \in Locals
BY DEF Blank, Locals

\* The updates of the local variables that occur.

LEMMA SymbolUpdates ==
  ASSUME NEW r \in Locals, NEW s \in Symbols
  PROVE  /\ [r EXCEPT !.at = {s}] \in Locals
         /\ [r EXCEPT !.at = {s}, !.todo = @ \ {s}] \in Locals
         /\ [r EXCEPT !.failed = TRUE] \in Locals
<1>1. [r EXCEPT !.at = {s}] \in Locals
  BY DEF Locals
<1>2. [r EXCEPT !.at = {s}, !.todo = @ \ {s}] \in Locals
  BY DEF Locals
<1>3. [r EXCEPT !.failed = TRUE] \in Locals
  BY DEF Locals
<1>. QED
  BY <1>1, <1>2, <1>3

LEMMA SetUpdates ==
  ASSUME NEW r \in Locals, NEW X \in SUBSET Symbols
  PROVE  [r EXCEPT !.todo = X] \in Locals
BY DEF Locals

LEMMA AttemptUpdates ==
  ASSUME NEW r \in Locals, r.attempt < Attempts, NEW X \in SUBSET Symbols
  PROVE  /\ [r EXCEPT !.attempt = @ + 1] \in Locals
         /\ [r EXCEPT !.left = X, !.attempt = @ + 1] \in Locals
<1>1. [r EXCEPT !.attempt = @ + 1] \in Locals
  BY DEF Locals
<1>. DEFINE next == [r EXCEPT !.attempt = @ + 1]
<1>2. [next EXCEPT !.left = X] = [r EXCEPT !.left = X, !.attempt = @ + 1]
  BY DEF Locals
<1>. HIDE DEF next
<1>3. [next EXCEPT !.left = X] \in Locals
  <2>1. next \in Locals
    BY <1>1 DEF next
  <2>. QED
    BY <2>1 DEF Locals
<1>. QED
  BY <1>1, <1>2, <1>3

LEMMA ReadUpdates ==
  ASSUME NEW r \in Locals, NEW X \in SUBSET Symbols,
         NEW R \in SUBSET Reads, NEW f \in [Symbols -> Int]
  PROVE  [r EXCEPT !.have = R, !.held = f, !.listed = X] \in Locals
BY DEF Locals

LEMMA FilledUpdates ==
  ASSUME NEW r \in Locals, NEW k \in Nat
  PROVE  [r EXCEPT !.filled = k] \in Locals
BY DEF Locals

LEMMA NoteUpdates ==
  ASSUME NEW r \in Locals, NEW s \in Symbols, NEW b \in BOOLEAN
  PROVE  [r EXCEPT !.todo = @ \ {s}, !.tried = @ \cup {s}, !.at = {},
                      !.filled = 0, !.attempt = 1,
                      !.failed = IF b THEN @ ELSE TRUE] \in Locals
<1>1. 1 \in 1..Attempts
  OBVIOUS
<1>2. (IF b THEN r.failed ELSE TRUE) \in BOOLEAN
  BY DEF Locals
<1>. HIDE FlattenAssumption
<1>3. [r EXCEPT !.todo = @ \ {s}, !.tried = @ \cup {s}, !.at = {},
                      !.filled = 0, !.attempt = 1] \in Locals
  BY <1>1 DEF Locals
<1>. QED
  BY <1>1, <1>2, <1>3 DEF Locals

LEMMA CallHasType == ASSUME TypeOK, NEW p \in Callers PROVE call[p] \in Locals
BY DEF TypeOK

LEMMA NoteHasType ==
  ASSUME TypeOK, NEW p \in Callers, NEW s \in Symbols, NEW complete \in BOOLEAN,
         Note(p, s, complete)
  PROVE  call' \in [Callers -> Locals]
<1>1. call[p] \in Locals
  BY DEF TypeOK
<1>. DEFINE new == [call[p] EXCEPT !.todo = @ \ {s}, !.tried = @ \cup {s}, !.at = {},
                      !.filled = 0, !.attempt = 1,
                      !.failed = IF complete THEN @ ELSE TRUE]
<1>2. new \in Locals
  BY <1>1, NoteUpdates
<1>3. call' = [call EXCEPT ![p] = new]
  BY DEF Note, TypeOK
<1>. HIDE DEF new
<1>4. QED
  BY <1>2, <1>3 DEF TypeOK

LEMMA LeaveHasType ==
  ASSUME TypeOK, NEW p \in Callers, Leave(p)
  PROVE  pc' \in [Callers -> Labels] /\ call' \in [Callers -> Locals]
BY BlankHasType DEF TypeOK, Leave, To, Labels

LEMMA ExchangeTypes == TypeOK /\ Exchange => TypeOK'
<1>. SUFFICES ASSUME TypeOK, NEW s \in Symbols,
                     Fill(s) \/ StopFires(s) \/ \E p \in Callers : Arrive(p, s)
              PROVE  TypeOK'
  BY DEF Exchange
<1>1. CASE Fill(s)
  BY <1>1 DEF Fill, TypeOK, Toward0, Size
<1>2. CASE StopFires(s)
  BY <1>2 DEF StopFires, TypeOK
<1>3. ASSUME NEW p \in Callers, Arrive(p, s) PROVE TypeOK'
  <2>1. PICK k \in 0..Reducible(position[s], adrift[p][s]) :
          /\ position' = [position EXCEPT ![s] = Toward0(@, k)]
          /\ call' = IF pc[p] = "recover" /\ call[p].at = {s}
                     THEN [call EXCEPT ![p].filled = k] ELSE call
    BY <1>3 DEF Arrive
  <2>2. k \in Nat /\ Toward0(position[s], k) \in Int
    BY Reducing DEF TypeOK
  <2>3. call' \in [Callers -> Locals]
    BY <2>1, <2>2, FilledUpdates DEF TypeOK
  <2>. QED
    BY <1>3, <2>1, <2>2, <2>3 DEF Arrive, TypeOK
<1>. QED
  BY <1>1, <1>2, <1>3

LEMMA CloseTypes ==
  ASSUME TypeOK, NEW p \in Callers, NEW s \in Symbols, Close(p, s)
  PROVE  TypeOK'
<1>. DEFINE most == Reducible(position[s], call[p].held[s])
<1>a. most \in Nat /\ position[s] \in Int /\ call[p].held[s] \in Int
  BY CallHasType DEF TypeOK, Locals, Reducible, Size
<1>b. (IF "closePartial" \in Faults THEN 0 ELSE most)..most \subseteq 0..most
  BY <1>a
<1>1. PICK k \in 0..most :
        /\ position' = [position EXCEPT ![s] = Toward0(@, k)]
        /\ Note(p, s, k >= Size(call[p].held[s]))
  BY <1>b DEF Close
<1>2. Toward0(position[s], k) \in Int
  BY <1>a, Reducing
<1>c. (k >= Size(call[p].held[s])) \in BOOLEAN
  OBVIOUS
<1>3. call' \in [Callers -> Locals]
  BY <1>1, <1>c, NoteHasType
<1>. QED
  BY <1>1, <1>2, <1>3 DEF Close, TypeOK

LEMMA CallerTypes ==
  ASSUME TypeOK, NEW p \in Callers,
         Flatten(p) \/ Unlock(p) \/ ReadFails(p) \/ \E r \in Reads : Read(p, r)
  PROVE  TypeOK'
<1>1. CASE EmergencyStop(p) \/ ClearEmergencyLock(p)
  BY <1>1 DEF EmergencyStop, ClearEmergencyLock, Begin, To, Labels, TypeOK, accountVars
<1>2. ASSUME NEW r \in Reads, Read(p, r) PROVE TypeOK'
  <2>. DEFINE R == call[p].have \cup {r}
              f == IF r = "account" THEN position ELSE call[p].held
              X == call[p].listed \cup Named(r)
              new == [call[p] EXCEPT !.have = R, !.held = f, !.listed = X]
  <2>a. R \in SUBSET Reads /\ f \in [Symbols -> Int]
    BY CallHasType DEF Locals, TypeOK
  <2>b. X \in SUBSET Symbols
    BY <1>2, CallHasType DEF Locals, TypeOK, Reads, Kinds, Exposed, Named
  <2>c. call' = [call EXCEPT ![p] = new]
    BY <1>2 DEF Read, TypeOK
  <2>. HIDE DEF R, f, X
  <2>d. new \in Locals
    BY <2>a, <2>b, CallHasType, ReadUpdates
  <2>. HIDE DEF new
  <2>1. call' \in [Callers -> Locals]
    BY <2>c, <2>d DEF TypeOK
  <2>. QED
    BY <1>2, <2>1 DEF Read, TypeOK, accountVars
<1>3. CASE ReadFails(p)
  BY <1>3, LeaveHasType DEF ReadFails, TypeOK, accountVars
<1>4. CASE Decide(p)
  BY <1>4, LeaveHasType DEF Decide, TypeOK, accountVars
<1>5. CASE BeginCancel(p) \/ BeginClose(p) \/ BeginVerify(p)
  <2>a. /\ call[p].listed \cup Exposed(call[p].held) \in SUBSET Symbols
        /\ Exposed(call[p].held) \in SUBSET Symbols
    BY CallHasType DEF Locals, Exposed
  <2>b. \A X \in SUBSET Symbols : [call[p] EXCEPT !.todo = X] \in Locals
    BY CallHasType, SetUpdates
  <2>1. call' \in [Callers -> Locals]
    BY <1>5, <2>a, <2>b DEF BeginCancel, BeginClose, BeginVerify, TypeOK
  <2>. QED
    BY <1>5, <2>1
    DEF BeginCancel, BeginClose, BeginVerify, To, Labels, TypeOK, accountVars
<1>6. ASSUME NEW s \in Symbols, CancelAll(p, s) PROVE TypeOK'
  <2>1. call' \in [Callers -> Locals]
    <3>1. [call[p] EXCEPT !.at = {s}, !.todo = @ \ {s}] \in Locals
      BY CallHasType, SymbolUpdates
    <3>. QED
      BY <1>6, <3>1 DEF CancelAll, TypeOK
  <2>2. deletes' \in SUBSET (Callers \X Symbols \X Kinds)
    BY <1>6 DEF CancelAll, TypeOK
  <2>. QED
    BY <1>6, <2>1, <2>2 DEF CancelAll, To, Labels, TypeOK
<1>7. ASSUME NEW s \in Symbols, NEW k \in Kinds, Deleted(p, s, k) PROVE TypeOK'
  BY <1>7 DEF Deleted, Apply, To, Labels, TypeOK
<1>8. ASSUME NEW s \in Symbols, NEW k \in Kinds, DeleteFails(p, s, k) PROVE TypeOK'
  <2>1. call' \in [Callers -> Locals]
    <3>1. [call[p] EXCEPT !.failed = TRUE] \in Locals
      BY CallHasType, SymbolUpdates
    <3>. QED
      BY <1>8, <3>1 DEF DeleteFails, TypeOK
  <2>. QED
    BY <1>8, <2>1 DEF DeleteFails, Apply, To, Labels, TypeOK
<1>9. ASSUME NEW s \in Symbols, CloseRefused(p, s) PROVE TypeOK'
  BY <1>9, NoteHasType DEF CloseRefused, TypeOK, accountVars
<1>10. ASSUME NEW s \in Symbols, CloseTimesOut(p, s) PROVE TypeOK'
  <2>a. [call[p] EXCEPT !.at = {s}] \in Locals
    BY CallHasType, SymbolUpdates
  <2>b. call[p].held[s] \in Int
    BY CallHasType DEF Locals
  <2>1. call' \in [Callers -> Locals] /\ call[p].held[s] \in Int
    BY <1>10, <2>a, <2>b DEF CloseTimesOut, TypeOK
  <2>. QED
    BY <1>10, <2>1 DEF CloseTimesOut, To, Labels, TypeOK
<1>11. ASSUME NEW s \in Symbols, RecoverFinds(p, s) PROVE TypeOK'
  <2>1. (call[p].filled >= Size(call[p].held[s])) \in BOOLEAN
    OBVIOUS
  <2>2. call' \in [Callers -> Locals]
    BY <1>11, <2>1, NoteHasType DEF RecoverFinds
  <2>. QED
    BY <1>11, <2>2 DEF RecoverFinds, To, Labels, TypeOK, accountVars
<1>12. ASSUME NEW s \in Symbols, RecoverMisses(p, s) PROVE TypeOK'
  <2>1. CASE call[p].attempt < Attempts
    <3>0. [call[p] EXCEPT !.attempt = @ + 1] \in Locals
      BY <2>1, CallHasType, AttemptUpdates
    <3>1. call' \in [Callers -> Locals]
      BY <1>12, <2>1, <3>0 DEF RecoverMisses, TypeOK
    <3>. QED
      BY <1>12, <2>1, <3>1 DEF RecoverMisses, TypeOK, accountVars
  <2>2. CASE ~(call[p].attempt < Attempts)
    BY <1>12, <2>2, NoteHasType DEF RecoverMisses, To, Labels, TypeOK, accountVars
  <2>. QED
    BY <2>1, <2>2
<1>13. ASSUME NEW s \in Symbols, RecoverFails(p, s) PROVE TypeOK'
  BY <1>13, NoteHasType DEF RecoverFails, To, Labels, TypeOK, accountVars
<1>14. ASSUME NEW open \in SUBSET Symbols, Conclude(p, open),
              UNCHANGED <<accountVars, locked>>
       PROVE  TypeOK'
  <2>1. CASE open # {} /\ call[p].attempt < Attempts
    <3>0. [call[p] EXCEPT !.left = open, !.attempt = @ + 1] \in Locals
      BY <2>1, CallHasType, AttemptUpdates
    <3>1. call' \in [Callers -> Locals]
      BY <1>14, <2>1, <3>0 DEF Conclude, TypeOK
    <3>. QED
      BY <1>14, <2>1, <3>1 DEF Conclude, TypeOK, accountVars
  <2>2. CASE ~(open # {} /\ call[p].attempt < Attempts)
    BY <1>14, <2>2, LeaveHasType DEF Conclude, TypeOK, accountVars
  <2>. QED
    BY <2>1, <2>2
<1>15. CASE Verify(p)
  BY <1>15, <1>14 DEF Verify, Exposed
<1>16. CASE VerifyFails(p)
  <2>1. call[p].left \in SUBSET Symbols
    BY DEF TypeOK, Locals
  <2>. QED
    BY <1>16, <1>14, <2>1 DEF VerifyFails
<1>. QED
  BY <1>1, <1>2, <1>3, <1>4, <1>5, <1>6, <1>7, <1>8, <1>9, <1>10, <1>11, <1>12,
     <1>13, <1>15, <1>16, CloseTypes DEF Flatten, Unlock

LEMMA InitTypes == Init => TypeOK
<1>. SUFFICES ASSUME Init PROVE TypeOK
  OBVIOUS
<1>1. position \in [Symbols -> Int] /\ resting \in [Symbols -> Int]
  BY DEF Init
<1>. QED
  BY <1>1, BlankHasType DEF Init, TypeOK, Labels

LEMMA NextTypes == TypeOK /\ [Next]_vars => TypeOK'
<1>1. ASSUME TypeOK, UNCHANGED vars PROVE TypeOK'
  BY <1>1 DEF TypeOK, vars, accountVars
<1>. QED
  BY <1>1, ExchangeTypes, CallerTypes DEF Next

\* Every variable keeps its type, for all symbols, callers and faults.
THEOREM FlattenTypes == Spec => []TypeOK
BY InitTypes, NextTypes, PTL DEF Spec

-----------------------------------------------------------------------------
(* What no step does to the account *)

\* No order appears, and a position without an opening order to feed it
\* neither grows nor turns.
Calmer ==
  /\ \A s \in Symbols : resting[s] = 0 => resting'[s] = 0
  /\ stops' \subseteq stops
  /\ \A s \in Symbols :
       resting'[s] = resting[s] =>
         /\ Size(position'[s]) <= Size(position[s])
         /\ position'[s] = 0 \/ SameSide(position'[s], position[s])
         /\ position[s] = 0 => position'[s] = 0

\* A position that is left alone.
LEMMA Same ==
  ASSUME NEW n \in Int
  PROVE  Size(n) <= Size(n) /\ (n = 0 \/ SameSide(n, n))
BY DEF Size, SameSide

LEMMA StandsStill ==
  ASSUME TypeOK, UNCHANGED position,
         \A s \in Symbols : resting[s] = 0 => resting'[s] = 0,
         stops' \subseteq stops
  PROVE  Calmer
BY Same DEF TypeOK, Calmer

LEMMA Reduces ==
  ASSUME TypeOK, NEW s \in Symbols, NEW order \in Int,
         NEW k \in 0..Reducible(position[s], order),
         position' = [position EXCEPT ![s] = Toward0(@, k)],
         UNCHANGED <<resting, stops>>
  PROVE  Calmer
<1>1. /\ Size(position'[s]) <= Size(position[s])
      /\ position'[s] = 0 \/ SameSide(position'[s], position[s])
      /\ position[s] = 0 => position'[s] = 0
  BY Reducing DEF TypeOK
<1>2. \A t \in Symbols \ {s} : position'[t] = position[t] /\ position[t] \in Int
  BY DEF TypeOK
<1>3. ASSUME NEW t \in Symbols
      PROVE  /\ Size(position'[t]) <= Size(position[t])
             /\ position'[t] = 0 \/ SameSide(position'[t], position[t])
             /\ position[t] = 0 => position'[t] = 0
  BY <1>1, <1>2, Same
<1>. QED
  BY <1>3 DEF Calmer

LEMMA ExchangeCalms == TypeOK /\ Exchange => Calmer
<1>. SUFFICES ASSUME TypeOK, NEW s \in Symbols,
                     Fill(s) \/ StopFires(s) \/ \E p \in Callers : Arrive(p, s)
              PROVE  Calmer
  BY DEF Exchange
<1>1. CASE Fill(s)
  <2>1. PICK k \in 1..Size(resting[s]) :
          /\ resting' = [resting EXCEPT ![s] = Toward0(resting[s], k)]
          /\ position' = [position EXCEPT ![s] = @ + resting[s] - Toward0(resting[s], k)]
    BY <1>1 DEF Fill
  <2>2. resting[s] # 0 /\ resting'[s] # resting[s] /\ stops' = stops
    BY <1>1, <2>1 DEF Fill, Toward0, Size, TypeOK
  <2>3. ASSUME NEW t \in Symbols, t # s
        PROVE  /\ resting'[t] = resting[t]
               /\ Size(position'[t]) <= Size(position[t])
               /\ position'[t] = 0 \/ SameSide(position'[t], position[t])
               /\ position[t] = 0 => position'[t] = 0
    <3>1. resting'[t] = resting[t] /\ position'[t] = position[t] /\ position[t] \in Int
      BY <2>1, <2>3 DEF TypeOK
    <3>. QED
      BY <3>1, Same
  <2>. QED
    BY <2>2, <2>3 DEF Calmer
<1>2. CASE StopFires(s)
  <2>1. /\ resting' = resting /\ stops' \subseteq stops
        /\ position' = [position EXCEPT ![s] = 0]
    BY <1>2 DEF StopFires
  <2>2. ASSUME NEW t \in Symbols
        PROVE  /\ Size(position'[t]) <= Size(position[t])
               /\ position'[t] = 0 \/ SameSide(position'[t], position[t])
               /\ position[t] = 0 => position'[t] = 0
    <3>1. CASE t = s
      BY <2>1, <3>1 DEF TypeOK, Size
    <3>2. CASE t # s
      <4>1. position'[t] = position[t] /\ position[t] \in Int
        BY <2>1, <3>2 DEF TypeOK
      <4>. QED
        BY <4>1, Same
    <3>. QED
      BY <3>1, <3>2
  <2>. QED
    BY <2>1, <2>2 DEF Calmer
<1>3. ASSUME NEW p \in Callers, Arrive(p, s) PROVE Calmer
  <2>1. adrift[p][s] \in Int
    BY DEF TypeOK
  <2>. QED
    BY <1>3, <2>1, Reduces DEF Arrive
<1>. QED
  BY <1>1, <1>2, <1>3

LEMMA CallerCalms ==
  ASSUME TypeOK, NEW p \in Callers,
         Flatten(p) \/ Unlock(p) \/ ReadFails(p) \/ \E r \in Reads : Read(p, r)
  PROVE  Calmer
<1>1. CASE UNCHANGED accountVars
  BY <1>1, StandsStill DEF accountVars
<1>2. ASSUME NEW s \in Symbols, CancelAll(p, s) PROVE Calmer
  BY <1>2, StandsStill DEF CancelAll
<1>3. ASSUME NEW s \in Symbols, NEW k \in Kinds, Deleted(p, s, k) \/ DeleteFails(p, s, k)
      PROVE  Calmer
  BY <1>3, StandsStill DEF Deleted, DeleteFails, Apply, TypeOK
<1>4. ASSUME NEW s \in Symbols, Close(p, s) PROVE Calmer
  <2>. DEFINE most == Reducible(position[s], call[p].held[s])
  <2>1. most \in Nat /\ call[p].held[s] \in Int
    BY CallHasType DEF TypeOK, Locals, Reducible, Size
  <2>2. (IF "closePartial" \in Faults THEN 0 ELSE most)..most \subseteq 0..most
    BY <2>1
  <2>3. PICK k \in 0..most : position' = [position EXCEPT ![s] = Toward0(@, k)]
    BY <1>4, <2>2 DEF Close
  <2>. QED
    BY <1>4, <2>1, <2>3, Reduces DEF Close
<1>5. ASSUME NEW s \in Symbols, CloseTimesOut(p, s) PROVE Calmer
  BY <1>5, StandsStill DEF CloseTimesOut
<1>. QED
  BY <1>1, <1>2, <1>3, <1>4, <1>5
  DEF Flatten, Unlock, EmergencyStop, ClearEmergencyLock, Begin, Read, ReadFails,
      Decide, BeginCancel, BeginClose, BeginVerify, CloseRefused, RecoverFinds,
      RecoverMisses, RecoverFails, Verify, VerifyFails

LEMMA NextCalms == TypeOK /\ [Next]_vars => Calmer
<1>1. ASSUME TypeOK, UNCHANGED vars PROVE Calmer
  BY <1>1, StandsStill DEF vars, accountVars
<1>. QED
  BY <1>1, ExchangeCalms, CallerCalms DEF Next

\* No close order of an emergency turns or enlarges a position, however stale
\* the read it is sized on and however late it arrives.
THEOREM ClosesShrink == Spec => ClosesOnlyShrink
<1>1. TypeOK /\ [Next]_vars =>
        [\A s \in Symbols :
           resting'[s] = resting[s] =>
             /\ Size(position'[s]) <= Size(position[s])
             /\ position'[s] = 0 \/ SameSide(position'[s], position[s])]_vars
  BY NextCalms DEF Calmer
<1>. QED
  BY <1>1, FlattenTypes, PTL DEF Spec, ClosesOnlyShrink

-----------------------------------------------------------------------------
(* A flatten that ends well *)

\* An order that is still at the exchange is known to a flatten that has not
\* noted a failure: it was read, its symbol waits for cancel_all, or its own
\* DELETE is under way.
Covered(p) ==
  /\ pc[p] = "idle" => call[p] = Blank
  /\ pc[p] \in {"read", "check"} =>
       /\ "orders" \in call[p].have => \A s \in Symbols : resting[s] # 0 => s \in call[p].listed
       /\ "algo" \in call[p].have => stops \subseteq call[p].listed
  /\ pc[p] = "cancel" /\ ~call[p].failed =>
       \A s \in Symbols : resting[s] # 0 \/ s \in stops => s \in call[p].todo
  /\ pc[p] = "delete" /\ ~call[p].failed =>
       \A s \in Symbols :
         /\ resting[s] # 0 =>
              s \in call[p].todo \/ (call[p].at = {s} /\ <<p, s, "orders">> \in deletes)
         /\ s \in stops =>
              s \in call[p].todo \/ (call[p].at = {s} /\ <<p, s, "algo">> \in deletes)
  /\ pc[p] \in {"close", "recover", "verify"} /\ ~call[p].failed =>
       \A s \in Symbols : resting[s] = 0 /\ s \notin stops
  /\ call[p].left # {}
  /\ verdict[p] = "flat" => Clean

Books == TypeOK /\ \A p \in Callers : Covered(p)

\* An account without position and order stays so.
LEMMA CleanStays == TypeOK /\ Calmer /\ Clean => Clean'
BY DEF TypeOK, Calmer, Clean, Exposed

\* Whoever is not acting keeps its books.
LEMMA OthersKeep ==
  ASSUME Books, Calmer, NEW q \in Callers,
         pc'[q] = pc[q], verdict'[q] = verdict[q],
         call'[q] = call[q],
         \A s \in Symbols, k \in Kinds : <<q, s, k>> \in deletes => <<q, s, k>> \in deletes'
  PROVE  Covered(q)'
BY CleanStays DEF Books, Calmer, Covered, Kinds, TypeOK

\* What a step of one caller leaves alone.
LEMMA CallerFrame ==
  ASSUME TypeOK, NEW p \in Callers, NEW q \in Callers \ {p},
         Flatten(p) \/ Unlock(p) \/ ReadFails(p) \/ \E r \in Reads : Read(p, r)
  PROVE  /\ pc'[q] = pc[q] /\ verdict'[q] = verdict[q] /\ call'[q] = call[q]
         /\ \A s \in Symbols, k \in Kinds : <<q, s, k>> \in deletes => <<q, s, k>> \in deletes'
<1>. USE DEF TypeOK, To, Leave, Note, accountVars
<1>1. CASE EmergencyStop(p) \/ ClearEmergencyLock(p) \/ ReadFails(p) \/ Decide(p)
  BY <1>1 DEF EmergencyStop, ClearEmergencyLock, Begin, ReadFails, Decide
<1>2. CASE \E r \in Reads : Read(p, r)
  BY <1>2 DEF Read
<1>3. CASE BeginCancel(p) \/ BeginClose(p) \/ BeginVerify(p)
  BY <1>3 DEF BeginCancel, BeginClose, BeginVerify
<1>4. CASE \E s \in Symbols : CancelAll(p, s)
  BY <1>4 DEF CancelAll
<1>5. CASE \E s \in Symbols, k \in Kinds : Deleted(p, s, k) \/ DeleteFails(p, s, k)
  BY <1>5 DEF Deleted, DeleteFails
<1>6. CASE \E s \in Symbols : Close(p, s) \/ CloseRefused(p, s) \/ CloseTimesOut(p, s)
  <2>1. CASE \E s \in Symbols : Close(p, s)
    BY <2>1 DEF Close
  <2>2. CASE \E s \in Symbols : CloseRefused(p, s) \/ CloseTimesOut(p, s)
    BY <2>2 DEF CloseRefused, CloseTimesOut
  <2>. QED
    BY <1>6, <2>1, <2>2
<1>7. CASE \E s \in Symbols : RecoverFinds(p, s) \/ RecoverMisses(p, s) \/ RecoverFails(p, s)
  BY <1>7 DEF RecoverFinds, RecoverMisses, RecoverFails
<1>8. CASE Verify(p) \/ VerifyFails(p)
  BY <1>8 DEF Verify, VerifyFails, Conclude
<1>. QED
  BY <1>1, <1>2, <1>3, <1>4, <1>5, <1>6, <1>7, <1>8 DEF Flatten, Unlock

LEMMA ExchangeKeepsBooks ==
  ASSUME Books, Exchange, NEW q \in Callers PROVE Covered(q)'
<1>1. Calmer
  BY ExchangeCalms DEF Books
<1>2. PICK s \in Symbols : Fill(s) \/ StopFires(s) \/ \E p \in Callers : Arrive(p, s)
  BY DEF Exchange
<1>3. CASE Fill(s) \/ StopFires(s)
  BY <1>1, <1>3, OthersKeep DEF Fill, StopFires
<1>4. ASSUME NEW p \in Callers, Arrive(p, s) PROVE Covered(q)'
  <2>1. UNCHANGED <<resting, stops, deletes, pc, verdict>>
    BY <1>4 DEF Arrive
  <2>2. CASE call'[q] = call[q]
    BY <1>1, <2>1, <2>2, OthersKeep
  <2>3. CASE call'[q] # call[q]
    <3>1. PICK k : call' = IF pc[p] = "recover" /\ call[p].at = {s}
                           THEN [call EXCEPT ![p].filled = k] ELSE call
      BY <1>4 DEF Arrive
    <3>2. q = p /\ pc[q] = "recover"
      BY <2>3, <3>1 DEF Books, TypeOK
    <3>3. call'[q].failed = call[q].failed /\ call'[q].left = call[q].left
      BY <2>3, <3>1, <3>2 DEF Books, TypeOK, Locals
    <3>. QED
      BY <1>1, <2>1, <3>2, <3>3, CleanStays DEF Books, Covered, TypeOK
  <2>. QED
    BY <2>2, <2>3
<1>. QED
  BY <1>2, <1>3, <1>4

LEMMA BlankIsCovered ==
  ASSUME NEW p \in Callers, pc[p] = "idle", call[p] = Blank,
         verdict[p] = "flat" => Clean
  PROVE  Covered(p)
BY DEF Covered, Blank

LEMMA LeaveIsCovered ==
  ASSUME Books, NEW p \in Callers, Leave(p), verdict'[p] = "flat" => Clean'
  PROVE  Covered(p)'
<1>1. pc'[p] = "idle" /\ call'[p] = Blank
  BY DEF Books, TypeOK, Leave, To
<1>. QED
  BY <1>1 DEF Covered, Blank

LEMMA CallerKeepsBooks ==
  ASSUME Books, NEW p \in Callers,
         Flatten(p) \/ Unlock(p) \/ ReadFails(p) \/ \E r \in Reads : Read(p, r)
  PROVE  Covered(p)'
<1>. USE DEF Books
<1>0. Calmer /\ (Clean => Clean') /\ Covered(p) /\ TypeOK /\ call[p] \in Locals
  BY CallerCalms, CleanStays, CallHasType
<1>1. CASE EmergencyStop(p) \/ ClearEmergencyLock(p)
  BY <1>0, <1>1
  DEF EmergencyStop, ClearEmergencyLock, Begin, To, Covered, Blank, TypeOK, accountVars
<1>2. ASSUME NEW r \in Reads, Read(p, r) PROVE Covered(p)'
  <2>1. /\ call'[p].have = call[p].have \cup {r}
        /\ call'[p].listed = call[p].listed \cup Named(r)
        /\ call'[p].left = call[p].left
        /\ pc[p] \in {"read", "check"}
        /\ UNCHANGED <<accountVars, pc, verdict>>
    BY <1>0, <1>2 DEF Read, TypeOK, Locals
  <2>2. r = "orders" => Named(r) = Exposed(resting)
    BY DEF Named
  <2>3. r = "algo" => Named(r) = stops
    BY DEF Named
  <2>. QED
    BY <1>0, <2>1, <2>2, <2>3 DEF Covered, accountVars, Clean, Exposed
<1>3. CASE ReadFails(p)
  <2>1. verdict'[p] = "flat" => Clean'
    BY <1>0, <1>3 DEF ReadFails, TypeOK, Covered
  <2>. QED
    BY <1>3, <2>1, LeaveIsCovered DEF ReadFails
<1>4. CASE Decide(p)
  <2>1. verdict'[p] = "flat" => Clean'
    BY <1>0, <1>4 DEF Decide, TypeOK, Covered
  <2>. QED
    BY <1>4, <2>1, LeaveIsCovered DEF Decide
<1>5. CASE BeginCancel(p)
  <2>1. /\ call'[p].todo = call[p].listed \cup Exposed(call[p].held)
        /\ call'[p].left = call[p].left
        /\ pc'[p] = "cancel" /\ pc[p] = "read" /\ call[p].have = Reads
        /\ UNCHANGED <<accountVars, verdict>>
    BY <1>0, <1>5 DEF BeginCancel, To, TypeOK, Locals
  <2>2. \A s \in Symbols : resting[s] # 0 \/ s \in stops => s \in call[p].listed
    BY <1>0, <2>1 DEF Covered, Reads, Kinds
  <2>. QED
    BY <1>0, <2>1, <2>2 DEF Covered, accountVars, Clean, Exposed
<1>6. ASSUME NEW s \in Symbols, CancelAll(p, s) PROVE Covered(p)'
  <2>1. /\ call'[p].todo = call[p].todo \ {s}
        /\ call'[p].at = {s}
        /\ call'[p].left = call[p].left /\ call'[p].failed = call[p].failed
        /\ pc'[p] = "delete" /\ pc[p] = "cancel"
        /\ UNCHANGED <<position, resting, stops, verdict>>
        /\ <<p, s, "orders">> \in deletes' /\ <<p, s, "algo">> \in deletes'
    BY <1>0, <1>6 DEF CancelAll, To, TypeOK, Locals, Kinds
  <2>. QED
    BY <1>0, <2>1 DEF Covered, Clean, Exposed
<1>7. ASSUME NEW s \in Symbols, NEW k \in Kinds, Deleted(p, s, k) PROVE Covered(p)'
  <2>1. /\ UNCHANGED <<position, call, verdict>>
        /\ deletes' = deletes \ {<<p, s, k>>}
        /\ resting'[s] = IF k = "orders" THEN 0 ELSE resting[s]
        /\ s \in stops' <=> s \in stops /\ k # "algo"
        /\ \A t \in Symbols \ {s} : resting'[t] = resting[t] /\ (t \in stops' <=> t \in stops)
    BY <1>0, <1>7 DEF Deleted, Apply, TypeOK
  <2>2. CASE pc' = pc
    <3>. QED
      BY <1>0, <2>1, <2>2 DEF Covered, Kinds, Calmer
  <2>3. CASE pc' # pc
    <3>1. /\ pc[p] = "delete" /\ call[p].at = {s} /\ pc'[p] = "cancel"
          /\ <<p, s, "orders">> \notin deletes' /\ <<p, s, "algo">> \notin deletes'
      BY <1>0, <1>7, <2>3 DEF Deleted, Awaits, To, TypeOK, Kinds
    <3>2. ASSUME NEW t \in Symbols, ~call[p].failed, resting'[t] # 0 \/ t \in stops'
          PROVE  t \in call[p].todo
      BY <1>0, <2>1, <3>1, <3>2 DEF Covered, Kinds
    <3>. QED
      BY <1>0, <2>1, <3>1, <3>2 DEF Covered
  <2>. QED
    BY <2>2, <2>3
<1>8. ASSUME NEW s \in Symbols, NEW k \in Kinds, DeleteFails(p, s, k) PROVE Covered(p)'
  <2>1. CASE Awaits(p, s)
    <3>1. /\ pc'[p] = "cancel" /\ call'[p].failed = TRUE
          /\ call'[p].left = call[p].left /\ verdict' = verdict
      BY <1>0, <1>8, <2>1 DEF DeleteFails, To, TypeOK, Locals
    <3>. QED
      BY <1>0, <3>1 DEF Covered
  <2>2. CASE ~Awaits(p, s)
    <3>1. /\ UNCHANGED <<position, pc, call, verdict>>
          /\ deletes' = deletes \ {<<p, s, k>>}
      BY <1>8, <2>2 DEF DeleteFails
    <3>. QED
      BY <1>0, <2>2, <3>1 DEF Covered, Awaits, Calmer
  <2>. QED
    BY <2>1, <2>2
<1>9. CASE BeginClose(p)
  <2>1. /\ call'[p].failed = call[p].failed /\ call'[p].left = call[p].left
        /\ pc'[p] = "close" /\ pc[p] = "cancel" /\ call[p].todo = {}
        /\ UNCHANGED <<accountVars, verdict>>
    BY <1>0, <1>9 DEF BeginClose, To, TypeOK, Locals
  <2>. QED
    BY <1>0, <2>1 DEF Covered, accountVars, Clean, Exposed
<1>10. ASSUME NEW s \in Symbols, NEW complete, Note(p, s, complete),
              pc[p] \in {"close", "recover"}, pc'[p] \in {"close", "recover"},
              UNCHANGED <<resting, stops, verdict>>
       PROVE  Covered(p)'
  <2>1. /\ call[p].failed => call'[p].failed
        /\ call'[p].left = call[p].left
    BY <1>0, <1>10 DEF Note, TypeOK, Locals
  <2>. QED
    BY <1>0, <1>10, <2>1 DEF Covered
<1>11. ASSUME NEW s \in Symbols, Close(p, s) \/ CloseRefused(p, s) PROVE Covered(p)'
  <2>1. PICK complete : Note(p, s, complete)
    BY <1>11 DEF Close, CloseRefused
  <2>. QED
    BY <1>10, <1>11, <2>1 DEF Close, CloseRefused, CloseNext, accountVars
<1>12. ASSUME NEW s \in Symbols, CloseTimesOut(p, s) PROVE Covered(p)'
  <2>1. /\ call'[p].failed = call[p].failed /\ call'[p].left = call[p].left
        /\ pc'[p] = "recover" /\ pc[p] = "close"
        /\ UNCHANGED <<position, resting, stops, deletes, verdict>>
    BY <1>0, <1>12 DEF CloseTimesOut, CloseNext, To, TypeOK, Locals
  <2>. QED
    BY <1>0, <2>1 DEF Covered, Clean, Exposed
<1>13. ASSUME NEW s \in Symbols, RecoverFinds(p, s) \/ RecoverFails(p, s) PROVE Covered(p)'
  <2>1. PICK complete : Note(p, s, complete)
    BY <1>13 DEF RecoverFinds, RecoverFails
  <2>2. pc[p] = "recover" /\ pc'[p] = "close" /\ UNCHANGED <<resting, stops, verdict>>
    BY <1>0, <1>13 DEF RecoverFinds, RecoverFails, Recovers, To, TypeOK, accountVars
  <2>. QED
    BY <1>10, <2>1, <2>2
<1>14. ASSUME NEW s \in Symbols, RecoverMisses(p, s) PROVE Covered(p)'
  <2>1. pc[p] = "recover" /\ pc'[p] \in {"close", "recover"}
        /\ UNCHANGED <<accountVars, verdict>>
    BY <1>0, <1>14 DEF RecoverMisses, Recovers, To, TypeOK
  <2>2. CASE call[p].attempt < Attempts
    <3>1. call'[p].failed = call[p].failed /\ call'[p].left = call[p].left
      BY <1>0, <1>14, <2>2 DEF RecoverMisses, TypeOK, Locals
    <3>2. pc'[p] = "recover"
      BY <1>14, <2>2, <2>1 DEF RecoverMisses
    <3>. QED
      BY <1>0, <2>1, <3>1, <3>2 DEF Covered, accountVars, Clean, Exposed
  <2>3. CASE ~(call[p].attempt < Attempts)
    BY <1>10, <1>14, <2>1, <2>3 DEF RecoverMisses, accountVars
  <2>. QED
    BY <2>2, <2>3
<1>15. CASE BeginVerify(p)
  <2>1. call' = call /\ pc'[p] = "verify" /\ pc[p] = "close" /\ UNCHANGED <<accountVars, verdict>>
    BY <1>0, <1>15 DEF BeginVerify, To, TypeOK
  <2>. QED
    BY <1>0, <2>1 DEF Covered, accountVars, Clean, Exposed
<1>16. ASSUME NEW open \in SUBSET Symbols, Conclude(p, open), pc[p] = "verify",
              UNCHANGED <<accountVars, locked>>,
              open = {} => Exposed(position) = {}
       PROVE  Covered(p)'
  <2>1. CASE open # {} /\ call[p].attempt < Attempts
    <3>1. /\ call'[p].failed = call[p].failed /\ call'[p].left = open
          /\ UNCHANGED <<pc, verdict>>
      BY <1>0, <1>16, <2>1 DEF Conclude, TypeOK, Locals
    <3>. QED
      BY <1>0, <1>16, <2>1, <3>1 DEF Covered, accountVars, Clean, Exposed
  <2>2. CASE ~(open # {} /\ call[p].attempt < Attempts)
    <3>1. /\ Leave(p)
          /\ verdict'[p] = IF call[p].failed \/ open # {} THEN "raised" ELSE "flat"
      BY <1>0, <1>16, <2>2 DEF Conclude, TypeOK
    <3>2. ASSUME verdict'[p] = "flat" PROVE Clean'
      <4>1. ~call[p].failed /\ Exposed(position) = {}
        BY <1>16, <3>1, <3>2
      <4>2. \A s \in Symbols : resting[s] = 0 /\ s \notin stops
        BY <1>0, <1>16, <4>1 DEF Covered
      <4>3. Clean
        BY <1>0, <4>1, <4>2 DEF Clean, Exposed, TypeOK
      <4>. QED
        BY <1>0, <4>3
    <3>. QED
      BY <3>1, <3>2, LeaveIsCovered
  <2>. QED
    BY <2>1, <2>2
<1>17. CASE Verify(p)
  BY <1>16, <1>17 DEF Verify, Exposed
<1>18. CASE VerifyFails(p)
  <2>1. call[p].left \in SUBSET Symbols /\ call[p].left # {}
    BY <1>0 DEF Covered, Locals
  <2>. QED
    BY <1>16, <1>18, <2>1 DEF VerifyFails
<1>. QED
  BY <1>1, <1>2, <1>3, <1>4, <1>5, <1>6, <1>7, <1>8, <1>9, <1>11, <1>12, <1>13,
     <1>14, <1>15, <1>17, <1>18 DEF Flatten, Unlock

LEMMA InitBooks == Init => Books
<1>. SUFFICES ASSUME Init, NEW p \in Callers PROVE Covered(p)
  BY InitTypes DEF Books
<1>. QED
  BY BlankIsCovered DEF Init

LEMMA NextBooks == Books /\ [Next]_vars => Books'
<1>. SUFFICES ASSUME Books, [Next]_vars PROVE Books'
  OBVIOUS
<1>1. TypeOK' /\ Calmer
  BY NextTypes, NextCalms DEF Books
<1>2. ASSUME NEW q \in Callers, UNCHANGED vars PROVE Covered(q)'
  BY <1>1, <1>2, OthersKeep DEF vars, accountVars
<1>3. ASSUME NEW q \in Callers, NEW p \in Callers,
             Flatten(p) \/ Unlock(p) \/ ReadFails(p) \/ \E r \in Reads : Read(p, r)
      PROVE  Covered(q)'
  <2>1. CASE q = p
    BY <1>3, <2>1, CallerKeepsBooks
  <2>2. CASE q # p
    BY <1>1, <1>3, <2>2, CallerFrame, OthersKeep DEF Books
  <2>. QED
    BY <2>1, <2>2
<1>. QED
  BY <1>1, <1>2, <1>3, ExchangeKeepsBooks DEF Books, Next

\* emergency_flatten returns without an error only over an account that is flat
\* and has no order, and the account stays so: for all symbols, positions,
\* concurrent callers and faults, a lost close order included.
THEOREM FlatMeansFlat == Spec => []FlatIsFlat
<1>1. Books => FlatIsFlat
  BY DEF Books, Covered, FlatIsFlat
<1>. QED
  BY <1>1, InitBooks, NextBooks, PTL DEF Spec

-----------------------------------------------------------------------------
(* No position is passed over *)

Tries(p) ==
  /\ pc[p] \in {"close", "recover"} =>
       Exposed(call[p].held) \subseteq call[p].todo \cup call[p].tried
  /\ pc[p] = "verify" => Exposed(call[p].held) \subseteq call[p].tried

Diligent == TypeOK /\ \A p \in Callers : Tries(p)

LEMMA ExchangeKeepsTries ==
  ASSUME Diligent, Exchange, NEW q \in Callers
  PROVE  Tries(q)' /\ verdict'[q] = verdict[q]
<1>1. PICK s \in Symbols : Fill(s) \/ StopFires(s) \/ \E p \in Callers : Arrive(p, s)
  BY DEF Exchange
<1>2. CASE Fill(s) \/ StopFires(s)
  BY <1>2 DEF Fill, StopFires, Tries, Diligent, Exposed
<1>3. ASSUME NEW p \in Callers, Arrive(p, s) PROVE Tries(q)' /\ verdict'[q] = verdict[q]
  <2>1. PICK k : call' = IF pc[p] = "recover" /\ call[p].at = {s}
                         THEN [call EXCEPT ![p].filled = k] ELSE call
    BY <1>3 DEF Arrive
  <2>2. UNCHANGED <<pc, verdict>>
    BY <1>3 DEF Arrive
  <2>3. /\ call'[q].held = call[q].held
        /\ call'[q].todo = call[q].todo /\ call'[q].tried = call[q].tried
    BY <2>1 DEF Diligent, TypeOK, Locals
  <2>. QED
    BY <2>2, <2>3 DEF Diligent, Tries, Exposed
<1>. QED
  BY <1>1, <1>2, <1>3

\* How one step of a caller ends: with its tries in order, and with a verdict
\* only after all of them or without the reads.
LEMMA CallerTries ==
  ASSUME Diligent, NEW p \in Callers,
         Flatten(p) \/ Unlock(p) \/ ReadFails(p) \/ \E r \in Reads : Read(p, r)
  PROVE  /\ Tries(p)'
         /\ verdict'[p] # verdict[p] /\ verdict'[p] # "none" /\ call[p].have = Reads =>
              Exposed(call[p].held) \subseteq call[p].tried
<1>. DEFINE Goal == /\ Tries(p)'
                    /\ verdict'[p] # verdict[p] /\ verdict'[p] # "none" /\ call[p].have = Reads =>
                         Exposed(call[p].held) \subseteq call[p].tried
<1>0. TypeOK /\ Tries(p) /\ call[p] \in Locals
  BY CallHasType DEF Diligent
<1>1. ASSUME pc'[p] \notin {"close", "recover", "verify"}, verdict'[p] \in {verdict[p], "none"}
      PROVE  Goal
  BY <1>1 DEF Tries
<1>2. CASE EmergencyStop(p) \/ ClearEmergencyLock(p) \/ Decide(p) \/ BeginCancel(p)
           \/ (\E r \in Reads : Read(p, r)) \/ (\E s \in Symbols : CancelAll(p, s))
  <2>1. pc'[p] \notin {"close", "recover", "verify"} /\ verdict'[p] \in {verdict[p], "none"}
    BY <1>0, <1>2
    DEF EmergencyStop, ClearEmergencyLock, Begin, Decide, Leave, BeginCancel, Read,
        CancelAll, To, TypeOK
  <2>. QED
    BY <1>1, <2>1
<1>3. CASE ReadFails(p)
  BY <1>0, <1>3 DEF ReadFails, Leave, To, TypeOK, Tries
<1>4. ASSUME NEW s \in Symbols, NEW k \in Kinds, Deleted(p, s, k) \/ DeleteFails(p, s, k)
      PROVE  Goal
  <2>1. /\ pc' = pc \/ pc'[p] = "cancel"
        /\ verdict' = verdict
    BY <1>0, <1>4 DEF Deleted, DeleteFails, To, TypeOK
  <2>2. /\ call'[p].held = call[p].held
        /\ call'[p].todo = call[p].todo /\ call'[p].tried = call[p].tried
    BY <1>0, <1>4 DEF Deleted, DeleteFails, TypeOK, Locals
  <2>. QED
    BY <1>0, <2>1, <2>2 DEF Tries, Exposed
<1>5. CASE BeginClose(p)
  <2>1. /\ pc'[p] = "close" /\ verdict' = verdict
        /\ call'[p].todo = Exposed(call[p].held) /\ call'[p].held = call[p].held
    BY <1>0, <1>5 DEF BeginClose, To, TypeOK, Locals
  <2>. QED
    BY <2>1 DEF Tries, Exposed
<1>6. ASSUME NEW s \in Symbols, NEW complete, Note(p, s, complete),
             pc[p] \in {"close", "recover"}, pc'[p] \in {"close", "recover"},
             UNCHANGED verdict
      PROVE  Goal
  <2>1. /\ call'[p].todo = call[p].todo \ {s} /\ call'[p].tried = call[p].tried \cup {s}
        /\ call'[p].held = call[p].held
    BY <1>0, <1>6 DEF Note, TypeOK, Locals
  <2>. QED
    BY <1>0, <1>6, <2>1 DEF Tries, Exposed
<1>7. ASSUME NEW s \in Symbols, Close(p, s) \/ CloseRefused(p, s) PROVE Goal
  <2>1. PICK complete : Note(p, s, complete)
    BY <1>7 DEF Close, CloseRefused
  <2>. QED
    BY <1>6, <1>7, <2>1 DEF Close, CloseRefused, CloseNext
<1>8. ASSUME NEW s \in Symbols, CloseTimesOut(p, s) PROVE Goal
  <2>1. /\ call'[p].held = call[p].held
        /\ call'[p].todo = call[p].todo /\ call'[p].tried = call[p].tried
        /\ pc'[p] = "recover" /\ pc[p] = "close" /\ verdict' = verdict
    BY <1>0, <1>8 DEF CloseTimesOut, CloseNext, To, TypeOK, Locals
  <2>. QED
    BY <1>0, <2>1 DEF Tries, Exposed
<1>9. ASSUME NEW s \in Symbols, RecoverFinds(p, s) \/ RecoverFails(p, s) PROVE Goal
  <2>1. PICK complete : Note(p, s, complete)
    BY <1>9 DEF RecoverFinds, RecoverFails
  <2>2. pc[p] = "recover" /\ pc'[p] = "close" /\ UNCHANGED verdict
    BY <1>0, <1>9 DEF RecoverFinds, RecoverFails, Recovers, To, TypeOK
  <2>. QED
    BY <1>6, <2>1, <2>2
<1>10. ASSUME NEW s \in Symbols, RecoverMisses(p, s) PROVE Goal
  <2>1. pc[p] = "recover" /\ pc'[p] \in {"close", "recover"} /\ UNCHANGED verdict
    BY <1>0, <1>10 DEF RecoverMisses, Recovers, To, TypeOK
  <2>2. CASE call[p].attempt < Attempts
    <3>1. /\ call'[p].held = call[p].held
          /\ call'[p].todo = call[p].todo /\ call'[p].tried = call[p].tried
      BY <1>0, <1>10, <2>2 DEF RecoverMisses, TypeOK, Locals
    <3>. QED
      BY <1>0, <2>1, <3>1 DEF Tries, Exposed
  <2>3. CASE ~(call[p].attempt < Attempts)
    BY <1>6, <1>10, <2>1, <2>3 DEF RecoverMisses
  <2>. QED
    BY <2>2, <2>3
<1>11. CASE BeginVerify(p)
  <2>1. /\ call' = call /\ pc'[p] = "verify" /\ pc[p] = "close" /\ call[p].todo = {}
        /\ UNCHANGED verdict
    BY <1>0, <1>11 DEF BeginVerify, To, TypeOK
  <2>. QED
    BY <1>0, <2>1 DEF Tries, Exposed
<1>12. ASSUME NEW open, Conclude(p, open), pc[p] = "verify" PROVE Goal
  <2>1. CASE open # {} /\ call[p].attempt < Attempts
    <3>1. /\ call'[p].held = call[p].held /\ call'[p].tried = call[p].tried
          /\ UNCHANGED <<pc, verdict>>
      BY <1>0, <1>12, <2>1 DEF Conclude, TypeOK, Locals
    <3>. QED
      BY <1>0, <1>12, <3>1 DEF Tries, Exposed
  <2>2. CASE ~(open # {} /\ call[p].attempt < Attempts)
    BY <1>0, <1>12, <2>2 DEF Conclude, Leave, To, TypeOK, Tries
  <2>. QED
    BY <2>1, <2>2
<1>13. CASE Verify(p) \/ VerifyFails(p)
  BY <1>12, <1>13 DEF Verify, VerifyFails
<1>. QED
  BY <1>2, <1>3, <1>4, <1>5, <1>7, <1>8, <1>9, <1>10, <1>11, <1>13 DEF Flatten, Unlock

LEMMA NextIsDiligent ==
  ASSUME Diligent, [Next]_vars, NEW q \in Callers
  PROVE  /\ Tries(q)'
         /\ verdict[q] = "none" /\ verdict'[q] # "none" /\ call[q].have = Reads =>
              Exposed(call[q].held) \subseteq call[q].tried
<1>1. CASE UNCHANGED vars
  BY <1>1 DEF vars, Diligent, Tries, Exposed
<1>2. CASE Exchange
  BY <1>2, ExchangeKeepsTries
<1>3. ASSUME NEW p \in Callers,
             Flatten(p) \/ Unlock(p) \/ ReadFails(p) \/ \E r \in Reads : Read(p, r)
      PROVE  /\ Tries(q)'
             /\ verdict[q] = "none" /\ verdict'[q] # "none" /\ call[q].have = Reads =>
                  Exposed(call[q].held) \subseteq call[q].tried
  <2>1. CASE q = p
    BY <1>3, <2>1, CallerTries
  <2>2. CASE q # p
    <3>1. pc'[q] = pc[q] /\ verdict'[q] = verdict[q] /\ call'[q] = call[q]
      BY <1>3, <2>2, CallerFrame DEF Diligent
    <3>. QED
      BY <3>1 DEF Diligent, Tries, Exposed
  <2>. QED
    BY <2>1, <2>2
<1>. QED
  BY <1>1, <1>2, <1>3 DEF Next

\* A flatten gives its verdict only after it has tried to close every position
\* it read, whatever failed before.
THEOREM NothingPassedOver == Spec => EveryPositionTried
<1>1. Init => Diligent
  BY InitTypes DEF Init, Diligent, Tries
<1>2. Diligent /\ [Next]_vars => Diligent'
  BY NextTypes, NextIsDiligent DEF Diligent
<1>3. Diligent /\ [Next]_vars =>
        [\A p \in Callers :
           verdict[p] = "none" /\ verdict'[p] # "none" /\ call[p].have = Reads
           => Exposed(call[p].held) \subseteq call[p].tried]_vars
  BY NextIsDiligent
<1>. QED
  BY <1>1, <1>2, <1>3, PTL DEF Spec, EveryPositionTried

-----------------------------------------------------------------------------
(* The lock *)

\* A position that a check has not seen is not there, as long as the account
\* does not move between its reads.
Seen(p) ==
  pc[p] = "check" /\ "account" \in call[p].have /\ Exposed(call[p].held) = {}
  => Exposed(position) = {}

\* Only a resting order brings a position where there was none.
LEMMA NothingOpens ==
  ASSUME TypeOK, Next, ~\E s \in Symbols : Fill(s), Exposed(position) = {}
  PROVE  Exposed(position') = {}
<1>1. Calmer
  BY NextCalms
<1>2. UNCHANGED position \/ UNCHANGED resting
  <2>1. CASE Exchange
    BY <2>1 DEF Exchange, StopFires, Arrive
  <2>2. CASE UNCHANGED accountVars
    BY <2>2 DEF accountVars
  <2>3. ASSUME NEW p \in Callers, NEW s \in Symbols,
               \/ CancelAll(p, s) \/ Close(p, s) \/ CloseTimesOut(p, s)
               \/ \E k \in Kinds : Deleted(p, s, k) \/ DeleteFails(p, s, k)
        PROVE  UNCHANGED position \/ UNCHANGED resting
    BY <2>3 DEF CancelAll, Close, CloseTimesOut, Deleted, DeleteFails
  <2>. QED
    BY <2>1, <2>2, <2>3
    DEF Next, Flatten, Unlock, EmergencyStop, ClearEmergencyLock, Begin, Read, ReadFails,
        Decide, BeginCancel, BeginClose, BeginVerify, CloseRefused, RecoverFinds,
        RecoverMisses, RecoverFails, Verify, VerifyFails
<1>. QED
  BY <1>1, <1>2 DEF Calmer, Exposed

\* The check of one caller, whoever moves.
LEMMA SeenStays ==
  ASSUME "skew" \notin Faults, Books, [Next]_vars, NEW q \in Callers, Seen(q)
  PROVE  Seen(q)'
<1>1. CASE UNCHANGED vars
  BY <1>1 DEF vars, accountVars, Seen, Exposed
<1>2. ASSUME NEW s \in Symbols, Fill(s) PROVE Seen(q)'
  BY <1>2 DEF Fill, Steady, Seen
<1>3. ASSUME Next, ~\E s \in Symbols : Fill(s),
             pc'[q] = "check", "account" \in call'[q].have, Exposed(call'[q].held) = {}
      PROVE  Exposed(position') = {}
  <2>1. SUFFICES Exposed(position) = {}
    BY <1>3, NothingOpens DEF Books
  <2>2. CASE Exchange
    <3>1. pc' = pc /\ call'[q].have = call[q].have /\ call'[q].held = call[q].held
      BY <1>3, <2>2 DEF Exchange, StopFires, Arrive, Books, TypeOK, Locals
    <3>. QED
      BY <1>3, <3>1 DEF Seen, Exposed
  <2>3. ASSUME NEW p \in Callers, p # q,
               Flatten(p) \/ Unlock(p) \/ ReadFails(p) \/ \E r \in Reads : Read(p, r)
        PROVE  Exposed(position) = {}
    <3>1. pc'[q] = pc[q] /\ call'[q] = call[q]
      BY <2>3, CallerFrame DEF Books
    <3>. QED
      BY <1>3, <3>1 DEF Seen, Exposed
  <2>4. CASE \E r \in Reads : Read(q, r)
    <3>1. PICK r \in Reads : Read(q, r)
      BY <2>4
    <3>2. /\ pc[q] = "check"
          /\ call'[q].have = call[q].have \cup {r}
          /\ call'[q].held = IF r = "account" THEN position ELSE call[q].held
      BY <1>3, <3>1 DEF Read, Books, TypeOK, Locals
    <3>. QED
      BY <1>3, <3>2 DEF Seen, Exposed
  <2>5. CASE ClearEmergencyLock(q)
    BY <1>3, <2>5 DEF ClearEmergencyLock, Begin, Books, Covered, Blank
  <2>6. CASE Decide(q) \/ ReadFails(q)
    BY <1>3, <2>6 DEF Decide, ReadFails, Leave, To, Books, TypeOK
  <2>7. CASE Flatten(q)
    <3>1. pc[q] = "check" /\ call' = call
      <4>1. CASE \E s \in Symbols, k \in Kinds : Deleted(q, s, k) \/ DeleteFails(q, s, k)
        BY <1>3, <4>1 DEF Deleted, DeleteFails, Awaits, To, Books, TypeOK
      <4>2. CASE EmergencyStop(q) \/ BeginCancel(q) \/ BeginClose(q) \/ BeginVerify(q)
                 \/ \E s \in Symbols : CancelAll(q, s) \/ CloseTimesOut(q, s)
        BY <1>3, <4>2
        DEF EmergencyStop, Begin, BeginCancel, BeginClose, BeginVerify, CancelAll,
            CloseTimesOut, To, Books, TypeOK
      <4>3. CASE \E s \in Symbols : Close(q, s) \/ CloseRefused(q, s)
        BY <1>3, <4>3 DEF Close, CloseRefused, CloseNext
      <4>4. CASE \E s \in Symbols : RecoverFinds(q, s) \/ RecoverMisses(q, s) \/ RecoverFails(q, s)
        BY <1>3, <4>4
        DEF RecoverFinds, RecoverMisses, RecoverFails, Recovers, To, Books, TypeOK
      <4>5. CASE Verify(q) \/ VerifyFails(q)
        BY <1>3, <4>5 DEF Verify, VerifyFails, Conclude, Leave, To, Books, TypeOK
      <4>. QED
        BY <2>7, <4>1, <4>2, <4>3, <4>4, <4>5 DEF Flatten
    <3>. QED
      BY <1>3, <3>1 DEF Seen, Exposed
  <2>. QED
    BY <1>3, <2>2, <2>3, <2>4, <2>5, <2>6, <2>7 DEF Next, Unlock
<1>. QED
  BY <1>1, <1>2, <1>3 DEF Seen, Exposed

\* If the account stands still between the reads of one reconciliation, the
\* lock is cleared only over an account without position and order.
THEOREM LockOpensOnClean ==
  ASSUME "skew" \notin Faults PROVE Spec => UnlocksClean
<1>. DEFINE Inv == Books /\ \A p \in Callers : Seen(p)
<1>1. Init => Inv
  BY InitBooks DEF Init, Seen, Blank
<1>2. Inv /\ [Next]_vars => Inv'
  BY NextBooks, SeenStays
<1>3. Inv /\ [Next]_vars => [locked /\ ~locked' => Clean]_vars
  <2>. SUFFICES ASSUME Inv, [Next]_vars, locked, ~locked', ~UNCHANGED vars PROVE Clean
    OBVIOUS
  <2>1. PICK p \in Callers : Decide(p)
    <3>1. CASE Exchange
      BY <3>1 DEF Exchange, Fill, StopFires, Arrive
    <3>2. ASSUME NEW p \in Callers, Flatten(p) PROVE locked' = locked \/ locked'
      BY <3>2
      DEF Flatten, EmergencyStop, BeginCancel, BeginClose, BeginVerify, CancelAll,
          Deleted, DeleteFails, Close, CloseRefused, CloseTimesOut, RecoverFinds,
          RecoverMisses, RecoverFails, Verify, VerifyFails
    <3>3. ASSUME NEW p \in Callers,
                 ClearEmergencyLock(p) \/ ReadFails(p) \/ \E r \in Reads : Read(p, r)
          PROVE  locked' = locked
      BY <3>3 DEF ClearEmergencyLock, ReadFails, Read
    <3>. QED
      BY <3>1, <3>2, <3>3 DEF Next, Unlock
  <2>2. /\ Exposed(call[p].held) = {} /\ call[p].listed = {}
        /\ pc[p] = "check" /\ call[p].have = Reads
    BY <2>1 DEF Decide
  <2>3. Exposed(position) = {}
    BY <2>2 DEF Seen, Reads
  <2>4. Exposed(resting) = {} /\ stops = {}
    BY <2>2 DEF Books, Covered, Reads, Kinds, Exposed, TypeOK
  <2>. QED
    BY <2>3, <2>4 DEF Clean
<1>. QED
  BY <1>1, <1>2, <1>3, PTL DEF Spec, UnlocksClean
=============================================================================
