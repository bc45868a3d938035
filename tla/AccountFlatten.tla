---- MODULE AccountFlatten ----
(***************************************************************************)
(* emergency_flatten and clear_emergency_lock, request by request, against *)
(* an account that moves: resting orders fill, stops fire, an answer is    *)
(* lost, a close order is still under way when its caller gives up.        *)
(*                                                                         *)
(* Neither handler takes a lock: an emergency stop pressed twice, or while *)
(* the guard flattens, runs the coroutine twice, and the lock may be asked *)
(* away in between.  Contracts are signed: LONG above 0, SHORT below.      *)
(***************************************************************************)
EXTENDS Integers, FiniteSets

CONSTANTS
  Symbols,
  Callers,     \* coroutines inside emergency_stop or clear_emergency_lock
  MaxSize,     \* bound: contracts held or resting on one symbol
  Attempts,    \* recovery_attempts
  Faults       \* which of AllFaults may happen

AllFaults == {"read", "delete", "closePartial", "closeRefused", "closeLost",
              "query", "verify", "skew"}
Kinds     == {"orders", "algo"}
Reads     == {"account"} \cup Kinds

ASSUME FlattenAssumption ==
  /\ Symbols # {}
  /\ MaxSize \in Nat \ {0}
  /\ Attempts \in Nat \ {0}
  /\ Faults \subseteq AllFaults

VARIABLES
  position,  \* the account: contracts held,
  resting,   \*   contracts of an opening order still on the book,
  stops,     \*   symbols with closePosition algo orders,
  adrift,    \*   close orders whose answer is lost and which have not arrived,
  deletes,   \*   cancellations sent and not yet answered
  locked,    \* engine.emergency_locked
  pc,        \* where a caller stands
  call,      \* its local variables
  verdict    \* how its last emergency_flatten ended, until the next call

accountVars == <<position, resting, stops, adrift, deletes>>
vars        == <<accountVars, locked, pc, call, verdict>>

Blank ==
  [have    |-> {},                      \* reads of asyncio.gather answered
   held    |-> [s \in Symbols |-> 0],   \* positions as read
   listed  |-> {},                      \* symbols with orders, as read
   todo    |-> {},                      \* what is left of the present loop
   at      |-> {},                      \* the symbol it works on
   filled  |-> 0,                       \* contracts its close has executed
   attempt |-> 1,                       \* pass of the present retry loop
   left    |-> Symbols,                 \* what the last re-read leaves open
   failed  |-> FALSE,                   \* failures is not empty
   tried   |-> {}]                      \* symbols a close was attempted for

Size(n) == IF n < 0 THEN -n ELSE n
SameSide(m, n) == (m > 0 /\ n > 0) \/ (m < 0 /\ n < 0)
\* Contracts a reduce-only order of this many takes off at most.
Reducible(n, order) ==
  IF ~SameSide(n, order) THEN 0
  ELSE IF Size(order) < Size(n) THEN Size(order) ELSE Size(n)
\* k contracts taken off a position.
Toward0(n, k) == IF n > 0 THEN n - k ELSE n + k

Exposed(amount) == {s \in Symbols : amount[s] # 0}
Clean == Exposed(position) = {} /\ Exposed(resting) = {} /\ stops = {}

To(p, label) == pc' = [pc EXCEPT ![p] = label]
\* The handler returns or raises.
Leave(p) == To(p, "idle") /\ call' = [call EXCEPT ![p] = Blank]

----------------------------------------------------------------------------
\* The exchange.

\* Without the fault, the account stands still between the reads of a check.
Steady ==
  "skew" \in Faults \/ \A p \in Callers : pc[p] = "check" => call[p].have = {}

\* A resting order is executed, wholly or in part.
Fill(s) ==
  /\ Steady /\ resting[s] # 0
  /\ \E k \in 1..Size(resting[s]) :
       LET rest == Toward0(resting[s], k) IN
       /\ resting' = [resting EXCEPT ![s] = rest]
       /\ position' = [position EXCEPT ![s] = @ + resting[s] - rest]
  /\ UNCHANGED <<stops, adrift, deletes, locked, pc, call, verdict>>

\* A closePosition order fires, or leaves with a position that is gone.
StopFires(s) ==
  /\ Steady /\ s \in stops
  /\ position' = [position EXCEPT ![s] = 0]
  /\ stops' = stops \ {s}
  /\ UNCHANGED <<resting, adrift, deletes, locked, pc, call, verdict>>

\* A close order whose answer was lost arrives late: it is reduce-only.
Arrive(p, s) ==
  /\ adrift[p][s] # 0
  /\ \E k \in 0..Reducible(position[s], adrift[p][s]) :
       /\ position' = [position EXCEPT ![s] = Toward0(@, k)]
       /\ call' = IF pc[p] = "recover" /\ call[p].at = {s}
                  THEN [call EXCEPT ![p].filled = k] ELSE call
  /\ adrift' = [adrift EXCEPT ![p][s] = 0]
  /\ UNCHANGED <<resting, stops, deletes, locked, pc, verdict>>

----------------------------------------------------------------------------
\* The reads both handlers begin with.

Begin(p, label) ==
  /\ pc[p] = "idle"
  /\ To(p, label)
  /\ verdict' = [verdict EXCEPT ![p] = "none"]
  /\ UNCHANGED <<accountVars, call>>

\* emergency_stop: the lock first, then emergency_flatten.
EmergencyStop(p)      == Begin(p, "read") /\ locked' = TRUE
ClearEmergencyLock(p) == Begin(p, "check") /\ UNCHANGED locked

\* The symbols of the orders an answer lists.
Named(r) ==
  CASE r = "account" -> {}
    [] r = "orders"  -> Exposed(resting)
    [] r = "algo"    -> stops

Read(p, r) ==
  /\ pc[p] \in {"read", "check"}
  /\ r \in Reads \ call[p].have
  /\ call' = [call EXCEPT
       ![p].have = @ \cup {r},
       ![p].held = IF r = "account" THEN position ELSE @,
       ![p].listed = @ \cup Named(r)]
  /\ UNCHANGED <<accountVars, locked, pc, verdict>>

\* sync_time or a read fails: the exception passes through either handler.
ReadFails(p) ==
  /\ "read" \in Faults
  /\ pc[p] \in {"read", "check"}
  /\ call[p].have # Reads
  /\ verdict' = [verdict EXCEPT ![p] = IF pc[p] = "read" THEN "raised" ELSE @]
  /\ Leave(p)
  /\ UNCHANGED <<accountVars, locked>>

\* Mutant for UnlocksClean: open orders do not keep the lock.
DecideOnPositions(p) ==
  /\ pc[p] = "check" /\ call[p].have = Reads
  /\ locked' = (locked /\ Exposed(call[p].held) # {})
  /\ Leave(p)
  /\ UNCHANGED <<accountVars, verdict>>

\* clear_emergency_lock: no position and no order, or the lock stays.
Decide(p) ==
  /\ pc[p] = "check" /\ call[p].have = Reads
  /\ locked' = (locked /\ (Exposed(call[p].held) # {} \/ call[p].listed # {}))
  /\ Leave(p)
  /\ UNCHANGED <<accountVars, verdict>>

----------------------------------------------------------------------------
\* emergency_flatten: cancel_all, symbol by symbol.

BeginCancel(p) ==
  /\ pc[p] = "read" /\ call[p].have = Reads
  /\ To(p, "cancel")
  /\ call' = [call EXCEPT ![p].todo = call[p].listed \cup Exposed(call[p].held)]
  /\ UNCHANGED <<accountVars, locked, verdict>>

\* Both DELETEs are sent at once.  Bound: one that outlived an earlier
\* cancel_all of this caller and symbol is answered before.
CancelAll(p, s) ==
  /\ pc[p] = "cancel" /\ s \in call[p].todo
  /\ \A k \in Kinds : <<p, s, k>> \notin deletes
  /\ deletes' = deletes \cup {<<p, s, k>> : k \in Kinds}
  /\ call' = [call EXCEPT ![p].at = {s}, ![p].todo = @ \ {s}]
  /\ To(p, "delete")
  /\ UNCHANGED <<position, resting, stops, adrift, locked, verdict>>

Awaits(p, s) == pc[p] = "delete" /\ call[p].at = {s}

\* What a DELETE does at the exchange.
Apply(s, k) ==
  /\ resting' = IF k = "orders" THEN [resting EXCEPT ![s] = 0] ELSE resting
  /\ stops' = IF k = "algo" THEN stops \ {s} ELSE stops

Deleted(p, s, k) ==
  /\ <<p, s, k>> \in deletes
  /\ deletes' = deletes \ {<<p, s, k>>}
  /\ Apply(s, k)
  /\ IF Awaits(p, s) /\ \A other \in Kinds : <<p, s, other>> \notin deletes'
     THEN To(p, "cancel") ELSE UNCHANGED pc
  /\ UNCHANGED <<position, adrift, locked, call, verdict>>

\* Refused, or applied with the answer lost: gather raises at once, and the
\* other DELETE goes on without anybody waiting for it.
DeleteFails(p, s, k) ==
  /\ "delete" \in Faults
  /\ <<p, s, k>> \in deletes
  /\ deletes' = deletes \ {<<p, s, k>>}
  /\ Apply(s, k) \/ UNCHANGED <<resting, stops>>
  /\ IF Awaits(p, s)
     THEN To(p, "cancel") /\ call' = [call EXCEPT ![p].failed = TRUE]
     ELSE UNCHANGED <<pc, call>>
  /\ UNCHANGED <<position, adrift, locked, verdict>>

----------------------------------------------------------------------------
\* emergency_flatten: a reduce-only MARKET order for every position as read.

BeginClose(p) ==
  /\ pc[p] = "cancel" /\ call[p].todo = {}
  /\ To(p, "close")
  /\ call' = [call EXCEPT ![p].todo = Exposed(call[p].held)]
  /\ UNCHANGED <<accountVars, locked, verdict>>

CloseNext(p, s) == pc[p] = "close" /\ s \in call[p].todo
\* The outcome of a close of this symbol: anything short of FILLED with all
\* its contracts is a failure.
Note(p, s, complete) ==
  call' = [call EXCEPT ![p].todo = @ \ {s}, ![p].tried = @ \cup {s},
                       ![p].at = {}, ![p].filled = 0, ![p].attempt = 1,
                       ![p].failed = IF complete THEN @ ELSE TRUE]

\* Mutant for ClosesOnlyShrink: without reduceOnly.
CloseBlindly(p, s) ==
  /\ CloseNext(p, s)
  /\ position' = [position EXCEPT ![s] = @ - call[p].held[s]]
  /\ Note(p, s, TRUE)
  /\ UNCHANGED <<resting, stops, adrift, deletes, locked, pc, verdict>>

\* The answer arrives, with fewer contracts if the position shrank meanwhile,
\* or if the book is thin.
Close(p, s) ==
  /\ CloseNext(p, s)
  /\ SameSide(position[s], call[p].held[s])
  /\ LET most == Reducible(position[s], call[p].held[s]) IN
     \E k \in (IF "closePartial" \in Faults THEN 0 ELSE most)..most :
       /\ position' = [position EXCEPT ![s] = Toward0(@, k)]
       /\ Note(p, s, k >= Size(call[p].held[s]))
  /\ UNCHANGED <<resting, stops, adrift, deletes, locked, pc, verdict>>

\* Nothing is left to reduce, or the exchange refuses for another reason.
CloseRefused(p, s) ==
  /\ CloseNext(p, s)
  /\ ~SameSide(position[s], call[p].held[s]) \/ "closeRefused" \in Faults
  /\ Note(p, s, FALSE)
  /\ UNCHANGED <<accountVars, locked, pc, verdict>>

\* The POST times out: the order is on its way, at the exchange, or lost.
\* Bound: one order of a caller and symbol is on its way.
CloseTimesOut(p, s) ==
  /\ "closeLost" \in Faults
  /\ CloseNext(p, s)
  /\ adrift[p][s] = 0
  /\ adrift' = [adrift EXCEPT ![p][s] = call[p].held[s]]
  /\ call' = [call EXCEPT ![p].at = {s}]
  /\ To(p, "recover")
  /\ UNCHANGED <<position, resting, stops, deletes, locked, verdict>>

\* _recover_unknown_order finds the order, does not find it, or gives up.
Recovers(p, s) == pc[p] = "recover" /\ call[p].at = {s}

RecoverFinds(p, s) ==
  /\ Recovers(p, s) /\ adrift[p][s] = 0
  /\ Note(p, s, call[p].filled >= Size(call[p].held[s]))
  /\ To(p, "close")
  /\ UNCHANGED <<accountVars, locked, verdict>>

RecoverMisses(p, s) ==
  /\ Recovers(p, s) /\ adrift[p][s] # 0
  /\ IF call[p].attempt < Attempts
     THEN call' = [call EXCEPT ![p].attempt = @ + 1] /\ UNCHANGED pc
     ELSE Note(p, s, FALSE) /\ To(p, "close")
  /\ UNCHANGED <<accountVars, locked, verdict>>

RecoverFails(p, s) ==
  /\ "query" \in Faults
  /\ Recovers(p, s)
  /\ Note(p, s, FALSE)
  /\ To(p, "close")
  /\ UNCHANGED <<accountVars, locked, verdict>>

----------------------------------------------------------------------------
\* emergency_flatten: the account is read again until it is flat.

BeginVerify(p) ==
  /\ pc[p] = "close" /\ call[p].todo = {}
  /\ To(p, "verify")
  /\ UNCHANGED <<accountVars, locked, call, verdict>>

\* The loop ends with its last pass or an empty account; the last positions
\* that were read count, and none read counts as all open.
Conclude(p, open) ==
  IF open # {} /\ call[p].attempt < Attempts
  THEN /\ call' = [call EXCEPT ![p].left = open, ![p].attempt = @ + 1]
       /\ UNCHANGED <<pc, verdict>>
  ELSE /\ verdict' = [verdict EXCEPT ![p] =
            IF call[p].failed \/ open # {} THEN "raised" ELSE "flat"]
       /\ Leave(p)

\* Mutant for FlatIsFlat: only the positions read at the start are verified.
VerifyHeld(p) ==
  /\ pc[p] = "verify"
  /\ Conclude(p, Exposed(position) \cap Exposed(call[p].held))
  /\ UNCHANGED <<accountVars, locked>>

Verify(p) ==
  /\ pc[p] = "verify"
  /\ Conclude(p, Exposed(position))
  /\ UNCHANGED <<accountVars, locked>>

VerifyFails(p) ==
  /\ "verify" \in Faults
  /\ pc[p] = "verify"
  /\ Conclude(p, call[p].left)
  /\ UNCHANGED <<accountVars, locked>>

----------------------------------------------------------------------------

\* The account an emergency may find; the engine has sent nothing that is
\* still on its way (FlattenSticks of TradingEngine).
Init ==
  /\ position \in [Symbols -> (-MaxSize)..MaxSize]
  /\ resting \in [Symbols -> (-MaxSize)..MaxSize]
  /\ \A s \in Symbols : Size(position[s]) + Size(resting[s]) <= MaxSize
  /\ stops \in SUBSET Symbols
  /\ adrift = [p \in Callers |-> [s \in Symbols |-> 0]]
  /\ deletes = {}
  /\ locked \in BOOLEAN
  /\ pc = [p \in Callers |-> "idle"]
  /\ call = [p \in Callers |-> Blank]
  /\ verdict = [p \in Callers |-> "none"]

Flatten(p) ==
  \/ EmergencyStop(p) \/ BeginCancel(p) \/ BeginClose(p) \/ BeginVerify(p)
  \/ \E s \in Symbols :
       \/ CancelAll(p, s)
       \/ \E k \in Kinds : Deleted(p, s, k) \/ DeleteFails(p, s, k)
       \/ Close(p, s) \/ CloseRefused(p, s) \/ CloseTimesOut(p, s)
       \/ RecoverFinds(p, s) \/ RecoverMisses(p, s) \/ RecoverFails(p, s)
  \/ Verify(p) \/ VerifyFails(p)

Unlock(p) == ClearEmergencyLock(p) \/ Decide(p)

Exchange ==
  \E s \in Symbols : Fill(s) \/ StopFires(s) \/ \E p \in Callers : Arrive(p, s)

Next ==
  \/ Exchange
  \/ \E p \in Callers :
       Flatten(p) \/ Unlock(p) \/ ReadFails(p) \/ \E r \in Reads : Read(p, r)

Spec == Init /\ [][Next]_vars

----------------------------------------------------------------------------
Labels == {"idle", "read", "check", "cancel", "delete", "close", "recover", "verify"}
Locals ==
  [have: SUBSET Reads, held: [Symbols -> Int], listed: SUBSET Symbols,
   todo: SUBSET Symbols, at: SUBSET Symbols, filled: Nat, attempt: 1..Attempts,
   left: SUBSET Symbols, failed: BOOLEAN, tried: SUBSET Symbols]

\* Every variable has the type its declaration promises.
TypeOK ==
  /\ position \in [Symbols -> Int]
  /\ resting \in [Symbols -> Int]
  /\ stops \in SUBSET Symbols
  /\ adrift \in [Callers -> [Symbols -> Int]]
  /\ deletes \in SUBSET (Callers \X Symbols \X Kinds)
  /\ locked \in BOOLEAN
  /\ pc \in [Callers -> Labels]
  /\ call \in [Callers -> Locals]
  /\ verdict \in [Callers -> {"none", "flat", "raised"}]

\* emergency_flatten that returns without EmergencyFlattenError has left an
\* account with no position and no order, whatever filled between its reads
\* and whoever else was flattening, and nothing it sent opens one later.
FlatIsFlat == (\E p \in Callers : verdict[p] = "flat") => Clean

\* A cancellation that fails does not keep another position from being closed:
\* a flatten that got past its reads ends only after trying every position.
EveryPositionTried ==
  [][\A p \in Callers :
       verdict[p] = "none" /\ verdict'[p] # "none" /\ call[p].have = Reads
       => Exposed(call[p].held) \subseteq call[p].tried]_vars

\* No close order turns or enlarges a position, though it is sized on a read
\* that fills, stops and the other caller's orders have overtaken: only a
\* resting order can.
ClosesOnlyShrink ==
  [][\A s \in Symbols :
       resting'[s] = resting[s] =>
         /\ Size(position'[s]) <= Size(position[s])
         /\ position'[s] = 0 \/ SameSide(position'[s], position[s])]_vars

\* The emergency lock is cleared only when the account has no position, no
\* order and no algo order (DOCS.md).
UnlocksClean == [][locked /\ ~locked' => Clean]_vars
====
