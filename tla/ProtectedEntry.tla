---- MODULE ProtectedEntry ----
(***************************************************************************)
(* BinanceTestnetBroker.execute_with_stop and the part of                  *)
(* TradingEngine._execute_order that classifies its result, for a sequence *)
(* of opening orders on one symbol.  Every signed REST request is one      *)
(* action: its effect at the exchange together with the reply the          *)
(* coroutine sees, which may be the answer, an API error (no effect), or a *)
(* timeout after which the request was or was not applied.  Between two    *)
(* requests the exchange fills orders and fires protective triggers, and   *)
(* the user-stream task may cancel a partially filled entry.               *)
(*                                                                         *)
(* Prices are abstracted away: a protective order is told apart only by    *)
(* who placed it ("new" by this order, "old" by an earlier one, "manual"   *)
(* by a human).  Reduce-only orders return before any of this and appear   *)
(* here as PositionShrinks.                                                *)
(***************************************************************************)
EXTENDS Naturals, FiniteSets

CONSTANTS
  Qty,               \* contracts of one opening order
  MaxPosition,       \* bound: no ADD beyond this many contracts
  RecoveryAttempts,  \* GETs per confirmation loop, recovery_attempts in the code
  MarketFills,       \* quantities the exchange may execute of a MARKET entry
  Rejects,           \* endpoints that may answer with an API error
  Lost,              \* endpoints whose request may time out unapplied
  Applied,           \* endpoints whose request may time out after being applied
  AnswersBreak,      \* whether the answer to an applied entry may fail to be read
  Cancellable        \* whether the task may be cancelled at an await

Endpoints == {"submit", "query", "cancel", "algoCancel", "algoPlace", "rescue"}

ASSUME QuantityAssumption ==
  /\ Qty \in Nat \ {0}
  /\ MaxPosition \in Nat
  /\ RecoveryAttempts \in Nat \ {0}
  /\ MarketFills \subseteq 0..Qty

ASSUME FaultAssumption ==
  /\ Rejects \subseteq Endpoints
  /\ Lost \subseteq Endpoints
  /\ Applied \subseteq Endpoints
  /\ AnswersBreak \in BOOLEAN /\ Cancellable \in BOOLEAN

VARIABLES
  \* the exchange
  position,    \* contracts held on the side of the order
  entry,       \* the opening order: its status and executed quantity
  rescue,      \* contracts executed by the reduce-only rescue order; NoOrder before it
  bracket,     \* the closePosition order in each slot, who placed it
  \* the coroutine
  pc,
  plan,        \* the OrderPlan: action and order type
  report,      \* the ExecutionReport held in the local `entry`
  attempts,    \* requests made in the confirmation loop running now
  stale,       \* stale_protection, the legs read before the entry
  cancelled,   \* cancelled_stale
  fresh,       \* fresh_protection
  issues,      \* what failed in undoing: rescue, cleanup or restoration
  \* the caller
  outcome,     \* status of the ExecutionAttempt
  engine,      \* "locked" once the engine's emergency_stop was called
  before       \* history: the position when the order began

exchangeVars == <<position, entry, rescue, bracket>>
localVars    == <<plan, report, attempts, stale, cancelled, fresh, issues>>
callerVars   == <<outcome, engine, before>>
vars         == <<exchangeVars, pc, localVars, callerVars>>

Legs     == {"sl", "tp"}
Owners   == {"none", "old", "new", "manual"}
Plans    == [action : {"OPEN", "ADD"}, type : {"MARKET", "LIMIT"}]
NoOrder  == [status |-> "NONE", filled |-> 0]
\* "NEW" stands for NEW and PARTIALLY_FILLED, which `filled` tells apart.
Statuses == {"NONE", "NEW", "FILLED", "CANCELED", "EXPIRED"}
Terminal == {"FILLED", "CANCELED", "EXPIRED"}
Orders   == [status : Statuses, filled : 0..Qty]

Smaller(a, b) == IF a <= b THEN a ELSE b

----------------------------------------------------------------------------
\* Control helpers of the coroutine.

\* _execute_order records the attempt and, if told to, calls emergency_stop.
Settle(result, state) ==
  /\ pc' = "done"
  /\ outcome' = result
  /\ engine' = state
  /\ UNCHANGED before

GoTo(label) == pc' = label /\ UNCHANGED callerVars

\* From a filled entry to the bracket: old legs first, then the new pair.
Protect(r) ==
  /\ report' = r
  /\ attempts' = 0
  /\ GoTo(IF stale = {} THEN "placeSl" ELSE "unbracket")

\* Branches taken on the report that placing (or recovering) the entry gave.
AfterPlacement(r) ==
  \/ /\ r.status = "NEW"
     /\ report' = r
     /\ attempts' = 0
     /\ GoTo(IF plan.type = "LIMIT" THEN "confirm" ELSE "cancel")
  \/ /\ r.status = "FILLED" \/ (plan.type = "LIMIT" /\ r.filled > 0)
     /\ r.status # "NEW"
     /\ Protect(r)
  \/ /\ r.status \in Terminal \ {"FILLED"}
     /\ plan.type = "MARKET" \/ r.filled = 0
     /\ report' = r
     /\ attempts' = 0
     /\ Settle("FAILED", "running")

\* Branches once the remainder of the entry is known to be dead.
AfterRemainder(r) ==
  IF r.filled = 0
  THEN /\ report' = r
       /\ attempts' = 0
       /\ Settle("FAILED", "running")
  ELSE Protect(r)

\* protected_order: the whole plan once FILLED, else what was executed.
ProtectedQty == IF report.status = "FILLED" THEN Qty ELSE report.filled

----------------------------------------------------------------------------
\* The caller: a new opening order, accepted by the risk policy.

\* Opening is refused while a position has no stop or an entry is live (after
\* an emergency, reconcile_account refuses to start for the same reasons);
\* OPEN needs a flat symbol and ADD a position.
StartOrder ==
  /\ pc = "done"
  /\ position > 0 => bracket["sl"] # "none"
  /\ entry.status # "NEW"
  /\ plan' \in Plans
  /\ IF position = 0 THEN plan'.action = "OPEN"
     ELSE plan'.action = "ADD" /\ position + Qty <= MaxPosition
  /\ pc' = "begin"
  /\ bracket' = [l \in Legs |-> IF bracket[l] = "new" THEN "old" ELSE bracket[l]]
  /\ entry' = NoOrder
  /\ rescue' = NoOrder
  /\ report' = NoOrder
  /\ attempts' = 0
  /\ stale' = {} /\ cancelled' = {} /\ fresh' = {}
  /\ issues' = {}
  /\ outcome' = "none"
  /\ engine' = "running"
  /\ before' = position
  /\ UNCHANGED position

\* Mutant: the old bracket is removed before the entry is placed.
PrepareUnprotected ==
  /\ pc = "begin"
  /\ stale' = {}
  /\ bracket' = [l \in Legs |-> IF bracket[l] = "old" THEN "none" ELSE bracket[l]]
  /\ GoTo("submit")
  /\ UNCHANGED <<position, entry, rescue, plan, report, attempts, cancelled, fresh, issues>>

\* sync_time, reading the old bracket of an ADD, configure_symbol.
Prepare ==
  /\ pc = "begin"
  /\ stale' = IF plan.action = "ADD" THEN {l \in Legs : bracket[l] = "old"} ELSE {}
  /\ GoTo("submit")
  /\ UNCHANGED <<exchangeVars, plan, report, attempts, cancelled, fresh, issues>>

\* One of those requests fails.  A timeout here is classified UNKNOWN too.
PrepareFails ==
  /\ pc = "begin"
  /\ Settle("FAILED", "running") \/ Settle("UNKNOWN", "locked")
  /\ UNCHANGED <<exchangeVars, localVars>>

----------------------------------------------------------------------------
\* Placing the entry.

\* The exchange takes the opening order; a MARKET remainder expires at once.
EntryExecutes ==
  \E f \in IF plan.type = "MARKET" THEN MarketFills ELSE 0..Qty :
    /\ entry' = [status |-> IF f = Qty THEN "FILLED"
                            ELSE IF plan.type = "MARKET" THEN "EXPIRED" ELSE "NEW",
                 filled |-> f]
    /\ position' = position + f

Submit ==
  /\ pc = "submit"
  /\ EntryExecutes
  /\ AfterPlacement(entry')
  /\ UNCHANGED <<rescue, bracket, plan, stale, cancelled, fresh, issues>>

SubmitRejected ==
  /\ pc = "submit"
  /\ "submit" \in Rejects
  /\ Settle("FAILED", "running")
  /\ UNCHANGED <<exchangeVars, localVars>>

SubmitTimesOut ==
  /\ pc = "submit"
  /\ \/ "submit" \in Lost /\ UNCHANGED <<position, entry>>
     \/ "submit" \in Applied /\ EntryExecutes
  /\ attempts' = 0
  /\ GoTo("recover")
  /\ UNCHANGED <<rescue, bracket, plan, report, stale, cancelled, fresh, issues>>

\* The connection breaks behind the POST, or its answer is not JSON: any error
\* but httpx.TimeoutException is a plain failure, whatever the exchange did.
SubmitBreaks ==
  /\ pc = "submit" /\ AnswersBreak
  /\ EntryExecutes
  /\ Settle("FAILED", "running")
  /\ UNCHANGED <<rescue, bracket, localVars>>

\* _recover_unknown_order: the order is looked up by its client id.
RecoverFinds ==
  /\ pc = "recover"
  /\ entry.status # "NONE"
  /\ AfterPlacement(entry)
  /\ UNCHANGED <<exchangeVars, plan, stale, cancelled, fresh, issues>>

\* -2013, the order is not (yet) known: retried, then given up as unknown.
RecoverMisses ==
  /\ pc = "recover"
  /\ attempts' = attempts + 1
  /\ IF attempts' = RecoveryAttempts THEN Settle("UNKNOWN", "locked") ELSE GoTo("recover")
  /\ UNCHANGED <<exchangeVars, plan, report, stale, cancelled, fresh, issues>>

RecoverTimesOut ==
  /\ pc = "recover"
  /\ "query" \in Lost
  /\ Settle("UNKNOWN", "locked")
  /\ UNCHANGED <<exchangeVars, localVars>>

\* Any other API error is raised as it is, and classified as a plain failure.
RecoverErrors ==
  /\ pc = "recover"
  /\ "query" \in Rejects
  /\ Settle("FAILED", "running")
  /\ UNCHANGED <<exchangeVars, localVars>>

----------------------------------------------------------------------------
\* A LIMIT entry that is still open: wait for it, then kill the remainder.

\* _wait_for_opening_limit_fill: every error is swallowed and counted.
Confirm ==
  /\ pc = "confirm"
  /\ \/ /\ entry.status \in Terminal
        /\ AfterRemainder(entry)
     \/ /\ \/ entry.status = "NEW" /\ report' = entry
           \/ "query" \in Rejects \cup Lost /\ UNCHANGED report
        /\ attempts' = attempts + 1
        /\ GoTo(IF attempts' = RecoveryAttempts THEN "cancel" ELSE "confirm")
  /\ UNCHANGED <<exchangeVars, plan, stale, cancelled, fresh, issues>>

Canceled(o) == [o EXCEPT !.status = "CANCELED"]

CancelRemainder ==
  /\ pc = "cancel"
  /\ entry.status = "NEW"
  /\ entry' = Canceled(entry)
  /\ AfterRemainder(entry')
  /\ UNCHANGED <<position, rescue, bracket, plan, stale, cancelled, fresh, issues>>

\* Mutant: a failed cancellation is taken for a success.
CancelRemainderAssumed ==
  /\ pc = "cancel"
  /\ "cancel" \in Rejects \cup Lost
  /\ AfterRemainder(entry)
  /\ UNCHANGED <<exchangeVars, plan, stale, cancelled, fresh, issues>>

CancelRemainderFails ==
  /\ pc = "cancel"
  /\ \/ /\ entry.status # "NEW" \/ "cancel" \in Rejects \cup Lost
        /\ UNCHANGED entry
     \/ /\ entry.status = "NEW" /\ "cancel" \in Applied
        /\ entry' = Canceled(entry)
  /\ attempts' = 0
  /\ GoTo("settleRemainder")
  /\ UNCHANGED <<position, rescue, bracket, plan, report, stale, cancelled, fresh, issues>>

\* _recover_terminal_order: only a terminal status ends the loop well.
SettleRemainder ==
  /\ pc = "settleRemainder"
  /\ \/ /\ entry.status \in Terminal
        /\ AfterRemainder(entry)
     \/ /\ entry.status = "NEW" \/ "query" \in Rejects \cup Lost
        /\ attempts' = attempts + 1
        /\ IF attempts' = RecoveryAttempts THEN Settle("UNKNOWN", "locked")
           ELSE GoTo("settleRemainder")
        /\ UNCHANGED report
  /\ UNCHANGED <<exchangeVars, plan, stale, cancelled, fresh, issues>>

----------------------------------------------------------------------------
\* The bracket: remove the old legs, place the stop, place the take profit.

\* How a DELETE or POST on a closePosition order can go wrong: refused by the
\* exchange, an API error, or a timeout whose request was or was not applied.
AlgoFails(endpoint, refused, effect) ==
  \/ /\ refused \/ endpoint \in Rejects \cup Lost
     /\ UNCHANGED bracket
  \/ /\ ~refused /\ endpoint \in Applied
     /\ effect

SetLeg(l, owner) == bracket' = [bracket EXCEPT ![l] = owner]

\* Mutant: no cleanup of what was placed.
AbortUncleaned == GoTo("rescue")

\* The except block: clean up what was placed, then reduce.
Abort == GoTo(IF fresh = {} THEN "rescue" ELSE "cleanup")

Unbracket(l) ==
  /\ pc = "unbracket"
  /\ l \in stale \ cancelled
  /\ bracket[l] = "old"
  /\ SetLeg(l, "none")
  /\ cancelled' = cancelled \cup {l}
  /\ GoTo(IF stale \subseteq cancelled' THEN "placeSl" ELSE "unbracket")
  /\ UNCHANGED <<position, entry, rescue, plan, report, attempts, stale, fresh, issues>>

UnbracketFails(l) ==
  /\ pc = "unbracket"
  /\ l \in stale \ cancelled
  /\ AlgoFails("algoCancel", bracket[l] # "old", SetLeg(l, "none"))
  /\ Abort
  /\ UNCHANGED <<position, entry, rescue, localVars>>

PlaceLabel(l) == IF l = "sl" THEN "placeSl" ELSE "placeTp"

\* Mutant: the stop is the last leg, the take profit is forgotten.
PlaceStopOnly(l) ==
  /\ pc = PlaceLabel(l)
  /\ bracket[l] = "none"
  /\ SetLeg(l, "new")
  /\ fresh' = fresh \cup {l}
  /\ Settle("SUCCEEDED", "running")
  /\ UNCHANGED <<position, entry, rescue, plan, report, attempts, stale, cancelled, issues>>

Place(l) ==
  /\ pc = PlaceLabel(l)
  /\ bracket[l] = "none"
  /\ SetLeg(l, "new")
  /\ fresh' = fresh \cup {l}
  /\ IF l = "sl" THEN GoTo("placeTp") ELSE Settle("SUCCEEDED", "running")
  /\ UNCHANGED <<position, entry, rescue, plan, report, attempts, stale, cancelled, issues>>

\* -4130: the exchange refuses a second closePosition order in a slot.
PlaceFails(l) ==
  /\ pc = PlaceLabel(l)
  /\ AlgoFails("algoPlace", bracket[l] # "none", SetLeg(l, "new"))
  /\ Abort
  /\ UNCHANGED <<position, entry, rescue, localVars>>

----------------------------------------------------------------------------
\* The except block: cleanup, rescue, restoration, ProtectiveStopError.

\* Only the stop can have been placed by then.  A leg that is already gone
\* (-2011) counts as cleaned up.
DropFresh(l) == IF bracket[l] = "new" THEN SetLeg(l, "none") ELSE UNCHANGED bracket

Cleanup(l) ==
  /\ pc = "cleanup"
  /\ l \in fresh
  /\ DropFresh(l)
  /\ GoTo("rescue")
  /\ UNCHANGED <<position, entry, rescue, localVars>>

CleanupFails(l) ==
  /\ pc = "cleanup"
  /\ l \in fresh
  /\ AlgoFails("algoCancel", FALSE, DropFresh(l))
  /\ issues' = issues \cup {"cleanup"}
  /\ GoTo("rescue")
  /\ UNCHANGED <<position, entry, rescue, plan, report, attempts, stale, cancelled, fresh>>

\* _emergency_reduce: a reduce-only MARKET order of the protected quantity.
RescueExecutes ==
  /\ position > 0
  /\ \E f \in 0..Smaller(ProtectedQty, position) :
       /\ rescue' = [status |-> IF f = ProtectedQty THEN "FILLED" ELSE "EXPIRED",
                     filled |-> f]
       /\ position' = position - f

AfterRescue(complete) ==
  /\ issues' = IF complete THEN issues ELSE issues \cup {"rescue"}
  /\ attempts' = 0
  /\ GoTo(IF cancelled = {} THEN "raise" ELSE "restore")

\* Mutants: any executed quantity, and any reply, is a complete rescue.
RescuePartial(r) == r.filled > 0
RescueAny(r) == TRUE

RescueComplete(r) == r.status = "FILLED" /\ r.filled >= ProtectedQty

Rescue ==
  /\ pc = "rescue"
  /\ RescueExecutes
  /\ AfterRescue(RescueComplete(rescue'))
  /\ UNCHANGED <<entry, bracket, plan, report, stale, cancelled, fresh>>

\* A reduce-only order on a flat symbol is refused (-2022).
RescueFails ==
  /\ pc = "rescue"
  /\ position = 0 \/ "rescue" \in Rejects
  /\ AfterRescue(FALSE)
  /\ UNCHANGED <<exchangeVars, plan, report, stale, cancelled, fresh>>

RescueTimesOut ==
  /\ pc = "rescue"
  /\ \/ "rescue" \in Lost /\ UNCHANGED <<position, rescue>>
     \/ "rescue" \in Applied /\ RescueExecutes
  /\ attempts' = 0
  /\ GoTo("recoverRescue")
  /\ UNCHANGED <<entry, bracket, plan, report, stale, cancelled, fresh, issues>>

RecoverRescue ==
  /\ pc = "recoverRescue"
  /\ \/ rescue.status # "NONE" /\ AfterRescue(RescueComplete(rescue))
     \/ /\ attempts + 1 < RecoveryAttempts
        /\ attempts' = attempts + 1
        /\ GoTo("recoverRescue")
        /\ UNCHANGED issues
     \/ /\ attempts + 1 = RecoveryAttempts \/ "query" \in Rejects \cup Lost
        /\ AfterRescue(FALSE)
  /\ UNCHANGED <<exchangeVars, plan, report, stale, cancelled, fresh>>

\* Mutant: a failed restoration goes unnoticed.
RestoreUnchecked(l) ==
  /\ pc = "restore"
  /\ l \in cancelled
  /\ cancelled' = cancelled \ {l}
  /\ \/ bracket[l] = "none" /\ SetLeg(l, "old")
     \/ AlgoFails("algoPlace", bracket[l] # "none", SetLeg(l, "old"))
  /\ GoTo(IF cancelled' = {} THEN "raise" ELSE "restore")
  /\ UNCHANGED <<position, entry, rescue, plan, report, attempts, stale, fresh, issues>>

\* The cancelled old legs are put back one by one, under their old ids.
Restore(l) ==
  /\ pc = "restore"
  /\ l \in cancelled
  /\ cancelled' = cancelled \ {l}
  /\ \/ /\ bracket[l] = "none"
        /\ SetLeg(l, "old")
        /\ UNCHANGED issues
     \/ /\ AlgoFails("algoPlace", bracket[l] # "none", SetLeg(l, "old"))
        /\ issues' = issues \cup {"restoration"}
  /\ GoTo(IF cancelled' = {} THEN "raise" ELSE "restore")
  /\ UNCHANGED <<position, entry, rescue, plan, report, attempts, stale, fresh>>

\* Mutant: an incomplete rescue does not lock.
RaiseUnlocked ==
  /\ pc = "raise"
  /\ Settle(IF "rescue" \in issues THEN "FAILED" ELSE "RESCUED",
            IF issues \subseteq {"rescue"} THEN "running" ELSE "locked")
  /\ UNCHANGED <<exchangeVars, localVars>>

\* ProtectiveStopError: requires_emergency_lock unless everything worked.
Raise ==
  /\ pc = "raise"
  /\ Settle(IF "rescue" \in issues THEN "FAILED" ELSE "RESCUED",
            IF issues = {} THEN "running" ELSE "locked")
  /\ UNCHANGED <<exchangeVars, localVars>>

\* CancelledError is no Exception: nothing of the above runs.
TaskCancelled ==
  /\ pc # "done"
  /\ Cancellable
  /\ Settle("CANCELLED", "running")
  /\ UNCHANGED <<exchangeVars, localVars>>

----------------------------------------------------------------------------
\* The exchange, the user stream and humans, between two requests.

EntryFills ==
  /\ entry.status = "NEW"
  /\ entry' = [status |-> IF entry.filled + 1 = Qty THEN "FILLED" ELSE "NEW",
               filled |-> entry.filled + 1]
  /\ position' = position + 1
  /\ UNCHANGED <<rescue, bracket, pc, localVars, callerVars>>

\* handle_user_event cancels what is left of a partially filled entry.
FreezePartialEntry ==
  /\ entry.status = "NEW"
  /\ entry.filled > 0
  /\ entry' = Canceled(entry)
  /\ UNCHANGED <<position, rescue, bracket, pc, localVars, callerVars>>

\* A closePosition order closes the whole position and is gone.
TriggerFires(l) ==
  /\ position > 0
  /\ bracket[l] # "none"
  /\ position' = 0
  /\ SetLeg(l, "none")
  /\ UNCHANGED <<entry, rescue, pc, localVars, callerVars>>

\* A closePosition order of a flat symbol is dropped by the exchange.
TriggerRetires(l) ==
  /\ position = 0
  /\ bracket[l] # "none"
  /\ SetLeg(l, "none")
  /\ UNCHANGED <<position, entry, rescue, pc, localVars, callerVars>>

\* A reduce-only order of the engine or a human takes off a part.
PositionShrinks ==
  /\ position > 0
  /\ position' \in 0..(position - 1)
  /\ UNCHANGED <<entry, rescue, bracket, pc, localVars, callerVars>>

\* emergency_flatten after a lock: each of its steps may or may not succeed.
EmergencyFlatten ==
  /\ pc = "done"
  /\ engine = "locked"
  /\ position' \in {0, position}
  /\ bracket' \in {bracket, [l \in Legs |-> "none"]}
  /\ entry' \in {entry, IF entry.status = "NEW" THEN Canceled(entry) ELSE entry}
  /\ UNCHANGED <<rescue, pc, localVars, callerVars>>

----------------------------------------------------------------------------

Init ==
  /\ position \in 0..MaxPosition
  /\ bracket \in [Legs -> Owners \ {"new"}]
  /\ position > 0 => bracket["sl"] # "none"
  /\ entry = NoOrder /\ rescue = NoOrder /\ report = NoOrder
  /\ pc = "done"
  /\ plan \in Plans
  /\ attempts = 0
  /\ stale = {} /\ cancelled = {} /\ fresh = {}
  /\ issues = {}
  /\ outcome = "none"
  /\ engine = "running"
  /\ before = position

\* One await of execute_with_stop completes.
Coroutine ==
  \/ Prepare \/ PrepareFails
  \/ Submit \/ SubmitRejected \/ SubmitTimesOut \/ SubmitBreaks
  \/ RecoverFinds \/ RecoverMisses \/ RecoverTimesOut \/ RecoverErrors
  \/ Confirm \/ CancelRemainder \/ CancelRemainderFails \/ SettleRemainder
  \/ \E l \in Legs : Unbracket(l) \/ UnbracketFails(l)
  \/ \E l \in Legs : Place(l) \/ PlaceFails(l)
  \/ \E l \in Legs : Cleanup(l) \/ CleanupFails(l)
  \/ Rescue \/ RescueFails \/ RescueTimesOut \/ RecoverRescue
  \/ \E l \in Legs : Restore(l)
  \/ Raise

Environment ==
  \/ EntryFills \/ FreezePartialEntry
  \/ \E l \in Legs : TriggerFires(l) \/ TriggerRetires(l)
  \/ PositionShrinks
  \/ EmergencyFlatten

Next == StartOrder \/ Coroutine \/ TaskCancelled \/ Environment

\* asyncio resumes the coroutine whenever its request has completed, and a
\* request completes: the HTTP client has a timeout.
Spec == Init /\ [][Next]_vars /\ WF_vars(Coroutine)

----------------------------------------------------------------------------
\* Properties.

TypeOK ==
  /\ position \in Nat
  /\ entry \in Orders
  /\ rescue \in Orders
  /\ bracket \in [Legs -> Owners]
  /\ pc \in {"begin", "submit", "recover", "confirm", "cancel", "settleRemainder",
             "unbracket", "placeSl", "placeTp", "cleanup", "rescue",
             "recoverRescue", "restore", "raise", "done"}
  /\ plan \in Plans
  /\ report \in Orders
  /\ attempts \in 0..RecoveryAttempts
  /\ stale \subseteq Legs /\ cancelled \subseteq Legs /\ fresh \subseteq Legs
  /\ issues \subseteq {"rescue", "cleanup", "restoration"}
  /\ outcome \in {"none", "SUCCEEDED", "FAILED", "RESCUED", "UNKNOWN", "CANCELLED"}
  /\ engine \in {"running", "locked"}
  /\ before \in Nat

\* The faults execute_with_stop is written to survive: MARKET entries that
\* execute in full or not at all, no API error while an unknown entry is
\* looked up, no answer to an applied entry lost other than by a timeout, no
\* timeout of an algo request that was applied after all, and no cancellation
\* of the task.
HandledFaults ==
  /\ MarketFills \subseteq {0, Qty}
  /\ "query" \notin Rejects
  /\ Applied \cap {"algoCancel", "algoPlace"} = {}
  /\ ~AnswersBreak /\ ~Cancellable

\* Refinement mapping to EntryContract.
ContractPhase ==
  IF pc # "done" THEN "working"
  ELSE IF engine = "locked" THEN "escalated"
  ELSE IF outcome = "none" THEN "idle"
  ELSE IF outcome = "SUCCEEDED" THEN "committed" ELSE "undone"

Contract == INSTANCE EntryContract WITH
  phase <- ContractPhase, covered <- bracket["sl"] # "none"

\* execute_with_stop keeps the promises of EntryContract: every order ends
\* protected, undone or escalated, and a symbol at rest is never naked.
ImplementsContract == Contract!Spec

\* An account that has not been escalated never rests on a naked position
\* (execute_with_stop together with the risk policy's refusal to open over one).
RestsProtected ==
  pc = "done" /\ engine = "running" /\ position > 0 => bracket["sl"] # "none"

\* An opening order that has been reported as ended, without an emergency,
\* cannot fill any more: the remainder of every entry is confirmed dead.
ReportedEntryIsDead ==
  pc = "done" /\ engine = "running" => entry.status # "NEW"

\* A failed or rescued order that did not escalate leaves none of its own
\* protective orders behind, which could close a later position.
NoOrphanLegs ==
  pc = "done" /\ engine = "running" /\ outcome \in {"FAILED", "RESCUED"}
    => \A l \in Legs : bracket[l] # "new"

\* The reduce-only rescue takes off what this order opened, never a part of
\* the position an ADD was built upon.
RescueWithinEntry == rescue.filled <= entry.filled

\* A successful opening is bracketed on both sides for as long as the
\* position it left is open, whatever faults occurred on the way.
SuccessIsBracketed ==
  pc = "done" /\ outcome = "SUCCEEDED" /\ position > 0
    => bracket["sl"] = "new" /\ bracket["tp"] = "new"

\* RESCUED, which the engine counts and carries on after, means that the
\* exposure of the order is gone, whatever faults occurred on the way.
RescueUndoes ==
  pc = "done" /\ outcome = "RESCUED" => position <= before

\* The coroutine removes an old protective leg only once the entry is dead:
\* the combined position never grows without the old stop in place.
OldBracketOutlivesEntry ==
  [][\A l \in Legs :
       bracket[l] = "old" /\ bracket'[l] = "none" /\ position' = position /\ position > 0
         => entry.status \in Terminal \/ engine = "locked"]_vars

\* A position without a stop does not stay so: it is protected, closed, or
\* the emergency stop is called.
NakedIsTemporary ==
  position > 0 /\ bracket["sl"] = "none" ~>
    position = 0 \/ bracket["sl"] # "none" \/ engine = "locked"
====
