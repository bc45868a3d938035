---- MODULE FillAudit ----
(***************************************************************************)
(* The records of what was executed: the engine writes a row when an order *)
(* has been answered, the feed a row per event, and GET /api/fills joins   *)
(* the two and asks the exchange for the fills that are in neither.        *)
(*                                                                         *)
(* A run ends in two steps: the feed stops first, the tasks that may be in *)
(* the middle of an order are cancelled afterwards.                        *)
(***************************************************************************)
EXTENDS UserFeed

VARIABLES
  tasks,   \* cadence tasks and guard are alive
  work,    \* reports of orders that are to be recorded, or nothing
  poll     \* a GET /api/fills in progress

engineVars == <<tasks, work>>
vars       == <<feedVars, engineVars, poll>>

Idle == [stage |-> "idle", order |-> <<1, "entry">>, report |-> None]
Off  == [pc |-> "off", found |-> 0]

----------------------------------------------------------------------------
\* The engine's side.

\* A run begins if no entry is pending and what is held has its stop.
Start ==
  /\ ~tasks /\ work = Idle
  /\ \A n \in 1..Rounds : ~IsOpen(<<n, "entry">>)
  /\ \A n \in 1..Rounds : Held(n) > 0 => IsOpen(<<n, "leg">>)
  /\ tasks' = TRUE
  /\ feed' = [Off EXCEPT !.pc = "wait"]
  /\ UNCHANGED <<order, connected, wire, events, rows, work, poll>>

\* An entry is sent: nothing is held.  Bound: the last round is the one played,
\* the earlier ones are what Init says of the past.
PlaceEntry(n) ==
  /\ tasks /\ work = Idle /\ Flat /\ n = Rounds
  /\ order[<<n, "entry">>] = None
  /\ order' = [order EXCEPT ![<<n, "entry">>].status = "NEW"]
  /\ work' = [stage |-> "entry", order |-> <<n, "entry">>, report |-> None]
  /\ UNCHANGED <<connected, wire, feed, events, rows, tasks, poll>>

\* execute_with_stop gives up waiting and cancels the remainder.
CancelRemainder ==
  /\ work.stage = "entry" /\ IsOpen(work.order)
  /\ Turn(work.order, "CANCELED", order[work.order].filled)
  /\ UNCHANGED <<connected, feed, events, rows, engineVars, poll>>

\* The entry is dead: what was filled gets its bracket, and the report calls
\* a cancelled entry with fills PARTIALLY_FILLED.
Bracket ==
  /\ work.stage = "entry" /\ order[work.order].status \in Dead
  /\ LET o == order[work.order] n == work.order[1] IN
     /\ order' = IF o.filled = 0 THEN order
                 ELSE [order EXCEPT ![<<n, "leg">>].status = "NEW"]
     /\ work' = [work EXCEPT !.stage = "record",
          !.report = IF o.status = "CANCELED" /\ o.filled > 0
                     THEN [o EXCEPT !.status = "PARTIALLY_FILLED"] ELSE o]
  /\ UNCHANGED <<connected, wire, feed, events, rows, tasks, poll>>

\* A decision of the model to close or to reduce: a reduce-only order.  Bound:
\* one in a round.
PlaceClose(n) ==
  /\ tasks /\ work = Idle /\ Held(n) > 0
  /\ order[<<n, "model">>] = None
  /\ order' = [order EXCEPT ![<<n, "model">>].status = "NEW"]
  /\ work' = [stage |-> "close", order |-> <<n, "model">>, report |-> None]
  /\ UNCHANGED <<connected, wire, feed, events, rows, tasks, poll>>

\* Its answer is its state of that moment.
Answer ==
  /\ work.stage = "close"
  /\ work' = [work EXCEPT !.stage = "record", !.report = order[work.order]]
  /\ UNCHANGED <<feedVars, tasks, poll>>

\* Mutant for RowsKeepUp: events that were there first are not looked at.
RecordAsReported ==
  /\ work.stage = "record"
  /\ rows' = [rows EXCEPT ![work.order] = work.report]
  /\ work' = Idle
  /\ UNCHANGED <<order, connected, wire, feed, events, tasks, poll>>

Record ==
  /\ work.stage = "record"
  /\ rows' = [rows EXCEPT ![work.order] = RowOf(work.order, work.report)]
  /\ work' = Idle
  /\ UNCHANGED <<order, connected, wire, feed, events, tasks, poll>>

RecordFails ==
  /\ "audit" \in Faults
  /\ work.stage = "record"
  /\ work' = Idle
  /\ UNCHANGED <<feedVars, tasks, poll>>

\* scheduler.stop, or the guard that finds the feed dead: the feed ends after
\* its event or is cancelled in it.
StopFeed ==
  /\ tasks /\ feed.pc # "off"
  /\ feed' = Off
  /\ connected' = FALSE /\ wire' = <<>>
  /\ UNCHANGED <<order, events, rows, engineVars, poll>>

\* ... and then the other tasks.
CancelTasks ==
  /\ tasks /\ feed.pc = "off"
  /\ tasks' = FALSE
  /\ work' = Idle
  /\ UNCHANGED <<feedVars, poll>>

\* A human closes what is held; the legs go with it.  Bound: once per round.
CloseManually(n) ==
  /\ ~tasks /\ work = Idle /\ Held(n) > 0
  /\ order[<<n, "manual">>] = None
  /\ order' = [order EXCEPT
       ![<<n, "manual">>] = [status |-> "FILLED", filled |-> Held(n)],
       ![<<n, "leg">>] = IF IsOpen(<<n, "leg">>) THEN [@ EXCEPT !.status = "CANCELED"] ELSE @]
  /\ work' = [stage |-> "record", order |-> <<n, "manual">>,
              report |-> [status |-> "FILLED", filled |-> Held(n)]]
  /\ UNCHANGED <<connected, wire, feed, events, rows, tasks, poll>>

----------------------------------------------------------------------------
\* recent_trade_fills.

Final == {i \in 1..Len(events) : events[i].status = "FILLED"}

\* Mutant for FillsListedOnce: what record_user_event found is relied on.
EveryFinal == Final

\* One row per final fill, newest first, a live event before its copy.
Kept ==
  LET Before(i, j) == IF events[i].source = events[j].source THEN i > j
                      ELSE events[i].source = "live"
  IN {i \in Final : \A j \in Final : SameFill(events[i], events[j]) /\ j # i => Before(i, j)}

InEvents == {events[i].order : i \in Kept}
\* Rows that have no event.
Fallback == {o \in Orders : rows[o].status = "FILLED" /\ o \notin InEvents}
Listed   == InEvents \cup Fallback

\* _trade_fill_identity and _latest_entry_before: the entry an exit is
\* related to, 0 if none.  An event that is reduce-only goes with the latest
\* entry whose event is there; a row alone with none.
RelatedTo(o) ==
  IF o[2] = "leg" THEN o[1]
  ELSE IF o \in Fallback THEN 0
  ELSE LET before == {m \in 1..o[1] : <<m, "entry">> \in InEvents} IN
       IF before = {} THEN 0 ELSE CHOOSE m \in before : \A l \in before : l <= m

Related == {RelatedTo(o) : o \in {x \in Listed : x[2] # "entry"}}

\* The exit of a later position is taken for the exit of this one, because the
\* later entry has no event.
Mistaken(n) == \E o \in Listed : o[2] # "entry" /\ o[1] # n /\ RelatedTo(o) = n

\* The sale of a part is taken for the exit of the whole: its event alone
\* explains the entry.
PartExplains(n) == <<n, "model">> \in InEvents /\ RelatedTo(<<n, "model">>) = n

----------------------------------------------------------------------------
\* GET /api/fills, one at a time.

\* Entries with a fill and no exit.
\* Mutant for PollFindsExits: only those whose event is there.
ByEvent     == {n \in 1..Rounds : <<n, "entry">> \in InEvents /\ n \notin Related}
Unexplained == {n \in 1..Rounds : <<n, "entry">> \in Listed /\ n \notin Related}

\* due, a history variable: the entries whose leg had fired when the list was
\* read.  It is emptied when an answer is missing.
NoPoll == [pc |-> "idle", exits |-> {}, todo |-> {}, at |-> {}, found |-> 0,
           due |-> {}]

BeginPoll ==
  /\ poll.pc = "idle"
  /\ poll' = [poll EXCEPT
       !.pc = "account",
       !.exits = Unexplained,
       !.todo = {o \in Fallback : o[2] = "manual"},
       !.due = {n \in 1..Rounds : /\ <<n, "entry">> \in Listed
                                  /\ ~Mistaken(n) /\ ~PartExplains(n)
                                  /\ order[<<n, "leg">>].status = "FILLED"}]
  /\ UNCHANGED <<feedVars, engineVars>>

\* The manual orders are asked for, and the exits if nothing is held.
Ask(flat) ==
  poll' = [poll EXCEPT
    !.pc = "ask", !.exits = {},
    !.todo = @ \cup (IF flat THEN {<<n, "leg">> : n \in poll.exits} ELSE {}),
    !.due = IF flat THEN @ ELSE {}]

ReadAccount ==
  /\ poll.pc = "account"
  /\ Ask(Flat)
  /\ UNCHANGED <<feedVars, engineVars>>

AccountFails ==
  /\ "read" \in Faults
  /\ poll.pc = "account"
  /\ Ask(FALSE)
  /\ UNCHANGED <<feedVars, engineVars>>

\* completed_order_fill_event and completed_exit_fill_event.
FindFill(o) ==
  /\ poll.pc = "ask" /\ o \in poll.todo
  /\ order[o].status = "FILLED"
  /\ poll' = [poll EXCEPT !.pc = "look", !.todo = @ \ {o}, !.at = {o}]
  /\ UNCHANGED <<feedVars, engineVars>>

\* Not there (yet), or the request fails, or it did a moment ago: asked again
\* after a while.
FindNothing(o) ==
  /\ poll.pc = "ask" /\ o \in poll.todo
  /\ order[o].status # "FILLED" \/ "query" \in Faults
  /\ poll' = [poll EXCEPT !.todo = @ \ {o},
                          !.due = IF order[o].status = "FILLED" THEN {} ELSE @]
  /\ UNCHANGED <<feedVars, engineVars>>

Copy(o) == [order |-> o, status |-> "FILLED", filled |-> order[o].filled, source |-> "rest"]

LookUpCopy(o) ==
  /\ poll.pc = "look" /\ poll.at = {o}
  /\ poll' = [poll EXCEPT !.pc = "store", !.found = Found(Copy(o))]
  /\ UNCHANGED <<feedVars, engineVars>>

StoreCopy(o) ==
  /\ poll.pc = "store" /\ poll.at = {o}
  /\ Store(Copy(o), poll.found)
  /\ poll' = [poll EXCEPT !.pc = "ask", !.at = {}, !.found = 0]
  /\ UNCHANGED <<order, connected, wire, feed, engineVars>>

\* The request ends with an error.
StoreCopyFails ==
  /\ "audit" \in Faults
  /\ poll.pc \in {"look", "store"}
  /\ poll' = NoPoll
  /\ UNCHANGED <<feedVars, engineVars>>

\* The list is read a second time and sent.
EndPoll ==
  /\ poll.pc = "ask" /\ poll.todo = {}
  /\ poll' = NoPoll
  /\ UNCHANGED <<feedVars, engineVars>>

----------------------------------------------------------------------------

\* The tables start empty, or with an earlier entry, its event or its row,
\* whose stop or target fired while nobody listened.
Init ==
  /\ \E known \in {"nothing", "event", "row"} :
       LET whole == [status |-> "FILLED", filled |-> Size]
           past  == IF known = "nothing" THEN {} ELSE {<<1, "entry">>, <<1, "leg">>}
       IN
       /\ order = [o \in Orders |-> IF o \in past THEN whole ELSE None]
       /\ rows = [o \in Orders |->
            IF known = "row" /\ o = <<1, "entry">> THEN whole ELSE None]
       /\ events = IF known = "event" THEN <<Live(<<1, "entry">>, "FILLED", Size)>>
                   ELSE <<>>
  /\ connected = FALSE /\ wire = <<>> /\ feed = Off
  /\ tasks = FALSE /\ work = Idle
  /\ poll = NoPoll

Exchange == \E n \in 1..Rounds : EntryFills(n) \/ LegFires(n) \/ ModelFills(n)

Stream == Connect \/ Disconnect \/ Receive \/ LookUp \/ StoreEvent \/ StoreFails
            \/ Handle \/ HandleFails

Engine ==
  \/ Start \/ CancelRemainder \/ Bracket \/ Answer \/ Record \/ RecordFails
  \/ StopFeed \/ CancelTasks
  \/ \E n \in 1..Rounds :
       PlaceEntry(n) \/ PlaceClose(n) \/ CloseManually(n)

Fills ==
  \/ BeginPoll \/ ReadAccount \/ AccountFails \/ StoreCopyFails \/ EndPoll
  \/ \E o \in Orders :
       FindFill(o) \/ FindNothing(o) \/ LookUpCopy(o) \/ StoreCopy(o)

Next ==
  \/ (Exchange \/ Stream) /\ UNCHANGED <<engineVars, poll>>
  \/ Engine \/ Fills

Spec == Init /\ [][Next]_vars

----------------------------------------------------------------------------
TypeOK ==
  /\ order \in [Orders -> [status : Open \cup Dead \cup {"none"}, filled : 0..Size]]
  /\ rows \in [Orders -> [status : Open \cup Dead \cup {"none"}, filled : 0..Size]]
  /\ connected \in BOOLEAN /\ tasks \in BOOLEAN
  /\ Len(wire) <= Backlog + 1
  /\ feed.pc \in {"off", "wait", "look", "store", "handle", "dead"}
  /\ work.stage \in {"idle", "entry", "close", "record"}
  /\ poll.pc \in {"idle", "account", "ask", "look", "store"}

\* record_execution and record_user_event write one row from two sides.  In
\* whatever order the answer of an order and its events arrive, the row is
\* never behind an event that is stored, and an order whose whole quantity is
\* in its row is not called open there: no late event takes a final fill back.
RowsKeepUp ==
  \A o \in Orders : rows[o] # None =>
    /\ \A i \in 1..Len(events) : events[i].order = o =>
         /\ events[i].filled <= rows[o].filled
         /\ events[i].status \in Dead => rows[o].status = events[i].status
    /\ order[o].status = "FILLED" /\ rows[o].filled = order[o].filled
         => rows[o].status = "FILLED"

\* The feed and a GET /api/fills may store the same fill between each other's
\* SELECT and INSERT.  recent_trade_fills lists it exactly once all the same,
\* and as the stream told it if the stream did.
FillsListedOnce ==
  \A o \in Orders : LET kept == {i \in Kept : events[i].order = o} IN
    /\ \A i, j \in kept : i = j
    /\ (\E i \in Final : events[i].order = o) => kept # {}
    /\ (\E i \in Final : events[i].order = o /\ events[i].source = "live")
         => \A i \in kept : events[i].source = "live"

\* TestnetUserFeed.process goes on to its next event only when the entry whose
\* partial fill it was handed is dead at the exchange, also when the audit of
\* that event failed.
PartialFillsFreeze ==
  [][Busy /\ feed'.pc = "wait" /\ Freezes(Head(wire))
     => order'[Head(wire).order].status \in Dead]_vars

\* A GET /api/fills that found the account flat and had all its answers lists
\* the exits of every listed entry whose stop or target had fired before it
\* began, however many events of the two orders the stream has lost.  It is
\* never asked for, though, if another exit had been related to the entry: that
\* of a later position whose entry has no event, or a REDUCE of this one.
PollFindsExits ==
  poll.pc = "ask" /\ poll.todo = {}
  => \A n \in poll.due : <<n, "leg">> \in Listed
====
