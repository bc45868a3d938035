---- MODULE UserFeed ----
(***************************************************************************)
(* What the exchange does to the orders of one symbol, what of it reaches  *)
(* the process over the user stream, and what the feed task makes of each  *)
(* event: an audit row (record_user_event, by two requests to the database *)
(* that are not one transaction) and, for a partly filled entry, the       *)
(* cancellation of its remainder.                                          *)
(*                                                                         *)
(* Positions follow one another; round n has an entry, the leg of its      *)
(* bracket that fires, and the orders that may close it instead.           *)
(***************************************************************************)
EXTENDS Integers, Sequences

CONSTANTS
  Rounds,   \* bound: positions
  Size,     \* contracts of an entry
  Backlog,  \* bound: an order fills only while fewer events wait for the feed
  Faults    \* which of AllFaults may happen

AllFaults == {"drop", "audit", "delete", "read", "query"}

ASSUME FeedAssumption ==
  /\ Rounds \in Nat \ {0} /\ Size \in Nat \ {0} /\ Backlog \in Nat \ {0}
  /\ Faults \subseteq AllFaults

\* Client order ids: cp-x, cp-x-sl or cp-x-tp, a decision of the model to
\* close or to reduce, cp-manual-x.
Kinds  == {"entry", "leg", "model", "manual"}
Orders == (1..Rounds) \X Kinds
Exits  == Kinds \ {"entry"}
Open   == {"NEW", "PARTIALLY_FILLED"}
Dead   == {"FILLED", "CANCELED"}
None   == [status |-> "none", filled |-> 0]

VARIABLES
  order,      \* the exchange: status and cumulative quantity per order
  connected,  \* the socket of the stream is open
  wire,       \* events sent and not handled; the feed works on the first
  feed,       \* where the feed task stands
  events,     \* table user_stream_events, ORDER_TRADE_UPDATE only
  rows        \* table executions, by client order id

feedVars == <<order, connected, wire, feed, events, rows>>

Filled(n, k) == order[<<n, k>>].filled
\* Contracts of a round that are still held.
Held(n) == Filled(n, "entry") - Filled(n, "leg") - Filled(n, "model")
             - Filled(n, "manual")
Flat == \A n \in 1..Rounds : Held(n) = 0

----------------------------------------------------------------------------
\* The exchange.  An order changes, and its event is sent if somebody listens
\* (the event that announces a new order is left out: it advances no row).

Live(o, status, filled) ==
  [order |-> o, status |-> status, filled |-> filled, source |-> "live"]

Turn(o, status, filled) ==
  /\ order' = [order EXCEPT ![o] = [status |-> status, filled |-> filled]]
  /\ wire' = IF connected
             THEN Append(wire, Live(o, status, filled))
             ELSE wire

IsOpen(o) == order[o].status \in Open
Room      == Len(wire) < Backlog

EntryFills(n) ==
  /\ Room /\ IsOpen(<<n, "entry">>)
  /\ \E k \in (Filled(n, "entry") + 1)..Size :
       Turn(<<n, "entry">>, IF k = Size THEN "FILLED" ELSE "PARTIALLY_FILLED", k)
  /\ UNCHANGED <<connected, feed, events, rows>>

\* The stop or the take profit of a position fires: it closes what is there.
LegFires(n) ==
  /\ Room /\ IsOpen(<<n, "leg">>) /\ Held(n) > 0
  /\ Turn(<<n, "leg">>, "FILLED", Held(n))
  /\ UNCHANGED <<connected, feed, events, rows>>

\* A reduce-only order of the model fills in parts, or expires when another
\* exit was faster.  Its quantity shows when it is filled: a CLOSE sells all
\* that is held, a REDUCE a part, and the legs stay for the rest.
ModelFills(n) ==
  /\ Room /\ IsOpen(<<n, "model">>)
  /\ \/ \E k \in 1..Held(n), status \in {"FILLED", "PARTIALLY_FILLED"} :
          /\ k = Held(n) => status = "FILLED"
          /\ Turn(<<n, "model">>, status, Filled(n, "model") + k)
     \/ Held(n) = 0 /\ Turn(<<n, "model">>, "CANCELED", Filled(n, "model"))
  /\ UNCHANGED <<connected, feed, events, rows>>

----------------------------------------------------------------------------
\* BinanceTestnetUserStream.events: connect, deliver in order, reconnect.

Connect ==
  /\ feed.pc = "wait" /\ ~connected /\ wire = <<>>
  /\ connected' = TRUE
  /\ UNCHANGED <<order, wire, feed, events, rows>>

Busy   == feed.pc \in {"look", "store", "handle"}
InHand == IF Busy THEN 1 ELSE 0

\* The connection, its listen key or a message breaks: the event in hand is
\* kept, any later part of what was sent may be lost.
Disconnect ==
  /\ "drop" \in Faults /\ connected
  /\ connected' = FALSE
  /\ \E k \in InHand..Len(wire) : wire' = SubSeq(wire, 1, k)
  /\ UNCHANGED <<order, feed, events, rows>>

----------------------------------------------------------------------------
\* record_user_event: look for the same final fill, then insert or replace.

\* _terminal_fill_identity: one final fill per order.
SameFill(e, f) == e.order = f.order /\ e.status = "FILLED" /\ f.status = "FILLED"

\* The newest row with this fill, 0 if there is none.
Found(e) ==
  LET same == {i \in 1..Len(events) : SameFill(events[i], e)} IN
  IF same = {} THEN 0 ELSE CHOOSE i \in same : \A j \in same : j <= i

\* _apply_order_update: quantities never fall, a final status stays, and the
\* event that announced the order does not take a partial fill back.
Advance(row, e) ==
  IF \/ row.status \in Dead /\ e.status # row.status
     \/ row.status = "PARTIALLY_FILLED" /\ e.status = "NEW"
  THEN row
  ELSE [status |-> e.status,
        filled |-> IF e.filled > row.filled THEN e.filled ELSE row.filled]

\* The write of record_user_event, one transaction: a live event takes the
\* place of the copy that was found, and the execution row follows.
Store(e, found) ==
  /\ events' = IF found = 0 THEN Append(events, e)
               ELSE IF events[found].source = "rest" /\ e.source = "live"
                    THEN [events EXCEPT ![found] = e] ELSE events
  /\ rows' = [rows EXCEPT ![e.order] = IF @ = None THEN None ELSE Advance(@, e)]

\* record_execution: the row, brought up to date with the events before it.
RowOf(o, report) ==
  LET row[i \in 0..Len(events)] ==
        IF i = 0 THEN report
        ELSE IF events[i].order = o THEN Advance(row[i - 1], events[i]) ELSE row[i - 1]
  IN row[Len(events)]

----------------------------------------------------------------------------
\* TestnetUserFeed.process, one event at a time.

Receive ==
  /\ feed.pc = "wait" /\ wire # <<>>
  /\ feed' = [feed EXCEPT !.pc = "look"]
  /\ UNCHANGED <<order, connected, wire, events, rows>>

LookUp ==
  /\ feed.pc = "look"
  /\ feed' = [pc |-> "store", found |-> Found(Head(wire))]
  /\ UNCHANGED <<order, connected, wire, events, rows>>

\* What follows the record: handle_user_event, which leaves all events alone
\* but the partial fill of an entry.
Freezes(e) == e.status = "PARTIALLY_FILLED" /\ e.order[2] = "entry"

GoOn ==
  IF Freezes(Head(wire))
  THEN feed' = [pc |-> "handle", found |-> 0] /\ wire' = wire
  ELSE feed' = [pc |-> "wait", found |-> 0] /\ wire' = Tail(wire)

StoreEvent ==
  /\ feed.pc = "store"
  /\ Store(Head(wire), feed.found)
  /\ GoOn
  /\ UNCHANGED <<order, connected>>

\* Mutant for PartialFillsFreeze: an event that is not recorded is not handled.
SkipUnrecorded ==
  /\ "audit" \in Faults
  /\ feed.pc \in {"look", "store"}
  /\ feed' = [pc |-> "wait", found |-> 0]
  /\ wire' = Tail(wire)
  /\ UNCHANGED <<order, connected, events, rows>>

\* The audit fails: the event is handled all the same.
StoreFails ==
  /\ "audit" \in Faults
  /\ feed.pc \in {"look", "store"}
  /\ GoOn
  /\ UNCHANGED <<order, connected, events, rows>>

\* Its DELETE at the exchange, if there is a remainder.
Freeze(o) == order' = [order EXCEPT ![o].status = IF IsOpen(o) THEN "CANCELED" ELSE @]

\* The event of the cancellation follows what was sent before.
Handle ==
  /\ feed.pc = "handle"
  /\ LET o == Head(wire).order IN
     /\ Freeze(o)
     /\ wire' = IF connected /\ IsOpen(o)
                THEN Append(Tail(wire), Live(o, "CANCELED", order[o].filled))
                ELSE Tail(wire)
  /\ feed' = [feed EXCEPT !.pc = "wait"]
  /\ UNCHANGED <<connected, events, rows>>

\* The DELETE fails, applied or not: the task ends, the guard will see it.
HandleFails ==
  /\ "delete" \in Faults
  /\ feed.pc = "handle"
  /\ Freeze(Head(wire).order) \/ order' = order
  /\ wire' = <<>> /\ connected' = FALSE
  /\ feed' = [feed EXCEPT !.pc = "dead"]
  /\ UNCHANGED <<events, rows>>
====
