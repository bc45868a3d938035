---- MODULE VenuePosition ----
(***************************************************************************)
(* One futures position as the guard task of the scheduler meets it: what  *)
(* the exchange holds, and the snapshot that trailing_positions() reads of *)
(* it.  The guard reads account and trigger orders with two requests that  *)
(* run at the same time, then works on the snapshot under the lock of the  *)
(* symbol; the exchange, the humans and, before the lock is taken, the     *)
(* engine's own orders go on changing the position behind it.              *)
(*                                                                         *)
(* Prices are integers.  The code treats LONG and SHORT as mirror images;  *)
(* Gain is that mirror, so that every comparison is written once.          *)
(***************************************************************************)
EXTENDS Naturals, Integers, Sequences

CONSTANTS
  Prices,       \* bound: the prices a mark may take, an interval above 0
  Tick,         \* tick_size of the contract
  Entries,      \* prices at which positions are opened
  Risk,         \* distance of the first stop from the entry
  Lot,          \* contracts of one opening order
  MaxOpenings,  \* bound: opening orders (OPEN or ADD) in a behaviour
  Faults        \* which of AllFaults may happen

AllFaults == {"read", "skew", "removeRefused", "removeLost", "removeApplied",
              "placeRefused", "placeLost", "placeApplied", "database",
              "experiment", "crash", "stop"}

ASSUME VenueAssumption ==
  /\ Prices \subseteq Nat \ {0}
  /\ Entries \subseteq Prices
  /\ {Tick, Risk, Lot} \subseteq Nat \ {0}
  /\ MaxOpenings \in Nat
  /\ Faults \subseteq AllFaults

VARIABLES
  position,  \* side, entryPrice and contracts at the exchange
  mark,      \* mark price
  stop,      \* trigger of the closePosition stop at the exchange, NoPrice if none
  openings,  \* opening orders so far
  truth,     \* history of this position: first R, best mark, tightest stop
  running,   \* engine.running
  pc,        \* where the guard stands in one pass
  seen,      \* the TrailingPosition it works on
  have       \* which of the two reads of the snapshot have been answered

venueVars == <<position, mark, stop, openings, truth>>
passVars  == <<running, pc, seen, have>>

NoPrice == 0
Flat    == [side |-> "NONE", entry |-> NoPrice, quantity |-> 0]
Unread  == [side |-> "NONE", entry |-> NoPrice, quantity |-> 0,
            mark |-> NoPrice, stop |-> NoPrice]
Sides   == {"LONG", "SHORT"}

\* How much better `to` is than `from` for a position of this side.
Gain(side, from, to) == IF side = "LONG" THEN to - from ELSE from - to
\* The price `distance` behind `price`, on the losing side of it.
Behind(side, price, distance) ==
  IF side = "LONG" THEN price - distance ELSE price + distance
Better(side, a, b) == IF Gain(side, a, b) > 0 THEN b ELSE a
Distance(a, b)     == IF a < b THEN b - a ELSE a - b

\* _is_loss_side
LossSide(side, entry, trigger) == Gain(side, trigger, entry) > 0

\* Exchange triggers are multiples of the tick.
OnTick(price) == price % Tick = 0

\* The guard holds the symbol lock from the end of its reads on.
Locked == pc \notin {"idle", "read", "done"} /\ seen.side # "NONE"

----------------------------------------------------------------------------
\* The exchange, and orders of the engine executed with their bracket (the
\* business of ProtectedEntry).

NewTruth(entry, trigger, price) ==
  [risk |-> Distance(entry, trigger), peak |-> price, tightest |-> trigger]

\* An OPEN of the engine, filled at the mark.
Open(side, entry) ==
  /\ running /\ ~Locked
  /\ pc = "read" => "skew" \in Faults
  /\ position = Flat
  /\ openings < MaxOpenings
  /\ LET trigger == Behind(side, entry, Risk) IN
       /\ OnTick(trigger) /\ trigger > 0
       /\ position' = [side |-> side, entry |-> entry, quantity |-> Lot]
       /\ stop' = trigger
       /\ truth' = NewTruth(entry, trigger, entry)
       /\ mark' = entry
  /\ openings' = openings + 1
  /\ UNCHANGED passVars

\* An ADD: the average entry moves, the stop is the tighter of both and still
\* on the losing side, or the risk policy refuses.
Add(entry, trigger) ==
  /\ running /\ ~Locked
  /\ pc = "read" => "skew" \in Faults
  /\ position # Flat /\ stop # NoPrice
  /\ openings < MaxOpenings
  /\ entry # position.entry /\ Distance(entry, position.entry) = 1
  /\ OnTick(trigger)
  /\ Gain(position.side, stop, trigger) >= 0
  /\ LossSide(position.side, entry, trigger)
  /\ Gain(position.side, trigger, mark) > 0
  /\ position' = [position EXCEPT !.entry = entry, !.quantity = @ + Lot]
  /\ stop' = trigger
  /\ truth' = NewTruth(entry, trigger, mark)
  /\ openings' = openings + 1
  /\ UNCHANGED <<mark, passVars>>

\* The exchange moves where a step of the guard may tell the difference: while
\* it sleeps, reads or replaces a stop.  At other moments a move commutes with
\* the guard's next step and is left out.
MarkMatters     == pc \in {"idle", "install", "restore"}
PositionMatters == MarkMatters \/ pc \in {"read", "find", "remove"}

\* The mark moves; the position remembers the best it has seen.
MoveMark(price) ==
  /\ position # Flat /\ MarkMatters
  /\ price # mark
  /\ mark' = price
  /\ truth' = [truth EXCEPT !.peak = Better(position.side, @, price)]
  /\ UNCHANGED <<position, stop, openings, passVars>>

\* The position ends: the stop fires, the take profit fires, a reduce-only
\* order or a human closes it.  closePosition orders end with it.
Close ==
  /\ position # Flat /\ PositionMatters
  /\ position' = Flat
  /\ stop' = NoPrice
  /\ truth' = [risk |-> 0, peak |-> NoPrice, tightest |-> NoPrice]
  /\ UNCHANGED <<mark, openings, passVars>>

----------------------------------------------------------------------------
\* The guard: trailing_positions() and the lock of the symbol.

\* After the reads the guard skips a symbol whose lock a cycle holds.
Proceed(read) ==
  IF read = {"account", "levels"} THEN pc' \in {"load", "done"} ELSE pc' = pc

ReadAccount ==
  /\ pc = "read" /\ "account" \notin have
  /\ have' = have \cup {"account"}
  /\ seen' = [seen EXCEPT !.side = position.side, !.entry = position.entry,
                          !.quantity = position.quantity, !.mark = mark]
  /\ Proceed(have')
  /\ UNCHANGED <<venueVars, running>>

ReadLevels ==
  /\ pc = "read" /\ "levels" \notin have
  /\ have' = have \cup {"levels"}
  /\ seen' = [seen EXCEPT !.stop = stop]
  /\ Proceed(have')
  /\ UNCHANGED <<venueVars, running>>

\* A failed read ends the pass; the guard notes the error and sleeps.
ReadFails ==
  /\ pc = "read" /\ "read" \in Faults
  /\ pc' = "done"
  /\ UNCHANGED <<venueVars, running, seen, have>>

BeginPass ==
  /\ running /\ pc = "idle"
  /\ pc' = "read"
  /\ seen' = Unread
  /\ have' = {}
  /\ UNCHANGED <<venueVars, running>>

VenueInit ==
  /\ position = Flat
  /\ mark \in Entries
  /\ stop = NoPrice
  /\ openings = 0
  /\ truth = [risk |-> 0, peak |-> NoPrice, tightest |-> NoPrice]
  /\ running = TRUE
  /\ pc = "idle"
  /\ seen = Unread
  /\ have = {}

VenueNext ==
  \/ \E side \in Sides, entry \in Entries : Open(side, entry)
  \/ \E entry \in Prices, trigger \in Prices \cup {stop} : Add(entry, trigger)
  \/ \E price \in Prices : MoveMark(price)
  \/ Close
  \/ BeginPass \/ ReadAccount \/ ReadLevels \/ ReadFails
====
