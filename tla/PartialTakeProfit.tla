---- MODULE PartialTakeProfit ----
(***************************************************************************)
(* PartialTakeProfitManager for one symbol: the shadow experiment that     *)
(* sells a fraction of a position at +1R and the rest at breakeven.  It    *)
(* runs in the same pass of the guard as the trailing stop, on the same    *)
(* snapshot, and touches nothing but its own state and its event table.    *)
(***************************************************************************)
EXTENDS VenuePosition

CONSTANTS
  Targets,      \* the profiles: target in quarters of R, fraction in percent
  Step,         \* market quantity step
  MinQuantity,  \* market minimum quantity
  MaxMishaps    \* bound: failing writes here, stops and crashes in GuardTick

ASSUME TargetAssumption ==
  /\ Targets \in Seq([target : Nat, percent : 0..100])
  /\ {Step, MinQuantity} \subseteq Nat \ {0}
  /\ MaxMishaps \in Nat

VARIABLES
  book,        \* _states[symbol]; NoBook when absent
  bookLoaded,  \* _loaded
  bookSaved,   \* the runtime_state row
  bookDirty,   \* `changed` in maintain
  left,        \* profiles this pass has still to look at
  sold,        \* history: events written [side, entry, profile, status]
  lost,        \* history: sales at the target whose write failed or was cut off
  mishaps      \* failing writes, stops and crashes so far

experiment  == <<book, bookLoaded, sold, lost>>
partialVars == <<experiment, bookSaved, bookDirty, left, mishaps>>

Untouched == [stage |-> "waiting", quantity |-> 0]
NoBook == [side |-> "NONE", entry |-> NoPrice, risk |-> 0, quantity |-> 0,
           progress |-> [i \in DOMAIN Targets |-> Untouched]]
Sold(held, i, status) ==
  [side |-> held.side, entry |-> held.entry, profile |-> i, status |-> status]

\* Mutant: a position whose entry moved keeps the stages of the profiles.
NewBookCarriesOver ==
  [side |-> seen.side, entry |-> seen.entry, risk |-> Distance(seen.entry, seen.stop),
   quantity |-> seen.quantity, progress |-> book.progress]

\* _load, then the states of closed positions, or the position at hand: a new
\* one and one whose entry moved start over, unless R cannot be inferred.
NewBook ==
  [side |-> seen.side, entry |-> seen.entry, risk |-> Distance(seen.entry, seen.stop),
   quantity |-> seen.quantity, progress |-> [i \in DOMAIN Targets |-> Untouched]]

\* _record of some events, some of which do not reach the table.
Write(events, missing) ==
  /\ sold' = sold \cup (events \ missing)
  /\ lost' = lost \cup {e \in missing : e.status = "partial"}

WriteFails ==
  /\ "experiment" \in Faults /\ mishaps < MaxMishaps
  /\ mishaps' = mishaps + 1

\* A profile between its two sales records that the position closed first.
Closed(held) ==
  {Sold(held, i, "closed") :
     i \in {j \in DOMAIN Targets : held.progress[j].stage = "partial"}}

Held == IF bookLoaded THEN book ELSE bookSaved

LoadBook ==
  /\ pc = "partial"
  /\ bookLoaded' = TRUE
  /\ LET held == Held
         same == held.side = seen.side /\ held.entry = seen.entry
     IN \/ /\ seen.side = "NONE"
           /\ book' = NoBook
           /\ left' = <<>>
           /\ \/ /\ pc' = "targets"
                 /\ bookDirty' = (held # NoBook)
                 /\ Write(Closed(held), {}) /\ UNCHANGED mishaps
              \/ /\ WriteFails
                 /\ \E missing \in SUBSET Closed(held) \ {{}} : Write(Closed(held), missing)
                 /\ pc' = "done"
                 /\ UNCHANGED bookDirty
        \/ /\ seen.side # "NONE" /\ seen.stop # NoPrice
           /\ same \/ LossSide(seen.side, seen.entry, seen.stop)
           /\ book' = IF same THEN held ELSE NewBook
           /\ bookDirty' = ~same
           /\ left' = [i \in DOMAIN Targets |-> i]
           /\ pc' = "targets"
           /\ UNCHANGED <<sold, lost, mishaps>>
        \/ /\ seen.side # "NONE"
           /\ seen.stop = NoPrice \/ (~same /\ ~LossSide(seen.side, seen.entry, seen.stop))
           /\ book' = held
           /\ bookDirty' = FALSE
           /\ left' = <<>>
           /\ pc' = "done"
           /\ UNCHANGED <<sold, lost, mishaps>>
  /\ UNCHANGED <<venueVars, running, seen, have, bookSaved>>

----------------------------------------------------------------------------
\* _maintain_profile for the profile at the head of left.

Target == Targets[Head(left)]
Sale   == book.progress[Head(left)]

\* _round_down of the fraction, and the conservative limit at the target.
Portion == ((book.quantity * Target.percent) \div (100 * Step)) * Step
Viable  == Portion >= MinQuantity /\ book.quantity > Portion
TargetPrice ==
  LET raw == Behind(book.side, 4 * book.entry, 0 - Target.target * book.risk)
      step == 4 * Tick
  IN IF book.side = "LONG" THEN ((raw + step - 1) \div step) * Tick
     ELSE (raw \div step) * Tick

Reached == Gain(book.side, TargetPrice, seen.mark) >= 0
AtBreakeven == Gain(book.side, book.entry, seen.mark) <= 0

\* What the profile does on this mark: the next stage, or the present one.
NextStage ==
  CASE Sale.stage = "waiting" /\ ~Viable            -> "unviable"
    [] Sale.stage = "waiting" /\ Viable /\ Reached  -> "partial"
    [] Sale.stage = "partial" /\ AtBreakeven        -> "breakeven"
    [] OTHER                                        -> Sale.stage

TargetQuiet ==
  /\ pc = "targets" /\ left # <<>>
  /\ NextStage = Sale.stage
  /\ left' = Tail(left)
  /\ UNCHANGED <<venueVars, passVars, experiment, bookSaved, bookDirty, mishaps>>

\* The progress is changed first, then the event is written; if that fails the
\* rest of the pass is skipped, nothing is saved now, and the next pass goes on
\* from the changed progress.
Simulate ==
  /\ pc = "targets" /\ left # <<>>
  /\ NextStage # Sale.stage
  /\ book' = [book EXCEPT !.progress[Head(left)] =
        [stage |-> NextStage,
         quantity |-> IF NextStage = "partial" THEN Portion ELSE @.quantity]]

Event == {Sold(book, Head(left), NextStage)}

TargetRecords ==
  /\ Simulate
  /\ \/ /\ Write(Event, {}) /\ UNCHANGED mishaps
        /\ bookDirty' = TRUE /\ left' = Tail(left)
     \/ /\ WriteFails
        /\ Write(Event, Event) /\ bookDirty' = FALSE /\ left' = <<>>
  /\ UNCHANGED <<venueVars, passVars, bookLoaded, bookSaved>>

\* The guard is cancelled inside such a write: the transaction is rolled back,
\* what was changed in memory stays.
CutRecord ==
  \/ Simulate /\ Write(Event, Event) /\ UNCHANGED bookLoaded
  \/ /\ pc = "partial" /\ seen.side = "NONE"
     /\ book' = NoBook /\ bookLoaded' = TRUE
     /\ \E missing \in SUBSET Closed(Held) \ {{}} : Write(Closed(Held), missing)

\* The pass is over; its state is saved if it changed.
TargetsDone ==
  /\ pc = "targets" /\ left = <<>>
  /\ pc' = "done"
  /\ \/ bookSaved' = (IF bookDirty THEN book ELSE bookSaved) /\ UNCHANGED mishaps
     \/ bookDirty /\ WriteFails /\ UNCHANGED bookSaved
  /\ UNCHANGED <<venueVars, running, seen, have, experiment, bookDirty, left>>

PartialInit ==
  /\ book = NoBook
  /\ bookLoaded = FALSE
  /\ bookSaved = NoBook
  /\ bookDirty = FALSE
  /\ left = <<>>
  /\ sold = {} /\ lost = {} /\ mishaps = 0

PartialNext == LoadBook \/ TargetQuiet \/ TargetRecords \/ TargetsDone
====
