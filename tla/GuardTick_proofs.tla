---- MODULE GuardTick_proofs ----
(***************************************************************************)
(* Proofs about GuardTick, for any prices, tick, profiles and targets, any *)
(* number of positions, stops and crashes.                                 *)
(***************************************************************************)
EXTENDS GuardTick, TLAPS

----------------------------------------------------------------------------
\* Types: TypeOK with the shape of every record.

Progresses == [DOMAIN Profiles -> [active : BOOLEAN, last : Nat, filled : BOOLEAN]]
States == [side : Sides \cup {"NONE"}, entry : Nat, risk : Nat, best : Nat, progress : Progresses]
Stages == [DOMAIN Targets ->
             [stage : {"waiting", "partial", "breakeven", "unviable"}, quantity : Nat]]
Books == [side : Sides \cup {"NONE"}, entry : Nat, risk : Nat, quantity : Nat, progress : Stages]

VenueTypes ==
  /\ position \in [side : Sides \cup {"NONE"}, entry : Nat, quantity : Nat]
  /\ mark \in Prices
  /\ stop \in Nat
  /\ openings \in 0..MaxOpenings
  /\ truth \in [risk : Nat, peak : Nat, tightest : Nat]
  /\ running \in BOOLEAN
  /\ seen \in [side : Sides \cup {"NONE"}, entry : Nat, quantity : Nat, mark : Nat, stop : Nat]
  /\ have \subseteq {"account", "levels"}

TrailingTypes ==
  /\ mode \in Modes
  /\ state \in States
  /\ saved \in [mode : Modes \cup {"NONE"}, state : States]
  /\ loaded \in BOOLEAN /\ dirty \in BOOLEAN
  /\ todo \in Seq(DOMAIN Profiles)
  /\ candidate \in Nat /\ previous \in Nat
  /\ fills \in [DOMAIN Profiles -> Nat]

PartialTypes ==
  /\ book \in Books /\ bookSaved \in Books
  /\ bookLoaded \in BOOLEAN /\ bookDirty \in BOOLEAN
  /\ left \in Seq(DOMAIN Targets)

Types == VenueTypes /\ TrailingTypes /\ PartialTypes /\ mishaps \in 0..MaxMishaps

----------------------------------------------------------------------------
\* Where the guard works on the position it has seen.
Managing == {"profile", "find", "remove", "install", "restore", "applied", "critical"}
Replacing == {"find", "remove", "install", "restore", "applied", "critical"}

\* The state at hand is that of the position seen, only mode "live" replaces
\* stops, and only for its one profile.
AtHand ==
  /\ pc \in Managing =>
       /\ seen.side # "NONE" /\ seen.stop # NoPrice
       /\ state.side = seen.side /\ state.entry = seen.entry
  /\ pc \in Managing \cup {"manage"} => loaded
  /\ pc \in Replacing => mode = "live" /\ todo # <<>>
  /\ pc \in Managing /\ mode # "shadow" => todo \in {<<>>, <<LiveProfile>>}

\* Marks and the triggers made of them are prices.
RealPrices ==
  /\ pc \notin {"idle", "read", "done"} \/ (pc = "read" /\ "account" \in have)
       => seen.mark # NoPrice
  /\ state.side # "NONE" => state.best # NoPrice
  /\ saved.state.side # "NONE" => saved.state.best # NoPrice
  /\ pc \in {"find", "remove", "install"} => candidate # NoPrice
  /\ pc \in {"remove", "install", "restore"} => previous # NoPrice

\* A DELETE is answered when it was carried out, and the database records.
NoLostDelete == {"removeApplied", "database"} \cap Faults = {}

\* A running engine is without a stop only inside a replacement.
StopHeld ==
  running /\ position # Flat /\ stop = NoPrice
    => pc \in {"install", "restore", "critical", "escalate"}

\* Both reads of a snapshot meet the same account.
NoSkew == "skew" \notin Faults

Same(a, b) == a.side = b.side /\ a.entry = b.entry

\* What the guard has seen is the position, unless that is closed by now.
SeenIsReal ==
  position # Flat =>
    /\ Gain(position.side, mark, truth.peak) >= 0
    /\ position.side # "NONE"
    /\ pc \notin {"idle", "done"} /\ seen.side # "NONE" =>
         Same(seen, position) /\ Gain(position.side, seen.mark, truth.peak) >= 0
    /\ \/ pc = "read" /\ "levels" \in have
       \/ pc \in {"load", "manage"} /\ seen.side # "NONE"
       \/ pc = "profile" /\ todo # <<>>
       => seen.stop = stop

\* The stop that a replacement takes away is the tightest so far.
Ratchet ==
  position # Flat =>
    /\ stop # NoPrice => stop = truth.tightest
    /\ pc \in {"remove", "install"} \/ (pc = "restore" /\ stop = NoPrice)
         => truth.tightest = previous
    /\ pc \in {"remove", "install"} => Gain(seen.side, previous, candidate) > 0

\* The live profile follows a whole R later than it starts.
LateActivation == Profiles[LiveProfile].activation >= Profiles[LiveProfile].distance + 4

\* A price is the stop that position p, with history t, was opened with, or one
\* that the guard may have moved it to.
First(p, t, price) ==
  Distance(p.entry, price) = t.risk /\ LossSide(p.side, p.entry, price)
Moved(p, t, price) ==
  /\ ~LossSide(p.side, p.entry, price)
  /\ 4 * Gain(p.side, price, t.peak) >= Profiles[LiveProfile].distance * t.risk
Keeps(p, t, price) == First(p, t, price) \/ Moved(p, t, price)

Distances ==
  position # Flat =>
    /\ stop # NoPrice => Keeps(position, truth, stop)
    /\ pc \in {"remove", "install", "restore"} => Keeps(position, truth, previous)
    /\ pc \in {"find", "remove", "install"} => Moved(position, truth, candidate)
    /\ pc = "applied" => Keeps(position, truth, candidate)

\* A remembered state of position p knows its R; its best mark is one that the
\* position has seen, and no candidate is looser than the first stop.
TrueTo(s, p, t) ==
  Same(s, p) =>
    /\ s.risk = t.risk
    /\ Gain(s.side, s.best, t.peak) >= 0
    /\ \A i \in DOMAIN Profiles :
         /\ s.progress[i].active =>
              4 * Gain(s.side, s.entry, s.best) >= Profiles[i].activation * s.risk
         /\ s.progress[i].last # NoPrice =>
              Gain(s.side, Behind(s.side, s.entry, s.risk), s.progress[i].last) >= 0

Remembers ==
  position # Flat => TrueTo(state, position, truth) /\ TrueTo(saved.state, position, truth)

\* What this process has sold of the position is frozen in its state.
Frozen(held, i) == Same(state, held) /\ state.progress[i].filled

FillsFrozen ==
  \A i \in DOMAIN Profiles :
    /\ fills[i] <= 1
    /\ fills[i] # 0 =>
         /\ loaded
         /\ position # Flat => Frozen(position, i)
         /\ pc \notin {"idle", "done"} /\ seen.side # "NONE" => Frozen(seen, i)

\* A position the pass has not seen was opened after its reads.
Unseen ==
  position # Flat /\ seen.side = "NONE" /\ (pc \in {"load", "manage"} \/ (pc = "read" /\ "account" \in have))
    => fills = NoFills /\ pc # "read"

\* The row of a sale that a book remembers was written, or its write failed.
SalesRecorded ==
  \A held \in {book, bookSaved}, j \in DOMAIN Targets :
    held.progress[j].stage \in {"partial", "breakeven"} =>
      Sold(held, j, "partial") \in sold \cup lost

EndsFollowSales ==
  \A e \in sold :
    e.status \in {"breakeven", "closed"} =>
      [e EXCEPT !.status = "partial"] \in sold \cup lost

----------------------------------------------------------------------------
\* The operators of the model.

\* Rounding down to a multiple of t, in quarters.
LEMMA DivFour ==
  ASSUME NEW a \in Int, NEW t \in Nat \ {0}
  PROVE  /\ (a \div (4 * t)) * t \in Int
         /\ 4 * ((a \div (4 * t)) * t) <= a
         /\ a < 4 * ((a \div (4 * t)) * t) + 4 * t
<1>. DEFINE b == 4 * t
<1>1. b \in Nat \ {0}
  OBVIOUS
<1>2. a \div b \in Int /\ (a \div b) * b <= a /\ a < (a \div b) * b + b
  BY <1>1
<1>3. \A q \in Int : q * (4 * t) = 4 * (q * t)
  OBVIOUS
<1>. QED
  BY <1>2, <1>3

\* An element of a sequence.
LEMMA SeqElement ==
  ASSUME NEW S, NEW q \in Seq(S), NEW i \in DOMAIN q
  PROVE  q[i] \in S
OBVIOUS

\* The profile at the head of todo is one of Profiles.
LEMMA HeadOfTodo ==
  ASSUME TrailingTypes, todo # <<>>
  PROVE  /\ Head(todo) \in DOMAIN Profiles
         /\ Tail(todo) \in Seq(DOMAIN Profiles)
         /\ Profile.activation \in Nat /\ Profile.distance \in Nat
         /\ Progress \in [active : BOOLEAN, last : Nat, filled : BOOLEAN]
<1>1. Head(todo) \in DOMAIN Profiles /\ Tail(todo) \in Seq(DOMAIN Profiles)
  BY DEF TrailingTypes
<1>2. Profiles[Head(todo)] \in [activation : Nat, distance : Nat]
  BY <1>1, SeqElement, ProfileAssumption
<1>3. Progress \in [active : BOOLEAN, last : Nat, filled : BOOLEAN]
  BY <1>1 DEF TrailingTypes, States, Progresses, Progress
<1>. QED
  BY <1>1, <1>2, <1>3 DEF Profile

\* A trigger is rounded away from the mark, by less than a tick.
LEMMA TriggerRounds ==
  ASSUME TrailingTypes, todo # <<>>, state.side \in Sides
  PROVE  /\ Trigger \in Int
         /\ 4 * Gain(state.side, Trigger, state.best) >= Profile.distance * state.risk
         /\ 4 * Gain(state.side, Trigger, state.best) < Profile.distance * state.risk + 4 * Tick
<1>. DEFINE best == state.best
            d == Profile.distance * state.risk
            step == 4 * Tick
<1>1. Profile.distance \in Nat /\ state.risk \in Nat /\ best \in Nat /\ Tick \in Nat \ {0}
  BY HeadOfTodo, VenueAssumption DEF TrailingTypes, States
<1>2. d \in Nat /\ best \in Nat
  BY <1>1
<1>. HIDE DEF d, best
<1>3. CASE state.side = "LONG"
  <2>1. Trigger = ((4 * best - d) \div step) * Tick
    BY <1>3 DEF Trigger, Behind, d, best
  <2>2. 4 * best - d \in Int
    BY <1>2
  <2>3. Trigger \in Int /\ 4 * Trigger <= 4 * best - d /\ 4 * best - d < 4 * Trigger + 4 * Tick
    BY <2>1, <2>2, <1>1, DivFour
  <2>4. Gain(state.side, Trigger, state.best) = best - Trigger
    BY <1>3 DEF Gain, best
  <2>. QED
    BY <2>3, <2>4, <1>1, <1>2 DEF d
<1>4. CASE state.side = "SHORT"
  <2>1. Trigger = ((4 * best + d + step - 1) \div step) * Tick
    BY <1>4 DEF Trigger, Behind, d, best
  <2>2. 4 * best + d + step - 1 \in Int
    BY <1>1, <1>2
  <2>3. /\ Trigger \in Int
        /\ 4 * Trigger <= 4 * best + d + step - 1
        /\ 4 * best + d + step - 1 < 4 * Trigger + 4 * Tick
    BY <2>1, <2>2, <1>1, DivFour
  <2>4. Gain(state.side, Trigger, state.best) = Trigger - best
    BY <1>4 DEF Gain, best
  <2>. QED
    BY <2>3, <2>4, <1>1, <1>2 DEF d
<1>. QED
  BY <1>3, <1>4 DEF Sides

\* A candidate that improves is a tick or more better than the reference, and
\* a price.
LEMMA CandidateImproves ==
  ASSUME VenueTypes, TrailingTypes, todo # <<>>, seen.side \in Sides, state.side = seen.side,
         Improves
  PROVE  /\ Gain(seen.side, Reference, Trigger) >= Tick
         /\ Trigger \in Nat
         /\ (seen.side = "LONG" \/ state.best # NoPrice) => Trigger # NoPrice
<1>1. Trigger \in Int /\ Reference \in Nat /\ Tick \in Nat \ {0} /\ state.risk \in Nat /\ state.best \in Nat
  BY TriggerRounds, HeadOfTodo, VenueAssumption DEF Reference, VenueTypes, TrailingTypes, States
<1>2. MinimumStep \in Int /\ MinimumStep >= 10 * Tick
  BY <1>1 DEF MinimumStep
<1>3. Gain(seen.side, Reference, Trigger) \in Int
  BY <1>1 DEF Gain
<1>4. Gain(seen.side, Reference, Trigger) >= Tick
  BY <1>1, <1>2, <1>3 DEF Improves
<1>5. CASE seen.side = "LONG"
  BY <1>1, <1>4, <1>5 DEF Gain, NoPrice
<1>6. CASE seen.side = "SHORT"
  <2>1. Profile.distance * state.risk \in Nat
    BY HeadOfTodo, <1>1
  <2>2. 4 * (Trigger - state.best) >= 0
    <3>1. 4 * Gain(state.side, Trigger, state.best) >= Profile.distance * state.risk
      BY TriggerRounds
    <3>. QED
      BY <3>1, <2>1, <1>1, <1>6 DEF Gain
  <2>3. Trigger >= state.best
    BY <2>2, <1>1
  <2>. QED
    BY <2>3, <1>1, <1>4, <1>6 DEF NoPrice
<1>. QED
  BY <1>5, <1>6 DEF Sides

\* Absent states and books, and sequences of all profiles, are well typed.
LEMMA AbsentTypes ==
  /\ NoState \in States
  /\ NoBook \in Books
  /\ NoFills \in [DOMAIN Profiles -> Nat]
  /\ Working \in Seq(DOMAIN Profiles)
  /\ [i \in DOMAIN Targets |-> i] \in Seq(DOMAIN Targets)
  /\ <<>> \in Seq(DOMAIN Profiles) /\ <<>> \in Seq(DOMAIN Targets)
<1>1. NoState \in States /\ NoFills \in [DOMAIN Profiles -> Nat]
  BY DEF NoState, NoFills, NoPrice, States, Progresses, Fresh
<1>2. NoBook \in Books
  BY DEF NoBook, NoPrice, Books, Stages, Untouched
<1>3. Len(Profiles) \in Nat /\ DOMAIN Profiles = 1..Len(Profiles) /\ LiveProfile \in DOMAIN Profiles
  BY ProfileAssumption
<1>4. [i \in DOMAIN Profiles |-> i] \in Seq(DOMAIN Profiles)
  BY <1>3
<1>5. Len(Targets) \in Nat /\ DOMAIN Targets = 1..Len(Targets)
  BY TargetAssumption
<1>6. [i \in DOMAIN Targets |-> i] \in Seq(DOMAIN Targets)
  BY <1>5
<1>7. <<LiveProfile>> \in Seq(DOMAIN Profiles)
  BY <1>3
<1>8. <<>> \in Seq(DOMAIN Profiles) /\ <<>> \in Seq(DOMAIN Targets)
  OBVIOUS
<1>9. Working \in Seq(DOMAIN Profiles)
  BY <1>4, <1>7 DEF Working
<1>. QED
  BY <1>1, <1>2, <1>6, <1>8, <1>9

\* Noting a progress keeps the other fields and profiles.
LEMMA NoteTypes ==
  ASSUME TrailingTypes, todo # <<>>,
         NEW progress \in [active : BOOLEAN, last : Nat, filled : BOOLEAN], Note(progress)
  PROVE  state' \in States
BY HeadOfTodo DEF TrailingTypes, States, Progresses, Note

\* Prices are positive integers.
LEMMA PriceTypes ==
  /\ \A price \in Prices : price \in Nat /\ price # NoPrice
  /\ \A entry \in Entries : entry \in Prices
  /\ Tick \in Nat \ {0} /\ Risk \in Nat \ {0} /\ Lot \in Nat \ {0}
  /\ MaxOpenings \in Nat /\ MaxMishaps \in Nat
BY VenueAssumption, TargetAssumption DEF NoPrice

\* The geometry stays among the integers.
LEMMA GeometryTypes ==
  ASSUME NEW a \in Nat, NEW b \in Nat, NEW side
  PROVE  /\ Distance(a, b) \in Nat /\ Better(side, a, b) \in {a, b}
         /\ Behind(side, a, b) \in Int /\ Gain(side, a, b) \in Int
BY DEF Distance, Better, Behind, Gain

Truths == [risk : Nat, peak : Nat, tightest : Nat]

\* The history of a position, new or after another stop or mark, is well typed.
LEMMA TruthTypes ==
  /\ \A entry, trigger, price \in Nat : NewTruth(entry, trigger, price) \in Truths
  /\ truth \in Truths => \A price \in Nat :
       /\ [truth EXCEPT !.tightest = Better(position.side, @, price)] \in Truths
       /\ [truth EXCEPT !.peak = Better(position.side, @, price)] \in Truths
BY DEF Truths, NewTruth, Distance, Better

\* A restored state is a state.
LEMMA RestoredTypes ==
  ASSUME TrailingTypes
  PROVE  Restored \in States
<1>1. saved.state \in States
  BY DEF TrailingTypes
<1>. DEFINE activations == [i \in DOMAIN Profiles |-> [Fresh EXCEPT !.active = saved.state.progress[i].active]]
<1>2. activations \in Progresses
  BY <1>1 DEF States, Progresses, Fresh, NoPrice
<1>3. [saved.state EXCEPT !.progress = activations] \in States
  BY <1>1, <1>2 DEF States
<1>. QED
  BY <1>1, <1>3 DEF Restored

\* What Observe makes of the position seen is a state.
LEMMA ObservedTypes ==
  ASSUME VenueTypes, TrailingTypes, seen.side # "NONE", NEW base,
         base = IF Known THEN state ELSE Started
  PROVE  /\ base \in States
         /\ [base EXCEPT !.best = Better(seen.side, base.best, seen.mark)] \in States
<1>1. Distance(seen.entry, seen.stop) \in Nat /\ [i \in DOMAIN Profiles |-> Fresh] \in Progresses
  BY GeometryTypes DEF VenueTypes, Progresses, Fresh, NoPrice
<1>2. Started \in States
  BY <1>1 DEF Started, States, VenueTypes
<1>3. base \in States
  BY <1>2 DEF TrailingTypes
<1>4. Better(seen.side, base.best, seen.mark) \in Nat
  BY <1>3, GeometryTypes DEF States, VenueTypes
<1>. QED
  BY <1>3, <1>4 DEF States

\* What LoadBook makes of the position seen is a book.
LEMMA NewBookTypes ==
  ASSUME VenueTypes
  PROVE  NewBook \in Books
<1>1. Distance(seen.entry, seen.stop) \in Nat /\ [i \in DOMAIN Targets |-> Untouched] \in Stages
  BY GeometryTypes DEF VenueTypes, Stages, Untouched
<1>. QED
  BY <1>1 DEF NewBook, Books, VenueTypes

\* A recorded sale keeps the book a book.
LEMMA SaleTypes ==
  ASSUME PartialTypes, left # <<>>
  PROVE  /\ Head(left) \in DOMAIN Targets /\ Tail(left) \in Seq(DOMAIN Targets)
         /\ Sale \in [stage : {"waiting", "partial", "breakeven", "unviable"}, quantity : Nat]
         /\ [book EXCEPT !.progress[Head(left)] =
               [stage |-> NextStage,
                quantity |-> IF NextStage = "partial" THEN Portion ELSE @.quantity]] \in Books
<1>1. Head(left) \in DOMAIN Targets /\ Tail(left) \in Seq(DOMAIN Targets)
  BY DEF PartialTypes
<1>2. Sale \in [stage : {"waiting", "partial", "breakeven", "unviable"}, quantity : Nat]
  BY <1>1 DEF PartialTypes, Books, Stages, Sale
<1>3. NextStage \in {"waiting", "partial", "breakeven", "unviable"}
  BY <1>2 DEF NextStage
<1>4. Target \in [target : Nat, percent : 0..100] /\ Step \in Nat \ {0}
  BY <1>1, SeqElement, TargetAssumption DEF Target
<1>7. Target.percent \in Nat
  <2>1. \A x \in 0..100 : x \in Nat
    OBVIOUS
  <2>. QED
    BY <1>4, <2>1
<1>5. Portion \in Nat
  <2>. DEFINE a == book.quantity * Target.percent
              b == 100 * Step
  <2>1. book.quantity \in Nat /\ Target.percent \in Nat
    <3>2. book.quantity \in Nat
      BY DEF PartialTypes, Books
    <3>. QED
      BY <3>2, <1>7
  <2>5. a \in Nat /\ b \in Nat \ {0}
    BY <2>1, <1>4
  <2>2. a \div b \in Nat
    BY <2>5
  <2>3. (a \div b) * Step \in Nat
    BY <2>2, <1>4
  <2>. QED
    BY <2>3 DEF Portion
<1>6. [stage |-> NextStage, quantity |-> IF NextStage = "partial" THEN Portion ELSE Sale.quantity]
        \in [stage : {"waiting", "partial", "breakeven", "unviable"}, quantity : Nat]
  BY <1>2, <1>3, <1>5
<1>. QED
  BY <1>1, <1>2, <1>6 DEF PartialTypes, Books, Stages, Sale

\* Noting a progress changes nothing else.
LEMMA NoteKeeps ==
  ASSUME TrailingTypes, todo # <<>>, NEW progress, Note(progress)
  PROVE  /\ state'.side = state.side /\ state'.entry = state.entry
         /\ state'.risk = state.risk /\ state'.best = state.best
         /\ state'.progress[Head(todo)] = progress
         /\ \A i \in DOMAIN Profiles \ {Head(todo)} : state'.progress[i] = state.progress[i]
BY HeadOfTodo DEF TrailingTypes, States, Progresses, Note

\* An observation goes on with the state it knows or starts a new one.
LEMMA ObserveKeeps ==
  ASSUME VenueTypes, TrailingTypes, Observe, pc' # "failed"
  PROVE  /\ pc' = "profile" /\ todo' = Working
         /\ seen.side \in Sides /\ seen.stop # NoPrice
         /\ state'.side = seen.side /\ state'.entry = seen.entry
         /\ \/ /\ Same(state, seen)
               /\ state'.risk = state.risk /\ state'.progress = state.progress
               /\ state'.best = Better(seen.side, state.best, seen.mark)
            \/ /\ ~Same(state, seen)
               /\ LossSide(seen.side, seen.entry, seen.stop)
               /\ state'.risk = Distance(seen.entry, seen.stop)
               /\ state'.best = Better(seen.side, seen.mark, seen.mark)
               /\ \A i \in DOMAIN Profiles : state'.progress[i] = Fresh
<1>1. /\ seen.side # "NONE" /\ seen.stop # NoPrice /\ todo' = Working /\ pc' = "profile"
      /\ Known \/ LossSide(seen.side, seen.entry, seen.stop)
      /\ LET base == IF Known THEN state ELSE Started
         IN state' = [base EXCEPT !.best = Better(seen.side, base.best, seen.mark)]
  BY DEF Observe
<1>2. seen.side \in Sides
  BY <1>1 DEF VenueTypes
<1>3. CASE Known
  <2>1. state' = [state EXCEPT !.best = Better(seen.side, state.best, seen.mark)]
    BY <1>1, <1>3
  <2>. QED
    BY <1>1, <1>2, <1>3, <2>1 DEF TrailingTypes, States, Known, Same
<1>4. CASE ~Known
  <2>1. state' = [Started EXCEPT !.best = Better(seen.side, Started.best, seen.mark)]
    BY <1>1, <1>4
  <2>. QED
    BY <1>1, <1>2, <1>4, <2>1 DEF Started, Known, Same
<1>. QED
  BY <1>3, <1>4

\* The one profile of mode "live" is the last.
LEMMA LiveTail ==
  ASSUME todo \in {<<>>, <<LiveProfile>>}, todo # <<>>
  PROVE  Head(todo) = LiveProfile /\ Tail(todo) = <<>>
<1>1. \A x : Head(<<x>>) = x /\ Tail(<<x>>) = <<>>
  OBVIOUS
<1>. QED
  BY <1>1

\* What is better is at least as good as both.
LEMMA BetterGains ==
  ASSUME NEW a \in Nat, NEW b \in Nat, NEW c \in Nat, NEW side
  PROVE  /\ Gain(side, a, Better(side, a, b)) >= 0
         /\ Gain(side, b, Better(side, a, b)) >= 0
         /\ Gain(side, a, c) >= 0 /\ Gain(side, b, c) >= 0 => Gain(side, Better(side, a, b), c) >= 0
         /\ Gain(side, c, a) >= 0 => Gain(side, c, Better(side, a, b)) >= 0
BY DEF Gain, Better

\* A request on its way when the guard is cancelled removes the stop, or places
\* one that is at least as tight as any before.
LEMMA RatchetInFlight ==
  ASSUME VenueTypes, TrailingTypes, AtHand, SeenIsReal, Ratchet, InFlight, UNCHANGED position
  PROVE  position # Flat /\ stop' # NoPrice => stop' = truth'.tightest
<1>. SUFFICES ASSUME position # Flat, stop' # NoPrice PROVE stop' = truth'.tightest
  OBVIOUS
<1>1. CASE UNCHANGED <<stop, truth>>
  BY <1>1 DEF Ratchet
<1>2. CASE pc = "install" /\ Placed(candidate)
  <2>1. Gain(position.side, truth.tightest, candidate) > 0
    BY <1>2 DEF Ratchet, SeenIsReal, AtHand, Managing, Same
  <2>. QED
    BY <1>2, <2>1 DEF Placed, Better, VenueTypes
<1>3. CASE pc = "restore" /\ Accepted(previous) /\ Placed(previous)
  <2>1. truth.tightest = previous
    BY <1>3 DEF Accepted, Ratchet
  <2>. QED
    BY <1>3, <2>1 DEF Placed, Better, VenueTypes
<1>. QED
  BY <1>1, <1>2, <1>3 DEF InFlight

\* The live profile has an activation and a distance.
LEMMA LiveTypes ==
  Profiles[LiveProfile].activation \in Nat /\ Profiles[LiveProfile].distance \in Nat
<1>1. Profiles[LiveProfile] \in [activation : Nat, distance : Nat]
  BY ProfileAssumption, SeqElement
<1>. QED
  BY <1>1

\* A position keeps its distance when its best mark improves.
LEMMA DistanceStays ==
  ASSUME NEW p, p.entry \in Nat, NEW t \in Truths, NEW u \in Truths, NEW price \in Nat,
         u.risk = t.risk, Gain(p.side, t.peak, u.peak) >= 0
  PROVE  /\ First(p, t, price) => First(p, u, price)
         /\ Moved(p, t, price) => Moved(p, u, price)
         /\ Keeps(p, t, price) => Keeps(p, u, price)
<1>1. First(p, t, price) => First(p, u, price)
  BY DEF First
<1>2. Moved(p, t, price) => Moved(p, u, price)
  <2>. DEFINE m == Profiles[LiveProfile].distance * t.risk
  <2>1. /\ t.peak \in Nat /\ u.peak \in Nat
        /\ Gain(p.side, price, u.peak) = Gain(p.side, price, t.peak) + Gain(p.side, t.peak, u.peak)
    BY DEF Truths, Gain
  <2>2. Gain(p.side, price, t.peak) \in Int /\ Gain(p.side, t.peak, u.peak) \in Int /\ m \in Nat
    <3>1. Profiles[LiveProfile].distance \in Nat /\ t.risk \in Nat
      BY LiveTypes DEF Truths
    <3>. QED
      BY <3>1, <2>1, GeometryTypes
  <2>. HIDE DEF m
  <2>3. 4 * Gain(p.side, price, t.peak) >= m => 4 * Gain(p.side, price, u.peak) >= m
    BY <2>1, <2>2
  <2>. QED
    BY <2>3 DEF Moved, m
<1>. QED
  BY <1>1, <1>2 DEF Keeps

\* So does what is remembered of it.
LEMMA TrueStays ==
  ASSUME NEW p, NEW s \in States, NEW t \in Truths, NEW u \in Truths,
         u.risk = t.risk, Gain(p.side, t.peak, u.peak) >= 0, TrueTo(s, p, t)
  PROVE  TrueTo(s, p, u)
<1>1. Same(s, p) => Gain(s.side, s.best, u.peak) >= 0
  BY DEF TrueTo, Same, Gain, Truths, States
<1>. QED
  BY <1>1 DEF TrueTo

\* No stop that keeps the distance is looser than the first.
LEMMA NeverLooser ==
  ASSUME NEW p, p.entry \in Nat, NEW t \in Truths, NEW price \in Nat, Keeps(p, t, price)
  PROVE  Gain(p.side, Behind(p.side, p.entry, t.risk), price) >= 0
<1>1. t.risk \in Nat
  BY DEF Truths
<1>2. CASE First(p, t, price)
  BY <1>1, <1>2 DEF First, Distance, LossSide, Gain, Behind
<1>3. CASE Moved(p, t, price)
  BY <1>1, <1>3 DEF Moved, LossSide, Gain, Behind
<1>. QED
  BY <1>2, <1>3 DEF Keeps

\* A candidate is better than the first stop.
LEMMA CandidateBeatsFirst ==
  ASSUME VenueTypes, TrailingTypes, todo # <<>>, seen.side \in Sides, Same(state, seen),
         Same(seen, position),
         TrueTo(state, position, truth), Due,
         seen.stop # NoPrice => Keeps(position, truth, seen.stop), Progress.last # NoPrice \/ seen.stop # NoPrice
  PROVE  Gain(state.side, Behind(state.side, state.entry, state.risk), Trigger) >= Tick
<1>. DEFINE first == Behind(state.side, state.entry, state.risk)
<1>1. /\ state.side = seen.side /\ position.side = seen.side /\ position.entry = state.entry
      /\ state.risk = truth.risk /\ Same(state, position)
  BY DEF Same, TrueTo
<1>2. Head(todo) \in DOMAIN Profiles /\ Progress = state.progress[Head(todo)] /\ Progress.last \in Nat
  BY HeadOfTodo DEF Progress
<1>3. Gain(state.side, first, Reference) >= 0
  <2>1. CASE Progress.last # NoPrice
    BY <2>1, <1>1, <1>2 DEF TrueTo, Reference
  <2>2. CASE Progress.last = NoPrice
    <3>1. position.entry \in Nat /\ truth \in Truths /\ seen.stop \in Nat
      BY DEF VenueTypes, Truths
    <3>. QED
      BY <3>1, <2>2, <1>1, NeverLooser DEF Reference
  <2>. QED
    BY <2>1, <2>2
<1>4. /\ Gain(state.side, Reference, Trigger) >= Tick
      /\ Trigger \in Int /\ Reference \in Nat /\ Tick \in Nat /\ first \in Int
  <2>1. Reference \in Nat
    BY <1>2 DEF Reference, VenueTypes
  <2>2. first \in Int
    BY GeometryTypes DEF TrailingTypes, States
  <2>. QED
    BY <2>1, <2>2, <1>1, CandidateImproves, PriceTypes DEF Due
<1>. HIDE DEF first
<1>5. Gain(state.side, first, Trigger) = Gain(state.side, first, Reference) + Gain(state.side, Reference, Trigger)
  BY <1>4 DEF Gain
<1>6. Gain(state.side, first, Reference) \in Int /\ Gain(state.side, Reference, Trigger) \in Int
  BY <1>4 DEF Gain
<1>. QED
  BY <1>3, <1>4, <1>5, <1>6 DEF first

\* Products of naturals are monotone.
LEMMA ProductGrows ==
  ASSUME NEW a \in Nat, NEW d \in Nat, NEW r \in Nat, a >= d + 4
  PROVE  a * r \in Nat /\ d * r \in Nat /\ a * r >= d * r + 4 * r
<1>. DEFINE k == a - (d + 4)
<1>1. k \in Nat /\ a = k + d + 4
  OBVIOUS
<1>. HIDE DEF k
<1>2. a * r = k * r + d * r + 4 * r
  BY <1>1
<1>3. k * r \in Nat /\ d * r \in Nat /\ a * r \in Nat
  BY <1>1
<1>. QED
  BY <1>2, <1>3

\* A best mark far enough from the entry leaves room for the distance.
LEMMA RoomForDistance ==
  ASSUME NEW y \in Int, NEW z \in Int, NEW m \in Int, NEW n \in Int, NEW r \in Int, NEW t \in Int,
         4 * y < m + 4 * t, 4 * z >= n, n >= m + 4 * r, z - y >= t - r
  PROVE  z - y >= 0
OBVIOUS

\* What mode "live" asks the exchange for is a stop beyond the entry, a whole
\* distance behind the best mark.
LEMMA CandidateMoves ==
  ASSUME LateActivation, VenueTypes, TrailingTypes, todo # <<>>, Head(todo) = LiveProfile,
         seen.side \in Sides, Same(state, seen), Same(seen, position), TrueTo(state, position, truth), Due,
         seen.stop # NoPrice => Keeps(position, truth, seen.stop), Progress.last # NoPrice \/ seen.stop # NoPrice
  PROVE  Moved(position, truth, Trigger)
<1>. DEFINE side == state.side
            m == Profiles[LiveProfile].distance * state.risk
            n == Profiles[LiveProfile].activation * state.risk
<1>1. /\ side = position.side /\ position.entry = state.entry /\ state.risk = truth.risk
      /\ Gain(side, state.best, truth.peak) >= 0 /\ side \in Sides
  BY DEF Same, TrueTo
<1>2. /\ Trigger \in Int /\ state.best \in Nat /\ state.entry \in Nat /\ truth.peak \in Nat
      /\ state.risk \in Nat /\ Tick \in Nat \ {0}
  BY TriggerRounds, PriceTypes, <1>1 DEF VenueTypes, TrailingTypes, States
<1>3. 4 * Gain(side, Trigger, state.best) >= m /\ 4 * Gain(side, Trigger, state.best) < m + 4 * Tick
  BY TriggerRounds, <1>1 DEF Profile
<1>4. 4 * Gain(side, state.entry, state.best) >= n
  BY <1>1, HeadOfTodo DEF Due, Activated, Progress, Profile, TrueTo, Same
<1>5. m \in Nat /\ n \in Nat /\ n >= m + 4 * state.risk
  <2>1. Profiles[LiveProfile].distance \in Nat /\ Profiles[LiveProfile].activation \in Nat
    BY LiveTypes
  <2>. QED
    BY <2>1, <1>2, ProductGrows DEF LateActivation
<1>6. Gain(side, Behind(side, state.entry, state.risk), Trigger) >= Tick
  BY CandidateBeatsFirst
<1>. HIDE DEF m, n
<1>7. 4 * Gain(side, Trigger, truth.peak) >= m
  BY <1>1, <1>2, <1>3, <1>5 DEF Gain
<1>8. Gain(side, state.entry, Trigger) >= 0
  <2>1. CASE side = "LONG"
    <3>1. 4 * (state.best - Trigger) < m + 4 * Tick /\ 4 * (state.best - state.entry) >= n
      BY <2>1, <1>3, <1>4 DEF Gain
    <3>2. Trigger - state.entry >= Tick - state.risk
      BY <2>1, <1>2, <1>6 DEF Gain, Behind
    <3>3. Trigger - state.entry = (state.best - state.entry) - (state.best - Trigger)
      BY <1>2
    <3>4. state.best - Trigger \in Int /\ state.best - state.entry \in Int /\ state.risk \in Int /\ Tick \in Int /\ m \in Int /\ n \in Int
      BY <1>2, <1>5
    <3>5. (state.best - state.entry) - (state.best - Trigger) >= 0
      BY <3>1, <3>2, <3>3, <3>4, <1>5, RoomForDistance
    <3>. QED
      BY <3>3, <3>5, <2>1 DEF Gain
  <2>2. CASE side = "SHORT"
    <3>1. 4 * (Trigger - state.best) < m + 4 * Tick /\ 4 * (state.entry - state.best) >= n
      BY <2>2, <1>3, <1>4 DEF Gain
    <3>2. state.entry - Trigger >= Tick - state.risk
      BY <2>2, <1>2, <1>6 DEF Gain, Behind
    <3>3. state.entry - Trigger = (state.entry - state.best) - (Trigger - state.best)
      BY <1>2
    <3>4. Trigger - state.best \in Int /\ state.entry - state.best \in Int /\ state.risk \in Int /\ Tick \in Int /\ m \in Int /\ n \in Int
      BY <1>2, <1>5
    <3>5. (state.entry - state.best) - (Trigger - state.best) >= 0
      BY <3>1, <3>2, <3>3, <3>4, <1>5, RoomForDistance
    <3>. QED
      BY <3>3, <3>5, <2>2 DEF Gain
  <2>. QED
    BY <2>1, <2>2, <1>1 DEF Sides
<1>9. ~LossSide(position.side, position.entry, Trigger)
  BY <1>8, <1>1, <1>2 DEF LossSide, Gain
<1>. QED
  BY <1>7, <1>9, <1>1 DEF Moved, m

\* While a position lasts its history only gets better marks and tighter stops.
HistoryGoesOn ==
  \E price \in Nat :
    truth' \in {truth, [truth EXCEPT !.tightest = Better(position.side, @, price)],
                [truth EXCEPT !.peak = Better(position.side, @, price)]}

LEMMA HistoryStays ==
  ASSUME VenueTypes, HistoryGoesOn
  PROVE  /\ truth' \in Truths
         /\ \A price \in Nat :
              /\ Moved(position, truth, price) => Moved(position, truth', price)
              /\ Keeps(position, truth, price) => Keeps(position, truth', price)
         /\ \A s \in States : TrueTo(s, position, truth) => TrueTo(s, position, truth')
<1>1. truth \in Truths /\ position.entry \in Nat
  BY DEF VenueTypes, Truths
<1>2. truth' \in Truths
  BY <1>1, TruthTypes DEF HistoryGoesOn
<1>3. PICK price \in Nat :
        truth' \in {truth, [truth EXCEPT !.tightest = Better(position.side, @, price)],
                    [truth EXCEPT !.peak = Better(position.side, @, price)]}
  BY DEF HistoryGoesOn
<1>4. /\ truth'.risk = truth.risk
      /\ truth'.peak \in {truth.peak, Better(position.side, truth.peak, price)}
  BY <1>1, <1>3 DEF Truths
<1>5. Gain(position.side, truth.peak, truth'.peak) >= 0
  <2>1. truth.peak \in Nat /\ Gain(position.side, truth.peak, truth.peak) >= 0
    BY <1>1 DEF Truths, Gain
  <2>. QED
    BY <2>1, <1>4, BetterGains
<1>. QED
  BY <1>1, <1>2, <1>4, <1>5, DistanceStays, TrueStays

\* What a request in flight may still do to stop and history.
LEMMA InFlightGoesOn ==
  ASSUME VenueTypes, TrailingTypes, InFlight
  PROVE  /\ HistoryGoesOn
         /\ \/ stop' \in {stop, NoPrice}
            \/ pc = "restore" /\ stop' = previous
            \/ pc = "install" /\ stop' = candidate
         /\ saved'.state \in {saved.state, state}
<1>1. HistoryGoesOn
  BY DEF InFlight, Placed, HistoryGoesOn, VenueTypes, TrailingTypes
<1>2. saved'.state \in {saved.state, state}
  BY DEF InFlight
<1>. QED
  BY <1>1, <1>2 DEF InFlight, Placed

\* No position is nobody's.
LEMMA NobodyKnown ==
  ASSUME VenueTypes, SeenIsReal, position # Flat
  PROVE  TrueTo(NoState, position, truth)
BY DEF SeenIsReal, TrueTo, NoState, Same

\* A restored state forgets candidates, and nothing else that matters here.
LEMMA RestoredTrue ==
  ASSUME TrailingTypes, TrueTo(saved.state, position, truth)
  PROVE  TrueTo(Restored, position, truth)
<1>. DEFINE progress == [i \in DOMAIN Profiles |-> [Fresh EXCEPT !.active = saved.state.progress[i].active]]
            s == [saved.state EXCEPT !.progress = progress]
<1>1. saved.state \in States
  BY DEF TrailingTypes
<1>2. \A i \in DOMAIN Profiles :
        progress[i].active = saved.state.progress[i].active /\ progress[i].last = NoPrice
  BY DEF Fresh
<1>3. /\ s.side = saved.state.side /\ s.entry = saved.state.entry /\ s.risk = saved.state.risk
      /\ s.best = saved.state.best /\ s.progress = progress
  BY <1>1 DEF States
<1>. HIDE DEF progress, s
<1>4. TrueTo(s, position, truth)
  BY <1>2, <1>3 DEF TrueTo, Same
<1>. QED
  BY <1>4 DEF Restored, s, progress

\* An observation knows the R and the marks of the position, and starts over
\* only with its first stop.
LEMMA ObservedTrue ==
  ASSUME VenueTypes, TrailingTypes, Observe, pc' # "failed", Same(seen, position), seen.stop = stop,
         Gain(seen.side, seen.mark, truth.peak) >= 0, TrueTo(state, position, truth),
         stop # NoPrice => Keeps(position, truth, stop)
  PROVE  TrueTo(state', position, truth)
<1>1. state'.side = seen.side /\ state'.entry = seen.entry /\ seen.side \in Sides /\ stop # NoPrice
  BY ObserveKeeps
<1>2. /\ seen.mark \in Nat /\ state.best \in Nat /\ truth.peak \in Nat /\ state.risk \in Nat
      /\ state.entry \in Nat /\ seen.entry \in Nat
  BY DEF VenueTypes, TrailingTypes, States
<1>3. CASE Same(state, seen)
  <2>1. /\ state'.risk = state.risk /\ state'.progress = state.progress
        /\ state'.best = Better(seen.side, state.best, seen.mark)
        /\ state.side = seen.side /\ state.entry = seen.entry /\ Same(state, position)
    BY <1>3, ObserveKeeps DEF Same
  <2>2. Gain(seen.side, state'.best, truth.peak) >= 0 /\ Gain(seen.side, state.best, state'.best) >= 0
        /\ state'.best \in Nat
    <3>1. Gain(seen.side, state.best, truth.peak) >= 0
      BY <2>1 DEF TrueTo
    <3>2. Better(seen.side, state.best, seen.mark) \in Nat
      BY <1>2, GeometryTypes
    <3>3. /\ Gain(seen.side, Better(seen.side, state.best, seen.mark), truth.peak) >= 0
          /\ Gain(seen.side, state.best, Better(seen.side, state.best, seen.mark)) >= 0
      BY <3>1, <1>2, BetterGains
    <3>. QED
      BY <3>2, <3>3, <2>1
  <2>3. ASSUME NEW i \in DOMAIN Profiles, state.progress[i].active
        PROVE  4 * Gain(seen.side, seen.entry, state'.best) >= Profiles[i].activation * state.risk
    <3>. DEFINE m == Profiles[i].activation * state.risk
    <3>1. 4 * Gain(seen.side, seen.entry, state.best) >= m
      BY <2>1, <2>3 DEF TrueTo
    <3>2. m \in Nat
      <4>1. Profiles[i] \in [activation : Nat, distance : Nat]
        BY ProfileAssumption, SeqElement
      <4>. QED
        BY <4>1, <1>2
    <3>3. Gain(seen.side, seen.entry, state'.best)
            = Gain(seen.side, seen.entry, state.best) + Gain(seen.side, state.best, state'.best)
      BY <2>2, <1>2 DEF Gain
    <3>4. Gain(seen.side, seen.entry, state.best) \in Int /\ Gain(seen.side, state.best, state'.best) \in Int
      BY <2>2, <1>2, GeometryTypes
    <3>. HIDE DEF m
    <3>5. 4 * Gain(seen.side, seen.entry, state'.best) >= m
      BY <3>1, <3>2, <3>3, <3>4, <2>2
    <3>. QED
      BY <3>5 DEF m
  <2>. QED
    BY <1>1, <2>1, <2>2, <2>3 DEF TrueTo
<1>4. CASE ~Same(state, seen)
  <2>1. /\ LossSide(seen.side, seen.entry, stop) /\ state'.risk = Distance(seen.entry, stop)
        /\ state'.best = Better(seen.side, seen.mark, seen.mark)
        /\ \A i \in DOMAIN Profiles : state'.progress[i] = Fresh
    BY <1>4, ObserveKeeps
  <2>2. First(position, truth, stop)
    BY <2>1, <1>1 DEF Keeps, Moved, Same
  <2>3. state'.risk = truth.risk /\ state'.best = seen.mark
    BY <2>1, <2>2 DEF First, Same, Better
  <2>. QED
    BY <1>1, <2>1, <2>3 DEF TrueTo, Fresh
<1>. QED
  BY <1>3, <1>4

\* Noting a profile that has activated, with no candidate looser than the
\* first stop, stays true.
LEMMA NoteUseful ==
  ASSUME TrailingTypes, todo # <<>>, NEW progress, Note(progress),
         TrueTo(state, position, truth), Same(state, position), progress.active => Activated,
         \/ progress.last = Progress.last
         \/ Gain(state.side, Behind(state.side, state.entry, state.risk), progress.last) >= 0
  PROVE  TrueTo(state', position, truth)
<1>. DEFINE h == Head(todo)
<1>1. /\ state'.side = state.side /\ state'.entry = state.entry
      /\ state'.risk = state.risk /\ state'.best = state.best
      /\ state'.progress[h] = progress
      /\ \A i \in DOMAIN Profiles \ {h} : state'.progress[i] = state.progress[i]
  BY NoteKeeps
<1>2. h \in DOMAIN Profiles /\ Progress = state.progress[h] /\ Profile = Profiles[h]
  BY HeadOfTodo DEF Progress, Profile
<1>. HIDE DEF h
<1>3. progress.active => 4 * Gain(state.side, state.entry, state.best) >= Profiles[h].activation * state.risk
  BY <1>2 DEF Activated, TrueTo
<1>4. progress.last # NoPrice => Gain(state.side, Behind(state.side, state.entry, state.risk), progress.last) >= 0
  BY <1>2 DEF TrueTo
<1>. QED
  BY <1>1, <1>3, <1>4 DEF TrueTo, Same

\* The gain between integers is one.
LEMMA GainInteger ==
  \A side, a, b : a \in Int /\ b \in Int => Gain(side, a, b) \in Int
BY DEF Gain

----------------------------------------------------------------------------
\* The types, action by action.


\* What the exchange holds and the guard has seen keep their types.
LEMMA VenueTypesStep ==
  ASSUME Types, [Next]_vars
  PROVE  VenueTypes'
<1>. USE DEF venueVars, passVars, trailingVars, partialVars, experiment, Types, VenueTypes, TrailingTypes
<1>1. CASE UNCHANGED vars
  BY <1>1 DEF vars
<1>2. ASSUME NEW side \in Sides, NEW entry \in Entries, EngineOrders, Unremembered(side, entry),
             Open(side, entry)
      PROVE  VenueTypes'
  <2>1. entry \in Nat /\ entry \in Prices /\ Behind(side, entry, Risk) \in Int
    BY PriceTypes, GeometryTypes
  <2>2. Behind(side, entry, Risk) \in Nat
    BY <2>1, <1>2 DEF Open
  <2>3. position' = [side |-> side, entry |-> entry, quantity |-> Lot] /\ stop' = Behind(side, entry, Risk)
        /\ truth' = NewTruth(entry, Behind(side, entry, Risk), entry) /\ mark' = entry
    BY <1>2 DEF Open
  <2>4. position' \in [side : Sides \cup {"NONE"}, entry : Nat, quantity : Nat]
    BY <2>1, <2>3, PriceTypes
  <2>5. truth' \in Truths
    BY <2>1, <2>2, <2>3, TruthTypes
  <2>6. openings' \in 0..MaxOpenings /\ UNCHANGED passVars
    BY <1>2, PriceTypes DEF Open
  <2>. QED
    BY <2>1, <2>2, <2>3, <2>4, <2>5, <2>6 DEF Truths
<1>3. ASSUME NEW entry \in Prices, NEW trigger \in Prices \cup {stop}, EngineOrders,
             Unremembered(position.side, entry), Add(entry, trigger)
      PROVE  VenueTypes'
  <2>1. entry \in Nat /\ trigger \in Nat /\ mark \in Nat
    BY PriceTypes
  <2>2. position' = [position EXCEPT !.entry = entry, !.quantity = @ + Lot] /\ stop' = trigger
        /\ truth' = NewTruth(entry, trigger, mark) /\ UNCHANGED <<mark, passVars>>
    BY <1>3 DEF Add
  <2>3. position' \in [side : Sides \cup {"NONE"}, entry : Nat, quantity : Nat]
    <3>1. position.quantity + Lot \in Nat
      BY PriceTypes
    <3>. QED
      BY <3>1, <2>1, <2>2
  <2>4. truth' \in Truths
    BY <2>1, <2>2, TruthTypes
  <2>5. openings' \in 0..MaxOpenings
    <3>1. openings < MaxOpenings /\ openings' = openings + 1
      BY <1>3 DEF Add
    <3>. QED
      BY <3>1, PriceTypes
  <2>. QED
    BY <2>1, <2>2, <2>3, <2>4, <2>5 DEF Truths
<1>4. ASSUME NEW price \in Prices, MoveMark(price), UNCHANGED <<trailingVars, partialVars>>
      PROVE  VenueTypes'
  <2>1. truth' = [truth EXCEPT !.peak = Better(position.side, @, price)] /\ price \in Nat
    BY <1>4, PriceTypes DEF MoveMark
  <2>2. truth' \in Truths
    BY <2>1, TruthTypes DEF Truths
  <2>. QED
    BY <2>2, <1>4 DEF MoveMark, Truths
<1>5. ASSUME Close, UNCHANGED <<trailingVars, partialVars>>
      PROVE  VenueTypes'
  BY <1>5 DEF Close, Flat, NoPrice
<1>6. ASSUME BeginPass, UNCHANGED <<trailingVars, partialVars>>
      PROVE  VenueTypes'
  BY <1>6 DEF BeginPass, Unread, NoPrice
<1>7. ASSUME ReadAccount, UNCHANGED <<trailingVars, partialVars>>
      PROVE  VenueTypes'
  BY <1>7, PriceTypes DEF ReadAccount
<1>8. ASSUME ReadLevels, UNCHANGED <<trailingVars, partialVars>>
      PROVE  VenueTypes'
  BY <1>8, PriceTypes DEF ReadLevels
<1>9. ASSUME ReadFails, UNCHANGED <<trailingVars, partialVars>>
      PROVE  VenueTypes'
  BY <1>9 DEF ReadFails
<1>10. ASSUME Load, UNCHANGED partialVars PROVE VenueTypes'
  BY <1>10 DEF Load, Restored
<1>11. ASSUME Forget, UNCHANGED partialVars PROVE VenueTypes'
  BY <1>11 DEF Forget
<1>12. ASSUME Observe, UNCHANGED partialVars PROVE VenueTypes'
  BY <1>12 DEF Observe, Known, Started
<1>13. ASSUME ProfileQuiet, UNCHANGED partialVars PROVE VenueTypes'
  BY <1>13 DEF ProfileQuiet, Note
<1>14. ASSUME ProfileFills, UNCHANGED partialVars PROVE VenueTypes'
  BY <1>14 DEF ProfileFills, Note, Record
<1>15. ASSUME ProfileRecords, UNCHANGED partialVars PROVE VenueTypes'
  BY <1>15 DEF ProfileRecords, Note, Record
<1>16. ASSUME ProfileReplaces, UNCHANGED partialVars PROVE VenueTypes'
  BY <1>16 DEF ProfileReplaces, Note
<1>17. ASSUME ProfilesDone, UNCHANGED partialVars PROVE VenueTypes'
  BY <1>17 DEF ProfilesDone
<1>18. ASSUME FindStop, UNCHANGED partialVars PROVE VenueTypes'
  BY <1>18 DEF FindStop
<1>19. ASSUME RemoveStop, UNCHANGED partialVars PROVE VenueTypes'
  <2>1. stop' \in {stop, NoPrice} /\ UNCHANGED <<position, mark, openings, truth, running, seen, have>>
    BY <1>19 DEF RemoveStop
  <2>. QED
    BY <2>1 DEF NoPrice
<1>20. ASSUME InstallStop, UNCHANGED partialVars PROVE VenueTypes'
  <2>1. stop' \in {stop, candidate, previous}
    BY <1>20 DEF InstallStop, Accepted, Placed
  <2>2. \/ UNCHANGED truth
        \/ \E price \in {candidate, previous} : truth' = [truth EXCEPT !.tightest = Better(position.side, @, price)]
    BY <1>20 DEF InstallStop, Accepted, Placed
  <2>3. truth' \in Truths
    <3>1. candidate \in Nat /\ previous \in Nat /\ truth \in Truths
      BY DEF Truths
    <3>2. ASSUME NEW price \in {candidate, previous}
          PROVE  [truth EXCEPT !.tightest = Better(position.side, @, price)] \in Truths
      BY <3>1, TruthTypes
    <3>. QED
      BY <3>1, <3>2, <2>2
  <2>. QED
    BY <2>1, <2>3, <1>20 DEF InstallStop, Truths
<1>21. ASSUME RestoreStop, UNCHANGED partialVars PROVE VenueTypes'
  <2>1. stop' \in {stop, candidate, previous}
    BY <1>21 DEF RestoreStop, Accepted, Placed
  <2>2. \/ UNCHANGED truth
        \/ \E price \in {candidate, previous} : truth' = [truth EXCEPT !.tightest = Better(position.side, @, price)]
    BY <1>21 DEF RestoreStop, Accepted, Placed
  <2>3. truth' \in Truths
    <3>1. candidate \in Nat /\ previous \in Nat /\ truth \in Truths
      BY DEF Truths
    <3>2. ASSUME NEW price \in {candidate, previous}
          PROVE  [truth EXCEPT !.tightest = Better(position.side, @, price)] \in Truths
      BY <3>1, TruthTypes
    <3>. QED
      BY <3>1, <3>2, <2>2
  <2>. QED
    BY <2>1, <2>3, <1>21 DEF RestoreStop, Truths
<1>22. ASSUME RecordCritical, UNCHANGED partialVars PROVE VenueTypes'
  BY <1>22 DEF RecordCritical
<1>23. ASSUME NoteApplied, UNCHANGED partialVars PROVE VenueTypes'
  BY <1>23 DEF NoteApplied, Note
<1>24. ASSUME Fail, UNCHANGED partialVars PROVE VenueTypes'
  BY <1>24 DEF Fail
<1>25. ASSUME Save, UNCHANGED partialVars PROVE VenueTypes'
  BY <1>25 DEF Save
<1>26. ASSUME Partial PROVE VenueTypes'
  BY <1>26 DEF Partial, PartialNext, LoadBook, TargetQuiet, TargetRecords, TargetsDone
<1>27. ASSUME EndPass PROVE VenueTypes'
  BY <1>27 DEF EndPass, ForgetPass, Unread, NoPrice
<1>28. ASSUME StopEngine PROVE VenueTypes'
  <2>1. stop' \in {stop, NoPrice, candidate, previous}
    BY <1>28 DEF StopEngine, ForgetPass, InFlight, Accepted, Placed
  <2>2. \/ UNCHANGED truth
        \/ \E price \in {candidate, previous} : truth' = [truth EXCEPT !.tightest = Better(position.side, @, price)]
    BY <1>28 DEF StopEngine, ForgetPass, InFlight, Accepted, Placed
  <2>3. stop' \in Nat
    BY <2>1 DEF NoPrice
  <2>4. truth' \in Truths
    <3>1. candidate \in Nat /\ previous \in Nat /\ truth \in Truths
      BY DEF Truths
    <3>2. ASSUME NEW price \in {candidate, previous}
          PROVE  [truth EXCEPT !.tightest = Better(position.side, @, price)] \in Truths
      BY <3>1, TruthTypes
    <3>. QED
      BY <3>1, <3>2, <2>2
  <2>5. UNCHANGED <<position, mark, openings>> /\ running' = FALSE /\ seen' = Unread /\ have' = {}
    BY <1>28 DEF StopEngine, ForgetPass, InFlight, Accepted, Placed
  <2>. QED
    BY <2>3, <2>4, <2>5 DEF Unread, NoPrice, Truths
<1>29. ASSUME Crash PROVE VenueTypes'
  <2>1. stop' \in {stop, NoPrice, candidate, previous}
    BY <1>29 DEF Crash, ForgetPass, InFlight, Accepted, Placed
  <2>2. \/ UNCHANGED truth
        \/ \E price \in {candidate, previous} : truth' = [truth EXCEPT !.tightest = Better(position.side, @, price)]
    BY <1>29 DEF Crash, ForgetPass, InFlight, Accepted, Placed
  <2>3. stop' \in Nat
    BY <2>1 DEF NoPrice
  <2>4. truth' \in Truths
    <3>1. candidate \in Nat /\ previous \in Nat /\ truth \in Truths
      BY DEF Truths
    <3>2. ASSUME NEW price \in {candidate, previous}
          PROVE  [truth EXCEPT !.tightest = Better(position.side, @, price)] \in Truths
      BY <3>1, TruthTypes
    <3>. QED
      BY <3>1, <3>2, <2>2
  <2>5. UNCHANGED <<position, mark, openings>> /\ running' = FALSE /\ seen' = Unread /\ have' = {}
    BY <1>29 DEF Crash, ForgetPass, InFlight, Accepted, Placed
  <2>. QED
    BY <2>3, <2>4, <2>5 DEF Unread, NoPrice, Truths
<1>30. ASSUME StartEngine PROVE VenueTypes'
  BY <1>30 DEF StartEngine
<1>31. ASSUME Escalate PROVE VenueTypes'
  BY <1>31 DEF Escalate, ForgetPass, Flat, Unread, NoPrice
<1>. QED
  BY <1>1, <1>2, <1>3, <1>4, <1>5, <1>6, <1>7, <1>8, <1>9, <1>10, <1>11, <1>12, <1>13, <1>14,
     <1>15, <1>16, <1>17, <1>18, <1>19, <1>20, <1>21, <1>22, <1>23, <1>24, <1>25, <1>26, <1>27,
     <1>28, <1>29, <1>30, <1>31 DEF Next, EngineOrders, ExchangeMoves, GuardReads, Trailing,
     TrailingNext

\* The trailing stop keeps its types: a trigger is a price because it is better
\* than a price, which AtHand knows to be of the same position.
LEMMA TrailingTypesStep ==
  ASSUME Types, AtHand, [Next]_vars
  PROVE  TrailingTypes'
<1>. USE DEF venueVars, passVars, trailingVars, partialVars, experiment, Types, VenueTypes, TrailingTypes
<1>1. CASE UNCHANGED vars
  BY <1>1 DEF vars
<1>2. ASSUME NEW side \in Sides, NEW entry \in Entries, EngineOrders, Unremembered(side, entry),
             Open(side, entry)
      PROVE  TrailingTypes'
  BY <1>2, AbsentTypes DEF EngineOrders, Open
<1>3. ASSUME NEW entry \in Prices, NEW trigger \in Prices \cup {stop}, EngineOrders,
             Unremembered(position.side, entry), Add(entry, trigger)
      PROVE  TrailingTypes'
  BY <1>3, AbsentTypes DEF EngineOrders, Add
<1>4. ASSUME NEW price \in Prices, MoveMark(price), UNCHANGED <<trailingVars, partialVars>>
      PROVE  TrailingTypes'
  BY <1>4 DEF MoveMark, MarkMatters
<1>5. ASSUME Close, UNCHANGED <<trailingVars, partialVars>>
      PROVE  TrailingTypes'
  BY <1>5 DEF Close, PositionMatters, MarkMatters
<1>6. ASSUME BeginPass, UNCHANGED <<trailingVars, partialVars>>
      PROVE  TrailingTypes'
  BY <1>6 DEF BeginPass
<1>7. ASSUME ReadAccount, UNCHANGED <<trailingVars, partialVars>>
      PROVE  TrailingTypes'
  BY <1>7 DEF ReadAccount, Proceed
<1>8. ASSUME ReadLevels, UNCHANGED <<trailingVars, partialVars>>
      PROVE  TrailingTypes'
  BY <1>8 DEF ReadLevels, Proceed
<1>9. ASSUME ReadFails, UNCHANGED <<trailingVars, partialVars>>
      PROVE  TrailingTypes'
  BY <1>9 DEF ReadFails
<1>10. ASSUME Load, UNCHANGED partialVars PROVE TrailingTypes'
  BY <1>10, RestoredTypes DEF Load
<1>11. ASSUME Forget, UNCHANGED partialVars PROVE TrailingTypes'
  BY <1>11, AbsentTypes DEF Forget
<1>12. ASSUME Observe, UNCHANGED partialVars PROVE TrailingTypes'
  <2>1. CASE UNCHANGED <<state, dirty, todo>>
    BY <2>1, <1>12 DEF Observe
  <2>2. CASE ~UNCHANGED <<state, dirty, todo>>
    <3>. DEFINE base == IF Known THEN state ELSE Started
    <3>1. /\ state' = [base EXCEPT !.best = Better(seen.side, base.best, seen.mark)]
          /\ dirty' = (dirty \/ state' # state)
          /\ todo' = Working
      BY <2>2, <1>12 DEF Observe
    <3>2. state' \in States
      BY <3>1, <1>12, ObservedTypes DEF Observe
    <3>. QED
      BY <3>1, <3>2, <1>12, AbsentTypes DEF Observe
  <2>. QED
    BY <2>1, <2>2
<1>13. ASSUME ProfileQuiet, UNCHANGED partialVars PROVE TrailingTypes'
  <2>. DEFINE p == [Progress EXCEPT !.active = @ \/ (~Progress.filled /\ Activated)]
  <2>1. todo # <<>> /\ Note(p)
    BY <1>13 DEF ProfileQuiet
  <2>2. Progress \in [active : BOOLEAN, last : Nat, filled : BOOLEAN] /\ Tail(todo) \in Seq(DOMAIN Profiles)
    BY <2>1, HeadOfTodo
  <2>3. Activated \in BOOLEAN
    BY <2>2 DEF Activated
  <2>4. p \in [active : BOOLEAN, last : Nat, filled : BOOLEAN]
    BY <2>2, <2>3
  <2>5. state' \in States
    BY <2>1, <2>4, NoteTypes
  <2>. QED
    BY <2>2, <2>5, <1>13 DEF ProfileQuiet
<1>14. ASSUME ProfileFills, UNCHANGED partialVars PROVE TrailingTypes'
  <2>1. todo # <<>> /\ Note([Progress EXCEPT !.filled = TRUE])
    BY <1>14 DEF ProfileFills
  <2>2. Progress \in [active : BOOLEAN, last : Nat, filled : BOOLEAN] /\ Tail(todo) \in Seq(DOMAIN Profiles) /\ Head(todo) \in DOMAIN Profiles
    BY <2>1, HeadOfTodo
  <2>3. state' \in States
    BY <2>1, <2>2, NoteTypes
  <2>4. fills' \in {fills, [fills EXCEPT ![Head(todo)] = @ + 1]}
    BY <1>14 DEF ProfileFills, Record
  <2>5. \A h \in DOMAIN Profiles : [fills EXCEPT ![h] = @ + 1] \in [DOMAIN Profiles -> Nat]
    OBVIOUS
  <2>6. fills' \in [DOMAIN Profiles -> Nat]
    <3>1. [fills EXCEPT ![Head(todo)] = @ + 1] \in [DOMAIN Profiles -> Nat]
      BY <2>2, <2>5
    <3>. QED
      BY <3>1, <2>4
  <2>. QED
    BY <2>2, <2>3, <2>6, <1>14 DEF ProfileFills, Record
<1>15. ASSUME ProfileRecords, UNCHANGED partialVars PROVE TrailingTypes'
  <2>1. todo # <<>> /\ Due /\ Note([Progress EXCEPT !.active = TRUE, !.last = Trigger])
    BY <1>15 DEF ProfileRecords
  <2>2. Progress \in [active : BOOLEAN, last : Nat, filled : BOOLEAN] /\ Tail(todo) \in Seq(DOMAIN Profiles)
    BY <2>1, HeadOfTodo
  <2>3. Trigger \in Nat
    BY <2>1, <1>15, CandidateImproves DEF ProfileRecords, Due, AtHand, Managing
  <2>4. state' \in States
    BY <2>1, <2>2, <2>3, NoteTypes
  <2>. QED
    BY <2>2, <2>4, <1>15 DEF ProfileRecords, Record
<1>16. ASSUME ProfileReplaces, UNCHANGED partialVars PROVE TrailingTypes'
  <2>1. todo # <<>> /\ Due /\ Note([Progress EXCEPT !.active = TRUE])
    BY <1>16 DEF ProfileReplaces
  <2>2. Progress \in [active : BOOLEAN, last : Nat, filled : BOOLEAN]
    BY <2>1, HeadOfTodo
  <2>3. Trigger \in Nat
    BY <2>1, <1>16, CandidateImproves DEF ProfileReplaces, Due, AtHand, Managing
  <2>4. state' \in States
    BY <2>1, <2>2, NoteTypes
  <2>. QED
    BY <2>3, <2>4, <1>16 DEF ProfileReplaces
<1>17. ASSUME ProfilesDone, UNCHANGED partialVars PROVE TrailingTypes'
  BY <1>17 DEF ProfilesDone
<1>18. ASSUME FindStop, UNCHANGED partialVars PROVE TrailingTypes'
  BY <1>18 DEF FindStop
<1>19. ASSUME RemoveStop, UNCHANGED partialVars PROVE TrailingTypes'
  BY <1>19 DEF RemoveStop
<1>20. ASSUME InstallStop, UNCHANGED partialVars PROVE TrailingTypes'
  BY <1>20 DEF InstallStop, Accepted, Placed
<1>21. ASSUME RestoreStop, UNCHANGED partialVars PROVE TrailingTypes'
  BY <1>21 DEF RestoreStop, Accepted, Placed
<1>22. ASSUME RecordCritical, UNCHANGED partialVars PROVE TrailingTypes'
  BY <1>22 DEF RecordCritical
<1>23. ASSUME NoteApplied, UNCHANGED partialVars PROVE TrailingTypes'
  <2>1. todo # <<>> /\ Note([Progress EXCEPT !.last = candidate])
    BY <1>23 DEF NoteApplied, AtHand, Replacing
  <2>2. Progress \in [active : BOOLEAN, last : Nat, filled : BOOLEAN] /\ Tail(todo) \in Seq(DOMAIN Profiles)
    BY <2>1, HeadOfTodo
  <2>3. state' \in States
    BY <2>1, <2>2, NoteTypes
  <2>. QED
    BY <2>2, <2>3, <1>23 DEF NoteApplied
<1>24. ASSUME Fail, UNCHANGED partialVars PROVE TrailingTypes'
  BY <1>24 DEF Fail
<1>25. ASSUME Save, UNCHANGED partialVars PROVE TrailingTypes'
  <2>1. saved' \in {saved, [mode |-> mode, state |-> state]}
    BY <1>25 DEF Save
  <2>2. saved' \in [mode : Modes \cup {"NONE"}, state : States]
    BY <2>1
  <2>. QED
    BY <2>2, <1>25, AbsentTypes DEF Save
<1>26. ASSUME Partial PROVE TrailingTypes'
  BY <1>26 DEF Partial, PartialNext, LoadBook, TargetQuiet, TargetRecords, TargetsDone
<1>27. ASSUME EndPass PROVE TrailingTypes'
  BY <1>27, AbsentTypes DEF EndPass, ForgetPass, NoPrice
<1>28. ASSUME StopEngine PROVE TrailingTypes'
  <2>1. saved' \in {saved, [mode |-> mode, state |-> state]}
    BY <1>28 DEF StopEngine, ForgetPass, InFlight, Accepted, Placed
  <2>2. saved' \in [mode : Modes \cup {"NONE"}, state : States]
    BY <2>1
  <2>3. todo' \in Seq(DOMAIN Profiles) /\ fills' \in [DOMAIN Profiles -> Nat] /\ state' \in States
    BY <1>28, AbsentTypes DEF StopEngine, ForgetPass, NoPrice
  <2>4. mode' \in Modes /\ loaded' \in BOOLEAN /\ dirty' \in BOOLEAN /\ candidate' \in Nat /\ previous' \in Nat
    BY <1>28 DEF StopEngine, ForgetPass, NoPrice
  <2>. QED
    BY <2>2, <2>3, <2>4
<1>29. ASSUME Crash PROVE TrailingTypes'
  <2>1. saved' \in {saved, [mode |-> mode, state |-> state]}
    BY <1>29 DEF Crash, ForgetPass, InFlight, Accepted, Placed
  <2>2. saved' \in [mode : Modes \cup {"NONE"}, state : States]
    BY <2>1
  <2>3. todo' \in Seq(DOMAIN Profiles) /\ fills' \in [DOMAIN Profiles -> Nat] /\ state' \in States
    BY <1>29, AbsentTypes DEF Crash, ForgetPass, NoPrice
  <2>4. mode' \in Modes /\ loaded' \in BOOLEAN /\ dirty' \in BOOLEAN /\ candidate' \in Nat /\ previous' \in Nat
    BY <1>29 DEF Crash, ForgetPass, NoPrice
  <2>. QED
    BY <2>2, <2>3, <2>4
<1>30. ASSUME StartEngine PROVE TrailingTypes'
  BY <1>30 DEF StartEngine
<1>31. ASSUME Escalate PROVE TrailingTypes'
  BY <1>31, AbsentTypes DEF Escalate, ForgetPass, NoPrice
<1>. QED
  BY <1>1, <1>2, <1>3, <1>4, <1>5, <1>6, <1>7, <1>8, <1>9, <1>10, <1>11, <1>12, <1>13, <1>14,
     <1>15, <1>16, <1>17, <1>18, <1>19, <1>20, <1>21, <1>22, <1>23, <1>24, <1>25, <1>26, <1>27,
     <1>28, <1>29, <1>30, <1>31 DEF Next, EngineOrders, ExchangeMoves, GuardReads, Trailing,
     TrailingNext

\* The experiment keeps its types.
LEMMA PartialTypesStep ==
  ASSUME Types, [Next]_vars
  PROVE  PartialTypes'
<1>. USE DEF venueVars, passVars, trailingVars, partialVars, experiment, Types, VenueTypes, PartialTypes
<1>1. CASE UNCHANGED vars
  BY <1>1 DEF vars
<1>2. ASSUME NEW side \in Sides, NEW entry \in Entries, EngineOrders, Unremembered(side, entry),
             Open(side, entry)
      PROVE  PartialTypes'
  BY <1>2 DEF EngineOrders, Unremembered, Open
<1>3. ASSUME NEW entry \in Prices, NEW trigger \in Prices \cup {stop}, EngineOrders,
             Unremembered(position.side, entry), Add(entry, trigger)
      PROVE  PartialTypes'
  BY <1>3 DEF EngineOrders, Unremembered, Add
<1>4. ASSUME NEW price \in Prices, MoveMark(price), UNCHANGED <<trailingVars, partialVars>>
      PROVE  PartialTypes'
  BY <1>4 DEF MoveMark, MarkMatters
<1>5. ASSUME Close, UNCHANGED <<trailingVars, partialVars>>
      PROVE  PartialTypes'
  BY <1>5 DEF Close, PositionMatters, MarkMatters
<1>6. ASSUME BeginPass, UNCHANGED <<trailingVars, partialVars>>
      PROVE  PartialTypes'
  BY <1>6 DEF BeginPass
<1>7. ASSUME ReadAccount, UNCHANGED <<trailingVars, partialVars>>
      PROVE  PartialTypes'
  BY <1>7 DEF ReadAccount, Proceed
<1>8. ASSUME ReadLevels, UNCHANGED <<trailingVars, partialVars>>
      PROVE  PartialTypes'
  BY <1>8 DEF ReadLevels, Proceed
<1>9. ASSUME ReadFails, UNCHANGED <<trailingVars, partialVars>>
      PROVE  PartialTypes'
  BY <1>9 DEF ReadFails
<1>10. ASSUME Load, UNCHANGED partialVars PROVE PartialTypes'
  BY <1>10 DEF Load, Restored
<1>11. ASSUME Forget, UNCHANGED partialVars PROVE PartialTypes'
  BY <1>11 DEF Forget
<1>12. ASSUME Observe, UNCHANGED partialVars PROVE PartialTypes'
  BY <1>12 DEF Observe, Known, Started
<1>13. ASSUME ProfileQuiet, UNCHANGED partialVars PROVE PartialTypes'
  BY <1>13 DEF ProfileQuiet, Note
<1>14. ASSUME ProfileFills, UNCHANGED partialVars PROVE PartialTypes'
  BY <1>14 DEF ProfileFills, Note, Record
<1>15. ASSUME ProfileRecords, UNCHANGED partialVars PROVE PartialTypes'
  BY <1>15 DEF ProfileRecords, Note, Record
<1>16. ASSUME ProfileReplaces, UNCHANGED partialVars PROVE PartialTypes'
  BY <1>16 DEF ProfileReplaces, Note
<1>17. ASSUME ProfilesDone, UNCHANGED partialVars PROVE PartialTypes'
  BY <1>17 DEF ProfilesDone
<1>18. ASSUME FindStop, UNCHANGED partialVars PROVE PartialTypes'
  BY <1>18 DEF FindStop
<1>19. ASSUME RemoveStop, UNCHANGED partialVars PROVE PartialTypes'
  BY <1>19 DEF RemoveStop
<1>20. ASSUME InstallStop, UNCHANGED partialVars PROVE PartialTypes'
  BY <1>20 DEF InstallStop, Accepted, Placed
<1>21. ASSUME RestoreStop, UNCHANGED partialVars PROVE PartialTypes'
  BY <1>21 DEF RestoreStop, Accepted, Placed
<1>22. ASSUME RecordCritical, UNCHANGED partialVars PROVE PartialTypes'
  BY <1>22 DEF RecordCritical
<1>23. ASSUME NoteApplied, UNCHANGED partialVars PROVE PartialTypes'
  BY <1>23 DEF NoteApplied, Note
<1>24. ASSUME Fail, UNCHANGED partialVars PROVE PartialTypes'
  BY <1>24 DEF Fail
<1>25. ASSUME Save, UNCHANGED partialVars PROVE PartialTypes'
  BY <1>25 DEF Save
<1>26. ASSUME LoadBook, UNCHANGED trailingVars PROVE PartialTypes'
  <2>1. NewBook \in Books \/ seen.side = "NONE"
    BY NewBookTypes
  <2>2. book' \in Books
    <3>1. \/ book' = NoBook \/ book' = Held
          \/ book' = NewBook /\ seen.side # "NONE"
      BY <1>26 DEF LoadBook
    <3>2. Held \in Books
      BY DEF Held
    <3>. QED
      BY <2>1, <3>1, <3>2, AbsentTypes
  <2>3. left' \in {left, <<>>, [i \in DOMAIN Targets |-> i]}
    BY <1>26 DEF LoadBook
  <2>5. left' \in Seq(DOMAIN Targets)
    BY <2>3, AbsentTypes
  <2>4. bookDirty' \in BOOLEAN /\ bookLoaded' \in BOOLEAN
    BY <1>26 DEF LoadBook
  <2>. QED
    BY <2>2, <2>4, <2>5, <1>26 DEF LoadBook
<1>27. ASSUME TargetQuiet, UNCHANGED trailingVars PROVE PartialTypes'
  BY <1>27 DEF TargetQuiet
<1>28. ASSUME TargetRecords, UNCHANGED trailingVars PROVE PartialTypes'
  <2>1. Simulate /\ bookLoaded' = bookLoaded /\ bookSaved' = bookSaved /\ bookDirty' \in BOOLEAN
        /\ left' \in {Tail(left), <<>>}
    BY <1>28 DEF TargetRecords
  <2>2. book' \in Books /\ Tail(left) \in Seq(DOMAIN Targets)
    BY <2>1, SaleTypes DEF Simulate
  <2>. QED
    BY <2>1, <2>2, AbsentTypes
<1>29. ASSUME TargetsDone, UNCHANGED trailingVars PROVE PartialTypes'
  BY <1>29 DEF TargetsDone
<1>30. ASSUME EndPass PROVE PartialTypes'
  BY <1>30, AbsentTypes DEF EndPass, ForgetPass
<1>31. ASSUME StopEngine PROVE PartialTypes'
  <2>1. bookSaved' = bookSaved /\ left' = <<>> /\ bookDirty' = FALSE
    BY <1>31 DEF StopEngine, ForgetPass, InFlight
  <2>2. CutRecord \/ UNCHANGED experiment
    BY <1>31 DEF StopEngine
  <2>3. book' \in Books /\ bookLoaded' \in BOOLEAN
    <3>1. CASE UNCHANGED experiment
      BY <3>1
    <3>2. CASE Simulate /\ UNCHANGED bookLoaded
      BY <3>2, SaleTypes DEF Simulate
    <3>3. CASE book' = NoBook /\ bookLoaded' = TRUE
      BY <3>3, AbsentTypes
    <3>. QED
      BY <2>2, <3>1, <3>2, <3>3 DEF CutRecord
  <2>. QED
    BY <2>1, <2>3, AbsentTypes
<1>32. ASSUME Crash PROVE PartialTypes'
  <2>1. bookSaved' = bookSaved
    BY <1>32 DEF Crash, ForgetPass, InFlight, Accepted, Placed
  <2>2. book' \in Books /\ left' \in Seq(DOMAIN Targets)
    BY <1>32, AbsentTypes DEF Crash, ForgetPass, InFlight, Accepted, Placed
  <2>. QED
    BY <2>1, <2>2, <1>32 DEF Crash, ForgetPass
<1>33. ASSUME StartEngine PROVE PartialTypes'
  BY <1>33 DEF StartEngine
<1>34. ASSUME Escalate PROVE PartialTypes'
  BY <1>34, AbsentTypes DEF Escalate, ForgetPass
<1>. QED
  BY <1>1, <1>2, <1>3, <1>4, <1>5, <1>6, <1>7, <1>8, <1>9, <1>10, <1>11, <1>12, <1>13, <1>14,
     <1>15, <1>16, <1>17, <1>18, <1>19, <1>20, <1>21, <1>22, <1>23, <1>24, <1>25, <1>26, <1>27,
     <1>28, <1>29, <1>30, <1>31, <1>32, <1>33, <1>34 DEF Next, EngineOrders, ExchangeMoves,
     GuardReads, Trailing, TrailingNext, Partial, PartialNext

\* The bound on failing writes, stops and crashes holds.
LEMMA MishapsStep ==
  ASSUME Types, [Next]_vars
  PROVE  (mishaps \in 0..MaxMishaps)'
<1>. USE DEF partialVars
<1>1. CASE UNCHANGED mishaps
  BY <1>1 DEF Types
<1>2. CASE mishaps < MaxMishaps /\ mishaps' = mishaps + 1
  BY <1>2, TargetAssumption DEF Types
<1>3. LoadBook \/ TargetQuiet \/ TargetRecords \/ TargetsDone
      => UNCHANGED mishaps \/ (mishaps < MaxMishaps /\ mishaps' = mishaps + 1)
  BY DEF LoadBook, TargetQuiet, TargetRecords, TargetsDone, WriteFails
<1>4. StopEngine \/ Crash => mishaps < MaxMishaps /\ mishaps' = mishaps + 1
  BY DEF StopEngine, Crash
<1>5. \/ UNCHANGED vars \/ EngineOrders \/ ExchangeMoves \/ GuardReads \/ Trailing
      \/ EndPass \/ StartEngine \/ Escalate
      => UNCHANGED mishaps
  BY DEF vars, EngineOrders, ExchangeMoves, GuardReads, Trailing, EndPass, StartEngine, Escalate
<1>. QED
  BY <1>1, <1>2, <1>3, <1>4, <1>5 DEF Next, Partial, PartialNext

\* All types together.
LEMMA TypesStep ==
  ASSUME Types, AtHand, [Next]_vars
  PROVE  Types'
BY VenueTypesStep, TrailingTypesStep, PartialTypesStep, MishapsStep DEF Types

----------------------------------------------------------------------------
\* The parts of the invariants, action by action.


\* The state at hand is that of the position seen: Observe makes it so, and
\* nothing before the end of the pass changes either.
LEMMA AtHandStep ==
  ASSUME Types, AtHand, [Next]_vars
  PROVE  AtHand'
<1>. USE DEF venueVars, passVars, trailingVars, partialVars, experiment, Types, VenueTypes, TrailingTypes, AtHand, Managing, Replacing, Known, Started, NoPrice
<1>1. CASE UNCHANGED vars
  BY <1>1 DEF vars
<1>2. ASSUME NEW side \in Sides, NEW entry \in Entries, EngineOrders, Unremembered(side, entry),
             Open(side, entry)
      PROVE  AtHand'
  BY <1>2 DEF EngineOrders, Unremembered, Open
<1>3. ASSUME NEW entry \in Prices, NEW trigger \in Prices \cup {stop}, EngineOrders,
             Unremembered(position.side, entry), Add(entry, trigger)
      PROVE  AtHand'
  BY <1>3 DEF EngineOrders, Unremembered, Add
<1>4. ASSUME NEW price \in Prices, MoveMark(price), UNCHANGED <<trailingVars, partialVars>>
      PROVE  AtHand'
  BY <1>4 DEF MoveMark, MarkMatters
<1>5. ASSUME Close, UNCHANGED <<trailingVars, partialVars>>
      PROVE  AtHand'
  BY <1>5 DEF Close, PositionMatters, MarkMatters
<1>6. ASSUME BeginPass, UNCHANGED <<trailingVars, partialVars>>
      PROVE  AtHand'
  BY <1>6 DEF BeginPass
<1>7. ASSUME ReadAccount, UNCHANGED <<trailingVars, partialVars>>
      PROVE  AtHand'
  BY <1>7 DEF ReadAccount, Proceed
<1>8. ASSUME ReadLevels, UNCHANGED <<trailingVars, partialVars>>
      PROVE  AtHand'
  BY <1>8 DEF ReadLevels, Proceed
<1>9. ASSUME ReadFails, UNCHANGED <<trailingVars, partialVars>>
      PROVE  AtHand'
  BY <1>9 DEF ReadFails
<1>10. ASSUME Load, UNCHANGED partialVars PROVE AtHand'
  BY <1>10 DEF Load, Restored
<1>11. ASSUME Forget, UNCHANGED partialVars PROVE AtHand'
  BY <1>11 DEF Forget
<1>12. ASSUME Observe, UNCHANGED partialVars PROVE AtHand'
  <2>1. CASE pc' = "failed"
    BY <2>1, <1>12 DEF Observe
  <2>2. CASE pc' # "failed"
    BY <2>2, <1>12, ObserveKeeps DEF Working, Observe
  <2>. QED
    BY <2>1, <2>2
<1>13. ASSUME ProfileQuiet, UNCHANGED partialVars PROVE AtHand'
  <2>1. todo # <<>> /\ Note([Progress EXCEPT !.active = @ \/ (~Progress.filled /\ Activated)])
    BY <1>13 DEF ProfileQuiet
  <2>2. state'.side = state.side /\ state'.entry = state.entry
    BY <2>1, NoteKeeps
  <2>3. mode # "shadow" => Tail(todo) = <<>>
    BY <2>1, <1>13, LiveTail DEF ProfileQuiet
  <2>. QED
    BY <2>1, <2>2, <2>3, <1>13 DEF ProfileQuiet
<1>14. ASSUME ProfileFills, UNCHANGED partialVars PROVE AtHand'
  <2>1. todo # <<>> /\ Note([Progress EXCEPT !.filled = TRUE])
    BY <1>14 DEF ProfileFills
  <2>2. state'.side = state.side /\ state'.entry = state.entry
    BY <2>1, NoteKeeps
  <2>3. mode # "shadow" => Tail(todo) = <<>>
    BY <2>1, <1>14, LiveTail DEF ProfileFills
  <2>. QED
    BY <2>1, <2>2, <2>3, <1>14 DEF ProfileFills, Record
<1>15. ASSUME ProfileRecords, UNCHANGED partialVars PROVE AtHand'
  <2>1. todo # <<>> /\ Note([Progress EXCEPT !.active = TRUE, !.last = Trigger])
    BY <1>15 DEF ProfileRecords
  <2>2. state'.side = state.side /\ state'.entry = state.entry
    BY <2>1, NoteKeeps
  <2>3. mode # "shadow" => Tail(todo) = <<>>
    BY <2>1, <1>15, LiveTail DEF ProfileRecords
  <2>. QED
    BY <2>1, <2>2, <2>3, <1>15 DEF ProfileRecords, Record
<1>16. ASSUME ProfileReplaces, UNCHANGED partialVars PROVE AtHand'
  BY <1>16 DEF ProfileReplaces, Note
<1>17. ASSUME ProfilesDone, UNCHANGED partialVars PROVE AtHand'
  BY <1>17 DEF ProfilesDone
<1>18. ASSUME FindStop, UNCHANGED partialVars PROVE AtHand'
  BY <1>18 DEF FindStop
<1>19. ASSUME RemoveStop, UNCHANGED partialVars PROVE AtHand'
  BY <1>19 DEF RemoveStop
<1>20. ASSUME InstallStop, UNCHANGED partialVars PROVE AtHand'
  BY <1>20 DEF InstallStop, Accepted, Placed
<1>21. ASSUME RestoreStop, UNCHANGED partialVars PROVE AtHand'
  BY <1>21 DEF RestoreStop, Accepted, Placed
<1>22. ASSUME RecordCritical, UNCHANGED partialVars PROVE AtHand'
  BY <1>22 DEF RecordCritical
<1>23. ASSUME NoteApplied, UNCHANGED partialVars PROVE AtHand'
  <2>1. todo # <<>> /\ Note([Progress EXCEPT !.last = candidate])
    BY <1>23 DEF NoteApplied
  <2>2. state'.side = state.side /\ state'.entry = state.entry
    BY <2>1, NoteKeeps
  <2>3. mode # "shadow" => Tail(todo) = <<>>
    BY <2>1, <1>23, LiveTail DEF NoteApplied
  <2>. QED
    BY <2>1, <2>2, <2>3, <1>23 DEF NoteApplied
<1>24. ASSUME Fail, UNCHANGED partialVars PROVE AtHand'
  BY <1>24 DEF Fail
<1>25. ASSUME Save, UNCHANGED partialVars PROVE AtHand'
  BY <1>25 DEF Save
<1>26. ASSUME Partial PROVE AtHand'
  BY <1>26 DEF Partial, PartialNext, LoadBook, TargetQuiet, TargetRecords, TargetsDone
<1>27. ASSUME EndPass PROVE AtHand'
  BY <1>27 DEF EndPass, ForgetPass
<1>28. ASSUME StopEngine PROVE AtHand'
  BY <1>28 DEF StopEngine, ForgetPass, InFlight, Accepted, Placed
<1>29. ASSUME Crash PROVE AtHand'
  BY <1>29 DEF Crash, ForgetPass, InFlight, Accepted, Placed
<1>30. ASSUME StartEngine PROVE AtHand'
  BY <1>30 DEF StartEngine
<1>31. ASSUME Escalate PROVE AtHand'
  BY <1>31 DEF Escalate, ForgetPass
<1>. QED
  BY <1>1, <1>2, <1>3, <1>4, <1>5, <1>6, <1>7, <1>8, <1>9, <1>10, <1>11, <1>12, <1>13, <1>14,
     <1>15, <1>16, <1>17, <1>18, <1>19, <1>20, <1>21, <1>22, <1>23, <1>24, <1>25, <1>26, <1>27,
     <1>28, <1>29, <1>30, <1>31 DEF Next, EngineOrders, ExchangeMoves, GuardReads, Trailing,
     TrailingNext

\* Marks come from the exchange, triggers are better than a price.
LEMMA RealPricesStep ==
  ASSUME Types, AtHand, RealPrices, [Next]_vars
  PROVE  RealPrices'
<1>. USE DEF venueVars, passVars, trailingVars, partialVars, experiment, Types, VenueTypes, TrailingTypes, AtHand, Managing, Replacing, RealPrices
<1>1. CASE UNCHANGED vars
  BY <1>1 DEF vars
<1>2. ASSUME NEW side \in Sides, NEW entry \in Entries, EngineOrders, Unremembered(side, entry),
             Open(side, entry)
      PROVE  RealPrices'
  BY <1>2 DEF EngineOrders, Unremembered, Open
<1>3. ASSUME NEW entry \in Prices, NEW trigger \in Prices \cup {stop}, EngineOrders,
             Unremembered(position.side, entry), Add(entry, trigger)
      PROVE  RealPrices'
  BY <1>3 DEF EngineOrders, Unremembered, Add
<1>4. ASSUME NEW price \in Prices, MoveMark(price), UNCHANGED <<trailingVars, partialVars>>
      PROVE  RealPrices'
  BY <1>4 DEF MoveMark, MarkMatters
<1>5. ASSUME Close, UNCHANGED <<trailingVars, partialVars>>
      PROVE  RealPrices'
  BY <1>5 DEF Close, PositionMatters, MarkMatters
<1>6. ASSUME BeginPass, UNCHANGED <<trailingVars, partialVars>>
      PROVE  RealPrices'
  BY <1>6 DEF BeginPass
<1>7. ASSUME ReadAccount, UNCHANGED <<trailingVars, partialVars>>
      PROVE  RealPrices'
  BY <1>7, PriceTypes DEF ReadAccount, Proceed
<1>8. ASSUME ReadLevels, UNCHANGED <<trailingVars, partialVars>>
      PROVE  RealPrices'
  BY <1>8 DEF ReadLevels, Proceed
<1>9. ASSUME ReadFails, UNCHANGED <<trailingVars, partialVars>>
      PROVE  RealPrices'
  BY <1>9 DEF ReadFails
<1>10. ASSUME Load, UNCHANGED partialVars PROVE RealPrices'
  BY <1>10 DEF Load, Restored
<1>11. ASSUME Forget, UNCHANGED partialVars PROVE RealPrices'
  BY <1>11 DEF Forget, NoState
<1>12. ASSUME Observe, UNCHANGED partialVars PROVE RealPrices'
  <2>1. CASE pc' = "failed"
    BY <2>1, <1>12 DEF Observe
  <2>2. CASE pc' # "failed"
    <3>1. state'.best \in {state.best, seen.mark} /\ (Same(state, seen) \/ state'.best = seen.mark)
      BY <2>2, <1>12, ObserveKeeps, GeometryTypes DEF Better
    <3>2. seen.mark # NoPrice /\ (Same(state, seen) => state.best # NoPrice)
      BY <1>12 DEF Observe, Same
    <3>. QED
      BY <2>2, <3>1, <3>2, <1>12, ObserveKeeps DEF Observe
  <2>. QED
    BY <2>1, <2>2
<1>13. ASSUME ProfileQuiet, UNCHANGED partialVars PROVE RealPrices'
  BY <1>13 DEF ProfileQuiet, Note
<1>14. ASSUME ProfileFills, UNCHANGED partialVars PROVE RealPrices'
  BY <1>14 DEF ProfileFills, Note, Record
<1>15. ASSUME ProfileRecords, UNCHANGED partialVars PROVE RealPrices'
  BY <1>15 DEF ProfileRecords, Note, Record
<1>16. ASSUME ProfileReplaces, UNCHANGED partialVars PROVE RealPrices'
  <2>1. todo # <<>> /\ Due /\ Note([Progress EXCEPT !.active = TRUE])
    BY <1>16 DEF ProfileReplaces
  <2>2. state'.side = state.side /\ state'.best = state.best
    BY <2>1, NoteKeeps
  <2>3. seen.side \in Sides /\ state.side = seen.side /\ state.best # NoPrice
    BY <1>16 DEF ProfileReplaces, Sides
  <2>4. Trigger # NoPrice
    BY <2>1, <2>3, CandidateImproves DEF Due
  <2>. QED
    BY <2>2, <2>4, <1>16 DEF ProfileReplaces
<1>17. ASSUME ProfilesDone, UNCHANGED partialVars PROVE RealPrices'
  BY <1>17 DEF ProfilesDone
<1>18. ASSUME FindStop, UNCHANGED partialVars PROVE RealPrices'
  BY <1>18 DEF FindStop
<1>19. ASSUME RemoveStop, UNCHANGED partialVars PROVE RealPrices'
  BY <1>19 DEF RemoveStop
<1>20. ASSUME InstallStop, UNCHANGED partialVars PROVE RealPrices'
  BY <1>20 DEF InstallStop, Accepted, Placed
<1>21. ASSUME RestoreStop, UNCHANGED partialVars PROVE RealPrices'
  BY <1>21 DEF RestoreStop, Accepted, Placed
<1>22. ASSUME RecordCritical, UNCHANGED partialVars PROVE RealPrices'
  BY <1>22 DEF RecordCritical
<1>23. ASSUME NoteApplied, UNCHANGED partialVars PROVE RealPrices'
  BY <1>23 DEF NoteApplied, Note
<1>24. ASSUME Fail, UNCHANGED partialVars PROVE RealPrices'
  BY <1>24 DEF Fail
<1>25. ASSUME Save, UNCHANGED partialVars PROVE RealPrices'
  BY <1>25 DEF Save
<1>26. ASSUME Partial PROVE RealPrices'
  BY <1>26 DEF Partial, PartialNext, LoadBook, TargetQuiet, TargetRecords, TargetsDone
<1>27. ASSUME EndPass PROVE RealPrices'
  BY <1>27 DEF EndPass, ForgetPass
<1>28. ASSUME StopEngine PROVE RealPrices'
  BY <1>28 DEF StopEngine, ForgetPass, InFlight, Accepted, Placed
<1>29. ASSUME Crash PROVE RealPrices'
  BY <1>29 DEF Crash, ForgetPass, InFlight, NoState
<1>30. ASSUME StartEngine PROVE RealPrices'
  BY <1>30 DEF StartEngine
<1>31. ASSUME Escalate PROVE RealPrices'
  BY <1>31 DEF Escalate, ForgetPass
<1>. QED
  BY <1>1, <1>2, <1>3, <1>4, <1>5, <1>6, <1>7, <1>8, <1>9, <1>10, <1>11, <1>12, <1>13, <1>14,
     <1>15, <1>16, <1>17, <1>18, <1>19, <1>20, <1>21, <1>22, <1>23, <1>24, <1>25, <1>26, <1>27,
     <1>28, <1>29, <1>30, <1>31 DEF Next, EngineOrders, ExchangeMoves, GuardReads, Trailing,
     TrailingNext

\* Only the replacement of a stop, or a DELETE of which the guard knows, takes
\* the stop away from a running engine.
LEMMA StopHeldStep ==
  ASSUME NoLostDelete, Types, AtHand, RealPrices, StopHeld, [Next]_vars
  PROVE  StopHeld'
<1>. USE DEF venueVars, passVars, trailingVars, partialVars, experiment, Types, VenueTypes, TrailingTypes, RealPrices, StopHeld, NoLostDelete
<1>1. CASE UNCHANGED vars
  BY <1>1 DEF vars
<1>2. ASSUME NEW side \in Sides, NEW entry \in Entries, EngineOrders, Unremembered(side, entry),
             Open(side, entry)
      PROVE  StopHeld'
  <2>1. stop' # NoPrice
    BY <1>2, PriceTypes, GeometryTypes DEF Open, NoPrice
  <2>. QED
    BY <2>1
<1>3. ASSUME NEW entry \in Prices, NEW trigger \in Prices \cup {stop}, EngineOrders,
             Unremembered(position.side, entry), Add(entry, trigger)
      PROVE  StopHeld'
  <2>1. stop' # NoPrice
    BY <1>3, PriceTypes DEF Add
  <2>. QED
    BY <2>1
<1>4. ASSUME NEW price \in Prices, MoveMark(price), UNCHANGED <<trailingVars, partialVars>>
      PROVE  StopHeld'
  BY <1>4 DEF MoveMark, MarkMatters
<1>5. ASSUME Close, UNCHANGED <<trailingVars, partialVars>>
      PROVE  StopHeld'
  BY <1>5 DEF Close, PositionMatters, MarkMatters
<1>6. ASSUME BeginPass, UNCHANGED <<trailingVars, partialVars>>
      PROVE  StopHeld'
  BY <1>6 DEF BeginPass
<1>7. ASSUME ReadAccount, UNCHANGED <<trailingVars, partialVars>>
      PROVE  StopHeld'
  BY <1>7 DEF ReadAccount, Proceed
<1>8. ASSUME ReadLevels, UNCHANGED <<trailingVars, partialVars>>
      PROVE  StopHeld'
  BY <1>8 DEF ReadLevels, Proceed
<1>9. ASSUME ReadFails, UNCHANGED <<trailingVars, partialVars>>
      PROVE  StopHeld'
  BY <1>9 DEF ReadFails
<1>10. ASSUME Load, UNCHANGED partialVars PROVE StopHeld'
  BY <1>10 DEF Load, Restored
<1>11. ASSUME Forget, UNCHANGED partialVars PROVE StopHeld'
  BY <1>11 DEF Forget
<1>12. ASSUME Observe, UNCHANGED partialVars PROVE StopHeld'
  BY <1>12 DEF Observe, Known, Started
<1>13. ASSUME ProfileQuiet, UNCHANGED partialVars PROVE StopHeld'
  BY <1>13 DEF ProfileQuiet, Note
<1>14. ASSUME ProfileFills, UNCHANGED partialVars PROVE StopHeld'
  BY <1>14 DEF ProfileFills, Note, Record
<1>15. ASSUME ProfileRecords, UNCHANGED partialVars PROVE StopHeld'
  BY <1>15 DEF ProfileRecords, Note, Record
<1>16. ASSUME ProfileReplaces, UNCHANGED partialVars PROVE StopHeld'
  BY <1>16 DEF ProfileReplaces, Note
<1>17. ASSUME ProfilesDone, UNCHANGED partialVars PROVE StopHeld'
  BY <1>17 DEF ProfilesDone
<1>18. ASSUME FindStop, UNCHANGED partialVars PROVE StopHeld'
  BY <1>18 DEF FindStop
<1>19. ASSUME RemoveStop, UNCHANGED partialVars PROVE StopHeld'
  BY <1>19 DEF RemoveStop
<1>20. ASSUME InstallStop, UNCHANGED partialVars PROVE StopHeld'
  BY <1>20 DEF InstallStop, Accepted, Placed
<1>21. ASSUME RestoreStop, UNCHANGED partialVars PROVE StopHeld'
  BY <1>21 DEF RestoreStop, Accepted, Placed
<1>22. ASSUME RecordCritical, UNCHANGED partialVars PROVE StopHeld'
  BY <1>22 DEF RecordCritical
<1>23. ASSUME NoteApplied, UNCHANGED partialVars PROVE StopHeld'
  BY <1>23 DEF NoteApplied, Note
<1>24. ASSUME Fail, UNCHANGED partialVars PROVE StopHeld'
  BY <1>24 DEF Fail
<1>25. ASSUME Save, UNCHANGED partialVars PROVE StopHeld'
  BY <1>25 DEF Save
<1>26. ASSUME Partial PROVE StopHeld'
  BY <1>26 DEF Partial, PartialNext, LoadBook, TargetQuiet, TargetRecords, TargetsDone
<1>27. ASSUME EndPass PROVE StopHeld'
  BY <1>27 DEF EndPass, ForgetPass
<1>28. ASSUME StopEngine PROVE StopHeld'
  BY <1>28 DEF StopEngine, ForgetPass, InFlight, Accepted, Placed
<1>29. ASSUME Crash PROVE StopHeld'
  BY <1>29 DEF Crash, ForgetPass, InFlight, Accepted, Placed
<1>30. ASSUME StartEngine PROVE StopHeld'
  BY <1>30 DEF StartEngine
<1>31. ASSUME Escalate PROVE StopHeld'
  BY <1>31 DEF Escalate, ForgetPass
<1>. QED
  BY <1>1, <1>2, <1>3, <1>4, <1>5, <1>6, <1>7, <1>8, <1>9, <1>10, <1>11, <1>12, <1>13, <1>14,
     <1>15, <1>16, <1>17, <1>18, <1>19, <1>20, <1>21, <1>22, <1>23, <1>24, <1>25, <1>26, <1>27,
     <1>28, <1>29, <1>30, <1>31 DEF Next, EngineOrders, ExchangeMoves, GuardReads, Trailing,
     TrailingNext

\* With both reads at one moment, the position stays as it was seen, or ends:
\* the lock keeps the engine's orders away.
LEMMA SeenIsRealStep ==
  ASSUME NoSkew, Types, AtHand, SeenIsReal, [Next]_vars
  PROVE  SeenIsReal'
<1>. USE DEF venueVars, passVars, trailingVars, partialVars, experiment, Types, VenueTypes, TrailingTypes, AtHand, Managing, Replacing, SeenIsReal, NoSkew, Same
<1>1. CASE UNCHANGED vars
  BY <1>1 DEF vars
<1>2. ASSUME NEW side \in Sides, NEW entry \in Entries, EngineOrders, Unremembered(side, entry),
             Open(side, entry)
      PROVE  SeenIsReal'
  <2>1. pc \in {"idle", "done"} \/ (pc \notin {"read", "profile"} /\ seen.side = "NONE")
    BY <1>2 DEF Open, Locked
  <2>2. position'.side = side /\ mark' = entry /\ truth'.peak = entry /\ UNCHANGED passVars /\ UNCHANGED todo
    BY <1>2 DEF EngineOrders, Open, NewTruth
  <2>3. Gain(position'.side, mark', truth'.peak) >= 0
    BY <2>2, PriceTypes DEF Gain
  <2>. QED
    BY <2>1, <2>2, <2>3 DEF Sides
<1>3. ASSUME NEW entry \in Prices, NEW trigger \in Prices \cup {stop}, EngineOrders,
             Unremembered(position.side, entry), Add(entry, trigger)
      PROVE  SeenIsReal'
  <2>1. pc \in {"idle", "done"} \/ (pc \notin {"read", "profile"} /\ seen.side = "NONE")
    BY <1>3 DEF Add, Locked
  <2>2. position'.side = position.side /\ mark' = mark /\ truth'.peak = mark /\ UNCHANGED passVars /\ UNCHANGED todo
    BY <1>3 DEF EngineOrders, Add, NewTruth
  <2>3. Gain(position'.side, mark', truth'.peak) >= 0
    BY <2>2, PriceTypes DEF Gain
  <2>4. position # Flat
    BY <1>3 DEF Add
  <2>. QED
    BY <2>1, <2>2, <2>3, <2>4
<1>4. ASSUME NEW price \in Prices, MoveMark(price), UNCHANGED <<trailingVars, partialVars>>
      PROVE  SeenIsReal'
  <2>1. truth'.peak = Better(position.side, truth.peak, price) /\ mark' = price
    BY <1>4 DEF MoveMark
  <2>2. price \in Nat /\ seen.mark \in Nat /\ truth.peak \in Nat
    BY PriceTypes
  <2>3. Gain(position.side, price, truth'.peak) >= 0
    BY <2>1, <2>2, BetterGains
  <2>4. Gain(position.side, seen.mark, truth.peak) >= 0 => Gain(position.side, seen.mark, truth'.peak) >= 0
    BY <2>1, <2>2, BetterGains
  <2>. QED
    BY <2>1, <2>3, <2>4, <1>4 DEF MoveMark, MarkMatters
<1>5. ASSUME Close, UNCHANGED <<trailingVars, partialVars>>
      PROVE  SeenIsReal'
  BY <1>5 DEF Close, PositionMatters, MarkMatters
<1>6. ASSUME BeginPass, UNCHANGED <<trailingVars, partialVars>>
      PROVE  SeenIsReal'
  BY <1>6 DEF BeginPass, Unread
<1>7. ASSUME ReadAccount, UNCHANGED <<trailingVars, partialVars>>
      PROVE  SeenIsReal'
  BY <1>7 DEF ReadAccount, Proceed
<1>8. ASSUME ReadLevels, UNCHANGED <<trailingVars, partialVars>>
      PROVE  SeenIsReal'
  BY <1>8 DEF ReadLevels, Proceed
<1>9. ASSUME ReadFails, UNCHANGED <<trailingVars, partialVars>>
      PROVE  SeenIsReal'
  BY <1>9 DEF ReadFails
<1>10. ASSUME Load, UNCHANGED partialVars PROVE SeenIsReal'
  BY <1>10 DEF Load, Restored
<1>11. ASSUME Forget, UNCHANGED partialVars PROVE SeenIsReal'
  BY <1>11 DEF Forget
<1>12. ASSUME Observe, UNCHANGED partialVars PROVE SeenIsReal'
  BY <1>12 DEF Observe, Known, Started
<1>13. ASSUME ProfileQuiet, UNCHANGED partialVars PROVE SeenIsReal'
  BY <1>13 DEF ProfileQuiet, Note
<1>14. ASSUME ProfileFills, UNCHANGED partialVars PROVE SeenIsReal'
  BY <1>14 DEF ProfileFills, Note, Record
<1>15. ASSUME ProfileRecords, UNCHANGED partialVars PROVE SeenIsReal'
  BY <1>15 DEF ProfileRecords, Note, Record
<1>16. ASSUME ProfileReplaces, UNCHANGED partialVars PROVE SeenIsReal'
  BY <1>16 DEF ProfileReplaces, Note
<1>17. ASSUME ProfilesDone, UNCHANGED partialVars PROVE SeenIsReal'
  BY <1>17 DEF ProfilesDone
<1>18. ASSUME FindStop, UNCHANGED partialVars PROVE SeenIsReal'
  BY <1>18 DEF FindStop
<1>19. ASSUME RemoveStop, UNCHANGED partialVars PROVE SeenIsReal'
  BY <1>19 DEF RemoveStop
<1>20. ASSUME InstallStop, UNCHANGED partialVars PROVE SeenIsReal'
  BY <1>20 DEF InstallStop, Accepted, Placed
<1>21. ASSUME RestoreStop, UNCHANGED partialVars PROVE SeenIsReal'
  BY <1>21 DEF RestoreStop, Accepted, Placed
<1>22. ASSUME RecordCritical, UNCHANGED partialVars PROVE SeenIsReal'
  BY <1>22 DEF RecordCritical
<1>23. ASSUME NoteApplied, UNCHANGED partialVars PROVE SeenIsReal'
  <2>1. Tail(todo) = <<>>
    BY <1>23, LiveTail DEF NoteApplied
  <2>. QED
    BY <2>1, <1>23 DEF NoteApplied
<1>24. ASSUME Fail, UNCHANGED partialVars PROVE SeenIsReal'
  BY <1>24 DEF Fail
<1>25. ASSUME Save, UNCHANGED partialVars PROVE SeenIsReal'
  BY <1>25 DEF Save
<1>26. ASSUME Partial PROVE SeenIsReal'
  BY <1>26 DEF Partial, PartialNext, LoadBook, TargetQuiet, TargetRecords, TargetsDone
<1>27. ASSUME EndPass PROVE SeenIsReal'
  BY <1>27 DEF EndPass, ForgetPass
<1>28. ASSUME StopEngine PROVE SeenIsReal'
  BY <1>28 DEF StopEngine, ForgetPass, InFlight, Accepted, Placed
<1>29. ASSUME Crash PROVE SeenIsReal'
  BY <1>29 DEF Crash, ForgetPass, InFlight, Accepted, Placed
<1>30. ASSUME StartEngine PROVE SeenIsReal'
  BY <1>30 DEF StartEngine
<1>31. ASSUME Escalate PROVE SeenIsReal'
  BY <1>31 DEF Escalate, ForgetPass
<1>. QED
  BY <1>1, <1>2, <1>3, <1>4, <1>5, <1>6, <1>7, <1>8, <1>9, <1>10, <1>11, <1>12, <1>13, <1>14,
     <1>15, <1>16, <1>17, <1>18, <1>19, <1>20, <1>21, <1>22, <1>23, <1>24, <1>25, <1>26, <1>27,
     <1>28, <1>29, <1>30, <1>31 DEF Next, EngineOrders, ExchangeMoves, GuardReads, Trailing,
     TrailingNext

\* A replacement removes the tightest stop so far, asks for a tighter one, and
\* otherwise puts the same one back.
LEMMA RatchetStep ==
  ASSUME NoSkew, Types, AtHand, RealPrices, SeenIsReal, Ratchet, [Next]_vars
  PROVE  Ratchet'
<1>. USE DEF venueVars, passVars, trailingVars, partialVars, experiment, Types, VenueTypes, TrailingTypes, AtHand, Managing, Replacing, SeenIsReal, Ratchet, RealPrices, NoSkew, Same
<1>1. CASE UNCHANGED vars
  BY <1>1 DEF vars
<1>2. ASSUME NEW side \in Sides, NEW entry \in Entries, EngineOrders, Unremembered(side, entry),
             Open(side, entry)
      PROVE  Ratchet'
  <2>1. pc \notin {"remove", "install", "restore"}
    BY <1>2 DEF Open, Locked
  <2>2. stop' = truth'.tightest /\ UNCHANGED pc
    BY <1>2 DEF Open, NewTruth
  <2>. QED
    BY <2>1, <2>2
<1>3. ASSUME NEW entry \in Prices, NEW trigger \in Prices \cup {stop}, EngineOrders,
             Unremembered(position.side, entry), Add(entry, trigger)
      PROVE  Ratchet'
  <2>1. pc \notin {"remove", "install", "restore"}
    BY <1>3 DEF Add, Locked
  <2>2. stop' = truth'.tightest /\ UNCHANGED pc
    BY <1>3 DEF Add, NewTruth
  <2>. QED
    BY <2>1, <2>2
<1>4. ASSUME NEW price \in Prices, MoveMark(price), UNCHANGED <<trailingVars, partialVars>>
      PROVE  Ratchet'
  BY <1>4 DEF MoveMark, MarkMatters
<1>5. ASSUME Close, UNCHANGED <<trailingVars, partialVars>>
      PROVE  Ratchet'
  BY <1>5 DEF Close, PositionMatters, MarkMatters
<1>6. ASSUME BeginPass, UNCHANGED <<trailingVars, partialVars>>
      PROVE  Ratchet'
  BY <1>6 DEF BeginPass
<1>7. ASSUME ReadAccount, UNCHANGED <<trailingVars, partialVars>>
      PROVE  Ratchet'
  BY <1>7 DEF ReadAccount, Proceed
<1>8. ASSUME ReadLevels, UNCHANGED <<trailingVars, partialVars>>
      PROVE  Ratchet'
  BY <1>8 DEF ReadLevels, Proceed
<1>9. ASSUME ReadFails, UNCHANGED <<trailingVars, partialVars>>
      PROVE  Ratchet'
  BY <1>9 DEF ReadFails
<1>10. ASSUME Load, UNCHANGED partialVars PROVE Ratchet'
  BY <1>10 DEF Load, Restored
<1>11. ASSUME Forget, UNCHANGED partialVars PROVE Ratchet'
  BY <1>11 DEF Forget
<1>12. ASSUME Observe, UNCHANGED partialVars PROVE Ratchet'
  BY <1>12 DEF Observe, Known, Started
<1>13. ASSUME ProfileQuiet, UNCHANGED partialVars PROVE Ratchet'
  BY <1>13 DEF ProfileQuiet, Note
<1>14. ASSUME ProfileFills, UNCHANGED partialVars PROVE Ratchet'
  BY <1>14 DEF ProfileFills, Note, Record
<1>15. ASSUME ProfileRecords, UNCHANGED partialVars PROVE Ratchet'
  BY <1>15 DEF ProfileRecords, Note, Record
<1>16. ASSUME ProfileReplaces, UNCHANGED partialVars PROVE Ratchet'
  BY <1>16 DEF ProfileReplaces, Note
<1>17. ASSUME ProfilesDone, UNCHANGED partialVars PROVE Ratchet'
  BY <1>17 DEF ProfilesDone
<1>18. ASSUME FindStop, UNCHANGED partialVars PROVE Ratchet'
  BY <1>18 DEF FindStop
<1>19. ASSUME RemoveStop, UNCHANGED partialVars PROVE Ratchet'
  BY <1>19 DEF RemoveStop
<1>20. ASSUME InstallStop, UNCHANGED partialVars PROVE Ratchet'
  <2>1. CASE Accepted(candidate) /\ Placed(candidate)
    <3>1. stop' = candidate /\ candidate # NoPrice /\ UNCHANGED position
      BY <2>1, <1>20 DEF Placed, InstallStop
    <3>2. position # Flat => Gain(position.side, truth.tightest, candidate) > 0
      BY <1>20 DEF InstallStop
    <3>3. position # Flat => truth'.tightest = candidate
      BY <2>1, <3>2 DEF Placed, Better
    <3>. QED
      BY <3>1, <3>3, <1>20 DEF InstallStop
  <2>2. CASE UNCHANGED <<stop, truth>> /\ pc' = "restore"
    BY <2>2, <1>20 DEF InstallStop
  <2>. QED
    BY <2>1, <2>2, <1>20 DEF InstallStop
<1>21. ASSUME RestoreStop, UNCHANGED partialVars PROVE Ratchet'
  <2>1. CASE Accepted(previous) /\ Placed(previous)
    <3>1. stop' = previous /\ truth.tightest = previous /\ UNCHANGED position
      BY <2>1, <1>21 DEF Accepted, Placed, RestoreStop
    <3>2. truth'.tightest = Better(position.side, truth.tightest, previous)
      BY <2>1 DEF Placed
    <3>3. truth'.tightest = previous
      BY <3>1, <3>2 DEF Better
    <3>. QED
      BY <3>1, <3>3, <1>21 DEF RestoreStop
  <2>2. CASE UNCHANGED <<stop, truth>>
    BY <2>2, <1>21 DEF RestoreStop
  <2>. QED
    BY <2>1, <2>2, <1>21 DEF RestoreStop
<1>22. ASSUME RecordCritical, UNCHANGED partialVars PROVE Ratchet'
  BY <1>22 DEF RecordCritical
<1>23. ASSUME NoteApplied, UNCHANGED partialVars PROVE Ratchet'
  BY <1>23 DEF NoteApplied, Note
<1>24. ASSUME Fail, UNCHANGED partialVars PROVE Ratchet'
  BY <1>24 DEF Fail
<1>25. ASSUME Save, UNCHANGED partialVars PROVE Ratchet'
  BY <1>25 DEF Save
<1>26. ASSUME Partial PROVE Ratchet'
  BY <1>26 DEF Partial, PartialNext, LoadBook, TargetQuiet, TargetRecords, TargetsDone
<1>27. ASSUME EndPass PROVE Ratchet'
  BY <1>27 DEF EndPass, ForgetPass
<1>28. ASSUME StopEngine PROVE Ratchet'
  <2>1. pc' = "idle" /\ UNCHANGED position /\ InFlight
    BY <1>28 DEF StopEngine, ForgetPass
  <2>. QED
    BY <2>1, RatchetInFlight
<1>29. ASSUME Crash PROVE Ratchet'
  <2>1. pc' = "idle" /\ UNCHANGED position /\ InFlight
    BY <1>29 DEF Crash, ForgetPass
  <2>. QED
    BY <2>1, RatchetInFlight
<1>30. ASSUME StartEngine PROVE Ratchet'
  BY <1>30 DEF StartEngine
<1>31. ASSUME Escalate PROVE Ratchet'
  BY <1>31 DEF Escalate, ForgetPass
<1>. QED
  BY <1>1, <1>2, <1>3, <1>4, <1>5, <1>6, <1>7, <1>8, <1>9, <1>10, <1>11, <1>12, <1>13, <1>14,
     <1>15, <1>16, <1>17, <1>18, <1>19, <1>20, <1>21, <1>22, <1>23, <1>24, <1>25, <1>26, <1>27,
     <1>28, <1>29, <1>30, <1>31 DEF Next, EngineOrders, ExchangeMoves, GuardReads, Trailing,
     TrailingNext

\* A position opened after the reads has nothing simulated yet.
LEMMA UnseenStep ==
  ASSUME NoSkew, Types, SeenIsReal, Unseen, [Next]_vars
  PROVE  Unseen'
<1>. USE DEF venueVars, passVars, trailingVars, partialVars, experiment, Types, VenueTypes, TrailingTypes, Unseen, SeenIsReal, NoSkew
<1>1. CASE UNCHANGED vars
  BY <1>1 DEF vars
<1>2. ASSUME NEW side \in Sides, NEW entry \in Entries, EngineOrders, Unremembered(side, entry),
             Open(side, entry)
      PROVE  Unseen'
  BY <1>2 DEF EngineOrders, Unremembered, Open
<1>3. ASSUME NEW entry \in Prices, NEW trigger \in Prices \cup {stop}, EngineOrders,
             Unremembered(position.side, entry), Add(entry, trigger)
      PROVE  Unseen'
  BY <1>3 DEF EngineOrders, Unremembered, Add
<1>4. ASSUME NEW price \in Prices, MoveMark(price), UNCHANGED <<trailingVars, partialVars>>
      PROVE  Unseen'
  BY <1>4 DEF MoveMark, MarkMatters
<1>5. ASSUME Close, UNCHANGED <<trailingVars, partialVars>>
      PROVE  Unseen'
  BY <1>5 DEF Close, PositionMatters, MarkMatters
<1>6. ASSUME BeginPass, UNCHANGED <<trailingVars, partialVars>>
      PROVE  Unseen'
  BY <1>6 DEF BeginPass
<1>7. ASSUME ReadAccount, UNCHANGED <<trailingVars, partialVars>>
      PROVE  Unseen'
  <2>1. position = Flat => seen'.side = "NONE"
    BY <1>7 DEF ReadAccount, Flat
  <2>2. position # Flat => seen'.side # "NONE"
    BY <1>7 DEF ReadAccount
  <2>. QED
    BY <2>1, <2>2, <1>7 DEF ReadAccount, Proceed
<1>8. ASSUME ReadLevels, UNCHANGED <<trailingVars, partialVars>>
      PROVE  Unseen'
  BY <1>8 DEF ReadLevels, Proceed
<1>9. ASSUME ReadFails, UNCHANGED <<trailingVars, partialVars>>
      PROVE  Unseen'
  BY <1>9 DEF ReadFails
<1>10. ASSUME Load, UNCHANGED partialVars PROVE Unseen'
  BY <1>10 DEF Load, Restored
<1>11. ASSUME Forget, UNCHANGED partialVars PROVE Unseen'
  BY <1>11 DEF Forget
<1>12. ASSUME Observe, UNCHANGED partialVars PROVE Unseen'
  BY <1>12 DEF Observe, Known, Started
<1>13. ASSUME ProfileQuiet, UNCHANGED partialVars PROVE Unseen'
  BY <1>13 DEF ProfileQuiet, Note
<1>14. ASSUME ProfileFills, UNCHANGED partialVars PROVE Unseen'
  BY <1>14 DEF ProfileFills, Note, Record
<1>15. ASSUME ProfileRecords, UNCHANGED partialVars PROVE Unseen'
  BY <1>15 DEF ProfileRecords, Note, Record
<1>16. ASSUME ProfileReplaces, UNCHANGED partialVars PROVE Unseen'
  BY <1>16 DEF ProfileReplaces, Note
<1>17. ASSUME ProfilesDone, UNCHANGED partialVars PROVE Unseen'
  BY <1>17 DEF ProfilesDone
<1>18. ASSUME FindStop, UNCHANGED partialVars PROVE Unseen'
  BY <1>18 DEF FindStop
<1>19. ASSUME RemoveStop, UNCHANGED partialVars PROVE Unseen'
  BY <1>19 DEF RemoveStop
<1>20. ASSUME InstallStop, UNCHANGED partialVars PROVE Unseen'
  BY <1>20 DEF InstallStop, Accepted, Placed
<1>21. ASSUME RestoreStop, UNCHANGED partialVars PROVE Unseen'
  BY <1>21 DEF RestoreStop, Accepted, Placed
<1>22. ASSUME RecordCritical, UNCHANGED partialVars PROVE Unseen'
  BY <1>22 DEF RecordCritical
<1>23. ASSUME NoteApplied, UNCHANGED partialVars PROVE Unseen'
  BY <1>23 DEF NoteApplied, Note
<1>24. ASSUME Fail, UNCHANGED partialVars PROVE Unseen'
  BY <1>24 DEF Fail
<1>25. ASSUME Save, UNCHANGED partialVars PROVE Unseen'
  BY <1>25 DEF Save
<1>26. ASSUME Partial PROVE Unseen'
  BY <1>26 DEF Partial, PartialNext, LoadBook, TargetQuiet, TargetRecords, TargetsDone
<1>27. ASSUME EndPass PROVE Unseen'
  BY <1>27 DEF EndPass, ForgetPass
<1>28. ASSUME StopEngine PROVE Unseen'
  BY <1>28 DEF StopEngine, ForgetPass, InFlight, Accepted, Placed
<1>29. ASSUME Crash PROVE Unseen'
  BY <1>29 DEF Crash, ForgetPass, InFlight, Accepted, Placed
<1>30. ASSUME StartEngine PROVE Unseen'
  BY <1>30 DEF StartEngine
<1>31. ASSUME Escalate PROVE Unseen'
  BY <1>31 DEF Escalate, ForgetPass
<1>. QED
  BY <1>1, <1>2, <1>3, <1>4, <1>5, <1>6, <1>7, <1>8, <1>9, <1>10, <1>11, <1>12, <1>13, <1>14,
     <1>15, <1>16, <1>17, <1>18, <1>19, <1>20, <1>21, <1>22, <1>23, <1>24, <1>25, <1>26, <1>27,
     <1>28, <1>29, <1>30, <1>31 DEF Next, EngineOrders, ExchangeMoves, GuardReads, Trailing,
     TrailingNext

\* A profile is frozen in the step that counts its fill, and stays frozen as
\* long as the process and the position last.
LEMMA FillsFrozenStep ==
  ASSUME NoSkew, Types, AtHand, SeenIsReal, Unseen, FillsFrozen, [Next]_vars
  PROVE  FillsFrozen'
<1>. USE DEF venueVars, passVars, trailingVars, partialVars, experiment, Types, VenueTypes, TrailingTypes, FillsFrozen, Frozen, Same
<1>1. CASE UNCHANGED vars
  BY <1>1 DEF vars
<1>2. ASSUME NEW side \in Sides, NEW entry \in Entries, EngineOrders, Unremembered(side, entry),
             Open(side, entry)
      PROVE  FillsFrozen'
  BY <1>2 DEF EngineOrders, NoFills
<1>3. ASSUME NEW entry \in Prices, NEW trigger \in Prices \cup {stop}, EngineOrders,
             Unremembered(position.side, entry), Add(entry, trigger)
      PROVE  FillsFrozen'
  BY <1>3 DEF EngineOrders, NoFills
<1>4. ASSUME NEW price \in Prices, MoveMark(price), UNCHANGED <<trailingVars, partialVars>>
      PROVE  FillsFrozen'
  BY <1>4 DEF MoveMark, MarkMatters
<1>5. ASSUME Close, UNCHANGED <<trailingVars, partialVars>>
      PROVE  FillsFrozen'
  BY <1>5 DEF Close, PositionMatters, MarkMatters
<1>6. ASSUME BeginPass, UNCHANGED <<trailingVars, partialVars>>
      PROVE  FillsFrozen'
  BY <1>6 DEF BeginPass, Unread, FillsFrozen, Frozen, Same
<1>7. ASSUME ReadAccount, UNCHANGED <<trailingVars, partialVars>>
      PROVE  FillsFrozen'
  <2>1. seen'.side = position.side /\ seen'.entry = position.entry /\ UNCHANGED <<position, state, fills, loaded>>
    BY <1>7 DEF ReadAccount
  <2>2. position = Flat => position.side = "NONE"
    BY DEF Flat
  <2>. QED
    BY <2>1, <2>2 DEF FillsFrozen, Frozen, Same
<1>8. ASSUME ReadLevels, UNCHANGED <<trailingVars, partialVars>>
      PROVE  FillsFrozen'
  BY <1>8 DEF ReadLevels, Proceed
<1>9. ASSUME ReadFails, UNCHANGED <<trailingVars, partialVars>>
      PROVE  FillsFrozen'
  BY <1>9 DEF ReadFails
<1>10. ASSUME Load, UNCHANGED partialVars PROVE FillsFrozen'
  BY <1>10 DEF Load, Restored
<1>11. ASSUME Forget, UNCHANGED partialVars PROVE FillsFrozen'
  <2>1. position # Flat => fills = NoFills
    BY <1>11 DEF Forget, Unseen
  <2>2. UNCHANGED <<position, seen, fills, loaded>> /\ seen.side = "NONE"
    BY <1>11 DEF Forget
  <2>. QED
    BY <2>1, <2>2 DEF FillsFrozen, NoFills
<1>12. ASSUME Observe, UNCHANGED partialVars PROVE FillsFrozen'
  <2>1. CASE pc' = "failed"
    BY <2>1, <1>12 DEF Observe, FillsFrozen, Frozen, Same
  <2>2. CASE pc' # "failed"
    <3>1. seen.side # "NONE" /\ pc = "manage" /\ UNCHANGED <<position, seen, fills, loaded>>
      BY <1>12 DEF Observe
    <3>. SUFFICES ASSUME NEW i \in DOMAIN Profiles, fills[i] # 0
               PROVE  /\ position # Flat => Frozen(position, i)'
                      /\ Frozen(seen, i)'
      BY <3>1 DEF FillsFrozen
    <3>2. Frozen(seen, i) /\ (position # Flat => Frozen(position, i))
      BY <3>1 DEF FillsFrozen
    <3>3. Same(state, seen) /\ state'.progress = state.progress /\ Same(state', seen)
      BY <2>2, <3>2, <1>12, ObserveKeeps DEF Frozen, Same
    <3>. QED
      BY <3>1, <3>2, <3>3 DEF Frozen, Same
  <2>. QED
    BY <2>1, <2>2
<1>13. ASSUME ProfileQuiet, UNCHANGED partialVars PROVE FillsFrozen'
  <2>. DEFINE p == [Progress EXCEPT !.active = @ \/ (~Progress.filled /\ Activated)]
  <2>1. todo # <<>> /\ Note(p)
    BY <1>13 DEF ProfileQuiet
  <2>2. Progress \in [active : BOOLEAN, last : Nat, filled : BOOLEAN] /\ Progress = state.progress[Head(todo)]
    BY <2>1, HeadOfTodo DEF Progress
  <2>3. p.filled = Progress.filled
    BY <2>2
  <2>. HIDE DEF p
  <2>4. Same(state', state) /\ \A i \in DOMAIN Profiles : state'.progress[i].filled = state.progress[i].filled
    <3>1. /\ state'.side = state.side /\ state'.entry = state.entry
          /\ state'.progress[Head(todo)] = p
      BY <2>1, NoteKeeps
    <3>2. \A i \in DOMAIN Profiles \ {Head(todo)} : state'.progress[i] = state.progress[i]
      BY <2>1, NoteKeeps
    <3>3. ASSUME NEW i \in DOMAIN Profiles PROVE state'.progress[i].filled = state.progress[i].filled
      BY <3>1, <3>2, <2>2, <2>3
    <3>. QED
      BY <3>1, <3>3
  <2>5. pc' \notin {"idle", "done"} /\ pc \notin {"idle", "done"} /\ UNCHANGED <<fills, position, seen, loaded>>
    BY <1>13 DEF ProfileQuiet
  <2>. QED
    BY <2>4, <2>5 DEF FillsFrozen, Frozen, Same
<1>14. ASSUME ProfileFills, UNCHANGED partialVars PROVE FillsFrozen'
  <2>. DEFINE h == Head(todo)
  <2>1. todo # <<>> /\ Note([Progress EXCEPT !.filled = TRUE]) /\ ~Progress.filled
    BY <1>14 DEF ProfileFills
  <2>2. h \in DOMAIN Profiles /\ Progress \in [active : BOOLEAN, last : Nat, filled : BOOLEAN] /\ Progress = state.progress[h]
    BY <2>1, HeadOfTodo DEF Progress
  <2>3. /\ Same(state', state) /\ state'.progress[h].filled
        /\ \A i \in DOMAIN Profiles \ {h} : state'.progress[i] = state.progress[i]
    <3>1. state'.side = state.side /\ state'.entry = state.entry /\ state'.progress[h] = [Progress EXCEPT !.filled = TRUE]
      BY <2>1, NoteKeeps
    <3>2. \A i \in DOMAIN Profiles \ {h} : state'.progress[i] = state.progress[i]
      BY <2>1, NoteKeeps
    <3>3. [Progress EXCEPT !.filled = TRUE].filled
      BY <2>2
    <3>. QED
      BY <3>1, <3>2, <3>3
  <2>4. pc = "profile" /\ seen.side # "NONE" /\ Same(state, seen) /\ loaded /\ UNCHANGED <<position, seen, loaded>>
    BY <1>14 DEF ProfileFills, AtHand, Managing, Same
  <2>5. fills[h] = 0
    BY <2>1, <2>2, <2>4 DEF FillsFrozen, Frozen
  <2>6. position # Flat => Same(seen, position)
    BY <2>4 DEF SeenIsReal
  <2>7. fills' \in {fills, [fills EXCEPT ![h] = @ + 1]}
    BY <1>14 DEF ProfileFills, Record
  <2>8. \A i \in DOMAIN Profiles \ {h} : fills'[i] = fills[i]
    BY <2>2, <2>7
  <2>9. fills'[h] \in {0, 1}
    BY <2>2, <2>5, <2>7
  <2>10. ASSUME NEW i \in DOMAIN Profiles, i = h
         PROVE  Frozen(seen, i)' /\ (position # Flat => Frozen(position, i)')
    BY <2>3, <2>4, <2>6, <2>10 DEF Frozen, Same
  <2>11. ASSUME NEW i \in DOMAIN Profiles, i # h
         PROVE  /\ (Frozen(seen, i) => Frozen(seen, i)')
                /\ (Frozen(position, i) => Frozen(position, i)')
    BY <2>3, <2>4, <2>11 DEF Frozen, Same
  <2>13. pc' \notin {"idle", "done"} /\ pc \notin {"idle", "done"} /\ position' = position
    BY <1>14 DEF ProfileFills, Record
  <2>. HIDE DEF h, Frozen
  <2>12. ASSUME NEW i \in DOMAIN Profiles
         PROVE  /\ fills'[i] <= 1
                /\ fills'[i] # 0 => /\ loaded'
                                    /\ position' # Flat => Frozen(position, i)'
                                    /\ Frozen(seen, i)'
    <3>1. CASE i = h
      BY <3>1, <2>4, <2>9, <2>10, <2>13
    <3>2. CASE i # h
      BY <3>2, <2>4, <2>8, <2>11, <2>13 DEF FillsFrozen
    <3>. QED
      BY <3>1, <3>2
  <2>. QED
    BY <2>12, <2>13 DEF FillsFrozen
<1>15. ASSUME ProfileRecords, UNCHANGED partialVars PROVE FillsFrozen'
  <2>. DEFINE p == [Progress EXCEPT !.active = TRUE, !.last = Trigger]
  <2>1. todo # <<>> /\ Note(p)
    BY <1>15 DEF ProfileRecords
  <2>2. Progress \in [active : BOOLEAN, last : Nat, filled : BOOLEAN] /\ Progress = state.progress[Head(todo)]
    BY <2>1, HeadOfTodo DEF Progress
  <2>3. p.filled = Progress.filled
    BY <2>2
  <2>. HIDE DEF p
  <2>4. Same(state', state) /\ \A i \in DOMAIN Profiles : state'.progress[i].filled = state.progress[i].filled
    <3>1. /\ state'.side = state.side /\ state'.entry = state.entry
          /\ state'.progress[Head(todo)] = p
      BY <2>1, NoteKeeps
    <3>2. \A i \in DOMAIN Profiles \ {Head(todo)} : state'.progress[i] = state.progress[i]
      BY <2>1, NoteKeeps
    <3>3. ASSUME NEW i \in DOMAIN Profiles PROVE state'.progress[i].filled = state.progress[i].filled
      BY <3>1, <3>2, <2>2, <2>3
    <3>. QED
      BY <3>1, <3>3
  <2>5. pc' \notin {"idle", "done"} /\ pc \notin {"idle", "done"} /\ UNCHANGED <<fills, position, seen, loaded>>
    BY <1>15 DEF ProfileRecords, Record
  <2>. QED
    BY <2>4, <2>5 DEF FillsFrozen, Frozen, Same
<1>16. ASSUME ProfileReplaces, UNCHANGED partialVars PROVE FillsFrozen'
  <2>. DEFINE p == [Progress EXCEPT !.active = TRUE]
  <2>1. todo # <<>> /\ Note(p)
    BY <1>16 DEF ProfileReplaces
  <2>2. Progress \in [active : BOOLEAN, last : Nat, filled : BOOLEAN] /\ Progress = state.progress[Head(todo)]
    BY <2>1, HeadOfTodo DEF Progress
  <2>3. p.filled = Progress.filled
    BY <2>2
  <2>. HIDE DEF p
  <2>4. Same(state', state) /\ \A i \in DOMAIN Profiles : state'.progress[i].filled = state.progress[i].filled
    <3>1. /\ state'.side = state.side /\ state'.entry = state.entry
          /\ state'.progress[Head(todo)] = p
      BY <2>1, NoteKeeps
    <3>2. \A i \in DOMAIN Profiles \ {Head(todo)} : state'.progress[i] = state.progress[i]
      BY <2>1, NoteKeeps
    <3>3. ASSUME NEW i \in DOMAIN Profiles PROVE state'.progress[i].filled = state.progress[i].filled
      BY <3>1, <3>2, <2>2, <2>3
    <3>. QED
      BY <3>1, <3>3
  <2>5. pc' \notin {"idle", "done"} /\ pc \notin {"idle", "done"} /\ UNCHANGED <<fills, position, seen, loaded>>
    BY <1>16 DEF ProfileReplaces
  <2>. QED
    BY <2>4, <2>5 DEF FillsFrozen, Frozen, Same
<1>17. ASSUME ProfilesDone, UNCHANGED partialVars PROVE FillsFrozen'
  BY <1>17 DEF ProfilesDone
<1>18. ASSUME FindStop, UNCHANGED partialVars PROVE FillsFrozen'
  BY <1>18 DEF FindStop
<1>19. ASSUME RemoveStop, UNCHANGED partialVars PROVE FillsFrozen'
  BY <1>19 DEF RemoveStop
<1>20. ASSUME InstallStop, UNCHANGED partialVars PROVE FillsFrozen'
  BY <1>20 DEF InstallStop, Accepted, Placed
<1>21. ASSUME RestoreStop, UNCHANGED partialVars PROVE FillsFrozen'
  BY <1>21 DEF RestoreStop, Accepted, Placed
<1>22. ASSUME RecordCritical, UNCHANGED partialVars PROVE FillsFrozen'
  BY <1>22 DEF RecordCritical
<1>23. ASSUME NoteApplied, UNCHANGED partialVars PROVE FillsFrozen'
  <2>. DEFINE p == [Progress EXCEPT !.last = candidate]
  <2>1. todo # <<>> /\ Note(p)
    BY <1>23 DEF NoteApplied, AtHand, Replacing
  <2>2. Progress \in [active : BOOLEAN, last : Nat, filled : BOOLEAN] /\ Progress = state.progress[Head(todo)]
    BY <2>1, HeadOfTodo DEF Progress
  <2>3. p.filled = Progress.filled
    BY <2>2
  <2>. HIDE DEF p
  <2>4. Same(state', state) /\ \A i \in DOMAIN Profiles : state'.progress[i].filled = state.progress[i].filled
    <3>1. /\ state'.side = state.side /\ state'.entry = state.entry
          /\ state'.progress[Head(todo)] = p
      BY <2>1, NoteKeeps
    <3>2. \A i \in DOMAIN Profiles \ {Head(todo)} : state'.progress[i] = state.progress[i]
      BY <2>1, NoteKeeps
    <3>3. ASSUME NEW i \in DOMAIN Profiles PROVE state'.progress[i].filled = state.progress[i].filled
      BY <3>1, <3>2, <2>2, <2>3
    <3>. QED
      BY <3>1, <3>3
  <2>5. pc' \notin {"idle", "done"} /\ pc \notin {"idle", "done"} /\ UNCHANGED <<fills, position, seen, loaded>>
    BY <1>23 DEF NoteApplied
  <2>. QED
    BY <2>4, <2>5 DEF FillsFrozen, Frozen, Same
<1>24. ASSUME Fail, UNCHANGED partialVars PROVE FillsFrozen'
  BY <1>24 DEF Fail
<1>25. ASSUME Save, UNCHANGED partialVars PROVE FillsFrozen'
  BY <1>25 DEF Save
<1>26. ASSUME Partial PROVE FillsFrozen'
  BY <1>26 DEF Partial, PartialNext, LoadBook, TargetQuiet, TargetRecords, TargetsDone
<1>27. ASSUME EndPass PROVE FillsFrozen'
  BY <1>27 DEF EndPass, ForgetPass
<1>28. ASSUME StopEngine PROVE FillsFrozen'
  BY <1>28 DEF StopEngine, ForgetPass, InFlight, Accepted, Placed
<1>29. ASSUME Crash PROVE FillsFrozen'
  BY <1>29 DEF Crash, NoFills, FillsFrozen
<1>30. ASSUME StartEngine PROVE FillsFrozen'
  BY <1>30 DEF StartEngine
<1>31. ASSUME Escalate PROVE FillsFrozen'
  BY <1>31 DEF Escalate, ForgetPass
<1>. QED
  BY <1>1, <1>2, <1>3, <1>4, <1>5, <1>6, <1>7, <1>8, <1>9, <1>10, <1>11, <1>12, <1>13, <1>14,
     <1>15, <1>16, <1>17, <1>18, <1>19, <1>20, <1>21, <1>22, <1>23, <1>24, <1>25, <1>26, <1>27,
     <1>28, <1>29, <1>30, <1>31 DEF Next, EngineOrders, ExchangeMoves, GuardReads, Trailing,
     TrailingNext

\* Writing adds to the two histories, a sale at the target to one of them.
LEMMA WriteAdds ==
  ASSUME NEW events, NEW missing \in SUBSET events, Write(events, missing)
  PROVE  /\ sold \subseteq sold' /\ lost \subseteq lost'
         /\ sold' \subseteq sold \cup events
         /\ \A e \in events : e.status = "partial" => e \in sold' \cup lost'
BY DEF Write

\* The sale that a profile simulates is written, or its write fails.
LEMMA SimulatedRecorded ==
  ASSUME Types, SalesRecorded, Simulate, bookSaved' = bookSaved,
         Write(Event, {}) \/ Write(Event, Event)
  PROVE  SalesRecorded'
<1>. USE DEF Types
<1>. DEFINE h == Head(left)
            s == [stage |-> NextStage, quantity |-> IF NextStage = "partial" THEN Portion ELSE Sale.quantity]
<1>1. h \in DOMAIN Targets /\ left # <<>> /\ Sale = book.progress[h]
      /\ Sale.stage \in {"waiting", "partial", "breakeven", "unviable"}
  BY SaleTypes DEF Simulate, Sale
<1>2. /\ book'.side = book.side /\ book'.entry = book.entry
      /\ book'.progress[h].stage = NextStage
      /\ \A j \in DOMAIN Targets \ {h} : book'.progress[j] = book.progress[j]
  <2>1. book' = [book EXCEPT !.progress[h] = s]
    BY DEF Simulate, Sale
  <2>2. s.stage = NextStage
    OBVIOUS
  <2>. HIDE DEF s
  <2>. QED
    BY <2>1, <2>2, <1>1 DEF PartialTypes, Books, Stages
<1>3. /\ sold \subseteq sold' /\ lost \subseteq lost'
      /\ NextStage = "partial" => Sold(book, h, "partial") \in sold' \cup lost'
  <2>1. Sold(book, h, NextStage) \in Event /\ Sold(book, h, NextStage).status = NextStage
    BY DEF Event, Sold
  <2>2. \A e \in Event : e.status = "partial" => e \in sold' \cup lost'
    BY WriteAdds
  <2>3. sold \subseteq sold' /\ lost \subseteq lost'
    BY DEF Write
  <2>. HIDE DEF h
  <2>. QED
    BY <2>1, <2>2, <2>3
<1>4. NextStage = "breakeven" => Sale.stage \in {"partial", "breakeven"}
  BY <1>1 DEF NextStage
<1>5. ASSUME NEW j \in DOMAIN Targets, book'.progress[j].stage \in {"partial", "breakeven"}
      PROVE  Sold(book', j, "partial") \in sold' \cup lost'
  <2>1. Sold(book', j, "partial") = Sold(book, j, "partial")
    BY <1>2 DEF Sold
  <2>. HIDE DEF h, s
  <2>2. CASE j = h
    BY <2>1, <2>2, <1>1, <1>2, <1>3, <1>4, <1>5 DEF SalesRecorded
  <2>3. CASE j # h
    BY <2>1, <2>3, <1>2, <1>3, <1>5 DEF SalesRecorded
  <2>. QED
    BY <2>2, <2>3
<1>. HIDE DEF h, s
<1>6. ASSUME NEW j \in DOMAIN Targets, bookSaved.progress[j].stage \in {"partial", "breakeven"}
      PROVE  Sold(bookSaved, j, "partial") \in sold' \cup lost'
  BY <1>3, <1>6 DEF SalesRecorded
<1>. QED
  BY <1>5, <1>6 DEF SalesRecorded

\* A stage is entered together with the write of its event.
LEMMA SalesRecordedStep ==
  ASSUME Types, SalesRecorded, [Next]_vars
  PROVE  SalesRecorded'
<1>. USE DEF venueVars, passVars, trailingVars, partialVars, experiment, Types, SalesRecorded
<1>1. CASE UNCHANGED vars
  BY <1>1 DEF vars
<1>2. ASSUME NEW side \in Sides, NEW entry \in Entries, EngineOrders, Unremembered(side, entry),
             Open(side, entry)
      PROVE  SalesRecorded'
  BY <1>2 DEF EngineOrders, Unremembered, Open
<1>3. ASSUME NEW entry \in Prices, NEW trigger \in Prices \cup {stop}, EngineOrders,
             Unremembered(position.side, entry), Add(entry, trigger)
      PROVE  SalesRecorded'
  BY <1>3 DEF EngineOrders, Unremembered, Add
<1>4. ASSUME NEW price \in Prices, MoveMark(price), UNCHANGED <<trailingVars, partialVars>>
      PROVE  SalesRecorded'
  BY <1>4 DEF MoveMark, MarkMatters
<1>5. ASSUME Close, UNCHANGED <<trailingVars, partialVars>>
      PROVE  SalesRecorded'
  BY <1>5 DEF Close, PositionMatters, MarkMatters
<1>6. ASSUME BeginPass, UNCHANGED <<trailingVars, partialVars>>
      PROVE  SalesRecorded'
  BY <1>6 DEF BeginPass
<1>7. ASSUME ReadAccount, UNCHANGED <<trailingVars, partialVars>>
      PROVE  SalesRecorded'
  BY <1>7 DEF ReadAccount, Proceed
<1>8. ASSUME ReadLevels, UNCHANGED <<trailingVars, partialVars>>
      PROVE  SalesRecorded'
  BY <1>8 DEF ReadLevels, Proceed
<1>9. ASSUME ReadFails, UNCHANGED <<trailingVars, partialVars>>
      PROVE  SalesRecorded'
  BY <1>9 DEF ReadFails
<1>10. ASSUME Load, UNCHANGED partialVars PROVE SalesRecorded'
  BY <1>10 DEF Load, Restored
<1>11. ASSUME Forget, UNCHANGED partialVars PROVE SalesRecorded'
  BY <1>11 DEF Forget
<1>12. ASSUME Observe, UNCHANGED partialVars PROVE SalesRecorded'
  BY <1>12 DEF Observe, Known, Started
<1>13. ASSUME ProfileQuiet, UNCHANGED partialVars PROVE SalesRecorded'
  BY <1>13 DEF ProfileQuiet, Note
<1>14. ASSUME ProfileFills, UNCHANGED partialVars PROVE SalesRecorded'
  BY <1>14 DEF ProfileFills, Note, Record
<1>15. ASSUME ProfileRecords, UNCHANGED partialVars PROVE SalesRecorded'
  BY <1>15 DEF ProfileRecords, Note, Record
<1>16. ASSUME ProfileReplaces, UNCHANGED partialVars PROVE SalesRecorded'
  BY <1>16 DEF ProfileReplaces, Note
<1>17. ASSUME ProfilesDone, UNCHANGED partialVars PROVE SalesRecorded'
  BY <1>17 DEF ProfilesDone
<1>18. ASSUME FindStop, UNCHANGED partialVars PROVE SalesRecorded'
  BY <1>18 DEF FindStop
<1>19. ASSUME RemoveStop, UNCHANGED partialVars PROVE SalesRecorded'
  BY <1>19 DEF RemoveStop
<1>20. ASSUME InstallStop, UNCHANGED partialVars PROVE SalesRecorded'
  BY <1>20 DEF InstallStop, Accepted, Placed
<1>21. ASSUME RestoreStop, UNCHANGED partialVars PROVE SalesRecorded'
  BY <1>21 DEF RestoreStop, Accepted, Placed
<1>22. ASSUME RecordCritical, UNCHANGED partialVars PROVE SalesRecorded'
  BY <1>22 DEF RecordCritical
<1>23. ASSUME NoteApplied, UNCHANGED partialVars PROVE SalesRecorded'
  BY <1>23 DEF NoteApplied, Note
<1>24. ASSUME Fail, UNCHANGED partialVars PROVE SalesRecorded'
  BY <1>24 DEF Fail
<1>25. ASSUME Save, UNCHANGED partialVars PROVE SalesRecorded'
  BY <1>25 DEF Save
<1>26. ASSUME LoadBook, UNCHANGED trailingVars PROVE SalesRecorded'
  <2>. DEFINE held == IF bookLoaded THEN book ELSE bookSaved
  <2>1. held \in {book, bookSaved} /\ sold \subseteq sold' /\ lost \subseteq lost'
        /\ bookSaved' = bookSaved /\ book' \in {held, NoBook, NewBook}
    BY <1>26 DEF LoadBook, Held, Write
  <2>2. \A j \in DOMAIN Targets : NoBook.progress[j].stage = "waiting" /\ NewBook.progress[j].stage = "waiting"
    BY DEF NoBook, NewBook, Untouched
  <2>. HIDE DEF held
  <2>3. ASSUME NEW b \in {book', bookSaved'}, NEW j \in DOMAIN Targets,
               b.progress[j].stage \in {"partial", "breakeven"}
        PROVE  Sold(b, j, "partial") \in (sold \cup lost)'
    <3>1. b \in {book, bookSaved}
      BY <2>1, <2>2, <2>3
    <3>. QED
      BY <3>1, <2>1, <2>3 DEF SalesRecorded
  <2>. QED
    BY <2>3 DEF SalesRecorded
<1>27. ASSUME TargetQuiet, UNCHANGED trailingVars PROVE SalesRecorded'
  BY <1>27 DEF TargetQuiet, SalesRecorded
<1>28. ASSUME TargetRecords, UNCHANGED trailingVars PROVE SalesRecorded'
  <2>1. Simulate /\ bookSaved' = bookSaved /\ (Write(Event, {}) \/ Write(Event, Event))
    BY <1>28 DEF TargetRecords
  <2>. QED
    BY <2>1, SimulatedRecorded
<1>29. ASSUME TargetsDone, UNCHANGED trailingVars PROVE SalesRecorded'
  BY <1>29 DEF TargetsDone
<1>30. ASSUME EndPass PROVE SalesRecorded'
  BY <1>30 DEF EndPass, ForgetPass
<1>31. ASSUME StopEngine PROVE SalesRecorded'
  <2>1. bookSaved' = bookSaved /\ (CutRecord \/ UNCHANGED experiment)
    BY <1>31 DEF StopEngine, InFlight
  <2>2. CASE UNCHANGED experiment
    BY <2>1, <2>2 DEF SalesRecorded
  <2>3. CASE Simulate /\ Write(Event, Event)
    BY <2>1, <2>3, SimulatedRecorded
  <2>4. CASE book' = NoBook /\ \E missing \in SUBSET Closed(Held) \ {{}} : Write(Closed(Held), missing)
    <3>1. sold \subseteq sold' /\ lost \subseteq lost'
      BY <2>4 DEF Write
    <3>2. \A j \in DOMAIN Targets : NoBook.progress[j].stage = "waiting"
      BY DEF NoBook, Untouched
    <3>. QED
      BY <2>1, <2>4, <3>1, <3>2 DEF SalesRecorded
  <2>. QED
    BY <2>1, <2>2, <2>3, <2>4 DEF CutRecord
<1>32. ASSUME Crash PROVE SalesRecorded'
  <2>1. book' = NoBook /\ bookSaved' = bookSaved /\ sold' = sold /\ lost' = lost
    BY <1>32 DEF Crash, InFlight
  <2>2. \A j \in DOMAIN Targets : NoBook.progress[j].stage = "waiting"
    BY DEF NoBook, Untouched
  <2>. QED
    BY <2>1, <2>2 DEF SalesRecorded
<1>33. ASSUME StartEngine PROVE SalesRecorded'
  BY <1>33 DEF StartEngine
<1>34. ASSUME Escalate PROVE SalesRecorded'
  BY <1>34 DEF Escalate, ForgetPass
<1>. QED
  BY <1>1, <1>2, <1>3, <1>4, <1>5, <1>6, <1>7, <1>8, <1>9, <1>10, <1>11, <1>12, <1>13, <1>14,
     <1>15, <1>16, <1>17, <1>18, <1>19, <1>20, <1>21, <1>22, <1>23, <1>24, <1>25, <1>26, <1>27,
     <1>28, <1>29, <1>30, <1>31, <1>32, <1>33, <1>34 DEF Next, EngineOrders, ExchangeMoves,
     GuardReads, Trailing, TrailingNext, Partial, PartialNext

\* The events of a closed position, and the one of a sale, follow the sale at
\* the target.
Follows(e) ==
  e.status \in {"breakeven", "closed"} => [e EXCEPT !.status = "partial"] \in sold \cup lost

LEMMA ClosedFollows ==
  ASSUME SalesRecorded, NEW e \in Closed(Held)
  PROVE  Follows(e)
<1>1. PICK j \in DOMAIN Targets : Held.progress[j].stage = "partial" /\ e = Sold(Held, j, "closed")
  BY DEF Closed
<1>2. [e EXCEPT !.status = "partial"] = Sold(Held, j, "partial")
  BY <1>1 DEF Sold
<1>3. Held \in {book, bookSaved}
  BY DEF Held
<1>. QED
  BY <1>1, <1>2, <1>3 DEF SalesRecorded, Follows

LEMMA SimulatedFollows ==
  ASSUME Types, SalesRecorded, Simulate, NEW e \in Event
  PROVE  Follows(e)
<1>. DEFINE h == Head(left)
<1>1. h \in DOMAIN Targets /\ Sale = book.progress[h] /\ NextStage # Sale.stage
      /\ Sale.stage \in {"waiting", "partial", "breakeven", "unviable"}
  BY SaleTypes DEF Simulate, Sale, Types
<1>2. e = Sold(book, h, NextStage)
  BY DEF Event
<1>3. e.status = NextStage /\ [e EXCEPT !.status = "partial"] = Sold(book, h, "partial")
  BY <1>2 DEF Sold
<1>4. NextStage # "closed" /\ (NextStage = "breakeven" => Sale.stage = "partial")
  BY <1>1 DEF NextStage
<1>5. NextStage = "breakeven" => Sold(book, h, "partial") \in sold \cup lost
  BY <1>1, <1>4 DEF SalesRecorded
<1>. HIDE DEF h
<1>. QED
  BY <1>3, <1>4, <1>5 DEF Follows

\* Writing events that follow their sales keeps the order.
LEMMA WrittenInOrder ==
  ASSUME EndsFollowSales, NEW events, NEW missing \in SUBSET events,
         \A e \in events : Follows(e), Write(events, missing)
  PROVE  EndsFollowSales'
<1>1. sold \subseteq sold' /\ lost \subseteq lost' /\ sold' \subseteq sold \cup events
  BY WriteAdds
<1>. QED
  BY <1>1 DEF EndsFollowSales, Follows

\* The end of a half-sold position is recorded after the sale at the target.
LEMMA EndsFollowSalesStep ==
  ASSUME Types, SalesRecorded, EndsFollowSales, [Next]_vars
  PROVE  EndsFollowSales'
<1>. USE DEF venueVars, passVars, trailingVars, partialVars, experiment, Types, EndsFollowSales
<1>1. CASE UNCHANGED vars
  BY <1>1 DEF vars
<1>2. ASSUME NEW side \in Sides, NEW entry \in Entries, EngineOrders, Unremembered(side, entry),
             Open(side, entry)
      PROVE  EndsFollowSales'
  BY <1>2 DEF EngineOrders, Unremembered, Open
<1>3. ASSUME NEW entry \in Prices, NEW trigger \in Prices \cup {stop}, EngineOrders,
             Unremembered(position.side, entry), Add(entry, trigger)
      PROVE  EndsFollowSales'
  BY <1>3 DEF EngineOrders, Unremembered, Add
<1>4. ASSUME NEW price \in Prices, MoveMark(price), UNCHANGED <<trailingVars, partialVars>>
      PROVE  EndsFollowSales'
  BY <1>4 DEF MoveMark, MarkMatters
<1>5. ASSUME Close, UNCHANGED <<trailingVars, partialVars>>
      PROVE  EndsFollowSales'
  BY <1>5 DEF Close, PositionMatters, MarkMatters
<1>6. ASSUME BeginPass, UNCHANGED <<trailingVars, partialVars>>
      PROVE  EndsFollowSales'
  BY <1>6 DEF BeginPass
<1>7. ASSUME ReadAccount, UNCHANGED <<trailingVars, partialVars>>
      PROVE  EndsFollowSales'
  BY <1>7 DEF ReadAccount, Proceed
<1>8. ASSUME ReadLevels, UNCHANGED <<trailingVars, partialVars>>
      PROVE  EndsFollowSales'
  BY <1>8 DEF ReadLevels, Proceed
<1>9. ASSUME ReadFails, UNCHANGED <<trailingVars, partialVars>>
      PROVE  EndsFollowSales'
  BY <1>9 DEF ReadFails
<1>10. ASSUME Load, UNCHANGED partialVars PROVE EndsFollowSales'
  BY <1>10 DEF Load, Restored
<1>11. ASSUME Forget, UNCHANGED partialVars PROVE EndsFollowSales'
  BY <1>11 DEF Forget
<1>12. ASSUME Observe, UNCHANGED partialVars PROVE EndsFollowSales'
  BY <1>12 DEF Observe, Known, Started
<1>13. ASSUME ProfileQuiet, UNCHANGED partialVars PROVE EndsFollowSales'
  BY <1>13 DEF ProfileQuiet, Note
<1>14. ASSUME ProfileFills, UNCHANGED partialVars PROVE EndsFollowSales'
  BY <1>14 DEF ProfileFills, Note, Record
<1>15. ASSUME ProfileRecords, UNCHANGED partialVars PROVE EndsFollowSales'
  BY <1>15 DEF ProfileRecords, Note, Record
<1>16. ASSUME ProfileReplaces, UNCHANGED partialVars PROVE EndsFollowSales'
  BY <1>16 DEF ProfileReplaces, Note
<1>17. ASSUME ProfilesDone, UNCHANGED partialVars PROVE EndsFollowSales'
  BY <1>17 DEF ProfilesDone
<1>18. ASSUME FindStop, UNCHANGED partialVars PROVE EndsFollowSales'
  BY <1>18 DEF FindStop
<1>19. ASSUME RemoveStop, UNCHANGED partialVars PROVE EndsFollowSales'
  BY <1>19 DEF RemoveStop
<1>20. ASSUME InstallStop, UNCHANGED partialVars PROVE EndsFollowSales'
  BY <1>20 DEF InstallStop, Accepted, Placed
<1>21. ASSUME RestoreStop, UNCHANGED partialVars PROVE EndsFollowSales'
  BY <1>21 DEF RestoreStop, Accepted, Placed
<1>22. ASSUME RecordCritical, UNCHANGED partialVars PROVE EndsFollowSales'
  BY <1>22 DEF RecordCritical
<1>23. ASSUME NoteApplied, UNCHANGED partialVars PROVE EndsFollowSales'
  BY <1>23 DEF NoteApplied, Note
<1>24. ASSUME Fail, UNCHANGED partialVars PROVE EndsFollowSales'
  BY <1>24 DEF Fail
<1>25. ASSUME Save, UNCHANGED partialVars PROVE EndsFollowSales'
  BY <1>25 DEF Save
<1>26. ASSUME LoadBook, UNCHANGED trailingVars PROVE EndsFollowSales'
  <2>1. \/ UNCHANGED <<sold, lost>>
        \/ \E missing \in SUBSET Closed(Held) : Write(Closed(Held), missing)
    BY <1>26 DEF LoadBook
  <2>2. CASE UNCHANGED <<sold, lost>>
    BY <2>2
  <2>3. CASE \E missing \in SUBSET Closed(Held) : Write(Closed(Held), missing)
    BY <2>3, ClosedFollows, WrittenInOrder
  <2>. QED
    BY <2>1, <2>2, <2>3
<1>27. ASSUME TargetQuiet, UNCHANGED trailingVars PROVE EndsFollowSales'
  BY <1>27 DEF TargetQuiet
<1>28. ASSUME TargetRecords, UNCHANGED trailingVars PROVE EndsFollowSales'
  <2>1. Simulate /\ \E missing \in SUBSET Event : Write(Event, missing)
    BY <1>28 DEF TargetRecords
  <2>. QED
    BY <2>1, SimulatedFollows, WrittenInOrder
<1>29. ASSUME TargetsDone, UNCHANGED trailingVars PROVE EndsFollowSales'
  BY <1>29 DEF TargetsDone
<1>30. ASSUME EndPass PROVE EndsFollowSales'
  BY <1>30 DEF EndPass, ForgetPass
<1>31. ASSUME StopEngine PROVE EndsFollowSales'
  <2>1. CutRecord \/ UNCHANGED experiment
    BY <1>31 DEF StopEngine
  <2>2. CASE UNCHANGED experiment
    BY <2>2
  <2>3. CASE Simulate /\ Write(Event, Event)
    BY <2>3, SimulatedFollows, WrittenInOrder
  <2>4. CASE \E missing \in SUBSET Closed(Held) \ {{}} : Write(Closed(Held), missing)
    BY <2>4, ClosedFollows, WrittenInOrder
  <2>. QED
    BY <2>1, <2>2, <2>3, <2>4 DEF CutRecord
<1>32. ASSUME Crash PROVE EndsFollowSales'
  BY <1>32 DEF Crash, ForgetPass, InFlight, Accepted, Placed
<1>33. ASSUME StartEngine PROVE EndsFollowSales'
  BY <1>33 DEF StartEngine
<1>34. ASSUME Escalate PROVE EndsFollowSales'
  BY <1>34 DEF Escalate, ForgetPass
<1>. QED
  BY <1>1, <1>2, <1>3, <1>4, <1>5, <1>6, <1>7, <1>8, <1>9, <1>10, <1>11, <1>12, <1>13, <1>14,
     <1>15, <1>16, <1>17, <1>18, <1>19, <1>20, <1>21, <1>22, <1>23, <1>24, <1>25, <1>26, <1>27,
     <1>28, <1>29, <1>30, <1>31, <1>32, <1>33, <1>34 DEF Next, EngineOrders, ExchangeMoves,
     GuardReads, Trailing, TrailingNext, Partial, PartialNext

\* Whatever stop a replacement ends with is the first one or keeps the distance:
\* the candidate does (CandidateMoves), and what is put back did before.
LEMMA DistancesStep ==
  ASSUME NoSkew, LateActivation, Types, AtHand, SeenIsReal, Remembers, Distances, [Next]_vars
  PROVE  Distances'
<1>. USE DEF venueVars, passVars, trailingVars, partialVars, experiment, Types, VenueTypes, TrailingTypes, AtHand, Managing, Replacing, Distances
<1>1. CASE UNCHANGED vars
  BY <1>1 DEF vars
<1>2. ASSUME NEW side \in Sides, NEW entry \in Entries, EngineOrders, Unremembered(side, entry),
             Open(side, entry)
      PROVE  Distances'
  <2>1. pc \notin {"find", "remove", "install", "restore", "applied"} /\ UNCHANGED pc
    BY <1>2 DEF Open, Locked
  <2>. DEFINE trigger == Behind(side, entry, Risk)
  <2>2. /\ trigger > 0 /\ position' = [side |-> side, entry |-> entry, quantity |-> Lot]
        /\ stop' = trigger /\ truth' = NewTruth(entry, trigger, entry)
    BY <1>2 DEF Open
  <2>3. trigger \in Nat /\ entry \in Nat /\ LossSide(side, entry, trigger)
    <3>1. entry \in Nat /\ Risk \in Nat \ {0}
      BY PriceTypes
    <3>. QED
      BY <2>2, <3>1 DEF Behind, LossSide, Gain
  <2>. HIDE DEF trigger
  <2>4. truth' \in Truths /\ truth'.risk = Distance(entry, trigger)
    BY <2>2, <2>3, PriceTypes, TruthTypes DEF NewTruth
  <2>5. First(position', truth', stop')
    BY <2>2, <2>3, <2>4 DEF First
  <2>. QED
    BY <2>1, <2>5 DEF Keeps
<1>3. ASSUME NEW entry \in Prices, NEW trigger \in Prices \cup {stop}, EngineOrders,
             Unremembered(position.side, entry), Add(entry, trigger)
      PROVE  Distances'
  <2>1. pc \notin {"find", "remove", "install", "restore", "applied"} /\ UNCHANGED pc
    BY <1>3 DEF Add, Locked
  <2>2. /\ position'.side = position.side /\ position'.entry = entry
        /\ stop' = trigger /\ truth' = NewTruth(entry, trigger, mark)
        /\ LossSide(position.side, entry, trigger)
    BY <1>3 DEF Add
  <2>3. truth'.risk = Distance(entry, trigger)
    BY <2>2 DEF NewTruth
  <2>4. First(position', truth', stop')
    BY <2>2, <2>3 DEF First
  <2>. QED
    BY <2>1, <2>4 DEF Keeps
<1>4. ASSUME NEW price \in Prices, MoveMark(price), UNCHANGED <<trailingVars, partialVars>>
      PROVE  Distances'
  <2>1. HistoryGoesOn /\ UNCHANGED <<position, stop, pc, candidate, previous>>
    BY <1>4, PriceTypes DEF MoveMark, HistoryGoesOn
  <2>2. stop \in Nat /\ candidate \in Nat /\ previous \in Nat
    OBVIOUS
  <2>. QED
    BY <2>1, <2>2, HistoryStays
<1>5. ASSUME Close, UNCHANGED <<trailingVars, partialVars>>
      PROVE  Distances'
  BY <1>5 DEF Close, PositionMatters, MarkMatters
<1>6. ASSUME BeginPass, UNCHANGED <<trailingVars, partialVars>>
      PROVE  Distances'
  BY <1>6 DEF BeginPass
<1>7. ASSUME ReadAccount, UNCHANGED <<trailingVars, partialVars>>
      PROVE  Distances'
  BY <1>7 DEF ReadAccount, Proceed
<1>8. ASSUME ReadLevels, UNCHANGED <<trailingVars, partialVars>>
      PROVE  Distances'
  BY <1>8 DEF ReadLevels, Proceed
<1>9. ASSUME ReadFails, UNCHANGED <<trailingVars, partialVars>>
      PROVE  Distances'
  BY <1>9 DEF ReadFails
<1>10. ASSUME Load, UNCHANGED partialVars PROVE Distances'
  BY <1>10 DEF Load, Restored
<1>11. ASSUME Forget, UNCHANGED partialVars PROVE Distances'
  BY <1>11 DEF Forget
<1>12. ASSUME Observe, UNCHANGED partialVars PROVE Distances'
  BY <1>12 DEF Observe, Known, Started
<1>13. ASSUME ProfileQuiet, UNCHANGED partialVars PROVE Distances'
  BY <1>13 DEF ProfileQuiet, Note
<1>14. ASSUME ProfileFills, UNCHANGED partialVars PROVE Distances'
  BY <1>14 DEF ProfileFills, Note, Record
<1>15. ASSUME ProfileRecords, UNCHANGED partialVars PROVE Distances'
  BY <1>15 DEF ProfileRecords, Note, Record
<1>16. ASSUME ProfileReplaces, UNCHANGED partialVars PROVE Distances'
  <2>1. /\ pc = "profile" /\ pc' = "find" /\ candidate' = Trigger /\ mode = "live"
        /\ UNCHANGED <<position, stop, truth, previous>> /\ Due /\ todo # <<>>
    BY <1>16 DEF ProfileReplaces
  <2>2. Head(todo) = LiveProfile /\ seen.side \in Sides /\ Same(state, seen)
    BY <2>1, LiveTail DEF Same, Sides
  <2>3. position # Flat => Same(seen, position) /\ seen.stop = stop
    BY <2>1, <2>2 DEF SeenIsReal
  <2>4. Gain(seen.side, Reference, Trigger) >= Tick
    BY <2>1, <2>2, CandidateImproves DEF Due, Same
  <2>. QED
    BY <2>1, <2>2, <2>3, CandidateMoves DEF Remembers
<1>17. ASSUME ProfilesDone, UNCHANGED partialVars PROVE Distances'
  BY <1>17 DEF ProfilesDone
<1>18. ASSUME FindStop, UNCHANGED partialVars PROVE Distances'
  BY <1>18 DEF FindStop, Keeps
<1>19. ASSUME RemoveStop, UNCHANGED partialVars PROVE Distances'
  BY <1>19 DEF RemoveStop
<1>20. ASSUME InstallStop, UNCHANGED partialVars PROVE Distances'
  <2>1. HistoryGoesOn /\ stop' \in {stop, candidate} /\ UNCHANGED <<position, candidate, previous>>
        /\ pc = "install" /\ pc' \in {"applied", "restore"} /\ (pc' = "applied" => stop' = candidate)
    BY <1>20 DEF InstallStop, Placed, HistoryGoesOn
  <2>2. stop \in Nat /\ candidate \in Nat /\ previous \in Nat
    OBVIOUS
  <2>3. Moved(position, truth', candidate) => Keeps(position, truth', candidate)
    BY DEF Keeps
  <2>. QED
    BY <2>1, <2>2, <2>3, HistoryStays
<1>21. ASSUME RestoreStop, UNCHANGED partialVars PROVE Distances'
  <2>1. HistoryGoesOn /\ stop' \in {stop, previous} /\ UNCHANGED <<position, candidate, previous>>
        /\ pc = "restore" /\ pc' \in {"failed", "critical"}
    BY <1>21 DEF RestoreStop, Placed, HistoryGoesOn
  <2>2. stop \in Nat /\ previous \in Nat
    OBVIOUS
  <2>. QED
    BY <2>1, <2>2, HistoryStays
<1>22. ASSUME RecordCritical, UNCHANGED partialVars PROVE Distances'
  BY <1>22 DEF RecordCritical
<1>23. ASSUME NoteApplied, UNCHANGED partialVars PROVE Distances'
  BY <1>23 DEF NoteApplied, Note
<1>24. ASSUME Fail, UNCHANGED partialVars PROVE Distances'
  BY <1>24 DEF Fail
<1>25. ASSUME Save, UNCHANGED partialVars PROVE Distances'
  BY <1>25 DEF Save
<1>26. ASSUME Partial PROVE Distances'
  BY <1>26 DEF Partial, PartialNext, LoadBook, TargetQuiet, TargetRecords, TargetsDone
<1>27. ASSUME EndPass PROVE Distances'
  BY <1>27 DEF EndPass, ForgetPass
<1>28. ASSUME StopEngine PROVE Distances'
  <2>1. pc' = "idle" /\ UNCHANGED position /\ InFlight
    BY <1>28 DEF StopEngine, ForgetPass
  <2>2. position # Flat /\ stop' # NoPrice => Keeps(position, truth', stop')
    <3>. SUFFICES ASSUME position # Flat, stop' # NoPrice PROVE Keeps(position, truth', stop')
      OBVIOUS
    <3>1. stop' \in Nat /\ Keeps(position, truth, stop')
      BY <2>1, InFlightGoesOn DEF Keeps
    <3>. QED
      BY <3>1, <2>1, InFlightGoesOn, HistoryStays
  <2>. QED
    BY <2>1, <2>2
<1>29. ASSUME Crash PROVE Distances'
  <2>1. pc' = "idle" /\ UNCHANGED position /\ InFlight
    BY <1>29 DEF Crash, ForgetPass
  <2>2. position # Flat /\ stop' # NoPrice => Keeps(position, truth', stop')
    <3>. SUFFICES ASSUME position # Flat, stop' # NoPrice PROVE Keeps(position, truth', stop')
      OBVIOUS
    <3>1. stop' \in Nat /\ Keeps(position, truth, stop')
      BY <2>1, InFlightGoesOn DEF Keeps
    <3>. QED
      BY <3>1, <2>1, InFlightGoesOn, HistoryStays
  <2>. QED
    BY <2>1, <2>2
<1>30. ASSUME StartEngine PROVE Distances'
  BY <1>30 DEF StartEngine
<1>31. ASSUME Escalate PROVE Distances'
  BY <1>31 DEF Escalate, ForgetPass
<1>. QED
  BY <1>1, <1>2, <1>3, <1>4, <1>5, <1>6, <1>7, <1>8, <1>9, <1>10, <1>11, <1>12, <1>13, <1>14,
     <1>15, <1>16, <1>17, <1>18, <1>19, <1>20, <1>21, <1>22, <1>23, <1>24, <1>25, <1>26, <1>27,
     <1>28, <1>29, <1>30, <1>31 DEF Next, EngineOrders, ExchangeMoves, GuardReads, Trailing,
     TrailingNext

\* A state forgets nothing of its position but candidates: R is the first, the
\* best mark is one of its marks, over restarts and changes of mode too.
LEMMA RemembersStep ==
  ASSUME NoSkew, Types, AtHand, SeenIsReal, Distances, Remembers, [Next]_vars
  PROVE  Remembers'
<1>. USE DEF venueVars, passVars, trailingVars, partialVars, experiment, Types, VenueTypes, TrailingTypes, AtHand, Managing, Replacing, Remembers
<1>1. CASE UNCHANGED vars
  BY <1>1 DEF vars
<1>2. ASSUME NEW side \in Sides, NEW entry \in Entries, EngineOrders, Unremembered(side, entry),
             Open(side, entry)
      PROVE  Remembers'
  <2>1. position'.side = side /\ position'.entry = entry /\ UNCHANGED <<state, saved>>
    BY <1>2 DEF EngineOrders, Open
  <2>2. ~Same(state, position') /\ ~Same(saved.state, position')
    BY <2>1, <1>2 DEF Unremembered, Same
  <2>. QED
    BY <2>1, <2>2 DEF TrueTo
<1>3. ASSUME NEW entry \in Prices, NEW trigger \in Prices \cup {stop}, EngineOrders,
             Unremembered(position.side, entry), Add(entry, trigger)
      PROVE  Remembers'
  <2>1. position'.side = position.side /\ position'.entry = entry /\ UNCHANGED <<state, saved>>
    BY <1>3 DEF EngineOrders, Add
  <2>2. ~Same(state, position') /\ ~Same(saved.state, position')
    BY <2>1, <1>3 DEF Unremembered, Same
  <2>. QED
    BY <2>1, <2>2 DEF TrueTo
<1>4. ASSUME NEW price \in Prices, MoveMark(price), UNCHANGED <<trailingVars, partialVars>>
      PROVE  Remembers'
  <2>1. HistoryGoesOn /\ UNCHANGED <<position, state, saved>>
    BY <1>4, PriceTypes DEF MoveMark, HistoryGoesOn
  <2>. QED
    BY <2>1, HistoryStays
<1>5. ASSUME Close, UNCHANGED <<trailingVars, partialVars>>
      PROVE  Remembers'
  BY <1>5 DEF Close, PositionMatters, MarkMatters
<1>6. ASSUME BeginPass, UNCHANGED <<trailingVars, partialVars>>
      PROVE  Remembers'
  BY <1>6 DEF BeginPass
<1>7. ASSUME ReadAccount, UNCHANGED <<trailingVars, partialVars>>
      PROVE  Remembers'
  BY <1>7 DEF ReadAccount, Proceed
<1>8. ASSUME ReadLevels, UNCHANGED <<trailingVars, partialVars>>
      PROVE  Remembers'
  BY <1>8 DEF ReadLevels, Proceed
<1>9. ASSUME ReadFails, UNCHANGED <<trailingVars, partialVars>>
      PROVE  Remembers'
  BY <1>9 DEF ReadFails
<1>10. ASSUME Load, UNCHANGED partialVars PROVE Remembers'
  <2>1. state' \in {state, Restored} /\ UNCHANGED <<position, truth, saved>>
    BY <1>10 DEF Load
  <2>. QED
    BY <2>1, RestoredTrue
<1>11. ASSUME Forget, UNCHANGED partialVars PROVE Remembers'
  BY <1>11, NobodyKnown DEF Forget
<1>12. ASSUME Observe, UNCHANGED partialVars PROVE Remembers'
  <2>1. CASE pc' = "failed"
    BY <2>1, <1>12 DEF Observe
  <2>2. CASE pc' # "failed"
    <3>1. UNCHANGED <<position, truth, saved>> /\ pc = "manage" /\ seen.side # "NONE"
      BY <1>12 DEF Observe
    <3>. SUFFICES ASSUME position # Flat PROVE TrueTo(state', position, truth)
      BY <3>1
    <3>2. Same(seen, position) /\ seen.stop = stop /\ Gain(seen.side, seen.mark, truth.peak) >= 0
      BY <3>1 DEF SeenIsReal, Same
    <3>. QED
      BY <2>2, <3>1, <3>2, <1>12, ObservedTrue DEF Distances
  <2>. QED
    BY <2>1, <2>2
<1>13. ASSUME ProfileQuiet, UNCHANGED partialVars PROVE Remembers'
  <2>. DEFINE p == [Progress EXCEPT !.active = @ \/ (~Progress.filled /\ Activated)]
  <2>1. todo # <<>> /\ Note(p) /\ UNCHANGED <<position, truth, saved>>
    BY <1>13 DEF ProfileQuiet
  <2>. SUFFICES ASSUME position # Flat, Same(state, position) PROVE TrueTo(state', position, truth)
    BY <2>1, NoteKeeps DEF TrueTo, Same
  <2>2. /\ Head(todo) \in DOMAIN Profiles /\ Progress = state.progress[Head(todo)]
        /\ Progress \in [active : BOOLEAN, last : Nat, filled : BOOLEAN]
    BY <2>1, HeadOfTodo DEF Progress
  <2>8. p.active => Activated
    BY <2>2 DEF Activated
  <2>9. p.last = Progress.last
    BY <2>2
  <2>. HIDE DEF p
  <2>. QED
    BY <2>1, <2>2, <2>8, <2>9, NoteUseful
<1>14. ASSUME ProfileFills, UNCHANGED partialVars PROVE Remembers'
  <2>. DEFINE p == [Progress EXCEPT !.filled = TRUE]
  <2>1. todo # <<>> /\ Note(p) /\ UNCHANGED <<position, truth, saved>>
    BY <1>14 DEF ProfileFills
  <2>. SUFFICES ASSUME position # Flat, Same(state, position) PROVE TrueTo(state', position, truth)
    BY <2>1, NoteKeeps DEF TrueTo, Same
  <2>2. /\ Head(todo) \in DOMAIN Profiles /\ Progress = state.progress[Head(todo)]
        /\ Progress \in [active : BOOLEAN, last : Nat, filled : BOOLEAN]
    BY <2>1, HeadOfTodo DEF Progress
  <2>8. p.active => Activated
    BY <2>2 DEF Activated
  <2>9. p.last = Progress.last
    BY <2>2
  <2>. HIDE DEF p
  <2>. QED
    BY <2>1, <2>2, <2>8, <2>9, NoteUseful
<1>15. ASSUME ProfileRecords, UNCHANGED partialVars PROVE Remembers'
  <2>. DEFINE p == [Progress EXCEPT !.active = TRUE, !.last = Trigger]
  <2>1. todo # <<>> /\ Note(p) /\ UNCHANGED <<position, truth, saved>>
    BY <1>15 DEF ProfileRecords
  <2>. SUFFICES ASSUME position # Flat, Same(state, position) PROVE TrueTo(state', position, truth)
    BY <2>1, NoteKeeps DEF TrueTo, Same
  <2>2. /\ Head(todo) \in DOMAIN Profiles /\ Progress = state.progress[Head(todo)]
        /\ Progress \in [active : BOOLEAN, last : Nat, filled : BOOLEAN]
    BY <2>1, HeadOfTodo DEF Progress
  <2>8. Activated
    BY <1>15 DEF ProfileRecords, Due
  <2>9. p.last = Trigger /\ Trigger \in Nat /\ Gain(state.side, Behind(state.side, state.entry, state.risk), Trigger) >= 0
    <3>1. p.last = Trigger
      BY <2>2
    <3>2. seen.side \in Sides /\ Same(state, seen) /\ Due /\ pc = "profile" /\ todo # <<>>
      BY <1>15 DEF ProfileRecords, Same
    <3>3. Same(seen, position) /\ seen.stop = stop /\ TrueTo(state, position, truth)
      BY <3>2 DEF SeenIsReal
    <3>4. Trigger \in Nat
      BY <3>2, CandidateImproves DEF Due, Same
    <3>5. Gain(state.side, Behind(state.side, state.entry, state.risk), Trigger) >= Tick
      BY <3>2, <3>3, CandidateBeatsFirst DEF Distances
    <3>6. state.entry \in Nat /\ state.risk \in Nat /\ Tick \in Nat
      BY PriceTypes DEF States
    <3>7. Gain(state.side, Behind(state.side, state.entry, state.risk), Trigger) \in Int
      BY <3>4, <3>6, GainInteger, GeometryTypes
    <3>. QED
      BY <3>1, <3>4, <3>5, <3>6, <3>7
  <2>. HIDE DEF p
  <2>. QED
    BY <2>1, <2>2, <2>8, <2>9, NoteUseful
<1>16. ASSUME ProfileReplaces, UNCHANGED partialVars PROVE Remembers'
  <2>. DEFINE p == [Progress EXCEPT !.active = TRUE]
  <2>1. todo # <<>> /\ Note(p) /\ UNCHANGED <<position, truth, saved>>
    BY <1>16 DEF ProfileReplaces
  <2>. SUFFICES ASSUME position # Flat, Same(state, position) PROVE TrueTo(state', position, truth)
    BY <2>1, NoteKeeps DEF TrueTo, Same
  <2>2. /\ Head(todo) \in DOMAIN Profiles /\ Progress = state.progress[Head(todo)]
        /\ Progress \in [active : BOOLEAN, last : Nat, filled : BOOLEAN]
    BY <2>1, HeadOfTodo DEF Progress
  <2>8. Activated
    BY <1>16 DEF ProfileReplaces, Due
  <2>9. p.last = Progress.last
    BY <2>2
  <2>. HIDE DEF p
  <2>. QED
    BY <2>1, <2>2, <2>8, <2>9, NoteUseful
<1>17. ASSUME ProfilesDone, UNCHANGED partialVars PROVE Remembers'
  BY <1>17 DEF ProfilesDone
<1>18. ASSUME FindStop, UNCHANGED partialVars PROVE Remembers'
  BY <1>18 DEF FindStop
<1>19. ASSUME RemoveStop, UNCHANGED partialVars PROVE Remembers'
  BY <1>19 DEF RemoveStop
<1>20. ASSUME InstallStop, UNCHANGED partialVars PROVE Remembers'
  <2>1. HistoryGoesOn /\ UNCHANGED <<position, state, saved>>
    BY <1>20 DEF InstallStop, Placed, HistoryGoesOn
  <2>. QED
    BY <2>1, HistoryStays
<1>21. ASSUME RestoreStop, UNCHANGED partialVars PROVE Remembers'
  <2>1. HistoryGoesOn /\ UNCHANGED <<position, state, saved>>
    BY <1>21 DEF RestoreStop, Placed, HistoryGoesOn
  <2>. QED
    BY <2>1, HistoryStays
<1>22. ASSUME RecordCritical, UNCHANGED partialVars PROVE Remembers'
  BY <1>22 DEF RecordCritical
<1>23. ASSUME NoteApplied, UNCHANGED partialVars PROVE Remembers'
  <2>. DEFINE p == [Progress EXCEPT !.last = candidate]
  <2>1. todo # <<>> /\ Note(p) /\ UNCHANGED <<position, truth, saved>>
    BY <1>23 DEF NoteApplied, AtHand, Replacing
  <2>. SUFFICES ASSUME position # Flat, Same(state, position) PROVE TrueTo(state', position, truth)
    BY <2>1, NoteKeeps DEF TrueTo, Same
  <2>2. /\ Head(todo) \in DOMAIN Profiles /\ Progress = state.progress[Head(todo)]
        /\ Progress \in [active : BOOLEAN, last : Nat, filled : BOOLEAN]
    BY <2>1, HeadOfTodo DEF Progress
  <2>8. p.active => Activated
    BY <2>2 DEF Activated
  <2>9. p.last = candidate /\ candidate \in Nat /\ Gain(state.side, Behind(state.side, state.entry, state.risk), candidate) >= 0
    <3>1. p.last = candidate
      BY <2>2
    <3>2. Keeps(position, truth, candidate)
      BY <1>23 DEF NoteApplied, Distances
    <3>3. state.side = position.side /\ state.entry = position.entry /\ state.risk = truth.risk
      BY DEF TrueTo, Same
    <3>4. truth \in Truths /\ position.entry \in Nat
      BY DEF Truths
    <3>. QED
      BY <3>1, <3>2, <3>3, <3>4, NeverLooser
  <2>. HIDE DEF p
  <2>. QED
    BY <2>1, <2>2, <2>8, <2>9, NoteUseful
<1>24. ASSUME Fail, UNCHANGED partialVars PROVE Remembers'
  BY <1>24 DEF Fail
<1>25. ASSUME Save, UNCHANGED partialVars PROVE Remembers'
  <2>1. saved'.state \in {saved.state, state} /\ UNCHANGED <<state, position, truth>>
    BY <1>25 DEF Save
  <2>. QED
    BY <2>1
<1>26. ASSUME Partial PROVE Remembers'
  BY <1>26 DEF Partial, PartialNext, LoadBook, TargetQuiet, TargetRecords, TargetsDone
<1>27. ASSUME EndPass PROVE Remembers'
  BY <1>27 DEF EndPass, ForgetPass
<1>28. ASSUME StopEngine PROVE Remembers'
  <2>1. InFlight /\ UNCHANGED <<position, state>>
    BY <1>28 DEF StopEngine
  <2>2. saved.state \in States
    OBVIOUS
  <2>. QED
    BY <2>1, <2>2, InFlightGoesOn, HistoryStays
<1>29. ASSUME Crash PROVE Remembers'
  <2>1. InFlight /\ UNCHANGED position /\ state' = NoState
    BY <1>29 DEF Crash
  <2>2. saved.state \in States /\ state \in States /\ saved'.state \in {saved.state, state}
    BY <2>1, InFlightGoesOn
  <2>3. AtHand /\ NoState \in States
    BY AbsentTypes
  <2>4. position # Flat => TrueTo(NoState, position, truth') /\ TrueTo(saved'.state, position, truth')
    BY <2>1, <2>2, <2>3, InFlightGoesOn, HistoryStays, NobodyKnown
  <2>. QED
    BY <2>1, <2>4
<1>30. ASSUME StartEngine PROVE Remembers'
  BY <1>30 DEF StartEngine
<1>31. ASSUME Escalate PROVE Remembers'
  BY <1>31 DEF Escalate, ForgetPass
<1>. QED
  BY <1>1, <1>2, <1>3, <1>4, <1>5, <1>6, <1>7, <1>8, <1>9, <1>10, <1>11, <1>12, <1>13, <1>14,
     <1>15, <1>16, <1>17, <1>18, <1>19, <1>20, <1>21, <1>22, <1>23, <1>24, <1>25, <1>26, <1>27,
     <1>28, <1>29, <1>30, <1>31 DEF Next, EngineOrders, ExchangeMoves, GuardReads, Trailing,
     TrailingNext

----------------------------------------------------------------------------
\* The beginning: no position, nothing remembered, nothing sold.
LEMMA Beginning ==
  ASSUME Init
  PROVE  /\ Types /\ AtHand /\ RealPrices /\ StopHeld /\ SeenIsReal /\ Ratchet
         /\ Remembers /\ Distances /\ FillsFrozen /\ Unseen /\ SalesRecorded /\ EndsFollowSales
<1>1. VenueTypes
  BY PriceTypes DEF Init, VenueInit, VenueTypes, Flat, Unread, NoPrice
<1>2. TrailingTypes
  BY AbsentTypes DEF Init, TrailingInit, TrailingTypes, NoRow, NoPrice
<1>3. PartialTypes /\ mishaps \in 0..MaxMishaps
  <2>1. mishaps = 0 /\ MaxMishaps \in Nat
    BY TargetAssumption DEF Init, PartialInit
  <2>2. PartialTypes
    BY AbsentTypes DEF Init, PartialInit, PartialTypes
  <2>. QED
    BY <2>1, <2>2
<1>4. position = Flat /\ pc = "idle" /\ have = {}
  BY DEF Init, VenueInit
<1>5. AtHand /\ StopHeld /\ SeenIsReal /\ Ratchet /\ Remembers /\ Distances /\ Unseen
  BY <1>4 DEF AtHand, Managing, Replacing, StopHeld, SeenIsReal, Ratchet, Remembers, Distances,
     Unseen
<1>6. RealPrices
  BY <1>4 DEF RealPrices, Init, TrailingInit, NoState, NoRow
<1>7. FillsFrozen
  BY DEF FillsFrozen, Init, TrailingInit, NoFills
<1>8. SalesRecorded /\ EndsFollowSales
  <2>1. book = NoBook /\ bookSaved = NoBook /\ sold = {} /\ lost = {}
    BY DEF Init, PartialInit
  <2>2. \A j \in DOMAIN Targets : NoBook.progress[j].stage = "waiting"
    BY DEF NoBook, Untouched
  <2>. QED
    BY <2>1, <2>2 DEF SalesRecorded, EndsFollowSales
<1>. QED
  BY <1>1, <1>2, <1>3, <1>5, <1>6, <1>7, <1>8 DEF Types

\* Types imply TypeOK.
LEMMA TypesSuffice ==
  ASSUME Types
  PROVE  TypeOK
<1>1. /\ position \in [side : Sides \cup {"NONE"}, entry : Nat, quantity : Nat]
      /\ mark \in Prices /\ {stop, candidate, previous} \subseteq Nat
      /\ openings \in 0..MaxOpenings /\ mishaps \in 0..MaxMishaps
      /\ {running, loaded, dirty, bookLoaded, bookDirty} \subseteq BOOLEAN
      /\ have \subseteq {"account", "levels"} /\ mode \in Modes
      /\ todo \in Seq(DOMAIN Profiles) /\ left \in Seq(DOMAIN Targets)
      /\ fills \in [DOMAIN Profiles -> Nat]
  BY DEF Types, VenueTypes, TrailingTypes, PartialTypes
<1>2. ASSUME NEW s \in {state, saved.state}
      PROVE  /\ s.side \in Sides \cup {"NONE"} /\ {s.entry, s.risk, s.best} \subseteq Nat
             /\ s.progress \in [DOMAIN Profiles ->
                                  [active : BOOLEAN, last : Nat, filled : BOOLEAN]]
  <2>1. s \in States
    BY DEF Types, TrailingTypes
  <2>. QED
    BY <2>1 DEF States, Progresses
<1>3. ASSUME NEW b \in {book, bookSaved}
      PROVE  b.progress \in [DOMAIN Targets ->
               [stage : {"waiting", "partial", "breakeven", "unviable"}, quantity : Nat]]
  <2>1. b \in Books
    BY DEF Types, PartialTypes
  <2>. QED
    BY <2>1 DEF Books, Stages
<1>. QED
  BY <1>1, <1>2, <1>3 DEF TypeOK

\* Every variable of the guard pass keeps its type, whatever fails.
THEOREM TypesAreKept == Spec => []TypeOK
<1>1. Init => Types /\ AtHand
  BY Beginning
<1>2. Types /\ AtHand /\ [Next]_vars => (Types /\ AtHand)'
  BY TypesStep, AtHandStep
<1>3. Types /\ AtHand => TypeOK
  BY TypesSuffice
<1>. QED
  BY <1>1, <1>2, <1>3, PTL DEF Spec

\* LostStopEscalates: when no answer of a DELETE is lost and the database
\* records what it is told, a running guard never sleeps over a position whose
\* stop a replacement has lost.
THEOREM NoNakedSleep ==
  ASSUME NoLostDelete
  PROVE  Spec => []LostStopEscalates
<1>. DEFINE I == Types /\ AtHand /\ RealPrices /\ StopHeld
<1>1. Init => I
  BY Beginning
<1>2. I /\ [Next]_vars => I'
  BY TypesStep, AtHandStep, RealPricesStep, StopHeldStep
<1>3. I => LostStopEscalates
  BY DEF StopHeld, LostStopEscalates
<1>. QED
  BY <1>1, <1>2, <1>3, PTL DEF Spec

\* StopOnlyTightens: unless the two reads of a snapshot meet different
\* accounts, the exchange stop of a position is always the tightest it has
\* had, through failing requests, stops, crashes and changes of mode.
THEOREM StopTightens ==
  ASSUME NoSkew
  PROVE  Spec => []StopOnlyTightens
<1>. DEFINE I == Types /\ AtHand /\ RealPrices /\ SeenIsReal /\ Ratchet
<1>1. Init => I
  BY Beginning
<1>2. I /\ [Next]_vars => I'
  BY TypesStep, AtHandStep, RealPricesStep, SeenIsRealStep, RatchetStep
<1>3. I => StopOnlyTightens
  BY DEF Ratchet, StopOnlyTightens
<1>. QED
  BY <1>1, <1>2, <1>3, PTL DEF Spec

\* StopKeepsDistance: with a live profile that starts at least one R later than
\* it follows, a stop the guard has moved is a whole distance behind the best
\* mark of the position, in the R it was opened with.
THEOREM DistanceKept ==
  ASSUME NoSkew, LateActivation
  PROVE  Spec => []StopKeepsDistance
<1>. DEFINE I == Types /\ AtHand /\ SeenIsReal /\ Remembers /\ Distances
<1>1. Init => I
  BY Beginning
<1>2. I /\ [Next]_vars => I'
  BY TypesStep, AtHandStep, SeenIsRealStep, RemembersStep, DistancesStep
<1>3. I => StopKeepsDistance
  BY DEF Distances, Keeps, First, Moved, StopKeepsDistance
<1>. QED
  BY <1>1, <1>2, <1>3, PTL DEF Spec

\* SimulatedSalesInOrder: a process simulates the end of one position at most
\* once per profile, and no end of a partial sale is recorded without the sale,
\* unless the write of that very sale failed or was cut off, whatever else
\* fails.
THEOREM SalesKeepOrder ==
  ASSUME NoSkew
  PROVE  Spec => []SimulatedSalesInOrder
<1>. DEFINE I == Types /\ AtHand /\ SeenIsReal /\ Unseen /\ FillsFrozen /\ SalesRecorded /\ EndsFollowSales
<1>1. Init => I
  BY Beginning
<1>2. I /\ [Next]_vars => I'
  BY TypesStep, AtHandStep, SeenIsRealStep, UnseenStep, FillsFrozenStep, SalesRecordedStep,
     EndsFollowSalesStep
<1>3. I => SimulatedSalesInOrder
  BY DEF FillsFrozen, EndsFollowSales, SimulatedSalesInOrder
<1>. QED
  BY <1>1, <1>2, <1>3, PTL DEF Spec

====
