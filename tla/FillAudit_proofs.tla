---- MODULE FillAudit_proofs ----
(***************************************************************************)
(* Proofs about the records of what was executed, for every number of      *)
(* rounds, contracts, waiting events and every set of faults: rows that    *)
(* are not behind the events, final fills that are listed exactly once,    *)
(* remainders that are cancelled, and exits a request finds.               *)
(*                                                                         *)
(* The argument: a record tells of the present or the past of its order    *)
(* (Behind), and what an order may become (Moves) keeps that true.  What   *)
(* record_execution folds out of the events, and the last event of a fill, *)
(* need induction on the number of events; it is done on sets of naturals, *)
(* from the well-foundedness of <.                                         *)
(***************************************************************************)
EXTENDS FillAudit, WellFoundedInduction, TLAPS

----------------------------------------------------------------------------
\* What the invariant says.

\* What may be known of an order: a status and a quantity.  No event announces
\* a new order.
State  == [status : Open \cup Dead \cup {"none"}, filled : Nat]
Event  == [order : Orders, status : {"PARTIALLY_FILLED"} \cup Dead, filled : Nat, source : {"live", "rest"}]

OrderTypes ==
  /\ order \in [Orders -> State]
  /\ \A o \in Orders : order[o].status = "none" => order[o].filled = 0

Places == [pc : {"off", "wait", "look", "store", "handle", "dead"}, found : Nat]
Works  == [stage : {"idle", "entry", "close", "record"}, order : Orders, report : State]
Polls  == [pc : {"idle", "account", "ask", "look", "store"}, exits : SUBSET (1..Rounds),
           todo : SUBSET Orders, at : SUBSET Orders, found : Nat, due : SUBSET (1..Rounds)]

AuditTypes ==
  /\ wire \in Seq(Event) /\ events \in Seq(Event)
  /\ rows \in [Orders -> State]
  /\ connected \in BOOLEAN /\ tasks \in BOOLEAN
  /\ feed \in Places /\ work \in Works /\ poll \in Polls

\* r tells of the order that is in state s now, or of its past.
Behind(r, s) ==
  /\ s.status # "none" /\ r.filled <= s.filled
  /\ r.status \in Dead => r.status = s.status /\ r.filled = s.filled
  /\ s.status = "FILLED" /\ r.filled = s.filled => r.status = "FILLED"

\* What an order may become.
Moves(s, t) ==
  \/ t = s
  \/ /\ s.status \in Open /\ t.status \in Open \cup Dead
     /\ t.filled >= s.filled /\ (t.status = "FILLED" => t.filled > s.filled)
  \/ s.status = "none" /\ t.status \in {"NEW", "FILLED"}

OrderMoves == OrderTypes' /\ \A o \in Orders : Moves(order[o], order'[o])

\* A row that has taken an event in.
Covers(row, e) == e.filled <= row.filled /\ (e.status \in Dead => row.status = e.status)

\* Whatever is sent, stored or reported tells of the past of its order.
NothingInvented ==
  /\ \A i \in 1..Len(wire) : Behind(wire[i], order[wire[i].order])
  /\ \A i \in 1..Len(events) : Behind(events[i], order[events[i].order])
  /\ work.stage = "record" => Behind(work.report, order[work.order])

\* The rows follow, and a leg has none.
RowsFollow ==
  /\ \A o \in Orders : rows[o] # None => Behind(rows[o], order[o])
  /\ \A i \in 1..Len(events) :
       rows[events[i].order] # None => Covers(rows[events[i].order], events[i])
  /\ \A n \in 1..Rounds : rows[<<n, "leg">>] = None

\* The engine: it works on one order, and no entry is open beside that.
OneOrder ==
  /\ work.stage \in {"entry", "close"} => tasks /\ order[work.order].status # "none"
  /\ work.stage = "entry" => work.order[2] = "entry"
  /\ work.stage = "close" => work.order[2] = "model"
  /\ work.stage = "record" => work.order[2] # "leg"
  /\ \A n \in 1..Rounds : IsOpen(<<n, "entry">>) /\ tasks =>
       work.stage = "entry" /\ work.order = <<n, "entry">>

\* A position: its bracket comes after its entry, and the bracket's exit or a
\* manual one ends it, whatever the model sold before.
OneExitOf(n) ==
  LET Status(k) == order[<<n, k>>].status IN
  /\ Status("entry") = "none" => \A k \in Exits : Status(k) = "none"
  /\ work.stage = "entry" /\ work.order[1] = n => \A k \in Exits : Status(k) = "none"
  /\ Status("leg") \in Open => Filled(n, "leg") = 0
  /\ Status("leg") # "none" =>
       /\ Status("entry") \in Dead
       /\ (Status("leg") = "FILLED" \/ Status("manual") = "FILLED") => Held(n) = 0
  /\ Status("leg") = "FILLED" => Status("manual") # "FILLED"

OneExit == \A n \in 1..Rounds : OneExitOf(n)

\* The index the look-up of e came to.
Looked(found, e) == found # 0 => found \in 1..Len(events) /\ SameFill(events[found], e)

\* The feed: it has the first event in hand.
EventInHand ==
  /\ feed.pc # "off" => tasks
  /\ Busy => wire # <<>>
  /\ feed.pc = "handle" => Freezes(Head(wire))
  /\ feed.pc = "store" => Looked(feed.found, Head(wire))

\* There is an event of the exit of this round.
Told(n) == \E i \in 1..Len(events) : events[i].order = <<n, "leg">> /\ events[i].status = "FILLED"

\* A request: an exit that is due is in the table, or on its way there.
ExitsOnTheirWay ==
  /\ poll.pc \in {"look", "store"} =>
       \E o \in Orders : /\ poll.at = {o} /\ order[o].status = "FILLED"
                         /\ poll.pc = "store" => Looked(poll.found, Copy(o))
  /\ \A n \in poll.due :
       /\ order[<<n, "leg">>].status = "FILLED"
       /\ \/ Told(n)
          \/ poll.pc = "account" /\ n \in poll.exits
          \/ poll.pc \in {"ask", "look", "store"} /\ <<n, "leg">> \in poll.todo
          \/ poll.pc \in {"look", "store"} /\ poll.at = {<<n, "leg">>}

\* What a step may do to what is sent and to what is stored.
WireMoves ==
  \A i \in 1..Len(wire') : \/ \E j \in 1..Len(wire) : wire'[i] = wire[j]
                           \/ Behind(wire'[i], order'[wire'[i].order])

\* Fills that are in the table stay there, and where they were found.
EventsStay ==
  /\ \A n \in 1..Rounds : Told(n) => Told(n)'
  /\ \A k, f : Looked(k, f) => Looked(k, f)'

----------------------------------------------------------------------------
\* Induction on sets of naturals, and what it is needed for.

\* The least natural outside T would have a predecessor in T.
LEMMA AllNaturals ==
  ASSUME NEW T, T \subseteq Nat, 0 \in T, \A n \in T : n + 1 \in T
  PROVE  T = Nat
<1>. DEFINE less == OpToRel(<, Nat)
<1>. SUFFICES ASSUME Nat \ T # {} PROVE FALSE
  OBVIOUS
<1>1. \E x \in Nat \ T : \A y \in Nat \ T : ~(<<y, x>> \in less)
  <2>1. IsWellFoundedOn(less, Nat)
    BY NatLessThanWellFounded
  <2>. HIDE DEF less
  <2>. QED
    BY <2>1, WFMin
<1>2. PICK x \in Nat \ T : \A y \in Nat \ T : ~(<<y, x>> \in less)
  BY <1>1
<1>3. x # 0 /\ x - 1 \in Nat
  OBVIOUS
<1>4. <<x - 1, x>> \in less
  BY <1>3 DEF OpToRel
<1>5. x - 1 \in T
  BY <1>2, <1>3, <1>4
<1>. QED
  BY <1>3, <1>5

LEMMA MaximumExists ==
  ASSUME NEW n \in Nat, NEW S, S \subseteq 1..n, S # {}
  PROVE  \E m \in S : \A k \in S : k <= m
<1>. DEFINE HasOne(U) == U # {} => \E m \in U : \A k \in U : k <= m
            T == {b \in Nat : \A U \in SUBSET (1..b) : HasOne(U)}
<1>1. 0 \in T
  <2>1. 1..0 = {}
    OBVIOUS
  <2>. QED
    BY <2>1
<1>2. ASSUME NEW b \in T PROVE b + 1 \in T
  <2>1. ASSUME NEW U \in SUBSET (1..(b + 1)) PROVE HasOne(U)
    <3>1. CASE b + 1 \in U
      BY <3>1
    <3>2. CASE b + 1 \notin U
      <4>1. U \in SUBSET (1..b)
        BY <3>2
      <4>. QED
        BY <4>1
    <3>. QED
      BY <3>1, <3>2
  <2>. QED
    BY <2>1
<1>3. T = Nat
  <2>1. T \subseteq Nat
    OBVIOUS
  <2>. HIDE DEF T
  <2>. QED
    BY <1>1, <1>2, <2>1, AllNaturals
<1>4. n \in T
  BY <1>3
<1>. QED
  BY <1>4

----------------------------------------------------------------------------
\* What an order may become.

\* Forms of a step of an order.
LEMMA OneMoves ==
  ASSUME OrderTypes, NEW o \in Orders, NEW t \in State, Moves(order[o], t),
         order' = [order EXCEPT ![o] = t]
  PROVE  OrderMoves
<1>1. order' \in [Orders -> State] /\ order'[o] = t /\ \A p \in Orders : p # o => order'[p] = order[p]
  BY DEF OrderTypes
<1>2. t.status = "none" => t.filled = 0
  BY DEF Moves, OrderTypes, Open, Dead
<1>3. \A p \in Orders : order'[p].status = "none" => order'[p].filled = 0
  BY <1>1, <1>2 DEF OrderTypes
<1>4. \A p \in Orders : Moves(order[p], order'[p])
  BY <1>1 DEF Moves
<1>. QED
  BY <1>1, <1>3, <1>4 DEF OrderMoves, OrderTypes

LEMMA NoneMoves ==
  ASSUME OrderTypes, order' = order
  PROVE  OrderMoves
BY DEF OrderMoves, OrderTypes, Moves

LEMMA TurnMoves ==
  ASSUME OrderTypes, NEW o \in Orders, IsOpen(o), NEW status \in {"PARTIALLY_FILLED"} \cup Dead, NEW filled \in Nat,
         filled >= order[o].filled, status = "FILLED" => filled > order[o].filled,
         Turn(o, status, filled)
  PROVE  OrderMoves
<1>. DEFINE t == [status |-> status, filled |-> filled]
<1>1. t \in State /\ Moves(order[o], t)
  BY DEF State, Moves, IsOpen, Open
<1>2. order' = [order EXCEPT ![o] = t]
  BY DEF Turn
<1>. QED
  BY <1>1, <1>2, OneMoves

LEMMA FreezeMoves ==
  ASSUME OrderTypes, NEW o \in Orders, Freeze(o)
  PROVE  OrderMoves
<1>1. CASE IsOpen(o)
  <2>. DEFINE t == [order[o] EXCEPT !.status = "CANCELED"]
  <2>1. t \in State /\ Moves(order[o], t)
    BY <1>1 DEF State, Moves, IsOpen, OrderTypes, Open, Dead
  <2>2. order' = [order EXCEPT ![o] = t]
    BY <1>1 DEF Freeze, OrderTypes
  <2>. QED
    BY <2>1, <2>2, OneMoves
<1>2. CASE ~IsOpen(o)
  <2>1. order' = order
    BY <1>2 DEF Freeze, OrderTypes, State
  <2>. QED
    BY <2>1, NoneMoves
<1>. QED
  BY <1>1, <1>2

LEMMA SentMoves ==
  ASSUME OrderTypes, NEW o \in Orders, order[o].status = "none",
         order' = [order EXCEPT ![o].status = "NEW"]
  PROVE  OrderMoves
<1>. DEFINE t == [order[o] EXCEPT !.status = "NEW"]
<1>1. t \in State /\ Moves(order[o], t)
  BY DEF State, Moves, OrderTypes, Open, Dead
<1>2. order' = [order EXCEPT ![o] = t]
  BY DEF OrderTypes
<1>. QED
  BY <1>1, <1>2, OneMoves

LEMMA OrderIds ==
  ASSUME NEW n \in 1..Rounds
  PROVE  \A k \in Kinds : <<n, k>> \in Orders
BY DEF Orders

LEMMA HeadIsEvent ==
  ASSUME AuditTypes, wire # <<>>
  PROVE  /\ Head(wire) \in Event /\ Head(wire) = wire[1] /\ Head(wire).order \in Orders
         /\ Tail(wire) \in Seq(Event)
<1>1. wire \in Seq(Event)
  BY DEF AuditTypes
<1>2. Head(wire) \in Event /\ Head(wire) = wire[1] /\ Tail(wire) \in Seq(Event)
  BY <1>1
<1>. QED
  BY <1>2 DEF Event

LEMMA HeldTypes ==
  ASSUME OrderTypes, NEW n \in 1..Rounds
  PROVE  Held(n) \in Int /\ \A k \in Kinds : Filled(n, k) \in Nat
<1>1. \A k \in Kinds : Filled(n, k) \in Nat
  BY OrderIds DEF OrderTypes, State, Filled
<1>. QED
  BY <1>1 DEF Held, Kinds

LEMMA FoundTypes ==
  ASSUME NEW e, AuditTypes
  PROVE  Found(e) \in Nat /\ Looked(Found(e), e)
<1>. DEFINE same == {i \in 1..Len(events) : SameFill(events[i], e)}
<1>1. same \subseteq 1..Len(events) /\ Len(events) \in Nat
  BY DEF AuditTypes
<1>2. CASE same = {}
  BY <1>2 DEF Found, Looked
<1>3. CASE same # {}
  <2>1. \E i \in same : \A j \in same : j <= i
    BY <1>1, <1>3, MaximumExists
  <2>2. Found(e) \in same
    BY <1>3, <2>1 DEF Found
  <2>. QED
    BY <1>1, <2>2 DEF Looked
<1>. QED
  BY <1>2, <1>3

----------------------------------------------------------------------------
\* What a row takes in, and what is stored.

\* record_execution takes the events in one after the other.
RowSteps(row, n, o, report) ==
  row = [i \in 0..n |->
           IF i = 0 THEN report
           ELSE IF events[i].order = o THEN Advance(row[i - 1], events[i]) ELSE row[i - 1]]

LEMMA RowStepsExist ==
  ASSUME NEW o, NEW report, NEW n \in Nat
  PROVE  \E row : RowSteps(row, n, o, report)
<1>. DEFINE T == {k \in Nat : \E row : RowSteps(row, k, o, report)}
<1>1. 0 \in T
  <2>1. RowSteps([i \in 0..0 |-> report], 0, o, report)
    BY DEF RowSteps
  <2>. QED
    BY <2>1
<1>2. ASSUME NEW k \in T PROVE k + 1 \in T
  <2>1. PICK f : f = [i \in 0..k |->
           IF i = 0 THEN report
           ELSE IF events[i].order = o THEN Advance(f[i - 1], events[i]) ELSE f[i - 1]]
    BY DEF RowSteps
  <2>. DEFINE Step(row, i) == IF events[i].order = o THEN Advance(row, events[i]) ELSE row
              g == [i \in 0..(k + 1) |-> IF i <= k THEN f[i] ELSE Step(f[k], k + 1)]
  <2>2. \A i \in 0..k : f[i] = IF i = 0 THEN report ELSE Step(f[i - 1], i)
    BY <2>1
  <2>. HIDE DEF Step
  <2>3. ASSUME NEW i \in 0..(k + 1) PROVE g[i] = IF i = 0 THEN report ELSE Step(g[i - 1], i)
    <3>1. CASE i = 0
      BY <2>2, <3>1
    <3>2. CASE i # 0 /\ i <= k
      <4>1. g[i] = f[i] /\ g[i - 1] = f[i - 1] /\ f[i] = Step(f[i - 1], i)
        BY <2>2, <3>2
      <4>. QED
        BY <3>2, <4>1
    <3>3. CASE i = k + 1
      <4>1. g[i] = Step(f[k], k + 1) /\ g[i - 1] = f[k] /\ i # 0
        BY <3>3
      <4>. QED
        BY <3>3, <4>1
    <3>. QED
      BY <3>1, <3>2, <3>3
  <2>4. g = [i \in 0..(k + 1) |-> g[i]]
    OBVIOUS
  <2>. HIDE DEF g
  <2>5. g = [i \in 0..(k + 1) |-> IF i = 0 THEN report ELSE Step(g[i - 1], i)]
    BY <2>3, <2>4
  <2>6. RowSteps(g, k + 1, o, report)
    BY <2>5 DEF RowSteps, Step
  <2>. QED
    BY <2>6
<1>3. T = Nat
  <2>1. T \subseteq Nat
    OBVIOUS
  <2>. HIDE DEF T
  <2>. QED
    BY <1>1, <1>2, <2>1, AllNaturals
<1>. QED
  BY <1>3

LEMMA RowOfSteps ==
  ASSUME NEW o, NEW report, Len(events) \in Nat
  PROVE  \E row : RowSteps(row, Len(events), o, report) /\ RowOf(o, report) = row[Len(events)]
<1>. DEFINE n == Len(events)
            Is(row) == row = [i \in 0..n |->
                                IF i = 0 THEN report
                                ELSE IF events[i].order = o THEN Advance(row[i - 1], events[i])
                                ELSE row[i - 1]]
<1>1. \A row : Is(row) <=> RowSteps(row, n, o, report)
  BY DEF RowSteps
<1>2. \E row : Is(row)
  <2>1. \E row : RowSteps(row, n, o, report)
    BY RowStepsExist
  <2>. HIDE DEF Is, n
  <2>. QED
    BY <1>1, <2>1
<1>3. RowOf(o, report) = (CHOOSE row : Is(row))[n]
  BY DEF RowOf
<1>4. Is(CHOOSE row : Is(row))
  <2>. HIDE DEF Is
  <2>. QED
    BY <1>2
<1>. HIDE DEF Is
<1>5. RowSteps(CHOOSE row : Is(row), n, o, report)
  BY <1>1, <1>4
<1>. QED
  BY <1>3, <1>5

\* A row takes an event in: it does not fall behind, and keeps what it covers.
LEMMA AdvanceKeeps ==
  ASSUME NEW s \in State, NEW row \in State, NEW e \in Event, Behind(row, s), Behind(e, s)
  PROVE  /\ Advance(row, e) \in State /\ Behind(Advance(row, e), s) /\ Covers(Advance(row, e), e)
         /\ \A f \in Event : Behind(f, s) /\ Covers(row, f) => Covers(Advance(row, e), f)
         /\ Advance(row, e) # None
<1>. USE DEF State, Event, Behind, Covers, Open, Dead, None
<1>1. CASE row.status \in Dead /\ e.status # row.status
  BY <1>1 DEF Advance
<1>2. CASE ~(row.status \in Dead /\ e.status # row.status)
  <2>. DEFINE new == [status |-> e.status, filled |-> IF e.filled > row.filled THEN e.filled ELSE row.filled]
  <2>1. Advance(row, e) = new
    BY <1>2 DEF Advance
  <2>2. new \in State /\ new.status = e.status /\ new.filled >= e.filled /\ new.filled >= row.filled
    OBVIOUS
  <2>3. Behind(new, s)
    <3>1. new.filled <= s.filled /\ s.status # "none"
      OBVIOUS
    <3>2. e.status \in Dead => e.status = s.status /\ new.filled = s.filled
      OBVIOUS
    <3>3. s.status = "FILLED" /\ new.filled = s.filled => e.status = "FILLED"
      BY <1>2
    <3>. HIDE DEF new
    <3>. QED
      BY <2>2, <3>1, <3>2, <3>3
  <2>4. Covers(new, e)
    OBVIOUS
  <2>5. ASSUME NEW f \in Event, Behind(f, s), Covers(row, f) PROVE Covers(new, f)
    BY <1>2, <2>5
  <2>6. new # None
    OBVIOUS
  <2>. HIDE DEF new
  <2>. QED
    BY <2>1, <2>2, <2>3, <2>4, <2>5, <2>6
<1>. QED
  BY <1>1, <1>2

LEMMA RowOfFollows ==
  ASSUME OrderTypes, AuditTypes, NothingInvented, NEW o \in Orders, NEW report \in State,
         Behind(report, order[o])
  PROVE  /\ RowOf(o, report) \in State /\ Behind(RowOf(o, report), order[o])
         /\ \A i \in 1..Len(events) : events[i].order = o => Covers(RowOf(o, report), events[i])
<1>. DEFINE n == Len(events)
            s == order[o]
<1>1. n \in Nat /\ s \in State /\ \A i \in 1..n : events[i] \in Event
  BY DEF AuditTypes, OrderTypes
<1>2. \A i \in 1..n : events[i].order = o => Behind(events[i], s)
  BY DEF NothingInvented
<1>3. PICK row : RowSteps(row, n, o, report) /\ RowOf(o, report) = row[n]
  BY <1>1, RowOfSteps
<1>. DEFINE Good(r, k) == /\ r \in State /\ Behind(r, s)
                          /\ \A i \in 1..k : events[i].order = o => Covers(r, events[i])
            T == {k \in Nat : k <= n => Good(row[k], k)}
<1>. HIDE DEF n, s
<1>4. row[0] = report
  BY <1>1, <1>3 DEF RowSteps
<1>5. \A k \in Nat : k + 1 <= n =>
        row[k + 1] = IF events[k + 1].order = o THEN Advance(row[k], events[k + 1]) ELSE row[k]
  <2>1. ASSUME NEW k \in Nat, k + 1 <= n
        PROVE  row[k + 1] = IF events[k + 1].order = o THEN Advance(row[k], events[k + 1]) ELSE row[k]
    <3>1. k + 1 \in 0..n /\ k + 1 # 0 /\ (k + 1) - 1 = k
      BY <1>1, <2>1
    <3>. QED
      BY <1>3, <3>1 DEF RowSteps
  <2>. QED
    BY <2>1
<1>6. 0 \in T
  <2>1. 1..0 = {}
    OBVIOUS
  <2>2. Behind(report, s)
    BY DEF s
  <2>. QED
    BY <1>4, <2>1, <2>2
<1>7. ASSUME NEW k \in T PROVE k + 1 \in T
  <2>. SUFFICES ASSUME k + 1 <= n PROVE Good(row[k + 1], k + 1)
    OBVIOUS
  <2>1. k \in Nat /\ k <= n /\ k + 1 \in 1..n /\ 1..(k + 1) = 1..k \cup {k + 1}
    BY <1>1
  <2>2. Good(row[k], k)
    BY <2>1
  <2>3. CASE events[k + 1].order = o
    <3>1. row[k + 1] = Advance(row[k], events[k + 1])
      BY <1>5, <2>1, <2>3
    <3>2. events[k + 1] \in Event /\ Behind(events[k + 1], s)
      BY <1>1, <1>2, <2>1, <2>3
    <3>3. /\ row[k + 1] \in State /\ Behind(row[k + 1], s) /\ Covers(row[k + 1], events[k + 1])
          /\ \A f \in Event : Behind(f, s) /\ Covers(row[k], f) => Covers(row[k + 1], f)
      BY <1>1, <2>2, <3>1, <3>2, AdvanceKeeps
    <3>4. ASSUME NEW i \in 1..k, events[i].order = o PROVE Covers(row[k + 1], events[i])
      <4>1. i \in 1..n
        BY <1>1, <2>1
      <4>. QED
        BY <1>1, <1>2, <2>2, <3>3, <3>4, <4>1
    <3>. QED
      BY <2>1, <3>3, <3>4
  <2>4. CASE events[k + 1].order # o
    <3>1. row[k + 1] = row[k]
      BY <1>5, <2>1, <2>4
    <3>. QED
      BY <2>1, <2>2, <2>4, <3>1
  <2>. QED
    BY <2>3, <2>4
<1>8. T = Nat
  <2>1. T \subseteq Nat
    OBVIOUS
  <2>. HIDE DEF T
  <2>. QED
    BY <1>6, <1>7, <2>1, AllNaturals
<1>9. Good(row[n], n)
  BY <1>1, <1>8
<1>. QED
  BY <1>3, <1>9 DEF n, s

\* The stored event, and the row of its order, in the tables.
LEMMA StoreTypes ==
  ASSUME AuditTypes, NEW e \in Event, NEW found \in Nat, Looked(found, e), Store(e, found)
  PROVE  /\ events' \in Seq(Event) /\ rows' \in [Orders -> State]
         /\ Len(events') >= Len(events)
         /\ \A i \in 1..Len(events) : events'[i] = events[i] \/ (events'[i] = e /\ SameFill(events[i], e))
         /\ \A i \in 1..Len(events') : i > Len(events) => events'[i] = e
         /\ \E i \in 1..Len(events') : events'[i] = e \/ SameFill(events'[i], e)
<1>1. events \in Seq(Event) /\ rows \in [Orders -> State] /\ e.order \in Orders
  BY DEF AuditTypes, Event
<1>2. rows' \in [Orders -> State]
  <2>1. \A row \in State : Advance(row, e) \in State
    BY DEF Advance, State, Event, Open
  <2>2. None \in State
    BY DEF None, State
  <2>. QED
    BY <1>1, <2>1, <2>2 DEF Store
<1>3. CASE found = 0
  <2>1. events' = Append(events, e)
    BY <1>3 DEF Store
  <2>2. /\ events' \in Seq(Event) /\ Len(events') = Len(events) + 1 /\ Len(events) \in Nat
        /\ \A i \in 1..Len(events) : events'[i] = events[i]
        /\ events'[Len(events) + 1] = e
    BY <1>1, <2>1
  <2>3. Len(events) + 1 \in 1..Len(events')
    BY <2>2
  <2>4. \A i \in 1..Len(events') : i > Len(events) => i = Len(events) + 1
    BY <2>2
  <2>. QED
    BY <1>2, <2>2, <2>3, <2>4
<1>4. CASE found # 0
  <2>1. found \in 1..Len(events) /\ SameFill(events[found], e) /\ Len(events) \in Nat
    BY <1>1, <1>4 DEF Looked
  <2>2. CASE events' = [events EXCEPT ![found] = e]
    <3>1. /\ events' \in Seq(Event) /\ Len(events') = Len(events)
          /\ \A i \in 1..Len(events) : i # found => events'[i] = events[i]
          /\ events'[found] = e
      BY <1>1, <2>1, <2>2
    <3>2. \A i \in 1..Len(events') : ~(i > Len(events))
      BY <2>1, <3>1
    <3>3. found \in 1..Len(events')
      BY <2>1, <3>1
    <3>. QED
      BY <1>2, <2>1, <3>1, <3>2, <3>3
  <2>3. CASE events' = events
    <3>1. \A i \in 1..Len(events') : ~(i > Len(events))
      BY <2>1, <2>3
    <3>. QED
      BY <1>1, <1>2, <2>1, <2>3, <3>1
  <2>. QED
    BY <1>4, <2>2, <2>3 DEF Store
<1>. QED
  BY <1>3, <1>4

\* What is sent.
LEMMA TurnSends ==
  ASSUME AuditTypes, OrderTypes, NEW o \in Orders, NEW status \in {"PARTIALLY_FILLED"} \cup Dead, NEW filled \in Nat,
         Turn(o, status, filled)
  PROVE  /\ wire' \in Seq(Event) /\ Len(wire') >= Len(wire)
         /\ \A i \in 1..Len(wire) : wire'[i] = wire[i]
         /\ \A i \in 1..Len(wire') : i > Len(wire) => wire'[i] = Live(o, status, filled)
         /\ order'[o] = [status |-> status, filled |-> filled]
         /\ Live(o, status, filled) \in Event
<1>1. wire \in Seq(Event) /\ Live(o, status, filled) \in Event
  BY DEF AuditTypes, Live, Event
<1>2. order'[o] = [status |-> status, filled |-> filled]
  BY DEF Turn, OrderTypes
<1>3. CASE connected
  <2>1. wire' = Append(wire, Live(o, status, filled))
    BY <1>3 DEF Turn
  <2>2. /\ wire' \in Seq(Event) /\ Len(wire') = Len(wire) + 1 /\ Len(wire) \in Nat
        /\ \A i \in 1..Len(wire) : wire'[i] = wire[i]
        /\ wire'[Len(wire) + 1] = Live(o, status, filled)
    BY <1>1, <2>1
  <2>3. \A i \in 1..Len(wire') : i > Len(wire) => i = Len(wire) + 1
    BY <2>2
  <2>. QED
    BY <1>1, <1>2, <2>2, <2>3
<1>4. CASE ~connected
  <2>1. wire' = wire
    BY <1>4 DEF Turn
  <2>2. \A i \in 1..Len(wire') : ~(i > Len(wire))
    BY <1>1, <2>1
  <2>. QED
    BY <1>1, <1>2, <2>1, <2>2
<1>. QED
  BY <1>3, <1>4

\* Forms of the records.
LEMMA PlaceForms ==
  ASSUME feed \in Places
  PROVE  /\ \A pc \in {"off", "wait", "look", "store", "handle", "dead"} : \A k \in Nat :
              [pc |-> pc, found |-> k] \in Places
         /\ \A pc \in {"off", "wait", "look", "store", "handle", "dead"} :
              [feed EXCEPT !.pc = pc] \in Places
         /\ Off \in Places /\ [Off EXCEPT !.pc = "wait"] \in Places
BY DEF Places, Off

LEMMA WorkForms ==
  ASSUME work \in Works, OrderTypes
  PROVE  /\ \A r \in State : [work EXCEPT !.stage = "record", !.report = r] \in Works
         /\ \A stage \in {"entry", "close", "record"} : \A o \in Orders : \A r \in State :
              [stage |-> stage, order |-> o, report |-> r] \in Works
         /\ Idle \in Works /\ None \in State
<1>1. None \in State
  BY DEF None, State
<1>2. <<1, "entry">> \in Orders
  <2>1. 1 \in 1..Rounds
    BY FeedAssumption
  <2>. QED
    BY <2>1, OrderIds DEF Kinds
<1>3. ASSUME NEW r \in State PROVE [work EXCEPT !.stage = "record", !.report = r] \in Works
  <2>1. [work EXCEPT !.stage = "record", !.report = r] = [[work EXCEPT !.stage = "record"] EXCEPT !.report = r]
    BY DEF Works
  <2>2. [work EXCEPT !.stage = "record"] \in Works /\ \A w \in Works : [w EXCEPT !.report = r] \in Works
    BY DEF Works
  <2>. QED
    BY <2>1, <2>2
<1>. QED
  BY <1>1, <1>2, <1>3 DEF Works, Idle

LEMMA PollForms ==
  ASSUME poll \in Polls
  PROVE  /\ NoPoll \in Polls
         /\ \A pc \in {"idle", "account", "ask", "look", "store"}, E \in SUBSET (1..Rounds),
               D \in SUBSET (1..Rounds), L \in SUBSET Orders, A \in SUBSET Orders, k \in Nat :
              [pc |-> pc, exits |-> E, todo |-> L, at |-> A, found |-> k, due |-> D] \in Polls
         /\ poll = [pc |-> poll.pc, exits |-> poll.exits, todo |-> poll.todo, at |-> poll.at,
                    found |-> poll.found, due |-> poll.due]
BY DEF Polls, NoPoll

----------------------------------------------------------------------------
\* What has been sent and stored stays true.

LEMMA BehindKept ==
  ASSUME NEW s \in State, NEW t \in State, NEW r, r.filled \in Nat, Moves(s, t), Behind(r, s)
  PROVE  Behind(r, t)
BY DEF State, Moves, Behind, Open, Dead

LEMMA StaysTrue ==
  ASSUME OrderTypes, AuditTypes, NothingInvented, RowsFollow, OrderMoves
  PROVE  /\ \A i \in 1..Len(wire) : Behind(wire[i], order'[wire[i].order])
         /\ \A i \in 1..Len(events) : Behind(events[i], order'[events[i].order])
         /\ work.stage = "record" => Behind(work.report, order'[work.order])
         /\ \A o \in Orders : rows[o] # None => Behind(rows[o], order'[o])
<1>1. ASSUME NEW o \in Orders, NEW r, r.filled \in Nat, Behind(r, order[o])
      PROVE  Behind(r, order'[o])
  BY <1>1, BehindKept DEF OrderMoves, OrderTypes
<1>2. \A i \in 1..Len(wire) : wire[i].order \in Orders /\ wire[i].filled \in Nat
  <2>1. \A i \in 1..Len(wire) : wire[i] \in Event
    BY DEF AuditTypes
  <2>. QED
    BY <2>1 DEF Event
<1>3. \A i \in 1..Len(events) : events[i].order \in Orders /\ events[i].filled \in Nat
  <2>1. \A i \in 1..Len(events) : events[i] \in Event
    BY DEF AuditTypes
  <2>. QED
    BY <2>1 DEF Event
<1>4. work.order \in Orders /\ work.report.filled \in Nat /\ \A o \in Orders : rows[o].filled \in Nat
  BY DEF AuditTypes, Works, State
<1>. QED
  BY <1>1, <1>2, <1>3, <1>4 DEF NothingInvented, RowsFollow

\* An order tells of itself.
LEMMA BehindItself ==
  ASSUME NEW s, s.status # "none", NEW r, r.status = s.status, r.filled = s.filled, s.filled \in Nat
  PROVE  Behind(r, s)
BY DEF Behind

LEMMA TurnTells ==
  ASSUME AuditTypes, OrderTypes, NEW o \in Orders, NEW status \in {"PARTIALLY_FILLED"} \cup Dead, NEW filled \in Nat,
         Turn(o, status, filled)
  PROVE  WireMoves
<1>1. /\ \A i \in 1..Len(wire) : wire'[i] = wire[i]
      /\ \A i \in 1..Len(wire') : i > Len(wire) => wire'[i] = Live(o, status, filled)
      /\ order'[o] = [status |-> status, filled |-> filled]
      /\ Len(wire) \in Nat /\ Len(wire') \in Nat
  BY TurnSends DEF AuditTypes
<1>. DEFINE e == Live(o, status, filled)
<1>2. e.order = o /\ e.status = order'[o].status /\ e.filled = order'[o].filled
  BY <1>1 DEF Live
<1>3. Behind(e, order'[e.order])
  <2>1. order'[o].status # "none" /\ order'[o].filled \in Nat
    BY <1>1 DEF Open, Dead
  <2>. HIDE DEF e
  <2>. QED
    BY <1>2, <2>1, BehindItself
<1>. HIDE DEF e
<1>4. \A i \in 1..Len(wire') : i \in 1..Len(wire) \/ i > Len(wire)
  BY <1>1
<1>. QED
  BY <1>1, <1>3, <1>4 DEF WireMoves, e

LEMMA TailFrom ==
  ASSUME wire \in Seq(Event), wire # <<>>
  PROVE  /\ \A i \in 1..Len(Tail(wire)) : \E j \in 1..Len(wire) : Tail(wire)[i] = wire[j]
         /\ Len(Tail(wire)) = Len(wire) - 1
<1>1. /\ Len(wire) \in Nat /\ Len(Tail(wire)) = Len(wire) - 1
      /\ \A i \in 1..Len(Tail(wire)) : Tail(wire)[i] = wire[i + 1]
  OBVIOUS
<1>2. \A i \in 1..Len(Tail(wire)) : i + 1 \in 1..Len(wire)
  BY <1>1
<1>. QED
  BY <1>1, <1>2

LEMMA WireTrue ==
  ASSUME OrderTypes, AuditTypes, NothingInvented, RowsFollow, OrderMoves, WireMoves
  PROVE  \A i \in 1..Len(wire') : Behind(wire'[i], order'[wire'[i].order])
BY StaysTrue DEF WireMoves

LEMMA StoreTells ==
  ASSUME OrderTypes, AuditTypes, NothingInvented, RowsFollow, OrderMoves,
         NEW e \in Event, NEW found \in Nat, Looked(found, e), Store(e, found),
         Behind(e, order'[e.order])
  PROVE  \A i \in 1..Len(events') : Behind(events'[i], order'[events'[i].order])
<1>1. /\ \A i \in 1..Len(events) : events'[i] = events[i] \/ events'[i] = e
      /\ \A i \in 1..Len(events') : i > Len(events) => events'[i] = e
      /\ Len(events) \in Nat /\ Len(events') \in Nat
  BY StoreTypes DEF AuditTypes
<1>2. \A i \in 1..Len(events') : i \in 1..Len(events) \/ i > Len(events)
  BY <1>1
<1>. QED
  BY <1>1, <1>2, StaysTrue

LEMMA RowsStay ==
  ASSUME OrderTypes, AuditTypes, NothingInvented, RowsFollow, OrderMoves, UNCHANGED <<rows, events>>
  PROVE  RowsFollow'
BY StaysTrue DEF RowsFollow

\* The row of a stored event takes it in.
LEMMA StoreFollows ==
  ASSUME OrderTypes, AuditTypes, NothingInvented, RowsFollow, OrderMoves,
         NEW e \in Event, NEW found \in Nat, Looked(found, e), Store(e, found),
         Behind(e, order'[e.order])
  PROVE  RowsFollow'
<1>. DEFINE o == e.order
            row == rows[o]
<1>1. o \in Orders /\ rows \in [Orders -> State] /\ order'[o] \in State
  BY DEF Event, AuditTypes, OrderMoves, OrderTypes
<1>2. /\ rows'[o] = IF row = None THEN None ELSE Advance(row, e)
      /\ \A p \in Orders : p # o => rows'[p] = rows[p]
  BY <1>1 DEF Store
<1>3. ASSUME row # None
      PROVE  /\ Behind(rows'[o], order'[o]) /\ Covers(rows'[o], e)
             /\ \A f \in Event : Behind(f, order'[o]) /\ Covers(row, f) => Covers(rows'[o], f)
  <2>1. Behind(row, order'[o])
    BY <1>1, <1>3, StaysTrue
  <2>2. rows'[o] = Advance(row, e) /\ row \in State
    BY <1>1, <1>2, <1>3
  <2>. HIDE DEF row
  <2>. QED
    BY <1>1, <2>1, <2>2, AdvanceKeeps
<1>4. \A p \in Orders : rows'[p] # None => Behind(rows'[p], order'[p])
  BY <1>1, <1>2, <1>3, StaysTrue
<1>5. \A i \in 1..Len(events) : events[i] \in Event /\ events[i].order \in Orders
  <2>1. \A i \in 1..Len(events) : events[i] \in Event
    BY DEF AuditTypes
  <2>. QED
    BY <2>1 DEF Event
<1>6. ASSUME NEW i \in 1..Len(events), rows'[events[i].order] # None
      PROVE  Covers(rows'[events[i].order], events[i])
  <2>1. CASE events[i].order = o
    <3>1. row # None /\ Covers(row, events[i]) /\ Behind(events[i], order'[o])
      BY <1>2, <1>6, <2>1, StaysTrue DEF RowsFollow
    <3>. QED
      BY <1>3, <1>5, <2>1, <3>1
  <2>2. CASE events[i].order # o
    BY <1>2, <1>5, <1>6, <2>2 DEF RowsFollow
  <2>. QED
    BY <2>1, <2>2
<1>7. rows'[o] # None => Covers(rows'[o], e)
  BY <1>2, <1>3
<1>8. /\ \A i \in 1..Len(events) : events'[i] = events[i] \/ events'[i] = e
      /\ \A i \in 1..Len(events') : i > Len(events) => events'[i] = e
      /\ Len(events) \in Nat /\ Len(events') \in Nat
  BY StoreTypes DEF AuditTypes
<1>9. \A i \in 1..Len(events') : i \in 1..Len(events) \/ i > Len(events)
  BY <1>8
<1>10. \A i \in 1..Len(events') : rows'[events'[i].order] # None => Covers(rows'[events'[i].order], events'[i])
  BY <1>6, <1>7, <1>8, <1>9
<1>11. \A n \in 1..Rounds : rows'[<<n, "leg">>] = None
  <2>1. \A n \in 1..Rounds : <<n, "leg">> \in Orders /\ rows[<<n, "leg">>] = None
    BY OrderIds DEF RowsFollow, Kinds
  <2>. QED
    BY <1>2, <2>1
<1>. QED
  BY <1>4, <1>10, <1>11 DEF RowsFollow

LEMMA SentStays ==
  ASSUME OrderTypes, OrderMoves
  PROVE  /\ \A o \in Orders : order[o].status # "none" => order'[o].status # "none"
         /\ \A o \in Orders : order[o].status \in Dead => order'[o] = order[o]
         /\ \A o \in Orders : order[o].status = "FILLED" => order'[o].status = "FILLED"
BY DEF OrderMoves, Moves, Open, Dead

\* No entry is opened by a step that sends no entry.
LEMMA EntriesOpenNot ==
  ASSUME OrderTypes, NEW S, S \subseteq Orders,
         \A o \in Orders : o \notin S => order'[o] = order[o],
         \A o \in S : o[2] = "entry" => IsOpen(o)
  PROVE  \A m \in 1..Rounds : IsOpen(<<m, "entry">>)' => IsOpen(<<m, "entry">>)
<1>1. ASSUME NEW m \in 1..Rounds PROVE <<m, "entry">> \in Orders /\ <<m, "entry">>[2] = "entry"
  BY OrderIds DEF Kinds
<1>. QED
  BY <1>1 DEF IsOpen

LEMMA ExitKinds == Exits = {"leg", "model", "manual"}
BY DEF Exits, Kinds

\* The rounds that a step leaves alone.
LEMMA OthersStay ==
  ASSUME OneExit, NEW n,
         \A p \in Orders : p[1] # n => order'[p] = order[p],
         work'.stage = "entry" => work'.order[1] = n \/ work' = work
  PROVE  \A m \in 1..Rounds : m # n => OneExitOf(m)'
<1>1. ASSUME NEW m \in 1..Rounds, m # n PROVE OneExitOf(m)'
  <2>1. \A k \in Kinds : order'[<<m, k>>] = order[<<m, k>>]
    <3>1. \A k \in Kinds : <<m, k>> \in Orders /\ <<m, k>>[1] = m
      BY OrderIds
    <3>. QED
      BY <1>1, <3>1
  <2>2. work'.stage = "entry" /\ work'.order[1] = m => work.stage = "entry" /\ work.order[1] = m
    BY <1>1
  <2>3. Held(m)' = Held(m) /\ Filled(m, "leg")' = Filled(m, "leg")
    BY <2>1 DEF Held, Filled, Kinds
  <2>4. \A k \in {"entry", "leg", "model", "manual"} : order'[<<m, k>>].status = order[<<m, k>>].status
    BY <2>1 DEF Kinds
  <2>5. OneExitOf(m)
    BY DEF OneExit
  <2>. QED
    BY <2>2, <2>3, <2>4, <2>5, ExitKinds DEF OneExitOf
<1>. QED
  BY <1>1

LEMMA RoundsStay ==
  ASSUME OneExit, UNCHANGED order, work'.stage = "entry" => work' = work
  PROVE  OneExit'
BY DEF OneExit, OneExitOf, Held, Filled

\* An entry that is frozen keeps its quantity.
LEMMA FrozenStays ==
  ASSUME OrderTypes, OneExit, NEW o \in Orders, o[2] = "entry", Freeze(o), UNCHANGED work
  PROVE  OneExit'
<1>1. CASE ~IsOpen(o)
  <2>1. UNCHANGED order
    BY <1>1 DEF Freeze, OrderTypes, State
  <2>. QED
    BY <2>1, RoundsStay
<1>2. CASE IsOpen(o)
  <2>. DEFINE n == o[1]
  <2>1. n \in 1..Rounds /\ o = <<n, "entry">>
    BY DEF Orders
  <2>2. /\ order'[o].status = "CANCELED"
        /\ \A p \in Orders : p # o => order'[p] = order[p]
    BY <1>2 DEF Freeze, OrderTypes, State
  <2>. HIDE DEF n
  <2>3. \A k \in Kinds : k # "entry" => order'[<<n, k>>] = order[<<n, k>>]
    BY <2>1, <2>2, OrderIds
  <2>4. order[<<n, "leg">>].status = "none"
    BY <1>2, <2>1 DEF OneExit, OneExitOf, IsOpen, Open, Dead
  <2>5. OneExitOf(n)'
    BY <1>2, <2>1, <2>2, <2>3, <2>4 DEF OneExit, OneExitOf, Exits, Kinds, Filled, IsOpen, Open
  <2>6. \A m \in 1..Rounds : m # n => OneExitOf(m)'
    <3>1. \A p \in Orders : p[1] # n => order'[p] = order[p]
      BY <2>1, <2>2
    <3>. QED
      BY <3>1, OthersStay
  <2>. QED
    BY <2>5, <2>6 DEF OneExit
<1>. QED
  BY <1>1, <1>2

LEMMA TableStays ==
  ASSUME UNCHANGED events
  PROVE  EventsStay
BY DEF EventsStay, Told, Looked

LEMMA StoredStays ==
  ASSUME AuditTypes, NEW e \in Event, NEW found \in Nat, Looked(found, e), Store(e, found)
  PROVE  EventsStay
<1>1. /\ Len(events) \in Nat /\ Len(events') \in Nat /\ Len(events') >= Len(events)
      /\ \A i \in 1..Len(events) : events'[i] = events[i] \/ (events'[i] = e /\ SameFill(events[i], e))
  BY StoreTypes DEF AuditTypes
<1>2. \A i \in 1..Len(events) : i \in 1..Len(events')
  BY <1>1
<1>3. ASSUME NEW n \in 1..Rounds, Told(n) PROVE Told(n)'
  BY <1>1, <1>2, <1>3 DEF Told, SameFill
<1>4. ASSUME NEW k, NEW f, Looked(k, f) PROVE Looked(k, f)'
  BY <1>1, <1>2, <1>4 DEF Looked, SameFill
<1>. QED
  BY <1>3, <1>4 DEF EventsStay

\* The feed stays where it is, with the same event in hand.
LEMMA HandStays ==
  ASSUME EventInHand, UNCHANGED feed, feed.pc # "off" => tasks',
         Busy => wire' # <<>> /\ Head(wire') = Head(wire), EventsStay
  PROVE  EventInHand'
<1>1. feed.pc = "store" => Looked(feed.found, Head(wire))'
  <2>1. ASSUME feed.pc = "store" PROVE Looked(feed.found, Head(wire))'
    <3>. DEFINE k == feed.found
                f == Head(wire)
    <3>1. k' = k /\ f' = f /\ Looked(k, f)
      BY <2>1 DEF EventInHand, Busy
    <3>2. \A j, e : Looked(j, e) => Looked(j, e)'
      BY DEF EventsStay
    <3>3. PICK j, e : j = k /\ e = f
      OBVIOUS
    <3>4. Looked(j, e)'
      BY <3>1, <3>2, <3>3
    <3>. QED
      BY <3>1, <3>3, <3>4 DEF Looked
  <2>. QED
    BY <2>1
<1>. QED
  BY <1>1 DEF EventInHand, Busy

LEMMA TurnKeepsHead ==
  ASSUME AuditTypes, OrderTypes, EventInHand, UNCHANGED <<feed, tasks, events>>,
         NEW o \in Orders, NEW status \in {"PARTIALLY_FILLED"} \cup Dead, NEW filled \in Nat,
         Turn(o, status, filled)
  PROVE  EventInHand'
<1>1. Busy => wire' # <<>> /\ Head(wire') = Head(wire)
  <2>1. ASSUME wire # <<>> PROVE wire' # <<>> /\ Head(wire') = Head(wire)
    <3>1. /\ wire \in Seq(Event) /\ wire' \in Seq(Event) /\ Len(wire') >= Len(wire)
          /\ \A i \in 1..Len(wire) : wire'[i] = wire[i]
      BY TurnSends DEF AuditTypes
    <3>2. 1 \in 1..Len(wire) /\ 1 \in 1..Len(wire')
      BY <2>1, <3>1
    <3>. QED
      BY <3>1, <3>2
  <2>. QED
    BY <2>1 DEF EventInHand
<1>. QED
  BY <1>1, HandStays, TableStays DEF EventInHand

\* A request stays where it is.
LEMMA WayStays ==
  ASSUME OrderTypes, AuditTypes, OrderMoves, ExitsOnTheirWay, UNCHANGED poll, EventsStay
  PROVE  ExitsOnTheirWay'
<1>1. \A o \in Orders : order[o].status = "FILLED" => order'[o] = order[o]
  BY SentStays DEF Dead
<1>2. ASSUME NEW o \in Orders, order[o].status = "FILLED", poll.pc = "store", Looked(poll.found, Copy(o))
      PROVE  Looked(poll.found, Copy(o))'
  <2>1. PICK k, e : k = poll.found /\ e = Copy(o)
    OBVIOUS
  <2>2. k = poll'.found /\ e = Copy(o)'
    BY <1>1, <1>2, <2>1 DEF Copy
  <2>3. Looked(k, e)'
    BY <1>2, <2>1 DEF EventsStay
  <2>. QED
    BY <2>2, <2>3 DEF Looked
<1>3. ASSUME poll.pc \in {"look", "store"}
      PROVE  (\E o \in Orders : /\ poll.at = {o} /\ order[o].status = "FILLED"
                                /\ poll.pc = "store" => Looked(poll.found, Copy(o)))'
  <2>1. PICK o \in Orders : /\ poll.at = {o} /\ order[o].status = "FILLED"
                            /\ poll.pc = "store" => Looked(poll.found, Copy(o))
    BY <1>3 DEF ExitsOnTheirWay
  <2>. QED
    BY <1>1, <1>2, <2>1
<1>4. \A n \in 1..Rounds : order[<<n, "leg">>].status = "FILLED" => order'[<<n, "leg">>].status = "FILLED"
  BY <1>1, OrderIds DEF Kinds
<1>5. \A n \in poll.due : n \in 1..Rounds
  BY DEF AuditTypes, Polls
<1>. QED
  BY <1>3, <1>4, <1>5 DEF ExitsOnTheirWay, EventsStay

\* An exit that explains its entry is in the table: it is the bracket's, if
\* that has fired.
LEMMA RelatedIsTold ==
  ASSUME AuditTypes, NothingInvented, RowsFollow, OneExit, NEW n \in 1..Rounds,
         order[<<n, "leg">>].status = "FILLED", ~Mistaken(n), ~PartExplains(n), n \in Related
  PROVE  Told(n)
<1>1. PICK o \in Listed : o[2] # "entry" /\ RelatedTo(o) = n /\ o[1] = n
  BY DEF Related, Mistaken
<1>2. \A p \in InEvents : \E i \in 1..Len(events) : events[i].order = p /\ events[i].status = "FILLED"
  BY DEF InEvents, Kept, Final
<1>3. \A i \in 1..Len(events) : events[i] \in Event
  BY DEF AuditTypes
<1>4. o \in Orders
  BY <1>2, <1>3 DEF Listed, Fallback, Event
<1>5. o \in Fallback => o[2] = "leg"
  BY <1>1 DEF RelatedTo
<1>6. o \in InEvents
  <2>1. <<n, "leg">> \notin Fallback
    BY DEF RowsFollow, Fallback, None
  <2>2. o[2] = "leg" => o = <<n, "leg">>
    BY <1>1, <1>4 DEF Orders
  <2>. QED
    BY <1>1, <1>5, <2>1, <2>2 DEF Listed
<1>7. PICK i \in 1..Len(events) : events[i].order = o /\ events[i].status = "FILLED"
  BY <1>2, <1>6
<1>8. order[o].status = "FILLED"
  BY <1>7 DEF NothingInvented, Behind, Dead
<1>9. o = <<n, o[2]>> /\ o[2] \in Exits
  BY <1>1, <1>4 DEF Orders, Exits
<1>10. o[2] = "leg"
  <2>1. o[2] # "model"
    BY <1>1, <1>6, <1>9 DEF PartExplains
  <2>2. o[2] # "manual"
    BY <1>8, <1>9 DEF OneExit, OneExitOf
  <2>. QED
    BY <1>9, <2>1, <2>2, ExitKinds
<1>. QED
  BY <1>7, <1>9, <1>10 DEF Told

----------------------------------------------------------------------------
\* The invariant is kept, part by part.

\* Every order moves as an order may: fills add up, and what is dead stays as it is.
LEMMA OrdersMove ==
  ASSUME OrderTypes, AuditTypes, OneOrder, OneExit, EventInHand, [Next]_vars
  PROVE  OrderMoves
<1>1. CASE UNCHANGED vars
  BY <1>1, NoneMoves DEF vars, feedVars
<1>2. ASSUME NEW n \in 1..Rounds, EntryFills(n), UNCHANGED <<engineVars, poll>>
      PROVE  OrderMoves
  <2>1. <<n, "entry">> \in Orders /\ Filled(n, "entry") \in Nat
    BY OrderIds DEF OrderTypes, State, Filled, Kinds
  <2>2. PICK k \in (Filled(n, "entry") + 1)..Size :
          Turn(<<n, "entry">>, IF k = Size THEN "FILLED" ELSE "PARTIALLY_FILLED", k)
    BY <1>2 DEF EntryFills
  <2>3. IsOpen(<<n, "entry">>) /\ k \in Nat /\ k > order[<<n, "entry">>].filled
    BY <1>2, <2>1, FeedAssumption DEF EntryFills, Filled
  <2>. DEFINE status == IF k = Size THEN "FILLED" ELSE "PARTIALLY_FILLED"
  <2>4. status \in {"PARTIALLY_FILLED"} \cup Dead /\ Turn(<<n, "entry">>, status, k)
    BY <2>2 DEF Open, Dead
  <2>5. k >= order[<<n, "entry">>].filled /\ (status = "FILLED" => k > order[<<n, "entry">>].filled)
    BY <2>1, <2>3 DEF Filled
  <2>. HIDE DEF status
  <2>. QED
    BY <2>1, <2>3, <2>4, <2>5, TurnMoves
<1>3. ASSUME NEW n \in 1..Rounds, LegFires(n), UNCHANGED <<engineVars, poll>>
      PROVE  OrderMoves
  <2>1. <<n, "leg">> \in Orders
    BY OrderIds DEF Kinds
  <2>2. IsOpen(<<n, "leg">>) /\ Held(n) > 0 /\ Turn(<<n, "leg">>, "FILLED", Held(n))
    BY <1>3 DEF LegFires
  <2>3. order[<<n, "leg">>].filled = 0
    BY <2>2 DEF OneExit, OneExitOf, IsOpen, Filled
  <2>4. Held(n) \in Nat
    BY <2>2, HeldTypes
  <2>5. "FILLED" \in {"PARTIALLY_FILLED"} \cup Dead /\ Held(n) >= order[<<n, "leg">>].filled /\ Held(n) > order[<<n, "leg">>].filled
    BY <2>2, <2>3, <2>4 DEF Dead
  <2>. QED
    BY <2>1, <2>2, <2>4, <2>5, TurnMoves
<1>4. ASSUME NEW n \in 1..Rounds, ModelFills(n), UNCHANGED <<engineVars, poll>>
      PROVE  OrderMoves
  <2>1. <<n, "model">> \in Orders /\ Filled(n, "model") \in Nat /\ Held(n) \in Int
    BY OrderIds, HeldTypes DEF Kinds
  <2>2. IsOpen(<<n, "model">>) /\ order[<<n, "model">>].filled = Filled(n, "model")
    BY <1>4 DEF ModelFills, Filled
  <2>3. CASE \E k \in 1..Held(n), status \in {"FILLED", "PARTIALLY_FILLED"} :
               Turn(<<n, "model">>, status, Filled(n, "model") + k)
    <3>1. PICK k \in 1..Held(n), status \in {"FILLED", "PARTIALLY_FILLED"} :
            Turn(<<n, "model">>, status, Filled(n, "model") + k)
      BY <2>3
    <3>2. Filled(n, "model") + k \in Nat /\ Filled(n, "model") + k > Filled(n, "model")
      BY <2>1
    <3>. QED
      BY <2>1, <2>2, <3>1, <3>2, TurnMoves DEF Open, Dead
  <2>4. CASE Turn(<<n, "model">>, "CANCELED", Filled(n, "model"))
    BY <2>1, <2>2, <2>4, TurnMoves DEF Dead
  <2>. QED
    BY <1>4, <2>3, <2>4 DEF ModelFills
<1>5. ASSUME Connect, UNCHANGED <<engineVars, poll>> PROVE OrderMoves
  BY <1>5, NoneMoves DEF Connect, feedVars, vars, engineVars
<1>6. ASSUME Disconnect, UNCHANGED <<engineVars, poll>> PROVE OrderMoves
  BY <1>6, NoneMoves DEF Disconnect, InHand, Busy, feedVars, vars, engineVars
<1>7. ASSUME Receive, UNCHANGED <<engineVars, poll>> PROVE OrderMoves
  BY <1>7, NoneMoves DEF Receive, feedVars, vars, engineVars
<1>8. ASSUME LookUp, UNCHANGED <<engineVars, poll>> PROVE OrderMoves
  BY <1>8, NoneMoves DEF LookUp, feedVars, vars, engineVars
<1>9. ASSUME StoreEvent, UNCHANGED <<engineVars, poll>> PROVE OrderMoves
  BY <1>9, NoneMoves DEF StoreEvent, Store, GoOn, feedVars, vars, engineVars
<1>10. ASSUME StoreFails, UNCHANGED <<engineVars, poll>> PROVE OrderMoves
  BY <1>10, NoneMoves DEF StoreFails, GoOn, feedVars, vars, engineVars
<1>11. ASSUME Handle, UNCHANGED <<engineVars, poll>> PROVE OrderMoves
  <2>1. Head(wire).order \in Orders /\ Freeze(Head(wire).order)
    BY <1>11, HeadIsEvent DEF Handle, EventInHand, Busy
  <2>. QED
    BY <2>1, FreezeMoves
<1>12. ASSUME HandleFails, UNCHANGED <<engineVars, poll>> PROVE OrderMoves
  <2>1. Head(wire).order \in Orders
    BY <1>12, HeadIsEvent DEF HandleFails, EventInHand, Busy
  <2>2. Freeze(Head(wire).order) \/ order' = order
    BY <1>12 DEF HandleFails
  <2>. QED
    BY <2>1, <2>2, FreezeMoves, NoneMoves
<1>13. ASSUME Start PROVE OrderMoves
  BY <1>13, NoneMoves DEF Start, feedVars, vars, engineVars
<1>14. ASSUME CancelRemainder PROVE OrderMoves
  <2>1. work.order \in Orders /\ order[work.order].filled \in Nat /\ IsOpen(work.order)
    BY <1>14 DEF CancelRemainder, AuditTypes, Works, OrderTypes, State
  <2>. QED
    BY <1>14, <2>1, TurnMoves DEF CancelRemainder, Dead
<1>15. ASSUME Bracket PROVE OrderMoves
  <2>. DEFINE n == work.order[1]
  <2>1. n \in 1..Rounds /\ <<n, "leg">> \in Orders /\ order[<<n, "leg">>].status = "none"
    <3>1. n \in 1..Rounds
      BY <1>15 DEF Bracket, AuditTypes, Works, Orders
    <3>. QED
      BY <1>15, <3>1, OrderIds DEF Bracket, OneExit, OneExitOf, Exits, Kinds
  <2>2. order' = order \/ order' = [order EXCEPT ![<<n, "leg">>].status = "NEW"]
    BY <1>15 DEF Bracket
  <2>. QED
    BY <2>1, <2>2, SentMoves, NoneMoves
<1>16. ASSUME Answer PROVE OrderMoves
  BY <1>16, NoneMoves DEF Answer, feedVars, vars, engineVars
<1>17. ASSUME Record PROVE OrderMoves
  BY <1>17, NoneMoves DEF Record, feedVars, vars, engineVars
<1>18. ASSUME RecordFails PROVE OrderMoves
  BY <1>18, NoneMoves DEF RecordFails, Idle, feedVars, vars, engineVars
<1>19. ASSUME StopFeed PROVE OrderMoves
  BY <1>19, NoneMoves DEF StopFeed, Off, feedVars, vars, engineVars
<1>20. ASSUME CancelTasks PROVE OrderMoves
  BY <1>20, NoneMoves DEF CancelTasks, Idle, feedVars, vars, engineVars
<1>21. ASSUME NEW n \in 1..Rounds, PlaceEntry(n) PROVE OrderMoves
  <2>1. <<n, "entry">> \in Orders
    BY OrderIds DEF Kinds
  <2>2. order[<<n, "entry">>].status = "none"
    BY <1>21 DEF PlaceEntry, None
  <2>. QED
    BY <1>21, <2>1, <2>2, SentMoves DEF PlaceEntry
<1>22. ASSUME NEW n \in 1..Rounds, PlaceClose(n) PROVE OrderMoves
  <2>1. <<n, "model">> \in Orders
    BY OrderIds DEF Kinds
  <2>2. order[<<n, "model">>].status = "none"
    BY <1>22 DEF PlaceClose, None
  <2>. QED
    BY <1>22, <2>1, <2>2, SentMoves DEF PlaceClose
<1>23. ASSUME NEW n \in 1..Rounds, CloseManually(n) PROVE OrderMoves
  <2>. DEFINE leg    == <<n, "leg">>
              manual == <<n, "manual">>
              whole  == [status |-> "FILLED", filled |-> Held(n)]
              gone   == IF IsOpen(leg) THEN [order[leg] EXCEPT !.status = "CANCELED"] ELSE order[leg]
  <2>1. leg \in Orders /\ manual \in Orders /\ leg # manual
    BY OrderIds DEF Kinds
  <2>2. whole \in State /\ order[manual].status = "none"
    BY <1>23, HeldTypes DEF CloseManually, State, None, Dead
  <2>3. gone \in State /\ Moves(order[leg], gone) /\ (gone.status = "none" => gone.filled = 0)
    BY <2>1 DEF OrderTypes, State, Moves, IsOpen, Open, Dead
  <2>4. Moves(order[manual], whole)
    BY <2>2 DEF Moves
  <2>5. order' = [order EXCEPT ![manual] = whole, ![leg] = gone]
    BY <1>23 DEF CloseManually
  <2>. HIDE DEF whole, gone, leg, manual
  <2>6. /\ order' \in [Orders -> State] /\ order'[manual] = whole /\ order'[leg] = gone
        /\ \A p \in Orders : p # leg /\ p # manual => order'[p] = order[p]
    BY <2>1, <2>2, <2>3, <2>5 DEF OrderTypes
  <2>7. whole.status = "FILLED"
    BY DEF whole
  <2>8. \A p \in Orders : Moves(order[p], order'[p])
    BY <2>3, <2>4, <2>6 DEF Moves
  <2>9. \A p \in Orders : order'[p].status = "none" => order'[p].filled = 0
    BY <2>3, <2>6, <2>7 DEF OrderTypes
  <2>. QED
    BY <2>6, <2>8, <2>9 DEF OrderMoves, OrderTypes
<1>24. ASSUME BeginPoll PROVE OrderMoves
  BY <1>24, NoneMoves DEF BeginPoll, feedVars, vars, engineVars
<1>25. ASSUME ReadAccount PROVE OrderMoves
  BY <1>25, NoneMoves DEF ReadAccount, Ask, feedVars, vars, engineVars
<1>26. ASSUME AccountFails PROVE OrderMoves
  BY <1>26, NoneMoves DEF AccountFails, Ask, feedVars, vars, engineVars
<1>27. ASSUME StoreCopyFails PROVE OrderMoves
  BY <1>27, NoneMoves DEF StoreCopyFails, NoPoll, feedVars, vars, engineVars
<1>28. ASSUME EndPoll PROVE OrderMoves
  BY <1>28, NoneMoves DEF EndPoll, NoPoll, feedVars, vars, engineVars
<1>29. ASSUME NEW o \in Orders, FindFill(o) PROVE OrderMoves
  BY <1>29, NoneMoves DEF FindFill, feedVars, vars, engineVars
<1>30. ASSUME NEW o \in Orders, FindNothing(o) PROVE OrderMoves
  BY <1>30, NoneMoves DEF FindNothing, feedVars, vars, engineVars
<1>31. ASSUME NEW o \in Orders, LookUpCopy(o) PROVE OrderMoves
  BY <1>31, NoneMoves DEF LookUpCopy, feedVars, vars, engineVars
<1>32. ASSUME NEW o \in Orders, StoreCopy(o) PROVE OrderMoves
  BY <1>32, NoneMoves DEF StoreCopy, Store, feedVars, vars, engineVars
<1>. QED
  BY <1>1, <1>2, <1>3, <1>4, <1>5, <1>6, <1>7, <1>8, <1>9, <1>10, <1>11, <1>12, <1>13, <1>14,
     <1>15, <1>16, <1>17, <1>18, <1>19, <1>20, <1>21, <1>22, <1>23, <1>24, <1>25, <1>26, <1>27,
     <1>28, <1>29, <1>30, <1>31, <1>32
     DEF Next, Exchange, Stream, Engine, Fills

\* The tables keep their types.
LEMMA AuditTypesStep ==
  ASSUME OrderTypes, AuditTypes, OneOrder, NothingInvented, EventInHand, ExitsOnTheirWay, [Next]_vars
  PROVE  AuditTypes'
<1>1. CASE UNCHANGED vars
  BY <1>1 DEF vars, feedVars, engineVars, AuditTypes
<1>2. ASSUME NEW n \in 1..Rounds, EntryFills(n), UNCHANGED <<engineVars, poll>>
      PROVE  AuditTypes'
  <2>1. <<n, "entry">> \in Orders /\ Filled(n, "entry") \in Nat
    BY OrderIds, HeldTypes DEF Kinds
  <2>2. PICK k \in (Filled(n, "entry") + 1)..Size :
          Turn(<<n, "entry">>, IF k = Size THEN "FILLED" ELSE "PARTIALLY_FILLED", k)
    BY <1>2 DEF EntryFills
  <2>. DEFINE status == IF k = Size THEN "FILLED" ELSE "PARTIALLY_FILLED"
  <2>3. status \in {"PARTIALLY_FILLED"} \cup Dead /\ Turn(<<n, "entry">>, status, k) /\ k \in Nat
    BY <2>1, <2>2, FeedAssumption DEF Open, Dead
  <2>. HIDE DEF status
  <2>4. wire' \in Seq(Event)
    BY <2>1, <2>3, TurnSends
  <2>. QED
    BY <1>2, <2>4 DEF EntryFills, AuditTypes, engineVars
<1>3. ASSUME NEW n \in 1..Rounds, LegFires(n), UNCHANGED <<engineVars, poll>>
      PROVE  AuditTypes'
  <2>1. <<n, "leg">> \in Orders /\ Held(n) \in Int
    BY OrderIds, HeldTypes DEF Kinds
  <2>2. Held(n) \in Nat /\ Turn(<<n, "leg">>, "FILLED", Held(n))
    BY <1>3, <2>1 DEF LegFires
  <2>3. wire' \in Seq(Event)
    BY <2>1, <2>2, TurnSends DEF Dead
  <2>. QED
    BY <1>3, <2>3 DEF LegFires, AuditTypes, engineVars
<1>4. ASSUME NEW n \in 1..Rounds, ModelFills(n), UNCHANGED <<engineVars, poll>>
      PROVE  AuditTypes'
  <2>1. <<n, "model">> \in Orders /\ Filled(n, "model") \in Nat /\ Held(n) \in Int
    BY OrderIds, HeldTypes DEF Kinds
  <2>2. PICK status \in {"PARTIALLY_FILLED"} \cup Dead, filled \in Nat : Turn(<<n, "model">>, status, filled)
    BY <1>4, <2>1 DEF ModelFills, Open, Dead
  <2>3. wire' \in Seq(Event)
    BY <2>1, <2>2, TurnSends
  <2>. QED
    BY <1>4, <2>3 DEF ModelFills, AuditTypes, engineVars
<1>5. ASSUME Connect, UNCHANGED <<engineVars, poll>> PROVE AuditTypes'
  BY <1>5 DEF AuditTypes, Places, Works, Polls, feedVars, vars, engineVars, Connect
<1>6. ASSUME Disconnect, UNCHANGED <<engineVars, poll>> PROVE AuditTypes'
  <2>1. PICK k \in InHand..Len(wire) : wire' = SubSeq(wire, 1, k)
    BY <1>6 DEF Disconnect
  <2>2. InHand \in {0, 1} /\ k \in Nat /\ k <= Len(wire) /\ wire \in Seq(Event)
    BY DEF InHand, AuditTypes
  <2>3. wire' \in Seq(Event)
    BY <2>1, <2>2
  <2>. QED
    BY <1>6, <2>3 DEF Disconnect, AuditTypes, engineVars
<1>7. ASSUME Receive, UNCHANGED <<engineVars, poll>> PROVE AuditTypes'
  BY <1>7 DEF AuditTypes, Places, Works, Polls, feedVars, vars, engineVars, Receive
<1>8. ASSUME LookUp, UNCHANGED <<engineVars, poll>> PROVE AuditTypes'
  <2>1. feed' \in Places
    BY <1>8, PlaceForms, FoundTypes DEF LookUp, AuditTypes
  <2>. QED
    BY <1>8, <2>1 DEF LookUp, AuditTypes, feedVars, engineVars
<1>9. ASSUME StoreEvent, UNCHANGED <<engineVars, poll>> PROVE AuditTypes'
  <2>1. Head(wire) \in Event /\ Tail(wire) \in Seq(Event) /\ feed.found \in Nat
    BY <1>9, HeadIsEvent DEF StoreEvent, EventInHand, Busy, AuditTypes, Places
  <2>2. events' \in Seq(Event) /\ rows' \in [Orders -> State]
    BY <1>9, <2>1, StoreTypes DEF StoreEvent, EventInHand
  <2>3. feed' \in Places /\ wire' \in Seq(Event)
    BY <1>9, <2>1, PlaceForms DEF StoreEvent, GoOn, AuditTypes
  <2>. QED
    BY <1>9, <2>2, <2>3 DEF StoreEvent, AuditTypes, engineVars
<1>10. ASSUME StoreFails, UNCHANGED <<engineVars, poll>> PROVE AuditTypes'
  <2>1. Head(wire) \in Event /\ Tail(wire) \in Seq(Event)
    BY <1>10, HeadIsEvent DEF StoreFails, EventInHand, Busy
  <2>2. feed' \in Places /\ wire' \in Seq(Event)
    BY <1>10, <2>1, PlaceForms DEF StoreFails, GoOn, AuditTypes
  <2>. QED
    BY <1>10, <2>2 DEF StoreFails, AuditTypes, engineVars
<1>11. ASSUME Handle, UNCHANGED <<engineVars, poll>> PROVE AuditTypes'
  <2>. DEFINE o == Head(wire).order
              e == Live(o, "CANCELED", order[o].filled)
  <2>1. Head(wire) \in Event /\ Tail(wire) \in Seq(Event) /\ o \in Orders
    BY <1>11, HeadIsEvent DEF Handle, EventInHand, Busy
  <2>2. e \in Event
    BY <2>1 DEF OrderTypes, State, Live, Event, Dead
  <2>3. wire' \in {Append(Tail(wire), e), Tail(wire)}
    BY <1>11 DEF Handle
  <2>. HIDE DEF e
  <2>4. feed' \in Places /\ wire' \in Seq(Event)
    BY <1>11, <2>1, <2>2, <2>3, PlaceForms DEF Handle, AuditTypes
  <2>. QED
    BY <1>11, <2>4 DEF Handle, AuditTypes, engineVars
<1>12. ASSUME HandleFails, UNCHANGED <<engineVars, poll>> PROVE AuditTypes'
  <2>1. feed' \in Places /\ wire' \in Seq(Event)
    BY <1>12, PlaceForms DEF HandleFails, AuditTypes
  <2>. QED
    BY <1>12, <2>1 DEF HandleFails, AuditTypes, engineVars
<1>13. ASSUME Start PROVE AuditTypes'
  <2>1. feed' \in Places
    BY <1>13, PlaceForms DEF Start, AuditTypes
  <2>. QED
    BY <1>13, <2>1 DEF Start, AuditTypes, feedVars, engineVars
<1>14. ASSUME CancelRemainder PROVE AuditTypes'
  <2>1. work.order \in Orders /\ order[work.order].filled \in Nat
    BY DEF AuditTypes, Works, OrderTypes, State
  <2>2. wire' \in Seq(Event)
    BY <1>14, <2>1, TurnSends DEF CancelRemainder, Dead
  <2>. QED
    BY <1>14, <2>2 DEF CancelRemainder, AuditTypes, engineVars
<1>15. ASSUME Bracket PROVE AuditTypes'
  <2>. DEFINE o == order[work.order]
              r == IF o.status = "CANCELED" /\ o.filled > 0 THEN [o EXCEPT !.status = "PARTIALLY_FILLED"] ELSE o
  <2>1. o \in State
    BY DEF AuditTypes, Works, OrderTypes
  <2>2. r \in State
    BY <2>1 DEF State, Open
  <2>3. work' = [work EXCEPT !.stage = "record", !.report = r]
    BY <1>15 DEF Bracket
  <2>. HIDE DEF r
  <2>4. work' \in Works
    BY <2>2, <2>3, WorkForms DEF AuditTypes
  <2>. QED
    BY <1>15, <2>4 DEF Bracket, AuditTypes
<1>16. ASSUME Answer PROVE AuditTypes'
  <2>1. order[work.order] \in State
    BY DEF AuditTypes, Works, OrderTypes
  <2>2. work' \in Works
    BY <1>16, <2>1, WorkForms DEF Answer, AuditTypes
  <2>. QED
    BY <1>16, <2>2 DEF Answer, AuditTypes, feedVars
<1>17. ASSUME Record PROVE AuditTypes'
  <2>1. work.order \in Orders /\ work.report \in State
    BY DEF AuditTypes, Works
  <2>2. RowOf(work.order, work.report) \in State
    BY <1>17, <2>1, RowOfFollows DEF Record, NothingInvented
  <2>3. work' \in Works
    BY <1>17, WorkForms DEF Record, AuditTypes
  <2>4. rows' \in [Orders -> State]
    BY <1>17, <2>1, <2>2 DEF Record, AuditTypes
  <2>. QED
    BY <1>17, <2>3, <2>4 DEF Record, AuditTypes
<1>18. ASSUME RecordFails PROVE AuditTypes'
  <2>1. work' \in Works
    BY <1>18, WorkForms DEF RecordFails, AuditTypes, OrderTypes, Works
  <2>. QED
    BY <1>18, <2>1 DEF RecordFails, AuditTypes, feedVars, engineVars
<1>19. ASSUME StopFeed PROVE AuditTypes'
  <2>1. feed' \in Places
    BY <1>19, PlaceForms DEF StopFeed, AuditTypes
  <2>2. wire' \in Seq(Event)
    BY <1>19 DEF StopFeed
  <2>. QED
    BY <1>19, <2>1, <2>2 DEF StopFeed, AuditTypes, feedVars, engineVars
<1>20. ASSUME CancelTasks PROVE AuditTypes'
  <2>1. work' \in Works
    BY <1>20, WorkForms DEF CancelTasks, AuditTypes, OrderTypes, Works
  <2>. QED
    BY <1>20, <2>1 DEF CancelTasks, AuditTypes, feedVars, engineVars
<1>21. ASSUME NEW n \in 1..Rounds, PlaceEntry(n) PROVE AuditTypes'
  <2>1. <<n, "entry">> \in Orders
    BY OrderIds DEF Kinds
  <2>2. work' \in Works
    BY <1>21, <2>1, WorkForms DEF PlaceEntry, AuditTypes
  <2>. QED
    BY <1>21, <2>1, <2>2 DEF PlaceEntry, AuditTypes, feedVars, engineVars
<1>22. ASSUME NEW n \in 1..Rounds, PlaceClose(n) PROVE AuditTypes'
  <2>1. <<n, "model">> \in Orders
    BY OrderIds DEF Kinds
  <2>2. work' \in Works
    BY <1>22, <2>1, WorkForms DEF PlaceClose, AuditTypes
  <2>. QED
    BY <1>22, <2>1, <2>2 DEF PlaceClose, AuditTypes, feedVars, engineVars
<1>23. ASSUME NEW n \in 1..Rounds, CloseManually(n) PROVE AuditTypes'
  <2>1. <<n, "manual">> \in Orders
    BY OrderIds DEF Kinds
  <2>2. [status |-> "FILLED", filled |-> Held(n)] \in State
    BY <1>23, HeldTypes DEF CloseManually, State, Dead
  <2>3. work' \in Works
    BY <1>23, <2>1, <2>2, WorkForms DEF CloseManually, AuditTypes
  <2>. QED
    BY <1>23, <2>1, <2>2, <2>3 DEF CloseManually, AuditTypes, feedVars, engineVars
<1>24. ASSUME BeginPoll PROVE AuditTypes'
  <2>1. Unexplained \in SUBSET (1..Rounds) /\ {o \in Fallback : o[2] = "manual"} \in SUBSET Orders
    BY DEF Unexplained, Fallback
  <2>2. poll' \in Polls
    BY <1>24, <2>1 DEF BeginPoll, AuditTypes, Polls
  <2>. QED
    BY <1>24, <2>2 DEF BeginPoll, AuditTypes, feedVars, engineVars
<1>25. ASSUME ReadAccount PROVE AuditTypes'
  <2>1. ASSUME NEW flat \in BOOLEAN, Ask(flat) PROVE poll' \in Polls
    <3>. DEFINE todo == poll.todo \cup (IF flat THEN {<<n, "leg">> : n \in poll.exits} ELSE {})
    <3>1. todo \in SUBSET Orders
      BY OrderIds DEF AuditTypes, Polls, Kinds
    <3>2. poll' = [poll EXCEPT !.pc = "ask", !.exits = {}, !.todo = todo, !.due = IF flat THEN @ ELSE {}]
      BY <2>1 DEF Ask
    <3>. HIDE DEF todo
    <3>. QED
      BY <3>1, <3>2 DEF AuditTypes, Polls
  <2>2. Ask(Flat) /\ Flat \in BOOLEAN
    BY <1>25 DEF ReadAccount, Flat
  <2>. QED
    BY <1>25, <2>1, <2>2 DEF ReadAccount, AuditTypes, feedVars, engineVars
<1>26. ASSUME AccountFails PROVE AuditTypes'
  BY <1>26 DEF AuditTypes, Places, Works, Polls, feedVars, vars, engineVars, AccountFails, Ask
<1>27. ASSUME StoreCopyFails PROVE AuditTypes'
  BY <1>27 DEF AuditTypes, Places, Works, Polls, feedVars, vars, engineVars, StoreCopyFails, NoPoll
<1>28. ASSUME EndPoll PROVE AuditTypes'
  BY <1>28 DEF AuditTypes, Places, Works, Polls, feedVars, vars, engineVars, EndPoll, NoPoll
<1>29. ASSUME NEW o \in Orders, FindFill(o) PROVE AuditTypes'
  BY <1>29 DEF AuditTypes, Places, Works, Polls, feedVars, vars, engineVars, FindFill
<1>30. ASSUME NEW o \in Orders, FindNothing(o) PROVE AuditTypes'
  BY <1>30 DEF AuditTypes, Places, Works, Polls, feedVars, vars, engineVars, FindNothing
<1>31. ASSUME NEW o \in Orders, LookUpCopy(o) PROVE AuditTypes'
  <2>1. Found(Copy(o)) \in Nat
    BY FoundTypes
  <2>2. poll' \in Polls
    BY <1>31, <2>1 DEF LookUpCopy, AuditTypes, Polls
  <2>. QED
    BY <1>31, <2>2 DEF LookUpCopy, AuditTypes, feedVars, engineVars
<1>32. ASSUME NEW o \in Orders, StoreCopy(o) PROVE AuditTypes'
  <2>1. Copy(o) \in Event
    BY DEF Copy, Event, OrderTypes, State, Dead
  <2>2. poll.found \in Nat /\ Looked(poll.found, Copy(o))
    BY <1>32 DEF StoreCopy, AuditTypes, Polls, ExitsOnTheirWay
  <2>3. events' \in Seq(Event) /\ rows' \in [Orders -> State]
    BY <1>32, <2>1, <2>2, StoreTypes DEF StoreCopy
  <2>4. poll' \in Polls
    BY <1>32 DEF StoreCopy, AuditTypes, Polls
  <2>. QED
    BY <1>32, <2>3, <2>4 DEF StoreCopy, AuditTypes, engineVars
<1>. QED
  BY <1>1, <1>2, <1>3, <1>4, <1>5, <1>6, <1>7, <1>8, <1>9, <1>10, <1>11, <1>12, <1>13, <1>14,
     <1>15, <1>16, <1>17, <1>18, <1>19, <1>20, <1>21, <1>22, <1>23, <1>24, <1>25, <1>26, <1>27,
     <1>28, <1>29, <1>30, <1>31, <1>32
     DEF Next, Exchange, Stream, Engine, Fills

\* What is sent is what was there or tells of an order as it is now.
LEMMA WireTold ==
  ASSUME OrderTypes, AuditTypes, EventInHand, OrderMoves, [Next]_vars
  PROVE  WireMoves
<1>1. CASE UNCHANGED vars
  BY <1>1 DEF vars, feedVars, WireMoves
<1>2. ASSUME NEW n \in 1..Rounds, EntryFills(n), UNCHANGED <<engineVars, poll>>
      PROVE  WireMoves
  <2>1. <<n, "entry">> \in Orders /\ Filled(n, "entry") \in Nat
    BY OrderIds, HeldTypes DEF Kinds
  <2>2. PICK k \in (Filled(n, "entry") + 1)..Size :
          Turn(<<n, "entry">>, IF k = Size THEN "FILLED" ELSE "PARTIALLY_FILLED", k)
    BY <1>2 DEF EntryFills
  <2>. DEFINE status == IF k = Size THEN "FILLED" ELSE "PARTIALLY_FILLED"
  <2>3. status \in {"PARTIALLY_FILLED"} \cup Dead /\ Turn(<<n, "entry">>, status, k) /\ k \in Nat
    BY <2>1, <2>2, FeedAssumption DEF Open, Dead
  <2>. HIDE DEF status
  <2>. QED
    BY <2>1, <2>3, TurnTells
<1>3. ASSUME NEW n \in 1..Rounds, LegFires(n), UNCHANGED <<engineVars, poll>>
      PROVE  WireMoves
  <2>1. <<n, "leg">> \in Orders /\ Held(n) \in Int
    BY OrderIds, HeldTypes DEF Kinds
  <2>2. Held(n) \in Nat /\ Turn(<<n, "leg">>, "FILLED", Held(n))
    BY <1>3, <2>1 DEF LegFires
  <2>. QED
    BY <2>1, <2>2, TurnTells DEF Dead
<1>4. ASSUME NEW n \in 1..Rounds, ModelFills(n), UNCHANGED <<engineVars, poll>>
      PROVE  WireMoves
  <2>1. <<n, "model">> \in Orders /\ Filled(n, "model") \in Nat /\ Held(n) \in Int
    BY OrderIds, HeldTypes DEF Kinds
  <2>2. PICK status \in {"PARTIALLY_FILLED"} \cup Dead, filled \in Nat : Turn(<<n, "model">>, status, filled)
    BY <1>4, <2>1 DEF ModelFills, Open, Dead
  <2>. QED
    BY <2>1, <2>2, TurnTells
<1>5. ASSUME Connect, UNCHANGED <<engineVars, poll>> PROVE WireMoves
  BY <1>5 DEF Connect, WireMoves, feedVars, vars, engineVars
<1>6. ASSUME Disconnect, UNCHANGED <<engineVars, poll>> PROVE WireMoves
  <2>1. PICK k \in InHand..Len(wire) : wire' = SubSeq(wire, 1, k)
    BY <1>6 DEF Disconnect
  <2>2. InHand \in {0, 1} /\ k \in Nat /\ k <= Len(wire) /\ wire \in Seq(Event)
    BY DEF InHand, AuditTypes
  <2>3. Len(wire') = k /\ \A i \in 1..k : wire'[i] = wire[i] /\ i \in 1..Len(wire)
    BY <2>1, <2>2
  <2>. QED
    BY <2>3 DEF WireMoves
<1>7. ASSUME Receive, UNCHANGED <<engineVars, poll>> PROVE WireMoves
  BY <1>7 DEF Receive, WireMoves, feedVars, vars, engineVars
<1>8. ASSUME LookUp, UNCHANGED <<engineVars, poll>> PROVE WireMoves
  BY <1>8 DEF LookUp, WireMoves, feedVars, vars, engineVars
<1>9. ASSUME StoreEvent, UNCHANGED <<engineVars, poll>> PROVE WireMoves
  <2>1. wire # <<>> /\ wire' \in {wire, Tail(wire)}
    BY <1>9 DEF StoreEvent, EventInHand, Busy, GoOn
  <2>2. \A i \in 1..Len(Tail(wire)) : \E j \in 1..Len(wire) : Tail(wire)[i] = wire[j]
    BY <2>1, TailFrom DEF AuditTypes
  <2>. QED
    BY <2>1, <2>2 DEF WireMoves
<1>10. ASSUME StoreFails, UNCHANGED <<engineVars, poll>> PROVE WireMoves
  <2>1. wire # <<>> /\ wire' \in {wire, Tail(wire)}
    BY <1>10 DEF StoreFails, EventInHand, Busy, GoOn
  <2>2. \A i \in 1..Len(Tail(wire)) : \E j \in 1..Len(wire) : Tail(wire)[i] = wire[j]
    BY <2>1, TailFrom DEF AuditTypes
  <2>. QED
    BY <2>1, <2>2 DEF WireMoves
<1>11. ASSUME Handle, UNCHANGED <<engineVars, poll>> PROVE WireMoves
  <2>. DEFINE o == Head(wire).order
              e == Live(o, "CANCELED", order[o].filled)
  <2>1. wire # <<>> /\ o \in Orders /\ Tail(wire) \in Seq(Event)
    BY <1>11, HeadIsEvent DEF Handle, EventInHand, Busy
  <2>2. \A i \in 1..Len(Tail(wire)) : \E j \in 1..Len(wire) : Tail(wire)[i] = wire[j]
    BY <2>1, TailFrom DEF AuditTypes
  <2>3. CASE IsOpen(o) /\ connected
    <3>1. order'[o].status = "CANCELED" /\ order'[o].filled = order[o].filled /\ order[o].filled \in Nat
      BY <1>11, <2>1, <2>3 DEF Handle, Freeze, OrderTypes, State
    <3>2. e.order = o /\ Behind(e, order'[o])
      BY <3>1, BehindItself DEF Live
    <3>. HIDE DEF e
    <3>3. wire' = Append(Tail(wire), e)
      BY <1>11, <2>3 DEF Handle, e
    <3>4. \A i \in 1..Len(wire') : (i \in 1..Len(Tail(wire)) /\ wire'[i] = Tail(wire)[i]) \/ wire'[i] = e
      BY <2>1, <3>3
    <3>. QED
      BY <2>2, <3>2, <3>4 DEF WireMoves
  <2>4. CASE ~(IsOpen(o) /\ connected)
    <3>1. wire' = Tail(wire)
      BY <1>11, <2>4 DEF Handle
    <3>. QED
      BY <2>2, <3>1 DEF WireMoves
  <2>. QED
    BY <2>3, <2>4
<1>12. ASSUME HandleFails, UNCHANGED <<engineVars, poll>> PROVE WireMoves
  <2>1. wire' = <<>>
    BY <1>12 DEF HandleFails
  <2>2. 1..Len(wire') = {}
    BY <2>1
  <2>. QED
    BY <2>2 DEF WireMoves
<1>13. ASSUME Start PROVE WireMoves
  BY <1>13 DEF Start, WireMoves, feedVars, vars, engineVars
<1>14. ASSUME CancelRemainder PROVE WireMoves
  <2>1. work.order \in Orders /\ order[work.order].filled \in Nat
    BY DEF AuditTypes, Works, OrderTypes, State
  <2>. QED
    BY <1>14, <2>1, TurnTells DEF CancelRemainder, Dead
<1>15. ASSUME Bracket PROVE WireMoves
  BY <1>15 DEF Bracket, WireMoves, feedVars, vars, engineVars
<1>16. ASSUME Answer PROVE WireMoves
  BY <1>16 DEF Answer, WireMoves, feedVars, vars, engineVars
<1>17. ASSUME Record PROVE WireMoves
  BY <1>17 DEF Record, WireMoves, feedVars, vars, engineVars
<1>18. ASSUME RecordFails PROVE WireMoves
  BY <1>18 DEF RecordFails, Idle, WireMoves, feedVars, vars, engineVars
<1>19. ASSUME StopFeed PROVE WireMoves
  <2>1. wire' = <<>>
    BY <1>19 DEF StopFeed
  <2>2. 1..Len(wire') = {}
    BY <2>1
  <2>. QED
    BY <2>2 DEF WireMoves
<1>20. ASSUME CancelTasks PROVE WireMoves
  BY <1>20 DEF CancelTasks, Idle, WireMoves, feedVars, vars, engineVars
<1>21. ASSUME NEW n \in 1..Rounds, PlaceEntry(n) PROVE WireMoves
  BY <1>21 DEF PlaceEntry, WireMoves, feedVars, vars, engineVars
<1>22. ASSUME NEW n \in 1..Rounds, PlaceClose(n) PROVE WireMoves
  BY <1>22 DEF PlaceClose, WireMoves, feedVars, vars, engineVars
<1>23. ASSUME NEW n \in 1..Rounds, CloseManually(n) PROVE WireMoves
  BY <1>23 DEF CloseManually, WireMoves, feedVars, vars, engineVars
<1>24. ASSUME BeginPoll PROVE WireMoves
  BY <1>24 DEF BeginPoll, WireMoves, feedVars, vars, engineVars
<1>25. ASSUME ReadAccount PROVE WireMoves
  BY <1>25 DEF ReadAccount, Ask, WireMoves, feedVars, vars, engineVars
<1>26. ASSUME AccountFails PROVE WireMoves
  BY <1>26 DEF AccountFails, Ask, WireMoves, feedVars, vars, engineVars
<1>27. ASSUME StoreCopyFails PROVE WireMoves
  BY <1>27 DEF StoreCopyFails, NoPoll, WireMoves, feedVars, vars, engineVars
<1>28. ASSUME EndPoll PROVE WireMoves
  BY <1>28 DEF EndPoll, NoPoll, WireMoves, feedVars, vars, engineVars
<1>29. ASSUME NEW o \in Orders, FindFill(o) PROVE WireMoves
  BY <1>29 DEF FindFill, WireMoves, feedVars, vars, engineVars
<1>30. ASSUME NEW o \in Orders, FindNothing(o) PROVE WireMoves
  BY <1>30 DEF FindNothing, WireMoves, feedVars, vars, engineVars
<1>31. ASSUME NEW o \in Orders, LookUpCopy(o) PROVE WireMoves
  BY <1>31 DEF LookUpCopy, WireMoves, feedVars, vars, engineVars
<1>32. ASSUME NEW o \in Orders, StoreCopy(o) PROVE WireMoves
  BY <1>32 DEF StoreCopy, Store, WireMoves, feedVars, vars, engineVars
<1>. QED
  BY <1>1, <1>2, <1>3, <1>4, <1>5, <1>6, <1>7, <1>8, <1>9, <1>10, <1>11, <1>12, <1>13, <1>14,
     <1>15, <1>16, <1>17, <1>18, <1>19, <1>20, <1>21, <1>22, <1>23, <1>24, <1>25, <1>26, <1>27,
     <1>28, <1>29, <1>30, <1>31, <1>32
     DEF Next, Exchange, Stream, Engine, Fills

\* Nothing that is sent, stored or reported is invented.
LEMMA NothingInventedStep ==
  ASSUME OrderTypes, AuditTypes, NothingInvented, RowsFollow, OneOrder, EventInHand,
         ExitsOnTheirWay, OrderMoves, WireMoves, [Next]_vars
  PROVE  NothingInvented'
<1>1. CASE UNCHANGED vars
  BY <1>1, WireTrue, StaysTrue DEF vars, feedVars, engineVars, NothingInvented
<1>2. ASSUME NEW n \in 1..Rounds, EntryFills(n), UNCHANGED <<engineVars, poll>>
      PROVE  NothingInvented'
  <2>1. UNCHANGED <<events, work>>
    BY <1>2 DEF EntryFills, engineVars
  <2>. QED
    BY <2>1, WireTrue, StaysTrue DEF NothingInvented
<1>3. ASSUME NEW n \in 1..Rounds, LegFires(n), UNCHANGED <<engineVars, poll>>
      PROVE  NothingInvented'
  <2>1. UNCHANGED <<events, work>>
    BY <1>3 DEF LegFires, engineVars
  <2>. QED
    BY <2>1, WireTrue, StaysTrue DEF NothingInvented
<1>4. ASSUME NEW n \in 1..Rounds, ModelFills(n), UNCHANGED <<engineVars, poll>>
      PROVE  NothingInvented'
  <2>1. UNCHANGED <<events, work>>
    BY <1>4 DEF ModelFills, engineVars
  <2>. QED
    BY <2>1, WireTrue, StaysTrue DEF NothingInvented
<1>5. ASSUME Connect, UNCHANGED <<engineVars, poll>> PROVE NothingInvented'
  <2>1. UNCHANGED <<events, work>>
    BY <1>5 DEF Connect, engineVars
  <2>. QED
    BY <2>1, WireTrue, StaysTrue DEF NothingInvented
<1>6. ASSUME Disconnect, UNCHANGED <<engineVars, poll>> PROVE NothingInvented'
  <2>1. UNCHANGED <<events, work>>
    BY <1>6 DEF Disconnect, engineVars
  <2>. QED
    BY <2>1, WireTrue, StaysTrue DEF NothingInvented
<1>7. ASSUME Receive, UNCHANGED <<engineVars, poll>> PROVE NothingInvented'
  <2>1. UNCHANGED <<events, work>>
    BY <1>7 DEF Receive, engineVars
  <2>. QED
    BY <2>1, WireTrue, StaysTrue DEF NothingInvented
<1>8. ASSUME LookUp, UNCHANGED <<engineVars, poll>> PROVE NothingInvented'
  <2>1. UNCHANGED <<events, work>>
    BY <1>8 DEF LookUp, engineVars
  <2>. QED
    BY <2>1, WireTrue, StaysTrue DEF NothingInvented
<1>9. ASSUME StoreEvent, UNCHANGED <<engineVars, poll>> PROVE NothingInvented'
  <2>1. Head(wire) \in Event /\ Head(wire) = wire[1] /\ wire # <<>> /\ feed.found \in Nat
    BY <1>9, HeadIsEvent DEF StoreEvent, EventInHand, Busy, AuditTypes, Places
  <2>2. Behind(Head(wire), order'[Head(wire).order])
    <3>1. 1 \in 1..Len(wire)
      BY <2>1 DEF AuditTypes
    <3>. QED
      BY <2>1, <3>1, StaysTrue
  <2>3. \A i \in 1..Len(events') : Behind(events'[i], order'[events'[i].order])
    BY <1>9, <2>1, <2>2, StoreTells DEF StoreEvent, EventInHand
  <2>4. UNCHANGED work
    BY <1>9 DEF engineVars
  <2>. QED
    BY <2>3, <2>4, WireTrue, StaysTrue DEF NothingInvented
<1>10. ASSUME StoreFails, UNCHANGED <<engineVars, poll>> PROVE NothingInvented'
  <2>1. UNCHANGED <<events, work>>
    BY <1>10 DEF StoreFails, engineVars
  <2>. QED
    BY <2>1, WireTrue, StaysTrue DEF NothingInvented
<1>11. ASSUME Handle, UNCHANGED <<engineVars, poll>> PROVE NothingInvented'
  <2>1. UNCHANGED <<events, work>>
    BY <1>11 DEF Handle, engineVars
  <2>. QED
    BY <2>1, WireTrue, StaysTrue DEF NothingInvented
<1>12. ASSUME HandleFails, UNCHANGED <<engineVars, poll>> PROVE NothingInvented'
  <2>1. UNCHANGED <<events, work>>
    BY <1>12 DEF HandleFails, engineVars
  <2>. QED
    BY <2>1, WireTrue, StaysTrue DEF NothingInvented
<1>13. ASSUME Start PROVE NothingInvented'
  <2>1. UNCHANGED <<events, work>>
    BY <1>13 DEF Start, engineVars, feedVars
  <2>. QED
    BY <2>1, WireTrue, StaysTrue DEF NothingInvented
<1>14. ASSUME CancelRemainder PROVE NothingInvented'
  <2>1. UNCHANGED <<events, work>>
    BY <1>14 DEF CancelRemainder, engineVars
  <2>. QED
    BY <2>1, WireTrue, StaysTrue DEF NothingInvented
<1>15. ASSUME Bracket PROVE NothingInvented'
  <2>. DEFINE o == order[work.order]
              r == IF o.status = "CANCELED" /\ o.filled > 0 THEN [o EXCEPT !.status = "PARTIALLY_FILLED"] ELSE o
  <2>1. o \in State /\ o.status \in Dead /\ work.order \in Orders /\ work.order[2] = "entry"
    BY <1>15 DEF AuditTypes, Works, OrderTypes, Bracket, OneOrder
  <2>2. /\ r.filled = o.filled
        /\ r.status = o.status \/ (r.status = "PARTIALLY_FILLED" /\ o.status = "CANCELED")
    <3>1. \A s \in State : /\ [s EXCEPT !.status = "PARTIALLY_FILLED"].filled = s.filled
                           /\ [s EXCEPT !.status = "PARTIALLY_FILLED"].status = "PARTIALLY_FILLED"
      BY DEF State
    <3>. QED
      BY <2>1, <3>1
  <2>3. Behind(r, o)
    <3>. HIDE DEF r
    <3>. QED
      BY <2>1, <2>2 DEF Behind, State, Dead
  <2>4. order'[work.order] = o
    BY <1>15, <2>1 DEF Bracket, OrderTypes
  <2>5. work'.order = work.order /\ work'.report = r /\ UNCHANGED events
    BY <1>15 DEF Bracket, AuditTypes, Works
  <2>. HIDE DEF r, o
  <2>. QED
    BY <2>3, <2>4, <2>5, WireTrue, StaysTrue DEF NothingInvented
<1>16. ASSUME Answer PROVE NothingInvented'
  <2>1. UNCHANGED <<events, order>> /\ work'.order = work.order /\ work'.report = order[work.order]
    BY <1>16 DEF Answer, feedVars, AuditTypes, Works
  <2>2. Behind(order[work.order], order[work.order])
    <3>1. work.order \in Orders /\ order[work.order].status # "none" /\ order[work.order].filled \in Nat
      BY <1>16 DEF Answer, OneOrder, AuditTypes, Works, OrderTypes, State
    <3>. QED
      BY <3>1, BehindItself
  <2>. QED
    BY <2>1, <2>2, WireTrue, StaysTrue DEF NothingInvented
<1>17. ASSUME Record PROVE NothingInvented'
  <2>1. UNCHANGED events /\ work'.stage # "record"
    BY <1>17 DEF Record, Idle, feedVars
  <2>. QED
    BY <2>1, WireTrue, StaysTrue DEF NothingInvented
<1>18. ASSUME RecordFails PROVE NothingInvented'
  <2>1. UNCHANGED events /\ work'.stage # "record"
    BY <1>18 DEF RecordFails, Idle, feedVars
  <2>. QED
    BY <2>1, WireTrue, StaysTrue DEF NothingInvented
<1>19. ASSUME StopFeed PROVE NothingInvented'
  <2>1. UNCHANGED <<events, work>>
    BY <1>19 DEF StopFeed, engineVars, feedVars
  <2>. QED
    BY <2>1, WireTrue, StaysTrue DEF NothingInvented
<1>20. ASSUME CancelTasks PROVE NothingInvented'
  <2>1. UNCHANGED events /\ work'.stage # "record"
    BY <1>20 DEF CancelTasks, Idle, feedVars
  <2>. QED
    BY <2>1, WireTrue, StaysTrue DEF NothingInvented
<1>21. ASSUME NEW n \in 1..Rounds, PlaceEntry(n) PROVE NothingInvented'
  <2>1. UNCHANGED events /\ work'.stage # "record"
    BY <1>21 DEF PlaceEntry, Idle, feedVars
  <2>. QED
    BY <2>1, WireTrue, StaysTrue DEF NothingInvented
<1>22. ASSUME NEW n \in 1..Rounds, PlaceClose(n) PROVE NothingInvented'
  <2>1. UNCHANGED events /\ work'.stage # "record"
    BY <1>22 DEF PlaceClose, Idle, feedVars
  <2>. QED
    BY <2>1, WireTrue, StaysTrue DEF NothingInvented
<1>23. ASSUME NEW n \in 1..Rounds, CloseManually(n) PROVE NothingInvented'
  <2>. DEFINE whole == [status |-> "FILLED", filled |-> Held(n)]
  <2>1. <<n, "manual">> \in Orders /\ <<n, "leg">> # <<n, "manual">> /\ Held(n) \in Nat
    <3>1. <<n, "manual">> \in Orders /\ Held(n) \in Int
      BY OrderIds, HeldTypes DEF Kinds
    <3>. QED
      BY <1>23, <3>1 DEF CloseManually
  <2>2. order'[<<n, "manual">>] = whole
    BY <1>23, <2>1 DEF CloseManually, OrderTypes
  <2>3. Behind(whole, whole)
    BY <2>1 DEF Behind
  <2>4. work'.order = <<n, "manual">> /\ work'.report = whole /\ UNCHANGED events
    BY <1>23 DEF CloseManually
  <2>. HIDE DEF whole
  <2>. QED
    BY <2>2, <2>3, <2>4, WireTrue, StaysTrue DEF NothingInvented
<1>24. ASSUME BeginPoll PROVE NothingInvented'
  <2>1. UNCHANGED <<events, work>>
    BY <1>24 DEF BeginPoll, engineVars, feedVars
  <2>. QED
    BY <2>1, WireTrue, StaysTrue DEF NothingInvented
<1>25. ASSUME ReadAccount PROVE NothingInvented'
  <2>1. UNCHANGED <<events, work>>
    BY <1>25 DEF ReadAccount, engineVars, feedVars
  <2>. QED
    BY <2>1, WireTrue, StaysTrue DEF NothingInvented
<1>26. ASSUME AccountFails PROVE NothingInvented'
  <2>1. UNCHANGED <<events, work>>
    BY <1>26 DEF AccountFails, engineVars, feedVars
  <2>. QED
    BY <2>1, WireTrue, StaysTrue DEF NothingInvented
<1>27. ASSUME StoreCopyFails PROVE NothingInvented'
  <2>1. UNCHANGED <<events, work>>
    BY <1>27 DEF StoreCopyFails, engineVars, feedVars
  <2>. QED
    BY <2>1, WireTrue, StaysTrue DEF NothingInvented
<1>28. ASSUME EndPoll PROVE NothingInvented'
  <2>1. UNCHANGED <<events, work>>
    BY <1>28 DEF EndPoll, engineVars, feedVars
  <2>. QED
    BY <2>1, WireTrue, StaysTrue DEF NothingInvented
<1>29. ASSUME NEW o \in Orders, FindFill(o) PROVE NothingInvented'
  <2>1. UNCHANGED <<events, work>>
    BY <1>29 DEF FindFill, engineVars, feedVars
  <2>. QED
    BY <2>1, WireTrue, StaysTrue DEF NothingInvented
<1>30. ASSUME NEW o \in Orders, FindNothing(o) PROVE NothingInvented'
  <2>1. UNCHANGED <<events, work>>
    BY <1>30 DEF FindNothing, engineVars, feedVars
  <2>. QED
    BY <2>1, WireTrue, StaysTrue DEF NothingInvented
<1>31. ASSUME NEW o \in Orders, LookUpCopy(o) PROVE NothingInvented'
  <2>1. UNCHANGED <<events, work>>
    BY <1>31 DEF LookUpCopy, engineVars, feedVars
  <2>. QED
    BY <2>1, WireTrue, StaysTrue DEF NothingInvented
<1>32. ASSUME NEW o \in Orders, StoreCopy(o) PROVE NothingInvented'
  <2>1. Copy(o) \in Event /\ order[o].status = "FILLED" /\ UNCHANGED <<order, work>>
    BY <1>32 DEF StoreCopy, ExitsOnTheirWay, Copy, Event, OrderTypes, State, Dead, engineVars
  <2>2. poll.found \in Nat /\ Looked(poll.found, Copy(o))
    BY <1>32 DEF StoreCopy, AuditTypes, Polls, ExitsOnTheirWay
  <2>3. Behind(Copy(o), order'[Copy(o).order])
    <3>1. order[o].status # "none" /\ order[o].filled \in Nat
      BY <2>1 DEF OrderTypes, State
    <3>2. Copy(o).status = order[o].status /\ Copy(o).filled = order[o].filled /\ Copy(o).order = o
      BY <2>1 DEF Copy
    <3>. QED
      BY <2>1, <3>1, <3>2, BehindItself
  <2>4. \A i \in 1..Len(events') : Behind(events'[i], order'[events'[i].order])
    BY <1>32, <2>1, <2>2, <2>3, StoreTells DEF StoreCopy
  <2>. QED
    BY <2>1, <2>4, WireTrue, StaysTrue DEF NothingInvented
<1>. QED
  BY <1>1, <1>2, <1>3, <1>4, <1>5, <1>6, <1>7, <1>8, <1>9, <1>10, <1>11, <1>12, <1>13, <1>14,
     <1>15, <1>16, <1>17, <1>18, <1>19, <1>20, <1>21, <1>22, <1>23, <1>24, <1>25, <1>26, <1>27,
     <1>28, <1>29, <1>30, <1>31, <1>32
     DEF Next, Exchange, Stream, Engine, Fills

\* The rows follow, whoever writes them: a report with the events before it,
\* or an event of the feed or of a request.
LEMMA RowsFollowStep ==
  ASSUME OrderTypes, AuditTypes, NothingInvented, RowsFollow, OneOrder, EventInHand,
         ExitsOnTheirWay, OrderMoves, [Next]_vars
  PROVE  RowsFollow'
<1>1. CASE UNCHANGED vars
  BY <1>1, RowsStay DEF vars, feedVars, engineVars
<1>2. ASSUME NEW n \in 1..Rounds, EntryFills(n), UNCHANGED <<engineVars, poll>>
      PROVE  RowsFollow'
  BY <1>2, RowsStay DEF EntryFills, Turn, feedVars, vars, engineVars
<1>3. ASSUME NEW n \in 1..Rounds, LegFires(n), UNCHANGED <<engineVars, poll>>
      PROVE  RowsFollow'
  BY <1>3, RowsStay DEF LegFires, Turn, feedVars, vars, engineVars
<1>4. ASSUME NEW n \in 1..Rounds, ModelFills(n), UNCHANGED <<engineVars, poll>>
      PROVE  RowsFollow'
  BY <1>4, RowsStay DEF ModelFills, Turn, feedVars, vars, engineVars
<1>5. ASSUME Connect, UNCHANGED <<engineVars, poll>> PROVE RowsFollow'
  BY <1>5, RowsStay DEF Connect, feedVars, vars, engineVars
<1>6. ASSUME Disconnect, UNCHANGED <<engineVars, poll>> PROVE RowsFollow'
  BY <1>6, RowsStay DEF Disconnect, InHand, Busy, feedVars, vars, engineVars
<1>7. ASSUME Receive, UNCHANGED <<engineVars, poll>> PROVE RowsFollow'
  BY <1>7, RowsStay DEF Receive, feedVars, vars, engineVars
<1>8. ASSUME LookUp, UNCHANGED <<engineVars, poll>> PROVE RowsFollow'
  BY <1>8, RowsStay DEF LookUp, feedVars, vars, engineVars
<1>9. ASSUME StoreEvent, UNCHANGED <<engineVars, poll>> PROVE RowsFollow'
  <2>1. Head(wire) \in Event /\ Head(wire) = wire[1] /\ wire # <<>> /\ feed.found \in Nat
    BY <1>9, HeadIsEvent DEF StoreEvent, EventInHand, Busy, AuditTypes, Places
  <2>2. Behind(Head(wire), order'[Head(wire).order])
    <3>1. 1 \in 1..Len(wire)
      BY <2>1 DEF AuditTypes
    <3>. QED
      BY <2>1, <3>1, StaysTrue
  <2>. QED
    BY <1>9, <2>1, <2>2, StoreFollows DEF StoreEvent, EventInHand
<1>10. ASSUME StoreFails, UNCHANGED <<engineVars, poll>> PROVE RowsFollow'
  BY <1>10, RowsStay DEF StoreFails, GoOn, feedVars, vars, engineVars
<1>11. ASSUME Handle, UNCHANGED <<engineVars, poll>> PROVE RowsFollow'
  BY <1>11, RowsStay DEF Handle, Freeze, feedVars, vars, engineVars
<1>12. ASSUME HandleFails, UNCHANGED <<engineVars, poll>> PROVE RowsFollow'
  BY <1>12, RowsStay DEF HandleFails, Freeze, feedVars, vars, engineVars
<1>13. ASSUME Start PROVE RowsFollow'
  BY <1>13, RowsStay DEF Start, feedVars, vars, engineVars
<1>14. ASSUME CancelRemainder PROVE RowsFollow'
  BY <1>14, RowsStay DEF CancelRemainder, Turn, feedVars, vars, engineVars
<1>15. ASSUME Bracket PROVE RowsFollow'
  BY <1>15, RowsStay DEF Bracket, feedVars, vars, engineVars
<1>16. ASSUME Answer PROVE RowsFollow'
  BY <1>16, RowsStay DEF Answer, feedVars, vars, engineVars
<1>17. ASSUME Record PROVE RowsFollow'
  <2>. DEFINE o == work.order
              row == RowOf(o, work.report)
  <2>1. o \in Orders /\ work.report \in State /\ rows \in [Orders -> State]
    BY DEF AuditTypes, Works
  <2>2. /\ row \in State /\ Behind(row, order[o])
        /\ \A i \in 1..Len(events) : events[i].order = o => Covers(row, events[i])
    BY <1>17, <2>1, RowOfFollows DEF Record, NothingInvented
  <2>3. /\ rows'[o] = row /\ \A p \in Orders : p # o => rows'[p] = rows[p]
        /\ UNCHANGED <<order, events>>
    BY <1>17, <2>1 DEF Record
  <2>4. \A n \in 1..Rounds : <<n, "leg">> # o /\ <<n, "leg">> \in Orders
    <3>1. o[2] # "leg"
      BY <1>17 DEF Record, OneOrder
    <3>2. ASSUME NEW n \in 1..Rounds PROVE <<n, "leg">> # o /\ <<n, "leg">> \in Orders
      <4>1. <<n, "leg">>[2] = "leg" /\ <<n, "leg">> \in Orders
        BY OrderIds DEF Kinds
      <4>. HIDE DEF o
      <4>. QED
        BY <3>1, <4>1
    <3>. QED
      BY <3>2
  <2>5. \A i \in 1..Len(events) : events[i].order \in Orders
    <3>1. \A i \in 1..Len(events) : events[i] \in Event
      BY DEF AuditTypes
    <3>. QED
      BY <3>1 DEF Event
  <2>. HIDE DEF o, row
  <2>. QED
    BY <2>1, <2>2, <2>3, <2>4, <2>5 DEF RowsFollow
<1>18. ASSUME RecordFails PROVE RowsFollow'
  BY <1>18, RowsStay DEF RecordFails, Idle, feedVars, vars, engineVars
<1>19. ASSUME StopFeed PROVE RowsFollow'
  BY <1>19, RowsStay DEF StopFeed, Off, feedVars, vars, engineVars
<1>20. ASSUME CancelTasks PROVE RowsFollow'
  BY <1>20, RowsStay DEF CancelTasks, Idle, feedVars, vars, engineVars
<1>21. ASSUME NEW n \in 1..Rounds, PlaceEntry(n) PROVE RowsFollow'
  BY <1>21, RowsStay DEF PlaceEntry, feedVars, vars, engineVars
<1>22. ASSUME NEW n \in 1..Rounds, PlaceClose(n) PROVE RowsFollow'
  BY <1>22, RowsStay DEF PlaceClose, feedVars, vars, engineVars
<1>23. ASSUME NEW n \in 1..Rounds, CloseManually(n) PROVE RowsFollow'
  BY <1>23, RowsStay DEF CloseManually, feedVars, vars, engineVars
<1>24. ASSUME BeginPoll PROVE RowsFollow'
  BY <1>24, RowsStay DEF BeginPoll, feedVars, vars, engineVars
<1>25. ASSUME ReadAccount PROVE RowsFollow'
  BY <1>25, RowsStay DEF ReadAccount, Ask, feedVars, vars, engineVars
<1>26. ASSUME AccountFails PROVE RowsFollow'
  BY <1>26, RowsStay DEF AccountFails, Ask, feedVars, vars, engineVars
<1>27. ASSUME StoreCopyFails PROVE RowsFollow'
  BY <1>27, RowsStay DEF StoreCopyFails, NoPoll, feedVars, vars, engineVars
<1>28. ASSUME EndPoll PROVE RowsFollow'
  BY <1>28, RowsStay DEF EndPoll, NoPoll, feedVars, vars, engineVars
<1>29. ASSUME NEW o \in Orders, FindFill(o) PROVE RowsFollow'
  BY <1>29, RowsStay DEF FindFill, feedVars, vars, engineVars
<1>30. ASSUME NEW o \in Orders, FindNothing(o) PROVE RowsFollow'
  BY <1>30, RowsStay DEF FindNothing, feedVars, vars, engineVars
<1>31. ASSUME NEW o \in Orders, LookUpCopy(o) PROVE RowsFollow'
  BY <1>31, RowsStay DEF LookUpCopy, feedVars, vars, engineVars
<1>32. ASSUME NEW o \in Orders, StoreCopy(o) PROVE RowsFollow'
  <2>1. Copy(o) \in Event /\ order[o].status = "FILLED" /\ UNCHANGED <<order, work>>
    BY <1>32 DEF StoreCopy, ExitsOnTheirWay, Copy, Event, OrderTypes, State, Dead, engineVars
  <2>2. poll.found \in Nat /\ Looked(poll.found, Copy(o))
    BY <1>32 DEF StoreCopy, AuditTypes, Polls, ExitsOnTheirWay
  <2>3. Behind(Copy(o), order'[Copy(o).order])
    <3>1. order[o].status # "none" /\ order[o].filled \in Nat
      BY <2>1 DEF OrderTypes, State
    <3>2. Copy(o).status = order[o].status /\ Copy(o).filled = order[o].filled /\ Copy(o).order = o
      BY <2>1 DEF Copy
    <3>. QED
      BY <2>1, <3>1, <3>2, BehindItself
  <2>. QED
    BY <1>32, <2>1, <2>2, <2>3, StoreFollows DEF StoreCopy
<1>. QED
  BY <1>1, <1>2, <1>3, <1>4, <1>5, <1>6, <1>7, <1>8, <1>9, <1>10, <1>11, <1>12, <1>13, <1>14,
     <1>15, <1>16, <1>17, <1>18, <1>19, <1>20, <1>21, <1>22, <1>23, <1>24, <1>25, <1>26, <1>27,
     <1>28, <1>29, <1>30, <1>31, <1>32
     DEF Next, Exchange, Stream, Engine, Fills

\* The engine works on one order at a time.
LEMMA OneOrderStep ==
  ASSUME OrderTypes, AuditTypes, OneOrder, OneExit, EventInHand, OrderMoves, [Next]_vars
  PROVE  OneOrder'
<1>1. CASE UNCHANGED vars
  <2>1. UNCHANGED <<order, work, tasks>>
    BY <1>1 DEF feedVars, engineVars, vars
  <2>. QED
    BY <2>1 DEF OneOrder, IsOpen
<1>2. ASSUME NEW n \in 1..Rounds, EntryFills(n), UNCHANGED <<engineVars, poll>>
      PROVE  OneOrder'
  <2>1. \A p \in Orders : p # <<n, "entry">> => order'[p] = order[p]
    BY <1>2 DEF EntryFills, Turn, OrderTypes
  <2>2. <<n, "entry">> \in Orders /\ (<<n, "entry">>[2] = "entry" => IsOpen(<<n, "entry">>))
    BY <1>2, OrderIds DEF Kinds, EntryFills
  <2>3. \A m \in 1..Rounds : IsOpen(<<m, "entry">>)' => IsOpen(<<m, "entry">>)
    <3>. DEFINE S == {<<n, "entry">>}
    <3>1. S \subseteq Orders /\ \A p \in S : p[2] = "entry" => IsOpen(p)
      BY <2>2
    <3>2. \A p \in Orders : p \notin S => order'[p] = order[p]
      BY <2>1
    <3>. HIDE DEF S
    <3>. QED
      BY <3>1, <3>2, EntriesOpenNot
  <2>4. UNCHANGED <<work, tasks>>
    BY <1>2 DEF EntryFills, engineVars
  <2>5. work.order \in Orders
    BY DEF AuditTypes, Works
  <2>. QED
    BY <2>3, <2>4, <2>5, SentStays DEF OneOrder
<1>3. ASSUME NEW n \in 1..Rounds, LegFires(n), UNCHANGED <<engineVars, poll>>
      PROVE  OneOrder'
  <2>1. \A p \in Orders : p # <<n, "leg">> => order'[p] = order[p]
    BY <1>3 DEF LegFires, Turn, OrderTypes
  <2>2. <<n, "leg">> \in Orders /\ (<<n, "leg">>[2] = "entry" => IsOpen(<<n, "leg">>))
    BY <1>3, OrderIds DEF Kinds
  <2>3. \A m \in 1..Rounds : IsOpen(<<m, "entry">>)' => IsOpen(<<m, "entry">>)
    <3>. DEFINE S == {<<n, "leg">>}
    <3>1. S \subseteq Orders /\ \A p \in S : p[2] = "entry" => IsOpen(p)
      BY <2>2
    <3>2. \A p \in Orders : p \notin S => order'[p] = order[p]
      BY <2>1
    <3>. HIDE DEF S
    <3>. QED
      BY <3>1, <3>2, EntriesOpenNot
  <2>4. UNCHANGED <<work, tasks>>
    BY <1>3 DEF LegFires, engineVars
  <2>5. work.order \in Orders
    BY DEF AuditTypes, Works
  <2>. QED
    BY <2>3, <2>4, <2>5, SentStays DEF OneOrder
<1>4. ASSUME NEW n \in 1..Rounds, ModelFills(n), UNCHANGED <<engineVars, poll>>
      PROVE  OneOrder'
  <2>1. \A p \in Orders : p # <<n, "model">> => order'[p] = order[p]
    BY <1>4 DEF ModelFills, Turn, OrderTypes
  <2>2. <<n, "model">> \in Orders /\ (<<n, "model">>[2] = "entry" => IsOpen(<<n, "model">>))
    BY <1>4, OrderIds DEF Kinds
  <2>3. \A m \in 1..Rounds : IsOpen(<<m, "entry">>)' => IsOpen(<<m, "entry">>)
    <3>. DEFINE S == {<<n, "model">>}
    <3>1. S \subseteq Orders /\ \A p \in S : p[2] = "entry" => IsOpen(p)
      BY <2>2
    <3>2. \A p \in Orders : p \notin S => order'[p] = order[p]
      BY <2>1
    <3>. HIDE DEF S
    <3>. QED
      BY <3>1, <3>2, EntriesOpenNot
  <2>4. UNCHANGED <<work, tasks>>
    BY <1>4 DEF ModelFills, engineVars
  <2>5. work.order \in Orders
    BY DEF AuditTypes, Works
  <2>. QED
    BY <2>3, <2>4, <2>5, SentStays DEF OneOrder
<1>5. ASSUME Connect, UNCHANGED <<engineVars, poll>> PROVE OneOrder'
  <2>1. UNCHANGED <<order, work, tasks>>
    BY <1>5 DEF Connect, feedVars, engineVars, vars
  <2>. QED
    BY <2>1 DEF OneOrder, IsOpen
<1>6. ASSUME Disconnect, UNCHANGED <<engineVars, poll>> PROVE OneOrder'
  <2>1. UNCHANGED <<order, work, tasks>>
    BY <1>6 DEF Disconnect, InHand, Busy, feedVars, engineVars, vars
  <2>. QED
    BY <2>1 DEF OneOrder, IsOpen
<1>7. ASSUME Receive, UNCHANGED <<engineVars, poll>> PROVE OneOrder'
  <2>1. UNCHANGED <<order, work, tasks>>
    BY <1>7 DEF Receive, feedVars, engineVars, vars
  <2>. QED
    BY <2>1 DEF OneOrder, IsOpen
<1>8. ASSUME LookUp, UNCHANGED <<engineVars, poll>> PROVE OneOrder'
  <2>1. UNCHANGED <<order, work, tasks>>
    BY <1>8 DEF LookUp, feedVars, engineVars, vars
  <2>. QED
    BY <2>1 DEF OneOrder, IsOpen
<1>9. ASSUME StoreEvent, UNCHANGED <<engineVars, poll>> PROVE OneOrder'
  <2>1. UNCHANGED <<order, work, tasks>>
    BY <1>9 DEF StoreEvent, Store, GoOn, feedVars, engineVars, vars
  <2>. QED
    BY <2>1 DEF OneOrder, IsOpen
<1>10. ASSUME StoreFails, UNCHANGED <<engineVars, poll>> PROVE OneOrder'
  <2>1. UNCHANGED <<order, work, tasks>>
    BY <1>10 DEF StoreFails, GoOn, feedVars, engineVars, vars
  <2>. QED
    BY <2>1 DEF OneOrder, IsOpen
<1>11. ASSUME Handle, UNCHANGED <<engineVars, poll>> PROVE OneOrder'
  <2>. DEFINE o == Head(wire).order
  <2>1. o \in Orders
    BY <1>11, HeadIsEvent DEF Handle, EventInHand, Busy
  <2>2. \A m \in 1..Rounds : IsOpen(<<m, "entry">>)' => IsOpen(<<m, "entry">>)
    <3>1. \A p \in Orders : order'[p] = order[p] \/ order'[p].status \notin Open
      BY <1>11, <2>1 DEF Handle, Freeze, OrderTypes, IsOpen, Open, State
    <3>. QED
      BY <3>1, OrderIds DEF IsOpen, Kinds
  <2>3. UNCHANGED <<work, tasks>>
    BY <1>11 DEF engineVars
  <2>4. work.order \in Orders
    BY DEF AuditTypes, Works
  <2>. QED
    BY <2>2, <2>3, <2>4, SentStays DEF OneOrder
<1>12. ASSUME HandleFails, UNCHANGED <<engineVars, poll>> PROVE OneOrder'
  <2>. DEFINE o == Head(wire).order
  <2>1. o \in Orders
    BY <1>12, HeadIsEvent DEF HandleFails, EventInHand, Busy
  <2>2. \A m \in 1..Rounds : IsOpen(<<m, "entry">>)' => IsOpen(<<m, "entry">>)
    <3>1. \A p \in Orders : order'[p] = order[p] \/ order'[p].status \notin Open
      BY <1>12, <2>1 DEF HandleFails, Freeze, OrderTypes, IsOpen, Open, State
    <3>. QED
      BY <3>1, OrderIds DEF IsOpen, Kinds
  <2>3. UNCHANGED <<work, tasks>>
    BY <1>12 DEF engineVars
  <2>4. work.order \in Orders
    BY DEF AuditTypes, Works
  <2>. QED
    BY <2>2, <2>3, <2>4, SentStays DEF OneOrder
<1>13. ASSUME Start PROVE OneOrder'
  <2>1. UNCHANGED <<order, work>> /\ work = Idle /\ \A n \in 1..Rounds : ~IsOpen(<<n, "entry">>)
    BY <1>13 DEF Start
  <2>. QED
    BY <2>1 DEF OneOrder, IsOpen, Idle
<1>14. ASSUME CancelRemainder PROVE OneOrder'
  <2>1. \A p \in Orders : p # work.order => order'[p] = order[p]
    BY <1>14 DEF CancelRemainder, Turn, OrderTypes
  <2>2. work.order \in Orders /\ (work.order[2] = "entry" => IsOpen(work.order))
    BY <1>14, OrderIds DEF AuditTypes, Works, CancelRemainder
  <2>3. \A m \in 1..Rounds : IsOpen(<<m, "entry">>)' => IsOpen(<<m, "entry">>)
    <3>. DEFINE S == {work.order}
    <3>1. S \subseteq Orders /\ \A p \in S : p[2] = "entry" => IsOpen(p)
      BY <2>2
    <3>2. \A p \in Orders : p \notin S => order'[p] = order[p]
      BY <2>1
    <3>. HIDE DEF S
    <3>. QED
      BY <3>1, <3>2, EntriesOpenNot
  <2>4. UNCHANGED <<work, tasks>>
    BY <1>14 DEF CancelRemainder, engineVars
  <2>5. work.order \in Orders
    BY DEF AuditTypes, Works
  <2>. QED
    BY <2>3, <2>4, <2>5, SentStays DEF OneOrder
<1>15. ASSUME Bracket PROVE OneOrder'
  <2>. DEFINE n == work.order[1]
  <2>1. /\ work.order \in Orders /\ work.order[2] = "entry" /\ ~IsOpen(work.order)
        /\ work.order = <<n, "entry">> /\ n \in 1..Rounds
    <3>1. work.order \in Orders /\ work.order[2] = "entry" /\ ~IsOpen(work.order)
      BY <1>15 DEF Bracket, OneOrder, AuditTypes, Works, IsOpen, Open, Dead
    <3>. QED
      BY <3>1 DEF Orders
  <2>2. \A p \in Orders : p # <<n, "leg">> => order'[p] = order[p]
    BY <1>15 DEF Bracket, OrderTypes
  <2>3. \A m \in 1..Rounds : ~IsOpen(<<m, "entry">>)' \/ ~tasks
    <3>1. \A m \in 1..Rounds : IsOpen(<<m, "entry">>)' => IsOpen(<<m, "entry">>)
      <4>1. \A m \in 1..Rounds : <<m, "entry">> \in Orders /\ <<m, "entry">> # <<n, "leg">>
        BY OrderIds DEF Kinds
      <4>. QED
        BY <2>2, <4>1 DEF IsOpen
    <3>. QED
      BY <1>15, <2>1, <3>1 DEF OneOrder
  <2>4. work'.stage = "record" /\ work'.order = work.order /\ UNCHANGED tasks
    BY <1>15 DEF Bracket, AuditTypes, Works
  <2>. QED
    BY <2>1, <2>3, <2>4 DEF OneOrder
<1>16. ASSUME Answer PROVE OneOrder'
  <2>1. UNCHANGED <<order, tasks>> /\ work'.stage = "record" /\ work'.order = work.order /\ work.stage = "close"
    BY <1>16 DEF Answer, AuditTypes, Works, feedVars
  <2>. QED
    BY <2>1 DEF OneOrder, IsOpen
<1>17. ASSUME Record PROVE OneOrder'
  <2>1. UNCHANGED <<order, tasks>> /\ work' = Idle /\ work.stage = "record"
    BY <1>17 DEF Record, feedVars
  <2>. QED
    BY <2>1 DEF OneOrder, IsOpen, Idle
<1>18. ASSUME RecordFails PROVE OneOrder'
  <2>1. UNCHANGED <<order, tasks>> /\ work' = Idle /\ work.stage = "record"
    BY <1>18 DEF RecordFails, feedVars
  <2>. QED
    BY <2>1 DEF OneOrder, IsOpen, Idle
<1>19. ASSUME StopFeed PROVE OneOrder'
  <2>1. UNCHANGED <<order, work, tasks>>
    BY <1>19 DEF StopFeed, Off, feedVars, engineVars, vars
  <2>. QED
    BY <2>1 DEF OneOrder, IsOpen
<1>20. ASSUME CancelTasks PROVE OneOrder'
  <2>1. UNCHANGED order /\ work' = Idle /\ tasks' = FALSE
    BY <1>20 DEF CancelTasks, feedVars
  <2>. QED
    BY <2>1 DEF OneOrder, Idle
<1>21. ASSUME NEW n \in 1..Rounds, PlaceEntry(n) PROVE OneOrder'
  <2>1. <<n, "entry">> \in Orders /\ work = Idle /\ tasks /\ tasks'
    BY <1>21, OrderIds DEF Kinds, PlaceEntry
  <2>2. /\ work' = [stage |-> "entry", order |-> <<n, "entry">>, report |-> None]
        /\ order' = [order EXCEPT ![<<n, "entry">>].status = "NEW"]
    BY <1>21 DEF PlaceEntry
  <2>3. order'[<<n, "entry">>].status = "NEW" /\ \A p \in Orders : p # <<n, "entry">> => order'[p] = order[p]
    BY <2>1, <2>2 DEF OrderTypes, State
  <2>4. ASSUME NEW m \in 1..Rounds, IsOpen(<<m, "entry">>)' PROVE m = n
    <3>1. <<m, "entry">> \in Orders /\ ~IsOpen(<<m, "entry">>)
      BY <2>1, OrderIds DEF OneOrder, Idle, Kinds
    <3>. QED
      BY <2>3, <2>4, <3>1 DEF IsOpen
  <2>. QED
    BY <2>1, <2>2, <2>3, <2>4 DEF OneOrder
<1>22. ASSUME NEW n \in 1..Rounds, PlaceClose(n) PROVE OneOrder'
  <2>1. <<n, "model">> \in Orders /\ work = Idle /\ tasks /\ tasks'
    BY <1>22, OrderIds DEF Kinds, PlaceClose
  <2>2. /\ work' = [stage |-> "close", order |-> <<n, "model">>, report |-> None]
        /\ order' = [order EXCEPT ![<<n, "model">>].status = "NEW"]
    BY <1>22 DEF PlaceClose
  <2>3. order'[<<n, "model">>].status = "NEW" /\ \A p \in Orders : p # <<n, "model">> => order'[p] = order[p]
    BY <2>1, <2>2 DEF OrderTypes, State
  <2>4. ASSUME NEW m \in 1..Rounds PROVE ~IsOpen(<<m, "entry">>)'
    <3>1. <<m, "entry">> \in Orders /\ ~IsOpen(<<m, "entry">>) /\ <<m, "entry">> # <<n, "model">>
      BY <2>1, OrderIds DEF OneOrder, Idle, Kinds
    <3>. QED
      BY <2>3, <3>1 DEF IsOpen
  <2>. QED
    BY <2>1, <2>2, <2>3, <2>4 DEF OneOrder
<1>23. ASSUME NEW n \in 1..Rounds, CloseManually(n) PROVE OneOrder'
  <2>1. /\ work'.stage = "record" /\ work'.order = <<n, "manual">> /\ ~tasks'
        /\ <<n, "manual">>[2] # "leg"
    BY <1>23 DEF CloseManually
  <2>. QED
    BY <2>1 DEF OneOrder
<1>24. ASSUME BeginPoll PROVE OneOrder'
  <2>1. UNCHANGED <<order, work, tasks>>
    BY <1>24 DEF BeginPoll, feedVars, engineVars, vars
  <2>. QED
    BY <2>1 DEF OneOrder, IsOpen
<1>25. ASSUME ReadAccount PROVE OneOrder'
  <2>1. UNCHANGED <<order, work, tasks>>
    BY <1>25 DEF ReadAccount, Ask, feedVars, engineVars, vars
  <2>. QED
    BY <2>1 DEF OneOrder, IsOpen
<1>26. ASSUME AccountFails PROVE OneOrder'
  <2>1. UNCHANGED <<order, work, tasks>>
    BY <1>26 DEF AccountFails, Ask, feedVars, engineVars, vars
  <2>. QED
    BY <2>1 DEF OneOrder, IsOpen
<1>27. ASSUME StoreCopyFails PROVE OneOrder'
  <2>1. UNCHANGED <<order, work, tasks>>
    BY <1>27 DEF StoreCopyFails, NoPoll, feedVars, engineVars, vars
  <2>. QED
    BY <2>1 DEF OneOrder, IsOpen
<1>28. ASSUME EndPoll PROVE OneOrder'
  <2>1. UNCHANGED <<order, work, tasks>>
    BY <1>28 DEF EndPoll, NoPoll, feedVars, engineVars, vars
  <2>. QED
    BY <2>1 DEF OneOrder, IsOpen
<1>29. ASSUME NEW o \in Orders, FindFill(o) PROVE OneOrder'
  <2>1. UNCHANGED <<order, work, tasks>>
    BY <1>29 DEF FindFill, feedVars, engineVars, vars
  <2>. QED
    BY <2>1 DEF OneOrder, IsOpen
<1>30. ASSUME NEW o \in Orders, FindNothing(o) PROVE OneOrder'
  <2>1. UNCHANGED <<order, work, tasks>>
    BY <1>30 DEF FindNothing, feedVars, engineVars, vars
  <2>. QED
    BY <2>1 DEF OneOrder, IsOpen
<1>31. ASSUME NEW o \in Orders, LookUpCopy(o) PROVE OneOrder'
  <2>1. UNCHANGED <<order, work, tasks>>
    BY <1>31 DEF LookUpCopy, feedVars, engineVars, vars
  <2>. QED
    BY <2>1 DEF OneOrder, IsOpen
<1>32. ASSUME NEW o \in Orders, StoreCopy(o) PROVE OneOrder'
  <2>1. UNCHANGED <<order, work, tasks>>
    BY <1>32 DEF StoreCopy, Store, feedVars, engineVars, vars
  <2>. QED
    BY <2>1 DEF OneOrder, IsOpen
<1>. QED
  BY <1>1, <1>2, <1>3, <1>4, <1>5, <1>6, <1>7, <1>8, <1>9, <1>10, <1>11, <1>12, <1>13, <1>14,
     <1>15, <1>16, <1>17, <1>18, <1>19, <1>20, <1>21, <1>22, <1>23, <1>24, <1>25, <1>26, <1>27,
     <1>28, <1>29, <1>30, <1>31, <1>32
     DEF Next, Exchange, Stream, Engine, Fills

\* A bracket comes after its entry, and one exit ends the position.
LEMMA OneExitStep ==
  ASSUME OrderTypes, AuditTypes, OneOrder, OneExit, EventInHand, OrderMoves, [Next]_vars
  PROVE  OneExit'
<1>1. CASE UNCHANGED vars
  <2>1. UNCHANGED order /\ (work'.stage = "entry" => work' = work)
    BY <1>1 DEF vars, feedVars, engineVars, Idle, AuditTypes, Works
  <2>. QED
    BY <2>1, RoundsStay
<1>2. ASSUME NEW n \in 1..Rounds, EntryFills(n), UNCHANGED <<engineVars, poll>>
      PROVE  OneExit'
  <2>1. \A k \in Kinds : <<n, k>> \in Orders /\ Filled(n, k) \in Nat
    BY OrderIds, HeldTypes
  <2>2. PICK size \in (Filled(n, "entry") + 1)..Size :
          Turn(<<n, "entry">>, IF size = Size THEN "FILLED" ELSE "PARTIALLY_FILLED", size)
    BY <1>2 DEF EntryFills
  <2>3. /\ order'[<<n, "entry">>].status \in {"FILLED", "PARTIALLY_FILLED"}
        /\ \A p \in Orders : p # <<n, "entry">> => order'[p] = order[p]
    BY <2>1, <2>2 DEF Turn, OrderTypes, Kinds
  <2>4. \A k \in Kinds : k # "entry" => order'[<<n, k>>] = order[<<n, k>>]
    BY <2>1, <2>3
  <2>5. IsOpen(<<n, "entry">>) /\ UNCHANGED work
    BY <1>2 DEF EntryFills, engineVars
  <2>6. OneExitOf(n)'
    BY <2>3, <2>4, <2>5 DEF OneExit, OneExitOf, Exits, Kinds, Filled, IsOpen, Open, Dead
  <2>7. \A m \in 1..Rounds : m # n => OneExitOf(m)'
    <3>1. \A p \in Orders : p[1] # n => order'[p] = order[p]
      BY <2>3 DEF OrderTypes
    <3>2. work'.stage = "entry" => work'.order[1] = n \/ work' = work
      BY <1>2 DEF EntryFills, engineVars
    <3>. QED
      BY <3>1, <3>2, OthersStay
  <2>. QED
    BY <2>6, <2>7 DEF OneExit
<1>3. ASSUME NEW n \in 1..Rounds, LegFires(n), UNCHANGED <<engineVars, poll>>
      PROVE  OneExit'
  <2>1. \A k \in Kinds : <<n, k>> \in Orders /\ Filled(n, k) \in Nat
    BY OrderIds, HeldTypes
  <2>2. /\ order'[<<n, "leg">>].status = "FILLED" /\ order'[<<n, "leg">>].filled = Held(n)
        /\ \A p \in Orders : p # <<n, "leg">> => order'[p] = order[p]
    BY <1>3, <2>1 DEF LegFires, Turn, OrderTypes, Kinds
  <2>3. \A k \in Kinds : k # "leg" => order'[<<n, k>>] = order[<<n, k>>]
    BY <2>1, <2>2
  <2>4. IsOpen(<<n, "leg">>) /\ Held(n) > 0 /\ UNCHANGED work
    BY <1>3 DEF LegFires, engineVars
  <2>5. /\ Filled(n, "leg") = 0 /\ order[<<n, "entry">>].status \in Dead
        /\ order[<<n, "manual">>].status # "FILLED"
        /\ ~(work.stage = "entry" /\ work.order[1] = n)
    <3>1. OneExitOf(n) /\ order[<<n, "leg">>].status \in Open /\ order[<<n, "leg">>].status # "none"
      BY <2>4 DEF OneExit, IsOpen, Open
    <3>2. Held(n) # 0
      BY <2>4
    <3>. QED
      BY <3>1, <3>2, ExitKinds DEF OneExitOf
  <2>6. Held(n)' = 0
    BY <2>1, <2>2, <2>3, <2>5 DEF Held, Filled, Kinds
  <2>7. OneExitOf(n)'
    BY <2>2, <2>3, <2>4, <2>5, <2>6 DEF OneExitOf, Exits, Kinds, Open, Dead
  <2>8. \A m \in 1..Rounds : m # n => OneExitOf(m)'
    <3>1. \A p \in Orders : p[1] # n => order'[p] = order[p]
      BY <2>2 DEF OrderTypes
    <3>2. work'.stage = "entry" => work'.order[1] = n \/ work' = work
      BY <1>3 DEF LegFires, engineVars
    <3>. QED
      BY <3>1, <3>2, OthersStay
  <2>. QED
    BY <2>7, <2>8 DEF OneExit
<1>4. ASSUME NEW n \in 1..Rounds, ModelFills(n), UNCHANGED <<engineVars, poll>>
      PROVE  OneExit'
  <2>1. \A k \in Kinds : <<n, k>> \in Orders /\ Filled(n, k) \in Nat
    BY OrderIds, HeldTypes
  <2>. DEFINE to == order'[<<n, "model">>]
  <2>2. IsOpen(<<n, "model">>) /\ UNCHANGED work
    BY <1>4 DEF ModelFills, engineVars
  <2>3. /\ \A p \in Orders : p # <<n, "model">> => order'[p] = order[p]
        /\ \/ \E j \in 1..Held(n) : to.filled = Filled(n, "model") + j
           \/ to.status = "CANCELED" /\ to.filled = Filled(n, "model")
    <3>1. ASSUME NEW status, NEW filled, Turn(<<n, "model">>, status, filled)
          PROVE  /\ \A p \in Orders : p # <<n, "model">> => order'[p] = order[p]
                 /\ to.status = status /\ to.filled = filled
      BY <2>1, <3>1 DEF Turn, OrderTypes, Kinds
    <3>. HIDE DEF to
    <3>. QED
      BY <1>4, <3>1 DEF ModelFills
  <2>4. \A k \in Kinds : k # "model" => order'[<<n, k>>] = order[<<n, k>>]
    BY <2>1, <2>3
  <2>. HIDE DEF to
  <2>5. /\ Held(n)' = Held(n) + Filled(n, "model") - to.filled /\ Held(n) \in Int
        /\ Filled(n, "leg")' = Filled(n, "leg")
    <3>1. /\ order'[<<n, "entry">>] = order[<<n, "entry">>] /\ order'[<<n, "leg">>] = order[<<n, "leg">>]
          /\ order'[<<n, "manual">>] = order[<<n, "manual">>] /\ Filled(n, "model")' = to.filled
      BY <2>4 DEF Kinds, Filled, to
    <3>2. /\ Filled(n, "entry") \in Nat /\ Filled(n, "leg") \in Nat /\ Filled(n, "model") \in Nat
          /\ Filled(n, "manual") \in Nat /\ to.filled \in Int
      BY <2>1, <2>3 DEF Kinds
    <3>3. /\ Filled(n, "entry")' = Filled(n, "entry") /\ Filled(n, "leg")' = Filled(n, "leg")
          /\ Filled(n, "manual")' = Filled(n, "manual")
      BY <3>1 DEF Filled
    <3>. QED
      BY <3>1, <3>2, <3>3 DEF Held
  <2>7. Held(n) = 0 => Held(n)' = 0
    BY <2>1, <2>3, <2>5 DEF Kinds
  <2>9. OneExitOf(n)'
    <3>1. order[<<n, "entry">>].status # "none" /\ ~(work.stage = "entry" /\ work.order[1] = n)
      BY <2>2 DEF OneExit, OneExitOf, IsOpen, Open, Exits, Kinds
    <3>2. order[<<n, "leg">>].status # "none" => order[<<n, "entry">>].status \in Dead
      BY DEF OneExit, OneExitOf
    <3>3. order[<<n, "leg">>].status \in Open => Filled(n, "leg") = 0
      BY DEF OneExit, OneExitOf
    <3>4. order[<<n, "leg">>].status # "none"
            /\ (order[<<n, "leg">>].status = "FILLED" \/ order[<<n, "manual">>].status = "FILLED") => Held(n) = 0
      BY DEF OneExit, OneExitOf
    <3>5. order[<<n, "leg">>].status = "FILLED" => order[<<n, "manual">>].status # "FILLED"
      BY DEF OneExit, OneExitOf
    <3>6. order'[<<n, "leg">>] = order[<<n, "leg">>] /\ order'[<<n, "entry">>] = order[<<n, "entry">>]
          /\ order'[<<n, "manual">>] = order[<<n, "manual">>]
      BY <2>4 DEF Kinds
    <3>7. order'[<<n, "leg">>].status # "none"
            /\ (order'[<<n, "leg">>].status = "FILLED" \/ order'[<<n, "manual">>].status = "FILLED") => Held(n)' = 0
      BY <2>7, <3>4, <3>6
    <3>8. order'[<<n, "leg">>].status = "FILLED" => order'[<<n, "manual">>].status # "FILLED"
      BY <3>5, <3>6
    <3>. QED
      BY <2>2, <2>5, <3>1, <3>2, <3>3, <3>6, <3>7, <3>8 DEF OneExitOf, to
  <2>10. \A m \in 1..Rounds : m # n => OneExitOf(m)'
    <3>1. \A p \in Orders : p[1] # n => order'[p] = order[p]
      BY <2>3 DEF OrderTypes
    <3>2. work'.stage = "entry" => work'.order[1] = n \/ work' = work
      BY <1>4 DEF ModelFills, engineVars
    <3>. QED
      BY <3>1, <3>2, OthersStay
  <2>. QED
    BY <2>9, <2>10 DEF OneExit
<1>5. ASSUME Connect, UNCHANGED <<engineVars, poll>> PROVE OneExit'
  <2>1. UNCHANGED order /\ (work'.stage = "entry" => work' = work)
    BY <1>5 DEF Connect, feedVars, engineVars, Idle, AuditTypes, Works
  <2>. QED
    BY <2>1, RoundsStay
<1>6. ASSUME Disconnect, UNCHANGED <<engineVars, poll>> PROVE OneExit'
  <2>1. UNCHANGED order /\ (work'.stage = "entry" => work' = work)
    BY <1>6 DEF Disconnect, InHand, Busy, feedVars, engineVars, Idle, AuditTypes, Works
  <2>. QED
    BY <2>1, RoundsStay
<1>7. ASSUME Receive, UNCHANGED <<engineVars, poll>> PROVE OneExit'
  <2>1. UNCHANGED order /\ (work'.stage = "entry" => work' = work)
    BY <1>7 DEF Receive, feedVars, engineVars, Idle, AuditTypes, Works
  <2>. QED
    BY <2>1, RoundsStay
<1>8. ASSUME LookUp, UNCHANGED <<engineVars, poll>> PROVE OneExit'
  <2>1. UNCHANGED order /\ (work'.stage = "entry" => work' = work)
    BY <1>8 DEF LookUp, feedVars, engineVars, Idle, AuditTypes, Works
  <2>. QED
    BY <2>1, RoundsStay
<1>9. ASSUME StoreEvent, UNCHANGED <<engineVars, poll>> PROVE OneExit'
  <2>1. UNCHANGED order /\ (work'.stage = "entry" => work' = work)
    BY <1>9 DEF StoreEvent, Store, GoOn, feedVars, engineVars, Idle, AuditTypes, Works
  <2>. QED
    BY <2>1, RoundsStay
<1>10. ASSUME StoreFails, UNCHANGED <<engineVars, poll>> PROVE OneExit'
  <2>1. UNCHANGED order /\ (work'.stage = "entry" => work' = work)
    BY <1>10 DEF StoreFails, GoOn, feedVars, engineVars, Idle, AuditTypes, Works
  <2>. QED
    BY <2>1, RoundsStay
<1>11. ASSUME Handle, UNCHANGED <<engineVars, poll>> PROVE OneExit'
  <2>. DEFINE o == Head(wire).order
  <2>1. o \in Orders /\ o[2] = "entry" /\ Freeze(o) /\ UNCHANGED work
    BY <1>11, HeadIsEvent DEF Handle, EventInHand, Busy, Freezes, engineVars
  <2>. QED
    BY <2>1, FrozenStays
<1>12. ASSUME HandleFails, UNCHANGED <<engineVars, poll>> PROVE OneExit'
  <2>. DEFINE o == Head(wire).order
  <2>1. o \in Orders /\ o[2] = "entry" /\ UNCHANGED work
    BY <1>12, HeadIsEvent DEF HandleFails, EventInHand, Busy, Freezes, engineVars
  <2>2. Freeze(o) \/ UNCHANGED order
    BY <1>12 DEF HandleFails
  <2>. QED
    BY <2>1, <2>2, FrozenStays, RoundsStay
<1>13. ASSUME Start PROVE OneExit'
  <2>1. UNCHANGED order /\ (work'.stage = "entry" => work' = work)
    BY <1>13 DEF Start, feedVars, engineVars, Idle, AuditTypes, Works
  <2>. QED
    BY <2>1, RoundsStay
<1>14. ASSUME CancelRemainder PROVE OneExit'
  <2>1. /\ work.order \in Orders /\ work.order[2] = "entry" /\ UNCHANGED work
        /\ IsOpen(work.order) /\ Turn(work.order, "CANCELED", order[work.order].filled)
    BY <1>14 DEF CancelRemainder, OneOrder, AuditTypes, Works, engineVars
  <2>2. Freeze(work.order)
    BY <2>1 DEF Turn, Freeze, OrderTypes, State
  <2>. QED
    BY <2>1, <2>2, FrozenStays
<1>15. ASSUME Bracket PROVE OneExit'
  <2>1. PICK n \in 1..Rounds : work.order = <<n, "entry">> /\ order[<<n, "entry">>].status \in Dead
    <3>1. work.order \in Orders /\ work.order[2] = "entry" /\ order[work.order].status \in Dead
      BY <1>15 DEF Bracket, OneOrder, AuditTypes, Works
    <3>2. PICK n \in 1..Rounds : work.order = <<n, "entry">>
      BY <3>1 DEF Orders
    <3>. QED
      BY <3>1, <3>2
  <2>2. \A k \in Kinds : <<n, k>> \in Orders
    BY <2>1, OrderIds
  <2>3. work'.stage = "record" /\ work.stage = "entry"
    BY <1>15 DEF Bracket, AuditTypes, Works
  <2>4. \A k \in Exits : order[<<n, k>>].status = "none"
    <3>1. OneExitOf(n) /\ work.order[1] = n
      BY <2>1 DEF OneExit
    <3>. QED
      BY <2>3, <3>1 DEF OneExitOf
  <2>5. /\ order'[<<n, "leg">>].status \in {"none", "NEW"} /\ order'[<<n, "leg">>].filled = 0
        /\ \A p \in Orders : p # <<n, "leg">> => order'[p] = order[p]
    BY <1>15, <2>1, <2>2, <2>4 DEF Bracket, OrderTypes, State, Kinds, Exits
  <2>6. \A k \in Kinds : k # "leg" => order'[<<n, k>>] = order[<<n, k>>]
    BY <2>2, <2>5
  <2>7. OneExitOf(n)'
    <3>1. /\ order'[<<n, "entry">>].status \in Dead /\ order'[<<n, "model">>].status = "none"
          /\ order'[<<n, "manual">>].status = "none" /\ order[<<n, "entry">>].status # "none"
      BY <2>1, <2>4, <2>6 DEF Exits, Kinds, Dead
    <3>2. Filled(n, "leg")' = 0
      BY <2>5 DEF Filled
    <3>. QED
      BY <2>3, <2>5, <3>1, <3>2, ExitKinds DEF OneExitOf, Dead
  <2>8. \A m \in 1..Rounds : m # n => OneExitOf(m)'
    <3>1. \A p \in Orders : p[1] # n => order'[p] = order[p]
      BY <2>5
    <3>2. work'.stage # "entry"
      BY <2>3
    <3>. QED
      BY <3>1, <3>2, OthersStay
  <2>. QED
    BY <2>1, <2>7, <2>8 DEF OneExit
<1>16. ASSUME Answer PROVE OneExit'
  <2>1. UNCHANGED order /\ (work'.stage = "entry" => work' = work)
    BY <1>16 DEF Answer, feedVars, engineVars, Idle, AuditTypes, Works
  <2>. QED
    BY <2>1, RoundsStay
<1>17. ASSUME Record PROVE OneExit'
  <2>1. UNCHANGED order /\ (work'.stage = "entry" => work' = work)
    BY <1>17 DEF Record, feedVars, engineVars, Idle, AuditTypes, Works
  <2>. QED
    BY <2>1, RoundsStay
<1>18. ASSUME RecordFails PROVE OneExit'
  <2>1. UNCHANGED order /\ (work'.stage = "entry" => work' = work)
    BY <1>18 DEF RecordFails, Idle, feedVars, engineVars, Idle, AuditTypes, Works
  <2>. QED
    BY <2>1, RoundsStay
<1>19. ASSUME StopFeed PROVE OneExit'
  <2>1. UNCHANGED order /\ (work'.stage = "entry" => work' = work)
    BY <1>19 DEF StopFeed, Off, feedVars, engineVars, Idle, AuditTypes, Works
  <2>. QED
    BY <2>1, RoundsStay
<1>20. ASSUME CancelTasks PROVE OneExit'
  <2>1. UNCHANGED order /\ (work'.stage = "entry" => work' = work)
    BY <1>20 DEF CancelTasks, Idle, feedVars, engineVars, Idle, AuditTypes, Works
  <2>. QED
    BY <2>1, RoundsStay
<1>21. ASSUME NEW n \in 1..Rounds, PlaceEntry(n) PROVE OneExit'
  <2>1. \A k \in Kinds : <<n, k>> \in Orders
    BY OrderIds
  <2>2. /\ order[<<n, "entry">>].status = "none" /\ work'.order = <<n, "entry">>
        /\ order' = [order EXCEPT ![<<n, "entry">>].status = "NEW"]
    BY <1>21 DEF PlaceEntry, None
  <2>3. \A p \in Orders : p # <<n, "entry">> => order'[p] = order[p]
    BY <2>1, <2>2 DEF OrderTypes
  <2>4. \A k \in Kinds : k # "entry" => order'[<<n, k>>] = order[<<n, k>>]
    BY <2>1, <2>3
  <2>5. \A k \in Exits : order[<<n, k>>].status = "none"
    BY <2>2 DEF OneExit, OneExitOf
  <2>6. OneExitOf(n)'
    BY <2>4, <2>5 DEF OneExitOf, Exits, Kinds, Open
  <2>7. \A m \in 1..Rounds : m # n => OneExitOf(m)'
    <3>1. \A p \in Orders : p[1] # n => order'[p] = order[p]
      BY <2>3
    <3>2. work'.order[1] = n
      BY <2>2
    <3>. QED
      BY <3>1, <3>2, OthersStay
  <2>. QED
    BY <2>6, <2>7 DEF OneExit
<1>22. ASSUME NEW n \in 1..Rounds, PlaceClose(n) PROVE OneExit'
  <2>1. \A k \in Kinds : <<n, k>> \in Orders /\ Filled(n, k) \in Nat
    BY OrderIds, HeldTypes
  <2>2. /\ order[<<n, "model">>].status = "none" /\ work'.stage = "close" /\ Held(n) > 0
        /\ order' = [order EXCEPT ![<<n, "model">>].status = "NEW"]
    BY <1>22 DEF PlaceClose, None
  <2>3. /\ order'[<<n, "model">>].status = "NEW" /\ order'[<<n, "model">>].filled = order[<<n, "model">>].filled
        /\ \A p \in Orders : p # <<n, "model">> => order'[p] = order[p]
    BY <2>1, <2>2 DEF OrderTypes, State, Kinds
  <2>4. \A k \in Kinds : k # "model" => order'[<<n, k>>] = order[<<n, k>>]
    BY <2>1, <2>3
  <2>5. Held(n)' = Held(n) /\ Filled(n, "leg")' = Filled(n, "leg")
    BY <2>3, <2>4 DEF Held, Filled, Kinds
  <2>6. order[<<n, "entry">>].status # "none"
    <3>1. order[<<n, "entry">>].status = "none" => Filled(n, "entry") = 0
      BY <2>1 DEF OrderTypes, Filled, Kinds
    <3>. QED
      BY <2>1, <2>2, <3>1 DEF Held, Kinds
  <2>7. OneExitOf(n)'
    BY <2>2, <2>3, <2>4, <2>5, <2>6 DEF OneExit, OneExitOf, Exits, Kinds
  <2>8. \A m \in 1..Rounds : m # n => OneExitOf(m)'
    <3>1. \A p \in Orders : p[1] # n => order'[p] = order[p]
      BY <2>3
    <3>. QED
      BY <2>2, <3>1, OthersStay
  <2>. QED
    BY <2>7, <2>8 DEF OneExit
<1>23. ASSUME NEW n \in 1..Rounds, CloseManually(n) PROVE OneExit'
  <2>1. \A k \in Kinds : <<n, k>> \in Orders /\ Filled(n, k) \in Nat
    BY OrderIds, HeldTypes
  <2>. DEFINE gone == IF IsOpen(<<n, "leg">>) THEN [order[<<n, "leg">>] EXCEPT !.status = "CANCELED"]
                      ELSE order[<<n, "leg">>]
  <2>2. /\ order[<<n, "manual">>] = None /\ work'.stage = "record" /\ Held(n) > 0
        /\ order' = [order EXCEPT ![<<n, "manual">>] = [status |-> "FILLED", filled |-> Held(n)],
                                  ![<<n, "leg">>] = gone]
    BY <1>23 DEF CloseManually
  <2>3. /\ gone.filled = order[<<n, "leg">>].filled
        /\ gone.status = (IF IsOpen(<<n, "leg">>) THEN "CANCELED" ELSE order[<<n, "leg">>].status)
    BY <2>1 DEF OrderTypes, State, Kinds
  <2>. HIDE DEF gone
  <2>4. /\ order'[<<n, "manual">>] = [status |-> "FILLED", filled |-> Held(n)]
        /\ order'[<<n, "leg">>] = gone
        /\ \A p \in Orders : p # <<n, "manual">> /\ p # <<n, "leg">> => order'[p] = order[p]
    BY <2>1, <2>2 DEF OrderTypes, Kinds
  <2>5. order'[<<n, "entry">>] = order[<<n, "entry">>] /\ order'[<<n, "model">>] = order[<<n, "model">>]
    BY <2>1, <2>4 DEF Kinds
  <2>6. Held(n)' = 0 /\ Filled(n, "manual") = 0 /\ Filled(n, "leg")' = Filled(n, "leg")
    <3>1. /\ Filled(n, "entry") \in Nat /\ Filled(n, "leg") \in Nat /\ Filled(n, "model") \in Nat
      BY <2>1 DEF Kinds
    <3>2. /\ Filled(n, "entry")' = Filled(n, "entry") /\ Filled(n, "leg")' = Filled(n, "leg")
          /\ Filled(n, "model")' = Filled(n, "model")
      BY <2>3, <2>4, <2>5 DEF Filled
    <3>3. Filled(n, "manual")' = Held(n) /\ Filled(n, "manual") = 0
      BY <2>2, <2>4 DEF Filled, None
    <3>. QED
      BY <3>1, <3>2, <3>3 DEF Held
  <2>7. order[<<n, "entry">>].status # "none"
    <3>1. order[<<n, "entry">>].status = "none" => Filled(n, "entry") = 0
      BY <2>1 DEF OrderTypes, Filled, Kinds
    <3>. QED
      BY <2>1, <2>2, <3>1 DEF Held, Kinds
  <2>8. order[<<n, "leg">>].status # "FILLED"
    <3>1. OneExitOf(n) /\ Held(n) # 0
      BY <2>2 DEF OneExit
    <3>. QED
      BY <3>1, ExitKinds DEF OneExitOf
  <2>9. OneExitOf(n)'
    <3>1. order[<<n, "leg">>].status # "none" => order[<<n, "entry">>].status \in Dead
      BY DEF OneExit, OneExitOf
    <3>2. order'[<<n, "leg">>].status \notin Open /\ order'[<<n, "leg">>].status # "FILLED"
      BY <2>3, <2>4, <2>8 DEF IsOpen, Open
    <3>3. order'[<<n, "leg">>].status # "none" => order[<<n, "leg">>].status # "none"
      BY <2>3, <2>4 DEF IsOpen, Open
    <3>. QED
      BY <2>2, <2>5, <2>6, <2>7, <3>1, <3>2, <3>3 DEF OneExitOf
  <2>10. \A m \in 1..Rounds : m # n => OneExitOf(m)'
    <3>1. \A p \in Orders : p[1] # n => order'[p] = order[p]
      BY <2>4
    <3>. QED
      BY <2>2, <3>1, OthersStay
  <2>. QED
    BY <2>9, <2>10 DEF OneExit
<1>24. ASSUME BeginPoll PROVE OneExit'
  <2>1. UNCHANGED order /\ (work'.stage = "entry" => work' = work)
    BY <1>24 DEF BeginPoll, feedVars, engineVars, Idle, AuditTypes, Works
  <2>. QED
    BY <2>1, RoundsStay
<1>25. ASSUME ReadAccount PROVE OneExit'
  <2>1. UNCHANGED order /\ (work'.stage = "entry" => work' = work)
    BY <1>25 DEF ReadAccount, Ask, feedVars, engineVars, Idle, AuditTypes, Works
  <2>. QED
    BY <2>1, RoundsStay
<1>26. ASSUME AccountFails PROVE OneExit'
  <2>1. UNCHANGED order /\ (work'.stage = "entry" => work' = work)
    BY <1>26 DEF AccountFails, Ask, feedVars, engineVars, Idle, AuditTypes, Works
  <2>. QED
    BY <2>1, RoundsStay
<1>27. ASSUME StoreCopyFails PROVE OneExit'
  <2>1. UNCHANGED order /\ (work'.stage = "entry" => work' = work)
    BY <1>27 DEF StoreCopyFails, NoPoll, feedVars, engineVars, Idle, AuditTypes, Works
  <2>. QED
    BY <2>1, RoundsStay
<1>28. ASSUME EndPoll PROVE OneExit'
  <2>1. UNCHANGED order /\ (work'.stage = "entry" => work' = work)
    BY <1>28 DEF EndPoll, NoPoll, feedVars, engineVars, Idle, AuditTypes, Works
  <2>. QED
    BY <2>1, RoundsStay
<1>29. ASSUME NEW o \in Orders, FindFill(o) PROVE OneExit'
  <2>1. UNCHANGED order /\ (work'.stage = "entry" => work' = work)
    BY <1>29 DEF FindFill, feedVars, engineVars, Idle, AuditTypes, Works
  <2>. QED
    BY <2>1, RoundsStay
<1>30. ASSUME NEW o \in Orders, FindNothing(o) PROVE OneExit'
  <2>1. UNCHANGED order /\ (work'.stage = "entry" => work' = work)
    BY <1>30 DEF FindNothing, feedVars, engineVars, Idle, AuditTypes, Works
  <2>. QED
    BY <2>1, RoundsStay
<1>31. ASSUME NEW o \in Orders, LookUpCopy(o) PROVE OneExit'
  <2>1. UNCHANGED order /\ (work'.stage = "entry" => work' = work)
    BY <1>31 DEF LookUpCopy, feedVars, engineVars, Idle, AuditTypes, Works
  <2>. QED
    BY <2>1, RoundsStay
<1>32. ASSUME NEW o \in Orders, StoreCopy(o) PROVE OneExit'
  <2>1. UNCHANGED order /\ (work'.stage = "entry" => work' = work)
    BY <1>32 DEF StoreCopy, Store, feedVars, engineVars, Idle, AuditTypes, Works
  <2>. QED
    BY <2>1, RoundsStay
<1>. QED
  BY <1>1, <1>2, <1>3, <1>4, <1>5, <1>6, <1>7, <1>8, <1>9, <1>10, <1>11, <1>12, <1>13, <1>14,
     <1>15, <1>16, <1>17, <1>18, <1>19, <1>20, <1>21, <1>22, <1>23, <1>24, <1>25, <1>26, <1>27,
     <1>28, <1>29, <1>30, <1>31, <1>32
     DEF Next, Exchange, Stream, Engine, Fills

\* The feed has the first event in hand, and its look-up holds, whatever a
\* request stores meanwhile.
LEMMA EventInHandStep ==
  ASSUME OrderTypes, AuditTypes, OneOrder, EventInHand, ExitsOnTheirWay, [Next]_vars
  PROVE  EventInHand'
<1>1. CASE UNCHANGED vars
  <2>1. UNCHANGED <<feed, wire, events, tasks>>
    BY <1>1 DEF feedVars, engineVars, vars
  <2>. QED
    BY <2>1, HandStays, TableStays DEF EventInHand
<1>2. ASSUME NEW n \in 1..Rounds, EntryFills(n), UNCHANGED <<engineVars, poll>>
      PROVE  EventInHand'
  <2>1. <<n, "entry">> \in Orders /\ Filled(n, "entry") \in Nat
    BY OrderIds, HeldTypes DEF Kinds
  <2>2. PICK k \in (Filled(n, "entry") + 1)..Size :
          Turn(<<n, "entry">>, IF k = Size THEN "FILLED" ELSE "PARTIALLY_FILLED", k)
    BY <1>2 DEF EntryFills
  <2>. DEFINE status == IF k = Size THEN "FILLED" ELSE "PARTIALLY_FILLED"
  <2>3. status \in {"PARTIALLY_FILLED"} \cup Dead /\ Turn(<<n, "entry">>, status, k) /\ k \in Nat
    BY <2>1, <2>2, FeedAssumption DEF Open, Dead
  <2>. HIDE DEF status
  <2>9. UNCHANGED <<feed, tasks, events>>
    BY <1>2 DEF EntryFills, engineVars
  <2>. QED
    BY <2>9, <2>1, <2>3, TurnKeepsHead
<1>3. ASSUME NEW n \in 1..Rounds, LegFires(n), UNCHANGED <<engineVars, poll>>
      PROVE  EventInHand'
  <2>1. <<n, "leg">> \in Orders /\ Held(n) \in Int
    BY OrderIds, HeldTypes DEF Kinds
  <2>2. Held(n) \in Nat /\ Turn(<<n, "leg">>, "FILLED", Held(n))
    BY <1>3, <2>1 DEF LegFires
  <2>9. UNCHANGED <<feed, tasks, events>>
    BY <1>3 DEF LegFires, engineVars
  <2>. QED
    BY <2>9, <2>1, <2>2, TurnKeepsHead DEF Dead
<1>4. ASSUME NEW n \in 1..Rounds, ModelFills(n), UNCHANGED <<engineVars, poll>>
      PROVE  EventInHand'
  <2>1. <<n, "model">> \in Orders /\ Filled(n, "model") \in Nat /\ Held(n) \in Int
    BY OrderIds, HeldTypes DEF Kinds
  <2>2. PICK status \in {"PARTIALLY_FILLED"} \cup Dead, filled \in Nat : Turn(<<n, "model">>, status, filled)
    BY <1>4, <2>1 DEF ModelFills, Open, Dead
  <2>9. UNCHANGED <<feed, tasks, events>>
    BY <1>4 DEF ModelFills, engineVars
  <2>. QED
    BY <2>9, <2>1, <2>2, TurnKeepsHead
<1>5. ASSUME Connect, UNCHANGED <<engineVars, poll>> PROVE EventInHand'
  <2>1. UNCHANGED <<feed, wire, events, tasks>>
    BY <1>5 DEF Connect, engineVars
  <2>. QED
    BY <2>1, HandStays, TableStays DEF EventInHand
<1>6. ASSUME Disconnect, UNCHANGED <<engineVars, poll>> PROVE EventInHand'
  <2>1. PICK k \in InHand..Len(wire) : wire' = SubSeq(wire, 1, k)
    BY <1>6 DEF Disconnect
  <2>2. Busy => wire' # <<>> /\ Head(wire') = Head(wire)
    <3>1. ASSUME Busy PROVE wire' # <<>> /\ Head(wire') = Head(wire)
      <4>1. k \in 1..Len(wire) /\ wire \in Seq(Event)
        BY <3>1 DEF InHand, AuditTypes
      <4>2. Len(wire') = k /\ wire' \in Seq(Event) /\ wire'[1] = wire[1]
        BY <2>1, <4>1
      <4>. QED
        BY <4>1, <4>2
    <3>. QED
      BY <3>1
  <2>3. UNCHANGED <<feed, events, tasks>>
    BY <1>6 DEF Disconnect, engineVars
  <2>. QED
    BY <2>2, <2>3, HandStays, TableStays DEF EventInHand
<1>7. ASSUME Receive, UNCHANGED <<engineVars, poll>> PROVE EventInHand'
  <2>1. feed'.pc = "look" /\ wire' = wire /\ wire # <<>> /\ tasks'
    BY <1>7 DEF Receive, EventInHand, AuditTypes, Places, engineVars
  <2>. QED
    BY <2>1 DEF EventInHand
<1>8. ASSUME LookUp, UNCHANGED <<engineVars, poll>> PROVE EventInHand'
  <2>1. /\ feed' = [pc |-> "store", found |-> Found(Head(wire))] /\ tasks' /\ wire # <<>>
        /\ UNCHANGED <<wire, events>>
    BY <1>8 DEF LookUp, EventInHand, Busy, engineVars
  <2>2. Looked(Found(Head(wire)), Head(wire))
    BY FoundTypes
  <2>3. Looked(feed.found, Head(wire))'
    BY <2>1, <2>2 DEF Looked
  <2>. QED
    BY <2>1, <2>3 DEF EventInHand
<1>9. ASSUME StoreEvent, UNCHANGED <<engineVars, poll>> PROVE EventInHand'
  <2>1. wire # <<>> /\ tasks' /\ GoOn
    BY <1>9 DEF StoreEvent, EventInHand, Busy, engineVars
  <2>2. CASE Freezes(Head(wire))
    <3>1. feed'.pc = "handle" /\ wire' = wire
      BY <2>1, <2>2 DEF GoOn
    <3>. QED
      BY <2>1, <2>2, <3>1 DEF EventInHand, Freezes
  <2>3. CASE ~Freezes(Head(wire))
    <3>1. feed'.pc = "wait"
      BY <2>1, <2>3 DEF GoOn
    <3>. QED
      BY <2>1, <3>1 DEF EventInHand, Busy
  <2>. QED
    BY <2>2, <2>3
<1>10. ASSUME StoreFails, UNCHANGED <<engineVars, poll>> PROVE EventInHand'
  <2>1. wire # <<>> /\ tasks' /\ GoOn
    BY <1>10 DEF StoreFails, EventInHand, Busy, engineVars
  <2>2. CASE Freezes(Head(wire))
    <3>1. feed'.pc = "handle" /\ wire' = wire
      BY <2>1, <2>2 DEF GoOn
    <3>. QED
      BY <2>1, <2>2, <3>1 DEF EventInHand, Freezes
  <2>3. CASE ~Freezes(Head(wire))
    <3>1. feed'.pc = "wait"
      BY <2>1, <2>3 DEF GoOn
    <3>. QED
      BY <2>1, <3>1 DEF EventInHand, Busy
  <2>. QED
    BY <2>2, <2>3
<1>11. ASSUME Handle, UNCHANGED <<engineVars, poll>> PROVE EventInHand'
  <2>1. feed'.pc = "wait" /\ tasks'
    BY <1>11 DEF Handle, EventInHand, AuditTypes, Places, engineVars
  <2>. QED
    BY <2>1 DEF EventInHand, Busy
<1>12. ASSUME HandleFails, UNCHANGED <<engineVars, poll>> PROVE EventInHand'
  <2>1. feed'.pc = "dead" /\ tasks'
    BY <1>12 DEF HandleFails, EventInHand, AuditTypes, Places, engineVars
  <2>. QED
    BY <2>1 DEF EventInHand, Busy
<1>13. ASSUME Start PROVE EventInHand'
  <2>1. feed'.pc = "wait" /\ tasks'
    BY <1>13 DEF Start, Off
  <2>. QED
    BY <2>1 DEF EventInHand, Busy
<1>14. ASSUME CancelRemainder PROVE EventInHand'
  <2>1. work.order \in Orders /\ order[work.order].filled \in Nat
    BY DEF AuditTypes, Works, OrderTypes, State
  <2>9. UNCHANGED <<feed, tasks, events>>
    BY <1>14 DEF CancelRemainder, engineVars
  <2>. QED
    BY <2>9, <1>14, <2>1, TurnKeepsHead DEF CancelRemainder, Dead
<1>15. ASSUME Bracket PROVE EventInHand'
  <2>1. UNCHANGED <<feed, wire, events, tasks>>
    BY <1>15 DEF Bracket, feedVars, engineVars, vars
  <2>. QED
    BY <2>1, HandStays, TableStays DEF EventInHand
<1>16. ASSUME Answer PROVE EventInHand'
  <2>1. UNCHANGED <<feed, wire, events, tasks>>
    BY <1>16 DEF Answer, feedVars, engineVars, vars
  <2>. QED
    BY <2>1, HandStays, TableStays DEF EventInHand
<1>17. ASSUME Record PROVE EventInHand'
  <2>1. UNCHANGED <<feed, wire, events, tasks>>
    BY <1>17 DEF Record, feedVars, engineVars, vars
  <2>. QED
    BY <2>1, HandStays, TableStays DEF EventInHand
<1>18. ASSUME RecordFails PROVE EventInHand'
  <2>1. UNCHANGED <<feed, wire, events, tasks>>
    BY <1>18 DEF RecordFails, Idle, feedVars, engineVars, vars
  <2>. QED
    BY <2>1, HandStays, TableStays DEF EventInHand
<1>19. ASSUME StopFeed PROVE EventInHand'
  <2>1. feed'.pc = "off"
    BY <1>19 DEF StopFeed, Off
  <2>. QED
    BY <2>1 DEF EventInHand, Busy
<1>20. ASSUME CancelTasks PROVE EventInHand'
  <2>1. feed'.pc = "off"
    BY <1>20 DEF CancelTasks, feedVars
  <2>. QED
    BY <2>1 DEF EventInHand, Busy
<1>21. ASSUME NEW n \in 1..Rounds, PlaceEntry(n) PROVE EventInHand'
  <2>1. UNCHANGED <<feed, wire, events, tasks>>
    BY <1>21 DEF PlaceEntry, feedVars, engineVars, vars
  <2>. QED
    BY <2>1, HandStays, TableStays DEF EventInHand
<1>22. ASSUME NEW n \in 1..Rounds, PlaceClose(n) PROVE EventInHand'
  <2>1. UNCHANGED <<feed, wire, events, tasks>>
    BY <1>22 DEF PlaceClose, feedVars, engineVars, vars
  <2>. QED
    BY <2>1, HandStays, TableStays DEF EventInHand
<1>23. ASSUME NEW n \in 1..Rounds, CloseManually(n) PROVE EventInHand'
  <2>1. UNCHANGED <<feed, wire, events, tasks>>
    BY <1>23 DEF CloseManually, feedVars, engineVars, vars
  <2>. QED
    BY <2>1, HandStays, TableStays DEF EventInHand
<1>24. ASSUME BeginPoll PROVE EventInHand'
  <2>1. UNCHANGED <<feed, wire, events, tasks>>
    BY <1>24 DEF BeginPoll, feedVars, engineVars, vars
  <2>. QED
    BY <2>1, HandStays, TableStays DEF EventInHand
<1>25. ASSUME ReadAccount PROVE EventInHand'
  <2>1. UNCHANGED <<feed, wire, events, tasks>>
    BY <1>25 DEF ReadAccount, Ask, feedVars, engineVars, vars
  <2>. QED
    BY <2>1, HandStays, TableStays DEF EventInHand
<1>26. ASSUME AccountFails PROVE EventInHand'
  <2>1. UNCHANGED <<feed, wire, events, tasks>>
    BY <1>26 DEF AccountFails, Ask, feedVars, engineVars, vars
  <2>. QED
    BY <2>1, HandStays, TableStays DEF EventInHand
<1>27. ASSUME StoreCopyFails PROVE EventInHand'
  <2>1. UNCHANGED <<feed, wire, events, tasks>>
    BY <1>27 DEF StoreCopyFails, NoPoll, feedVars, engineVars, vars
  <2>. QED
    BY <2>1, HandStays, TableStays DEF EventInHand
<1>28. ASSUME EndPoll PROVE EventInHand'
  <2>1. UNCHANGED <<feed, wire, events, tasks>>
    BY <1>28 DEF EndPoll, NoPoll, feedVars, engineVars, vars
  <2>. QED
    BY <2>1, HandStays, TableStays DEF EventInHand
<1>29. ASSUME NEW o \in Orders, FindFill(o) PROVE EventInHand'
  <2>1. UNCHANGED <<feed, wire, events, tasks>>
    BY <1>29 DEF FindFill, feedVars, engineVars, vars
  <2>. QED
    BY <2>1, HandStays, TableStays DEF EventInHand
<1>30. ASSUME NEW o \in Orders, FindNothing(o) PROVE EventInHand'
  <2>1. UNCHANGED <<feed, wire, events, tasks>>
    BY <1>30 DEF FindNothing, feedVars, engineVars, vars
  <2>. QED
    BY <2>1, HandStays, TableStays DEF EventInHand
<1>31. ASSUME NEW o \in Orders, LookUpCopy(o) PROVE EventInHand'
  <2>1. UNCHANGED <<feed, wire, events, tasks>>
    BY <1>31 DEF LookUpCopy, feedVars, engineVars, vars
  <2>. QED
    BY <2>1, HandStays, TableStays DEF EventInHand
<1>32. ASSUME NEW o \in Orders, StoreCopy(o) PROVE EventInHand'
  <2>1. Copy(o) \in Event /\ order[o].status = "FILLED" /\ UNCHANGED <<order, work>>
    BY <1>32 DEF StoreCopy, ExitsOnTheirWay, Copy, Event, OrderTypes, State, Dead, engineVars
  <2>2. poll.found \in Nat /\ Looked(poll.found, Copy(o))
    BY <1>32 DEF StoreCopy, AuditTypes, Polls, ExitsOnTheirWay
  <2>3. UNCHANGED <<feed, wire, tasks>> /\ EventsStay
    BY <1>32, <2>1, <2>2, StoredStays DEF StoreCopy, engineVars
  <2>. QED
    BY <2>3, HandStays DEF EventInHand
<1>. QED
  BY <1>1, <1>2, <1>3, <1>4, <1>5, <1>6, <1>7, <1>8, <1>9, <1>10, <1>11, <1>12, <1>13, <1>14,
     <1>15, <1>16, <1>17, <1>18, <1>19, <1>20, <1>21, <1>22, <1>23, <1>24, <1>25, <1>26, <1>27,
     <1>28, <1>29, <1>30, <1>31, <1>32
     DEF Next, Exchange, Stream, Engine, Fills

\* A request brings the exits that were due when it began.
LEMMA ExitsOnTheirWayStep ==
  ASSUME OrderTypes, AuditTypes, NothingInvented, RowsFollow, OneOrder, OneExit, EventInHand,
         ExitsOnTheirWay, OrderMoves, [Next]_vars
  PROVE  ExitsOnTheirWay'
<1>1. CASE UNCHANGED vars
  <2>1. UNCHANGED <<events, poll>>
    BY <1>1 DEF feedVars, vars
  <2>. QED
    BY <2>1, WayStays, TableStays
<1>2. ASSUME NEW n \in 1..Rounds, EntryFills(n), UNCHANGED <<engineVars, poll>>
      PROVE  ExitsOnTheirWay'
  <2>1. UNCHANGED <<events, poll>>
    BY <1>2 DEF EntryFills, Turn, feedVars, vars
  <2>. QED
    BY <2>1, WayStays, TableStays
<1>3. ASSUME NEW n \in 1..Rounds, LegFires(n), UNCHANGED <<engineVars, poll>>
      PROVE  ExitsOnTheirWay'
  <2>1. UNCHANGED <<events, poll>>
    BY <1>3 DEF LegFires, Turn, feedVars, vars
  <2>. QED
    BY <2>1, WayStays, TableStays
<1>4. ASSUME NEW n \in 1..Rounds, ModelFills(n), UNCHANGED <<engineVars, poll>>
      PROVE  ExitsOnTheirWay'
  <2>1. UNCHANGED <<events, poll>>
    BY <1>4 DEF ModelFills, Turn, feedVars, vars
  <2>. QED
    BY <2>1, WayStays, TableStays
<1>5. ASSUME Connect, UNCHANGED <<engineVars, poll>> PROVE ExitsOnTheirWay'
  <2>1. UNCHANGED <<events, poll>>
    BY <1>5 DEF Connect, feedVars, vars
  <2>. QED
    BY <2>1, WayStays, TableStays
<1>6. ASSUME Disconnect, UNCHANGED <<engineVars, poll>> PROVE ExitsOnTheirWay'
  <2>1. UNCHANGED <<events, poll>>
    BY <1>6 DEF Disconnect, InHand, Busy, feedVars, vars
  <2>. QED
    BY <2>1, WayStays, TableStays
<1>7. ASSUME Receive, UNCHANGED <<engineVars, poll>> PROVE ExitsOnTheirWay'
  <2>1. UNCHANGED <<events, poll>>
    BY <1>7 DEF Receive, feedVars, vars
  <2>. QED
    BY <2>1, WayStays, TableStays
<1>8. ASSUME LookUp, UNCHANGED <<engineVars, poll>> PROVE ExitsOnTheirWay'
  <2>1. UNCHANGED <<events, poll>>
    BY <1>8 DEF LookUp, feedVars, vars
  <2>. QED
    BY <2>1, WayStays, TableStays
<1>9. ASSUME StoreEvent, UNCHANGED <<engineVars, poll>> PROVE ExitsOnTheirWay'
  <2>1. Head(wire) \in Event /\ feed.found \in Nat
    BY <1>9, HeadIsEvent DEF StoreEvent, EventInHand, Busy, AuditTypes, Places
  <2>2. EventsStay /\ UNCHANGED poll
    BY <1>9, <2>1, StoredStays DEF StoreEvent, EventInHand
  <2>. QED
    BY <2>2, WayStays
<1>10. ASSUME StoreFails, UNCHANGED <<engineVars, poll>> PROVE ExitsOnTheirWay'
  <2>1. UNCHANGED <<events, poll>>
    BY <1>10 DEF StoreFails, GoOn, feedVars, vars
  <2>. QED
    BY <2>1, WayStays, TableStays
<1>11. ASSUME Handle, UNCHANGED <<engineVars, poll>> PROVE ExitsOnTheirWay'
  <2>1. UNCHANGED <<events, poll>>
    BY <1>11 DEF Handle, Freeze, feedVars, vars
  <2>. QED
    BY <2>1, WayStays, TableStays
<1>12. ASSUME HandleFails, UNCHANGED <<engineVars, poll>> PROVE ExitsOnTheirWay'
  <2>1. UNCHANGED <<events, poll>>
    BY <1>12 DEF HandleFails, Freeze, feedVars, vars
  <2>. QED
    BY <2>1, WayStays, TableStays
<1>13. ASSUME Start PROVE ExitsOnTheirWay'
  <2>1. UNCHANGED <<events, poll>>
    BY <1>13 DEF Start, feedVars, vars
  <2>. QED
    BY <2>1, WayStays, TableStays
<1>14. ASSUME CancelRemainder PROVE ExitsOnTheirWay'
  <2>1. UNCHANGED <<events, poll>>
    BY <1>14 DEF CancelRemainder, Turn, feedVars, vars
  <2>. QED
    BY <2>1, WayStays, TableStays
<1>15. ASSUME Bracket PROVE ExitsOnTheirWay'
  <2>1. UNCHANGED <<events, poll>>
    BY <1>15 DEF Bracket, feedVars, vars
  <2>. QED
    BY <2>1, WayStays, TableStays
<1>16. ASSUME Answer PROVE ExitsOnTheirWay'
  <2>1. UNCHANGED <<events, poll>>
    BY <1>16 DEF Answer, feedVars, vars
  <2>. QED
    BY <2>1, WayStays, TableStays
<1>17. ASSUME Record PROVE ExitsOnTheirWay'
  <2>1. UNCHANGED <<events, poll>>
    BY <1>17 DEF Record, feedVars, vars
  <2>. QED
    BY <2>1, WayStays, TableStays
<1>18. ASSUME RecordFails PROVE ExitsOnTheirWay'
  <2>1. UNCHANGED <<events, poll>>
    BY <1>18 DEF RecordFails, Idle, feedVars, vars
  <2>. QED
    BY <2>1, WayStays, TableStays
<1>19. ASSUME StopFeed PROVE ExitsOnTheirWay'
  <2>1. UNCHANGED <<events, poll>>
    BY <1>19 DEF StopFeed, Off, feedVars, vars
  <2>. QED
    BY <2>1, WayStays, TableStays
<1>20. ASSUME CancelTasks PROVE ExitsOnTheirWay'
  <2>1. UNCHANGED <<events, poll>>
    BY <1>20 DEF CancelTasks, Idle, feedVars, vars
  <2>. QED
    BY <2>1, WayStays, TableStays
<1>21. ASSUME NEW n \in 1..Rounds, PlaceEntry(n) PROVE ExitsOnTheirWay'
  <2>1. UNCHANGED <<events, poll>>
    BY <1>21 DEF PlaceEntry, feedVars, vars
  <2>. QED
    BY <2>1, WayStays, TableStays
<1>22. ASSUME NEW n \in 1..Rounds, PlaceClose(n) PROVE ExitsOnTheirWay'
  <2>1. UNCHANGED <<events, poll>>
    BY <1>22 DEF PlaceClose, feedVars, vars
  <2>. QED
    BY <2>1, WayStays, TableStays
<1>23. ASSUME NEW n \in 1..Rounds, CloseManually(n) PROVE ExitsOnTheirWay'
  <2>1. UNCHANGED <<events, poll>>
    BY <1>23 DEF CloseManually, feedVars, vars
  <2>. QED
    BY <2>1, WayStays, TableStays
<1>24. ASSUME BeginPoll PROVE ExitsOnTheirWay'
  <2>1. /\ poll'.pc = "account" /\ poll'.exits = Unexplained /\ UNCHANGED <<order, events>>
        /\ \A n \in poll'.due : /\ n \in 1..Rounds /\ <<n, "entry">> \in Listed
                               /\ ~Mistaken(n) /\ ~PartExplains(n)
                               /\ order[<<n, "leg">>].status = "FILLED"
    BY <1>24 DEF BeginPoll, feedVars, AuditTypes, Polls
  <2>2. ASSUME NEW n \in 1..Rounds, <<n, "entry">> \in Listed, ~Mistaken(n), ~PartExplains(n),
               order[<<n, "leg">>].status = "FILLED", n \in Related
        PROVE  Told(n)
    BY <2>2, RelatedIsTold
  <2>3. \A n \in 1..Rounds : <<n, "entry">> \in Listed /\ n \notin Related => n \in Unexplained
    BY DEF Unexplained
  <2>4. \A n \in 1..Rounds : Told(n)' <=> Told(n)
    BY <2>1 DEF Told
  <2>. QED
    BY <2>1, <2>2, <2>3, <2>4 DEF ExitsOnTheirWay
<1>25. ASSUME ReadAccount PROVE ExitsOnTheirWay'
  <2>1. PICK flat \in BOOLEAN : Ask(flat)
    BY <1>25 DEF ReadAccount, Flat
  <2>2. UNCHANGED <<order, events>> /\ poll.pc = "account"
    BY <1>25 DEF ReadAccount, feedVars
  <2>3. /\ poll'.pc = "ask" /\ poll'.due \subseteq poll.due
        /\ \A n \in poll.exits : poll'.due # {} => <<n, "leg">> \in poll'.todo
    BY <2>1 DEF Ask, AuditTypes, Polls
  <2>4. \A n : Told(n)' <=> Told(n)
    BY <2>2 DEF Told
  <2>. QED
    BY <2>2, <2>3, <2>4 DEF ExitsOnTheirWay
<1>26. ASSUME AccountFails PROVE ExitsOnTheirWay'
  <2>1. PICK flat \in BOOLEAN : Ask(flat)
    BY <1>26 DEF AccountFails, Flat
  <2>2. UNCHANGED <<order, events>> /\ poll.pc = "account"
    BY <1>26 DEF AccountFails, feedVars
  <2>3. /\ poll'.pc = "ask" /\ poll'.due \subseteq poll.due
        /\ \A n \in poll.exits : poll'.due # {} => <<n, "leg">> \in poll'.todo
    BY <2>1 DEF Ask, AuditTypes, Polls
  <2>4. \A n : Told(n)' <=> Told(n)
    BY <2>2 DEF Told
  <2>. QED
    BY <2>2, <2>3, <2>4 DEF ExitsOnTheirWay
<1>27. ASSUME StoreCopyFails PROVE ExitsOnTheirWay'
  <2>1. poll'.pc = "idle" /\ poll'.due = {}
    BY <1>27 DEF StoreCopyFails, NoPoll
  <2>. QED
    BY <2>1 DEF ExitsOnTheirWay
<1>28. ASSUME EndPoll PROVE ExitsOnTheirWay'
  <2>1. poll'.pc = "idle" /\ poll'.due = {}
    BY <1>28 DEF EndPoll, NoPoll
  <2>. QED
    BY <2>1 DEF ExitsOnTheirWay
<1>29. ASSUME NEW o \in Orders, FindFill(o) PROVE ExitsOnTheirWay'
  <2>1. /\ poll.pc = "ask" /\ poll'.pc = "look" /\ poll'.todo = poll.todo \ {o} /\ poll'.at = {o}
        /\ poll'.due = poll.due /\ order[o].status = "FILLED" /\ UNCHANGED <<order, events>>
    BY <1>29 DEF FindFill, feedVars, AuditTypes, Polls
  <2>2. \A n : Told(n)' <=> Told(n)
    BY <2>1 DEF Told
  <2>. QED
    BY <2>1, <2>2 DEF ExitsOnTheirWay
<1>30. ASSUME NEW o \in Orders, FindNothing(o) PROVE ExitsOnTheirWay'
  <2>1. /\ poll.pc = "ask" /\ poll'.pc = "ask" /\ poll'.todo = poll.todo \ {o}
        /\ poll'.due = (IF order[o].status = "FILLED" THEN {} ELSE poll.due)
        /\ UNCHANGED <<order, events>>
    BY <1>30 DEF FindNothing, feedVars, AuditTypes, Polls
  <2>2. \A n : Told(n)' <=> Told(n)
    BY <2>1 DEF Told
  <2>. QED
    BY <2>1, <2>2 DEF ExitsOnTheirWay
<1>31. ASSUME NEW o \in Orders, LookUpCopy(o) PROVE ExitsOnTheirWay'
  <2>1. /\ poll.pc = "look" /\ poll'.pc = "store" /\ poll'.todo = poll.todo /\ poll.at = {o}
        /\ poll'.at = {o} /\ poll'.found = Found(Copy(o))
        /\ poll'.due = poll.due /\ UNCHANGED <<order, events>>
    BY <1>31 DEF LookUpCopy, feedVars, AuditTypes, Polls
  <2>2. order[o].status = "FILLED"
    BY <2>1 DEF ExitsOnTheirWay
  <2>3. Looked(Found(Copy(o)), Copy(o))
    BY FoundTypes
  <2>4. Looked(poll.found, Copy(o))'
    BY <2>1, <2>3 DEF Looked, Copy
  <2>5. \A n : Told(n)' <=> Told(n)
    BY <2>1 DEF Told
  <2>. QED
    BY <2>1, <2>2, <2>4, <2>5 DEF ExitsOnTheirWay
<1>32. ASSUME NEW o \in Orders, StoreCopy(o) PROVE ExitsOnTheirWay'
  <2>1. Copy(o) \in Event /\ order[o].status = "FILLED" /\ UNCHANGED <<order, work>>
    BY <1>32 DEF StoreCopy, ExitsOnTheirWay, Copy, Event, OrderTypes, State, Dead, engineVars
  <2>2. poll.found \in Nat /\ Looked(poll.found, Copy(o))
    BY <1>32 DEF StoreCopy, AuditTypes, Polls, ExitsOnTheirWay
  <2>3. EventsStay
    BY <1>32, <2>1, <2>2, StoredStays DEF StoreCopy
  <2>4. \E i \in 1..Len(events') : events'[i] = Copy(o) \/ SameFill(events'[i], Copy(o))
    BY <1>32, <2>1, <2>2, StoreTypes DEF StoreCopy
  <2>5. \A n : o = <<n, "leg">> => Told(n)'
    BY <2>4 DEF Told, SameFill, Copy
  <2>6. /\ poll.pc = "store" /\ poll'.pc = "ask" /\ poll'.todo = poll.todo /\ poll.at = {o}
        /\ poll'.due = poll.due /\ poll.due \subseteq 1..Rounds
    BY <1>32 DEF StoreCopy, AuditTypes, Polls
  <2>7. ASSUME NEW n \in poll.due
        PROVE  order[<<n, "leg">>].status = "FILLED" /\ (Told(n)' \/ <<n, "leg">> \in poll.todo)
    <3>1. n \in 1..Rounds /\ (Told(n) => Told(n)')
      BY <2>3, <2>6 DEF EventsStay
    <3>. QED
      BY <2>5, <2>6, <3>1 DEF ExitsOnTheirWay
  <2>. QED
    BY <2>1, <2>6, <2>7 DEF ExitsOnTheirWay
<1>. QED
  BY <1>1, <1>2, <1>3, <1>4, <1>5, <1>6, <1>7, <1>8, <1>9, <1>10, <1>11, <1>12, <1>13, <1>14,
     <1>15, <1>16, <1>17, <1>18, <1>19, <1>20, <1>21, <1>22, <1>23, <1>24, <1>25, <1>26, <1>27,
     <1>28, <1>29, <1>30, <1>31, <1>32
     DEF Next, Exchange, Stream, Engine, Fills

----------------------------------------------------------------------------
\* The invariant, and what it implies.

FillInvariant ==
  /\ OrderTypes /\ AuditTypes /\ NothingInvented /\ RowsFollow
  /\ OneOrder /\ OneExit /\ EventInHand /\ ExitsOnTheirWay

LEMMA FillStarts ==
  ASSUME Init
  PROVE  FillInvariant
<1>. DEFINE whole == [status |-> "FILLED", filled |-> Size]
<1>1. /\ connected = FALSE /\ wire = <<>> /\ feed = Off /\ tasks = FALSE /\ work = Idle /\ poll = NoPoll
  BY DEF Init
<1>2. whole \in State /\ None \in State /\ 1 \in 1..Rounds /\ <<1, "entry">> \in Orders
  <2>1. whole \in State /\ None \in State
    BY FeedAssumption DEF State, None, Dead
  <2>2. 1 \in 1..Rounds
    BY FeedAssumption
  <2>. QED
    BY <2>1, <2>2, OrderIds DEF Kinds
<1>3. PICK known \in {"nothing", "event", "row"} :
        /\ order = [o \in Orders |-> IF known # "nothing" /\ o \in {<<1, "entry">>, <<1, "leg">>}
                                     THEN whole ELSE None]
        /\ rows = [o \in Orders |-> IF known = "row" /\ o = <<1, "entry">> THEN whole ELSE None]
        /\ events = IF known = "event" THEN <<Live(<<1, "entry">>, "FILLED", Size)>> ELSE <<>>
  BY DEF Init
<1>. HIDE DEF whole
<1>4. OrderTypes
  BY <1>2, <1>3 DEF OrderTypes, None, whole
<1>5. events \in Seq(Event)
  <2>1. Live(<<1, "entry">>, "FILLED", Size) \in Event
    BY <1>2, FeedAssumption DEF Live, Event, Dead
  <2>. QED
    BY <1>3, <2>1
<1>6. AuditTypes
  <2>1. wire \in Seq(Event) /\ rows \in [Orders -> State]
    BY <1>1, <1>2, <1>3
  <2>2. work \in Works
    BY <1>1, <1>2 DEF Works, Idle
  <2>3. feed \in Places /\ poll \in Polls
    BY <1>1 DEF Places, Off, Polls, NoPoll
  <2>. QED
    BY <1>1, <1>5, <2>1, <2>2, <2>3 DEF AuditTypes
<1>7. \A i \in 1..Len(events) : /\ events[i].order = <<1, "entry">> /\ events[i].status = "FILLED"
                                /\ events[i].filled = Size
                                /\ order[<<1, "entry">>] = whole /\ rows[<<1, "entry">>] = None
  <2>1. CASE known = "event"
    <3>1. Len(events) = 1 /\ events[1] = Live(<<1, "entry">>, "FILLED", Size)
      BY <1>3, <2>1
    <3>2. order[<<1, "entry">>] = whole /\ rows[<<1, "entry">>] = None
      BY <1>2, <1>3, <2>1
    <3>. QED
      BY <3>1, <3>2 DEF Live
  <2>2. CASE known # "event"
    <3>1. events = <<>> /\ 1..Len(events) = {}
      BY <1>3, <2>2
    <3>. QED
      BY <3>1
  <2>. QED
    BY <2>1, <2>2
<1>8. whole.status = "FILLED" /\ whole.filled = Size /\ Size \in Nat
  BY FeedAssumption DEF whole
<1>9. NothingInvented
  <2>1. 1..Len(wire) = {} /\ work.stage = "idle"
    BY <1>1 DEF Idle
  <2>2. \A i \in 1..Len(events) : Behind(events[i], order[events[i].order])
    BY <1>7, <1>8 DEF Behind
  <2>. QED
    BY <2>1, <2>2 DEF NothingInvented
<1>10. RowsFollow
  <2>1. \A o \in Orders : rows[o] # None => rows[o] = whole /\ order[o] = whole
    BY <1>3
  <2>2. \A o \in Orders : rows[o] # None => Behind(rows[o], order[o])
    BY <1>8, <2>1 DEF Behind
  <2>3. \A n \in 1..Rounds : <<n, "leg">> \in Orders /\ <<n, "leg">> # <<1, "entry">>
    BY OrderIds DEF Kinds
  <2>. QED
    BY <1>3, <1>7, <2>2, <2>3 DEF RowsFollow
<1>11. OneOrder
  BY <1>1 DEF OneOrder, Idle
<1>12. OneExit
  <2>1. ASSUME NEW n \in 1..Rounds PROVE OneExitOf(n)
    <3>1. \A k \in Kinds : <<n, k>> \in Orders
      BY OrderIds
    <3>2. work.stage = "idle"
      BY <1>1 DEF Idle
    <3>3. order[<<n, "model">>] = None /\ order[<<n, "manual">>] = None
      BY <1>3, <3>1 DEF Kinds
    <3>4. \/ order[<<n, "entry">>] = None /\ order[<<n, "leg">>] = None
          \/ order[<<n, "entry">>] = whole /\ order[<<n, "leg">>] = whole
      BY <1>3, <3>1 DEF Kinds
    <3>5. CASE order[<<n, "entry">>] = None /\ order[<<n, "leg">>] = None
      BY <3>2, <3>3, <3>5, ExitKinds DEF OneExitOf, None, Filled, Open
    <3>6. CASE order[<<n, "entry">>] = whole /\ order[<<n, "leg">>] = whole
      <4>1. Held(n) = 0
        BY <1>8, <3>3, <3>6 DEF Held, Filled, None
      <4>. QED
        BY <1>8, <3>2, <3>3, <3>6, <4>1, ExitKinds DEF OneExitOf, None, Dead, Open
    <3>. QED
      BY <3>4, <3>5, <3>6
  <2>. QED
    BY <2>1 DEF OneExit
<1>13. EventInHand
  BY <1>1 DEF EventInHand, Off, Busy
<1>14. ExitsOnTheirWay
  BY <1>1 DEF ExitsOnTheirWay, NoPoll
<1>. QED
  BY <1>4, <1>6, <1>9, <1>10, <1>11, <1>12, <1>13, <1>14 DEF FillInvariant

LEMMA FillStep ==
  ASSUME FillInvariant, [Next]_vars
  PROVE  FillInvariant'
<1>. USE DEF FillInvariant
<1>1. OrderMoves
  BY OrdersMove
<1>2. WireMoves
  BY <1>1, WireTold
<1>3. OrderTypes'
  BY <1>1 DEF OrderMoves
<1>4. AuditTypes'
  BY AuditTypesStep
<1>5. NothingInvented'
  BY <1>1, <1>2, NothingInventedStep
<1>6. RowsFollow'
  BY <1>1, RowsFollowStep
<1>7. OneOrder'
  BY <1>1, OneOrderStep
<1>8. OneExit'
  BY <1>1, OneExitStep
<1>9. EventInHand'
  BY EventInHandStep
<1>10. ExitsOnTheirWay'
  BY <1>1, ExitsOnTheirWayStep
<1>. QED
  BY <1>3, <1>4, <1>5, <1>6, <1>7, <1>8, <1>9, <1>10

\* Every state of the records is one of these.
LEMMA FillsInOrder == Spec => []FillInvariant
<1>1. Init => FillInvariant
  BY FillStarts
<1>2. FillInvariant /\ [Next]_vars => FillInvariant'
  BY FillStep
<1>. QED
  BY <1>1, <1>2, PTL DEF Spec

----------------------------------------------------------------------------
\* What is listed.

\* The last live event of a final fill is kept; without one, its last copy.
LEMMA KeptExists ==
  ASSUME AuditTypes, NEW i \in Final
  PROVE  \E k \in Kept : events[k].order = events[i].order
<1>1. /\ Final \subseteq 1..Len(events) /\ Len(events) \in Nat
      /\ \A k \in Final : events[k].source \in {"live", "rest"} /\ events[k].status = "FILLED"
  <2>1. \A k \in 1..Len(events) : events[k] \in Event
    BY DEF AuditTypes
  <2>. QED
    BY <2>1 DEF AuditTypes, Final, Event
<1>. DEFINE same == {k \in Final : events[k].order = events[i].order}
            told == {k \in same : events[k].source = "live"}
<1>2. same # {} /\ same \subseteq 1..Len(events) /\ told \subseteq 1..Len(events)
  BY <1>1
<1>3. PICK m \in same : \/ events[m].source = "live" /\ \A k \in told : k <= m
                        \/ told = {} /\ \A k \in same : k <= m
  <2>1. CASE told # {}
    <3>1. \E m \in told : \A k \in told : k <= m
      BY <1>1, <1>2, <2>1, MaximumExists
    <3>. QED
      BY <3>1
  <2>2. CASE told = {}
    <3>1. \E m \in same : \A k \in same : k <= m
      BY <1>1, <1>2, MaximumExists
    <3>. QED
      BY <2>2, <3>1
  <2>. QED
    BY <2>1, <2>2
<1>4. ASSUME NEW j \in Final, SameFill(events[m], events[j]), j # m
      PROVE  IF events[m].source = events[j].source THEN m > j ELSE events[m].source = "live"
  <2>1. j \in same /\ j \in Int /\ m \in Int
    BY <1>1, <1>4 DEF SameFill
  <2>2. j <= m => m > j
    BY <1>4, <2>1
  <2>. QED
    BY <1>1, <1>3, <2>1, <2>2
<1>5. m \in Kept
  BY <1>3, <1>4 DEF Kept
<1>. QED
  BY <1>3, <1>5

\* Two that are kept would each come before the other.
LEMMA KeptOnce ==
  ASSUME AuditTypes, NEW i \in Kept, NEW j \in Final, events[i].order = events[j].order
  PROVE  /\ j \in Kept => i = j
         /\ events[j].source = "live" => events[i].source = "live"
<1>1. SameFill(events[i], events[j]) /\ SameFill(events[j], events[i])
  BY DEF SameFill, Kept, Final
<1>2. i \in Int /\ j \in Int
  BY DEF Kept, Final
<1>3. i # j => IF events[i].source = events[j].source THEN i > j ELSE events[i].source = "live"
  BY <1>1 DEF Kept
<1>4. i # j /\ j \in Kept => IF events[j].source = events[i].source THEN j > i ELSE events[j].source = "live"
  BY <1>1 DEF Kept
<1>. QED
  BY <1>2, <1>3, <1>4

\* However the SELECTs and INSERTs of the feed and of a request interleave, an
\* order with a final fill is listed exactly once, by a live event if there is
\* one (storage/database.py, record_user_event and recent_trade_fills).
THEOREM OneRowPerFill == Spec => []FillsListedOnce
<1>1. FillInvariant => FillsListedOnce
  <2>. SUFFICES ASSUME AuditTypes, NEW o \in Orders
                PROVE  LET kept == {i \in Kept : events[i].order = o} IN
                       /\ \A i, j \in kept : i = j
                       /\ (\E i \in Final : events[i].order = o) => kept # {}
                       /\ (\E i \in Final : events[i].order = o /\ events[i].source = "live")
                            => \A i \in kept : events[i].source = "live"
    BY DEF FillInvariant, FillsListedOnce
  <2>. DEFINE kept == {i \in Kept : events[i].order = o}
  <2>1. kept \subseteq Final /\ kept \subseteq Kept
    BY DEF Kept
  <2>2. \A i, j \in kept : i = j
    BY <2>1, KeptOnce
  <2>3. (\E i \in Final : events[i].order = o) => kept # {}
    BY KeptExists
  <2>4. ASSUME NEW j \in Final, events[j].order = o, events[j].source = "live", NEW i \in kept
        PROVE  events[i].source = "live"
    BY <2>1, <2>4, KeptOnce
  <2>. QED
    BY <2>2, <2>3, <2>4
<1>. QED
  BY <1>1, FillsInOrder, PTL

\* In whatever order an answer and the events of its order are recorded, the
\* row is not behind them, and a filled order is called filled
\* (storage/database.py, record_execution and _apply_order_update).
THEOREM RowsNeverBehind == Spec => []RowsKeepUp
<1>1. FillInvariant => RowsKeepUp
  BY DEF FillInvariant, RowsFollow, RowsKeepUp, Covers, Behind
<1>. QED
  BY <1>1, FillsInOrder, PTL

\* A request that asked to the end lists the exits that had fired before it
\* began, whatever events were lost (api.py, the reconciliation of GET
\* /api/fills).
THEOREM ExitsAreFound == Spec => []PollFindsExits
<1>1. FillInvariant => PollFindsExits
  <2>. SUFFICES ASSUME FillInvariant, poll.pc = "ask", poll.todo = {}, NEW n \in poll.due
                PROVE  <<n, "leg">> \in Listed
    BY DEF PollFindsExits
  <2>1. PICK i \in Final : events[i].order = <<n, "leg">>
    BY DEF FillInvariant, ExitsOnTheirWay, Told, Final
  <2>2. \E k \in Kept : events[k].order = <<n, "leg">>
    BY <2>1, KeptExists DEF FillInvariant
  <2>. QED
    BY <2>2 DEF Listed, InEvents
<1>. QED
  BY <1>1, FillsInOrder, PTL

\* The feed leaves the partial fill of an entry only when the entry is dead
\* (application/testnet_feed.py, process, and handle_user_event).
THEOREM RemaindersAreCancelled == Spec => PartialFillsFreeze
<1>. DEFINE Frozen == Busy /\ feed'.pc = "wait" /\ Freezes(Head(wire))
                        => order'[Head(wire).order].status \in Dead
<1>1. ASSUME FillInvariant, [Next]_vars, Busy, feed'.pc = "wait", Freezes(Head(wire))
      PROVE  order'[Head(wire).order].status \in Dead
  <2>. DEFINE o == Head(wire).order
  <2>1. tasks /\ wire # <<>> /\ feed \in Places
    BY <1>1 DEF FillInvariant, EventInHand, Busy, AuditTypes
  <2>2. ASSUME Handle PROVE order'[o].status \in Dead
    <3>1. o \in Orders /\ Head(wire) = wire[1] /\ 1 \in 1..Len(wire)
      BY <1>1, <2>1, HeadIsEvent DEF FillInvariant, AuditTypes
    <3>2. order[o].status # "none" /\ order[o] \in State
      BY <1>1, <3>1 DEF FillInvariant, NothingInvented, Behind, OrderTypes
    <3>3. order'[o].status = IF IsOpen(o) THEN "CANCELED" ELSE order[o].status
      BY <1>1, <2>2, <3>1, <3>2 DEF Handle, Freeze, FillInvariant, OrderTypes, State
    <3>. QED
      BY <3>2, <3>3 DEF State, IsOpen, Dead
  <2>3. CASE feed' = feed
    BY <1>1, <2>3 DEF Busy
  <2>4. CASE StoreEvent \/ StoreFails
    BY <1>1, <2>4 DEF StoreEvent, StoreFails, GoOn
  <2>5. CASE Receive \/ LookUp \/ HandleFails \/ Start \/ StopFeed
    BY <1>1, <2>1, <2>5 DEF Receive, LookUp, HandleFails, Start, StopFeed, Busy, Places, Off
  <2>6. feed' = feed \/ Handle \/ StoreEvent \/ StoreFails \/ Receive \/ LookUp \/ HandleFails \/ Start \/ StopFeed
    BY <1>1 DEF Next, Exchange, Stream, Engine, Fills, EntryFills, LegFires, ModelFills, Connect, Disconnect,
       CancelRemainder, Bracket, Answer, Record, RecordFails, CancelTasks, PlaceEntry, PlaceClose, CloseManually,
       BeginPoll, ReadAccount, AccountFails, StoreCopyFails, EndPoll, FindFill, FindNothing, LookUpCopy, StoreCopy,
       vars, feedVars
  <2>. QED
    BY <2>2, <2>3, <2>4, <2>5, <2>6
<1>2. FillInvariant /\ [Next]_vars => [Frozen]_vars
  BY <1>1
<1>. QED
  BY <1>2, FillsInOrder, PTL DEF Spec, PartialFillsFreeze
====
