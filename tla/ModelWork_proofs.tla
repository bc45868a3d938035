-------------------------- MODULE ModelWork_proofs --------------------------
(***************************************************************************)
(* Proofs about ModelWork, for any number of analyses, backtests, probes,*)
(* timeouts, settings and restarts.*)
(***************************************************************************)
EXTENDS ModelWork, SequenceTheorems, TLAPS

-----------------------------------------------------------------------------
(* The analysis desk *)

\* The task has a queue, and the rows being created belong to the lock.
DeskShape ==
  /\ desk.phase = "none" => desk.queue = <<>>
  /\ desk.phase # "none" => desk.queue # <<>> /\ desk.left = 0
  /\ desk.left = 0 => desk.creating = <<>>

DeskBooks == AnalysisTypeOK /\ DeskShape /\ OpenRowsHaveTask

\* The elements of a queue and of its tail.
LEMMA QueueSets ==
  ASSUME NEW S, NEW s \in Seq(S)
  PROVE  /\ ToSet(s) \subseteq S
         /\ \A i \in DOMAIN s : s[i] \in ToSet(s)
         /\ s # <<>> => /\ Head(s) \in S /\ Tail(s) \in Seq(S)
                        /\ ToSet(s) = {Head(s)} \union ToSet(Tail(s))
                        /\ Len(s) = 1 => ToSet(s) = {Head(s)}
                        /\ Len(s) # 1 => Tail(s) # <<>>
<1>1. ToSet(s) \subseteq S /\ \A i \in DOMAIN s : s[i] \in ToSet(s)
  BY ElementOfSeq, LenProperties DEF ToSet
<1>2. ASSUME s # <<>>
      PROVE  /\ Head(s) \in S /\ Tail(s) \in Seq(S)
             /\ ToSet(s) = {Head(s)} \union ToSet(Tail(s))
             /\ Len(s) = 1 => ToSet(s) = {Head(s)}
             /\ Len(s) # 1 => Tail(s) # <<>>
  <2>1. /\ Head(s) \in S /\ Tail(s) \in Seq(S) /\ Len(Tail(s)) = Len(s) - 1
        /\ \A i \in 1..Len(Tail(s)) : Tail(s)[i] = s[i + 1]
    BY <1>2, HeadTailProperties
  <2>2. /\ DOMAIN s = 1..Len(s) /\ DOMAIN Tail(s) = 1..Len(Tail(s))
        /\ Len(s) \in Nat /\ Len(s) # 0 /\ Head(s) = s[1]
    BY <1>2, <2>1, LenProperties, EmptySeq
  <2>3. ASSUME NEW x \in ToSet(s) PROVE x \in {Head(s)} \union ToSet(Tail(s))
    <3>1. PICK i \in 1..Len(s) : x = s[i]
      BY <2>2 DEF ToSet
    <3>2. CASE i = 1
      BY <3>1, <3>2, <2>2
    <3>3. CASE i # 1
      <4>1. i - 1 \in 1..Len(Tail(s)) /\ Tail(s)[i - 1] = x
        BY <3>1, <3>3, <2>1, <2>2
      <4>. QED
        BY <4>1, <2>2 DEF ToSet
    <3>. QED
      BY <3>2, <3>3
  <2>4. ASSUME NEW x \in {Head(s)} \union ToSet(Tail(s)) PROVE x \in ToSet(s)
    <3>1. CASE x = Head(s)
      <4>1. 1 \in DOMAIN s /\ x = s[1]
        BY <3>1, <2>2
      <4>. QED
        BY <4>1 DEF ToSet
    <3>2. CASE x \in ToSet(Tail(s))
      <4>1. PICK i \in 1..Len(Tail(s)) : x = Tail(s)[i]
        BY <3>2, <2>2 DEF ToSet
      <4>2. i + 1 \in DOMAIN s /\ x = s[i + 1]
        BY <4>1, <2>1, <2>2
      <4>. QED
        BY <4>2 DEF ToSet
    <3>. QED
      BY <2>4, <3>1, <3>2
  <2>5. ToSet(s) = {Head(s)} \union ToSet(Tail(s))
    BY <2>3, <2>4
  <2>6. ASSUME Len(s) = 1 PROVE ToSet(s) = {Head(s)}
    BY <2>6, <2>2 DEF ToSet
  <2>7. Len(s) # 1 => Tail(s) # <<>>
    BY <2>1, <2>2, EmptySeq
  <2>. QED
    BY <2>1, <2>5, <2>6, <2>7
<1>. QED
  BY <1>1, <1>2

\* One row more.
LEMMA AppendSets ==
  ASSUME NEW S, NEW s \in Seq(S), NEW x \in S
  PROVE  /\ Append(s, x) \in Seq(S) /\ Append(s, x) # <<>>
         /\ ToSet(Append(s, x)) = ToSet(s) \union {x}
<1>1. /\ Append(s, x) \in Seq(S) /\ Len(Append(s, x)) = Len(s) + 1
      /\ \A i \in 1..Len(s) : Append(s, x)[i] = s[i]
      /\ Append(s, x)[Len(s) + 1] = x
  BY AppendProperties
<1>2. DOMAIN Append(s, x) = 1..(Len(s) + 1) /\ DOMAIN s = 1..Len(s) /\ Len(s) \in Nat
  BY <1>1, LenProperties
<1>3. ASSUME NEW y \in ToSet(Append(s, x)) PROVE y \in ToSet(s) \union {x}
  BY <1>1, <1>2 DEF ToSet
<1>4. ASSUME NEW y \in ToSet(s) PROVE y \in ToSet(Append(s, x))
  BY <1>1, <1>2 DEF ToSet
<1>5. x \in ToSet(Append(s, x))
  BY <1>1, <1>2 DEF ToSet
<1>6. Append(s, x) # <<>>
  BY <1>1, <1>2, EmptySeq
<1>. QED
  BY <1>1, <1>3, <1>4, <1>5, <1>6

\* No row at all.
LEMMA NoElements == ToSet(<<>>) = {} /\ \A S : <<>> \in Seq(S)
BY DEF ToSet

\* Whatever the desk does, its books stay right.
LEMMA DeskMoves ==
  ASSUME DeskBooks, NEW busy, NEW running,
         \/ AnalysisStep \/ StartSchedule(running)
         \/ QueueRequest(busy) \/ QueueRound(busy)
         \/ AnalysisBoot \/ UNCHANGED analysisVars
  PROVE  DeskBooks'
<1>. USE DEF DeskBooks, AnalysisTypeOK, DeskShape, Phases, leftBehind
<1>1. CASE CreateRow
  <2>1. PICK a \in Analyses :
          /\ rows[a] = "absent"
          /\ rows' = [rows EXCEPT ![a] = "pending"]
          /\ desk' = IF desk.left > 1
                     THEN [desk EXCEPT !.left = @ - 1, !.creating = Append(desk.creating, a)]
                     ELSE [left |-> 0, creating |-> <<>>,
                           queue |-> Append(desk.creating, a), phase |-> "working"]
    BY <1>1 DEF CreateRow
  <2>2. /\ Append(desk.creating, a) \in Seq(Analyses) /\ Append(desk.creating, a) # <<>>
        /\ ToSet(Append(desk.creating, a)) = ToSet(desk.creating) \union {a}
    BY <2>1, AppendSets
  <2>3. desk.left > 0 /\ desk.phase = "none" /\ desk.queue = <<>> /\ UNCHANGED <<round, leftBehind>>
    BY <1>1 DEF CreateRow
  <2>4. AnalysisTypeOK' /\ DeskShape'
    <3>1. CASE desk.left > 1
      <4>1. desk' = [left |-> desk.left - 1, creating |-> Append(desk.creating, a),
                     queue |-> desk.queue, phase |-> desk.phase]
        BY <2>1, <3>1
      <4>2. desk.left - 1 \in 0..MaxBatch /\ desk.left - 1 # 0
        BY <3>1, AnalysisDeskAssumption
      <4>3. DeskShape' /\ rows' \in [Analyses -> {"absent", "pending", "running", "closed"}]
        BY <2>1, <2>3, <4>1, <4>2
      <4>4. AnalysisTypeOK'
        BY <2>2, <2>3, <4>1, <4>2, <4>3
      <4>. QED
        BY <4>3, <4>4
    <3>2. CASE ~(desk.left > 1)
      <4>1. desk' = [left |-> 0, creating |-> <<>>, queue |-> Append(desk.creating, a), phase |-> "working"]
        BY <2>1, <3>2
      <4>2. DeskShape' /\ rows' \in [Analyses -> {"absent", "pending", "running", "closed"}]
        BY <2>1, <2>2, <2>3, <4>1
      <4>3. <<>> \in Seq(Analyses) /\ 0 \in 0..MaxBatch
        BY NoElements, AnalysisDeskAssumption
      <4>4. AnalysisTypeOK'
        BY <2>2, <2>3, <4>1, <4>2, <4>3
      <4>. QED
        BY <4>2, <4>4
    <3>. QED
      BY <3>1, <3>2
  <2>5. ToSet(desk.creating) \union ToSet(desk.queue) \union {a}
           = ToSet(desk'.creating) \union ToSet(desk'.queue)
    BY <2>1, <2>2, <2>3, NoElements
  <2>6. OpenRowsHaveTask'
    BY <2>1, <2>3, <2>5 DEF OpenRowsHaveTask, Open
  <2>. QED
    BY <2>4, <2>6
<1>2. CASE CreateFails
  <2>1. desk' = [left |-> 0, creating |-> <<>>, queue |-> desk.queue, phase |-> desk.phase]
    BY <1>2 DEF CreateFails
  <2>2. ToSet(desk.creating) \subseteq Analyses
    BY QueueSets
  <2>3. 0 \in 0..MaxBatch /\ <<>> \in Seq(Analyses)
    BY NoElements, AnalysisDeskAssumption
  <2>4. AnalysisTypeOK' /\ DeskShape'
    BY <1>2, <2>1, <2>2, <2>3 DEF CreateFails
  <2>5. OpenRowsHaveTask'
    BY <1>2, NoElements DEF CreateFails, OpenRowsHaveTask, Open
  <2>. QED
    BY <2>4, <2>5
<1>3. CASE StartRow
  <2>1. desk.queue # <<>> /\ desk.queue \in Seq(Analyses)
    BY <1>3 DEF StartRow
  <2>2. Head(desk.queue) \in Analyses /\ Head(desk.queue) \in ToSet(desk.queue)
    BY <2>1, QueueSets
  <2>. QED
    BY <1>3, <2>2 DEF StartRow, OpenRowsHaveTask, Open
<1>4. CASE EndRow
  <2>1. desk.queue # <<>> /\ desk.queue \in Seq(Analyses)
    BY <1>4 DEF EndRow
  <2>2. /\ Head(desk.queue) \in Analyses /\ Tail(desk.queue) \in Seq(Analyses)
        /\ ToSet(desk.queue) = {Head(desk.queue)} \union ToSet(Tail(desk.queue))
        /\ Len(desk.queue) = 1 => ToSet(desk.queue) = {Head(desk.queue)}
        /\ Len(desk.queue) # 1 => Tail(desk.queue) # <<>>
    BY <2>1, QueueSets
  <2>3. rows' = [rows EXCEPT ![Head(desk.queue)] = "closed"] /\ UNCHANGED leftBehind
    BY <1>4 DEF EndRow
  <2>4. CASE Len(desk.queue) = 1
    <3>1. /\ desk' = [left |-> desk.left, creating |-> desk.creating, queue |-> <<>>, phase |-> "none"]
          /\ round' = [round EXCEPT !.task = IF @ = "awaiting" THEN "none" ELSE @]
      BY <1>4, <2>4 DEF EndRow, TaskEnds
    <3>2. AnalysisTypeOK' /\ DeskShape'
      BY <2>3, <3>1, NoElements
    <3>3. OpenRowsHaveTask'
      BY <2>2, <2>3, <2>4, <3>1 DEF OpenRowsHaveTask, Open
    <3>. QED
      BY <3>2, <3>3
  <2>5. CASE Len(desk.queue) # 1
    <3>1. /\ desk' = [left |-> desk.left, creating |-> desk.creating,
                       queue |-> Tail(desk.queue), phase |-> desk.phase]
          /\ round' = round /\ desk.phase = "working"
      BY <1>4, <2>5 DEF EndRow
    <3>2. AnalysisTypeOK' /\ DeskShape'
      BY <2>2, <2>3, <2>5, <3>1
    <3>3. OpenRowsHaveTask'
      BY <2>2, <2>3, <3>1 DEF OpenRowsHaveTask, Open
    <3>. QED
      BY <3>2, <3>3
  <2>. QED
    BY <2>4, <2>5
<1>5. CASE EndRowFails
  <2>1. desk.queue # <<>> /\ desk.queue \in Seq(Analyses)
    BY <1>5 DEF EndRowFails
  <2>2. /\ Head(desk.queue) \in Analyses /\ Tail(desk.queue) \in Seq(Analyses)
        /\ ToSet(desk.queue) = {Head(desk.queue)} \union ToSet(Tail(desk.queue))
    BY <2>1, QueueSets
  <2>3. ToSet(Tail(desk.queue)) \subseteq Analyses
    BY <2>2, QueueSets
  <2>. QED
    BY <1>5, <2>2, <2>3, NoElements DEF EndRowFails, TaskEnds, OpenRowsHaveTask, Open
<1>6. CASE CancelQueue
  <2>1. OpenInQueue \subseteq Analyses /\ \A a \in ToSet(desk.queue) : rows[a] \in Open => a \in OpenInQueue
    BY QueueSets DEF OpenInQueue
  <2>2. desk.phase # "none" /\ rows' = rows
    BY <1>6 DEF CancelQueue, TaskAlive
  <2>3. CASE desk'.phase = "none"
    BY <1>6, <2>1, <2>2, <2>3, NoElements DEF CancelQueue, TaskEnds, OpenRowsHaveTask
  <2>4. CASE desk'.phase # "none"
    BY <1>6, <2>2, <2>4 DEF CancelQueue, TaskEnds, OpenRowsHaveTask
  <2>. QED
    BY <2>3, <2>4
<1>7. CASE CloseOwn
  BY <1>7 DEF CloseOwn, OpenRowsHaveTask, Open
<1>8. CASE CloseNext
  <2>1. CASE \A i \in DOMAIN desk.queue : rows[desk.queue[i]] \notin Open
    <3>1. /\ TaskEnds(desk) /\ UNCHANGED <<rows, leftBehind>>
      BY <1>8, <2>1 DEF CloseNext, FirstOpen
    <3>2. \A a \in ToSet(desk.queue) : rows[a] \notin Open
      BY <2>1 DEF ToSet
    <3>. QED
      BY <3>1, <3>2, NoElements DEF TaskEnds, OpenRowsHaveTask
  <2>2. CASE ~ \A i \in DOMAIN desk.queue : rows[desk.queue[i]] \notin Open
    <3>1. PICK i \in DOMAIN desk.queue : rows' = [rows EXCEPT ![desk.queue[i]] = "closed"]
      BY <1>8, <2>2 DEF CloseNext
    <3>. QED
      BY <1>8, <2>2, <3>1 DEF CloseNext, OpenRowsHaveTask, Open
  <2>. QED
    BY <2>1, <2>2
<1>9. CASE StopSchedule \/ RoundBegins \/ RoundEndsEmpty \/ StartSchedule(running)
  BY <1>9 DEF StopSchedule, RoundBegins, RoundEndsEmpty, StartSchedule, OpenRowsHaveTask
<1>10. CASE QueueRequest(busy) \/ QueueRound(busy)
  <2>1. PICK n \in 1..MaxBatch : Queue(busy, n)
    BY <1>10 DEF QueueRequest, QueueRound
  <2>2. desk' = [desk EXCEPT !.left = n] /\ desk.phase = "none"
    BY <2>1 DEF Queue, TaskAlive
  <2>. QED
    BY <1>10, <2>2, AnalysisDeskAssumption DEF QueueRequest, QueueRound, OpenRowsHaveTask
<1>11. CASE AnalysisBoot
  BY <1>11, NoElements, AnalysisDeskAssumption DEF AnalysisBoot, OpenRowsHaveTask, Open
<1>12. CASE UNCHANGED analysisVars
  BY <1>12 DEF analysisVars, OpenRowsHaveTask
<1>. QED
  BY <1>1, <1>2, <1>3, <1>4, <1>5, <1>6, <1>7, <1>8, <1>9, <1>10, <1>11, <1>12 DEF AnalysisStep

-----------------------------------------------------------------------------
(* Backtests and backtest probes *)

\* Only a backtest has a row to close at the end.
ProbePhases == \A p \in Probes : job[p].phase \in {"idle", "checking", "loading", "replaying"}

ReplayBooks == ReplayTypeOK /\ OpenRunsHaveTask

\* With nested overrides at most one job has set one, and what it will put
\* back is the timeout that was set outside all jobs.
Alone == \A j, k \in Overriding : j = k
Based(t) == (Overriding = {} => timeout = t) /\ \A j \in Overriding : job[j].saved = t

\* A step of job j that neither sets nor undoes an override.
Quiet(j) ==
  /\ job[j].phase # "replaying"
  /\ \/ \E ph \in {"idle"} \union RequestPhases \union TaskPhases : To(j, ph)
     \/ \E t \in Timeouts : job' = [job EXCEPT ![j] = [phase |-> "checking", asked |-> t, saved |-> Own]]
  /\ job'[j].phase # "replaying"
  /\ timeout' = timeout

\* A probe is at rest again as soon as its provider is.
LEMMA ProbesMove ==
  ASSUME ReplayTypeOK, ProbePhases, NEW s \in Nat, NEW running,
         ReplayStep(s) \/ \E j \in Jobs : AskReplay(j, running)
  PROVE  ProbePhases'
<1>. USE DEF ReplayTypeOK, RequestPhases, TaskPhases, To, Undo
<1>1. Backtests \intersect Probes = {}
  BY ReplayJobsAssumption
<1>2. SUFFICES ASSUME NEW p \in Probes
               PROVE  job'[p].phase \in {"idle", "checking", "loading", "replaying"}
  BY DEF ProbePhases
<1>3. p \in Jobs /\ job[p].phase \in {"idle", "checking", "loading", "replaying"}
  BY DEF ProbePhases, Jobs
<1>4. ASSUME NEW j \in Jobs, AskReplay(j, running) \/ Reject(j) \/ Override(j)
      PROVE  job'[p].phase \in {"idle", "checking", "loading", "replaying"}
  BY <1>3, <1>4 DEF AskReplay, Reject, Override
<1>5. ASSUME NEW j \in Jobs, LoadFails(j) \/ ReplayEnds(j, s) \/ CancelReplay(j)
      PROVE  job'[p].phase \in {"idle", "checking", "loading", "replaying"}
  BY <1>3, <1>5 DEF LoadFails, ReplayEnds, CancelReplay
<1>6. ASSUME NEW b \in Backtests, Estimate(b, s) \/ RegisterBacktest(b) \/ FinishRun(b) \/ FinishFails(b)
      PROVE  job'[p].phase \in {"idle", "checking", "loading", "replaying"}
  BY <1>1, <1>3, <1>6 DEF Estimate, RegisterBacktest, FinishRun, FinishFails
<1>7. ASSUME NEW q \in Probes, RegisterProbe(q)
      PROVE  job'[p].phase \in {"idle", "checking", "loading", "replaying"}
  BY <1>3, <1>7 DEF RegisterProbe
<1>. QED
  BY <1>4, <1>5, <1>6, <1>7 DEF ReplayStep

\* Each step of a job is quiet, sets its override, or undoes it.
LEMMA JobMoves ==
  ASSUME ReplayBooks, ProbePhases, NEW s \in Nat, NEW running,
         ReplayStep(s) \/ \E j \in Jobs : AskReplay(j, running)
  PROVE  /\ ReplayBooks'
         /\ restore' = restore
         /\ \/ \E j \in Jobs : Quiet(j) /\ crossed' = crossed
            \/ \E j \in Jobs : Override(j)
            \/ \E j \in Jobs, ph \in {"idle", "finishing", "cancelling"} :
                  job[j].phase = "replaying" /\ Undo(j, ph)
<1>. USE DEF ReplayBooks, ReplayTypeOK, RequestPhases, TaskPhases
<1>1. Backtests \subseteq Jobs /\ Probes \subseteq Jobs /\ Backtests \intersect Probes = {}
  BY ReplayJobsAssumption DEF Jobs
<1>2. Own \in Timeouts /\ Ceiling \in Timeouts /\ RunTimeouts \subseteq Timeouts
  BY DEF Timeouts
<1>3. ASSUME NEW j \in Jobs, AskReplay(j, running)
      PROVE  ReplayBooks' /\ Quiet(j) /\ crossed' = crossed /\ restore' = restore
  <2>1. PICK t \in Timeouts : job' = [job EXCEPT ![j] = [phase |-> "checking", asked |-> t, saved |-> Own]]
    BY <1>2, <1>3 DEF AskReplay
  <2>2. ReplayTypeOK'
    BY <1>2, <1>3, <2>1 DEF AskReplay
  <2>3. OpenRunsHaveTask'
    BY <1>1, <1>3, <2>1 DEF AskReplay, OpenRunsHaveTask, Registered
  <2>4. Quiet(j) /\ crossed' = crossed /\ restore' = restore
    BY <1>3, <2>1 DEF AskReplay, Quiet
  <2>. QED
    BY <2>2, <2>3, <2>4
<1>4. ASSUME NEW j \in Jobs, Reject(j)
      PROVE  ReplayBooks' /\ Quiet(j) /\ crossed' = crossed /\ restore' = restore
  BY <1>1, <1>4 DEF Reject, To, OpenRunsHaveTask, Registered, Quiet
<1>5. ASSUME NEW j \in Jobs, Override(j) PROVE ReplayBooks' /\ restore' = restore
  <2>1. ReplayTypeOK'
    BY <1>2, <1>5 DEF Override
  <2>2. OpenRunsHaveTask'
    BY <1>1, <1>5 DEF Override, OpenRunsHaveTask, Registered
  <2>. QED
    BY <1>5, <2>1, <2>2 DEF Override
<1>6. ASSUME NEW j \in Jobs, LoadFails(j)
      PROVE  ReplayBooks' /\ Quiet(j) /\ crossed' = crossed /\ restore' = restore
  BY <1>1, <1>6 DEF LoadFails, To, OpenRunsHaveTask, Registered, Quiet
<1>7. ASSUME NEW j \in Jobs, NEW ph \in {"idle", "finishing", "cancelling"},
             job[j].phase = "replaying", Undo(j, ph), probed' \in Nat,
             j \in Backtests => ph # "idle"
      PROVE  ReplayBooks' /\ restore' = restore
  <2>1. ReplayTypeOK'
    BY <1>7 DEF Undo, To
  <2>2. OpenRunsHaveTask'
    BY <1>1, <1>7 DEF Undo, To, OpenRunsHaveTask, Registered
  <2>. QED
    BY <1>7, <2>1, <2>2 DEF Undo
<1>8. ASSUME NEW j \in Jobs, ReplayEnds(j, s)
      PROVE  /\ ReplayBooks' /\ restore' = restore
             /\ \E ph \in {"idle", "finishing", "cancelling"} : job[j].phase = "replaying" /\ Undo(j, ph)
  <2>1. PICK ph \in {"idle", "finishing"} :
          /\ Undo(j, ph) /\ probed' \in Nat
          /\ j \in Backtests => ph # "idle"
    BY <1>1, <1>8 DEF ReplayEnds
  <2>. QED
    BY <1>7, <1>8, <2>1 DEF ReplayEnds
<1>9. ASSUME NEW j \in Jobs, CancelReplay(j)
      PROVE  /\ ReplayBooks' /\ restore' = restore
             /\ \/ Quiet(j) /\ crossed' = crossed
                \/ \E ph \in {"idle", "finishing", "cancelling"} : job[j].phase = "replaying" /\ Undo(j, ph)
  <2>1. CASE job[j].phase = "replaying"
    <3>1. PICK ph \in {"idle", "cancelling"} :
            /\ Undo(j, ph) /\ probed' \in Nat
            /\ j \in Backtests => ph # "idle"
      BY <1>1, <1>9, <2>1 DEF CancelReplay
    <3>. QED
      BY <1>7, <2>1, <3>1
  <2>2. CASE job[j].phase # "replaying"
    <3>1. ReplayTypeOK' /\ Quiet(j) /\ crossed' = crossed /\ restore' = restore
      <4>1. j \in Probes => job[j].phase \notin {"finishing", "failing", "cancelling"}
        BY DEF ProbePhases
      <4>. QED
        BY <1>1, <1>9, <2>2, <4>1 DEF CancelReplay, To, Quiet, Jobs
    <3>2. OpenRunsHaveTask'
      BY <1>1, <1>9, <2>2 DEF CancelReplay, To, OpenRunsHaveTask, Registered
    <3>. QED
      BY <3>1, <3>2
  <2>. QED
    BY <2>1, <2>2
<1>10. ASSUME NEW b \in Backtests, Estimate(b, s) \/ RegisterBacktest(b) \/ FinishRun(b) \/ FinishFails(b)
       PROVE  ReplayBooks' /\ Quiet(b) /\ crossed' = crossed /\ restore' = restore
  <2>1. CASE Estimate(b, s)
    BY <1>1, <2>1 DEF Estimate, To, OpenRunsHaveTask, Registered, Quiet
  <2>2. CASE RegisterBacktest(b)
    BY <1>1, <2>2 DEF RegisterBacktest, To, OpenRunsHaveTask, Registered, Quiet
  <2>3. CASE FinishRun(b)
    BY <1>1, <2>3 DEF FinishRun, To, OpenRunsHaveTask, Registered, Quiet
  <2>4. CASE FinishFails(b)
    <3>1. ReplayTypeOK' /\ Quiet(b) /\ crossed' = crossed /\ restore' = restore
      BY <1>1, <2>4 DEF FinishFails, To, Quiet
    <3>2. OpenRunsHaveTask'
      BY <1>1, <2>4 DEF FinishFails, To, OpenRunsHaveTask, Registered
    <3>. QED
      BY <3>1, <3>2
  <2>. QED
    BY <1>10, <2>1, <2>2, <2>3, <2>4
<1>11. ASSUME NEW p \in Probes, RegisterProbe(p)
       PROVE  ReplayBooks' /\ Quiet(p) /\ crossed' = crossed /\ restore' = restore
  BY <1>1, <1>11 DEF RegisterProbe, To, OpenRunsHaveTask, Registered, Quiet
<1>. QED
  BY <1>1, <1>3, <1>4, <1>5, <1>6, <1>8, <1>9, <1>10, <1>11 DEF ReplayStep

\* Jobs that nest leave the outer timeout what it was.
LEMMA JobsKeepBase ==
  ASSUME ReplayTypeOK, Alone, NEW t, Based(t), ~crossed',
         \/ \E j \in Jobs : Quiet(j) /\ crossed' = crossed
         \/ \E j \in Jobs : Override(j)
         \/ \E j \in Jobs, ph \in {"idle", "finishing", "cancelling"} :
               job[j].phase = "replaying" /\ Undo(j, ph)
  PROVE  Alone' /\ Based(t)'
<1>1. ASSUME NEW j \in Jobs, Quiet(j) PROVE Alone' /\ Based(t)'
  <2>1. Overriding' = Overriding /\ \A k \in Overriding : job'[k].saved = job[k].saved
    BY <1>1 DEF Quiet, To, Overriding, ReplayTypeOK
  <2>. QED
    BY <1>1, <2>1 DEF Quiet, Alone, Based
<1>2. ASSUME NEW j \in Jobs, Override(j) PROVE Alone' /\ Based(t)'
  <2>1. Overriding = {} /\ timeout = t
    BY <1>2 DEF Override, Based
  <2>2. Overriding' = {j} /\ job'[j].saved = t
    BY <1>2, <2>1 DEF Override, Overriding, ReplayTypeOK
  <2>. QED
    BY <2>2 DEF Alone, Based
<1>3. ASSUME NEW j \in Jobs, NEW ph \in {"idle", "finishing", "cancelling"},
             job[j].phase = "replaying", Undo(j, ph)
      PROVE  Alone' /\ Based(t)'
  <2>1. j \in Overriding /\ \A k \in Overriding : k = j
    BY <1>3 DEF Alone, Overriding
  <2>2. Overriding' = {} /\ timeout' = t
    BY <1>3, <2>1 DEF Undo, To, Overriding, ReplayTypeOK, Based
  <2>. QED
    BY <2>2 DEF Alone, Based
<1>. QED
  BY <1>1, <1>2, <1>3

\* The same when nothing is known of the outer timeout.
LEMMA JobsKeepAlone ==
  ASSUME ReplayTypeOK, Alone, ~crossed',
         \/ \E j \in Jobs : Quiet(j) /\ crossed' = crossed
         \/ \E j \in Jobs : Override(j)
         \/ \E j \in Jobs, ph \in {"idle", "finishing", "cancelling"} :
               job[j].phase = "replaying" /\ Undo(j, ph)
  PROVE  Alone'
<1>. DEFINE outer == IF Overriding = {} THEN timeout ELSE job[CHOOSE j \in Overriding : TRUE].saved
<1>1. Based(outer)
  BY DEF Alone, Based
<1>. HIDE DEF outer
<1>. QED
  BY <1>1, JobsKeepBase

\* The process begins again with idle jobs and its own timeouts.
LEMMA JobsReset ==
  ASSUME ReplayBooks, ReplayBoot
  PROVE  ReplayBooks' /\ ProbePhases' /\ Overriding' = {}
<1>1. Own \in Timeouts /\ Idle = [phase |-> "idle", asked |-> Own, saved |-> Own]
  BY DEF Timeouts, Idle
<1>2. ReplayTypeOK'
  BY <1>1 DEF ReplayBoot, ReplayBooks, ReplayTypeOK
<1>3. OpenRunsHaveTask' /\ ProbePhases' /\ Overriding' = {}
  BY <1>1 DEF ReplayBoot, ReplayBooks, ReplayTypeOK, OpenRunsHaveTask, ProbePhases, Overriding, Jobs
<1>. QED
  BY <1>2, <1>3 DEF ReplayBooks

-----------------------------------------------------------------------------
(* All handlers *)

\* The types of what the handlers themselves keep.
ProbeType == probe \in [state : {"none", "running", "ready", "stale", "spent"},
                        timeout : Timeouts \union {NoTimeout}, measured : 0..MaxSettings]
LiveType == live \in [running : BOOLEAN, scheduled : BOOLEAN, timeout : Timeouts, settings : 0..MaxSettings]
CountType == count \in [starts : 0..MaxStarts, boots : 0..MaxBoots]
WorkTypes ==
  /\ ProbeType /\ LiveType /\ CountType
  /\ holder \in Holders /\ settings \in 1..MaxSettings
  /\ auth \in Logins /\ restarting \in BOOLEAN /\ disturbed \in BOOLEAN

Books == DeskBooks /\ ReplayBooks /\ ProbePhases /\ WorkTypes

\* The type invariant of the module, by its owners.
LEMMA TypesTogether == TypeOK <=> AnalysisTypeOK /\ ReplayTypeOK /\ WorkTypes
BY DEF TypeOK, WorkTypes, ProbeType, LiveType, CountType

\* What a handler, and not a job or the desk, does to the timeouts.
Handling ==
  \/ KeepTimeout
  \/ \E t \in RunTimeouts \union {timeout} : Configure(t)
  \/ Restore

\* The steps of Next that belong to a handler leave desk and jobs alone.
Handler ==
  \/ \E h \in {"probe", "probeThenStart"} : AskProbe(h)
  \/ PublishProbe \/ ProbeSucceeds \/ ProbeFails
  \/ AskStart \/ AskOnce \/ Started \/ StartFails \/ StopEngine
  \/ ManualClose \/ ManualCloseEnds
  \/ Select \/ AskLogin \/ BeginLogin \/ LogoutEnds \/ LoginEnds \/ RestartBackend

\* A handler moves neither desk nor job; the timeouts change in three ways, or
\* are handed from the start lock to the run.
LEMMA HandlersFrame ==
  ASSUME Handler
  PROVE  /\ KeepRest
         /\ \/ Handling
            \/ /\ holder \in {"start", "once"} /\ UNCHANGED <<timeout, restore>>
               /\ crossed' = (crossed \/ Overriding # {})
BY DEF Handler, Handling, AskProbe, PublishProbe, ProbeSucceeds, ProbeFails, AskStart, AskOnce,
       Started, StartFails, StopEngine, ManualClose, ManualCloseEnds, Select, AskLogin, BeginLogin,
       LogoutEnds, LoginEnds, RestartBackend

\* The types of the timeouts survive a handler.
LEMMA HandlersType ==
  ASSUME ReplayBooks, ProbePhases, Handler
  PROVE  ReplayBooks' /\ ProbePhases'
<1>1. job' = job /\ runRow' = runRow /\ probed' = probed /\ cutRuns' = cutRuns
  BY HandlersFrame DEF KeepRest, KeepJobs
<1>2. timeout' \in Timeouts /\ restore' \in Timeouts \union {NoTimeout} /\ crossed' \in BOOLEAN
  BY HandlersFrame DEF Handling, KeepTimeout, Configure, Restore, Unset, ReplayBooks, ReplayTypeOK, Timeouts
<1>. QED
  BY <1>1, <1>2 DEF ReplayBooks, ReplayTypeOK, OpenRunsHaveTask, Registered, ProbePhases

\* Every step is a handler's, the desk's, a job's, or a new process.
LEMMA Steps ==
  ASSUME [Next]_vars
  PROVE  Handler \/ DeskStep \/ JobStep \/ Boot \/ UNCHANGED vars
BY DEF Next, Handler

\* The books are right at the beginning and stay right.
LEMMA BooksBegin == Init => Books
<1>. SUFFICES ASSUME Init PROVE Books
  OBVIOUS
<1>1. DeskBooks
  <2>1. <<>> \in Seq(Analyses) /\ 0 \in 0..MaxBatch
    BY NoElements, AnalysisDeskAssumption
  <2>2. desk = [left |-> 0, creating |-> <<>>, queue |-> <<>>, phase |-> "none"]
    BY DEF Init, AnalysisInit
  <2>3. AnalysisTypeOK
    BY <2>1, <2>2 DEF Init, AnalysisInit, AnalysisTypeOK, Phases
  <2>4. DeskShape /\ OpenRowsHaveTask
    BY <2>2 DEF Init, AnalysisInit, DeskShape, OpenRowsHaveTask, Open
  <2>. QED
    BY <2>3, <2>4 DEF DeskBooks
<1>2. ReplayBooks /\ ProbePhases
  <2>1. /\ job = [j \in Jobs |-> [phase |-> "idle", asked |-> Own, saved |-> Own]]
        /\ Own \in Timeouts /\ Probes \subseteq Jobs
    BY DEF Init, ReplayInit, Idle, Timeouts, Jobs
  <2>2. ReplayTypeOK
    <3>1. job \in [Jobs -> [phase : {"idle"} \union RequestPhases \union TaskPhases,
                            asked : Timeouts, saved : Timeouts]]
      BY <2>1
    <3>2. timeout = Own /\ restore = NoTimeout /\ probed = 0 /\ crossed = FALSE /\ cutRuns = {}
      BY DEF Init, ReplayInit
    <3>3. runRow \in [Backtests -> {"absent", "running", "closed"}]
      BY DEF Init, ReplayInit
    <3>. QED
      BY <2>1, <3>1, <3>2, <3>3 DEF ReplayTypeOK
  <2>3. OpenRunsHaveTask /\ ProbePhases
    BY <2>1 DEF Init, ReplayInit, OpenRunsHaveTask, ProbePhases
  <2>. QED
    BY <2>2, <2>3 DEF ReplayBooks
<1>3. WorkTypes
  <2>1. ProbeType
    BY ModelWorkAssumption DEF Init, ProbeType, NoProbe
  <2>2. LiveType
    BY ModelWorkAssumption DEF Init, LiveType, NotLive, Timeouts
  <2>3. CountType
    BY ModelWorkAssumption, 0 \in 0..MaxStarts, 0 \in 0..MaxBoots DEF Init, CountType
  <2>4. holder \in Holders /\ settings \in 1..MaxSettings
    BY ModelWorkAssumption DEF Init, Holders
  <2>5. auth \in Logins /\ restarting \in BOOLEAN /\ disturbed \in BOOLEAN
    BY DEF Init, Logins
  <2>. QED
    BY <2>1, <2>2, <2>3, <2>4, <2>5 DEF WorkTypes
<1>. QED
  BY <1>1, <1>2, <1>3 DEF Books

\* The bound on requests.
LEMMA Counting ==
  ASSUME CountType, UNCHANGED count \/ Begin
  PROVE  CountType'
<1>1. CASE Begin
  <2>1. /\ count' = [starts |-> count.starts + 1, boots |-> count.boots]
        /\ count.starts + 1 \in 0..MaxStarts
    BY <1>1, ModelWorkAssumption DEF Begin, CountType
  <2>. QED
    BY <2>1 DEF CountType
<1>. QED
  BY <1>1 DEF CountType

\* A step of the desk, or none, leaves the jobs' books and most types as they are.
LEMMA NothingMoves ==
  ASSUME ReplayBooks, ProbePhases, WorkTypes, CountType',
         UNCHANGED <<replayVars, holder, live, probe, settings, auth, restarting, disturbed>>
  PROVE  ReplayBooks' /\ ProbePhases' /\ WorkTypes'
<1>1. WorkTypes'
  BY DEF WorkTypes, ProbeType, LiveType
<1>2. ReplayTypeOK' /\ OpenRunsHaveTask' /\ ProbePhases'
  BY DEF ReplayBooks, ReplayTypeOK, OpenRunsHaveTask, Registered, ProbePhases, replayVars
<1>. QED
  BY <1>1, <1>2 DEF ReplayBooks

\* Each conjunct of WorkTypes, for the steps of a handler.
LEMMA HandlersWork ==
  ASSUME Books, Handler
  PROVE  WorkTypes'
<1>. USE DEF Books, WorkTypes
<1>1. timeout \in Timeouts /\ RunTimeouts \subseteq Timeouts
  BY DEF ReplayBooks, ReplayTypeOK, Timeouts
<1>2. settings \in 0..MaxSettings /\ settings \in Nat /\ 0 \in 0..MaxSettings /\ MaxSettings \in Nat
  BY ModelWorkAssumption
<1>3. ProbeType'
  <2>1. CASE \E h \in {"probe", "probeThenStart"} : AskProbe(h)
    BY <1>1, <1>2, <2>1 DEF AskProbe, NoProbe, ProbeType
  <2>2. CASE PublishProbe \/ ProbeSucceeds \/ ProbeFails
    BY <1>2, <2>2 DEF PublishProbe, ProbeSucceeds, ProbeFails, ProbeType
  <2>3. CASE Started \/ StartFails
    BY <2>3 DEF Started, StartFails, Invalidated, ProbeType
  <2>4. CASE Select \/ BeginLogin \/ LogoutEnds
    BY <2>4 DEF Select, BeginLogin, LogoutEnds, Invalidated, ProbeType
  <2>5. CASE AskStart \/ AskOnce \/ StopEngine \/ ManualClose \/ ManualCloseEnds
               \/ AskLogin \/ LoginEnds \/ RestartBackend
    BY <2>5 DEF AskStart, AskOnce, StopEngine, ManualClose, ManualCloseEnds, AskLogin, LoginEnds,
                RestartBackend, ProbeType
  <2>. QED
    BY <2>1, <2>2, <2>3, <2>4, <2>5 DEF Handler
<1>4. LiveType'
  <2>1. live' = live \/ Started \/ StopEngine
    BY DEF Handler, AskProbe, PublishProbe, ProbeSucceeds, ProbeFails, AskStart, AskOnce, StartFails,
           ManualClose, ManualCloseEnds, Select, AskLogin, BeginLogin, LogoutEnds,
         LoginEnds, RestartBackend
  <2>2. CASE Started
    BY <1>1, <1>2, <2>2 DEF Started, LiveType
  <2>3. CASE StopEngine
    BY <1>2, <2>3 DEF StopEngine, NotLive, LiveType, Timeouts
  <2>. QED
    BY <2>1, <2>2, <2>3 DEF LiveType
<1>5. CountType'
  <2>1. count' = count \/ Begin
    BY DEF Handler, AskProbe, PublishProbe, ProbeSucceeds, ProbeFails, AskStart, AskOnce, Started, StartFails,
           StopEngine, ManualClose, ManualCloseEnds, Select, AskLogin, BeginLogin, LogoutEnds,
         LoginEnds, RestartBackend
  <2>. QED
    BY <2>1, Counting
<1>6. holder' \in Holders
  BY DEF Handler, AskProbe, PublishProbe, ProbeSucceeds, ProbeFails, AskStart, AskOnce, Started, StartFails,
         StopEngine, ManualClose, ManualCloseEnds, Select, AskLogin, BeginLogin, LogoutEnds,
         LoginEnds, RestartBackend, Holders
<1>7. settings' \in 1..MaxSettings
  BY <1>2 DEF Handler, AskProbe, PublishProbe, ProbeSucceeds, ProbeFails, AskStart, AskOnce, Started, StartFails,
         StopEngine, ManualClose, ManualCloseEnds, Select, AskLogin, BeginLogin, LogoutEnds,
         LoginEnds, RestartBackend
<1>8. auth' \in Logins /\ restarting' \in BOOLEAN /\ disturbed' \in BOOLEAN
  BY DEF Handler, AskProbe, PublishProbe, ProbeSucceeds, ProbeFails, AskStart, AskOnce, Started, StartFails,
         StopEngine, ManualClose, ManualCloseEnds, Select, AskLogin, BeginLogin, LogoutEnds,
         LoginEnds, RestartBackend, Logins
<1>. QED
  BY <1>3, <1>4, <1>5, <1>6, <1>7, <1>8

\* The books survive every step, one owner at a time.
LEMMA BooksKept == Books /\ [Next]_vars => Books'
<1>. SUFFICES ASSUME Books, [Next]_vars PROVE Books'
  OBVIOUS
<1>. USE DEF Books
<1>1. settings \in Nat /\ ReplayTypeOK
  BY ModelWorkAssumption DEF WorkTypes, ReplayBooks
<1>2. CASE Handler
  <2>1. DeskBooks'
    BY <1>2, HandlersFrame, DeskMoves DEF KeepRest
  <2>. QED
    BY <1>2, <2>1, HandlersType, HandlersWork
<1>3. CASE DeskStep
  <2>1. DeskBooks'
    BY <1>3, DeskMoves DEF DeskStep
  <2>2. UNCHANGED <<replayVars, holder, live, probe, settings, auth, restarting, disturbed>>
    BY <1>3 DEF DeskStep, workVars
  <2>3. CountType'
    BY <1>3, Counting DEF DeskStep, workVars, WorkTypes
  <2>. QED
    BY <2>1, <2>2, <2>3, NothingMoves
<1>4. CASE JobStep
  <2>1. DeskBooks'
    BY <1>4, DeskMoves DEF JobStep
  <2>2. ReplayBooks' /\ ProbePhases'
    BY <1>1, <1>4, JobMoves, ProbesMove DEF JobStep
  <2>3. UNCHANGED <<holder, live, probe, settings, auth, restarting, disturbed>>
    BY <1>4 DEF JobStep, workVars
  <2>4. CountType'
    BY <1>4, Counting DEF JobStep, workVars, WorkTypes
  <2>. QED
    BY <2>1, <2>2, <2>3, <2>4 DEF WorkTypes, ProbeType, LiveType
<1>5. CASE Boot
  <2>1. DeskBooks' /\ ReplayBooks' /\ ProbePhases'
    BY <1>5, DeskMoves, JobsReset DEF Boot
  <2>2. CountType'
    BY <1>5, ModelWorkAssumption DEF Boot, WorkTypes, CountType
  <2>3. ProbeType' /\ LiveType'
    BY <1>5, ModelWorkAssumption DEF Boot, ProbeType, LiveType, NotLive, NoProbe, Timeouts
  <2>. QED
    BY <1>5, <2>1, <2>2, <2>3 DEF Boot, WorkTypes, Holders, Logins
<1>6. CASE UNCHANGED vars
  <2>1. DeskBooks'
    BY <1>6, DeskMoves DEF vars
  <2>. QED
    BY <1>6, <2>1, NothingMoves DEF vars, workVars, WorkTypes, CountType
<1>. QED
  BY <1>2, <1>3, <1>4, <1>5, <1>6, Steps

\* The types of every variable, whatever the handlers do at their awaits.
THEOREM TypeCorrect == Spec => []TypeOK
<1>1. Books => TypeOK
  BY TypesTogether DEF Books, DeskBooks, ReplayBooks
<1>. QED
  BY <1>1, BooksBegin, BooksKept, PTL DEF Spec

\* Every open audit row of an analysis or a backtest has a task that will close
\* it, but for the rows whose own closing was cut short and those that a failing
\* write elsewhere in their batch stranded (DeskShape is what ties a queue to its
\* task).
THEOREM OpenWorkIsTended == Spec => []OpenWorkHasTask
<1>1. Books => OpenWorkHasTask
  BY DEF Books, DeskBooks, ReplayBooks, OpenWorkHasTask
<1>. QED
  BY <1>1, BooksBegin, BooksKept, PTL DEF Spec

-----------------------------------------------------------------------------
(* Who shares the providers *)

\* A live run, or its probe, and the desk exclude each other, and a login that is
\* seen excludes both: each request checks before its first await, and nothing
\* of the other kind can begin after the check but a login that was waiting.
LEMMA ExclusionKept == LiveExcludesAdvice /\ TypeOK /\ [Next]_vars => LiveExcludesAdvice'
<1>. SUFFICES ASSUME LiveExcludesAdvice, TypeOK, [Next]_vars PROVE LiveExcludesAdvice'
  OBVIOUS
<1>. USE DEF LiveExcludesAdvice, Starting, DeskLocked, TaskAlive
<1>1. CASE Handler
  <2>1. desk' = desk
    BY <1>1, HandlersFrame DEF KeepRest, analysisVars
  <2>2. CASE (\E h \in {"probe", "probeThenStart"} : AskProbe(h)) \/ AskStart \/ AskOnce
    BY <2>1, <2>2 DEF AskProbe, AskStart, AskOnce, BackgroundWork, BusyBesideRound, AuthActive
  <2>3. CASE PublishProbe \/ ProbeSucceeds \/ ProbeFails \/ Started \/ StartFails
    BY <2>1, <2>3 DEF PublishProbe, ProbeSucceeds, ProbeFails, Started, StartFails, Probing, Holders
  <2>4. CASE StopEngine \/ ManualClose \/ ManualCloseEnds \/ Select \/ LoginEnds \/ RestartBackend
    BY <2>1, <2>4 DEF StopEngine, ManualClose, ManualCloseEnds, Select, LoginEnds, RestartBackend, NotLive
  <2>5. CASE AskLogin \/ BeginLogin \/ LogoutEnds
    BY <2>1, <2>5 DEF AskLogin, BeginLogin, LogoutEnds
  <2>. QED
    BY <1>1, <2>2, <2>3, <2>4, <2>5 DEF Handler
<1>2. CASE DeskStep
  <2>1. UNCHANGED <<live, holder, auth>>
    BY <1>2 DEF DeskStep, workVars
  <2>2. CASE AnalysisStep \/ StartSchedule(live.running)
    <3>1. desk.left = 0 /\ desk.phase = "none" => desk' = desk
      BY <2>2 DEF AnalysisStep, StartSchedule, CreateRow, CreateFails, StartRow, EndRow, EndRowFails, CancelQueue,
                  CloseOwn, CloseNext, StopSchedule, RoundBegins, RoundEndsEmpty
    <3>2. desk.left \in Nat
      BY AnalysisDeskAssumption DEF TypeOK, AnalysisTypeOK
    <3>. QED
      BY <2>1, <3>1, <3>2
  <2>3. CASE ~live.running /\ (QueueRequest(BusyBesideRound) \/ QueueRound(BusyBesideRound))
    BY <2>1, <2>3 DEF QueueRequest, QueueRound, Queue, BusyBesideRound
  <2>. QED
    BY <1>2, <2>2, <2>3 DEF DeskStep
<1>3. CASE JobStep
  BY <1>3 DEF JobStep, analysisVars, workVars
<1>4. CASE Boot
  BY <1>4 DEF Boot, AnalysisBoot, NotLive
<1>5. CASE UNCHANGED vars
  BY <1>5 DEF vars, analysisVars, workVars
<1>. QED
  BY <1>1, <1>2, <1>3, <1>4, <1>5, Steps

\* A live run or its startup probe never shares the provider with an analysis,
\* nor with a Codex login it could have seen.
THEOREM LiveIsAlone == Spec => []LiveExcludesAdvice
<1>1. Init => LiveExcludesAdvice
  BY DEF Init, NotLive, AnalysisInit, LiveExcludesAdvice, Starting, DeskLocked, TaskAlive
<1>2. Books => TypeOK
  BY TypesTogether DEF Books, DeskBooks, ReplayBooks
<1>. QED
  BY <1>1, <1>2, BooksBegin, BooksKept, ExclusionKept, PTL DEF Spec

-----------------------------------------------------------------------------
(* The timeouts and the probe *)

\* As long as overrides nest, at most one job has set one, what the engine will
\* put back is the provider's own timeout, and without that promise the timeout
\* outside the jobs is the own one.
Nested ==
  ~crossed =>
    /\ Alone
    /\ restore \in {NoTimeout, Own}
    /\ restore = NoTimeout => Based(Own)

\* A timeout the engine has yet to put back serves a run, a start or a probe.
Served ==
  restore # NoTimeout =>
    \/ live.running \/ holder \in Holders \ {"none", "close"}
    \/ probe.state \in {"ready", "stale"}

\* Nothing holds the start lock while a run goes on.
LoneRun == live.running => holder = "none"

\* What a probe has measured, or is measuring, is what a run would use.
Fresh ==
  (~disturbed /\ ~crossed) =>
    /\ (holder = "start" \/ (probe.state = "ready" /\ holder # "once")) =>
          settings = probe.measured /\ Based(probe.timeout)
    /\ holder \in {"probe", "probeThenStart"} =>
          Based(probe.timeout) /\ (probe.state = "running" => settings = probe.measured)
    /\ (live.running /\ live.scheduled) =>
          live.settings = probe.measured /\ live.timeout = probe.timeout

\* A step of a handler that keeps the timeouts keeps what they are based on.
LEMMA BaseKept ==
  ASSUME NEW t, KeepRest, timeout' = timeout
  PROVE  Overriding' = Overriding /\ Alone' = Alone /\ Based(t)' = Based(t)
BY DEF KeepRest, KeepJobs, Overriding, Alone, Based

\* An override set or undone with no job's inside it is the new base.
LEMMA BaseSet ==
  ASSUME NEW t, KeepRest, Overriding = {}, timeout' = t
  PROVE  Overriding' = {} /\ Alone' /\ Based(t)'
BY DEF KeepRest, KeepJobs, Overriding, Alone, Based

\* Nesting survives every step that does not itself cross two overrides.
LEMMA NestedKept == Nested /\ Books /\ [Next]_vars => Nested'
<1>. SUFFICES ASSUME Nested, Books, [Next]_vars, ~crossed'
              PROVE  Alone' /\ restore' \in {NoTimeout, Own} /\ (restore' = NoTimeout => Based(Own)')
  BY DEF Nested
<1>1. CASE Handler
  <2>1. KeepRest
    BY <1>1, HandlersFrame
  <2>2. CASE UNCHANGED <<timeout, restore>> /\ (crossed' = crossed \/ crossed' = (crossed \/ Overriding # {}))
    <3>1. ~crossed
      BY <2>2
    <3>. QED
      BY <2>1, <2>2, <3>1, BaseKept DEF Nested
  <2>3. ASSUME NEW t \in RunTimeouts \union {timeout}, Configure(t)
        PROVE  Alone' /\ restore' = Own
    <3>1. ~crossed /\ Overriding = {} /\ timeout' = t
      BY <2>3 DEF Configure
    <3>2. Alone'
      BY <2>1, <3>1, BaseSet
    <3>3. restore' = Own
      BY <2>3, <3>1 DEF Configure, Unset, Nested, Based, NoTimeout, Own
    <3>. QED
      BY <3>2, <3>3
  <2>4. CASE Restore
    <3>1. ~crossed /\ (restore = NoTimeout \/ Overriding = {}) /\ restore' = NoTimeout
      BY <2>4 DEF Restore
    <3>2. CASE restore = NoTimeout
      BY <2>1, <2>4, <3>1, <3>2, BaseKept DEF Restore, Unset, Nested
    <3>3. CASE restore # NoTimeout
      <4>1. timeout' = Own /\ Overriding = {}
        BY <2>4, <3>1, <3>3 DEF Restore, Unset, Nested
      <4>. QED
        BY <2>1, <3>1, <4>1, BaseSet
    <3>. QED
      BY <3>2, <3>3
  <2>5. \/ UNCHANGED <<timeout, restore>> /\ (crossed' = crossed \/ crossed' = (crossed \/ Overriding # {}))
        \/ \E t \in RunTimeouts \union {timeout} : Configure(t)
        \/ Restore
    BY <1>1, HandlersFrame DEF Handling, KeepTimeout
  <2>. QED
    BY <2>2, <2>3, <2>4, <2>5 DEF NoTimeout, Own
<1>2. CASE DeskStep \/ UNCHANGED vars
  <2>1. UNCHANGED replayVars
    BY <1>2 DEF DeskStep, vars
  <2>. QED
    BY <2>1 DEF replayVars, Nested, Alone, Based, Overriding
<1>3. CASE JobStep
  <2>1. /\ settings \in Nat /\ ReplayBooks /\ ReplayTypeOK /\ ProbePhases
    BY ModelWorkAssumption DEF Books, WorkTypes, ReplayBooks
  <2>2. /\ restore' = restore
        /\ \/ \E j \in Jobs : Quiet(j) /\ crossed' = crossed
           \/ \E j \in Jobs : Override(j)
           \/ \E j \in Jobs, ph \in {"idle", "finishing", "cancelling"} :
                 job[j].phase = "replaying" /\ Undo(j, ph)
    BY <1>3, <2>1, JobMoves DEF JobStep
  <2>3. ~crossed
    BY <2>2 DEF Override, Undo
  <2>4. CASE restore = NoTimeout
    BY <2>1, <2>2, <2>3, <2>4, JobsKeepBase DEF Nested
  <2>5. CASE restore # NoTimeout
    BY <2>1, <2>2, <2>3, <2>5, JobsKeepAlone DEF Nested
  <2>. QED
    BY <2>4, <2>5
<1>4. CASE Boot
  <2>1. Overriding' = {} /\ timeout' = Own /\ restore' = NoTimeout
    BY <1>4, JobsReset DEF Boot, ReplayBoot, Books
  <2>. QED
    BY <2>1 DEF Alone, Based
<1>. QED
  BY <1>1, <1>2, <1>3, <1>4, Steps

\* A step that ends what a timeout served puts it back, or hands it on.
LEMMA ServedKept == Served /\ Books /\ [Next]_vars => Served'
<1>. SUFFICES ASSUME Served, Books, [Next]_vars, restore' # NoTimeout
              PROVE  \/ live'.running \/ holder' \in Holders \ {"none", "close"}
                     \/ probe'.state \in {"ready", "stale"}
  BY DEF Served
<1>0. WorkTypes
  BY DEF Books
<1>1. CASE Handler
  <2>1. CASE (\E h \in {"probe", "probeThenStart"} : AskProbe(h)) \/ AskStart \/ AskOnce
    BY <2>1 DEF AskProbe, AskStart, AskOnce, Holders
  <2>2. CASE PublishProbe
    BY <2>2 DEF PublishProbe, Probing, Holders
  <2>3. CASE ProbeSucceeds
    BY <1>0, <2>3 DEF ProbeSucceeds, WorkTypes, ProbeType
  <2>4. CASE ProbeFails \/ StartFails \/ StopEngine
    BY <2>4 DEF ProbeFails, StartFails, StopEngine, Restore
  <2>5. CASE Started
    BY <2>5 DEF Started
  <2>6. CASE ManualClose \/ ManualCloseEnds \/ AskLogin \/ LoginEnds \/ RestartBackend
    BY <2>6 DEF ManualClose, ManualCloseEnds, AskLogin, LoginEnds, RestartBackend, KeepTimeout, Served
  <2>7. CASE Select \/ BeginLogin \/ LogoutEnds
    BY <1>0, <2>7 DEF Select, BeginLogin, LogoutEnds, KeepTimeout, Invalidated, Served, WorkTypes, ProbeType
  <2>. QED
    BY <1>1, <2>1, <2>2, <2>3, <2>4, <2>5, <2>6, <2>7 DEF Handler
<1>2. CASE DeskStep \/ UNCHANGED vars
  <2>1. UNCHANGED <<restore, live, holder, probe>>
    BY <1>2 DEF DeskStep, vars, replayVars, workVars
  <2>. QED
    BY <2>1 DEF Served
<1>3. CASE JobStep
  <2>1. UNCHANGED <<live, holder, probe>>
    BY <1>3 DEF JobStep, workVars
  <2>2. restore' = restore
    BY <1>3, JobMoves, ModelWorkAssumption DEF JobStep, Books, WorkTypes
  <2>. QED
    BY <2>1, <2>2 DEF Served
<1>4. CASE Boot
  BY <1>4 DEF Boot, ReplayBoot
<1>. QED
  BY <1>1, <1>2, <1>3, <1>4, Steps

\* The lock is released by the step that begins the run.
LEMMA LoneRunKept == LoneRun /\ [Next]_vars => LoneRun'
<1>. SUFFICES ASSUME LoneRun, [Next]_vars PROVE LoneRun'
  OBVIOUS
<1>. USE DEF LoneRun
<1>1. CASE Handler
  BY <1>1 DEF Handler, AskProbe, PublishProbe, ProbeSucceeds, ProbeFails, AskStart, AskOnce, Started, StartFails,
              StopEngine, ManualClose, ManualCloseEnds, Select, AskLogin, BeginLogin, LogoutEnds,
         LoginEnds, RestartBackend,
              Probing, NotLive
<1>2. CASE DeskStep \/ JobStep \/ UNCHANGED vars
  BY <1>2 DEF DeskStep, JobStep, vars, workVars
<1>3. CASE Boot
  BY <1>3 DEF Boot
<1>. QED
  BY <1>1, <1>2, <1>3, Steps

\* Overrides that nest are all undone: the provider has its own timeout back
\* whenever no job, run, startup or probe result is left that needs another.
THEOREM TimeoutsComeBack == Spec => []TimeoutsRestored
<1>1. Init => Nested /\ Served
  BY DEF Init, ReplayInit, Idle, Nested, Served, Alone, Based, Overriding
<1>2. Nested /\ Served /\ Books => TimeoutsRestored
  BY DEF Nested, Served, TimeoutsRestored, Starting, Based, Books, WorkTypes, Holders
<1>. QED
  BY <1>1, <1>2, BooksBegin, BooksKept, NestedKept, ServedKept, PTL DEF Spec

\* The three conjuncts of Fresh, for each step.
LEMMA FreshKept == Fresh /\ LoneRun /\ Nested /\ Books /\ [Next]_vars => Fresh'
<1>. SUFFICES ASSUME Fresh, LoneRun, Nested, Books, [Next]_vars, ~disturbed', ~crossed'
              PROVE  /\ (holder' = "start" \/ (probe'.state = "ready" /\ holder' # "once")) =>
                           settings' = probe'.measured /\ Based(probe.timeout)'
                     /\ holder' \in {"probe", "probeThenStart"} =>
                           /\ Based(probe.timeout)'
                           /\ probe'.state = "running" => settings' = probe'.measured
                     /\ (live'.running /\ live'.scheduled) =>
                           live'.settings = probe'.measured /\ live'.timeout = probe'.timeout
  BY Zenon DEF Fresh
<1>. PICK m : m = probe.timeout
  OBVIOUS
<1>0. ProbeType /\ LiveType /\ settings \in Nat
  BY ModelWorkAssumption DEF Books, WorkTypes
<1>1. CASE Handler
  <2>1. KeepRest
    BY <1>1, HandlersFrame
  <2>2. CASE \E h \in {"probe", "probeThenStart"} : AskProbe(h)
    <3>1. PICK h \in {"probe", "probeThenStart"} : AskProbe(h)
      BY <2>2
    <3>2. PICK t \in RunTimeouts \union {timeout} : Configure(t) /\ probe' = [NoProbe EXCEPT !.timeout = t]
      BY <3>1 DEF AskProbe
    <3>3. Based(t)'
      BY <2>1, <3>2, BaseSet DEF Configure
    <3>4. probe'.timeout = t /\ probe'.state = "none" /\ holder' = h /\ ~live'.running
      BY <3>1, <3>2 DEF AskProbe, NoProbe
    <3>5. Based(probe.timeout)'
      BY <3>3, <3>4 DEF Based
    <3>. QED
      BY <3>4, <3>5
  <2>3. CASE PublishProbe \/ ProbeSucceeds \/ AskStart
    <3>1. /\ ~disturbed /\ ~crossed /\ timeout' = timeout /\ live' = live
          /\ settings' = settings /\ probe'.timeout = probe.timeout
      <4>1. /\ timeout' = timeout /\ crossed' = crossed
            /\ UNCHANGED <<live, settings, disturbed>>
        BY <2>3 DEF PublishProbe, ProbeSucceeds, AskStart, KeepTimeout
      <4>2. probe'.timeout = probe.timeout
        BY <1>0, <2>3 DEF PublishProbe, ProbeSucceeds, AskStart, ProbeType
      <4>. QED
        BY <4>1, <4>2
    <3>2. Based(probe.timeout) => Based(probe.timeout)'
      <4>1. Based(m)' = Based(m)
        BY <2>1, <3>1, BaseKept
      <4>. QED
        BY <3>1, <4>1 DEF Based
    <3>3. holder # "once" /\ ~live.running
      BY <2>3 DEF PublishProbe, ProbeSucceeds, AskStart, Probing, BackgroundWork, BusyBesideRound, LoneRun
    <3>4. CASE PublishProbe
      BY <1>0, <3>1, <3>2, <3>3, <3>4 DEF PublishProbe, Probing, ProbeType, Fresh
    <3>5. CASE ProbeSucceeds
      BY <1>0, <3>1, <3>2, <3>3, <3>5 DEF ProbeSucceeds, Probing, ProbeType, Fresh
    <3>6. CASE AskStart
      BY <3>1, <3>2, <3>3, <3>6 DEF AskStart, Fresh
    <3>. QED
      BY <2>3, <3>4, <3>5, <3>6
  <2>4. CASE ProbeFails
    <3>1. ~live'.running /\ holder' = "none" /\ probe'.state # "ready"
      BY <1>0, <2>4 DEF ProbeFails, Probing, ProbeType, LoneRun
    <3>. QED
      BY <3>1
  <2>5. CASE AskOnce
    BY <2>5 DEF AskOnce
  <2>6. CASE Started
    <3>1. CASE holder = "start"
      <4>1. ~disturbed /\ ~crossed /\ Overriding = {} /\ live'.timeout = timeout /\ live'.settings = settings
        BY <2>6, <3>1 DEF Started
      <4>2. settings = probe.measured /\ timeout = probe.timeout
        BY <3>1, <4>1 DEF Fresh, Based
      <4>3. /\ probe'.state = "spent" /\ holder' = "none"
            /\ probe'.measured = probe.measured /\ probe'.timeout = probe.timeout
        BY <1>0, <2>6, <3>1 DEF Started, ProbeType
      <4>. QED
        BY <4>1, <4>2, <4>3
    <3>2. CASE holder = "once"
      <4>1. ~live'.scheduled /\ holder' = "none"
        BY <2>6, <3>2 DEF Started
      <4>2. probe'.state # "ready"
        BY <1>0, <2>6, <3>2 DEF Started, Invalidated, ProbeType
      <4>. QED
        BY <4>1, <4>2
    <3>. QED
      BY <2>6, <3>1, <3>2 DEF Started
  <2>7. CASE StartFails
    <3>1. holder' = "none" /\ ~live'.running /\ probe'.state # "ready"
      BY <1>0, <2>7 DEF StartFails, LoneRun, ProbeType
    <3>. QED
      BY <3>1
  <2>8. CASE StopEngine
    <3>1. holder' = "none" /\ ~live'.running /\ probe'.state # "ready"
      BY <2>8 DEF StopEngine, NotLive
    <3>. QED
      BY <3>1
  <2>9. CASE ManualClose \/ ManualCloseEnds \/ AskLogin \/ LoginEnds \/ RestartBackend
    <3>1. /\ ~disturbed /\ ~crossed /\ UNCHANGED <<timeout, live, probe, settings>>
          /\ holder' = holder \/ (holder \in {"none", "close"} /\ holder' \in {"none", "close"})
      BY <2>9 DEF ManualClose, ManualCloseEnds, AskLogin, LoginEnds, RestartBackend, KeepTimeout
    <3>2. Based(probe.timeout) => Based(probe.timeout)'
      <4>1. Based(m)' = Based(m)
        BY <2>1, <3>1, BaseKept
      <4>. QED
        BY <3>1, <4>1 DEF Based
    <3>. QED
      BY <3>1, <3>2 DEF Fresh
  <2>10. CASE Select
    <3>1. probe'.state # "ready"
      BY <1>0, <2>10 DEF Select, Invalidated, ProbeType
    <3>2. holder' = "none" /\ ~live'.running
      BY <2>10 DEF Select
    <3>. QED
      BY <3>1, <3>2
  <2>11. CASE BeginLogin \/ LogoutEnds
    <3>1. ~disturbed /\ ~crossed /\ UNCHANGED <<timeout, live, holder, settings>>
      BY <2>11 DEF BeginLogin, LogoutEnds, KeepTimeout
    <3>2. /\ probe'.timeout = probe.timeout /\ probe'.measured = probe.measured
          /\ probe'.state \in {"ready", "running"} => probe'.state = probe.state
      BY <1>0, <2>11 DEF BeginLogin, LogoutEnds, Invalidated, ProbeType
    <3>3. Based(probe.timeout) => Based(probe.timeout)'
      <4>1. Based(m)' = Based(m)
        BY <2>1, <3>1, BaseKept
      <4>. QED
        BY <3>2, <4>1 DEF Based
    <3>. QED
      BY <3>1, <3>2, <3>3 DEF Fresh
  <2>. QED
    BY <1>1, <2>2, <2>3, <2>4, <2>5, <2>6, <2>7, <2>8, <2>9, <2>10, <2>11 DEF Handler
<1>2. CASE DeskStep \/ UNCHANGED vars
  <2>1. UNCHANGED <<timeout, restore, job, crossed, live, holder, probe, settings, disturbed>>
    BY <1>2 DEF DeskStep, vars, replayVars, workVars
  <2>2. Based(probe.timeout) => Based(probe.timeout)'
    BY <2>1 DEF Based, Overriding
  <2>. QED
    BY <2>1, <2>2 DEF Fresh
<1>3. CASE JobStep
  <2>1. UNCHANGED <<live, holder, probe, settings, disturbed>>
    BY <1>3 DEF JobStep, workVars
  <2>2. \/ \E j \in Jobs : Quiet(j) /\ crossed' = crossed
        \/ \E j \in Jobs : Override(j)
        \/ \E j \in Jobs, ph \in {"idle", "finishing", "cancelling"} :
              job[j].phase = "replaying" /\ Undo(j, ph)
    BY <1>0, <1>3, JobMoves DEF JobStep, Books
  <2>3. ~crossed
    BY <2>2 DEF Override, Undo
  <2>4. Based(probe.timeout) => Based(probe.timeout)'
    <3>1. Based(m) => Based(m)'
      BY <2>2, <2>3, JobsKeepBase DEF Nested, Books, ReplayBooks
    <3>. QED
      BY <2>1, <3>1 DEF Based
  <2>. QED
    BY <2>1, <2>3, <2>4 DEF Fresh
<1>4. CASE Boot
  BY <1>4 DEF Boot, NotLive, NoProbe
<1>. QED
  BY <1>1, <1>2, <1>3, <1>4, Steps

\* A scheduled run decides with the settings and under the timeout its startup
\* probe measured, with the exceptions RunMatchesProbe names: the handlers'
\* checks and invalidations suffice, with any number of settings and timeouts.
THEOREM RunsAsProbed == Spec => []RunMatchesProbe
<1>1. Init => Nested /\ LoneRun /\ Fresh
  BY DEF Init, ReplayInit, Idle, Nested, LoneRun, Fresh, Alone, Based, Overriding, NotLive, NoProbe
<1>2. Fresh => RunMatchesProbe
  BY DEF Fresh, RunMatchesProbe
<1>. QED
  BY <1>1, <1>2, BooksBegin, BooksKept, NestedKept, LoneRunKept, FreshKept, PTL DEF Spec
=============================================================================
