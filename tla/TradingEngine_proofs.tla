---- MODULE TradingEngine_proofs ----
(***************************************************************************)
(* Proofs about TradingEngine, for any number of symbols, API callers and  *)
(* runs, and whatever execute_with_stop returns.                           *)
(***************************************************************************)
EXTENDS TradingEngine, TLAPS

\* The program points of tasks and handlers.
PcType ==
  /\ pc \in [Processes -> TaskLabels \cup HandlerLabels]
  /\ \A w \in Workers : pc[w] \in TaskLabels
  /\ \A p \in Stoppers : pc[p] \in HandlerLabels

\* The job of each worker and the symbols of the cycle.
TaskType == job \in [Workers -> Jobs] /\ batch \subseteq Symbols /\ todo \subseteq batch

\* At most one start is in progress, and only while the engine is stopped.
LoneStart ==
  /\ \A c \in Clients : pc[c] \in Starting => engine = "stopped"
  /\ \A c, d \in Clients : pc[c] \in Starting /\ pc[d] \in Starting => c = d

\* Tasks, handlers and the detached task are different processes.
LEMMA TwoKinds == Workers \cap Stoppers = {} /\ Workers \subseteq Processes /\ Stoppers \subseteq Processes
BY ConstantAssumption DEF Workers, Stoppers, Processes

\* Moving one process keeps the program points of all.
LEMMA TaskMoves ==
  ASSUME PcType, NEW w \in Workers, NEW label \in TaskLabels, To(w, label)
  PROVE  PcType'
<1>1. pc' \in [Processes -> TaskLabels \cup HandlerLabels]
  BY TwoKinds DEF PcType, To
<1>2. ASSUME NEW v \in Workers PROVE pc'[v] \in TaskLabels
  BY TwoKinds DEF PcType, To
<1>3. ASSUME NEW p \in Stoppers PROVE pc'[p] \in HandlerLabels
  BY TwoKinds DEF PcType, To
<1>. QED
  BY <1>1, <1>2, <1>3 DEF PcType

\* The same for a handler or the detached task.
LEMMA HandlerMoves ==
  ASSUME PcType, NEW p \in Stoppers, NEW label \in HandlerLabels, To(p, label)
  PROVE  PcType'
<1>1. pc' \in [Processes -> TaskLabels \cup HandlerLabels]
  BY TwoKinds DEF PcType, To
<1>2. ASSUME NEW v \in Workers PROVE pc'[v] \in TaskLabels
  BY TwoKinds DEF PcType, To
<1>3. ASSUME NEW q \in Stoppers PROVE pc'[q] \in HandlerLabels
  BY TwoKinds DEF PcType, To
<1>. QED
  BY <1>1, <1>2, <1>3 DEF PcType

\* The labels of a shutdown belong to every process.
LEMMA ShutdownMoves ==
  ASSUME PcType, NEW p \in Processes, NEW label \in Shutdown, To(p, label)
  PROVE  PcType'
<1>1. label \in TaskLabels /\ label \in HandlerLabels
  BY DEF TaskLabels, HandlerLabels, Clearing
<1>2. CASE p \in Workers
  BY <1>1, <1>2, TaskMoves
<1>3. CASE p \in Stoppers
  BY <1>1, <1>3, HandlerMoves
<1>. QED
  BY <1>2, <1>3 DEF Processes

\* A worker's job stays a job when only its kind changes.
LEMMA JobKinds ==
  ASSUME TaskType, NEW w \in Workers, NEW kind \in Kinds \cup Results \cup {"none", "UNSAFE"},
         job' = [job EXCEPT ![w].kind = kind], UNCHANGED <<batch, todo>>
  PROVE  TaskType'
BY DEF TaskType, Jobs

\* A worker that takes its next job keeps the types.
LEMMA NextJobs ==
  ASSUME PcType, TaskType, NEW w \in Workers, NEW label \in TaskLabels,
         NextJob(w, label), UNCHANGED batch
  PROVE  PcType' /\ TaskType'
<1>1. PcType'
  BY TaskMoves DEF NextJob
<1>2. NoJob \in Jobs
  BY ConstantAssumption DEF NoJob, Jobs
<1>3. job' \in [Workers -> Jobs]
  BY <1>2 DEF NextJob, TaskType
<1>. QED
  BY <1>1, <1>3 DEF NextJob, TaskType

\* request_auto_stop and request_emergency_stop keep the types, whether the
\* request starts the detached task or is dropped.
LEMMA StopRequests ==
  ASSUME PcType, NEW w \in Workers, NEW label \in TaskLabels, NEW g \in {"stop", "kill"},
         goal \in [Processes -> {"stop", "kill"}], autoStop \in {"none", "requested"},
         RequestStop(g, w, label)
  PROVE  PcType' /\ autoStop' \in {"none", "requested"} /\ goal' \in [Processes -> {"stop", "kill"}]
<1>1. CASE pc["reaper"] = "idle"
  <2>1. "reaper" \in Stoppers /\ "reaper" \in Processes /\ "reaper" # w
    BY TwoKinds DEF Stoppers, Processes, Workers
  <2>2. pc' = [pc EXCEPT ![w] = label, !["reaper"] = "cancelTasks"]
    BY <1>1 DEF RequestStop
  <2>3. "cancelTasks" \in HandlerLabels
    BY DEF HandlerLabels, Clearing, Shutdown
  <2>4. pc' \in [Processes -> TaskLabels \cup HandlerLabels]
    BY <2>2, <2>3, TwoKinds DEF PcType
  <2>5. ASSUME NEW v \in Workers PROVE pc'[v] \in TaskLabels
    BY <2>1, <2>2, TwoKinds DEF PcType
  <2>6. ASSUME NEW p \in Stoppers PROVE pc'[p] \in HandlerLabels
    BY <2>1, <2>2, <2>3, TwoKinds DEF PcType
  <2>. QED
    BY <1>1, <2>4, <2>5, <2>6 DEF PcType, RequestStop
<1>2. CASE pc["reaper"] # "idle"
  BY <1>2, TaskMoves DEF RequestStop
<1>. QED
  BY <1>1, <1>2

\* The two parts of TypeOK that most steps disturb.
LEMMA TypeParts == TypeOK => PcType /\ TaskType
BY DEF TypeOK, PcType, TaskType

\* The engine of a fresh process is well typed.
LEMMA TypeInit == Init => TypeOK
BY ConstantAssumption DEF Init, TypeOK, Workers, Stoppers, Processes, Runs, Jobs, NoJob, Shutdown, Trading, Starting, Restoring, Clearing, TaskLabels, HandlerLabels, engineVars, databaseVars, taskVars, historyVars

\* Every step keeps the types.
LEMMA TypeStep ==
  TypeOK /\ [Next]_vars => TypeOK'
<1>. SUFFICES ASSUME TypeOK, [Next]_vars
           PROVE  TypeOK'
  OBVIOUS
<1>. USE ConstantAssumption DEF TypeOK, engineVars, databaseVars, taskVars, historyVars
<1>1. CASE UNCHANGED vars
  BY <1>1 DEF vars
<1>2. ASSUME NEW w \in Workers, Judge(w) PROVE TypeOK'
  <2>1. PcType /\ TaskType
    BY TypeParts
  <2>2. job[w].kind \in Kinds \cup Results \cup {"none", "UNSAFE"}
    BY <2>1 DEF TaskType, Jobs
  <2>3. CASE \E kind \in Kinds \cup Results \cup {"none", "UNSAFE"} :
               job' = [job EXCEPT ![w].kind = kind] /\ To(w, "recording") /\ UNCHANGED todo
    <3>1. PcType'
      BY <2>1, <2>3, TaskMoves DEF TaskLabels, Trading
    <3>2. TaskType'
      BY <2>1, <2>3, <1>2, JobKinds DEF Judge
    <3>. QED
      BY <3>1, <3>2, <1>2 DEF Judge, PcType, TaskType
  <2>4. CASE NextJob(w, "assess")
    <3>1. PcType' /\ TaskType'
      BY <2>1, <2>4, <1>2, NextJobs DEF Judge, TaskLabels
    <3>. QED
      BY <3>1, <1>2 DEF Judge, PcType, TaskType
  <2>. QED
    BY <1>2, <2>2, <2>3, <2>4 DEF Judge
<1>3. ASSUME NEW w \in Workers, Record(w) PROVE TypeOK'
  <2>1. PcType /\ TaskType
    BY TypeParts
  <2>2. PcType' /\ TaskType'
    <3>1. CASE To(w, "entering") /\ UNCHANGED <<job, todo>>
      <4>1. PcType'
        BY <2>1, <3>1, TaskMoves DEF TaskLabels, Trading
      <4>. QED
        BY <2>1, <3>1, <4>1, <1>3 DEF Record, TaskType
    <3>2. CASE NextJob(w, Resting(w))
      BY <2>1, <3>2, <1>3, NextJobs DEF Record, Resting, TaskLabels
    <3>. QED
      BY <3>1, <3>2, <1>3 DEF Record
  <2>3. job[w].run \in 0..MaxRuns
    BY <2>1 DEF TaskType, Jobs
  <2>4. pending' \in [Symbols -> 0..MaxRuns]
    <3>1. pending' = [pending EXCEPT ![job[w].symbol] = IF job[w].kind = "limit" THEN job[w].run ELSE 0]
      BY <1>3 DEF Record
    <3>2. (IF job[w].kind = "limit" THEN job[w].run ELSE 0) \in 0..MaxRuns
      BY <2>3, ConstantAssumption
    <3>. QED
      BY <3>1, <3>2
  <2>. QED
    BY <2>2, <2>4, <1>3 DEF Record, PcType, TaskType
<1>4. ASSUME NEW w \in Workers, Enter(w) PROVE TypeOK'
  <2>1. PcType /\ TaskType
    BY TypeParts
  <2>2. PcType'
    BY <2>1, <1>4, TaskMoves DEF Enter, TaskLabels, Trading
  <2>3. TaskType'
    <3>1. CASE UNCHANGED job
      BY <2>1, <3>1, <1>4 DEF Enter, TaskType
    <3>2. CASE \E kind \in {"FAILED", "UNSAFE"} \cap Results : job' = [job EXCEPT ![w].kind = kind]
      BY <2>1, <3>2, <1>4, JobKinds DEF Enter
    <3>. QED
      BY <3>1, <3>2, <1>4 DEF Enter
  <2>4. held' \in [Symbols -> {"flat", "naked", "covered"}]
    BY <1>4 DEF Enter
  <2>. QED
    BY <2>2, <2>3, <2>4, <1>4 DEF Enter, PcType, TaskType
<1>5. ASSUME NEW w \in Workers, Bracket(w) PROVE TypeOK'
  <2>1. PcType /\ TaskType
    BY TypeParts
  <2>2. PcType'
    BY <2>1, <1>5, TaskMoves DEF Bracket, TaskLabels, Trading
  <2>3. PICK result \in Results \cup {"UNSAFE"} :
          /\ \E status \in {"covered", "flat", "naked"} :
               held' = [held EXCEPT ![job[w].symbol] = status]
          /\ job' = [job EXCEPT ![w].kind = result]
    BY <1>5 DEF Bracket, Leaves
  <2>4. UNCHANGED <<batch, todo>>
    BY <1>5 DEF Bracket
  <2>5. TaskType'
    BY <2>1, <2>3, <2>4, JobKinds
  <2>6. held' \in [Symbols -> {"flat", "naked", "covered"}]
    BY <2>3
  <2>. QED
    BY <2>2, <2>5, <2>6, <1>5 DEF Bracket, PcType, TaskType
<1>6. ASSUME NEW w \in Workers, Audit(w) PROVE TypeOK'
  BY <1>6 DEF Audit, NextJob, Resting, To, Workers, Stoppers, Processes, Runs, Jobs, NoJob, Shutdown, Trading, Starting, Restoring, Clearing, TaskLabels, HandlerLabels
<1>7. ASSUME NEW w \in Workers, AuditUnsafe(w) PROVE TypeOK'
  <2>1. PcType /\ TaskType
    BY TypeParts
  <2>2. PcType'
    BY <2>1, <1>7, TaskMoves DEF AuditUnsafe, Lock, LockIf, TaskLabels, Shutdown
  <2>3. TaskType'
    BY <2>1, <1>7 DEF AuditUnsafe, TaskType
  <2>. QED
    BY <2>2, <2>3, <1>7, TwoKinds DEF AuditUnsafe, Lock, LockIf, PcType, TaskType
<1>8. ASSUME NEW p \in Processes, CancelTasks(p) PROVE TypeOK'
  BY <1>8 DEF CancelTasks, LockIf, Orphans, Workers, Stoppers, Processes, Runs, Jobs, NoJob, Shutdown, Trading, Starting, Restoring, Clearing, TaskLabels, HandlerLabels
<1>9. ASSUME NEW p \in Processes, Drop(p) PROVE TypeOK'
  BY <1>9 DEF Drop, To, Workers, Stoppers, Processes, Runs, Jobs, NoJob, Shutdown, Trading, Starting, Restoring, Clearing, TaskLabels, HandlerLabels
<1>10. ASSUME NEW p \in Processes, Finish(p) PROVE TypeOK'
  <2>1. PcType /\ TaskType
    BY TypeParts
  <2>2. PcType'
    <3>1. CASE To(p, "persist")
      BY <2>1, <3>1, ShutdownMoves DEF Shutdown
    <3>2. CASE To(p, "idle")
      <4>1. CASE p \in Workers
        BY <2>1, <3>2, <4>1, TaskMoves DEF TaskLabels
      <4>2. CASE p \in Stoppers
        BY <2>1, <3>2, <4>2, HandlerMoves DEF HandlerLabels, Clearing
      <4>. QED
        BY <4>1, <4>2 DEF Processes
    <3>. QED
      BY <3>1, <3>2, <1>10 DEF Finish, Lock, LockIf
  <2>3. TaskType'
    BY <2>1, <1>10 DEF Finish, TaskType
  <2>4. rows' \in [Runs -> {"none", "open", "stopped", "auto_stopped", "emergency_stopped", "interrupted"}]
    BY <1>10 DEF Finish, RowStatus
  <2>5. engine' = "stopped" /\ lock' \in {"free", "locked"}
    BY <1>10 DEF Finish, Lock, LockIf
  <2>6. overlap' \in {"no", "yes"}
    BY <1>10 DEF Finish, Lock, LockIf
  <2>. QED
    BY <2>6, <2>2, <2>3, <2>4, <2>5, <1>10 DEF Finish, PcType, TaskType
<1>11. ASSUME NEW p \in Processes, Persist(p) PROVE TypeOK'
  BY <1>11 DEF Persist, To, Workers, Stoppers, Processes, Runs, Jobs, NoJob, Shutdown, Trading, Starting, Restoring, Clearing, TaskLabels, HandlerLabels
<1>12. ASSUME NEW p \in Processes, Flatten(p) PROVE TypeOK'
  <2>1. PcType /\ TaskType
    BY TypeParts
  <2>2. PcType' /\ TaskType'
    <3>1. CASE p \in Workers /\ NextJob(p, Resting(p)) /\ UNCHANGED batch
      BY <2>1, <3>1, NextJobs DEF Resting, TaskLabels
    <3>2. CASE p \notin Workers /\ To(p, "idle") /\ UNCHANGED <<job, batch, todo>>
      <4>1. p \in Stoppers
        BY <3>2 DEF Processes
      <4>2. PcType'
        BY <2>1, <3>2, <4>1, HandlerMoves DEF HandlerLabels, Clearing
      <4>. QED
        BY <2>1, <3>2, <4>2 DEF TaskType
    <3>3. CASE /\ To(p, "idle")
               /\ job' = IF p \in Workers THEN [job EXCEPT ![p] = NoJob] ELSE job
               /\ IF p = "cadence" THEN batch' = {} /\ todo' = {} ELSE UNCHANGED <<batch, todo>>
      <4>1. "idle" \in TaskLabels /\ "idle" \in HandlerLabels
        BY DEF TaskLabels, HandlerLabels, Clearing
      <4>2. PcType'
        BY <2>1, <3>3, <4>1, TaskMoves, HandlerMoves DEF Processes
      <4>3. NoJob \in Jobs
        BY ConstantAssumption DEF NoJob, Jobs
      <4>4. job' \in [Workers -> Jobs]
        BY <2>1, <3>3, <4>3 DEF TaskType
      <4>5. batch' \subseteq Symbols /\ todo' \subseteq batch'
        BY <2>1, <3>3 DEF TaskType
      <4>. QED
        BY <4>2, <4>4, <4>5 DEF TaskType
    <3>. QED
      BY <3>1, <3>2, <3>3, <1>12 DEF Flatten
  <2>3. held' \in [Symbols -> {"flat", "naked", "covered"}] /\ flattened' \in {"no", "yes"}
    BY <1>12 DEF Flatten
  <2>. QED
    BY <2>2, <2>3, <1>12 DEF Flatten, PcType, TaskType
<1>13. ASSUME BeginCycle PROVE TypeOK'
  BY <1>13 DEF BeginCycle, To, Workers, Stoppers, Processes, Runs, Jobs, NoJob, Shutdown, Trading, Starting, Restoring, Clearing, TaskLabels, HandlerLabels
<1>14. ASSUME Decide PROVE TypeOK'
  <2>1. PcType /\ TaskType /\ "cadence" \in Workers
    BY TypeParts DEF Workers
  <2>2. PcType'
    BY <2>1, <1>14, TaskMoves DEF Decide, TaskLabels
  <2>3. TaskType'
    BY <2>1, <1>14 DEF Decide, TaskType
  <2>. QED
    BY <2>2, <2>3, <1>14 DEF Decide, PcType, TaskType
<1>15. ASSUME NEW s \in Symbols, Assess(s) PROVE TypeOK'
  <2>1. PcType /\ TaskType /\ "cadence" \in Workers
    BY TypeParts DEF Workers
  <2>2. PcType' /\ TaskType'
    <3>1. CASE todo' = todo \ {s} /\ UNCHANGED <<pc, job>>
      BY <2>1, <3>1, <1>15 DEF Assess, PcType, TaskType
    <3>2. CASE \E kind \in Kinds :
                 /\ job' = [job EXCEPT !["cadence"] = [symbol |-> s, run |-> run, kind |-> kind]]
                 /\ To("cadence", "refreshing")
                 /\ UNCHANGED todo
      <4>1. PcType'
        BY <2>1, <3>2, TaskMoves DEF TaskLabels, Trading
      <4>2. \A kind \in Kinds : [symbol |-> s, run |-> run, kind |-> kind] \in Jobs
        BY DEF Jobs
      <4>3. job' \in [Workers -> Jobs]
        BY <2>1, <3>2, <4>2 DEF TaskType
      <4>. QED
        BY <2>1, <3>2, <4>1, <4>3, <1>15 DEF Assess, TaskType
    <3>. QED
      BY <3>1, <3>2, <1>15 DEF Assess
  <2>. QED
    BY <2>2, <1>15 DEF Assess, PcType, TaskType
<1>16. ASSUME EndCycle PROVE TypeOK'
  <2>1. PcType /\ TaskType /\ "cadence" \in Workers
    BY TypeParts DEF Workers
  <2>2. PcType' /\ autoStop' \in {"none", "requested"} /\ goal' \in [Processes -> {"stop", "kill"}]
    <3>1. CASE RequestStop("stop", "cadence", "idle")
      BY <2>1, <3>1, StopRequests DEF TaskLabels
    <3>2. CASE To("cadence", "idle") /\ UNCHANGED <<autoStop, goal>>
      BY <2>1, <3>2, TaskMoves DEF TaskLabels
    <3>. QED
      BY <3>1, <3>2, <1>16 DEF EndCycle
  <2>3. TaskType'
    BY <2>1, <1>16 DEF EndCycle, TaskType
  <2>. QED
    BY <2>2, <2>3, <1>16 DEF EndCycle, PcType, TaskType
<1>17. ASSUME NEW s \in Symbols, DropIntent(s) PROVE TypeOK'
  BY <1>17 DEF DropIntent, Workers, Stoppers, Processes, Runs, Jobs, NoJob, Shutdown, Trading, Starting, Restoring, Clearing, TaskLabels, HandlerLabels
<1>18. ASSUME NEW s \in Symbols, Recheck(s) PROVE TypeOK'
  BY <1>18 DEF Recheck, To, Workers, Stoppers, Processes, Runs, Jobs, NoJob, Shutdown, Trading, Starting, Restoring, Clearing, TaskLabels, HandlerLabels
<1>19. ASSUME GuardStops PROVE TypeOK'
  <2>1. PcType /\ TaskType /\ "guard" \in Workers
    BY TypeParts DEF Workers
  <2>2. PcType' /\ autoStop' \in {"none", "requested"} /\ goal' \in [Processes -> {"stop", "kill"}]
    BY <2>1, <1>19, StopRequests DEF GuardStops, TaskLabels
  <2>3. TaskType'
    BY <2>1, <1>19 DEF GuardStops, TaskType
  <2>. QED
    BY <2>2, <2>3, <1>19 DEF GuardStops, PcType, TaskType
<1>20. ASSUME GuardEscalates PROVE TypeOK'
  <2>1. PcType /\ TaskType /\ "guard" \in Workers
    BY TypeParts DEF Workers
  <2>2. PcType' /\ autoStop' \in {"none", "requested"} /\ goal' \in [Processes -> {"stop", "kill"}]
    BY <2>1, <1>20, StopRequests DEF GuardEscalates, TaskLabels
  <2>3. TaskType'
    BY <2>1, <1>20 DEF GuardEscalates, TaskType
  <2>. QED
    BY <2>2, <2>3, <1>20 DEF GuardEscalates, PcType, TaskType
<1>21. ASSUME NEW c \in Clients, Restore(c) PROVE TypeOK'
  <2>0. PcType /\ c \in Stoppers
    BY TypeParts DEF Stoppers
  <2>1. CASE ReadLock(c)
    <3>0. \E label \in Restoring : To(c, label)
      BY <2>1 DEF ReadLock, Restoring
    <3>1. PcType'
      BY <2>0, <3>0, HandlerMoves DEF ReadLock, HandlerLabels, Starting, Restoring, Clearing
    <3>. QED
      BY <2>1, <3>1 DEF ReadLock, Overlap, PcType
  <2>2. CASE DropExpired(c)
    <3>1. PcType'
      BY <2>0, <2>2, HandlerMoves DEF DropExpired, HandlerLabels, Starting, Restoring, Clearing
    <3>. QED
      BY <2>2, <3>1 DEF DropExpired, Overlap, PcType
  <2>3. CASE Unlock(c)
    <3>1. PcType'
      BY <2>0, <2>3, HandlerMoves DEF Unlock, HandlerLabels, Starting, Restoring, Clearing
    <3>. QED
      BY <2>3, <3>1 DEF Unlock, Overlap, PcType
  <2>4. CASE Relock(c)
    <3>1. PcType'
      BY <2>0, <2>4, HandlerMoves DEF Relock, HandlerLabels, Starting, Restoring, Clearing
    <3>. QED
      BY <2>4, <3>1 DEF Relock, Overlap, PcType
  <2>. QED
    BY <1>21, <2>1, <2>2, <2>3, <2>4 DEF Restore
<1>22. ASSUME NEW c \in Clients, Reconcile(c) PROVE TypeOK'
  <2>1. PcType /\ TaskType /\ c \in Stoppers
    BY TypeParts DEF Stoppers
  <2>2. PcType'
    BY <2>1, <1>22, HandlerMoves DEF Reconcile, HandlerLabels, Starting, Restoring, Clearing
  <2>. QED
    BY <2>2, <1>22, ConstantAssumption DEF Reconcile, PcType
<1>23. ASSUME NEW c \in Clients, BeginRun(c) PROVE TypeOK'
  <2>1. PcType /\ TaskType /\ c \in Stoppers
    BY TypeParts DEF Stoppers
  <2>2. CASE NewRun \in Runs
    <3>1. PcType'
      <4>1. pc' = [q \in Processes |->
                    IF q = c \/ (q \in Workers /\ pc["cadence"] = "off") THEN "idle" ELSE pc[q]]
        BY <2>2, <1>23 DEF BeginRun
      <4>. QED
        BY <2>1, <4>1, TwoKinds DEF PcType, TaskLabels, HandlerLabels, Clearing
    <3>2. NewRun \in 0..MaxRuns /\ 0 \in 0..RescueLimit
      BY <2>2, ConstantAssumption DEF Runs
    <3>. QED
      BY <2>2, <3>1, <3>2, <1>23 DEF BeginRun, PcType
  <2>3. CASE NewRun \notin Runs
    <3>1. PcType'
      BY <2>1, <2>3, <1>23, HandlerMoves DEF BeginRun, HandlerLabels, Clearing
    <3>. QED
      BY <2>3, <3>1, <1>23 DEF BeginRun, PcType
  <2>. QED
    BY <2>2, <2>3
<1>24. ASSUME NEW c \in Clients, Clear(c) PROVE TypeOK'
  <2>0. PcType /\ c \in Stoppers
    BY TypeParts DEF Stoppers
  <2>1. CASE Inspect(c)
    <3>0. \E label \in {"clear", "idle"} : To(c, label)
      BY <2>1 DEF Inspect
    <3>1. PcType'
      BY <2>0, <3>0, HandlerMoves DEF Inspect, HandlerLabels, Starting, Restoring, Clearing
    <3>. QED
      BY <2>1, <3>1 DEF Inspect, Overlap, PcType
  <2>2. CASE Lift(c)
    <3>1. PcType'
      BY <2>0, <2>2, HandlerMoves DEF Lift, HandlerLabels, Starting, Restoring, Clearing
    <3>. QED
      BY <2>2, <3>1 DEF Lift, Overlap, PcType
  <2>3. CASE DeleteLock(c)
    <3>1. PcType'
      BY <2>0, <2>3, HandlerMoves DEF DeleteLock, HandlerLabels, Starting, Restoring, Clearing
    <3>. QED
      BY <2>3, <3>1 DEF DeleteLock, Overlap, PcType
  <2>. QED
    BY <1>24, <2>1, <2>2, <2>3 DEF Clear
<1>25. ASSUME NEW c \in Clients, NEW g \in {"stop", "kill"}, AskShutdown(c, g) PROVE TypeOK'
  BY <1>25 DEF AskShutdown, To, Workers, Stoppers, Processes, Runs, Jobs, NoJob, Shutdown, Trading, Starting, Restoring, Clearing, TaskLabels, HandlerLabels
<1>26. ASSUME NEW c \in Clients, AskStart(c) PROVE TypeOK'
  BY <1>26 DEF AskStart, To, Workers, Stoppers, Processes, Runs, Jobs, NoJob, Shutdown, Trading, Starting, Restoring, Clearing, TaskLabels, HandlerLabels
<1>27. ASSUME NEW c \in Clients, AskClear(c) PROVE TypeOK'
  BY <1>27 DEF AskClear, To, Workers, Stoppers, Processes, Runs, Jobs, NoJob, Shutdown, Trading, Starting, Restoring, Clearing, TaskLabels, HandlerLabels
<1>28. ASSUME CycleTimesOut PROVE TypeOK'
  BY <1>28 DEF CycleTimesOut, Orphans, To, Workers, Stoppers, Processes, Runs, Jobs, NoJob, Shutdown, Trading, Starting, Restoring, Clearing, TaskLabels, HandlerLabels
<1>29. ASSUME CrashAndRestart PROVE TypeOK'
  BY <1>29 DEF CrashAndRestart, Orphans, Workers, Stoppers, Processes, Runs, Jobs, NoJob, Shutdown, Trading, Starting, Restoring, Clearing, TaskLabels, HandlerLabels
<1>30. ASSUME DayTurns PROVE TypeOK'
  BY <1>30 DEF DayTurns, Workers, Stoppers, Processes, Runs, Jobs, NoJob, Shutdown, Trading, Starting, Restoring, Clearing, TaskLabels, HandlerLabels
<1>31. ASSUME NEW s \in Symbols, BracketFires(s) PROVE TypeOK'
  BY <1>31 DEF BracketFires, Workers, Stoppers, Processes, Runs, Jobs, NoJob, Shutdown, Trading, Starting, Restoring, Clearing, TaskLabels, HandlerLabels
<1>32. ASSUME NEW s \in Symbols, ManualClose(s) PROVE TypeOK'
  BY <1>32 DEF ManualClose, Workers, Stoppers, Processes, Runs, Jobs, NoJob, Shutdown, Trading, Starting, Restoring, Clearing, TaskLabels, HandlerLabels
<1>. QED
  BY <1>1, <1>2, <1>3, <1>4, <1>5, <1>6, <1>7, <1>8, <1>9, <1>10, <1>11, <1>12, <1>13, <1>14, <1>15, <1>16, <1>17, <1>18, <1>19, <1>20, <1>21, <1>22, <1>23, <1>24, <1>25, <1>26, <1>27, <1>28, <1>29, <1>30, <1>31, <1>32 DEF Next, Trade, EndRun, Cycle, Guard, Handle, Ask, Environment

\* A step that neither moves a client into a start nor starts the engine.
LEMMA NoNewStart ==
  ASSUME LoneStart, engine = "stopped" => engine' = "stopped",
         \A c \in Clients : pc'[c] \in Starting => pc[c] \in Starting
  PROVE  LoneStart'
BY DEF LoneStart

\* A step of a process to a label outside Starting.
LEMMA StepsAside ==
  ASSUME PcType, NEW p \in Processes, NEW label, label \notin Starting,
         pc' = [pc EXCEPT ![p] = label]
  PROVE  \A c \in Clients : pc'[c] \in Starting => pc[c] \in Starting
BY DEF PcType, Processes, Stoppers

\* A step of a task, with or without the detached task, leaves the clients alone.
LEMMA ClientsStay ==
  ASSUME PcType, NEW w \in Workers, NEW label,
         \/ pc' = [pc EXCEPT ![w] = label]
         \/ pc' = [pc EXCEPT ![w] = label, !["reaper"] = "cancelTasks"]
  PROVE  \A c \in Clients : pc'[c] = pc[c]
BY ConstantAssumption DEF PcType, Workers, Processes, Stoppers

\* LoneStart and OneOpenRow hold together: a run begins only from a start, and
\* every way to end it closes its row.
StartBooks == LoneStart /\ OneOpenRow

\* Every step keeps both.
LEMMA StartBooksStep ==
  TypeOK /\ StartBooks /\ [Next]_vars => StartBooks'
<1>. SUFFICES ASSUME TypeOK, StartBooks, [Next]_vars
           PROVE  StartBooks'
  OBVIOUS
<1>. USE ConstantAssumption DEF TypeOK, Workers, Stoppers, Processes, Starting, Restoring, Clearing, Shutdown, Trading, engineVars, databaseVars, taskVars, historyVars, StartBooks, LoneStart, OneOpenRow, Runs
<1>1. CASE UNCHANGED vars
  BY <1>1 DEF vars
<1>2. ASSUME NEW w \in Workers, Judge(w) PROVE StartBooks'
  BY <1>2 DEF Judge, NextJob, To
<1>3. ASSUME NEW w \in Workers, Record(w) PROVE StartBooks'
  <2>1. \E label \in {"entering", "assess", "idle"} : pc' = [pc EXCEPT ![w] = label]
    BY <1>3 DEF Record, NextJob, Resting, To
  <2>2. \A c \in Clients : pc'[c] = pc[c]
    BY <2>1, TypeParts, ClientsStay
  <2>3. LoneStart'
    BY <2>2, <1>3, NoNewStart DEF Record
  <2>. QED
    BY <2>3, <1>3 DEF Record
<1>4. ASSUME NEW w \in Workers, Enter(w) PROVE StartBooks'
  BY <1>4 DEF Enter, To
<1>5. ASSUME NEW w \in Workers, Bracket(w) PROVE StartBooks'
  BY <1>5 DEF Bracket, To
<1>6. ASSUME NEW w \in Workers, Audit(w) PROVE StartBooks'
  BY <1>6 DEF Audit, NextJob, Resting, To
<1>7. ASSUME NEW w \in Workers, AuditUnsafe(w) PROVE StartBooks'
  <2>1. \E label \in {"drop", "persist"} : pc' = [pc EXCEPT ![w] = label]
    BY <1>7 DEF AuditUnsafe, Lock, LockIf, To
  <2>2. \A c \in Clients : pc'[c] = pc[c]
    BY <2>1, TypeParts, ClientsStay
  <2>3. UNCHANGED <<rows, run>> /\ (engine = "stopped" => engine' = "stopped")
    BY <1>7 DEF AuditUnsafe, Lock, LockIf, To
  <2>4. LoneStart'
    BY <2>2, <2>3, NoNewStart
  <2>. QED
    BY <2>3, <2>4, <1>7 DEF AuditUnsafe, Lock, LockIf, To
<1>8. ASSUME NEW p \in Processes, CancelTasks(p) PROVE StartBooks'
  BY <1>8 DEF CancelTasks, LockIf, Orphans
<1>9. ASSUME NEW p \in Processes, Drop(p) PROVE StartBooks'
  BY <1>9 DEF Drop, To
<1>10. ASSUME NEW p \in Processes, Finish(p) PROVE StartBooks'
  <2>1. \E label \in {"idle", "persist"} : pc' = [pc EXCEPT ![p] = label]
    BY <1>10 DEF Finish, Lock, LockIf, To, RowStatus
  <2>2. engine' = "stopped" /\ UNCHANGED run
    BY <1>10 DEF Finish, Lock, LockIf
  <2>3. LoneStart'
    BY <2>1, <2>2, TypeParts, StepsAside, NoNewStart
  <2>4. \A r \in Runs : rows'[r] # "open"
    BY <1>10 DEF Finish, RowStatus
  <2>. QED
    BY <2>2, <2>3, <2>4
<1>11. ASSUME NEW p \in Processes, Persist(p) PROVE StartBooks'
  BY <1>11 DEF Persist, To
<1>12. ASSUME NEW p \in Processes, Flatten(p) PROVE StartBooks'
  <2>1. \E label \in {"idle", "assess"} : pc' = [pc EXCEPT ![p] = label]
    BY <1>12 DEF Flatten, NextJob, Resting, To
  <2>2. LoneStart'
    BY <2>1, <1>12, TypeParts, StepsAside, NoNewStart DEF Flatten
  <2>. QED
    BY <2>2, <1>12 DEF Flatten
<1>13. ASSUME BeginCycle PROVE StartBooks'
  BY <1>13 DEF BeginCycle, To
<1>14. ASSUME Decide PROVE StartBooks'
  BY <1>14 DEF Decide, To
<1>15. ASSUME NEW s \in Symbols, Assess(s) PROVE StartBooks'
  <2>1. \A c \in Clients : pc'[c] = pc[c]
    BY <1>15, TypeParts, ClientsStay DEF Assess, To
  <2>2. LoneStart'
    BY <2>1, <1>15, NoNewStart DEF Assess
  <2>. QED
    BY <2>2, <1>15 DEF Assess
<1>16. ASSUME EndCycle PROVE StartBooks'
  <2>1. \A c \in Clients : pc'[c] = pc[c]
    BY <1>16, ConstantAssumption, TypeParts DEF EndCycle, RequestStop, To, PcType
  <2>2. LoneStart'
    BY <2>1, <1>16, NoNewStart DEF EndCycle
  <2>. QED
    BY <2>2, <1>16 DEF EndCycle
<1>17. ASSUME NEW s \in Symbols, DropIntent(s) PROVE StartBooks'
  BY <1>17 DEF DropIntent
<1>18. ASSUME NEW s \in Symbols, Recheck(s) PROVE StartBooks'
  BY <1>18 DEF Recheck, To
<1>19. ASSUME GuardStops PROVE StartBooks'
  <2>1. \A c \in Clients : pc'[c] = pc[c]
    BY <1>19, ConstantAssumption, TypeParts DEF GuardStops, RequestStop, To, PcType
  <2>2. LoneStart'
    BY <2>1, <1>19, NoNewStart DEF GuardStops
  <2>. QED
    BY <2>2, <1>19 DEF GuardStops
<1>20. ASSUME GuardEscalates PROVE StartBooks'
  <2>1. \A c \in Clients : pc'[c] = pc[c]
    BY <1>20, ConstantAssumption, TypeParts DEF GuardEscalates, RequestStop, To, PcType
  <2>2. LoneStart'
    BY <2>1, <1>20, NoNewStart DEF GuardEscalates
  <2>. QED
    BY <2>2, <1>20 DEF GuardEscalates
<1>21. ASSUME NEW c \in Clients, Restore(c) PROVE StartBooks'
  BY <1>21 DEF Restore, ReadLock, DropExpired, Unlock, Relock, Overlap, To
<1>22. ASSUME NEW c \in Clients, Reconcile(c) PROVE StartBooks'
  <2>1. pc[c] \in Starting /\ \A d \in Clients \ {c} : pc'[d] = pc[d]
    BY <1>22, TypeParts DEF Reconcile, To, PcType
  <2>. QED
    BY <2>1, <1>22 DEF Reconcile
<1>23. ASSUME NEW c \in Clients, BeginRun(c) PROVE StartBooks'
  <2>1. pc[c] \in Starting /\ \A d \in Clients \ {c} : pc[d] \notin Starting
    BY <1>23 DEF BeginRun
  <2>2. \A d \in Clients : pc'[d] \notin Starting
    <3>1. CASE pc' = [pc EXCEPT ![c] = "idle"]
      BY <2>1, <3>1, TypeParts DEF PcType
    <3>2. CASE pc' = [q \in Processes |->
                       IF q = c \/ (q \in Workers /\ pc["cadence"] = "off") THEN "idle" ELSE pc[q]]
      BY <2>1, <3>2
    <3>. QED
      BY <3>1, <3>2, <1>23 DEF BeginRun, To
  <2>3. \A r \in Runs : rows[r] # "open"
    BY <2>1
  <2>4. OneOpenRow'
    BY <2>1, <2>3, <1>23 DEF BeginRun
  <2>. QED
    BY <2>2, <2>4
<1>24. ASSUME NEW c \in Clients, Clear(c) PROVE StartBooks'
  <2>1. \E label \in {"clear", "delete", "idle"} : pc' = [pc EXCEPT ![c] = label]
    BY <1>24 DEF Clear, Inspect, Lift, DeleteLock, To
  <2>2. UNCHANGED <<engine, run, rows>>
    BY <1>24 DEF Clear, Inspect, Lift, DeleteLock
  <2>3. LoneStart'
    BY <2>1, <2>2, TypeParts, StepsAside, NoNewStart
  <2>. QED
    BY <2>2, <2>3
<1>25. ASSUME NEW c \in Clients, NEW g \in {"stop", "kill"}, AskShutdown(c, g) PROVE StartBooks'
  BY <1>25 DEF AskShutdown, To
<1>26. ASSUME NEW c \in Clients, AskStart(c) PROVE StartBooks'
  <2>1. \A d \in Clients : pc[d] \notin Starting
    BY <1>26 DEF AskStart, Nobody
  <2>2. engine' = "stopped" /\ UNCHANGED <<rows, run, engine>>
    BY <1>26 DEF AskStart
  <2>3. \A d \in Clients \ {c} : pc'[d] = pc[d]
    BY <1>26, TypeParts DEF AskStart, To, PcType
  <2>. QED
    BY <2>1, <2>2, <2>3
<1>27. ASSUME NEW c \in Clients, AskClear(c) PROVE StartBooks'
  BY <1>27 DEF AskClear, To
<1>28. ASSUME CycleTimesOut PROVE StartBooks'
  BY <1>28 DEF CycleTimesOut, Orphans, To
<1>29. ASSUME CrashAndRestart PROVE StartBooks'
  BY <1>29 DEF CrashAndRestart, Orphans
<1>30. ASSUME DayTurns PROVE StartBooks'
  BY <1>30 DEF DayTurns
<1>31. ASSUME NEW s \in Symbols, BracketFires(s) PROVE StartBooks'
  BY <1>31 DEF BracketFires
<1>32. ASSUME NEW s \in Symbols, ManualClose(s) PROVE StartBooks'
  BY <1>32 DEF ManualClose
<1>. QED
  BY <1>1, <1>2, <1>3, <1>4, <1>5, <1>6, <1>7, <1>8, <1>9, <1>10, <1>11, <1>12, <1>13, <1>14, <1>15, <1>16, <1>17, <1>18, <1>19, <1>20, <1>21, <1>22, <1>23, <1>24, <1>25, <1>26, <1>27, <1>28, <1>29, <1>30, <1>31, <1>32 DEF Next, Trade, EndRun, Cycle, Guard, Handle, Ask, Environment

\* Whoever is about to free the lock in memory overlaps every emergency stop
\* that is still to write its row, and no row that has not expired is read as
\* free without one.
Overlapped ==
  overlap = "no" =>
    \A c \in Clients : pc[c] \in {"expire", "unlock", "clear"} =>
      \A p \in Processes : pc[p] # "persist"

\* A start that is about to free the lock has read no lock in force.
ReadsFree ==
  overlap = "no" => \A c \in Clients : pc[c] \in {"expire", "unlock"} => saved # "active"

\* The memory lock precedes the persisted one, except past an overlap.
LockedFirst == overlap = "no" => \A p \in Processes : pc[p] = "persist" => lock = "locked"

\* The four hold together.
LockBooks == Overlapped /\ ReadsFree /\ LockedFirst /\ LockIsEffective

\* A step that neither touches the lock nor brings a process to where it will.
LocksRest ==
  /\ UNCHANGED <<lock, saved, overlap>>
  /\ \A p \in Processes : pc'[p] = pc[p] \/ pc'[p] \notin {"persist", "expire", "unlock", "clear"}
  /\ \A c \in Clients : pc[c] = "delete" => pc'[c] = "delete"

\* Such a step keeps the books.
LEMMA BooksRest ==
  ASSUME LockBooks, LocksRest
  PROVE  LockBooks'
<1>1. Clients \subseteq Processes
  BY DEF Processes, Stoppers
<1>2. Overlapped' /\ ReadsFree' /\ LockedFirst'
  BY <1>1 DEF LocksRest, LockBooks, Overlapped, ReadsFree, LockedFirst
<1>3. LockIsEffective'
  BY DEF LocksRest, LockBooks, LockIsEffective
<1>. QED
  BY <1>2, <1>3 DEF LockBooks

\* A step of a task, with or without the detached task.
LEMMA TasksRest ==
  ASSUME TypeOK, LockBooks, NEW w \in Workers,
         NEW label, label \notin {"persist", "expire", "unlock", "clear"},
         \/ pc' = [pc EXCEPT ![w] = label]
         \/ pc' = [pc EXCEPT ![w] = label, !["reaper"] = "cancelTasks"],
         UNCHANGED <<lock, saved, overlap>>
  PROVE  LockBooks'
<1>1. \A c \in Clients : pc'[c] = pc[c]
  BY TypeParts, ClientsStay
<1>2. \A p \in Processes : pc'[p] = pc[p] \/ pc'[p] \in {label, "cancelTasks"}
  BY DEF TypeOK
<1>3. LocksRest
  BY <1>1, <1>2 DEF LocksRest
<1>. QED
  BY <1>3, BooksRest

\* A step that locks: whoever is about to free the lock is recorded.
LocksNow ==
  /\ lock' = "locked"
  /\ overlap' = IF FreeingLock THEN "yes" ELSE "no"
  /\ \A c \in Clients : pc'[c] \in {"expire", "unlock", "clear"} => pc'[c] = pc[c]

\* Such a step keeps the books.
LEMMA LocksNowWell ==
  ASSUME LocksNow, UNCHANGED saved
  PROVE  LockBooks'
<1>1. overlap' = "no" => \A c \in Clients : pc'[c] \notin {"expire", "unlock", "clear"}
  BY DEF LocksNow, FreeingLock
<1>2. Overlapped' /\ ReadsFree'
  BY <1>1 DEF Overlapped, ReadsFree
<1>3. LockedFirst' /\ LockIsEffective'
  BY DEF LocksNow, LockedFirst, LockIsEffective
<1>. QED
  BY <1>2, <1>3 DEF LockBooks

\* emergency_stop of a process.
LEMMA LocksWell ==
  ASSUME TypeOK, NEW p \in Processes, Lock(p), UNCHANGED saved
  PROVE  LockBooks'
<1>1. LocksNow
  BY DEF Lock, LockIf, To, LocksNow, TypeOK, Processes, Stoppers
<1>. QED
  BY <1>1, LocksNowWell

\* Every step keeps them.
LEMMA LockBooksStep ==
  TypeOK /\ LockBooks /\ [Next]_vars => LockBooks'
<1>. SUFFICES ASSUME TypeOK, LockBooks, [Next]_vars
           PROVE  LockBooks'
  OBVIOUS
<1>. USE ConstantAssumption DEF engineVars, databaseVars, taskVars, historyVars
<1>0. Workers \subseteq Processes /\ Clients \subseteq Processes /\ "cadence" \in Workers /\ "guard" \in Workers
  BY DEF Workers, Processes, Stoppers
<1>1. CASE UNCHANGED vars
  <2>1. LocksRest
    BY <1>1 DEF vars, LocksRest
  <2>. QED
    BY <2>1, BooksRest
<1>2. ASSUME NEW w \in Workers, Judge(w) PROVE LockBooks'
  <2>1. LocksRest
    BY <1>2, <1>0 DEF Judge, NextJob, To, LocksRest, TypeOK, Workers, Processes, Stoppers
  <2>. QED
    BY <2>1, BooksRest
<1>3. ASSUME NEW w \in Workers, Record(w) PROVE LockBooks'
  <2>1. \E label \in {"entering", "assess", "idle"} : pc' = [pc EXCEPT ![w] = label]
    BY <1>3 DEF Record, NextJob, Resting, To
  <2>2. UNCHANGED <<lock, saved, overlap>>
    BY <1>3 DEF Record
  <2>. QED
    BY <2>1, <2>2, TasksRest
<1>4. ASSUME NEW w \in Workers, Enter(w) PROVE LockBooks'
  <2>1. LocksRest
    BY <1>4, <1>0 DEF Enter, To, LocksRest, TypeOK, Workers, Processes, Stoppers
  <2>. QED
    BY <2>1, BooksRest
<1>5. ASSUME NEW w \in Workers, Bracket(w) PROVE LockBooks'
  <2>1. LocksRest
    BY <1>5, <1>0 DEF Bracket, To, LocksRest, TypeOK, Workers, Processes, Stoppers
  <2>. QED
    BY <2>1, BooksRest
<1>6. ASSUME NEW w \in Workers, Audit(w) PROVE LockBooks'
  <2>1. LocksRest
    BY <1>6, <1>0 DEF Audit, NextJob, Resting, To, LocksRest, TypeOK, Workers, Processes, Stoppers
  <2>. QED
    BY <2>1, BooksRest
<1>7. ASSUME NEW w \in Workers, AuditUnsafe(w) PROVE LockBooks'
  <2>1. CASE engine = "running"
    <3>1. LocksRest
      BY <1>7, <1>0, <2>1 DEF AuditUnsafe, To, LocksRest, TypeOK, Workers, Processes, Stoppers
    <3>. QED
      BY <3>1, BooksRest
  <2>2. CASE engine # "running"
    <3>1. Lock(w) /\ UNCHANGED saved /\ pc[w] = "auditing"
      BY <1>7, <2>2 DEF AuditUnsafe
    <3>. QED
      BY <3>1, <1>0, LocksWell
  <2>. QED
    BY <2>1, <2>2
<1>8. ASSUME NEW p \in Processes, CancelTasks(p) PROVE LockBooks'
  <2>1. CASE engine = "stopped" /\ goal[p] = "kill"
    <3>1. LocksNow /\ UNCHANGED saved
      BY <1>8, <2>1 DEF CancelTasks, Orphans, LockIf, LocksNow, TypeOK, Processes, Stoppers, Workers
    <3>. QED
      BY <3>1, LocksNowWell
  <2>2. CASE ~(engine = "stopped" /\ goal[p] = "kill")
    <3>1. LocksRest
      BY <1>8, <2>2 DEF CancelTasks, Orphans, LockIf, LocksRest, TypeOK, Processes, Stoppers, Workers
    <3>. QED
      BY <3>1, BooksRest
  <2>. QED
    BY <2>1, <2>2
<1>9. ASSUME NEW p \in Processes, Drop(p) PROVE LockBooks'
  <2>1. LocksRest
    BY <1>9, <1>0 DEF Drop, To, LocksRest, TypeOK, Workers, Processes, Stoppers
  <2>. QED
    BY <2>1, BooksRest
<1>10. ASSUME NEW p \in Processes, Finish(p) PROVE LockBooks'
  <2>1. CASE goal[p] = "kill"
    <3>1. Lock(p) /\ UNCHANGED saved /\ pc[p] = "finish"
      BY <1>10, <2>1 DEF Finish
    <3>. QED
      BY <3>1, LocksWell
  <2>2. CASE goal[p] # "kill"
    <3>1. LocksRest
      BY <1>10, <2>2 DEF Finish, To, LocksRest, TypeOK, Processes, Stoppers
    <3>. QED
      BY <3>1, BooksRest
  <2>. QED
    BY <2>1, <2>2
<1>11. ASSUME NEW p \in Processes, Persist(p) PROVE LockBooks'
  <2>1. \A q \in Processes : pc'[q] = pc[q] \/ pc'[q] = "flatten"
    BY <1>11 DEF Persist, To, TypeOK
  <2>2. pc[p] = "persist" /\ UNCHANGED <<lock, overlap>> /\ saved' = "active"
    BY <1>11 DEF Persist
  <2>3. overlap = "no" => lock = "locked"
    BY <2>2 DEF LockBooks, LockedFirst
  <2>4. overlap = "no" => \A c \in Clients : pc[c] \notin {"expire", "unlock", "clear"}
    BY <2>2 DEF LockBooks, Overlapped
  <2>5. Overlapped' /\ ReadsFree'
    BY <2>1, <2>2, <2>4, <1>0 DEF Overlapped, ReadsFree
  <2>6. LockedFirst' /\ LockIsEffective'
    BY <2>2, <2>3 DEF LockedFirst, LockIsEffective
  <2>. QED
    BY <2>5, <2>6 DEF LockBooks
<1>12. ASSUME NEW p \in Processes, Flatten(p) PROVE LockBooks'
  <2>1. \E label \in {"assess", "idle"} : pc' = [pc EXCEPT ![p] = label]
    BY <1>12 DEF Flatten, NextJob, Resting, To
  <2>2. pc[p] = "flatten" /\ UNCHANGED <<lock, saved, overlap>>
    BY <1>12 DEF Flatten
  <2>3. LocksRest
    BY <2>1, <2>2, <1>0 DEF LocksRest, TypeOK
  <2>. QED
    BY <2>3, BooksRest
<1>13. ASSUME BeginCycle PROVE LockBooks'
  <2>1. LocksRest
    BY <1>13, <1>0 DEF BeginCycle, To, LocksRest, TypeOK, Workers, Processes, Stoppers
  <2>. QED
    BY <2>1, BooksRest
<1>14. ASSUME Decide PROVE LockBooks'
  <2>1. LocksRest
    BY <1>14, <1>0 DEF Decide, To, LocksRest, TypeOK, Workers, Processes, Stoppers
  <2>. QED
    BY <2>1, BooksRest
<1>15. ASSUME NEW s \in Symbols, Assess(s) PROVE LockBooks'
  <2>1. LocksRest
    BY <1>15, <1>0 DEF Assess, To, LocksRest, TypeOK, Workers, Processes, Stoppers
  <2>. QED
    BY <2>1, BooksRest
<1>16. ASSUME EndCycle PROVE LockBooks'
  <2>1. \/ pc' = [pc EXCEPT !["cadence"] = "idle"]
        \/ pc' = [pc EXCEPT !["cadence"] = "idle", !["reaper"] = "cancelTasks"]
    BY <1>16 DEF EndCycle, RequestStop, To
  <2>2. UNCHANGED <<lock, saved, overlap>>
    BY <1>16 DEF EndCycle
  <2>. QED
    BY <2>1, <2>2, <1>0, TasksRest
<1>17. ASSUME NEW s \in Symbols, DropIntent(s) PROVE LockBooks'
  <2>1. LocksRest
    BY <1>17, <1>0 DEF DropIntent, LocksRest, TypeOK, Workers, Processes, Stoppers
  <2>. QED
    BY <2>1, BooksRest
<1>18. ASSUME NEW s \in Symbols, Recheck(s) PROVE LockBooks'
  <2>1. LocksRest
    BY <1>18, <1>0 DEF Recheck, To, LocksRest, TypeOK, Workers, Processes, Stoppers
  <2>. QED
    BY <2>1, BooksRest
<1>19. ASSUME GuardStops PROVE LockBooks'
  <2>1. \/ pc' = [pc EXCEPT !["guard"] = "ended"]
        \/ pc' = [pc EXCEPT !["guard"] = "ended", !["reaper"] = "cancelTasks"]
    BY <1>19 DEF GuardStops, RequestStop, To
  <2>2. UNCHANGED <<lock, saved, overlap>>
    BY <1>19 DEF GuardStops
  <2>. QED
    BY <2>1, <2>2, <1>0, TasksRest
<1>20. ASSUME GuardEscalates PROVE LockBooks'
  <2>1. \/ pc' = [pc EXCEPT !["guard"] = "ended"]
        \/ pc' = [pc EXCEPT !["guard"] = "ended", !["reaper"] = "cancelTasks"]
    BY <1>20 DEF GuardEscalates, RequestStop, To
  <2>2. UNCHANGED <<lock, saved, overlap>>
    BY <1>20 DEF GuardEscalates
  <2>. QED
    BY <2>1, <2>2, <1>0, TasksRest
<1>21. ASSUME NEW c \in Clients, Restore(c) PROVE LockBooks'
  <2>1. CASE ReadLock(c)
    <3>1. \A q \in Processes \ {c} : pc'[q] = pc[q]
      BY <2>1 DEF ReadLock, To, TypeOK
    <3>2. pc'[c] = (CASE saved = "none" -> "unlock" [] saved = "expired" -> "expire" [] OTHER -> "relock")
      BY <2>1, <1>0 DEF ReadLock, To, TypeOK
    <3>3. pc'[c] \in {"unlock", "expire", "relock"} /\ (pc'[c] # "relock" => saved # "active")
      BY <3>2 DEF TypeOK
    <3>4. UNCHANGED <<lock, saved>> /\ pc[c] = "restore"
      BY <2>1 DEF ReadLock
    <3>5. overlap' = "no" => overlap = "no" /\ \A p \in Processes : pc[p] # "persist"
      BY <2>1 DEF ReadLock, Overlap, WritingLock
    <3>6. Overlapped' /\ LockedFirst'
      BY <3>1, <3>3, <3>4, <3>5, <1>0 DEF Overlapped, LockedFirst
    <3>7. ReadsFree'
      BY <3>1, <3>3, <3>4, <3>5, <1>0 DEF LockBooks, ReadsFree
    <3>8. LockIsEffective'
      BY <3>1, <3>4, <3>5, <1>0 DEF LockBooks, LockIsEffective
    <3>. QED
      BY <3>6, <3>7, <3>8 DEF LockBooks
  <2>2. CASE DropExpired(c)
    <3>1. \A q \in Processes \ {c} : pc'[q] = pc[q]
      BY <2>2 DEF DropExpired, To, TypeOK
    <3>2. pc'[c] = "unlock" /\ pc[c] = "expire" /\ saved' = "none" /\ UNCHANGED <<lock, overlap>>
      BY <2>2, <1>0 DEF DropExpired, To, TypeOK
    <3>3. Overlapped' /\ LockedFirst'
      BY <3>1, <3>2, <1>0 DEF LockBooks, Overlapped, LockedFirst
    <3>4. ReadsFree' /\ LockIsEffective'
      BY <3>2 DEF ReadsFree, LockIsEffective
    <3>. QED
      BY <3>3, <3>4 DEF LockBooks
  <2>3. CASE Unlock(c)
    <3>1. \A q \in Processes \ {c} : pc'[q] = pc[q]
      BY <2>3 DEF Unlock, To, TypeOK
    <3>2. pc'[c] = "reconcile" /\ pc[c] = "unlock" /\ lock' = "free" /\ UNCHANGED <<saved, overlap>>
      BY <2>3, <1>0 DEF Unlock, To, TypeOK
    <3>3. Overlapped' /\ ReadsFree'
      BY <3>1, <3>2, <1>0 DEF LockBooks, Overlapped, ReadsFree
    <3>4. overlap = "no" => saved # "active" /\ \A p \in Processes : pc[p] # "persist"
      BY <3>2 DEF LockBooks, Overlapped, ReadsFree
    <3>5. LockedFirst' /\ LockIsEffective'
      BY <3>1, <3>2, <3>4, <1>0 DEF LockedFirst, LockIsEffective
    <3>. QED
      BY <3>3, <3>5 DEF LockBooks
  <2>4. CASE Relock(c)
    <3>1. \A q \in Processes \ {c} : pc'[q] = pc[q]
      BY <2>4 DEF Relock, To, TypeOK
    <3>2. pc'[c] = "idle" /\ lock' = "locked" /\ UNCHANGED <<saved, overlap>>
      BY <2>4, <1>0 DEF Relock, To, TypeOK
    <3>3. Overlapped' /\ ReadsFree'
      BY <3>1, <3>2, <1>0 DEF LockBooks, Overlapped, ReadsFree
    <3>4. LockedFirst' /\ LockIsEffective'
      BY <3>2 DEF LockedFirst, LockIsEffective
    <3>. QED
      BY <3>3, <3>4 DEF LockBooks
  <2>. QED
    BY <1>21, <2>1, <2>2, <2>3, <2>4 DEF Restore
<1>22. ASSUME NEW c \in Clients, Reconcile(c) PROVE LockBooks'
  <2>1. LocksRest
    BY <1>22, <1>0 DEF Reconcile, To, LocksRest, TypeOK, Workers, Processes, Stoppers
  <2>. QED
    BY <2>1, BooksRest
<1>23. ASSUME NEW c \in Clients, BeginRun(c) PROVE LockBooks'
  <2>1. pc[c] = "begin" /\ UNCHANGED <<lock, saved, overlap>>
    BY <1>23 DEF BeginRun
  <2>2. \/ pc' = [pc EXCEPT ![c] = "idle"]
        \/ pc' = [q \in Processes |->
                    IF q = c \/ (q \in Workers /\ pc["cadence"] = "off") THEN "idle" ELSE pc[q]]
    BY <1>23 DEF BeginRun, To
  <2>3. \A p \in Processes : pc'[p] = pc[p] \/ pc'[p] = "idle"
    BY <2>2 DEF TypeOK
  <2>4. \A d \in Clients \ {c} : pc'[d] = pc[d]
    BY <2>2, <1>0 DEF TypeOK, Workers
  <2>5. LocksRest
    BY <2>1, <2>3, <2>4 DEF LocksRest
  <2>. QED
    BY <2>5, BooksRest
<1>24. ASSUME NEW c \in Clients, Clear(c) PROVE LockBooks'
  <2>1. CASE Inspect(c)
    <3>1. \A q \in Processes \ {c} : pc'[q] = pc[q]
      BY <2>1 DEF Inspect, To, TypeOK
    <3>2. pc'[c] \in {"clear", "idle"} /\ pc[c] = "inspect" /\ UNCHANGED <<lock, saved>>
      BY <2>1, <1>0 DEF Inspect, To, TypeOK
    <3>3. overlap' = "no" => overlap = "no" /\ \A p \in Processes : pc[p] # "persist"
      BY <2>1 DEF Inspect, Overlap, WritingLock
    <3>4. Overlapped' /\ LockedFirst'
      BY <3>1, <3>2, <3>3, <1>0 DEF Overlapped, LockedFirst
    <3>5. ReadsFree' /\ LockIsEffective'
      BY <3>1, <3>2, <3>3, <1>0 DEF LockBooks, ReadsFree, LockIsEffective
    <3>. QED
      BY <3>4, <3>5 DEF LockBooks
  <2>2. CASE Lift(c)
    <3>1. \A q \in Processes \ {c} : pc'[q] = pc[q]
      BY <2>2 DEF Lift, To, TypeOK
    <3>2. pc'[c] = "delete" /\ pc[c] = "clear" /\ UNCHANGED <<saved, overlap>>
      BY <2>2, <1>0 DEF Lift, To, TypeOK
    <3>3. Overlapped' /\ ReadsFree'
      BY <3>1, <3>2, <1>0 DEF LockBooks, Overlapped, ReadsFree
    <3>4. overlap = "no" => \A p \in Processes : pc[p] # "persist"
      BY <3>2 DEF LockBooks, Overlapped
    <3>5. LockedFirst' /\ LockIsEffective'
      BY <3>1, <3>2, <3>4, <1>0 DEF LockedFirst, LockIsEffective
    <3>. QED
      BY <3>3, <3>5 DEF LockBooks
  <2>3. CASE DeleteLock(c)
    <3>1. \A q \in Processes \ {c} : pc'[q] = pc[q]
      BY <2>3 DEF DeleteLock, To, TypeOK
    <3>2. pc'[c] = "idle" /\ saved' = "none" /\ UNCHANGED <<lock, overlap>>
      BY <2>3, <1>0 DEF DeleteLock, To, TypeOK
    <3>3. Overlapped' /\ LockedFirst'
      BY <3>1, <3>2, <1>0 DEF LockBooks, Overlapped, LockedFirst
    <3>4. ReadsFree' /\ LockIsEffective'
      BY <3>2 DEF ReadsFree, LockIsEffective
    <3>. QED
      BY <3>3, <3>4 DEF LockBooks
  <2>. QED
    BY <1>24, <2>1, <2>2, <2>3 DEF Clear
<1>25. ASSUME NEW c \in Clients, NEW g \in {"stop", "kill"}, AskShutdown(c, g) PROVE LockBooks'
  <2>1. LocksRest
    BY <1>25, <1>0 DEF AskShutdown, To, LocksRest, TypeOK, Workers, Processes, Stoppers
  <2>. QED
    BY <2>1, BooksRest
<1>26. ASSUME NEW c \in Clients, AskStart(c) PROVE LockBooks'
  <2>1. LocksRest
    BY <1>26, <1>0 DEF AskStart, To, LocksRest, TypeOK, Workers, Processes, Stoppers
  <2>. QED
    BY <2>1, BooksRest
<1>27. ASSUME NEW c \in Clients, AskClear(c) PROVE LockBooks'
  <2>1. LocksRest
    BY <1>27, <1>0 DEF AskClear, To, LocksRest, TypeOK, Workers, Processes, Stoppers
  <2>. QED
    BY <2>1, BooksRest
<1>28. ASSUME CycleTimesOut PROVE LockBooks'
  <2>1. LocksRest
    BY <1>28, <1>0 DEF CycleTimesOut, Orphans, To, LocksRest, TypeOK, Workers, Processes, Stoppers
  <2>. QED
    BY <2>1, BooksRest
<1>29. ASSUME CrashAndRestart PROVE LockBooks'
  <2>1. \A p \in Processes : pc'[p] \in {"off", "idle"}
    BY <1>29 DEF CrashAndRestart
  <2>2. saved' = "active" => lock' = "locked"
    BY <1>29 DEF CrashAndRestart
  <2>. QED
    BY <2>1, <2>2, <1>0 DEF LockBooks, Overlapped, ReadsFree, LockedFirst, LockIsEffective
<1>30. ASSUME DayTurns PROVE LockBooks'
  BY <1>30 DEF DayTurns, LockBooks, Overlapped, ReadsFree, LockedFirst, LockIsEffective
<1>31. ASSUME NEW s \in Symbols, BracketFires(s) PROVE LockBooks'
  <2>1. LocksRest
    BY <1>31, <1>0 DEF BracketFires, LocksRest, TypeOK, Workers, Processes, Stoppers
  <2>. QED
    BY <2>1, BooksRest
<1>32. ASSUME NEW s \in Symbols, ManualClose(s) PROVE LockBooks'
  <2>1. LocksRest
    BY <1>32, <1>0 DEF ManualClose, LocksRest, TypeOK, Workers, Processes, Stoppers
  <2>. QED
    BY <2>1, BooksRest
<1>. QED
  BY <1>1, <1>2, <1>3, <1>4, <1>5, <1>6, <1>7, <1>8, <1>9, <1>10, <1>11, <1>12, <1>13, <1>14, <1>15, <1>16, <1>17, <1>18, <1>19, <1>20, <1>21, <1>22, <1>23, <1>24, <1>25, <1>26, <1>27, <1>28, <1>29, <1>30, <1>31, <1>32 DEF Next, Trade, EndRun, Cycle, Guard, Handle, Ask, Environment

\* Every variable keeps its type: a worker never stands at a handler's label or
\* the reverse, and the symbols of a cycle without an outcome are among those it
\* has locked.
THEOREM TypeCorrect == Spec => []TypeOK
<1>1. TypeOK /\ [Next]_vars => TypeOK'
  BY TypeStep
<1>. QED
  BY TypeInit, <1>1, PTL DEF Spec

\* The audit database never shows a run open that is not running, nor a
\* running one closed.
THEOREM OneLiveRow == Spec => []OneOpenRow
<1>1. Init => StartBooks
  BY ConstantAssumption DEF Init, StartBooks, LoneStart, OneOpenRow, Stoppers, Processes, Workers, Starting, Restoring, Clearing, Runs
<1>2. TypeOK /\ StartBooks /\ [Next]_vars => StartBooks'
  BY StartBooksStep
<1>3. StartBooks => OneOpenRow
  BY DEF StartBooks
<1>. QED
  BY <1>1, <1>2, <1>3, TypeCorrect, PTL DEF Spec

\* A persisted lock is in force over restarts, starts and unlocks, for any number
\* of callers, outside the overlap that LockIsEffective names.
THEOREM LockSurvives == Spec => []LockIsEffective
<1>1. Init => LockBooks
  BY ConstantAssumption DEF Init, LockBooks, Overlapped, ReadsFree, LockedFirst, LockIsEffective, Stoppers, Processes, Workers
<1>2. TypeOK /\ LockBooks /\ [Next]_vars => LockBooks'
  BY LockBooksStep
<1>3. LockBooks => LockIsEffective
  BY DEF LockBooks
<1>. QED
  BY <1>1, <1>2, <1>3, TypeCorrect, PTL DEF Spec

----------------------------------------------------------------------------
\* Orders that never need the emergency lock: the restriction of
\* MCTradingEngine.
NoEmergencyResults == "UNSAFE" \notin Results

Closing == {"drop", "finish", "persist", "flatten"}

\* The symbols the two workers trade are locked: those of a cycle for the cycle,
\* the guard's own against it.
LockedSymbols ==
  /\ \A w \in Workers : pc[w] \in Trading => job[w].symbol \in Symbols
  /\ pc["cadence"] \in Trading => job["cadence"].symbol \in batch
  /\ pc["guard"] \in Trading => job["guard"].symbol \notin batch

\* A shutdown that is past its first step, and a stopped engine, have no tasks.
TasksGone ==
  /\ pc["cadence"] = "off" <=> pc["guard"] = "off"
  /\ \A w \in Workers : pc[w] \notin Shutdown
  /\ \A p \in Processes : pc[p] \in Closing => \A w \in Workers : pc[w] = "off"
  /\ engine = "stopped" => \A w \in Workers : pc[w] = "off"

\* The bracket of an order finds its entry, so that no order ends UNSAFE.
EntryStands ==
  \A w \in Workers :
    /\ pc[w] = "bracketing" => held[job[w].symbol] = "naked"
    /\ pc[w] = "auditing" => job[w].kind # "UNSAFE"

\* What waits belongs to the run, and nothing waits once it is to be finished.
IntentsOfRun ==
  /\ \A s \in Symbols : pending[s] \in {0, run}
  /\ \A w \in Workers : pc[w] \in Trading => job[w].run = run
  /\ engine = "stopped" \/ (\E p \in Processes : pc[p] = "finish")
       => \A s \in Symbols : pending[s] = 0

Orderly == LockedSymbols /\ TasksGone /\ EntryStands /\ IntentsOfRun

\* A cycle and the guard never take the same symbol, and nobody trades without one.
LEMMA LockedSymbolsStep ==
  ASSUME TypeOK, TasksGone, LockedSymbols, [Next]_vars
  PROVE  LockedSymbols'
<1>. USE ConstantAssumption DEF TypeOK, Workers, Stoppers, Processes, Trading, Shutdown, Closing, engineVars, databaseVars, taskVars, historyVars, NoEmergencyResults, LockedSymbols, TasksGone, NoJob, Jobs
<1>1. CASE UNCHANGED vars
  BY <1>1 DEF vars
<1>2. ASSUME NEW w \in Workers, Judge(w) PROVE LockedSymbols'
  BY <1>2 DEF Judge, NextJob, To
<1>3. ASSUME NEW w \in Workers, Record(w) PROVE LockedSymbols'
  BY <1>3 DEF Record, NextJob, Resting, To
<1>4. ASSUME NEW w \in Workers, Enter(w) PROVE LockedSymbols'
  BY <1>4 DEF Enter, To
<1>5. ASSUME NEW w \in Workers, Bracket(w) PROVE LockedSymbols'
  BY <1>5 DEF Bracket, Leaves, To
<1>6. ASSUME NEW w \in Workers, Audit(w) PROVE LockedSymbols'
  BY <1>6 DEF Audit, NextJob, Resting, To
<1>7. ASSUME NEW w \in Workers, AuditUnsafe(w) PROVE LockedSymbols'
  BY <1>7 DEF AuditUnsafe, Lock, LockIf, To
<1>8. ASSUME NEW p \in Processes, CancelTasks(p) PROVE LockedSymbols'
  BY <1>8 DEF CancelTasks, LockIf, Orphans
<1>9. ASSUME NEW p \in Processes, Drop(p) PROVE LockedSymbols'
  BY <1>9 DEF Drop, To
<1>10. ASSUME NEW p \in Processes, Finish(p) PROVE LockedSymbols'
  BY <1>10 DEF Finish, Lock, LockIf, To
<1>11. ASSUME NEW p \in Processes, Persist(p) PROVE LockedSymbols'
  BY <1>11 DEF Persist, To
<1>12. ASSUME NEW p \in Processes, Flatten(p) PROVE LockedSymbols'
  BY <1>12 DEF Flatten, NextJob, Resting, To
<1>13. ASSUME BeginCycle PROVE LockedSymbols'
  BY <1>13 DEF BeginCycle, To
<1>14. ASSUME Decide PROVE LockedSymbols'
  BY <1>14 DEF Decide, To
<1>15. ASSUME NEW s \in Symbols, Assess(s) PROVE LockedSymbols'
  BY <1>15 DEF Assess, To
<1>16. ASSUME EndCycle PROVE LockedSymbols'
  BY <1>16 DEF EndCycle, RequestStop, To
<1>17. ASSUME NEW s \in Symbols, DropIntent(s) PROVE LockedSymbols'
  BY <1>17 DEF DropIntent
<1>18. ASSUME NEW s \in Symbols, Recheck(s) PROVE LockedSymbols'
  BY <1>18 DEF Recheck, To
<1>19. ASSUME GuardStops PROVE LockedSymbols'
  BY <1>19 DEF GuardStops, RequestStop, To
<1>20. ASSUME GuardEscalates PROVE LockedSymbols'
  BY <1>20 DEF GuardEscalates, RequestStop, To
<1>21. ASSUME NEW c \in Clients, Restore(c) PROVE LockedSymbols'
  BY <1>21 DEF Restore, ReadLock, DropExpired, Unlock, Relock, Overlap, To
<1>22. ASSUME NEW c \in Clients, Reconcile(c) PROVE LockedSymbols'
  BY <1>22 DEF Reconcile, To
<1>23. ASSUME NEW c \in Clients, BeginRun(c) PROVE LockedSymbols'
  BY <1>23 DEF BeginRun, To
<1>24. ASSUME NEW c \in Clients, Clear(c) PROVE LockedSymbols'
  BY <1>24 DEF Clear, Inspect, Lift, DeleteLock, Overlap, To
<1>25. ASSUME NEW c \in Clients, NEW g \in {"stop", "kill"}, AskShutdown(c, g) PROVE LockedSymbols'
  BY <1>25 DEF AskShutdown, To
<1>26. ASSUME NEW c \in Clients, AskStart(c) PROVE LockedSymbols'
  BY <1>26 DEF AskStart, To
<1>27. ASSUME NEW c \in Clients, AskClear(c) PROVE LockedSymbols'
  BY <1>27 DEF AskClear, To
<1>28. ASSUME CycleTimesOut PROVE LockedSymbols'
  BY <1>28 DEF CycleTimesOut, Orphans, To
<1>29. ASSUME CrashAndRestart PROVE LockedSymbols'
  BY <1>29 DEF CrashAndRestart, Orphans
<1>30. ASSUME DayTurns PROVE LockedSymbols'
  BY <1>30 DEF DayTurns
<1>31. ASSUME NEW s \in Symbols, BracketFires(s) PROVE LockedSymbols'
  BY <1>31 DEF BracketFires
<1>32. ASSUME NEW s \in Symbols, ManualClose(s) PROVE LockedSymbols'
  BY <1>32 DEF ManualClose
<1>. QED
  BY <1>1, <1>2, <1>3, <1>4, <1>5, <1>6, <1>7, <1>8, <1>9, <1>10, <1>11, <1>12, <1>13, <1>14, <1>15, <1>16, <1>17, <1>18, <1>19, <1>20, <1>21, <1>22, <1>23, <1>24, <1>25, <1>26, <1>27, <1>28, <1>29, <1>30, <1>31, <1>32 DEF Next, Trade, EndRun, Cycle, Guard, Handle, Ask, Environment

\* Tasks come back only with a new run, which waits for every shutdown.
LEMMA TasksGoneStep ==
  ASSUME TypeOK, StartBooks, EntryStands, NoEmergencyResults, TasksGone, [Next]_vars
  PROVE  TasksGone'
<1>. USE ConstantAssumption DEF TypeOK, Workers, Stoppers, Processes, Trading, Shutdown, Closing, engineVars, databaseVars, taskVars, historyVars, NoEmergencyResults, TasksGone, EntryStands, StartBooks, LoneStart, Starting, Restoring, Clearing, Nobody
<1>1. CASE UNCHANGED vars
  BY <1>1 DEF vars
<1>2. ASSUME NEW w \in Workers, Judge(w) PROVE TasksGone'
  BY <1>2 DEF Judge, NextJob, To
<1>3. ASSUME NEW w \in Workers, Record(w) PROVE TasksGone'
  BY <1>3 DEF Record, NextJob, Resting, To
<1>4. ASSUME NEW w \in Workers, Enter(w) PROVE TasksGone'
  BY <1>4 DEF Enter, To
<1>5. ASSUME NEW w \in Workers, Bracket(w) PROVE TasksGone'
  BY <1>5 DEF Bracket, Leaves, To
<1>6. ASSUME NEW w \in Workers, Audit(w) PROVE TasksGone'
  BY <1>6 DEF Audit, NextJob, Resting, To
<1>7. ASSUME NEW w \in Workers, AuditUnsafe(w) PROVE TasksGone'
  BY <1>7 DEF AuditUnsafe, Lock, LockIf, To
<1>8. ASSUME NEW p \in Processes, CancelTasks(p) PROVE TasksGone'
  BY <1>8 DEF CancelTasks, LockIf, Orphans
<1>9. ASSUME NEW p \in Processes, Drop(p) PROVE TasksGone'
  BY <1>9 DEF Drop, To
<1>10. ASSUME NEW p \in Processes, Finish(p) PROVE TasksGone'
  BY <1>10 DEF Finish, Lock, LockIf, To
<1>11. ASSUME NEW p \in Processes, Persist(p) PROVE TasksGone'
  BY <1>11 DEF Persist, To
<1>12. ASSUME NEW p \in Processes, Flatten(p) PROVE TasksGone'
  BY <1>12 DEF Flatten, NextJob, Resting, To
<1>13. ASSUME BeginCycle PROVE TasksGone'
  BY <1>13 DEF BeginCycle, To
<1>14. ASSUME Decide PROVE TasksGone'
  BY <1>14 DEF Decide, To
<1>15. ASSUME NEW s \in Symbols, Assess(s) PROVE TasksGone'
  BY <1>15 DEF Assess, To
<1>16. ASSUME EndCycle PROVE TasksGone'
  BY <1>16 DEF EndCycle, RequestStop, To
<1>17. ASSUME NEW s \in Symbols, DropIntent(s) PROVE TasksGone'
  BY <1>17 DEF DropIntent
<1>18. ASSUME NEW s \in Symbols, Recheck(s) PROVE TasksGone'
  BY <1>18 DEF Recheck, To
<1>19. ASSUME GuardStops PROVE TasksGone'
  BY <1>19 DEF GuardStops, RequestStop, To
<1>20. ASSUME GuardEscalates PROVE TasksGone'
  BY <1>20 DEF GuardEscalates, RequestStop, To
<1>21. ASSUME NEW c \in Clients, Restore(c) PROVE TasksGone'
  BY <1>21 DEF Restore, ReadLock, DropExpired, Unlock, Relock, Overlap, To
<1>22. ASSUME NEW c \in Clients, Reconcile(c) PROVE TasksGone'
  BY <1>22 DEF Reconcile, To
<1>23. ASSUME NEW c \in Clients, BeginRun(c) PROVE TasksGone'
  BY <1>23 DEF BeginRun, To
<1>24. ASSUME NEW c \in Clients, Clear(c) PROVE TasksGone'
  BY <1>24 DEF Clear, Inspect, Lift, DeleteLock, Overlap, To
<1>25. ASSUME NEW c \in Clients, NEW g \in {"stop", "kill"}, AskShutdown(c, g) PROVE TasksGone'
  BY <1>25 DEF AskShutdown, To
<1>26. ASSUME NEW c \in Clients, AskStart(c) PROVE TasksGone'
  BY <1>26 DEF AskStart, To
<1>27. ASSUME NEW c \in Clients, AskClear(c) PROVE TasksGone'
  BY <1>27 DEF AskClear, To
<1>28. ASSUME CycleTimesOut PROVE TasksGone'
  BY <1>28 DEF CycleTimesOut, Orphans, To
<1>29. ASSUME CrashAndRestart PROVE TasksGone'
  BY <1>29 DEF CrashAndRestart, Orphans
<1>30. ASSUME DayTurns PROVE TasksGone'
  BY <1>30 DEF DayTurns
<1>31. ASSUME NEW s \in Symbols, BracketFires(s) PROVE TasksGone'
  BY <1>31 DEF BracketFires
<1>32. ASSUME NEW s \in Symbols, ManualClose(s) PROVE TasksGone'
  BY <1>32 DEF ManualClose
<1>. QED
  BY <1>1, <1>2, <1>3, <1>4, <1>5, <1>6, <1>7, <1>8, <1>9, <1>10, <1>11, <1>12, <1>13, <1>14, <1>15, <1>16, <1>17, <1>18, <1>19, <1>20, <1>21, <1>22, <1>23, <1>24, <1>25, <1>26, <1>27, <1>28, <1>29, <1>30, <1>31, <1>32 DEF Next, Trade, EndRun, Cycle, Guard, Handle, Ask, Environment

\* Between an entry and its bracket nobody else closes the symbol: the engine is
\* running and the symbol is locked.
LEMMA EntryStandsStep ==
  ASSUME TypeOK, StartBooks, TasksGone, LockedSymbols, NoEmergencyResults, EntryStands, [Next]_vars
  PROVE  EntryStands'
<1>. USE ConstantAssumption DEF TypeOK, Workers, Stoppers, Processes, Trading, Shutdown, Closing, engineVars, databaseVars, taskVars, historyVars, NoEmergencyResults, EntryStands, TasksGone, LockedSymbols, StartBooks, LoneStart, Starting, Restoring, Clearing, Jobs, NoJob
<1>1. CASE UNCHANGED vars
  BY <1>1 DEF vars
<1>2. ASSUME NEW w \in Workers, Judge(w) PROVE EntryStands'
  BY <1>2 DEF Judge, NextJob, To
<1>3. ASSUME NEW w \in Workers, Record(w) PROVE EntryStands'
  BY <1>3 DEF Record, NextJob, Resting, To
<1>4. ASSUME NEW w \in Workers, Enter(w) PROVE EntryStands'
  BY <1>4 DEF Enter, To
<1>5. ASSUME NEW w \in Workers, Bracket(w) PROVE EntryStands'
  BY <1>5 DEF Bracket, Leaves, To
<1>6. ASSUME NEW w \in Workers, Audit(w) PROVE EntryStands'
  BY <1>6 DEF Audit, NextJob, Resting, To
<1>7. ASSUME NEW w \in Workers, AuditUnsafe(w) PROVE EntryStands'
  BY <1>7 DEF AuditUnsafe, Lock, LockIf, To
<1>8. ASSUME NEW p \in Processes, CancelTasks(p) PROVE EntryStands'
  BY <1>8 DEF CancelTasks, LockIf, Orphans
<1>9. ASSUME NEW p \in Processes, Drop(p) PROVE EntryStands'
  BY <1>9 DEF Drop, To
<1>10. ASSUME NEW p \in Processes, Finish(p) PROVE EntryStands'
  BY <1>10 DEF Finish, Lock, LockIf, To
<1>11. ASSUME NEW p \in Processes, Persist(p) PROVE EntryStands'
  BY <1>11 DEF Persist, To
<1>12. ASSUME NEW p \in Processes, Flatten(p) PROVE EntryStands'
  BY <1>12 DEF Flatten, NextJob, Resting, To
<1>13. ASSUME BeginCycle PROVE EntryStands'
  BY <1>13 DEF BeginCycle, To
<1>14. ASSUME Decide PROVE EntryStands'
  BY <1>14 DEF Decide, To
<1>15. ASSUME NEW s \in Symbols, Assess(s) PROVE EntryStands'
  BY <1>15 DEF Assess, To
<1>16. ASSUME EndCycle PROVE EntryStands'
  BY <1>16 DEF EndCycle, RequestStop, To
<1>17. ASSUME NEW s \in Symbols, DropIntent(s) PROVE EntryStands'
  BY <1>17 DEF DropIntent
<1>18. ASSUME NEW s \in Symbols, Recheck(s) PROVE EntryStands'
  BY <1>18 DEF Recheck, To
<1>19. ASSUME GuardStops PROVE EntryStands'
  BY <1>19 DEF GuardStops, RequestStop, To
<1>20. ASSUME GuardEscalates PROVE EntryStands'
  BY <1>20 DEF GuardEscalates, RequestStop, To
<1>21. ASSUME NEW c \in Clients, Restore(c) PROVE EntryStands'
  BY <1>21 DEF Restore, ReadLock, DropExpired, Unlock, Relock, Overlap, To
<1>22. ASSUME NEW c \in Clients, Reconcile(c) PROVE EntryStands'
  BY <1>22 DEF Reconcile, To
<1>23. ASSUME NEW c \in Clients, BeginRun(c) PROVE EntryStands'
  BY <1>23 DEF BeginRun, To
<1>24. ASSUME NEW c \in Clients, Clear(c) PROVE EntryStands'
  BY <1>24 DEF Clear, Inspect, Lift, DeleteLock, Overlap, To
<1>25. ASSUME NEW c \in Clients, NEW g \in {"stop", "kill"}, AskShutdown(c, g) PROVE EntryStands'
  BY <1>25 DEF AskShutdown, To
<1>26. ASSUME NEW c \in Clients, AskStart(c) PROVE EntryStands'
  BY <1>26 DEF AskStart, To
<1>27. ASSUME NEW c \in Clients, AskClear(c) PROVE EntryStands'
  BY <1>27 DEF AskClear, To
<1>28. ASSUME CycleTimesOut PROVE EntryStands'
  BY <1>28 DEF CycleTimesOut, Orphans, To
<1>29. ASSUME CrashAndRestart PROVE EntryStands'
  BY <1>29 DEF CrashAndRestart, Orphans
<1>30. ASSUME DayTurns PROVE EntryStands'
  BY <1>30 DEF DayTurns
<1>31. ASSUME NEW s \in Symbols, BracketFires(s) PROVE EntryStands'
  BY <1>31 DEF BracketFires
<1>32. ASSUME NEW s \in Symbols, ManualClose(s) PROVE EntryStands'
  BY <1>32 DEF ManualClose
<1>. QED
  BY <1>1, <1>2, <1>3, <1>4, <1>5, <1>6, <1>7, <1>8, <1>9, <1>10, <1>11, <1>12, <1>13, <1>14, <1>15, <1>16, <1>17, <1>18, <1>19, <1>20, <1>21, <1>22, <1>23, <1>24, <1>25, <1>26, <1>27, <1>28, <1>29, <1>30, <1>31, <1>32 DEF Next, Trade, EndRun, Cycle, Guard, Handle, Ask, Environment

\* A run begins without intents; while it is closed nobody adds one.
LEMMA IntentsOfRunStep ==
  ASSUME TypeOK, StartBooks, TasksGone, LockedSymbols, NoEmergencyResults, IntentsOfRun, [Next]_vars
  PROVE  IntentsOfRun'
<1>. USE ConstantAssumption DEF TypeOK, Workers, Stoppers, Processes, Trading, Shutdown, Closing, engineVars, databaseVars, taskVars, historyVars, NoEmergencyResults, IntentsOfRun, TasksGone, LockedSymbols, StartBooks, LoneStart, Starting, Restoring, Clearing, Nobody, Jobs, NoJob
<1>1. CASE UNCHANGED vars
  BY <1>1 DEF vars
<1>2. ASSUME NEW w \in Workers, Judge(w) PROVE IntentsOfRun'
  BY <1>2 DEF Judge, NextJob, To
<1>3. ASSUME NEW w \in Workers, Record(w) PROVE IntentsOfRun'
  BY <1>3 DEF Record, NextJob, Resting, To
<1>4. ASSUME NEW w \in Workers, Enter(w) PROVE IntentsOfRun'
  BY <1>4 DEF Enter, To
<1>5. ASSUME NEW w \in Workers, Bracket(w) PROVE IntentsOfRun'
  BY <1>5 DEF Bracket, Leaves, To
<1>6. ASSUME NEW w \in Workers, Audit(w) PROVE IntentsOfRun'
  BY <1>6 DEF Audit, NextJob, Resting, To
<1>7. ASSUME NEW w \in Workers, AuditUnsafe(w) PROVE IntentsOfRun'
  BY <1>7 DEF AuditUnsafe, Lock, LockIf, To
<1>8. ASSUME NEW p \in Processes, CancelTasks(p) PROVE IntentsOfRun'
  BY <1>8 DEF CancelTasks, LockIf, Orphans
<1>9. ASSUME NEW p \in Processes, Drop(p) PROVE IntentsOfRun'
  BY <1>9 DEF Drop, To
<1>10. ASSUME NEW p \in Processes, Finish(p) PROVE IntentsOfRun'
  BY <1>10 DEF Finish, Lock, LockIf, To
<1>11. ASSUME NEW p \in Processes, Persist(p) PROVE IntentsOfRun'
  BY <1>11 DEF Persist, To
<1>12. ASSUME NEW p \in Processes, Flatten(p) PROVE IntentsOfRun'
  BY <1>12 DEF Flatten, NextJob, Resting, To
<1>13. ASSUME BeginCycle PROVE IntentsOfRun'
  BY <1>13 DEF BeginCycle, To
<1>14. ASSUME Decide PROVE IntentsOfRun'
  BY <1>14 DEF Decide, To
<1>15. ASSUME NEW s \in Symbols, Assess(s) PROVE IntentsOfRun'
  BY <1>15 DEF Assess, To
<1>16. ASSUME EndCycle PROVE IntentsOfRun'
  BY <1>16 DEF EndCycle, RequestStop, To
<1>17. ASSUME NEW s \in Symbols, DropIntent(s) PROVE IntentsOfRun'
  BY <1>17 DEF DropIntent
<1>18. ASSUME NEW s \in Symbols, Recheck(s) PROVE IntentsOfRun'
  BY <1>18 DEF Recheck, To
<1>19. ASSUME GuardStops PROVE IntentsOfRun'
  BY <1>19 DEF GuardStops, RequestStop, To
<1>20. ASSUME GuardEscalates PROVE IntentsOfRun'
  BY <1>20 DEF GuardEscalates, RequestStop, To
<1>21. ASSUME NEW c \in Clients, Restore(c) PROVE IntentsOfRun'
  BY <1>21 DEF Restore, ReadLock, DropExpired, Unlock, Relock, Overlap, To
<1>22. ASSUME NEW c \in Clients, Reconcile(c) PROVE IntentsOfRun'
  BY <1>22 DEF Reconcile, To
<1>23. ASSUME NEW c \in Clients, BeginRun(c) PROVE IntentsOfRun'
  BY <1>23 DEF BeginRun, To
<1>24. ASSUME NEW c \in Clients, Clear(c) PROVE IntentsOfRun'
  BY <1>24 DEF Clear, Inspect, Lift, DeleteLock, Overlap, To
<1>25. ASSUME NEW c \in Clients, NEW g \in {"stop", "kill"}, AskShutdown(c, g) PROVE IntentsOfRun'
  BY <1>25 DEF AskShutdown, To
<1>26. ASSUME NEW c \in Clients, AskStart(c) PROVE IntentsOfRun'
  BY <1>26 DEF AskStart, To
<1>27. ASSUME NEW c \in Clients, AskClear(c) PROVE IntentsOfRun'
  BY <1>27 DEF AskClear, To
<1>28. ASSUME CycleTimesOut PROVE IntentsOfRun'
  BY <1>28 DEF CycleTimesOut, Orphans, To
<1>29. ASSUME CrashAndRestart PROVE IntentsOfRun'
  BY <1>29 DEF CrashAndRestart, Orphans
<1>30. ASSUME DayTurns PROVE IntentsOfRun'
  BY <1>30 DEF DayTurns
<1>31. ASSUME NEW s \in Symbols, BracketFires(s) PROVE IntentsOfRun'
  BY <1>31 DEF BracketFires
<1>32. ASSUME NEW s \in Symbols, ManualClose(s) PROVE IntentsOfRun'
  BY <1>32 DEF ManualClose
<1>. QED
  BY <1>1, <1>2, <1>3, <1>4, <1>5, <1>6, <1>7, <1>8, <1>9, <1>10, <1>11, <1>12, <1>13, <1>14, <1>15, <1>16, <1>17, <1>18, <1>19, <1>20, <1>21, <1>22, <1>23, <1>24, <1>25, <1>26, <1>27, <1>28, <1>29, <1>30, <1>31, <1>32 DEF Next, Trade, EndRun, Cycle, Guard, Handle, Ask, Environment

\* The fresh process is orderly.
LEMMA OrderlyInit == Init => Orderly
BY ConstantAssumption DEF Init, Orderly, LockedSymbols, TasksGone, EntryStands, IntentsOfRun, Closing, Trading, Shutdown, Processes, Stoppers, Workers

\* Every step keeps Orderly.
LEMMA OrderlyStep ==
  ASSUME NoEmergencyResults, TypeOK, StartBooks, Orderly, [Next]_vars
  PROVE  Orderly'
BY LockedSymbolsStep, TasksGoneStep, EntryStandsStep, IntentsOfRunStep DEF Orderly

\* In every run whose orders need no emergency lock, Orderly is an invariant.
LEMMA OrderlyRuns ==
  ASSUME NoEmergencyResults
  PROVE  Spec => []Orderly
<1>1. Init => StartBooks
  BY ConstantAssumption DEF Init, StartBooks, LoneStart, OneOpenRow, Stoppers, Processes, Workers, Starting, Restoring, Clearing, Runs
<1>2. TypeOK /\ StartBooks /\ [Next]_vars => StartBooks'
  BY StartBooksStep
<1>3. TypeOK /\ StartBooks /\ Orderly /\ [Next]_vars => Orderly'
  BY OrderlyStep
<1>. QED
  BY <1>1, <1>2, <1>3, OrderlyInit, TypeCorrect, PTL DEF Spec

\* A stop that has been answered, however it came, leaves no task at an exchange
\* call: orders that cannot end UNSAFE, any tasks, cycle timeouts and crashes.
THEOREM StopsAreQuiet ==
  ASSUME NoEmergencyResults
  PROVE  Spec => []StoppedIsQuiet
<1>1. Orderly => StoppedIsQuiet
  BY DEF Orderly, TasksGone, StoppedIsQuiet
<1>. QED
  BY <1>1, OrderlyRuns, PTL

\* No waiting limit intent outlives its run, whichever way the run ends.
THEOREM IntentsEndWithRun ==
  ASSUME NoEmergencyResults
  PROVE  Spec => []NoStrayIntents
<1>1. Orderly => NoStrayIntents
  BY DEF Orderly, IntentsOfRun, NoStrayIntents
<1>. QED
  BY <1>1, OrderlyRuns, PTL

----------------------------------------------------------------------------
\* Only the cadence task trades, and nothing cuts it off but a shutdown: the
\* restriction of MCEmergency.
CadenceOnly == "limit" \notin Kinds /\ ~CycleTimeouts

\* Without intents the guard has nothing to trade.
GuardRests ==
  /\ engine = "running" => run # 0
  /\ \A s \in Symbols : pending[s] = 0
  /\ pc["guard"] \notin Trading \cup Shutdown
  /\ pc["cadence"] \in {"refreshing", "recording"} => job["cadence"].kind # "limit"
  /\ pc["cadence"] \in Trading => job["cadence"].symbol \in batch

\* No order is on its way to the exchange once the engine has stopped.
StopsInOrder ==
  /\ pc["reaper"] \in {"idle"} \cup Shutdown
  /\ pc["cadence"] # "cancelTasks"
  /\ pc["cadence"] = "off" => pc["guard"] = "off"
  /\ \A p \in Stoppers : pc[p] \in Closing => pc["cadence"] = "off"
  /\ \A p \in Processes : pc[p] \in {"persist", "flatten"} => engine = "stopped"
  /\ engine = "stopped" => pc["cadence"] \notin Trading

\* A position without a stop is in the hands of the cadence task, of a
\* shutdown, or of a stopped engine.
NakedInHand ==
  engine = "running" /\ (\A p \in Processes : pc[p] \notin Shutdown) =>
    \A s \in Symbols : held[s] = "naked" =>
      job["cadence"].symbol = s /\ pc["cadence"] \in {"bracketing", "auditing"}

\* An order starts on a flat symbol and does not end well without a stop.
OrderStartsFlat ==
  /\ pc["cadence"] \in {"recording", "entering"} => held[job["cadence"].symbol] = "flat"
  /\ pc["cadence"] = "auditing" /\ job["cadence"].kind # "UNSAFE"
       => held[job["cadence"].symbol] # "naked"

\* A start that has looked at the account finds it so when the run begins.
StartsCovered == \A c \in Clients, s \in Symbols : pc[c] = "begin" => held[s] # "naked"

\* The account of a successful flatten belongs to a stopped engine.
FlatWhileStopped ==
  flattened = "yes" => engine = "stopped" /\ \A s \in Symbols : held[s] = "flat"

Guarded == GuardRests /\ StopsInOrder /\ NakedInHand /\ OrderStartsFlat /\ StartsCovered /\ FlatWhileStopped

\* Without limit orders nothing waits, so the guard never trades.
LEMMA GuardRestsStep ==
  ASSUME TypeOK, StartBooks, CadenceOnly, GuardRests, [Next]_vars
  PROVE  GuardRests'
<1>. USE ConstantAssumption DEF TypeOK, Workers, Stoppers, Processes, Trading, Shutdown, Closing, engineVars, databaseVars, taskVars, historyVars, CadenceOnly, StartBooks, LoneStart, Starting, Restoring, Clearing, Nobody, GuardRests, NoJob, Jobs, Blocked
<1>1. CASE UNCHANGED vars
  BY <1>1 DEF vars
<1>2. ASSUME NEW w \in Workers, Judge(w) PROVE GuardRests'
  BY <1>2 DEF Judge, NextJob, To
<1>3. ASSUME NEW w \in Workers, Record(w) PROVE GuardRests'
  BY <1>3 DEF Record, NextJob, Resting, To
<1>4. ASSUME NEW w \in Workers, Enter(w) PROVE GuardRests'
  BY <1>4 DEF Enter, To
<1>5. ASSUME NEW w \in Workers, Bracket(w) PROVE GuardRests'
  BY <1>5 DEF Bracket, Leaves, To
<1>6. ASSUME NEW w \in Workers, Audit(w) PROVE GuardRests'
  BY <1>6 DEF Audit, NextJob, Resting, To
<1>7. ASSUME NEW w \in Workers, AuditUnsafe(w) PROVE GuardRests'
  BY <1>7 DEF AuditUnsafe, Lock, LockIf, To
<1>8. ASSUME NEW p \in Processes, CancelTasks(p) PROVE GuardRests'
  BY <1>8 DEF CancelTasks, LockIf, Orphans
<1>9. ASSUME NEW p \in Processes, Drop(p) PROVE GuardRests'
  BY <1>9 DEF Drop, To
<1>10. ASSUME NEW p \in Processes, Finish(p) PROVE GuardRests'
  BY <1>10 DEF Finish, Lock, LockIf, To
<1>11. ASSUME NEW p \in Processes, Persist(p) PROVE GuardRests'
  BY <1>11 DEF Persist, To
<1>12. ASSUME NEW p \in Processes, Flatten(p) PROVE GuardRests'
  BY <1>12 DEF Flatten, NextJob, Resting, To
<1>13. ASSUME BeginCycle PROVE GuardRests'
  BY <1>13 DEF BeginCycle, To
<1>14. ASSUME Decide PROVE GuardRests'
  BY <1>14 DEF Decide, To
<1>15. ASSUME NEW s \in Symbols, Assess(s) PROVE GuardRests'
  BY <1>15 DEF Assess, To
<1>16. ASSUME EndCycle PROVE GuardRests'
  BY <1>16 DEF EndCycle, RequestStop, To
<1>17. ASSUME NEW s \in Symbols, DropIntent(s) PROVE GuardRests'
  BY <1>17 DEF DropIntent
<1>18. ASSUME NEW s \in Symbols, Recheck(s) PROVE GuardRests'
  BY <1>18 DEF Recheck, To
<1>19. ASSUME GuardStops PROVE GuardRests'
  BY <1>19 DEF GuardStops, RequestStop, To
<1>20. ASSUME GuardEscalates PROVE GuardRests'
  BY <1>20 DEF GuardEscalates, RequestStop, To
<1>21. ASSUME NEW c \in Clients, Restore(c) PROVE GuardRests'
  BY <1>21 DEF Restore, ReadLock, DropExpired, Unlock, Relock, Overlap, To
<1>22. ASSUME NEW c \in Clients, Reconcile(c) PROVE GuardRests'
  BY <1>22 DEF Reconcile, To
<1>23. ASSUME NEW c \in Clients, BeginRun(c) PROVE GuardRests'
  BY <1>23 DEF BeginRun, To, Runs
<1>24. ASSUME NEW c \in Clients, Clear(c) PROVE GuardRests'
  BY <1>24 DEF Clear, Inspect, Lift, DeleteLock, Overlap, To
<1>25. ASSUME NEW c \in Clients, NEW g \in {"stop", "kill"}, AskShutdown(c, g) PROVE GuardRests'
  BY <1>25 DEF AskShutdown, To
<1>26. ASSUME NEW c \in Clients, AskStart(c) PROVE GuardRests'
  BY <1>26 DEF AskStart, To
<1>27. ASSUME NEW c \in Clients, AskClear(c) PROVE GuardRests'
  BY <1>27 DEF AskClear, To
<1>28. ASSUME CycleTimesOut PROVE GuardRests'
  BY <1>28 DEF CycleTimesOut, Orphans, To
<1>29. ASSUME CrashAndRestart PROVE GuardRests'
  BY <1>29 DEF CrashAndRestart, Orphans
<1>30. ASSUME DayTurns PROVE GuardRests'
  BY <1>30 DEF DayTurns
<1>31. ASSUME NEW s \in Symbols, BracketFires(s) PROVE GuardRests'
  BY <1>31 DEF BracketFires
<1>32. ASSUME NEW s \in Symbols, ManualClose(s) PROVE GuardRests'
  BY <1>32 DEF ManualClose
<1>. QED
  BY <1>1, <1>2, <1>3, <1>4, <1>5, <1>6, <1>7, <1>8, <1>9, <1>10, <1>11, <1>12, <1>13, <1>14, <1>15, <1>16, <1>17, <1>18, <1>19, <1>20, <1>21, <1>22, <1>23, <1>24, <1>25, <1>26, <1>27, <1>28, <1>29, <1>30, <1>31, <1>32 DEF Next, Trade, EndRun, Cycle, Guard, Handle, Ask, Environment

\* A shutdown reaches its later steps only after the cadence task is gone, and
\* the one that task runs itself has stopped the engine.
LEMMA StopsInOrderStep ==
  ASSUME TypeOK, StartBooks, GuardRests, CadenceOnly, StopsInOrder, [Next]_vars
  PROVE  StopsInOrder'
<1>. USE ConstantAssumption DEF TypeOK, Workers, Stoppers, Processes, Trading, Shutdown, Closing, engineVars, databaseVars, taskVars, historyVars, CadenceOnly, StartBooks, LoneStart, Starting, Restoring, Clearing, Nobody, StopsInOrder, GuardRests, Blocked
<1>1. CASE UNCHANGED vars
  BY <1>1 DEF vars
<1>2. ASSUME NEW w \in Workers, Judge(w) PROVE StopsInOrder'
  BY <1>2 DEF Judge, NextJob, To
<1>3. ASSUME NEW w \in Workers, Record(w) PROVE StopsInOrder'
  BY <1>3 DEF Record, NextJob, Resting, To
<1>4. ASSUME NEW w \in Workers, Enter(w) PROVE StopsInOrder'
  BY <1>4 DEF Enter, To
<1>5. ASSUME NEW w \in Workers, Bracket(w) PROVE StopsInOrder'
  BY <1>5 DEF Bracket, Leaves, To
<1>6. ASSUME NEW w \in Workers, Audit(w) PROVE StopsInOrder'
  BY <1>6 DEF Audit, NextJob, Resting, To
<1>7. ASSUME NEW w \in Workers, AuditUnsafe(w) PROVE StopsInOrder'
  BY <1>7 DEF AuditUnsafe, Lock, LockIf, To
<1>8. ASSUME NEW p \in Processes, CancelTasks(p) PROVE StopsInOrder'
  BY <1>8 DEF CancelTasks, LockIf, Orphans
<1>9. ASSUME NEW p \in Processes, Drop(p) PROVE StopsInOrder'
  BY <1>9 DEF Drop, To
<1>10. ASSUME NEW p \in Processes, Finish(p) PROVE StopsInOrder'
  BY <1>10 DEF Finish, Lock, LockIf, To
<1>11. ASSUME NEW p \in Processes, Persist(p) PROVE StopsInOrder'
  BY <1>11 DEF Persist, To
<1>12. ASSUME NEW p \in Processes, Flatten(p) PROVE StopsInOrder'
  BY <1>12 DEF Flatten, NextJob, Resting, To
<1>13. ASSUME BeginCycle PROVE StopsInOrder'
  BY <1>13 DEF BeginCycle, To
<1>14. ASSUME Decide PROVE StopsInOrder'
  BY <1>14 DEF Decide, To
<1>15. ASSUME NEW s \in Symbols, Assess(s) PROVE StopsInOrder'
  BY <1>15 DEF Assess, To
<1>16. ASSUME EndCycle PROVE StopsInOrder'
  BY <1>16 DEF EndCycle, RequestStop, To
<1>17. ASSUME NEW s \in Symbols, DropIntent(s) PROVE StopsInOrder'
  BY <1>17 DEF DropIntent
<1>18. ASSUME NEW s \in Symbols, Recheck(s) PROVE StopsInOrder'
  BY <1>18 DEF Recheck, To
<1>19. ASSUME GuardStops PROVE StopsInOrder'
  BY <1>19 DEF GuardStops, RequestStop, To
<1>20. ASSUME GuardEscalates PROVE StopsInOrder'
  BY <1>20 DEF GuardEscalates, RequestStop, To
<1>21. ASSUME NEW c \in Clients, Restore(c) PROVE StopsInOrder'
  BY <1>21 DEF Restore, ReadLock, DropExpired, Unlock, Relock, Overlap, To
<1>22. ASSUME NEW c \in Clients, Reconcile(c) PROVE StopsInOrder'
  BY <1>22 DEF Reconcile, To
<1>23. ASSUME NEW c \in Clients, BeginRun(c) PROVE StopsInOrder'
  BY <1>23 DEF BeginRun, To
<1>24. ASSUME NEW c \in Clients, Clear(c) PROVE StopsInOrder'
  BY <1>24 DEF Clear, Inspect, Lift, DeleteLock, Overlap, To
<1>25. ASSUME NEW c \in Clients, NEW g \in {"stop", "kill"}, AskShutdown(c, g) PROVE StopsInOrder'
  BY <1>25 DEF AskShutdown, To
<1>26. ASSUME NEW c \in Clients, AskStart(c) PROVE StopsInOrder'
  BY <1>26 DEF AskStart, To
<1>27. ASSUME NEW c \in Clients, AskClear(c) PROVE StopsInOrder'
  BY <1>27 DEF AskClear, To
<1>28. ASSUME CycleTimesOut PROVE StopsInOrder'
  BY <1>28 DEF CycleTimesOut, Orphans, To
<1>29. ASSUME CrashAndRestart PROVE StopsInOrder'
  BY <1>29 DEF CrashAndRestart, Orphans
<1>30. ASSUME DayTurns PROVE StopsInOrder'
  BY <1>30 DEF DayTurns
<1>31. ASSUME NEW s \in Symbols, BracketFires(s) PROVE StopsInOrder'
  BY <1>31 DEF BracketFires
<1>32. ASSUME NEW s \in Symbols, ManualClose(s) PROVE StopsInOrder'
  BY <1>32 DEF ManualClose
<1>. QED
  BY <1>1, <1>2, <1>3, <1>4, <1>5, <1>6, <1>7, <1>8, <1>9, <1>10, <1>11, <1>12, <1>13, <1>14, <1>15, <1>16, <1>17, <1>18, <1>19, <1>20, <1>21, <1>22, <1>23, <1>24, <1>25, <1>26, <1>27, <1>28, <1>29, <1>30, <1>31, <1>32 DEF Next, Trade, EndRun, Cycle, Guard, Handle, Ask, Environment

\* Only the cadence task's own order gives its symbol a position.
LEMMA OrderStartsFlatStep ==
  ASSUME TypeOK, GuardRests, StopsInOrder, CadenceOnly, OrderStartsFlat, [Next]_vars
  PROVE  OrderStartsFlat'
<1>. USE ConstantAssumption DEF TypeOK, Workers, Stoppers, Processes, Trading, Shutdown, Closing, engineVars, databaseVars, taskVars, historyVars, CadenceOnly, StartBooks, LoneStart, Starting, Restoring, Clearing, Nobody, OrderStartsFlat, StopsInOrder, GuardRests, NoJob, Jobs
<1>1. CASE UNCHANGED vars
  BY <1>1 DEF vars
<1>2. ASSUME NEW w \in Workers, Judge(w) PROVE OrderStartsFlat'
  BY <1>2 DEF Judge, NextJob, To
<1>3. ASSUME NEW w \in Workers, Record(w) PROVE OrderStartsFlat'
  BY <1>3 DEF Record, NextJob, Resting, To
<1>4. ASSUME NEW w \in Workers, Enter(w) PROVE OrderStartsFlat'
  BY <1>4 DEF Enter, To
<1>5. ASSUME NEW w \in Workers, Bracket(w) PROVE OrderStartsFlat'
  BY <1>5 DEF Bracket, Leaves, To
<1>6. ASSUME NEW w \in Workers, Audit(w) PROVE OrderStartsFlat'
  BY <1>6 DEF Audit, NextJob, Resting, To
<1>7. ASSUME NEW w \in Workers, AuditUnsafe(w) PROVE OrderStartsFlat'
  BY <1>7 DEF AuditUnsafe, Lock, LockIf, To
<1>8. ASSUME NEW p \in Processes, CancelTasks(p) PROVE OrderStartsFlat'
  BY <1>8 DEF CancelTasks, LockIf, Orphans
<1>9. ASSUME NEW p \in Processes, Drop(p) PROVE OrderStartsFlat'
  BY <1>9 DEF Drop, To
<1>10. ASSUME NEW p \in Processes, Finish(p) PROVE OrderStartsFlat'
  BY <1>10 DEF Finish, Lock, LockIf, To
<1>11. ASSUME NEW p \in Processes, Persist(p) PROVE OrderStartsFlat'
  BY <1>11 DEF Persist, To
<1>12. ASSUME NEW p \in Processes, Flatten(p) PROVE OrderStartsFlat'
  BY <1>12 DEF Flatten, NextJob, Resting, To
<1>13. ASSUME BeginCycle PROVE OrderStartsFlat'
  BY <1>13 DEF BeginCycle, To
<1>14. ASSUME Decide PROVE OrderStartsFlat'
  BY <1>14 DEF Decide, To
<1>15. ASSUME NEW s \in Symbols, Assess(s) PROVE OrderStartsFlat'
  BY <1>15 DEF Assess, To
<1>16. ASSUME EndCycle PROVE OrderStartsFlat'
  BY <1>16 DEF EndCycle, RequestStop, To
<1>17. ASSUME NEW s \in Symbols, DropIntent(s) PROVE OrderStartsFlat'
  BY <1>17 DEF DropIntent
<1>18. ASSUME NEW s \in Symbols, Recheck(s) PROVE OrderStartsFlat'
  BY <1>18 DEF Recheck, To
<1>19. ASSUME GuardStops PROVE OrderStartsFlat'
  BY <1>19 DEF GuardStops, RequestStop, To
<1>20. ASSUME GuardEscalates PROVE OrderStartsFlat'
  BY <1>20 DEF GuardEscalates, RequestStop, To
<1>21. ASSUME NEW c \in Clients, Restore(c) PROVE OrderStartsFlat'
  BY <1>21 DEF Restore, ReadLock, DropExpired, Unlock, Relock, Overlap, To
<1>22. ASSUME NEW c \in Clients, Reconcile(c) PROVE OrderStartsFlat'
  BY <1>22 DEF Reconcile, To
<1>23. ASSUME NEW c \in Clients, BeginRun(c) PROVE OrderStartsFlat'
  BY <1>23 DEF BeginRun, To
<1>24. ASSUME NEW c \in Clients, Clear(c) PROVE OrderStartsFlat'
  BY <1>24 DEF Clear, Inspect, Lift, DeleteLock, Overlap, To
<1>25. ASSUME NEW c \in Clients, NEW g \in {"stop", "kill"}, AskShutdown(c, g) PROVE OrderStartsFlat'
  BY <1>25 DEF AskShutdown, To
<1>26. ASSUME NEW c \in Clients, AskStart(c) PROVE OrderStartsFlat'
  BY <1>26 DEF AskStart, To
<1>27. ASSUME NEW c \in Clients, AskClear(c) PROVE OrderStartsFlat'
  BY <1>27 DEF AskClear, To
<1>28. ASSUME CycleTimesOut PROVE OrderStartsFlat'
  BY <1>28 DEF CycleTimesOut, Orphans, To
<1>29. ASSUME CrashAndRestart PROVE OrderStartsFlat'
  BY <1>29 DEF CrashAndRestart, Orphans
<1>30. ASSUME DayTurns PROVE OrderStartsFlat'
  BY <1>30 DEF DayTurns
<1>31. ASSUME NEW s \in Symbols, BracketFires(s) PROVE OrderStartsFlat'
  BY <1>31 DEF BracketFires
<1>32. ASSUME NEW s \in Symbols, ManualClose(s) PROVE OrderStartsFlat'
  BY <1>32 DEF ManualClose
<1>. QED
  BY <1>1, <1>2, <1>3, <1>4, <1>5, <1>6, <1>7, <1>8, <1>9, <1>10, <1>11, <1>12, <1>13, <1>14, <1>15, <1>16, <1>17, <1>18, <1>19, <1>20, <1>21, <1>22, <1>23, <1>24, <1>25, <1>26, <1>27, <1>28, <1>29, <1>30, <1>31, <1>32 DEF Next, Trade, EndRun, Cycle, Guard, Handle, Ask, Environment

\* Nobody comes to "begin", and no symbol loses its stop.
LEMMA StartsKept ==
  ASSUME StartsCovered, \A c \in Clients : pc'[c] = "begin" => pc[c] = "begin",
         \A s \in Symbols : held'[s] = "naked" => held[s] = "naked"
  PROVE  StartsCovered'
BY DEF StartsCovered

\* Nothing loses its stop between the reconciliation and the first step of a run.
LEMMA StartsCoveredStep ==
  ASSUME TypeOK, StartBooks, GuardRests, StopsInOrder, CadenceOnly, StartsCovered, [Next]_vars
  PROVE  StartsCovered'
<1>. USE ConstantAssumption DEF TypeOK, Workers, Stoppers, Processes, Trading, Shutdown, Closing, engineVars, databaseVars, taskVars, historyVars, CadenceOnly, StartBooks, LoneStart, Starting, Restoring, Clearing, Nobody, StartsCovered, StopsInOrder, GuardRests, NoJob, Jobs
<1>1. CASE UNCHANGED vars
  BY <1>1 DEF vars
<1>2. ASSUME NEW w \in Workers, Judge(w) PROVE StartsCovered'
  BY <1>2 DEF Judge, NextJob, To
<1>3. ASSUME NEW w \in Workers, Record(w) PROVE StartsCovered'
  <2>1. \E label \in {"entering", "assess", "idle"} : pc' = [pc EXCEPT ![w] = label]
    BY <1>3 DEF Record, NextJob, Resting, To
  <2>2. \A c \in Clients : pc'[c] = pc[c]
    BY <2>1, TypeParts, ClientsStay
  <2>. QED
    BY <2>2, <1>3, StartsKept DEF Record
<1>4. ASSUME NEW w \in Workers, Enter(w) PROVE StartsCovered'
  BY <1>4 DEF Enter, To
<1>5. ASSUME NEW w \in Workers, Bracket(w) PROVE StartsCovered'
  BY <1>5 DEF Bracket, Leaves, To
<1>6. ASSUME NEW w \in Workers, Audit(w) PROVE StartsCovered'
  BY <1>6 DEF Audit, NextJob, Resting, To
<1>7. ASSUME NEW w \in Workers, AuditUnsafe(w) PROVE StartsCovered'
  <2>1. \E label \in {"drop", "persist"} : pc' = [pc EXCEPT ![w] = label]
    BY <1>7 DEF AuditUnsafe, Lock, LockIf, To
  <2>2. \A c \in Clients : pc'[c] = pc[c]
    BY <2>1, TypeParts, ClientsStay
  <2>. QED
    BY <2>2, <1>7, StartsKept DEF AuditUnsafe
<1>8. ASSUME NEW p \in Processes, CancelTasks(p) PROVE StartsCovered'
  BY <1>8 DEF CancelTasks, LockIf, Orphans
<1>9. ASSUME NEW p \in Processes, Drop(p) PROVE StartsCovered'
  BY <1>9 DEF Drop, To
<1>10. ASSUME NEW p \in Processes, Finish(p) PROVE StartsCovered'
  <2>1. \E label \in {"idle", "persist"} : pc' = [pc EXCEPT ![p] = label]
    BY <1>10 DEF Finish, Lock, LockIf, To
  <2>2. \A c \in Clients : pc'[c] = "begin" => pc[c] = "begin"
    BY <2>1, TypeParts DEF PcType
  <2>. QED
    BY <2>2, <1>10, StartsKept DEF Finish
<1>11. ASSUME NEW p \in Processes, Persist(p) PROVE StartsCovered'
  BY <1>11 DEF Persist, To
<1>12. ASSUME NEW p \in Processes, Flatten(p) PROVE StartsCovered'
  <2>1. \E label \in {"idle", "assess"} : pc' = [pc EXCEPT ![p] = label]
    BY <1>12 DEF Flatten, NextJob, Resting, To
  <2>2. \A c \in Clients : pc'[c] = "begin" => pc[c] = "begin"
    BY <2>1, TypeParts DEF PcType
  <2>3. \A s \in Symbols : held'[s] = "naked" => held[s] = "naked"
    BY <1>12 DEF Flatten
  <2>. QED
    BY <2>2, <2>3, StartsKept
<1>13. ASSUME BeginCycle PROVE StartsCovered'
  BY <1>13 DEF BeginCycle, To
<1>14. ASSUME Decide PROVE StartsCovered'
  <2>1. \A c \in Clients : pc'[c] = pc[c]
    BY <1>14, TypeParts, ClientsStay DEF Decide, To
  <2>. QED
    BY <2>1, <1>14, StartsKept DEF Decide
<1>15. ASSUME NEW s \in Symbols, Assess(s) PROVE StartsCovered'
  <2>1. \A c \in Clients : pc'[c] = pc[c]
    BY <1>15, TypeParts, ClientsStay DEF Assess, To
  <2>. QED
    BY <2>1, <1>15, StartsKept DEF Assess
<1>16. ASSUME EndCycle PROVE StartsCovered'
  <2>1. \A c \in Clients : pc'[c] = pc[c]
    BY <1>16, TypeParts, ClientsStay DEF EndCycle, RequestStop, To
  <2>. QED
    BY <2>1, <1>16, StartsKept DEF EndCycle
<1>17. ASSUME NEW s \in Symbols, DropIntent(s) PROVE StartsCovered'
  BY <1>17 DEF DropIntent
<1>18. ASSUME NEW s \in Symbols, Recheck(s) PROVE StartsCovered'
  BY <1>18 DEF Recheck, To
<1>19. ASSUME GuardStops PROVE StartsCovered'
  <2>1. \A c \in Clients : pc'[c] = pc[c]
    BY <1>19, TypeParts, ClientsStay DEF GuardStops, RequestStop, To
  <2>. QED
    BY <2>1, <1>19, StartsKept DEF GuardStops
<1>20. ASSUME GuardEscalates PROVE StartsCovered'
  <2>1. \A c \in Clients : pc'[c] = pc[c]
    BY <1>20, TypeParts, ClientsStay DEF GuardEscalates, RequestStop, To
  <2>. QED
    BY <2>1, <1>20 DEF GuardEscalates
<1>21. ASSUME NEW c \in Clients, Restore(c) PROVE StartsCovered'
  BY <1>21 DEF Restore, ReadLock, DropExpired, Unlock, Relock, Overlap, To
<1>22. ASSUME NEW c \in Clients, Reconcile(c) PROVE StartsCovered'
  <2>1. \/ pc' = [pc EXCEPT ![c] = "begin"] /\ \A s \in Symbols : held[s] # "naked"
        \/ pc' = [pc EXCEPT ![c] = "idle"]
    BY <1>22 DEF Reconcile, To
  <2>2. UNCHANGED held
    BY <1>22 DEF Reconcile
  <2>3. \A d \in Clients \ {c} : pc'[d] = pc[d] /\ pc[d] # "begin"
    <3>1. ASSUME NEW d \in Clients \ {c} PROVE pc'[d] = pc[d]
      <4>1. d \in Processes /\ pc \in [Processes -> TaskLabels \cup HandlerLabels]
        OBVIOUS
      <4>. QED
        BY <4>1, <2>1
    <3>. QED
      BY <3>1, <1>22 DEF Reconcile
  <2>. QED
    BY <2>1, <2>2, <2>3
<1>23. ASSUME NEW c \in Clients, BeginRun(c) PROVE StartsCovered'
  BY <1>23 DEF BeginRun, To
<1>24. ASSUME NEW c \in Clients, Clear(c) PROVE StartsCovered'
  <2>1. \E label \in {"clear", "delete", "idle"} : pc' = [pc EXCEPT ![c] = label]
    BY <1>24 DEF Clear, Inspect, Lift, DeleteLock, To
  <2>2. UNCHANGED <<held, batch>>
    BY <1>24 DEF Clear, Inspect, Lift, DeleteLock
  <2>3. \A d \in Clients : pc'[d] = pc[d] \/ pc'[d] # "begin"
    BY <2>1
  <2>. QED
    BY <2>2, <2>3
<1>25. ASSUME NEW c \in Clients, NEW g \in {"stop", "kill"}, AskShutdown(c, g) PROVE StartsCovered'
  BY <1>25 DEF AskShutdown, To
<1>26. ASSUME NEW c \in Clients, AskStart(c) PROVE StartsCovered'
  BY <1>26 DEF AskStart, To
<1>27. ASSUME NEW c \in Clients, AskClear(c) PROVE StartsCovered'
  BY <1>27 DEF AskClear, To
<1>28. ASSUME CycleTimesOut PROVE StartsCovered'
  BY <1>28 DEF CycleTimesOut, Orphans, To
<1>29. ASSUME CrashAndRestart PROVE StartsCovered'
  BY <1>29 DEF CrashAndRestart, Orphans
<1>30. ASSUME DayTurns PROVE StartsCovered'
  BY <1>30 DEF DayTurns
<1>31. ASSUME NEW s \in Symbols, BracketFires(s) PROVE StartsCovered'
  BY <1>31 DEF BracketFires
<1>32. ASSUME NEW s \in Symbols, ManualClose(s) PROVE StartsCovered'
  BY <1>32 DEF ManualClose
<1>. QED
  BY <1>1, <1>2, <1>3, <1>4, <1>5, <1>6, <1>7, <1>8, <1>9, <1>10, <1>11, <1>12, <1>13, <1>14, <1>15, <1>16, <1>17, <1>18, <1>19, <1>20, <1>21, <1>22, <1>23, <1>24, <1>25, <1>26, <1>27, <1>28, <1>29, <1>30, <1>31, <1>32 DEF Next, Trade, EndRun, Cycle, Guard, Handle, Ask, Environment

\* A stop is lost, or an order fails, only on the way into a shutdown.
LEMMA NakedInHandStep ==
  ASSUME TypeOK, StartBooks, GuardRests, StopsInOrder, OrderStartsFlat, StartsCovered, CadenceOnly, NakedInHand, [Next]_vars
  PROVE  NakedInHand'
<1>. USE ConstantAssumption DEF TypeOK, Workers, Stoppers, Processes, Trading, Shutdown, Closing, engineVars, databaseVars, taskVars, historyVars, CadenceOnly, StartBooks, LoneStart, Starting, Restoring, Clearing, Nobody, NakedInHand, OrderStartsFlat, StartsCovered, StopsInOrder, GuardRests, NoJob, Jobs
<1>1. CASE UNCHANGED vars
  BY <1>1 DEF vars
<1>2. ASSUME NEW w \in Workers, Judge(w) PROVE NakedInHand'
  BY <1>2 DEF Judge, NextJob, To
<1>3. ASSUME NEW w \in Workers, Record(w) PROVE NakedInHand'
  BY <1>3 DEF Record, NextJob, Resting, To
<1>4. ASSUME NEW w \in Workers, Enter(w) PROVE NakedInHand'
  BY <1>4 DEF Enter, To
<1>5. ASSUME NEW w \in Workers, Bracket(w) PROVE NakedInHand'
  BY <1>5 DEF Bracket, Leaves, To
<1>6. ASSUME NEW w \in Workers, Audit(w) PROVE NakedInHand'
  BY <1>6 DEF Audit, NextJob, Resting, To
<1>7. ASSUME NEW w \in Workers, AuditUnsafe(w) PROVE NakedInHand'
  BY <1>7 DEF AuditUnsafe, Lock, LockIf, To
<1>8. ASSUME NEW p \in Processes, CancelTasks(p) PROVE NakedInHand'
  BY <1>8 DEF CancelTasks, LockIf, Orphans
<1>9. ASSUME NEW p \in Processes, Drop(p) PROVE NakedInHand'
  BY <1>9 DEF Drop, To
<1>10. ASSUME NEW p \in Processes, Finish(p) PROVE NakedInHand'
  BY <1>10 DEF Finish, Lock, LockIf, To
<1>11. ASSUME NEW p \in Processes, Persist(p) PROVE NakedInHand'
  BY <1>11 DEF Persist, To
<1>12. ASSUME NEW p \in Processes, Flatten(p) PROVE NakedInHand'
  BY <1>12 DEF Flatten, NextJob, Resting, To
<1>13. ASSUME BeginCycle PROVE NakedInHand'
  BY <1>13 DEF BeginCycle, To
<1>14. ASSUME Decide PROVE NakedInHand'
  BY <1>14 DEF Decide, To
<1>15. ASSUME NEW s \in Symbols, Assess(s) PROVE NakedInHand'
  BY <1>15 DEF Assess, To
<1>16. ASSUME EndCycle PROVE NakedInHand'
  BY <1>16 DEF EndCycle, RequestStop, To
<1>17. ASSUME NEW s \in Symbols, DropIntent(s) PROVE NakedInHand'
  BY <1>17 DEF DropIntent
<1>18. ASSUME NEW s \in Symbols, Recheck(s) PROVE NakedInHand'
  BY <1>18 DEF Recheck, To
<1>19. ASSUME GuardStops PROVE NakedInHand'
  BY <1>19 DEF GuardStops, RequestStop, To
<1>20. ASSUME GuardEscalates PROVE NakedInHand'
  BY <1>20 DEF GuardEscalates, RequestStop, To
<1>21. ASSUME NEW c \in Clients, Restore(c) PROVE NakedInHand'
  BY <1>21 DEF Restore, ReadLock, DropExpired, Unlock, Relock, Overlap, To
<1>22. ASSUME NEW c \in Clients, Reconcile(c) PROVE NakedInHand'
  BY <1>22 DEF Reconcile, To
<1>23. ASSUME NEW c \in Clients, BeginRun(c) PROVE NakedInHand'
  BY <1>23 DEF BeginRun, To
<1>24. ASSUME NEW c \in Clients, Clear(c) PROVE NakedInHand'
  BY <1>24 DEF Clear, Inspect, Lift, DeleteLock, Overlap, To
<1>25. ASSUME NEW c \in Clients, NEW g \in {"stop", "kill"}, AskShutdown(c, g) PROVE NakedInHand'
  BY <1>25 DEF AskShutdown, To
<1>26. ASSUME NEW c \in Clients, AskStart(c) PROVE NakedInHand'
  BY <1>26 DEF AskStart, To
<1>27. ASSUME NEW c \in Clients, AskClear(c) PROVE NakedInHand'
  BY <1>27 DEF AskClear, To
<1>28. ASSUME CycleTimesOut PROVE NakedInHand'
  BY <1>28 DEF CycleTimesOut, Orphans, To
<1>29. ASSUME CrashAndRestart PROVE NakedInHand'
  BY <1>29 DEF CrashAndRestart, Orphans
<1>30. ASSUME DayTurns PROVE NakedInHand'
  BY <1>30 DEF DayTurns
<1>31. ASSUME NEW s \in Symbols, BracketFires(s) PROVE NakedInHand'
  BY <1>31 DEF BracketFires
<1>32. ASSUME NEW s \in Symbols, ManualClose(s) PROVE NakedInHand'
  BY <1>32 DEF ManualClose
<1>. QED
  BY <1>1, <1>2, <1>3, <1>4, <1>5, <1>6, <1>7, <1>8, <1>9, <1>10, <1>11, <1>12, <1>13, <1>14, <1>15, <1>16, <1>17, <1>18, <1>19, <1>20, <1>21, <1>22, <1>23, <1>24, <1>25, <1>26, <1>27, <1>28, <1>29, <1>30, <1>31, <1>32 DEF Next, Trade, EndRun, Cycle, Guard, Handle, Ask, Environment

\* After the flatten no order is left that could open a position.
LEMMA FlatWhileStoppedStep ==
  ASSUME TypeOK, StartBooks, GuardRests, StopsInOrder, CadenceOnly, FlatWhileStopped, [Next]_vars
  PROVE  FlatWhileStopped'
<1>. USE ConstantAssumption DEF TypeOK, Workers, Stoppers, Processes, Trading, Shutdown, Closing, engineVars, databaseVars, taskVars, historyVars, CadenceOnly, StartBooks, LoneStart, Starting, Restoring, Clearing, Nobody, FlatWhileStopped, StopsInOrder, GuardRests, NoJob, Jobs
<1>1. CASE UNCHANGED vars
  BY <1>1 DEF vars
<1>2. ASSUME NEW w \in Workers, Judge(w) PROVE FlatWhileStopped'
  BY <1>2 DEF Judge, NextJob, To
<1>3. ASSUME NEW w \in Workers, Record(w) PROVE FlatWhileStopped'
  BY <1>3 DEF Record, NextJob, Resting, To
<1>4. ASSUME NEW w \in Workers, Enter(w) PROVE FlatWhileStopped'
  BY <1>4 DEF Enter, To
<1>5. ASSUME NEW w \in Workers, Bracket(w) PROVE FlatWhileStopped'
  BY <1>5 DEF Bracket, Leaves, To
<1>6. ASSUME NEW w \in Workers, Audit(w) PROVE FlatWhileStopped'
  BY <1>6 DEF Audit, NextJob, Resting, To
<1>7. ASSUME NEW w \in Workers, AuditUnsafe(w) PROVE FlatWhileStopped'
  BY <1>7 DEF AuditUnsafe, Lock, LockIf, To
<1>8. ASSUME NEW p \in Processes, CancelTasks(p) PROVE FlatWhileStopped'
  BY <1>8 DEF CancelTasks, LockIf, Orphans
<1>9. ASSUME NEW p \in Processes, Drop(p) PROVE FlatWhileStopped'
  BY <1>9 DEF Drop, To
<1>10. ASSUME NEW p \in Processes, Finish(p) PROVE FlatWhileStopped'
  BY <1>10 DEF Finish, Lock, LockIf, To
<1>11. ASSUME NEW p \in Processes, Persist(p) PROVE FlatWhileStopped'
  BY <1>11 DEF Persist, To
<1>12. ASSUME NEW p \in Processes, Flatten(p) PROVE FlatWhileStopped'
  BY <1>12 DEF Flatten, NextJob, Resting, To
<1>13. ASSUME BeginCycle PROVE FlatWhileStopped'
  BY <1>13 DEF BeginCycle, To
<1>14. ASSUME Decide PROVE FlatWhileStopped'
  BY <1>14 DEF Decide, To
<1>15. ASSUME NEW s \in Symbols, Assess(s) PROVE FlatWhileStopped'
  BY <1>15 DEF Assess, To
<1>16. ASSUME EndCycle PROVE FlatWhileStopped'
  BY <1>16 DEF EndCycle, RequestStop, To
<1>17. ASSUME NEW s \in Symbols, DropIntent(s) PROVE FlatWhileStopped'
  BY <1>17 DEF DropIntent
<1>18. ASSUME NEW s \in Symbols, Recheck(s) PROVE FlatWhileStopped'
  BY <1>18 DEF Recheck, To
<1>19. ASSUME GuardStops PROVE FlatWhileStopped'
  BY <1>19 DEF GuardStops, RequestStop, To
<1>20. ASSUME GuardEscalates PROVE FlatWhileStopped'
  BY <1>20 DEF GuardEscalates, RequestStop, To
<1>21. ASSUME NEW c \in Clients, Restore(c) PROVE FlatWhileStopped'
  BY <1>21 DEF Restore, ReadLock, DropExpired, Unlock, Relock, Overlap, To
<1>22. ASSUME NEW c \in Clients, Reconcile(c) PROVE FlatWhileStopped'
  BY <1>22 DEF Reconcile, To
<1>23. ASSUME NEW c \in Clients, BeginRun(c) PROVE FlatWhileStopped'
  BY <1>23 DEF BeginRun, To
<1>24. ASSUME NEW c \in Clients, Clear(c) PROVE FlatWhileStopped'
  BY <1>24 DEF Clear, Inspect, Lift, DeleteLock, Overlap, To
<1>25. ASSUME NEW c \in Clients, NEW g \in {"stop", "kill"}, AskShutdown(c, g) PROVE FlatWhileStopped'
  BY <1>25 DEF AskShutdown, To
<1>26. ASSUME NEW c \in Clients, AskStart(c) PROVE FlatWhileStopped'
  BY <1>26 DEF AskStart, To
<1>27. ASSUME NEW c \in Clients, AskClear(c) PROVE FlatWhileStopped'
  BY <1>27 DEF AskClear, To
<1>28. ASSUME CycleTimesOut PROVE FlatWhileStopped'
  BY <1>28 DEF CycleTimesOut, Orphans, To
<1>29. ASSUME CrashAndRestart PROVE FlatWhileStopped'
  BY <1>29 DEF CrashAndRestart, Orphans
<1>30. ASSUME DayTurns PROVE FlatWhileStopped'
  BY <1>30 DEF DayTurns
<1>31. ASSUME NEW s \in Symbols, BracketFires(s) PROVE FlatWhileStopped'
  BY <1>31 DEF BracketFires
<1>32. ASSUME NEW s \in Symbols, ManualClose(s) PROVE FlatWhileStopped'
  BY <1>32 DEF ManualClose
<1>. QED
  BY <1>1, <1>2, <1>3, <1>4, <1>5, <1>6, <1>7, <1>8, <1>9, <1>10, <1>11, <1>12, <1>13, <1>14, <1>15, <1>16, <1>17, <1>18, <1>19, <1>20, <1>21, <1>22, <1>23, <1>24, <1>25, <1>26, <1>27, <1>28, <1>29, <1>30, <1>31, <1>32 DEF Next, Trade, EndRun, Cycle, Guard, Handle, Ask, Environment

\* The fresh process is guarded.
LEMMA GuardedInit == Init => Guarded
BY ConstantAssumption DEF Init, Guarded, GuardRests, StopsInOrder, NakedInHand, OrderStartsFlat, StartsCovered, FlatWhileStopped, Closing, Trading, Shutdown, Processes, Stoppers, Workers

\* Every step keeps Guarded.
LEMMA GuardedStep ==
  ASSUME CadenceOnly, TypeOK, StartBooks, Guarded, [Next]_vars
  PROVE  Guarded'
BY GuardRestsStep, StopsInOrderStep, NakedInHandStep, OrderStartsFlatStep, StartsCoveredStep, FlatWhileStoppedStep DEF Guarded

\* In every run where only the cadence task trades, Guarded is an invariant.
LEMMA GuardedRuns ==
  ASSUME CadenceOnly
  PROVE  Spec => []Guarded
<1>1. Init => StartBooks
  BY ConstantAssumption DEF Init, StartBooks, LoneStart, OneOpenRow, Stoppers, Processes, Workers, Starting, Restoring, Clearing, Runs
<1>2. TypeOK /\ StartBooks /\ [Next]_vars => StartBooks'
  BY StartBooksStep
<1>3. TypeOK /\ StartBooks /\ Guarded /\ [Next]_vars => Guarded'
  BY GuardedStep
<1>. QED
  BY <1>1, <1>2, <1>3, GuardedInit, TypeCorrect, PTL DEF Spec

\* A run that is not being shut down holds no position without a stop but the
\* one whose order is being finished, whatever execute_with_stop returns.
THEOREM NakedStaysInHand ==
  ASSUME CadenceOnly
  PROVE  Spec => []NoTradingOverNaked
<1>1. Guarded => NoTradingOverNaked
  BY DEF Guarded, NakedInHand, NoTradingOverNaked, ShuttingDown, Workers
<1>. QED
  BY <1>1, GuardedRuns, PTL

\* An account that an emergency stop has flattened stays flat until the next run.
THEOREM FlatStaysFlat ==
  ASSUME CadenceOnly
  PROVE  Spec => []FlattenSticks
<1>1. Guarded => FlattenSticks
  BY DEF Guarded, FlatWhileStopped, FlattenSticks
<1>. QED
  BY <1>1, GuardedRuns, PTL

====
