---------------------------- MODULE AnalysisDesk ----------------------------
(***************************************************************************)
(* Advisory market analyses: the queue one request or one scheduled round  *)
(* fills, the task that works through it, and the audit row of each        *)
(* analysis.  src/candlepilot/api.py, analysis/service.py, analysis/       *)
(* scheduler.py and storage/market_analysis_repository.py.                 *)
(*                                                                         *)
(* Who else is using the providers is not known here: the handlers take it *)
(* as a parameter, and ModelWork supplies it.                              *)
(***************************************************************************)
EXTENDS Naturals, Sequences, FiniteSets, SequencesExt

CONSTANTS
    Analyses,   \* the audit rows an execution may create
    MaxBatch    \* candidates of one batch request or round

ASSUME AnalysisDeskAssumption == IsFiniteSet(Analyses) /\ MaxBatch \in Nat \ {0}

VARIABLES
    rows,     \* [Analyses -> status]; "absent" until the row is created
    desk,     \* the lock, the rows a request has yet to create, and the task
    round,    \* the scheduler's loop and its round task
    cutRows,  \* history: rows whose closing was itself cut short
    stranded  \* history: rows a failing write elsewhere in their batch left behind

leftBehind == <<cutRows, stranded>>
analysisVars == <<rows, desk, round, leftBehind>>

Open == {"pending", "running"}

\* closingOwn: the running row's own handler has a cancellation; then the queue's
Phases == {"none", "working", "closingOwn", "closing"}

AnalysisTypeOK ==
    /\ rows \in [Analyses -> {"absent", "pending", "running", "closed"}]
    /\ desk \in [left : 0..MaxBatch, creating : Seq(Analyses), queue : Seq(Analyses), phase : Phases]
    /\ round \in [enabled : BOOLEAN, task : {"none", "gathering", "awaiting"}]
    /\ cutRows \subseteq Analyses /\ stranded \subseteq Analyses

AnalysisInit ==
    /\ rows = [a \in Analyses |-> "absent"]
    /\ desk = [left |-> 0, creating |-> <<>>, queue |-> <<>>, phase |-> "none"]
    /\ round = [enabled |-> FALSE, task |-> "none"]
    /\ cutRows = {} /\ stranded = {}

DeskLocked == desk.left > 0            \* analysis_start_lock is held
TaskAlive == desk.phase # "none"       \* analysis_task is not done
RoundRunning == round.task # "none"

OpenInQueue == {a \in ToSet(desk.queue) : rows[a] \in Open}

-----------------------------------------------------------------------------
(* queue_market_analyses: the check and the lock are one step, each row is *)
(* an awaited insert, the task is registered with the last.                *)

Queue(busy, n) ==
    /\ ~busy
    /\ ~TaskAlive
    /\ n <= Cardinality({a \in Analyses : rows[a] = "absent"})
    /\ desk' = [desk EXCEPT !.left = n]

CreateRow ==
    /\ desk.left > 0
    /\ \E b \in Analyses : rows[b] = "absent"
    /\ LET a == CHOOSE b \in Analyses : rows[b] = "absent"
           made == Append(desk.creating, a)
       IN /\ rows' = [rows EXCEPT ![a] = "pending"]
          /\ desk' = IF desk.left > 1
                     THEN [desk EXCEPT !.left = @ - 1, !.creating = made]
                     ELSE [left |-> 0, creating |-> <<>>, queue |-> made, phase |-> "working"]
    /\ UNCHANGED <<round, leftBehind>>

\* an insert fails: the rows already made never get a task
CreateFails ==
    /\ desk.left > 0
    /\ desk' = [desk EXCEPT !.left = 0, !.creating = <<>>]
    /\ stranded' = stranded \union ToSet(desk.creating)
    /\ round' = [round EXCEPT !.task = IF @ = "awaiting" THEN "none" ELSE @]
    /\ UNCHANGED <<rows, cutRows>>

-----------------------------------------------------------------------------
(* run_market_analysis_queue and MarketAnalysisService.run *)

\* a round awaits the queue's task: it ends with it, cancelled or not
TaskEnds(d) ==
    /\ desk' = [d EXCEPT !.phase = "none", !.queue = <<>>]
    /\ round' = [round EXCEPT !.task = IF @ = "awaiting" THEN "none" ELSE @]

\* the pack is built and the prompt saved: the provider is now asked
StartRow ==
    /\ desk.phase = "working" /\ rows[Head(desk.queue)] = "pending"
    /\ rows' = [rows EXCEPT ![Head(desk.queue)] = "running"]
    /\ UNCHANGED <<desk, round, leftBehind>>

\* succeed, or fail at any of its steps; then the next row
EndRow ==
    /\ desk.phase = "working"
    /\ rows' = [rows EXCEPT ![Head(desk.queue)] = "closed"]
    /\ IF Len(desk.queue) = 1
       THEN TaskEnds(desk)
       ELSE desk' = [desk EXCEPT !.queue = Tail(@)] /\ UNCHANGED round
    /\ UNCHANGED leftBehind

\* the row's own closing write fails: the error ends the task, and only a
\* cancellation would have made it close the rest of the queue
EndRowFails ==
    /\ desk.phase = "working"
    /\ cutRows' = cutRows \union {Head(desk.queue)}
    /\ stranded' = stranded \union ToSet(Tail(desk.queue))
    /\ TaskEnds(desk)
    /\ UNCHANGED rows

\* cancel_market_analysis, for any open row of the queue
CancelQueue ==
    /\ TaskAlive
    /\ OpenInQueue # {}
    /\ \/ /\ desk.phase = "working"
          /\ desk' = [desk EXCEPT !.phase = "closingOwn"]
          /\ UNCHANGED <<round, leftBehind>>
       \/ \* during the row's own closing write, for a failure or a cancellation
          /\ desk.phase \in {"working", "closingOwn"}
          /\ desk' = [desk EXCEPT !.phase = "closing"]
          /\ UNCHANGED <<round, leftBehind>>
       \/ \* inside the queue's handler: what is left stays open
          /\ desk.phase = "closing"
          /\ TaskEnds(desk)
          /\ cutRows' = cutRows \union OpenInQueue
    /\ UNCHANGED <<rows, stranded>>

\* the service's handler closes its row, the queue's handler the others
CloseOwn ==
    /\ desk.phase = "closingOwn"
    /\ rows' = [rows EXCEPT ![Head(desk.queue)] = "closed"]
    /\ desk' = [desk EXCEPT !.phase = "closing"]
    /\ UNCHANGED <<round, leftBehind>>

\* the first row of the queue that is still open, if there is one
FirstOpen(i) ==
    /\ rows[desk.queue[i]] \in Open
    /\ \A k \in 1..(i - 1) : rows[desk.queue[k]] \notin Open

\* mutant: the queue's handler trusts the service to have closed its row
CloseNothing ==
    /\ desk.phase = "closing"
    /\ TaskEnds(desk)
    /\ UNCHANGED <<rows, leftBehind>>

CloseNext ==
    /\ desk.phase = "closing"
    /\ \/ /\ \A i \in DOMAIN desk.queue : rows[desk.queue[i]] \notin Open
          /\ TaskEnds(desk)
          /\ UNCHANGED rows
       \/ /\ \E i \in DOMAIN desk.queue :
                /\ FirstOpen(i)
                /\ rows' = [rows EXCEPT ![desk.queue[i]] = "closed"]
          /\ UNCHANGED <<desk, round>>
    /\ UNCHANGED leftBehind

-----------------------------------------------------------------------------
(* MarketAnalysisScheduler: the loop and its rounds *)

StartSchedule(live) ==
    /\ ~live /\ ~round.enabled
    /\ round' = [round EXCEPT !.enabled = TRUE]
    /\ UNCHANGED <<rows, desk, leftBehind>>

\* only the loop is cancelled: a round that runs goes on
StopSchedule ==
    /\ round.enabled
    /\ round' = [round EXCEPT !.enabled = FALSE]
    /\ UNCHANGED <<rows, desk, leftBehind>>

\* a quarter of an hour; with a round still running the boundary is skipped
RoundBegins ==
    /\ round.enabled /\ ~RoundRunning
    /\ round' = [round EXCEPT !.task = "gathering"]
    /\ UNCHANGED <<rows, desk, leftBehind>>

\* skipped because of other work, nothing eligible, or an error
RoundEndsEmpty ==
    /\ round.task = "gathering"
    /\ round' = [round EXCEPT !.task = "none"]
    /\ UNCHANGED <<rows, desk, leftBehind>>

QueueRequest(busy) ==
    /\ ~RoundRunning
    /\ \E n \in 1..MaxBatch : Queue(busy, n)
    /\ UNCHANGED <<rows, round, leftBehind>>

\* the symbols were gathered over awaits: the queue checks again
QueueRound(busy) ==
    /\ round.task = "gathering"
    /\ \E n \in 1..MaxBatch : Queue(busy, n)
    /\ round' = [round EXCEPT !.task = "awaiting"]
    /\ UNCHANGED <<rows, leftBehind>>

\* fail_open at startup: no task survives the process, and no row stays open
AnalysisBoot ==
    /\ rows' = [a \in Analyses |-> IF rows[a] \in Open THEN "closed" ELSE rows[a]]
    /\ desk' = [left |-> 0, creating |-> <<>>, queue |-> <<>>, phase |-> "none"]
    /\ round' = [enabled |-> FALSE, task |-> "none"]
    /\ cutRows' = {} /\ stranded' = {}

AnalysisStep ==
    \/ CreateRow \/ CreateFails
    \/ StartRow \/ EndRow \/ EndRowFails
    \/ CancelQueue \/ CloseOwn \/ CloseNext
    \/ StopSchedule \/ RoundBegins \/ RoundEndsEmpty

\* An audit row that says an analysis is pending or running has a task (or a
\* request still creating the batch) that will close it, and each exception is
\* the work of a failing write: the row's own closing write failed, or a
\* cancellation cut it; or the row is stranded, by a later insert of its batch
\* that failed or an earlier row of its queue whose closing write did.
OpenRowsHaveTask ==
    \A a \in Analyses :
        rows[a] \in Open =>
            \/ a \in ToSet(desk.creating) \union ToSet(desk.queue)
            \/ a \in cutRows \union stranded
=============================================================================
