-------------------------- MODULE LeasedJobs_proofs --------------------------
EXTENDS LeasedJobs, FiniteSetTheorems, TLAPS

(* The counters of an analysis job are its outcomes, and a task is ready    *)
(* only behind them, for any number of items, workers and clients.  Workers *)
(* and clients act on what they read earlier; JobsInv says what of it is    *)
(* still true: an outcome once reached stays, so that "completed" stays     *)
(* true, and a counter read earlier is a lower bound.                       *)

-----------------------------------------------------------------------------
(* Types *)

Row == [status : ItemStatus, owner : Analyst \cup {"none"}, live : BOOLEAN, attempts : Nat]

\* Who works on an item has one.
DeskHasItem == \A w \in Analyst : desk[w].pc \in {"analyse", "complete"} => desk[w].item \in Item

TypeInv == JobsTypeOK /\ DeskHasItem

LEMMA InitTyped == JobsInit => TypeInv
<1> USE JobsAssumption DEF JobsAssumption, WorkflowAssumption
<1> SUFFICES ASSUME JobsInit PROVE TypeInv
    OBVIOUS
<1>1. WorkflowTypeOK
      BY DEF JobsInit, WorkflowInit, WorkflowTypeOK, AnyTask, NoRun, TaskStage, TaskStatus, RunStatus
<1>2. job \in Job
      BY DEF JobsInit, Job, NoJob, JobStatus
<1>3. item \in [Item -> Row] /\ finding \in [Item -> Finding]
      BY DEF JobsInit, Row, NoItem, QueuedItem, ItemStatus, Finding
<1>4. DeskHasItem
      BY DEF JobsInit, AtRest, DeskHasItem
<1> QED BY <1>1, <1>2, <1>3, <1>4
        DEF JobsInit, TypeInv, JobsTypeOK, Row, AtRest, Quiet, AnyTask, JobStatus, TaskStage,
            TaskStatus, WorkflowStage

LEMMA RunTyped ==
    ASSUME JobsTypeOK, NEW s \in WorkflowStage, NEW st \in RunStatus, NEW b \in BOOLEAN
    PROVE  RunOf(s, st, b) \in [WorkflowStage -> [attempt : Nat, status : RunStatus, retryable : BOOLEAN]]
BY DEF RunOf, JobsTypeOK, WorkflowTypeOK

LEMMA SyncTyped ==
    ASSUME JobsTypeOK, NEW st, Sync(st)
    PROVE  /\ task' \in [stage : TaskStage, status : TaskStatus]
           /\ stageRun' \in [WorkflowStage -> [attempt : Nat, status : RunStatus, retryable : BOOLEAN]]
<1>1. CASE stageRun["analysis"].attempt = 0
      BY <1>1 DEF Sync, JobsTypeOK, WorkflowTypeOK
<1>2. CASE stageRun["analysis"].attempt # 0
  <2>1. task' \in [stage : TaskStage, status : TaskStatus]
        BY <1>2 DEF Sync, TaskStage, TaskStatus
  <2>2. \E rs \in RunStatus, b \in BOOLEAN :
            stageRun' = [stageRun EXCEPT !["analysis"].status = rs, !["analysis"].retryable = b]
        BY <1>2 DEF Sync, RunStatus
  <2>3. PICK rs \in RunStatus, b \in BOOLEAN :
            stageRun' = [stageRun EXCEPT !["analysis"].status = rs, !["analysis"].retryable = b]
        BY <2>2
  <2>4. stageRun["analysis"] \in [attempt : Nat, status : RunStatus, retryable : BOOLEAN]
        BY DEF JobsTypeOK, WorkflowTypeOK, WorkflowStage
  <2>5. [stageRun["analysis"] EXCEPT !.status = rs, !.retryable = b]
            \in [attempt : Nat, status : RunStatus, retryable : BOOLEAN]
        BY <2>4
  <2>6. stageRun' = [stageRun EXCEPT !["analysis"] =
                         [stageRun["analysis"] EXCEPT !.status = rs, !.retryable = b]]
        BY <2>3 DEF JobsTypeOK, WorkflowTypeOK, WorkflowStage
  <2> QED BY <2>1, <2>5, <2>6 DEF JobsTypeOK, WorkflowTypeOK
<1> QED BY <1>1, <1>2

LEMMA RowsTyped ==
    ASSUME JobsTypeOK, NEW i \in Item, NEW row \in Row, item' = [item EXCEPT ![i] = row]
    PROVE  item' \in [Item -> Row]
BY DEF JobsTypeOK, Row

\* The memory of a client's request.
Memory == [pc : {"idle", "cancel", "retry", "resolve", "detect", "relock"},
           task : [stage : TaskStage, status : TaskStatus], status : JobStatus,
           cancel : BOOLEAN, completed : Nat, stage : WorkflowStage, attempt : Nat]

LEMMA QuietTyped == Quiet \in Memory
BY DEF Quiet, Memory, AnyTask, JobStatus, TaskStage, TaskStatus, WorkflowStage

LEMMA MemoryTyped ==
    ASSUME JobsTypeOK, NEW c \in Client, NEW q \in Memory, request' = [request EXCEPT ![c] = q]
    PROVE  request' \in [Client -> Memory]
BY DEF JobsTypeOK, Memory

\* What the requests of the workflow leave as it was.
LEMMA WorkflowTyped == TypeInv /\ WorkflowNext => TypeInv'
<1> USE JobsAssumption DEF JobsAssumption, WorkflowAssumption
<1> SUFFICES ASSUME TypeInv, NEW c \in Client,
                    \/ Advance(c) \/ RetryWorkflow(c) \/ FailAfterRollback(c)
                    \/ ReadTask(c) \/ Resolve(c) \/ Detect(c)
             PROVE  TypeInv'
    BY DEF WorkflowNext
<1>1. ASSUME NEW s \in WorkflowStage, AdvanceStage(c, s) PROVE TypeInv'
  <2>1. CASE MatchingStage /\ UNCHANGED <<request, faults>>
        BY <1>1, <2>1, RunTyped
           DEF MatchingStage, AdvanceStage, TypeInv, JobsTypeOK, WorkflowTypeOK, DeskHasItem,
               TaskStage, TaskStatus, RunStatus, WorkflowStage
  <2>2. CASE DifferencesStage /\ UNCHANGED <<request, faults>>
    <3>1. diffs' \subseteq Item
          BY <2>2 DEF DifferencesStage, TypeInv, JobsTypeOK, WorkflowTypeOK
    <3>2. stageRun' \in [WorkflowStage -> [attempt : Nat, status : RunStatus, retryable : BOOLEAN]]
      <4>1. stageRun' = RunOf("differences", "succeeded", FALSE)
            BY <2>2 DEF DifferencesStage
      <4> QED BY <4>1, RunTyped DEF TypeInv, WorkflowStage, RunStatus
    <3>3. task' \in [stage : TaskStage, status : TaskStatus] /\ UNCHANGED <<job, item>>
          BY <2>2 DEF DifferencesStage, TaskStage, TaskStatus
    <3> QED BY <1>1, <2>2, <3>1, <3>2, <3>3
           DEF AdvanceStage, TypeInv, JobsTypeOK, WorkflowTypeOK, DeskHasItem
  <2>3. CASE AnalysisStage /\ UNCHANGED <<request, faults>>
    <3>1. Cardinality(diffs) \in Nat
          BY FS_Subset, FS_CardinalityType DEF TypeInv, JobsTypeOK, WorkflowTypeOK
    <3>2. job' \in Job
      <4>1. ASSUME NEW st \in JobStatus
            PROVE  [NoJob EXCEPT !.total = Cardinality(diffs), !.status = st] \in Job
            BY <3>1 DEF NoJob, Job
      <4>2. job' = job \/ job' = [NoJob EXCEPT !.total = Cardinality(diffs),
                                     !.status = IF diffs = {} THEN "completed" ELSE "queued"]
            BY <2>3 DEF AnalysisStage
      <4> QED BY <4>1, <4>2 DEF TypeInv, JobsTypeOK, JobStatus
    <3>4. item' \in [Item -> Row]
      <4>1. QueuedItem \in Row /\ NoItem \in Row
            BY DEF Row, QueuedItem, NoItem, ItemStatus
      <4>2. item' = item \/ item' = [i \in Item |-> IF i \in diffs THEN QueuedItem ELSE NoItem]
            BY <2>3 DEF AnalysisStage
      <4> QED BY <4>1, <4>2 DEF TypeInv, JobsTypeOK, Row
    <3>3. stageRun' \in [WorkflowStage -> [attempt : Nat, status : RunStatus, retryable : BOOLEAN]]
          BY <2>3, RunTyped DEF AnalysisStage, TypeInv, WorkflowStage, RunStatus
    <3> QED BY <1>1, <2>3, <3>2, <3>3, <3>4
            DEF AnalysisStage, AdvanceStage, TypeInv, JobsTypeOK, WorkflowTypeOK, DeskHasItem,
                TaskStage, TaskStatus, Row
  <2>4. CASE StageFails(s)
    <3>1. stageRun' \in [WorkflowStage -> [attempt : Nat, status : RunStatus, retryable : BOOLEAN]]
          BY <1>1, <2>4, RunTyped DEF StageFails, TypeInv, RunStatus
    <3>2. task' \in [stage : TaskStage, status : TaskStatus]
          BY <2>4 DEF StageFails, TypeInv, JobsTypeOK, WorkflowTypeOK, TaskStatus
    <3>3. UNCHANGED <<diffs, job, item, request, finding, desk, commands>> /\ faults' \in Nat
          BY <1>1, <2>4 DEF StageFails, AdvanceStage, TypeInv, JobsTypeOK, WorkflowTypeOK
    <3> QED BY <3>1, <3>2, <3>3
           DEF TypeInv, JobsTypeOK, WorkflowTypeOK, DeskHasItem
  <2>5. CASE StageAborts(c, s)
    <3>1. stageRun[s].attempt + 1 \in Nat
          BY <1>1 DEF TypeInv, JobsTypeOK, WorkflowTypeOK
    <3>2. request' \in [Client -> Memory]
          BY <1>1, <2>5, <3>1, QuietTyped, MemoryTyped DEF StageAborts, Memory, TypeInv
    <3> QED BY <1>1, <2>5, <3>2
           DEF StageAborts, AdvanceStage, TypeInv, JobsTypeOK, WorkflowTypeOK, DeskHasItem,
               Memory, taskVars
  <2> QED BY <1>1, <2>1, <2>2, <2>3, <2>4, <2>5 DEF AdvanceStage
<1>2. task.stage # "analysis_ready" => StageOf(task.stage) \in WorkflowStage
      BY DEF StageOf, WorkflowStage, TypeInv, JobsTypeOK, WorkflowTypeOK, TaskStage
<1>3. CASE Advance(c)
      BY <1>1, <1>2, <1>3 DEF Advance
<1>4. CASE RetryWorkflow(c)
  <2>1. CASE UNCHANGED <<stageRun, diffs, jobVars, desk, request, boundVars>>
             /\ task' = [task EXCEPT !.status = "ready"]
        BY <2>1 DEF TypeInv, JobsTypeOK, WorkflowTypeOK, DeskHasItem, jobVars, boundVars, TaskStatus
  <2> QED BY <1>1, <1>2, <1>4, <2>1 DEF RetryWorkflow
<1>5. CASE FailAfterRollback(c)
  <2>1. request[c].stage \in WorkflowStage
        BY DEF TypeInv, JobsTypeOK
  <2>2. request' \in [Client -> Memory]
        BY <1>5, QuietTyped, MemoryTyped DEF FailAfterRollback, TypeInv
  <2>3. stageRun' \in [WorkflowStage -> [attempt : Nat, status : RunStatus, retryable : BOOLEAN]]
    <3>1. \/ stageRun' = stageRun
          \/ \E b \in BOOLEAN : stageRun' = RunOf(request[c].stage, "failed", b)
          BY <1>5 DEF FailAfterRollback
    <3>2. stageRun \in [WorkflowStage -> [attempt : Nat, status : RunStatus, retryable : BOOLEAN]]
          BY DEF TypeInv, JobsTypeOK, WorkflowTypeOK
    <3> QED BY <2>1, <3>1, <3>2, RunTyped DEF TypeInv, RunStatus
  <2> QED BY <1>5, <2>2, <2>3
      DEF FailAfterRollback, TypeInv, JobsTypeOK, WorkflowTypeOK, DeskHasItem, jobVars, boundVars,
          Memory, TaskStatus
<1>6. CASE ReadTask(c)
  <2>1. task \in [stage : TaskStage, status : TaskStatus]
        BY DEF TypeInv, JobsTypeOK, WorkflowTypeOK
  <2>2. request' \in [Client -> Memory]
        BY <1>6, <2>1, QuietTyped, MemoryTyped DEF ReadTask, Memory, TypeInv
  <2> QED BY <1>6, <2>2
      DEF ReadTask, TypeInv, JobsTypeOK, WorkflowTypeOK, DeskHasItem, jobVars, taskVars, Memory
<1>7. CASE Resolve(c)
  <2>1. request' \in [Client -> Memory]
        BY <1>7, QuietTyped, MemoryTyped DEF Resolve, TypeInv
  <2> QED BY <1>7, <2>1
      DEF Resolve, TypeInv, JobsTypeOK, WorkflowTypeOK, DeskHasItem, jobVars, boundVars,
          Memory, TaskStage, TaskStatus
<1>8. CASE Detect(c)
  <2>1. request' \in [Client -> Memory]
        BY <1>8, QuietTyped, MemoryTyped DEF Detect, TypeInv
  <2>2. diffs' \subseteq Item
        BY <1>8 DEF Detect, TypeInv, JobsTypeOK, WorkflowTypeOK
  <2>3. task' \in [stage : TaskStage, status : TaskStatus]
        BY <1>8 DEF Detect, Written, TypeInv, JobsTypeOK, WorkflowTypeOK, TaskStage, TaskStatus
  <2> QED BY <1>8, <2>1, <2>2, <2>3
      DEF Detect, TypeInv, JobsTypeOK, WorkflowTypeOK, DeskHasItem, jobVars, boundVars, Memory
<1> QED BY <1>3, <1>4, <1>5, <1>6, <1>7, <1>8

\* The memory of a worker.
Desk == [pc : {"idle", "claim", "analyse", "complete", "read_job", "sync"},
         item : Item \cup {"none"}, seen : JobStatus]

\* What workers leave as it was.
LEMMA WorkTyped ==
    ASSUME TypeInv, NEW w \in Analyst, WorkerStep(w) \/ Crash(w)
    PROVE  TypeInv'
<1> USE JobsAssumption DEF JobsAssumption
<1>0. /\ AtRest \in Desk /\ \A v \in Analyst : desk[v] \in Desk
      /\ \A i \in Item : item[i] \in Row
      BY DEF AtRest, Desk, JobStatus, TypeInv, JobsTypeOK, Row
<1>1. ASSUME NEW d \in Desk, desk' = [desk EXCEPT ![w] = d],
             d.pc \in {"analyse", "complete"} => d.item \in Item
      PROVE  desk' \in [Analyst -> Desk] /\ DeskHasItem'
      BY <1>1 DEF TypeInv, JobsTypeOK, DeskHasItem, Desk
<1>2. CASE Poll(w)
  <2>1. desk' \in [Analyst -> Desk] /\ DeskHasItem'
        BY <1>0, <1>1, <1>2 DEF Poll, Desk
  <2> QED BY <1>2, <2>1 DEF Poll, TypeInv, JobsTypeOK, WorkflowTypeOK, taskVars, jobVars, boundVars, Desk
<1>3. CASE Claim(w)
  <2>1. desk' \in [Analyst -> Desk] /\ DeskHasItem'
        BY <1>0, <1>1, <1>3 DEF Claim, Desk, AtRest
  <2>2. item' \in [Item -> Row]
    <3>1. ASSUME NEW i \in Item
          PROVE  /\ [item[i] EXCEPT !.status = "canceled"] \in Row
                 /\ [status |-> "running", owner |-> w, live |-> TRUE,
                     attempts |-> item[i].attempts + 1] \in Row
          BY <1>0, <3>1 DEF Row, ItemStatus
    <3>2. \/ item' = item
          \/ \E i \in Item : item' = [item EXCEPT ![i] = [item[i] EXCEPT !.status = "canceled"]]
          \/ \E i \in Item : item' = [item EXCEPT ![i] =
                 [status |-> "running", owner |-> w, live |-> TRUE, attempts |-> item[i].attempts + 1]]
          BY <1>3 DEF Claim, TypeInv, JobsTypeOK
    <3> QED BY <3>1, <3>2, RowsTyped DEF TypeInv, JobsTypeOK, Row
  <2>3. job' \in Job
        BY <1>3 DEF Claim, TypeInv, JobsTypeOK, Job, JobStatus
  <2> QED BY <1>3, <2>1, <2>2, <2>3 DEF Claim, TypeInv, JobsTypeOK, WorkflowTypeOK, taskVars, boundVars, Desk, Row
<1>4. CASE Analyse(w)
  <2>1. desk' \in [Analyst -> Desk] /\ DeskHasItem'
        BY <1>0, <1>1, <1>4 DEF Analyse, Desk, TypeInv, DeskHasItem
  <2>2. finding' \in [Item -> Finding]
        BY <1>4 DEF Analyse, Record, TypeInv, JobsTypeOK, Finding
  <2> QED BY <1>4, <2>1, <2>2 DEF Analyse, TypeInv, JobsTypeOK, WorkflowTypeOK, taskVars, boundVars, Desk
<1>5. CASE ScheduleRetry(w)
  <2>1. desk' \in [Analyst -> Desk] /\ DeskHasItem'
        BY <1>0, <1>1, <1>5 DEF ScheduleRetry, AtRest
  <2>2. item' \in [Item -> Row]
    <3> DEFINE i == desk[w].item
    <3>1. i \in Item
          BY <1>5 DEF ScheduleRetry, TypeInv, DeskHasItem
    <3>2. [item[i] EXCEPT !.status = "retry_wait", !.owner = "none", !.live = FALSE] \in Row
          BY <1>0, <3>1 DEF Row, ItemStatus
    <3>3. \/ item' = item
          \/ item' = [item EXCEPT ![i] =
                 [item[i] EXCEPT !.status = "retry_wait", !.owner = "none", !.live = FALSE]]
          BY <1>5, <3>1 DEF ScheduleRetry, TypeInv, JobsTypeOK
    <3> QED BY <3>1, <3>2, <3>3, RowsTyped DEF TypeInv, JobsTypeOK, Row
  <2> QED BY <1>5, <2>1, <2>2 DEF ScheduleRetry, TypeInv, JobsTypeOK, WorkflowTypeOK, taskVars, boundVars, Desk, Row
<1>6. CASE CompleteItem(w)
  <2> DEFINE i == desk[w].item
  <2>0. i \in Item
        BY <1>6 DEF CompleteItem, TypeInv, DeskHasItem
  <2>1. desk' \in [Analyst -> Desk] /\ DeskHasItem'
    <3>1. [desk[w] EXCEPT !.pc = "read_job", !.item = "none"] \in Desk
          BY <1>0 DEF Desk
    <3>2. \/ desk' = [desk EXCEPT ![w] = AtRest]
          \/ desk' = [desk EXCEPT ![w] = [desk[w] EXCEPT !.pc = "read_job", !.item = "none"]]
          BY <1>6 DEF CompleteItem, TypeInv, JobsTypeOK
    <3> QED BY <1>0, <1>1, <3>1, <3>2 DEF Desk, AtRest
  <2>2. item' \in [Item -> Row]
    <3>1. [item[i] EXCEPT !.status = Outcome(i), !.owner = "none", !.live = FALSE] \in Row
          BY <1>0, <2>0 DEF Row, ItemStatus, Outcome, Settled
    <3>2. \/ item' = item
          \/ item' = [item EXCEPT ![i] =
                 [item[i] EXCEPT !.status = Outcome(i), !.owner = "none", !.live = FALSE]]
          BY <1>6, <2>0 DEF CompleteItem, TypeInv, JobsTypeOK
    <3> QED BY <2>0, <3>1, <3>2, RowsTyped DEF TypeInv, JobsTypeOK, Row
  <2>3. job' \in Job
    <3>1. job \in Job
          BY DEF TypeInv, JobsTypeOK
    <3> DEFINE succeeded == IF Outcome(i) = "succeeded" THEN job.succeeded + 1 ELSE job.succeeded
               manual == IF Outcome(i) = "manual_required" THEN job.manual + 1 ELSE job.manual
               st == IF job.completed + 1 >= job.total /\ ~job.cancel /\ job.status # "canceled"
                     THEN "completed" ELSE job.status
    <3>2. succeeded \in Nat /\ manual \in Nat /\ st \in JobStatus /\ job.completed + 1 \in Nat
          BY <3>1 DEF Job, JobStatus
    <3>3. \/ job' = job
          \/ job' = [job EXCEPT !.completed = job.completed + 1, !.succeeded = succeeded,
                                !.manual = manual, !.status = st]
          BY <1>6, <3>1 DEF CompleteItem, Job
    <3> HIDE DEF succeeded, manual, st
    <3> QED BY <3>1, <3>2, <3>3 DEF Job
  <2> QED BY <1>6, <2>1, <2>2, <2>3 DEF CompleteItem, TypeInv, JobsTypeOK, WorkflowTypeOK, taskVars, boundVars, Desk, Row
<1>7. CASE ReadJob(w)
  <2>1. desk' \in [Analyst -> Desk] /\ DeskHasItem'
        BY <1>0, <1>1, <1>7 DEF ReadJob, Desk, TypeInv, JobsTypeOK, Job
  <2> QED BY <1>7, <2>1 DEF ReadJob, TypeInv, JobsTypeOK, WorkflowTypeOK, taskVars, jobVars, boundVars, Desk
<1>8. CASE SyncTask(w)
  <2>1. desk' \in [Analyst -> Desk] /\ DeskHasItem'
        BY <1>0, <1>1, <1>8 DEF SyncTask, AtRest
  <2>2. /\ task' \in [stage : TaskStage, status : TaskStatus]
        /\ stageRun' \in [WorkflowStage -> [attempt : Nat, status : RunStatus, retryable : BOOLEAN]]
        BY <1>8, SyncTyped DEF SyncTask, TypeInv
  <2> QED BY <1>8, <2>1, <2>2 DEF SyncTask, TypeInv, JobsTypeOK, WorkflowTypeOK, jobVars, boundVars, Desk
<1>9. CASE Crash(w)
  <2>1. desk' \in [Analyst -> Desk] /\ DeskHasItem'
        BY <1>0, <1>1, <1>9 DEF Crash, AtRest
  <2> QED BY <1>9, <2>1 DEF Crash, TypeInv, JobsTypeOK, WorkflowTypeOK, taskVars, jobVars, Desk
<1> QED BY <1>2, <1>3, <1>4, <1>5, <1>6, <1>7, <1>8, <1>9 DEF WorkerStep

\* What the commands about the job leave as it was.
LEMMA CommandTyped ==
    ASSUME TypeInv, NEW c \in Client, OpenCommand(c) \/ CancelJob(c) \/ RetryJob(c)
    PROVE  TypeInv'
<1> USE JobsAssumption DEF JobsAssumption
<1>0. request[c] \in Memory
      BY DEF Memory, TypeInv, JobsTypeOK
<1>1. request' \in [Client -> Memory]
  <2>1. ASSUME NEW pc \in {"cancel", "retry"}
        PROVE  [Quiet EXCEPT !.pc = pc, !.status = job.status, !.cancel = job.cancel,
                             !.completed = job.completed] \in Memory
        BY QuietTyped DEF Memory, TypeInv, JobsTypeOK, Job
  <2> QED BY <2>1, QuietTyped, MemoryTyped DEF OpenCommand, CancelJob, RetryJob, TypeInv
<1>2. CASE OpenCommand(c)
      BY <1>1, <1>2 DEF OpenCommand, TypeInv, JobsTypeOK, WorkflowTypeOK, DeskHasItem, taskVars, jobVars, Memory
<1>3. ASSUME NEW st, Sync(st)
      PROVE  /\ task' \in [stage : TaskStage, status : TaskStatus]
             /\ stageRun' \in [WorkflowStage -> [attempt : Nat, status : RunStatus, retryable : BOOLEAN]]
      BY <1>3, SyncTyped DEF TypeInv
<1>4. CASE CancelJob(c)
  <2>1. job' \in Job
        BY <1>0, <1>4 DEF CancelJob, Written, Memory, TypeInv, JobsTypeOK, Job, JobStatus
  <2> QED BY <1>1, <1>3, <1>4, <2>1
          DEF CancelJob, TypeInv, JobsTypeOK, WorkflowTypeOK, DeskHasItem, boundVars, Memory
<1>5. CASE RetryJob(c)
  <2>1. job' \in Job
    <3>1. job \in Job
          BY DEF TypeInv, JobsTypeOK
    <3>2. \/ job' = job
          \/ \E st \in JobStatus, b \in BOOLEAN : job' = [job EXCEPT !.cancel = b, !.status = st]
          BY <1>5, <3>1 DEF RetryJob, Written, Job, JobStatus
    <3> QED BY <3>1, <3>2 DEF Job
  <2>2. item' \in [Item -> Row]
    <3> DEFINE Requeued(i) == [item[i] EXCEPT !.status = "queued", !.owner = "none", !.live = FALSE]
    <3>1. \A i \in Item : item[i] \in Row
          BY DEF TypeInv, JobsTypeOK, Row
    <3>2. \A i \in Item : Requeued(i) \in Row
          BY <3>1 DEF Row, ItemStatus
    <3>3. \/ item' = item
          \/ item' = [i \in Item |-> IF Retryable(i) THEN Requeued(i) ELSE item[i]]
          BY <1>5 DEF RetryJob
    <3> HIDE DEF Requeued
    <3> QED BY <3>1, <3>2, <3>3 DEF TypeInv, JobsTypeOK, Row, Retryable
  <2>3. \E st : Sync(st)
        BY <1>5 DEF RetryJob
  <2> QED BY <1>1, <1>3, <1>5, <2>1, <2>2, <2>3
          DEF RetryJob, TypeInv, JobsTypeOK, WorkflowTypeOK, DeskHasItem, boundVars, Memory, Row
<1> QED BY <1>2, <1>4, <1>5

LEMMA TypeStep == TypeInv /\ [JobsNext]_vars => TypeInv'
<1> SUFFICES ASSUME TypeInv, [JobsNext]_vars PROVE TypeInv'
    OBVIOUS
<1>1. ASSUME NEW i \in Item, Lapse(i) PROVE TypeInv'
  <2>1. item' = [item EXCEPT ![i] = [item[i] EXCEPT !.live = FALSE]]
        BY <1>1 DEF Lapse, TypeInv, JobsTypeOK
  <2>2. [item[i] EXCEPT !.live = FALSE] \in Row
    <3>1. item[i] \in Row
          BY <1>1 DEF TypeInv, JobsTypeOK, Row
    <3> QED BY <3>1 DEF Row
  <2>3. item' \in [Item -> Row]
        BY <1>1, <2>1, <2>2, RowsTyped DEF TypeInv
  <2>4. faults' \in Nat
        BY <1>1, JobsAssumption DEF JobsAssumption, WorkflowAssumption, Lapse, TypeInv, JobsTypeOK,
           WorkflowTypeOK
  <2> QED BY <1>1, <2>3, <2>4
          DEF Lapse, TypeInv, JobsTypeOK, WorkflowTypeOK, DeskHasItem, taskVars, Row
<1>2. CASE UNCHANGED vars
      BY <1>2 DEF vars, TypeInv, JobsTypeOK, WorkflowTypeOK, DeskHasItem
<1> QED BY <1>1, <1>2, WorkflowTyped, WorkTyped, CommandTyped DEF JobsNext

\* Every variable keeps its type.
LEMMA JobsTyped == JobsSpec => []TypeInv
BY InitTyped, TypeStep, PTL DEF JobsSpec

-----------------------------------------------------------------------------
(* The invariant *)

\* A live lease is on an item that is worked on: a retry of a lapsed attempt
\* finds its lease gone, whatever became of the item.
LiveIsRunning == \A i \in Item : item[i].live => item[i].status = "running"

NoItemsYet == job.status = "absent" => \A i \in Item : item[i].status = "absent"

\* Who completes an item has its analysis recorded.
AnalysedIsFound ==
    \A w \in Analyst : desk[w].pc = "complete" => finding[desk[w].item] # "none"

\* Nothing is left to analyse, and nothing can come.
AllSettled ==
    /\ job.status # "absent"
    /\ \A i \in Item : item[i].status \in Settled \cup {"absent"}

\* A client that gives a command about a job.
Commands(c) == request[c].pc \in {"cancel", "retry"}

CountersReadAreOlder ==
    \A c \in Client : Commands(c) =>
        job.status # "absent" /\ request[c].completed <= job.completed

\* Whoever says or has read that the job is completed says the truth.
CompletedIsTrue ==
    /\ job.status = "completed" => AllSettled
    /\ \A w \in Analyst : desk[w].pc = "sync" /\ desk[w].seen = "completed" => AllSettled
    /\ \A c \in Client : Commands(c) /\ request[c].status = "completed" => AllSettled
    /\ task.stage = "analysis_ready" => AllSettled

JobsInv ==
    /\ LiveIsRunning /\ NoItemsYet /\ AnalysedIsFound
    /\ JobsAddUp /\ CountersReadAreOlder /\ CompletedIsTrue

LEMMA JobsInvInit == JobsInit => JobsInv
<1> SUFFICES ASSUME JobsInit PROVE JobsInv
    OBVIOUS
<1>1. \A i \in Item : item[i] = NoItem
      BY DEF JobsInit
<1>2. \A i \in Item : item[i].status = "absent" /\ ~item[i].live
      BY <1>1 DEF NoItem, QueuedItem
<1>3. ItemsIn(Settled) = {} /\ ItemsIn({"succeeded"}) = {} /\ ItemsIn({"manual_required"}) = {}
      /\ ItemsIn(ItemStatus \ {"absent"}) = {}
      BY <1>2 DEF ItemsIn, Settled
<1>4. CountersAddUp
      BY <1>3, FS_EmptySet DEF CountersAddUp, JobsInit, NoJob
<1>5. JobsAddUp
      BY <1>2, <1>4 DEF JobsAddUp, OutcomeMatchesAnalysis, Settled
<1> QED BY <1>2, <1>5
        DEF JobsInv, LiveIsRunning, NoItemsYet, AnalysedIsFound, CountersReadAreOlder, Commands,
            CompletedIsTrue, JobsInit, WorkflowInit, AnyTask, NoJob, AtRest, Quiet

-----------------------------------------------------------------------------
(* What a step does to the items *)

Counters(j) == <<j.total, j.completed, j.succeeded, j.manual>>

\* No outcome and no item comes or goes.
Shuffles ==
    /\ \A i \in Item :
           item[i].status \in Settled \cup {"absent"} \/ item'[i].status \in Settled \cup {"absent"}
           => item'[i].status = item[i].status
    /\ Counters(job') = Counters(job)
    /\ (job'.status = "absent") = (job.status = "absent")

Creates ==
    /\ job.status = "absent" /\ task.stage # "analysis_ready"
    /\ job' = [NoJob EXCEPT !.total = Cardinality(diffs),
                            !.status = IF diffs = {} THEN "completed" ELSE "queued"]
    /\ item' = [i \in Item |-> IF i \in diffs THEN QueuedItem ELSE NoItem]
    /\ task'.stage = task.stage
    /\ UNCHANGED <<diffs, finding, desk, request>>

Settles(w) == CompleteItem(w) /\ Holds(w, desk[w].item)

LEMMA StageMoves ==
    ASSUME TypeInv, NEW c \in Client, NEW s \in WorkflowStage, task.stage # "analysis_ready",
           AdvanceStage(c, s)
    PROVE  UNCHANGED <<job, item>> \/ Creates
<1>1. UNCHANGED <<finding, desk>>
      BY DEF AdvanceStage
<1>2. CASE StageFails(s) \/ StageAborts(c, s)
      BY <1>2 DEF StageFails, StageAborts
<1>3. CASE MatchingStage \/ DifferencesStage
      BY <1>3 DEF MatchingStage, DifferencesStage
<1>4. CASE AnalysisStage /\ UNCHANGED request
  <2>1. task'.stage = task.stage
        BY <1>4 DEF AnalysisStage, TypeInv, JobsTypeOK, WorkflowTypeOK
  <2> QED BY <1>1, <1>4, <2>1 DEF AnalysisStage, Creates
<1> QED BY <1>2, <1>3, <1>4 DEF AdvanceStage

LEMMA WorkflowMoves ==
    ASSUME TypeInv, WorkflowNext
    PROVE  /\ UNCHANGED <<job, item>> \/ Creates
           /\ UNCHANGED <<finding, desk>>
<1>1. PICK c \in Client : \/ Advance(c) \/ RetryWorkflow(c) \/ FailAfterRollback(c)
                          \/ ReadTask(c) \/ Resolve(c) \/ Detect(c)
      BY DEF WorkflowNext
<1>2. task.stage # "analysis_ready" => StageOf(task.stage) \in WorkflowStage
      BY DEF StageOf, WorkflowStage, TypeInv, JobsTypeOK, WorkflowTypeOK, TaskStage
<1>3. CASE Advance(c) \/ RetryWorkflow(c)
  <2>1. CASE task.stage # "analysis_ready" /\ AdvanceStage(c, StageOf(task.stage))
    <3>1. UNCHANGED <<job, item>> \/ Creates
          BY <1>2, <2>1, StageMoves
    <3> QED BY <2>1, <3>1 DEF AdvanceStage
  <2>2. CASE UNCHANGED <<jobVars, desk>>
        BY <2>2 DEF jobVars
  <2> QED BY <1>3, <2>1, <2>2 DEF Advance, RetryWorkflow
<1>4. CASE FailAfterRollback(c) \/ ReadTask(c) \/ Resolve(c) \/ Detect(c)
      BY <1>4 DEF FailAfterRollback, ReadTask, Resolve, Detect, jobVars
<1> QED BY <1>1, <1>3, <1>4

LEMMA ItemsMove ==
    ASSUME TypeInv, LiveIsRunning, CountersReadAreOlder, JobsNext
    PROVE  Shuffles \/ Creates \/ \E w \in Analyst : Settles(w)
<1> USE DEF Settled
<1>0. UNCHANGED <<job, item>> => Shuffles
      BY DEF Shuffles, Counters
<1>1. CASE WorkflowNext
      BY <1>0, <1>1, WorkflowMoves
<1>2. ASSUME NEW w \in Analyst, Claim(w) PROVE Shuffles
  <2>1. CASE UNCHANGED <<item, job>>
        BY <2>1 DEF Shuffles, Counters
  <2>2. CASE ~UNCHANGED <<item, job>>
    <3>1. PICK i \in Item :
              /\ Claimable(i)
              /\ \/ item' = [item EXCEPT ![i].status = "canceled"] /\ job' = job
                 \/ /\ item' = [item EXCEPT ![i] = [status |-> "running", owner |-> w,
                                     live |-> TRUE, attempts |-> @.attempts + 1]]
                    /\ job' = IF job.status = "queued" THEN [job EXCEPT !.status = "running"]
                                                       ELSE job
          BY <1>2, <2>2 DEF Claim
    <3>2. /\ Counters(job') = Counters(job)
          /\ (job'.status = "absent") = (job.status = "absent")
          BY <3>1 DEF Counters, TypeInv, JobsTypeOK, Job
    <3>3. item[i].status \notin Settled \cup {"absent"} /\ item'[i].status \notin Settled \cup {"absent"}
          BY <3>1 DEF Claimable, TypeInv, JobsTypeOK
    <3>4. \A j \in Item \ {i} : item'[j] = item[j]
          BY <3>1 DEF TypeInv, JobsTypeOK
    <3> QED BY <3>2, <3>3, <3>4 DEF Shuffles
  <2> QED BY <2>1, <2>2
<1>3. ASSUME NEW w \in Analyst, ScheduleRetry(w) PROVE Shuffles
  <2> DEFINE i == desk[w].item
  <2>1. i \in Item
        BY <1>3 DEF ScheduleRetry, TypeInv, DeskHasItem
  <2>2. CASE item' = item
        BY <1>3, <2>2 DEF ScheduleRetry, Shuffles, Counters
  <2>3. CASE item' # item
    <3>1. /\ item[i].live
          /\ item' = [item EXCEPT ![i].status = "retry_wait", ![i].owner = "none", ![i].live = FALSE]
          BY <1>3, <2>3 DEF ScheduleRetry
    <3>2. item[i].status = "running" /\ item'[i].status = "retry_wait"
          BY <2>1, <3>1 DEF LiveIsRunning, TypeInv, JobsTypeOK
    <3>3. \A j \in Item \ {i} : item'[j] = item[j]
          BY <3>1 DEF TypeInv, JobsTypeOK
    <3> QED BY <1>3, <3>2, <3>3 DEF ScheduleRetry, Shuffles, Counters
  <2> QED BY <2>2, <2>3
<1>4. ASSUME NEW w \in Analyst, WorkerStep(w) \/ Crash(w)
      PROVE  Shuffles \/ \E v \in Analyst : Settles(v)
  <2>1. CASE CompleteItem(w)
        BY <1>0, <2>1 DEF CompleteItem, Settles
  <2>2. CASE Poll(w) \/ Analyse(w) \/ ReadJob(w) \/ SyncTask(w) \/ Crash(w)
        BY <1>0, <2>2 DEF Poll, Analyse, ReadJob, SyncTask, Crash, jobVars
  <2> QED BY <1>2, <1>3, <1>4, <2>1, <2>2 DEF WorkerStep
<1>5. ASSUME NEW i \in Item, Lapse(i) PROVE Shuffles
  <2>1. \A j \in Item : item'[j].status = item[j].status
        BY <1>5 DEF Lapse, TypeInv, JobsTypeOK
  <2> QED BY <1>5, <2>1 DEF Lapse, Shuffles, Counters
<1>6. ASSUME NEW c \in Client, OpenCommand(c) PROVE Shuffles
      BY <1>0, <1>6 DEF OpenCommand, jobVars
<1>7. ASSUME NEW c \in Client, CancelJob(c) PROVE Shuffles
  <2>1. job.status # "absent"
        BY <1>7 DEF CancelJob, CountersReadAreOlder, Commands
  <2>2. /\ Counters(job') = Counters(job)
        /\ job'.status # "absent"
        BY <1>7, <2>1 DEF CancelJob, Written, Counters, TypeInv, JobsTypeOK, Job
  <2> QED BY <1>7, <2>1, <2>2 DEF CancelJob, Shuffles
<1>8. ASSUME NEW c \in Client, RetryJob(c) PROVE Shuffles
  <2>1. job.status # "absent"
        BY <1>8 DEF RetryJob, CountersReadAreOlder, Commands
  <2>2. CASE UNCHANGED <<job, item>>
        BY <1>0, <2>2
  <2>3. CASE ~UNCHANGED <<job, item>>
    <3>1. /\ Counters(job') = Counters(job)
          /\ job'.status # "absent"
          BY <1>8, <2>1, <2>3 DEF RetryJob, Written, Counters, TypeInv, JobsTypeOK, Job
    <3>2. ASSUME NEW i \in Item
          PROVE  \/ item'[i] = item[i]
                 \/ item[i].status = "canceled" /\ item'[i].status = "queued"
      <4>1. item[i] \in Row
            BY DEF TypeInv, JobsTypeOK, Row
      <4>2. item' = [j \in Item |-> IF j \in {k \in Item : Retryable(k)}
                        THEN [item[j] EXCEPT !.status = "queued", !.owner = "none", !.live = FALSE]
                        ELSE item[j]]
            BY <1>8, <2>3 DEF RetryJob
      <4> QED BY <4>1, <4>2 DEF Row, Retryable
    <3> QED BY <2>1, <3>1, <3>2 DEF Shuffles
  <2> QED BY <2>2, <2>3
<1> QED BY <1>1, <1>4, <1>5, <1>6, <1>7, <1>8 DEF JobsNext

-----------------------------------------------------------------------------
(* What a step does to memories and findings *)

LEMMA FindingsStay ==
    ASSUME TypeInv, JobsNext, NEW i \in Item, finding[i] # "none"
    PROVE  finding'[i] = finding[i]
<1>1. CASE WorkflowNext
      BY <1>1, WorkflowMoves
<1>2. ASSUME NEW w \in Analyst, WorkerStep(w) \/ Crash(w) PROVE finding'[i] = finding[i]
  <2>1. CASE Analyse(w)
        BY <2>1 DEF Analyse, Record, TypeInv, JobsTypeOK
  <2> QED BY <1>2, <2>1 DEF WorkerStep, Poll, Claim, ScheduleRetry, CompleteItem, ReadJob, SyncTask,
                            Crash, jobVars
<1> QED BY <1>1, <1>2 DEF JobsNext, Lapse, OpenCommand, CancelJob, RetryJob, jobVars

\* Where a memory of a worker comes from.
LEMMA DeskStep ==
    ASSUME TypeInv, JobsNext, NEW w \in Analyst
    PROVE  \/ desk'[w] = desk[w]
           \/ desk'[w].pc \notin {"complete", "sync"}
           \/ Analyse(w) /\ desk'[w].pc = "complete" /\ desk'[w].item = desk[w].item
           \/ ReadJob(w) /\ desk'[w].pc = "sync" /\ desk'[w].seen = job.status
<1>1. CASE WorkflowNext
      BY <1>1, WorkflowMoves
<1>2. ASSUME NEW v \in Analyst, v # w, WorkerStep(v) \/ Crash(v) PROVE desk'[w] = desk[w]
      BY <1>2 DEF WorkerStep, Poll, Claim, Analyse, ScheduleRetry, CompleteItem, ReadJob, SyncTask,
                  Crash, TypeInv, JobsTypeOK
<1>3. CASE Poll(w) \/ ScheduleRetry(w) \/ CompleteItem(w) \/ SyncTask(w) \/ Crash(w) \/ Claim(w)
      BY <1>3 DEF Poll, ScheduleRetry, CompleteItem, SyncTask, Crash, Claim, AtRest, TypeInv, JobsTypeOK
<1>4. CASE Analyse(w) \/ ReadJob(w)
      BY <1>4 DEF Analyse, ReadJob, TypeInv, JobsTypeOK
<1> QED BY <1>1, <1>2, <1>3, <1>4
        DEF JobsNext, WorkerStep, Lapse, OpenCommand, CancelJob, RetryJob

\* Where a memory of a client comes from.
LEMMA RequestStep ==
    ASSUME TypeInv, JobsNext, NEW c \in Client
    PROVE  \/ request'[c] = request[c]
           \/ ~Commands(c)'
           \/ /\ job.status # "absent" /\ UNCHANGED jobVars
              /\ request'[c].completed = job.completed /\ request'[c].status = job.status
<1> USE DEF Commands
<1>1. ASSUME NEW d \in Client, OpenCommand(d)
      PROVE  \/ request'[c] = request[c]
             \/ /\ job.status # "absent" /\ UNCHANGED jobVars
                /\ request'[c].completed = job.completed /\ request'[c].status = job.status
      BY <1>1 DEF OpenCommand, Quiet, TypeInv, JobsTypeOK
<1>2. ASSUME NEW d \in Client, CancelJob(d) \/ RetryJob(d)
      PROVE  request'[c] = request[c] \/ ~Commands(c)'
  <2>1. request' = [request EXCEPT ![d] = Quiet]
        BY <1>2 DEF CancelJob, RetryJob
  <2> QED BY <2>1 DEF Quiet, TypeInv, JobsTypeOK
<1>3. ASSUME NEW d \in Client, Resolve(d) \/ Detect(d) \/ FailAfterRollback(d)
      PROVE  request'[c] = request[c] \/ ~Commands(c)'
      BY <1>3 DEF Resolve, Detect, FailAfterRollback, Quiet, TypeInv, JobsTypeOK
<1>4. ASSUME NEW d \in Client, ReadTask(d)
      PROVE  request'[c] = request[c] \/ ~Commands(c)'
      BY <1>4 DEF ReadTask, Quiet, TypeInv, JobsTypeOK
<1>5. ASSUME NEW d \in Client, NEW s, AdvanceStage(d, s)
      PROVE  request'[c] = request[c] \/ ~Commands(c)'
  <2>1. \/ request' = request
        \/ \E q : q.pc = "relock" /\ request' = [request EXCEPT ![d] = q]
    <3>1. CASE StageAborts(d, s)
      <4>1. [Quiet EXCEPT !.pc = "relock", !.stage = s,
                          !.attempt = stageRun[s].attempt + 1].pc = "relock"
            BY DEF Quiet
      <4> QED BY <3>1, <4>1 DEF StageAborts
    <3> QED BY <1>5, <3>1 DEF AdvanceStage, StageFails
  <2> QED BY <2>1 DEF TypeInv, JobsTypeOK
<1>6. ASSUME NEW d \in Client, Advance(d) \/ RetryWorkflow(d)
      PROVE  request'[c] = request[c] \/ ~Commands(c)'
      BY <1>5, <1>6 DEF Advance, RetryWorkflow
<1>7. ASSUME NEW w \in Analyst, WorkerStep(w) \/ Crash(w) PROVE request'[c] = request[c]
      BY <1>7 DEF WorkerStep, Poll, Claim, Analyse, ScheduleRetry, CompleteItem, ReadJob, SyncTask,
                  Crash
<1> QED BY <1>1, <1>2, <1>3, <1>4, <1>6, <1>7 DEF JobsNext, WorkflowNext, Lapse

-----------------------------------------------------------------------------
(* The counters *)

LEMMA ItemsAreFinite == \A S : IsFiniteSet(ItemsIn(S)) /\ ItemsIn(S) \subseteq Item
BY JobsAssumption, FS_Subset DEF JobsAssumption, WorkflowAssumption, ItemsIn

LEMMA LiveStep ==
    ASSUME TypeInv, LiveIsRunning, JobsNext
    PROVE  LiveIsRunning'
<1> USE DEF LiveIsRunning
<1>0. \A i \in Item : item[i] \in Row
      BY DEF TypeInv, JobsTypeOK, Row
<1>1. CASE WorkflowNext
      BY <1>1, WorkflowMoves DEF Creates, QueuedItem, NoItem
<1>2. ASSUME NEW w \in Analyst, Claim(w) PROVE LiveIsRunning'
  <2>1. CASE item' = item
        BY <2>1
  <2>2. ASSUME NEW i \in Item, Claimable(i), item' = [item EXCEPT ![i].status = "canceled"]
        PROVE  LiveIsRunning'
    <3>1. ~item[i].live
          BY <2>2 DEF Claimable
    <3> QED BY <1>0, <2>2, <3>1 DEF TypeInv, JobsTypeOK, Row
  <2>3. ASSUME NEW i \in Item, NEW row, row.status = "running", item' = [item EXCEPT ![i] = row]
        PROVE  LiveIsRunning'
        BY <2>3 DEF TypeInv, JobsTypeOK
  <2> QED BY <1>2, <2>1, <2>2, <2>3 DEF Claim
<1>3. ASSUME NEW w \in Analyst, ScheduleRetry(w) PROVE LiveIsRunning'
      BY <1>0, <1>3 DEF ScheduleRetry, TypeInv, DeskHasItem, JobsTypeOK, Row
<1>4. ASSUME NEW w \in Analyst, CompleteItem(w) PROVE LiveIsRunning'
      BY <1>0, <1>4 DEF CompleteItem, TypeInv, DeskHasItem, JobsTypeOK, Row
<1>5. ASSUME NEW w \in Analyst, Poll(w) \/ Analyse(w) \/ ReadJob(w) \/ SyncTask(w) \/ Crash(w)
      PROVE  LiveIsRunning'
      BY <1>5 DEF Poll, Analyse, ReadJob, SyncTask, Crash, jobVars
<1>6. ASSUME NEW i \in Item, Lapse(i) PROVE LiveIsRunning'
      BY <1>0, <1>6 DEF Lapse, TypeInv, JobsTypeOK, Row
<1>7. ASSUME NEW c \in Client, OpenCommand(c) \/ CancelJob(c) PROVE LiveIsRunning'
      BY <1>7 DEF OpenCommand, CancelJob, jobVars
<1>8. ASSUME NEW c \in Client, RetryJob(c) PROVE LiveIsRunning'
  <2> DEFINE Requeued(i) == [item[i] EXCEPT !.status = "queued", !.owner = "none", !.live = FALSE]
  <2>1. \A i \in Item : ~Requeued(i).live
        BY <1>0 DEF Row
  <2>2. \/ item' = item
        \/ item' = [i \in Item |-> IF i \in {j \in Item : Retryable(j)}
                                   THEN Requeued(i) ELSE item[i]]
        BY <1>8 DEF RetryJob
  <2> HIDE DEF Requeued
  <2> QED BY <2>1, <2>2
<1> QED BY <1>1, <1>2, <1>3, <1>4, <1>5, <1>6, <1>7, <1>8 DEF JobsNext, WorkerStep

\* What a completion writes.
LEMMA SettlesWrites ==
    ASSUME TypeInv, NEW w \in Analyst, Settles(w)
    PROVE  LET i == desk[w].item IN
           /\ i \in Item /\ item[i].status = "running" /\ item'[i].status = Outcome(i)
           /\ ~item'[i].live
           /\ \A j \in Item \ {i} : item'[j] = item[j]
           /\ job'.total = job.total /\ job'.completed = job.completed + 1
           /\ job'.succeeded = IF Outcome(i) = "succeeded" THEN job.succeeded + 1 ELSE job.succeeded
           /\ job'.manual = IF Outcome(i) = "manual_required" THEN job.manual + 1 ELSE job.manual
           /\ job'.status \in {job.status, "completed"}
           /\ job'.status = "completed" => job.status = "completed" \/ job'.completed >= job.total
           /\ UNCHANGED <<task, finding, request>>
<1> DEFINE i == desk[w].item
<1>1. i \in Item /\ item[i].status = "running"
      BY DEF Settles, CompleteItem, Holds, TypeInv, DeskHasItem
<1>2. /\ item' = [item EXCEPT ![i].status = Outcome(i), ![i].owner = "none", ![i].live = FALSE]
      /\ job' = [job EXCEPT
            !.completed = job.completed + 1,
            !.succeeded = IF Outcome(i) = "succeeded" THEN @ + 1 ELSE @,
            !.manual = IF Outcome(i) = "manual_required" THEN @ + 1 ELSE @,
            !.status = IF job.completed + 1 >= job.total /\ ~job.cancel /\ @ # "canceled"
                         THEN "completed" ELSE @]
      /\ UNCHANGED <<task, finding, request>>
      BY DEF Settles, CompleteItem, taskVars
<1>3. item'[i].status = Outcome(i) /\ ~item'[i].live /\ \A j \in Item \ {i} : item'[j] = item[j]
  <2>1. item[i] \in Row
        BY <1>1 DEF TypeInv, JobsTypeOK, Row
  <2> QED BY <1>1, <1>2, <2>1 DEF TypeInv, JobsTypeOK, Row
<1>4. job \in Job
      BY DEF TypeInv, JobsTypeOK
<1>5. /\ job'.total = job.total /\ job'.completed = job.completed + 1
      /\ job'.succeeded = IF Outcome(i) = "succeeded" THEN job.succeeded + 1 ELSE job.succeeded
      /\ job'.manual = IF Outcome(i) = "manual_required" THEN job.manual + 1 ELSE job.manual
      /\ job'.status = IF job.completed + 1 >= job.total /\ ~job.cancel /\ job.status # "canceled"
                         THEN "completed" ELSE job.status
      BY <1>2, <1>4 DEF Job
<1> QED BY <1>1, <1>2, <1>3, <1>5

\* A set of outcomes gains the completed item, or stays.
LEMMA OneMore ==
    ASSUME TypeInv, NEW w \in Analyst, Settles(w), NEW S, "running" \notin S
    PROVE  LET i == desk[w].item IN
           Cardinality(ItemsIn(S)') =
               IF Outcome(i) \in S THEN Cardinality(ItemsIn(S)) + 1 ELSE Cardinality(ItemsIn(S))
<1> DEFINE i == desk[w].item
<1>1. i \in Item /\ item[i].status = "running" /\ item'[i].status = Outcome(i)
      /\ \A j \in Item \ {i} : item'[j] = item[j]
      BY SettlesWrites
<1>2. i \notin ItemsIn(S)
      BY <1>1 DEF ItemsIn
<1>3. ItemsIn(S)' = IF Outcome(i) \in S THEN ItemsIn(S) \cup {i} ELSE ItemsIn(S)
      BY <1>1, <1>2 DEF ItemsIn
<1>4. IsFiniteSet(ItemsIn(S))
      BY ItemsAreFinite
<1> QED BY <1>2, <1>3, <1>4, FS_AddElement

LEMMA CountersStep ==
    ASSUME TypeInv, LiveIsRunning, NoItemsYet, CountersReadAreOlder, CountersAddUp, JobsNext
    PROVE  CountersAddUp' /\ NoItemsYet'
<1> USE DEF Settled
<1>1. CASE Shuffles
  <2>1. /\ ItemsIn(Settled)' = ItemsIn(Settled)
        /\ ItemsIn({"succeeded"})' = ItemsIn({"succeeded"})
        /\ ItemsIn({"manual_required"})' = ItemsIn({"manual_required"})
        BY <1>1 DEF ItemsIn, Shuffles
  <2>2. ItemsIn(ItemStatus \ {"absent"})' = ItemsIn(ItemStatus \ {"absent"})
    <3>1. \A i \in Item : item[i].status \in ItemStatus /\ item'[i].status \in ItemStatus
          BY TypeStep DEF TypeInv, JobsTypeOK
    <3> QED BY <1>1, <3>1 DEF ItemsIn, Shuffles
  <2>3. NoItemsYet'
        BY <1>1 DEF Shuffles, NoItemsYet
  <2> QED BY <1>1, <2>1, <2>2, <2>3 DEF CountersAddUp, Shuffles, Counters
<1>2. CASE Creates
  <2>1. \A i \in Item : item'[i].status = IF i \in diffs THEN "queued" ELSE "absent"
        BY <1>2 DEF Creates, QueuedItem, NoItem
  <2>2. diffs \subseteq Item
        BY DEF TypeInv, JobsTypeOK, WorkflowTypeOK
  <2>3. ItemsIn(Settled)' = {} /\ ItemsIn({"succeeded"})' = {} /\ ItemsIn({"manual_required"})' = {}
        /\ ItemsIn(ItemStatus \ {"absent"})' = diffs
        BY <2>1, <2>2 DEF ItemsIn, ItemStatus
  <2>4. /\ job'.total = Cardinality(diffs) /\ job'.completed = 0 /\ job'.succeeded = 0
        /\ job'.manual = 0 /\ job'.status # "absent"
        BY <1>2 DEF Creates, NoJob
  <2> QED BY <2>3, <2>4, FS_EmptySet DEF CountersAddUp, NoItemsYet
<1>3. ASSUME NEW w \in Analyst, Settles(w) PROVE CountersAddUp' /\ NoItemsYet'
  <2> DEFINE i == desk[w].item
  <2>1. Outcome(i) \in {"succeeded", "manual_required"}
        BY DEF Outcome
  <2>2. /\ Cardinality(ItemsIn(Settled)') = Cardinality(ItemsIn(Settled)) + 1
        /\ Cardinality(ItemsIn({"succeeded"})') =
               IF Outcome(i) = "succeeded" THEN Cardinality(ItemsIn({"succeeded"})) + 1
                                           ELSE Cardinality(ItemsIn({"succeeded"}))
        /\ Cardinality(ItemsIn({"manual_required"})') =
               IF Outcome(i) = "manual_required" THEN Cardinality(ItemsIn({"manual_required"})) + 1
                                                 ELSE Cardinality(ItemsIn({"manual_required"}))
        BY <1>3, <2>1, OneMore
  <2>3. ItemsIn(ItemStatus \ {"absent"})' = ItemsIn(ItemStatus \ {"absent"})
        BY <1>3, <2>1, SettlesWrites DEF ItemsIn, ItemStatus
  <2>4. job.status # "absent"
        BY <1>3, SettlesWrites DEF NoItemsYet
  <2>5. job'.status # "absent"
        BY <1>3, <2>4, SettlesWrites
  <2> QED BY <1>3, <2>2, <2>3, <2>5, SettlesWrites DEF CountersAddUp, NoItemsYet
<1> QED BY <1>1, <1>2, <1>3, ItemsMove

LEMMA OutcomesStep ==
    ASSUME TypeInv, LiveIsRunning, NoItemsYet, CountersReadAreOlder, AnalysedIsFound,
           OutcomeMatchesAnalysis, JobsNext
    PROVE  OutcomeMatchesAnalysis' /\ AnalysedIsFound'
<1> USE DEF Settled
<1>1. AnalysedIsFound'
  <2> SUFFICES ASSUME NEW w \in Analyst, desk'[w].pc = "complete"
               PROVE  finding'[desk'[w].item] # "none"
      BY DEF AnalysedIsFound
  <2>1. CASE desk'[w] = desk[w]
    <3>1. desk[w].item \in Item /\ finding[desk[w].item] # "none"
          BY <2>1 DEF AnalysedIsFound, TypeInv, DeskHasItem
    <3> QED BY <2>1, <3>1, FindingsStay
  <2>2. CASE Analyse(w) /\ desk'[w].item = desk[w].item
    <3>1. desk[w].item \in Item
          BY <2>2 DEF Analyse, TypeInv, DeskHasItem
    <3> QED BY <2>2, <3>1 DEF Analyse, Record, TypeInv, JobsTypeOK
  <2> QED BY <2>1, <2>2, DeskStep
<1>2. OutcomeMatchesAnalysis'
  <2> SUFFICES ASSUME NEW i \in Item, item'[i].status \in Settled
               PROVE  /\ finding'[i] # "none"
                      /\ (item'[i].status = "succeeded") = (finding'[i] = "auto")
      BY DEF OutcomeMatchesAnalysis
  <2>1. CASE item[i].status \in Settled /\ item'[i].status = item[i].status
    <3>1. finding'[i] = finding[i]
          BY <2>1, FindingsStay DEF OutcomeMatchesAnalysis
    <3> QED BY <2>1, <3>1 DEF OutcomeMatchesAnalysis
  <2>2. CASE Shuffles
        BY <2>1, <2>2 DEF Shuffles
  <2>3. CASE Creates
        BY <2>3 DEF Creates, QueuedItem, NoItem
  <2>4. ASSUME NEW w \in Analyst, Settles(w)
        PROVE  /\ finding'[i] # "none"
               /\ (item'[i].status = "succeeded") = (finding'[i] = "auto")
    <3>1. CASE i # desk[w].item
          BY <2>1, <2>4, <3>1, SettlesWrites
    <3>2. CASE i = desk[w].item
      <4>1. finding[i] # "none"
            BY <2>4, <3>2 DEF Settles, CompleteItem, AnalysedIsFound
      <4> QED BY <2>4, <3>2, <4>1, SettlesWrites DEF Outcome
    <3> QED BY <3>1, <3>2
  <2> QED BY <2>2, <2>3, <2>4, ItemsMove
<1> QED BY <1>1, <1>2

-----------------------------------------------------------------------------
(* Completed stays true *)

LEMMA SettledStays ==
    ASSUME TypeInv, LiveIsRunning, CountersReadAreOlder, JobsNext, AllSettled
    PROVE  AllSettled'
<1> USE DEF AllSettled, Settled
<1>1. CASE Shuffles
      BY <1>1 DEF Shuffles
<1>2. CASE Creates
      BY <1>2 DEF Creates
<1>3. ASSUME NEW w \in Analyst, Settles(w) PROVE FALSE
      BY <1>3, SettlesWrites
<1> QED BY <1>1, <1>2, <1>3, ItemsMove

\* When the counter has reached the total, every item has its outcome.
LEMMA AllCounted ==
    TypeInv /\ CountersAddUp /\ job.status # "absent" /\ job.completed >= job.total => AllSettled
<1> SUFFICES ASSUME TypeInv, CountersAddUp, job.status # "absent", job.completed >= job.total
             PROVE  AllSettled
    OBVIOUS
<1> DEFINE Present == ItemsIn(ItemStatus \ {"absent"})
<1>1. IsFiniteSet(Present) /\ IsFiniteSet(ItemsIn(Settled))
      BY ItemsAreFinite
<1>2. ItemsIn(Settled) \subseteq Present
      BY DEF ItemsIn, Settled, ItemStatus
<1>3. Cardinality(ItemsIn(Settled)) >= Cardinality(Present)
      BY DEF CountersAddUp
<1>4. ItemsIn(Settled) = Present
  <2>1. Cardinality(ItemsIn(Settled)) \in Nat /\ Cardinality(Present) \in Nat
        BY <1>1, FS_CardinalityType
  <2>2. Cardinality(ItemsIn(Settled)) <= Cardinality(Present)
        BY <1>1, <1>2, FS_Subset
  <2>3. Cardinality(ItemsIn(Settled)) = Cardinality(Present)
        BY <1>3, <2>1, <2>2
  <2> QED BY <1>1, <1>2, <2>3, FS_Subset
<1>5. \A i \in Item : item[i].status \in ItemStatus
      BY DEF TypeInv, JobsTypeOK
<1> QED BY <1>4, <1>5 DEF AllSettled, ItemsIn

\* The job becomes completed when its items are settled.
LEMMA CompletedStep ==
    ASSUME TypeInv, JobsInv, JobsNext, job'.status = "completed"
    PROVE  AllSettled'
<1> USE DEF JobsInv
<1>1. CASE AllSettled
      BY <1>1, SettledStays
<1>2. CASE ~AllSettled
  <2>1. job.status # "completed" /\ ~(job.status # "absent" /\ job.completed >= job.total)
        BY <1>2, AllCounted DEF CompletedIsTrue, JobsAddUp
  <2>2. CASE Creates
    <3>1. diffs = {} /\ \A i \in Item : item'[i].status = "absent"
          BY <2>2 DEF Creates, NoJob, QueuedItem, NoItem
    <3> QED BY <3>1 DEF AllSettled
  <2>3. ASSUME NEW w \in Analyst, Settles(w) PROVE AllSettled'
    <3>1. job'.completed >= job'.total
          BY <2>1, <2>3, SettlesWrites
    <3>2. TypeInv' /\ CountersAddUp'
          BY TypeStep, CountersStep DEF JobsAddUp
    <3>3. (TypeInv /\ CountersAddUp /\ job.status # "absent" /\ job.completed >= job.total)'
              => AllSettled'
          BY AllCounted, PTL
    <3> QED BY <3>1, <3>2, <3>3
  <2>4. ASSUME NEW c \in Client, CancelJob(c) PROVE FALSE
    <3>1. job'.status \in {job.status, "canceled"} \/ request[c].status = "completed"
          BY <2>4 DEF CancelJob, Written, TypeInv, JobsTypeOK, Job
    <3> QED BY <1>2, <2>1, <2>4, <3>1 DEF CancelJob, Commands, CompletedIsTrue
  <2>5. ASSUME NEW c \in Client, RetryJob(c) PROVE FALSE
    <3>1. request[c].completed <= job.completed /\ job.status # "absent"
          BY <2>5 DEF RetryJob, Commands, CountersReadAreOlder
    <3>2. /\ job.completed \in Nat /\ job.total \in Nat /\ request[c].completed \in Nat
          BY DEF TypeInv, JobsTypeOK, Job
    <3>3. ~(request[c].completed >= job.total)
          BY <2>1, <3>1, <3>2
    <3>4. job'.status # "completed"
          BY <2>1, <2>5, <3>2, <3>3 DEF RetryJob, Written, TypeInv, JobsTypeOK, Job
    <3> QED BY <3>4
  <2>6. ASSUME NEW w \in Analyst, WorkerStep(w) \/ Crash(w), ~Settles(w) PROVE FALSE
        BY <2>1, <2>6 DEF WorkerStep, Poll, Claim, Analyse, ScheduleRetry, CompleteItem, Settles,
                          ReadJob, SyncTask, Crash, jobVars, TypeInv, JobsTypeOK, Job
  <2>7. CASE WorkflowNext
        BY <2>1, <2>2, <2>7, WorkflowMoves
  <2> QED BY <2>1, <2>3, <2>4, <2>5, <2>6, <2>7 DEF JobsNext, OpenCommand, Lapse, jobVars
<1> QED BY <1>1, <1>2

\* Only a completed job makes the analysis of its task ready.
LEMMA SyncReady ==
    ASSUME TypeInv, NEW st, Sync(st), task'.stage = "analysis_ready"
    PROVE  st = "completed" \/ task.stage = "analysis_ready"
BY DEF Sync

LEMMA ReadyStep ==
    ASSUME TypeInv, JobsInv, JobsNext, task'.stage = "analysis_ready"
    PROVE  AllSettled'
<1> USE DEF JobsInv
<1>1. CASE AllSettled
      BY <1>1, SettledStays
<1>2. CASE ~AllSettled
  <2>1. task.stage # "analysis_ready"
        BY <1>2 DEF CompletedIsTrue
  <2>2. ASSUME NEW w \in Analyst, SyncTask(w) PROVE FALSE
    <3>1. desk[w].seen = "completed"
          BY <2>1, <2>2, SyncReady DEF SyncTask
    <3> QED BY <1>2, <2>2, <3>1 DEF SyncTask, CompletedIsTrue
  <2>3. ASSUME NEW c \in Client, CancelJob(c) PROVE FALSE
    <3>1. request[c].status = "completed"
          BY <2>1, <2>3, SyncReady DEF CancelJob
    <3> QED BY <1>2, <2>3, <3>1 DEF CancelJob, Commands, CompletedIsTrue
  <2>4. ASSUME NEW c \in Client, RetryJob(c) PROVE FALSE
    <3>1. request[c].status # "completed"
          BY <1>2, <2>4 DEF RetryJob, Commands, CompletedIsTrue
    <3>2. request[c].completed <= job.completed /\ job.status # "absent"
          BY <2>4 DEF RetryJob, Commands, CountersReadAreOlder
    <3>3. /\ job.completed \in Nat /\ job.total \in Nat /\ request[c].completed \in Nat
          BY DEF TypeInv, JobsTypeOK, Job
    <3>4. ~(request[c].completed >= job.total)
          BY <1>2, <3>2, <3>3, AllCounted DEF JobsAddUp
    <3>5. \E st : st # "completed" /\ Sync(st)
      <4> DEFINE known == CASE request[c].completed >= job.total -> "completed"
                            [] request[c].completed \in 1..(job.total - 1) -> "running"
                            [] OTHER -> "queued"
      <4>1. known # "completed"
            BY <3>4
      <4>2. Sync(request[c].status) \/ Sync(known)
            BY <2>4 DEF RetryJob
      <4> QED BY <3>1, <4>1, <4>2
    <3> QED BY <2>1, <3>5, SyncReady
  <2>5. ASSUME NEW w \in Analyst, WorkerStep(w) \/ Crash(w), ~SyncTask(w) PROVE FALSE
        BY <2>1, <2>5 DEF WorkerStep, Poll, Claim, Analyse, ScheduleRetry, CompleteItem,
                          ReadJob, Crash, taskVars
  <2>6. ASSUME NEW c \in Client, NEW s \in WorkflowStage, AdvanceStage(c, s) PROVE FALSE
    <3>1. CASE MatchingStage
          BY <2>6, <3>1 DEF MatchingStage
    <3>2. CASE DifferencesStage
          BY <2>6, <3>2 DEF DifferencesStage
    <3>3. CASE AnalysisStage \/ StageFails(s)
          BY <2>1, <2>6, <3>3 DEF AnalysisStage, StageFails, TypeInv, JobsTypeOK, WorkflowTypeOK
    <3>4. CASE StageAborts(c, s)
          BY <2>1, <2>6, <3>4 DEF StageAborts, taskVars
    <3> QED BY <2>6, <3>1, <3>2, <3>3, <3>4 DEF AdvanceStage
  <2>7. task.stage # "analysis_ready" => StageOf(task.stage) \in WorkflowStage
        BY DEF StageOf, WorkflowStage, TypeInv, JobsTypeOK, WorkflowTypeOK, TaskStage
  <2>8. ASSUME NEW c \in Client, Advance(c) \/ RetryWorkflow(c) PROVE FALSE
        BY <2>1, <2>6, <2>7, <2>8 DEF Advance, RetryWorkflow, TypeInv, JobsTypeOK, WorkflowTypeOK
  <2>9. ASSUME NEW c \in Client, FailAfterRollback(c) \/ ReadTask(c) \/ Resolve(c) \/ Detect(c)
        PROVE  FALSE
        BY <2>1, <2>9 DEF FailAfterRollback, ReadTask, Resolve, Detect, Written, taskVars,
                          TypeInv, JobsTypeOK, WorkflowTypeOK
  <2> QED BY <2>1, <2>2, <2>3, <2>4, <2>5, <2>8, <2>9
          DEF JobsNext, WorkflowNext, Lapse, OpenCommand, taskVars
<1> QED BY <1>1, <1>2

LEMMA JobsInvStep == TypeInv /\ JobsInv /\ [JobsNext]_vars => JobsInv'
<1> SUFFICES ASSUME TypeInv, JobsInv, [JobsNext]_vars PROVE JobsInv'
    OBVIOUS
<1>1. CASE UNCHANGED vars
      BY <1>1 DEF vars, JobsInv, LiveIsRunning, NoItemsYet, AnalysedIsFound, JobsAddUp, CountersAddUp,
         OutcomeMatchesAnalysis, ItemsIn, CountersReadAreOlder, Commands, CompletedIsTrue, AllSettled
<1>2. CASE JobsNext
  <2>1. LiveIsRunning' /\ NoItemsYet' /\ AnalysedIsFound' /\ JobsAddUp'
        BY <1>2, LiveStep, CountersStep, OutcomesStep DEF JobsInv, JobsAddUp
  <2>2. /\ job.status # "absent" => job'.status # "absent"
        /\ job.status # "absent" => job'.completed \in Nat /\ job'.completed >= job.completed
    <3>1. job.completed \in Nat
          BY DEF TypeInv, JobsTypeOK, Job
    <3>2. CASE Shuffles
          BY <3>1, <3>2 DEF Shuffles, Counters
    <3>3. CASE Creates
          BY <3>3 DEF Creates
    <3>4. ASSUME NEW w \in Analyst, Settles(w)
          PROVE  /\ job.status # "absent" => job'.status # "absent"
                 /\ job'.completed \in Nat /\ job'.completed >= job.completed
          BY <3>1, <3>4, SettlesWrites
    <3> QED BY <1>2, <3>2, <3>3, <3>4, ItemsMove DEF JobsInv
  <2>3. CountersReadAreOlder'
    <3> SUFFICES ASSUME NEW c \in Client, Commands(c)'
                 PROVE  job'.status # "absent" /\ request'[c].completed <= job'.completed
        BY DEF CountersReadAreOlder
    <3>1. CASE request'[c] = request[c]
      <4>1. job.status # "absent" /\ request[c].completed <= job.completed
            BY <3>1 DEF JobsInv, CountersReadAreOlder, Commands
      <4>2. request[c].completed \in Nat /\ job.completed \in Nat
            BY DEF TypeInv, JobsTypeOK, Job
      <4> QED BY <2>2, <3>1, <4>1, <4>2
    <3>2. CASE job.status # "absent" /\ UNCHANGED jobVars /\ request'[c].completed = job.completed
          BY <3>2 DEF jobVars, TypeInv, JobsTypeOK, Job
    <3> QED BY <1>2, <3>1, <3>2, RequestStep
  <2>4. AllSettled => AllSettled'
        BY <1>2, SettledStays DEF JobsInv
  <2>5. job'.status = "completed" => AllSettled'
        BY <1>2, CompletedStep
  <2>6. task'.stage = "analysis_ready" => AllSettled'
        BY <1>2, ReadyStep
  <2>7. ASSUME NEW w \in Analyst, desk'[w].pc = "sync", desk'[w].seen = "completed" PROVE AllSettled'
    <3>1. CASE desk'[w] = desk[w]
          BY <2>4, <2>7, <3>1 DEF JobsInv, CompletedIsTrue
    <3>2. CASE desk'[w].seen = job.status
          BY <2>4, <2>7, <3>2 DEF JobsInv, CompletedIsTrue
    <3> QED BY <1>2, <2>7, <3>1, <3>2, DeskStep
  <2>8. ASSUME NEW c \in Client, Commands(c)', request'[c].status = "completed" PROVE AllSettled'
    <3>1. CASE request'[c] = request[c]
          BY <2>4, <2>8, <3>1 DEF JobsInv, CompletedIsTrue, Commands
    <3>2. CASE request'[c].status = job.status
          BY <2>4, <2>8, <3>2 DEF JobsInv, CompletedIsTrue
    <3> QED BY <1>2, <2>8, <3>1, <3>2, RequestStep
  <2>9. CompletedIsTrue'
        BY <2>5, <2>6, <2>7, <2>8 DEF CompletedIsTrue
  <2> QED BY <2>1, <2>3, <2>9 DEF JobsInv
<1> QED BY <1>1, <1>2

LEMMA JobsAreSafe == JobsSpec => [](TypeInv /\ JobsInv)
BY JobsInvInit, JobsInvStep, JobsTyped, PTL DEF JobsSpec

-----------------------------------------------------------------------------
(* Stages that succeeded *)

\* A request that lost its stage to an error of the database records it later:
\* another request has started the stage since, or it has not succeeded.
LostStagesAreOlder ==
    \A c \in Client :
        LET r == request[c] IN
        r.pc = "relock" /\ r.stage \in {"matching", "differences"} =>
            \/ stageRun[r.stage].attempt >= r.attempt
            \/ /\ stageRun[r.stage].status # "succeeded"
               /\ stageRun[r.stage].attempt + 1 >= r.attempt

\* A stage before the analysis stays, or is run once more.
Restarted(s) ==
    \/ stageRun'[s] = stageRun[s]
    \/ /\ stageRun[s].status # "succeeded"
       /\ stageRun'[s].attempt = stageRun[s].attempt + 1

LEMMA RunWrites ==
    ASSUME JobsTypeOK, NEW t \in WorkflowStage, NEW s \in WorkflowStage, NEW st, NEW b,
           stageRun' = RunOf(t, st, b)
    PROVE  IF s = t THEN stageRun'[s] = [attempt |-> stageRun[s].attempt + 1, status |-> st,
                                         retryable |-> b]
                    ELSE stageRun'[s] = stageRun[s]
BY DEF RunOf, JobsTypeOK, WorkflowTypeOK

LEMMA SyncWrites ==
    ASSUME JobsTypeOK, NEW st, Sync(st), NEW s \in {"matching", "differences"}
    PROVE  stageRun'[s] = stageRun[s]
BY DEF Sync, JobsTypeOK, WorkflowTypeOK, WorkflowStage

\* What starting a stage writes of the stages.
LEMMA StageWrites ==
    ASSUME JobsTypeOK, NEW c \in Client, NEW s \in WorkflowStage, AdvanceStage(c, s)
    PROVE  \/ /\ UNCHANGED request
              /\ \E st \in RunStatus, b \in BOOLEAN : stageRun' = RunOf(s, st, b)
           \/ /\ UNCHANGED stageRun
              /\ request' = [request EXCEPT ![c] = [Quiet EXCEPT
                                 !.pc = "relock", !.stage = s, !.attempt = stageRun[s].attempt + 1]]
<1>1. CASE StageAborts(c, s)
      BY <1>1 DEF StageAborts, taskVars
<1>2. CASE StageFails(s)
      BY <1>2 DEF StageFails, RunStatus
<1>3. CASE /\ UNCHANGED request
           /\ \/ s = "matching" /\ MatchingStage
              \/ s = "differences" /\ DifferencesStage
              \/ s = "analysis" /\ AnalysisStage
      BY <1>3 DEF MatchingStage, DifferencesStage, AnalysisStage, RunStatus
<1> QED BY <1>1, <1>2, <1>3 DEF AdvanceStage

LEMMA StagesStep ==
    ASSUME TypeInv, LostStagesAreOlder, JobsNext, NEW s \in {"matching", "differences"}
    PROVE  Restarted(s)
<1> USE DEF Restarted
<1>0. s \in WorkflowStage
      BY DEF WorkflowStage
<1>1. ASSUME NEW c \in Client, NEW t \in WorkflowStage, AdvanceStage(c, t) PROVE Restarted(s)
  <2>1. stageRun[t].status # "succeeded"
        BY <1>1 DEF AdvanceStage, MayStart
  <2>2. ASSUME NEW st \in RunStatus, NEW b \in BOOLEAN, stageRun' = RunOf(t, st, b)
        PROVE  Restarted(s)
    <3>1. IF s = t THEN stageRun'[s] = [attempt |-> stageRun[s].attempt + 1, status |-> st,
                                        retryable |-> b]
                   ELSE stageRun'[s] = stageRun[s]
          BY <1>0, <2>2, RunWrites DEF TypeInv
    <3> QED BY <2>1, <3>1
  <2> QED BY <1>1, <2>2, StageWrites DEF TypeInv
<1>2. task.stage # "analysis_ready" => StageOf(task.stage) \in WorkflowStage
      BY DEF StageOf, WorkflowStage, TypeInv, JobsTypeOK, WorkflowTypeOK, TaskStage
<1>3. ASSUME NEW c \in Client, Advance(c) \/ RetryWorkflow(c) PROVE Restarted(s)
      BY <1>1, <1>2, <1>3 DEF Advance, RetryWorkflow
<1>4. ASSUME NEW c \in Client, FailAfterRollback(c) PROVE Restarted(s)
  <2> DEFINE r == request[c]
  <2>1. r.stage \in WorkflowStage /\ r.attempt \in Nat /\ stageRun[r.stage].attempt \in Nat
        BY DEF TypeInv, JobsTypeOK, WorkflowTypeOK
  <2>2. CASE stageRun[r.stage].attempt >= r.attempt
        BY <1>4, <2>2 DEF FailAfterRollback
  <2>3. CASE ~(stageRun[r.stage].attempt >= r.attempt)
    <3>1. PICK b \in BOOLEAN : stageRun' = RunOf(r.stage, "failed", b)
          BY <1>4, <2>3 DEF FailAfterRollback
    <3>2. s = r.stage => stageRun[s].status # "succeeded"
          BY <1>4, <2>3 DEF FailAfterRollback, LostStagesAreOlder
    <3>3. IF s = r.stage
          THEN stageRun'[s] = [attempt |-> stageRun[s].attempt + 1, status |-> "failed",
                               retryable |-> b]
          ELSE stageRun'[s] = stageRun[s]
          BY <1>0, <2>1, <3>1, RunWrites DEF TypeInv
    <3> QED BY <3>2, <3>3
  <2> QED BY <2>2, <2>3
<1>5. ASSUME NEW st, Sync(st) PROVE Restarted(s)
      BY <1>5, SyncWrites DEF TypeInv
<1>6. ASSUME NEW w \in Analyst, WorkerStep(w) \/ Crash(w) PROVE Restarted(s)
      BY <1>5, <1>6 DEF WorkerStep, Poll, Claim, Analyse, ScheduleRetry, CompleteItem, ReadJob,
                        SyncTask, Crash, taskVars
<1>7. ASSUME NEW c \in Client, CancelJob(c) \/ RetryJob(c) PROVE Restarted(s)
      BY <1>5, <1>7 DEF CancelJob, RetryJob
<1> QED BY <1>3, <1>4, <1>6, <1>7
        DEF JobsNext, WorkflowNext, ReadTask, Resolve, Detect, Lapse, OpenCommand, taskVars

LEMMA LostStagesStep ==
    TypeInv /\ LostStagesAreOlder /\ [JobsNext]_vars => LostStagesAreOlder'
<1> SUFFICES ASSUME TypeInv, LostStagesAreOlder, [JobsNext]_vars, NEW c \in Client,
                    request'[c].pc = "relock", request'[c].stage \in {"matching", "differences"}
             PROVE  LET r == request'[c] IN
                    \/ stageRun'[r.stage].attempt >= r.attempt
                    \/ /\ stageRun'[r.stage].status # "succeeded"
                       /\ stageRun'[r.stage].attempt + 1 >= r.attempt
    BY DEF LostStagesAreOlder
<1> DEFINE r == request'[c]
<1>0. r.stage \in WorkflowStage
      BY DEF WorkflowStage
<1>1. CASE UNCHANGED vars
      BY <1>1 DEF vars, LostStagesAreOlder
<1>2. CASE JobsNext /\ request'[c] = request[c]
  <2>1. Restarted(r.stage)
        BY <1>2, StagesStep
  <2>2. stageRun[r.stage].attempt \in Nat /\ r.attempt \in Nat
        BY <1>0, <1>2 DEF TypeInv, JobsTypeOK, WorkflowTypeOK
  <2> QED BY <1>2, <2>1, <2>2 DEF LostStagesAreOlder, Restarted
<1>3. CASE JobsNext /\ request'[c] # request[c]
  <2>1. ASSUME NEW d \in Client, NEW q, request' = [request EXCEPT ![d] = q], q.pc # "relock"
        PROVE  FALSE
        BY <1>3, <2>1 DEF TypeInv, JobsTypeOK
  <2>0. Quiet.pc # "relock"
        BY DEF Quiet
  <2>2. ASSUME NEW d \in Client, Resolve(d) \/ Detect(d) \/ FailAfterRollback(d)
        PROVE  FALSE
    <3>1. request' = [request EXCEPT ![d] = Quiet]
          BY <2>2 DEF Resolve, Detect, FailAfterRollback
    <3> QED BY <2>0, <2>1, <3>1
  <2>3. ASSUME NEW d \in Client, CancelJob(d) \/ RetryJob(d) PROVE FALSE
    <3>1. request' = [request EXCEPT ![d] = Quiet]
          BY <2>3 DEF CancelJob, RetryJob
    <3> QED BY <2>0, <2>1, <3>1
  <2>4. ASSUME NEW d \in Client, ReadTask(d) \/ OpenCommand(d) PROVE FALSE
    <3>1. CASE ReadTask(d)
          BY <1>3, <3>1 DEF ReadTask, Quiet, TypeInv, JobsTypeOK
    <3>2. CASE OpenCommand(d)
          BY <1>3, <3>2 DEF OpenCommand, Quiet, TypeInv, JobsTypeOK
    <3> QED BY <2>4, <3>1, <3>2
  <2>5. ASSUME NEW w \in Analyst, WorkerStep(w) \/ Crash(w) PROVE FALSE
        BY <1>3, <2>5 DEF WorkerStep, Poll, Claim, Analyse, ScheduleRetry, CompleteItem, ReadJob,
                          SyncTask, Crash
  <2>6. PICK d \in Client : Advance(d) \/ RetryWorkflow(d)
        BY <1>3, <2>2, <2>3, <2>4, <2>5 DEF JobsNext, WorkflowNext, Lapse
  <2>7. task.stage # "analysis_ready" => StageOf(task.stage) \in WorkflowStage
        BY DEF StageOf, WorkflowStage, TypeInv, JobsTypeOK, WorkflowTypeOK, TaskStage
  <2>8. PICK s \in WorkflowStage : AdvanceStage(d, s)
        BY <1>3, <2>6, <2>7 DEF Advance, RetryWorkflow
  <2>9. /\ UNCHANGED stageRun
        /\ request' = [request EXCEPT ![d] = [Quiet EXCEPT
                           !.pc = "relock", !.stage = s, !.attempt = stageRun[s].attempt + 1]]
        BY <1>3, <2>8, StageWrites DEF TypeInv
  <2>10. c = d /\ r.stage = s /\ r.attempt = stageRun[s].attempt + 1
        BY <1>3, <2>9 DEF TypeInv, JobsTypeOK, Quiet
  <2>11. stageRun[s].status # "succeeded"
        BY <2>8 DEF AdvanceStage, MayStart
  <2>12. stageRun[s].attempt \in Nat
        BY DEF TypeInv, JobsTypeOK, WorkflowTypeOK
  <2> QED BY <2>9, <2>10, <2>11, <2>12
<1> QED BY <1>1, <1>2, <1>3

-----------------------------------------------------------------------------
(* The theorems *)

\* The counters of a job are the outcomes of its items, and these are the one
\* recorded analysis of each difference, whichever workers and commands met.
THEOREM CountersAreOutcomes == JobsSpec => []JobsAddUp
<1>1. JobsInv => JobsAddUp
      BY DEF JobsInv
<1> QED BY <1>1, JobsAreSafe, PTL

\* A task whose analysis is ready has nothing left to analyse, whatever stale
\* status a worker or a client had read before it wrote the task.
THEOREM ReadyTasksAreAnalysed == JobsSpec => []ReadyMeansAnalysed
<1>1. JobsInv => ReadyMeansAnalysed
      BY DEF JobsInv, CompletedIsTrue, AllSettled, ReadyMeansAnalysed, ItemsIn
<1> QED BY <1>1, JobsAreSafe, PTL

\* Neither a late worker nor a cancellation or retry changes an outcome.
LEMMA OutcomesStayFinal == JobsSpec => OutcomesAreFinal
<1>1. ASSUME TypeInv, JobsInv, [JobsNext]_vars, NEW i \in Item, item[i].status \in Settled
      PROVE  item'[i].status = item[i].status
  <2>1. CASE UNCHANGED vars
        BY <2>1 DEF vars
  <2>2. CASE Shuffles
        BY <1>1, <2>2 DEF Shuffles
  <2>3. CASE Creates
        BY <1>1, <2>3 DEF Creates, JobsInv, NoItemsYet, Settled
  <2>4. ASSUME NEW w \in Analyst, Settles(w) PROVE item'[i].status = item[i].status
        BY <1>1, <2>4, SettlesWrites DEF Settled
  <2> QED BY <1>1, <2>1, <2>2, <2>3, <2>4, ItemsMove DEF JobsInv
<1>2. TypeInv /\ JobsInv /\ [JobsNext]_vars =>
          [\A i \in Item : item[i].status \in Settled => item'[i].status = item[i].status]_vars
      BY <1>1
<1> QED BY <1>2, JobsAreSafe, PTL DEF JobsSpec, OutcomesAreFinal

\* A stage that succeeded is neither failed nor run again by a late request.
LEMMA StagesStaySucceeded == JobsSpec => SucceededStagesStay
<1>1. JobsInit => LostStagesAreOlder
      BY DEF JobsInit, LostStagesAreOlder, Quiet
<1>2. TypeInv /\ LostStagesAreOlder /\ [JobsNext]_vars =>
          [\A s \in {"matching", "differences"} :
              stageRun[s].status = "succeeded" => stageRun'[s] = stageRun[s]]_vars
      BY StagesStep DEF Restarted
<1> QED BY <1>1, <1>2, LostStagesStep, JobsTyped, PTL DEF JobsSpec, SucceededStagesStay

-----------------------------------------------------------------------------
(* A rematch job tells the truth, for any number of focal entities, workers *)
(* and operators.  The statement about a completed job is inductive with    *)
(* the types: such a job has no open item, so only a command leaves the     *)
(* status, and a job enters it only in the step that gives the last item    *)
(* its outcome.  That step counts; the count says something about the items *)
(* because there are finitely many.  The statement about a cancelled job    *)
(* needs to know what a cancel request in flight will miss: whatever is     *)
(* open is selected by it or was requeued past it; and that nobody else     *)
(* closes, or selects, an item that it holds.                               *)

FocalRow == [status : FocalStatus, owner : Rematcher \cup {"none"}, live : BOOLEAN, attempts : Nat]
RematchRow == [status : RematchStatus, cancel : BOOLEAN, processed : Nat, failed : Nat]
RetryRow == [pc : {"idle", "read"}, status : RematchStatus, cancel : BOOLEAN]
CancelRow == [pc : {"idle", "selected"}, items : SUBSET Focal]

Processed == {f \in Focal : focal[f].status \in RematchOutcome}
Failed    == {f \in Focal : focal[f].status = "failed"}

\* What a cancel request in flight does not cancel was requeued past it.
CancelsKnow ==
    \A o \in Operator : canceling[o].pc = "selected" =>
        \A f \in Focal : OpenItem(f) => f \in canceling[o].items \/ f \in overtaken

\* An item that a cancel request holds is open, and held by that request alone.
LocksHold ==
    \A o \in Operator : \A f \in canceling[o].items :
        /\ OpenItem(f)
        /\ \A p \in Operator : f \in canceling[p].items => p = o

CancelInv == CanceledJobIsQuiet /\ CancelsKnow /\ LocksHold

LEMMA FocalRowsTyped ==
    ASSUME RematchTypeOK
    PROVE  /\ \A f \in Focal : focal[f] \in FocalRow
           /\ rematch \in RematchRow
           /\ \A o \in Operator : retry[o] \in RetryRow
           /\ \A o \in Operator : canceling[o] \in CancelRow
BY DEF RematchTypeOK, FocalRow, RematchRow, RetryRow, CancelRow

\* As many outcomes as items: every item has one.
CountsTell ==
    /\ Cardinality(Processed) \in Nat /\ Cardinality(Failed) \in Nat
    /\ Cardinality(Focal) \in Nat
    /\ Cardinality(Processed) <= Cardinality(Focal)
    /\ Cardinality(Processed) = Cardinality(Focal) =>
           \A f \in Focal : focal[f].status \in RematchOutcome

LEMMA CountsAreTrue == CountsTell
<1>1. IsFiniteSet(Focal) /\ Processed \subseteq Focal /\ Failed \subseteq Focal
      BY RematchAssumption DEF Processed, Failed
<1>2. IsFiniteSet(Processed) /\ IsFiniteSet(Failed)
      BY <1>1, FS_Subset
<1>3. Cardinality(Processed) <= Cardinality(Focal)
      BY <1>1, FS_Subset
<1>4. Cardinality(Processed) = Cardinality(Focal) => Processed = Focal
      BY <1>1, FS_Subset
<1> QED BY <1>1, <1>2, <1>3, <1>4, FS_CardinalityType DEF CountsTell, Processed

\* The outcome of an item and the count of all outcomes that follows it.
LEMMA FinishedRows ==
    ASSUME RematchTypeOK, NEW f \in Focal, NEW outcome \in RematchOutcome, FinishFocal(f, outcome)
    PROVE  /\ focal' \in [Focal -> FocalRow]
           /\ focal'[f].status = outcome
           /\ \A g \in Focal \ {f} : focal'[g] = focal[g]
<1>1. /\ focal \in [Focal -> FocalRow]
      /\ focal[f] \in FocalRow
      BY DEF RematchTypeOK, FocalRow
<1>2. /\ [focal[f] EXCEPT !.status = outcome, !.owner = "none", !.live = FALSE] \in FocalRow
      /\ [focal[f] EXCEPT !.status = outcome, !.owner = "none", !.live = FALSE].status = outcome
      BY <1>1 DEF FocalRow, FocalStatus
<1>3. focal' = [focal EXCEPT ![f] = [focal[f] EXCEPT !.status = outcome, !.owner = "none",
                                                     !.live = FALSE]]
      BY <1>1 DEF FinishFocal
<1> QED BY <1>1, <1>2, <1>3

LEMMA FinishedJob ==
    ASSUME RematchTypeOK, NEW f \in Focal, NEW outcome \in RematchOutcome, FinishFocal(f, outcome)
    PROVE  /\ rematch' \in RematchRow
           /\ rematch'.cancel = rematch.cancel
           /\ rematch'.status = rematch.status \/ rematch'.status # "canceled"
           /\ rematch'.status = rematch.status \/ CompletedMeansProcessed'
<1> DEFINE p == Cardinality(Processed')
           q == Cardinality(Failed')
<1>1. /\ rematch \in RematchRow
      /\ focal' = [focal EXCEPT ![f].status = outcome, ![f].owner = "none", ![f].live = FALSE]
      BY FocalRowsTyped DEF FinishFocal
<1>2. /\ rematch' = [rematch EXCEPT
            !.processed = Cardinality(Processed'),
            !.failed = Cardinality(Failed'),
            !.status = IF Cardinality(Processed') < Cardinality(Focal) \/ rematch.cancel THEN @
                       ELSE IF Cardinality(Failed') > 0 THEN "completed_with_failures"
                       ELSE "completed"]
      BY DEF FinishFocal, Processed, Failed
<1>3. /\ p \in Nat /\ q \in Nat /\ p <= Cardinality(Focal) /\ Cardinality(Focal) \in Nat
      /\ p = Cardinality(Focal) => \A g \in Focal : focal'[g].status \in RematchOutcome
  <2>1. CountsTell'
        BY CountsAreTrue, PTL
  <2> QED BY <2>1 DEF CountsTell
<1>4. rematch' = [rematch EXCEPT !.processed = p, !.failed = q,
            !.status = IF p < Cardinality(Focal) \/ rematch.cancel THEN @
                       ELSE IF q > 0 THEN "completed_with_failures" ELSE "completed"]
      BY <1>2
<1> HIDE DEF p, q
<1>5. /\ rematch'.processed = p /\ rematch'.failed = q /\ rematch'.cancel = rematch.cancel
      /\ rematch'.status = IF p < Cardinality(Focal) \/ rematch.cancel THEN rematch.status
                           ELSE IF q > 0 THEN "completed_with_failures" ELSE "completed"
      BY <1>1, <1>4 DEF RematchRow
<1>6. rematch' \in RematchRow
      BY <1>1, <1>3, <1>4 DEF RematchRow, RematchStatus
<1>7. CASE rematch'.status = rematch.status
      BY <1>5, <1>6, <1>7
<1>8. CASE rematch'.status # rematch.status
  <2>1. /\ p = Cardinality(Focal)
        /\ rematch'.status = IF q > 0 THEN "completed_with_failures" ELSE "completed"
        BY <1>3, <1>5, <1>8
  <2>2. q = Cardinality({g \in Focal : focal'[g].status = "failed"})
        BY DEF q, Failed
  <2>3. CompletedMeansProcessed'
        BY <1>3, <1>5, <2>1, <2>2 DEF CompletedMeansProcessed
  <2> QED BY <1>5, <1>6, <2>1, <2>3
<1> QED BY <1>7, <1>8

\* The steps that finish an item, and whose it was.
LEMMA Finishing ==
    ASSUME RematchTypeOK, NEW w \in Rematcher, CompleteFocal(w) \/ ScheduleFocalRetry(w)
    PROVE  \/ UNCHANGED <<focal, rematch>>
           \/ \E f \in Focal, outcome \in RematchOutcome :
                focal[f].status = "running" /\ FinishFocal(f, outcome)
           \/ \E f \in Focal :
                /\ focal[f].status = "running" /\ ~Locked(f)
                /\ focal' = [focal EXCEPT ![f].status = "retry_wait", ![f].owner = "none",
                                          ![f].live = FALSE]
                /\ UNCHANGED rematch
<1>1. rematcher[w] # "none" => rematcher[w] \in Focal
      BY DEF RematchTypeOK
<1>2. CASE CompleteFocal(w)
      BY <1>1, <1>2 DEF CompleteFocal, HoldsFocal
<1>3. CASE ScheduleFocalRetry(w)
      BY <1>1, <1>3 DEF ScheduleFocalRetry, HoldsFocal, RematchOutcome
<1> QED BY <1>2, <1>3

-----------------------------------------------------------------------------
(* Types *)

LEMMA RematchInitTyped == RematchInit => RematchTypeOK
BY DEF RematchInit, RematchTypeOK, NoRetry, NoCancel, RematchStatus, FocalStatus

LEMMA RematchWorkTyped ==
    ASSUME RematchTypeOK, NEW w \in Rematcher,
           ClaimFocal(w) \/ CompleteFocal(w) \/ ScheduleFocalRetry(w)
    PROVE  RematchTypeOK'
<1>0. (\A f \in Focal : focal[f] \in FocalRow) /\ focal \in [Focal -> FocalRow] /\ rematch \in RematchRow
      BY FocalRowsTyped DEF RematchTypeOK, FocalRow
<1>1. ASSUME NEW f \in Focal
      PROVE  [status |-> "running", owner |-> w, live |-> TRUE,
              attempts |-> focal[f].attempts + 1] \in FocalRow
  <2>1. focal[f].attempts + 1 \in Nat
        BY <1>0, <1>1 DEF FocalRow
  <2> QED BY <2>1 DEF FocalRow, FocalStatus
<1>5. ASSUME NEW f \in Focal
      PROVE  [focal[f] EXCEPT !.status = "retry_wait", !.owner = "none", !.live = FALSE] \in FocalRow
      BY <1>0, <1>5 DEF FocalRow, FocalStatus
<1>2. [rematch EXCEPT !.status = "running"] \in RematchRow
      BY <1>0 DEF RematchRow, RematchStatus
<1>3. CASE ClaimFocal(w)
  <2>1. PICK f \in Focal :
          /\ focal' = [focal EXCEPT ![f] = [status |-> "running", owner |-> w, live |-> TRUE,
                                            attempts |-> focal[f].attempts + 1]]
          /\ rematcher' = [rematcher EXCEPT ![w] = f]
          /\ rematch' = rematch \/ rematch' = [rematch EXCEPT !.status = "running"]
          /\ UNCHANGED <<reusable, requestVars, lapses, given>>
        BY <1>3 DEF ClaimFocal
  <2>2. focal' \in [Focal -> FocalRow] /\ rematch' \in RematchRow
        BY <1>0, <1>1, <1>2, <2>1
  <2> QED BY <2>1, <2>2 DEF RematchTypeOK, FocalRow, RematchRow, requestVars
<1>4. CASE CompleteFocal(w) \/ ScheduleFocalRetry(w)
  <2>1. /\ rematcher' = [rematcher EXCEPT ![w] = "none"]
        /\ UNCHANGED <<reusable, requestVars, lapses, given>>
        BY <1>4 DEF CompleteFocal, ScheduleFocalRetry
  <2>2. focal' \in [Focal -> FocalRow] /\ rematch' \in RematchRow
    <3>1. CASE UNCHANGED <<focal, rematch>>
          BY <1>0, <3>1
    <3>2. ASSUME NEW f \in Focal, NEW outcome \in RematchOutcome, FinishFocal(f, outcome)
          PROVE  focal' \in [Focal -> FocalRow] /\ rematch' \in RematchRow
          BY <3>2, FinishedRows, FinishedJob
    <3>3. ASSUME NEW f \in Focal, UNCHANGED rematch,
                 focal' = [focal EXCEPT ![f].status = "retry_wait", ![f].owner = "none",
                                        ![f].live = FALSE]
          PROVE  focal' \in [Focal -> FocalRow] /\ rematch' \in RematchRow
      <4>1. focal' = [focal EXCEPT ![f] = [focal[f] EXCEPT !.status = "retry_wait",
                                                  !.owner = "none", !.live = FALSE]]
            BY <1>0, <3>3
      <4> QED BY <1>0, <1>5, <3>3, <4>1
    <3> QED BY <1>4, <3>1, <3>2, <3>3, Finishing
  <2> QED BY <2>1, <2>2 DEF RematchTypeOK, FocalRow, RematchRow, requestVars
<1> QED BY <1>3, <1>4

LEMMA RematchEventTyped ==
    ASSUME RematchTypeOK,
           \/ CreateRematch \/ RecoverFocal
           \/ \E f \in Focal : ReuseOutcome(f) \/ LapseFocal(f)
           \/ \E o \in Operator : \/ ReadForCancel(o) \/ CancelRematch(o)
                                  \/ ReadForRetry(o) \/ RetryRematch(o)
    PROVE  RematchTypeOK'
<1>0. /\ \A f \in Focal : focal[f] \in FocalRow
      /\ focal \in [Focal -> FocalRow] /\ rematch \in RematchRow
      /\ \A o \in Operator : retry[o] \in RetryRow /\ canceling[o] \in CancelRow
      BY FocalRowsTyped DEF RematchTypeOK, FocalRow
<1>1. CASE CreateRematch
  <2>1. rematch' \in RematchRow
        BY <1>0, <1>1 DEF CreateRematch, RematchRow, RematchStatus
  <2> QED BY <1>1, <2>1 DEF CreateRematch, RematchTypeOK, RematchRow, requestVars
<1>2. CASE RecoverFocal
  <2> DEFINE Requeued(f) == [focal[f] EXCEPT !.status = "queued", !.owner = "none"]
             Dead(f) == f \in {g \in Focal : /\ focal[g].status = "running"
                                            /\ ~focal[g].live /\ ~Locked(g)}
  <2>1. \A f \in Focal : Requeued(f) \in FocalRow
        BY <1>0 DEF FocalRow, FocalStatus
  <2>2. focal' = [f \in Focal |-> IF Dead(f) THEN Requeued(f) ELSE focal[f]]
        BY <1>2 DEF RecoverFocal
  <2> HIDE DEF Requeued, Dead
  <2>3. focal' \in [Focal -> FocalRow]
        BY <1>0, <2>1, <2>2
  <2> QED BY <1>2, <2>3 DEF RecoverFocal, RematchTypeOK, FocalRow, requestVars
<1>3. ASSUME NEW o \in Operator, CancelRematch(o) PROVE RematchTypeOK'
  <2> DEFINE Canceled(f) == [focal[f] EXCEPT !.status = "canceled", !.owner = "none",
                                             !.live = FALSE]
             Kept(f) == f \notin canceling[o].items
  <2>1. \A f \in Focal : Canceled(f) \in FocalRow
        BY <1>0 DEF FocalRow, FocalStatus
  <2>2. focal' = [f \in Focal |-> IF Kept(f) THEN focal[f] ELSE Canceled(f)]
        BY <1>3 DEF CancelRematch
  <2> HIDE DEF Canceled, Kept
  <2>3. focal' \in [Focal -> FocalRow]
        BY <1>0, <2>1, <2>2
  <2>4. rematch' \in RematchRow
        BY <1>0, <1>3 DEF CancelRematch, RematchRow, RematchStatus
  <2>5. /\ canceling' = [canceling EXCEPT ![o] = NoCancel]
        /\ UNCHANGED <<reusable, rematcher, retry, overtaken, lapses, given>>
        BY <1>3 DEF CancelRematch
  <2> QED BY <2>3, <2>4, <2>5 DEF RematchTypeOK, FocalRow, RematchRow, NoCancel
<1>8. ASSUME NEW o \in Operator, ReadForCancel(o) PROVE RematchTypeOK'
      BY <1>0, <1>8 DEF ReadForCancel, RematchTypeOK, RematchRow
<1>4. ASSUME NEW f \in Focal, ReuseOutcome(f) PROVE RematchTypeOK'
  <2>1. PICK outcome \in RematchOutcome : FinishFocal(f, outcome)
        BY <1>4 DEF ReuseOutcome
  <2>2. focal' \in [Focal -> FocalRow] /\ rematch' \in RematchRow
        BY <2>1, FinishedRows, FinishedJob
  <2> QED BY <1>4, <2>2 DEF ReuseOutcome, RematchTypeOK, FocalRow, RematchRow, requestVars
<1>5. ASSUME NEW f \in Focal, LapseFocal(f) PROVE RematchTypeOK'
  <2>1. [focal[f] EXCEPT !.live = FALSE] \in FocalRow
        BY <1>0, <1>5 DEF FocalRow
  <2>2. focal' = [focal EXCEPT ![f] = [focal[f] EXCEPT !.live = FALSE]]
        BY <1>0, <1>5 DEF LapseFocal
  <2>3. focal' \in [Focal -> FocalRow]
        BY <1>0, <2>1, <2>2
  <2> QED BY <1>5, <2>3 DEF LapseFocal, RematchTypeOK, FocalRow, requestVars
<1>6. ASSUME NEW o \in Operator, ReadForRetry(o) PROVE RematchTypeOK'
      BY <1>0, <1>6 DEF ReadForRetry, RematchTypeOK, RematchRow
<1>7. ASSUME NEW o \in Operator, RetryRematch(o) PROVE RematchTypeOK'
  <2> DEFINE Requeued(f) == [focal[f] EXCEPT !.status = "queued"]
             Again(f) == focal[f].status \in {"failed", "manual_review", "no_match", "conflict",
                                              "canceled"}
  <2>1. \A f \in Focal : Requeued(f) \in FocalRow
        BY <1>0 DEF FocalRow, FocalStatus
  <2>2. focal' = [f \in Focal |-> IF Again(f) THEN Requeued(f) ELSE focal[f]]
        BY <1>0, <1>7 DEF RetryRematch
  <2>5. overtaken' \subseteq Focal
        BY <1>7 DEF RetryRematch, RematchTypeOK
  <2> HIDE DEF Requeued, Again
  <2>3. focal' \in [Focal -> FocalRow]
        BY <1>0, <2>1, <2>2
  <2>4. rematch' \in RematchRow
        BY <1>0, <1>7 DEF RetryRematch, RematchRow, RematchStatus
  <2> QED BY <1>7, <2>3, <2>4, <2>5
          DEF RetryRematch, RematchTypeOK, FocalRow, RematchRow, NoRetry, RematchStatus
<1> QED BY <1>1, <1>2, <1>3, <1>4, <1>5, <1>6, <1>7, <1>8

LEMMA RematchTypeStep == RematchTypeOK /\ [RematchNext]_rematchVars => RematchTypeOK'
<1> SUFFICES ASSUME RematchTypeOK, [RematchNext]_rematchVars PROVE RematchTypeOK'
    OBVIOUS
<1>1. CASE UNCHANGED rematchVars
      BY <1>1 DEF RematchTypeOK, rematchVars, requestVars
<1>2. CASE RematchNext
      BY <1>2, RematchWorkTyped, RematchEventTyped DEF RematchNext
<1> QED BY <1>1, <1>2

-----------------------------------------------------------------------------
(* The job's status *)

\* A completed job: no item is open, so that only commands disturb it.
LEMMA ProcessedStep ==
    ASSUME RematchTypeOK, CompletedMeansProcessed, RematchNext
    PROVE  CompletedMeansProcessed'
<1>0. /\ \A f \in Focal : focal[f] \in FocalRow
      /\ rematch \in RematchRow
      BY FocalRowsTyped
<1>1. ASSUME NEW f \in Focal, OpenItem(f)
      PROVE  rematch.status \notin {"completed", "completed_with_failures"}
      BY <1>1 DEF CompletedMeansProcessed, OpenItem, RematchOutcome
<1>2. ASSUME rematch'.status \notin {"completed", "completed_with_failures"}
      PROVE  CompletedMeansProcessed'
      BY <1>2 DEF CompletedMeansProcessed
<1>3. ASSUME NEW f \in Focal, NEW outcome \in RematchOutcome, OpenItem(f), FinishFocal(f, outcome)
      PROVE  CompletedMeansProcessed'
      BY <1>1, <1>2, <1>3, FinishedJob
<1>5. CASE CreateRematch
  <2>1. rematch'.status = "queued"
        BY <1>0, <1>5 DEF CreateRematch, RematchRow
  <2> QED BY <1>2, <2>1
<1>6. CASE RecoverFocal
  <2>1. PICK f \in Focal : OpenItem(f)
        BY <1>6 DEF RecoverFocal, OpenItem
  <2> QED BY <1>1, <1>2, <1>6, <2>1 DEF RecoverFocal
<1>7. ASSUME NEW o \in Operator, CancelRematch(o) PROVE CompletedMeansProcessed'
  <2>1. rematch'.status = "canceled"
        BY <1>0, <1>7 DEF CancelRematch, RematchRow
  <2> QED BY <1>2, <2>1
<1>8. ASSUME NEW w \in Rematcher, ClaimFocal(w) PROVE CompletedMeansProcessed'
  <2>1. PICK f \in Focal :
          /\ OpenItem(f)
          /\ rematch' = IF rematch.status = "queued" THEN [rematch EXCEPT !.status = "running"]
                        ELSE rematch
        BY <1>8 DEF ClaimFocal, OpenItem
  <2>2. rematch'.status \in {rematch.status, "running"}
        BY <1>0, <2>1 DEF RematchRow
  <2> QED BY <1>1, <1>2, <2>1, <2>2
<1>9. ASSUME NEW w \in Rematcher, CompleteFocal(w) \/ ScheduleFocalRetry(w)
      PROVE  CompletedMeansProcessed'
  <2>1. CASE UNCHANGED <<focal, rematch>>
        BY <2>1 DEF CompletedMeansProcessed
  <2>2. CASE \E f \in Focal, outcome \in RematchOutcome :
                focal[f].status = "running" /\ FinishFocal(f, outcome)
        BY <1>3, <2>2 DEF OpenItem
  <2>3. CASE \E f \in Focal : focal[f].status = "running" /\ UNCHANGED rematch
        BY <1>1, <1>2, <2>3 DEF OpenItem
  <2> QED BY <1>9, <2>1, <2>2, <2>3, Finishing
<1>10. ASSUME NEW f \in Focal, ReuseOutcome(f) PROVE CompletedMeansProcessed'
       BY <1>3, <1>10 DEF ReuseOutcome, OpenItem
<1>11. ASSUME NEW f \in Focal, LapseFocal(f) PROVE CompletedMeansProcessed'
  <2>1. /\ UNCHANGED rematch
        /\ \A g \in Focal : focal'[g].status = focal[g].status
        BY <1>0, <1>11 DEF LapseFocal, FocalRow, RematchTypeOK
  <2> QED BY <2>1 DEF CompletedMeansProcessed
<1>12. ASSUME NEW o \in Operator, ReadForRetry(o) \/ ReadForCancel(o) PROVE CompletedMeansProcessed'
       BY <1>12 DEF ReadForRetry, ReadForCancel, CompletedMeansProcessed
<1>13. ASSUME NEW o \in Operator, RetryRematch(o) PROVE CompletedMeansProcessed'
  <2>1. rematch'.status = "queued"
        BY <1>0, <1>13 DEF RetryRematch, RematchRow
  <2> QED BY <1>2, <2>1
<1> QED BY <1>5, <1>6, <1>7, <1>8, <1>9, <1>10, <1>11, <1>12, <1>13 DEF RematchNext

\* What a step that is no command does: it opens nothing, it closes nothing that a
\* cancel request holds, and it does not cancel the job.
NoCommand ==
    /\ UNCHANGED <<canceling, overtaken>>
    /\ \A f \in Focal : /\ OpenItem(f)' => OpenItem(f)
                        /\ Locked(f) /\ OpenItem(f) => OpenItem(f)'
    /\ rematch'.status = "canceled" => rematch.status = "canceled"
    /\ rematch'.cancel = rematch.cancel

LEMMA NoCommandKeeps ==
    ASSUME RematchTypeOK, CancelInv, NoCommand
    PROVE  CancelInv'
<1>1. CanceledJobIsQuiet'
      BY DEF NoCommand, CancelInv, CanceledJobIsQuiet
<1>2. CancelsKnow'
      BY DEF NoCommand, CancelInv, CancelsKnow
<1>3. LocksHold'
  <2> SUFFICES ASSUME NEW o \in Operator, NEW f \in canceling[o].items
               PROVE  OpenItem(f)' /\ \A p \in Operator : f \in canceling[p].items => p = o
      BY DEF NoCommand, LocksHold
  <2>1. f \in Focal /\ Locked(f)
        BY FocalRowsTyped DEF Locked, CancelRow
  <2> QED BY <2>1 DEF NoCommand, CancelInv, LocksHold
<1> QED BY <1>1, <1>2, <1>3 DEF CancelInv

LEMMA WorkersGiveNoCommand ==
    ASSUME RematchTypeOK,
           \/ CreateRematch \/ RecoverFocal
           \/ \E w \in Rematcher : ClaimFocal(w) \/ CompleteFocal(w) \/ ScheduleFocalRetry(w)
           \/ \E f \in Focal : ReuseOutcome(f) \/ LapseFocal(f)
           \/ \E o \in Operator : ReadForRetry(o)
    PROVE  NoCommand
<1>0. /\ focal \in [Focal -> FocalRow] /\ \A f \in Focal : focal[f] \in FocalRow
      /\ rematch \in RematchRow
      BY FocalRowsTyped DEF RematchTypeOK, FocalRow
<1>1. UNCHANGED <<canceling, overtaken>>
      BY DEF CreateRematch, RecoverFocal, ClaimFocal, CompleteFocal, ScheduleFocalRetry,
             ReuseOutcome, LapseFocal, ReadForRetry, requestVars
\* One item moves.
<1>2. ASSUME NEW f \in Focal, OpenItem(f), ~Locked(f),
             \A g \in Focal \ {f} : focal'[g] = focal[g]
      PROVE  \A g \in Focal : /\ OpenItem(g)' => OpenItem(g)
                              /\ Locked(g) /\ OpenItem(g) => OpenItem(g)'
      BY <1>2 DEF OpenItem
<1>3. ASSUME NEW f \in Focal, NEW outcome \in RematchOutcome, OpenItem(f), FinishFocal(f, outcome)
      PROVE  NoCommand
  <2>1. ~Locked(f)
        BY <1>3 DEF FinishFocal
  <2>2. \A g \in Focal \ {f} : focal'[g] = focal[g]
        BY <1>3, FinishedRows
  <2> QED BY <1>1, <1>2, <1>3, <2>1, <2>2, FinishedJob DEF NoCommand
<1>4. CASE CreateRematch
  <2>1. rematch'.status = "queued" /\ rematch'.cancel = rematch.cancel /\ focal' = focal
        BY <1>0, <1>4 DEF CreateRematch, RematchRow
  <2> QED BY <1>1, <2>1 DEF NoCommand, OpenItem
<1>5. CASE RecoverFocal
  <2>1. \A f \in Focal : OpenItem(f)' <=> OpenItem(f)
    <3> SUFFICES ASSUME NEW f \in Focal PROVE OpenItem(f)' <=> OpenItem(f)
        OBVIOUS
    <3>1. \/ focal'[f] = focal[f]
          \/ /\ focal[f].status = "running"
             /\ focal'[f] = [focal[f] EXCEPT !.status = "queued", !.owner = "none"]
          BY <1>5 DEF RecoverFocal
    <3> QED BY <1>0, <3>1 DEF OpenItem, FocalRow
  <2> QED BY <1>1, <1>5, <2>1 DEF NoCommand, RecoverFocal
<1>6. ASSUME NEW w \in Rematcher, ClaimFocal(w) PROVE NoCommand
  <2>1. PICK f \in Focal :
          /\ OpenItem(f) /\ ~Locked(f)
          /\ \A g \in Focal \ {f} : focal'[g] = focal[g]
          /\ rematch' = IF rematch.status = "queued" THEN [rematch EXCEPT !.status = "running"]
                        ELSE rematch
        BY <1>0, <1>6 DEF ClaimFocal, OpenItem
  <2>2. rematch'.status \in {rematch.status, "running"} /\ rematch'.cancel = rematch.cancel
        BY <1>0, <2>1 DEF RematchRow
  <2> QED BY <1>1, <1>2, <2>1, <2>2 DEF NoCommand
<1>7. ASSUME NEW w \in Rematcher, CompleteFocal(w) \/ ScheduleFocalRetry(w) PROVE NoCommand
  <2>1. CASE UNCHANGED <<focal, rematch>>
        BY <1>1, <2>1 DEF NoCommand, OpenItem
  <2>2. CASE \E f \in Focal, outcome \in RematchOutcome :
                focal[f].status = "running" /\ FinishFocal(f, outcome)
        BY <1>3, <2>2 DEF OpenItem
  <2>3. ASSUME NEW f \in Focal, focal[f].status = "running", ~Locked(f), UNCHANGED rematch,
               focal' = [focal EXCEPT ![f].status = "retry_wait", ![f].owner = "none",
                                      ![f].live = FALSE]
        PROVE  NoCommand
    <3>1. \A g \in Focal \ {f} : focal'[g] = focal[g]
          BY <1>0, <2>3
    <3> QED BY <1>1, <1>2, <2>3, <3>1 DEF NoCommand, OpenItem
  <2> QED BY <1>7, <2>1, <2>2, <2>3, Finishing
<1>8. ASSUME NEW f \in Focal, ReuseOutcome(f) PROVE NoCommand
      BY <1>3, <1>8 DEF ReuseOutcome, OpenItem
<1>9. ASSUME NEW f \in Focal, LapseFocal(f) PROVE NoCommand
  <2>1. /\ UNCHANGED rematch
        /\ \A g \in Focal : focal'[g].status = focal[g].status
        BY <1>0, <1>9 DEF LapseFocal, FocalRow
  <2> QED BY <1>1, <2>1 DEF NoCommand, OpenItem
<1>10. ASSUME NEW o \in Operator, ReadForRetry(o) PROVE NoCommand
       BY <1>1, <1>10 DEF ReadForRetry, NoCommand, OpenItem
<1> QED BY <1>4, <1>5, <1>6, <1>7, <1>8, <1>9, <1>10

LEMMA CancelStep ==
    ASSUME RematchTypeOK, CancelInv, RematchNext
    PROVE  CancelInv'
<1>0. /\ focal \in [Focal -> FocalRow] /\ \A f \in Focal : focal[f] \in FocalRow
      /\ rematch \in RematchRow
      /\ canceling \in [Operator -> CancelRow]
      BY FocalRowsTyped DEF RematchTypeOK, FocalRow, CancelRow
<1>1. CASE NoCommand
      BY <1>1, NoCommandKeeps
\* Everything open is selected.
<1>2. ASSUME NEW o \in Operator, ReadForCancel(o) PROVE CancelInv'
  <2>1. /\ canceling' = [canceling EXCEPT ![o] =
                            [pc |-> "selected", items |-> {f \in Focal : OpenItem(f)}]]
        /\ UNCHANGED <<rematch, focal, overtaken>>
        /\ \A f \in Focal : OpenItem(f) => ~Locked(f)
        BY <1>2 DEF ReadForCancel
  <2>2. /\ canceling'[o].items = {f \in Focal : OpenItem(f)}
        /\ \A p \in Operator \ {o} : canceling'[p] = canceling[p]
        /\ \A f \in Focal : OpenItem(f)' <=> OpenItem(f)
        BY <1>0, <2>1 DEF OpenItem
  <2>3. CanceledJobIsQuiet' /\ CancelsKnow'
        BY <2>1, <2>2 DEF CancelInv, CanceledJobIsQuiet, CancelsKnow
  <2>4. LocksHold'
        BY <1>0, <2>1, <2>2 DEF CancelInv, LocksHold, Locked, CancelRow
  <2> QED BY <2>3, <2>4 DEF CancelInv
\* What is left open was requeued past the request; nobody else held what it closed.
<1>3. ASSUME NEW o \in Operator, CancelRematch(o) PROVE CancelInv'
  <2>1. /\ canceling[o].pc = "selected"
        /\ canceling' = [canceling EXCEPT ![o] = NoCancel]
        /\ UNCHANGED overtaken
        BY <1>3 DEF CancelRematch
  <2>2. rematch'.status = "canceled" /\ rematch'.cancel
        BY <1>0, <1>3 DEF CancelRematch, RematchRow
  <2>3. \A f \in Focal : /\ f \notin canceling[o].items => focal'[f] = focal[f]
                         /\ f \in canceling[o].items => focal'[f].status = "canceled"
        BY <1>0, <1>3 DEF CancelRematch, FocalRow
  <2>4. \A f \in Focal : OpenItem(f)' => OpenItem(f) /\ f \notin canceling[o].items
        BY <2>3 DEF OpenItem
  <2>5. /\ canceling'[o].items = {} /\ canceling'[o].pc = "idle"
        /\ \A p \in Operator \ {o} : canceling'[p] = canceling[p]
        BY <1>0, <2>1 DEF NoCancel
  <2>6. CanceledJobIsQuiet' /\ CancelsKnow'
        BY <2>1, <2>2, <2>4, <2>5 DEF CancelInv, CanceledJobIsQuiet, CancelsKnow
  <2>7. LocksHold'
    <3> SUFFICES ASSUME NEW p \in Operator, NEW f \in canceling'[p].items
                 PROVE  OpenItem(f)' /\ \A q \in Operator : f \in canceling'[q].items => q = p
        BY DEF LocksHold
    <3>1. p # o /\ f \in canceling[p].items /\ f \in Focal /\ f \notin canceling[o].items
          BY <1>0, <2>5 DEF CancelInv, LocksHold, CancelRow
    <3> QED BY <2>3, <2>5, <3>1 DEF CancelInv, LocksHold, OpenItem
  <2> QED BY <2>6, <2>7 DEF CancelInv
\* What a retry requeues past a request in flight is remembered.
<1>4. ASSUME NEW o \in Operator, RetryRematch(o) PROVE CancelInv'
  <2> DEFINE requeued == {f \in Focal : focal[f].status \in
                            {"failed", "manual_review", "no_match", "conflict", "canceled"}}
  <2>1. /\ UNCHANGED canceling
        /\ overtaken' = IF \E p \in Operator : canceling[p].pc = "selected"
                        THEN overtaken \cup requeued ELSE overtaken \ requeued
        /\ focal' = [f \in Focal |-> IF f \in requeued
                                     THEN [focal[f] EXCEPT !.status = "queued"] ELSE focal[f]]
        BY <1>4 DEF RetryRematch
  <2>2. rematch'.status = "queued"
        BY <1>0, <1>4 DEF RetryRematch, RematchRow
  <2>3. \A f \in Focal : /\ f \in requeued => ~OpenItem(f)
                         /\ f \notin requeued => focal'[f] = focal[f]
        BY <2>1 DEF OpenItem
  <2> HIDE DEF requeued
  <2>4. \A f \in Focal : /\ OpenItem(f)' => OpenItem(f) \/ f \in requeued
                         /\ OpenItem(f) => OpenItem(f)'
        BY <2>3 DEF OpenItem
  <2>5. CanceledJobIsQuiet'
        BY <2>2 DEF CanceledJobIsQuiet
  <2>6. CancelsKnow'
    <3> SUFFICES ASSUME NEW p \in Operator, canceling[p].pc = "selected",
                        NEW f \in Focal, OpenItem(f)'
                 PROVE  f \in canceling[p].items \/ f \in overtaken'
        BY <2>1 DEF CancelsKnow
    <3>1. overtaken' = overtaken \cup requeued
          BY <2>1
    <3> QED BY <2>4, <3>1 DEF CancelInv, CancelsKnow
  <2>7. LocksHold'
        BY <1>0, <2>1, <2>4 DEF CancelInv, LocksHold, CancelRow
  <2> QED BY <2>5, <2>6, <2>7 DEF CancelInv
<1> QED BY <1>1, <1>2, <1>3, <1>4, WorkersGiveNoCommand DEF RematchNext

LEMMA RematchInvStep ==
    RematchTypeOK /\ CompletedMeansProcessed /\ CancelInv /\ [RematchNext]_rematchVars
        => CompletedMeansProcessed' /\ CancelInv'
<1>1. ASSUME CompletedMeansProcessed, CancelInv, UNCHANGED rematchVars
      PROVE  CompletedMeansProcessed' /\ CancelInv'
      BY <1>1 DEF CompletedMeansProcessed, CancelInv, CanceledJobIsQuiet, CancelsKnow, LocksHold,
                  OpenItem, rematchVars, requestVars
<1> QED BY <1>1, ProcessedStep, CancelStep

LEMMA RematchInvInit == RematchInit => CompletedMeansProcessed /\ CancelInv
BY DEF RematchInit, CompletedMeansProcessed, CancelInv, CanceledJobIsQuiet, CancelsKnow,
       LocksHold, NoCancel

LEMMA RematchTyped == RematchSpec => []RematchTypeOK
BY RematchInitTyped, RematchTypeStep, PTL DEF RematchSpec

LEMMA RematchIsSafe == RematchSpec => [](CompletedMeansProcessed /\ CancelInv)
BY RematchInvInit, RematchInvStep, RematchTyped, PTL DEF RematchSpec

LEMMA RecoveredStep ==
    RematchTypeOK /\ CancelInv /\ [RematchNext]_rematchVars =>
        [\A f \in Focal : focal[f].status = "ai_recovered" =>
            focal'[f].status = "ai_recovered"]_rematchVars
<1> SUFFICES ASSUME RematchTypeOK, CancelInv, RematchNext, NEW f \in Focal,
                    focal[f].status = "ai_recovered"
             PROVE  focal'[f].status = "ai_recovered"
    OBVIOUS
<1>0. focal \in [Focal -> FocalRow] /\ focal[f] \in FocalRow
      BY FocalRowsTyped DEF RematchTypeOK, FocalRow
\* Whatever becomes of one other item.
<1>1. ASSUME NEW g \in Focal, NEW row, focal[g].status # "ai_recovered",
             focal' = [focal EXCEPT ![g] = row]
      PROVE  focal'[f] = focal[f]
      BY <1>0, <1>1
<1>2. ASSUME NEW g \in Focal, NEW outcome \in RematchOutcome, focal[g].status # "ai_recovered",
             FinishFocal(g, outcome)
      PROVE  focal'[f] = focal[f]
      BY <1>2, FinishedRows
<1>3. CASE CreateRematch \/ \E o \in Operator : ReadForRetry(o) \/ ReadForCancel(o)
      BY <1>3 DEF CreateRematch, ReadForRetry, ReadForCancel
<1>4. CASE RecoverFocal
      BY <1>0, <1>4 DEF RecoverFocal, FocalRow
<1>5. ASSUME NEW o \in Operator, CancelRematch(o) PROVE focal'[f] = focal[f]
  <2>1. f \notin canceling[o].items
        BY DEF CancelInv, LocksHold, OpenItem
  <2> QED BY <1>0, <1>5, <2>1 DEF CancelRematch
<1>6. ASSUME NEW w \in Rematcher, ClaimFocal(w) PROVE focal'[f] = focal[f]
      BY <1>1, <1>6 DEF ClaimFocal
<1>7. ASSUME NEW w \in Rematcher, CompleteFocal(w) \/ ScheduleFocalRetry(w)
      PROVE  focal'[f] = focal[f]
  <2>1. CASE \E g \in Focal, outcome \in RematchOutcome :
                focal[g].status = "running" /\ FinishFocal(g, outcome)
        BY <1>2, <2>1
  <2>2. ASSUME NEW g \in Focal, focal[g].status = "running",
               focal' = [focal EXCEPT ![g].status = "retry_wait", ![g].owner = "none",
                                      ![g].live = FALSE]
        PROVE  focal'[f] = focal[f]
        BY <1>0, <2>2
  <2> QED BY <1>7, <2>1, <2>2, Finishing
<1>8. ASSUME NEW g \in Focal, ReuseOutcome(g) PROVE focal'[f] = focal[f]
      BY <1>2, <1>8 DEF ReuseOutcome
<1>9. ASSUME NEW g \in Focal, LapseFocal(g) PROVE focal'[f].status = "ai_recovered"
      BY <1>0, <1>9 DEF LapseFocal, FocalRow
<1>10. ASSUME NEW o \in Operator, RetryRematch(o) PROVE focal'[f].status = "ai_recovered"
       BY <1>0, <1>10 DEF RetryRematch, FocalRow
<1> QED BY <1>3, <1>4, <1>5, <1>6, <1>7, <1>8, <1>9, <1>10 DEF RematchNext

-----------------------------------------------------------------------------
(* The theorem *)

\* A cancelled rematch job takes no items and has no open one, except what a retry
\* requeued while its cancellation was in flight; and a completed one has an
\* outcome for every item and counts them.
THEOREM RematchesTellTheTruth == RematchSpec => []RematchStatusIsTrue
<1>1. CompletedMeansProcessed /\ CancelInv => RematchStatusIsTrue
      BY DEF CancelInv, RematchStatusIsTrue
<1> QED BY <1>1, RematchIsSafe, PTL

\* What was recovered stays recovered.
LEMMA RecoveriesStay == RematchSpec => RecoveredStays
BY RecoveredStep, RematchTyped, RematchIsSafe, PTL DEF RematchSpec, RecoveredStays

\* Both kinds of jobs keep their rows, memories and counters well formed.
THEOREM LeasedJobsTyped == LeasedJobsSpec => []TypeOK
<1>1. TypeInv /\ RematchTypeOK => TypeOK
      BY DEF TypeInv, TypeOK
<1> QED BY <1>1, JobsTyped, RematchTyped, PTL DEF LeasedJobsSpec

\* What was reached is never taken back, by whichever late worker, cancellation,
\* retry or lost request: the outcomes of analysis items, the stages of a task
\* that succeeded, and the entities a rematch job recovered.
THEOREM ReachedOutcomesStay == LeasedJobsSpec => OutcomesStay
BY OutcomesStayFinal, StagesStaySucceeded, RecoveriesStay, PTL DEF LeasedJobsSpec, OutcomesStay
=============================================================================
