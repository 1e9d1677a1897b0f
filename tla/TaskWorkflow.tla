---------------------------- MODULE TaskWorkflow ----------------------------
(***************************************************************************)
(* The workflow of one legacy reconciliation task: the command that        *)
(* advances it by one stage, the retry of a failed stage, and the          *)
(* endpoints that resolve and detect outside of the workflow.              *)
(*                                                                         *)
(* A request of a client runs in one transaction.  A request that reads    *)
(* the task before it locks it keeps the attributes it read, because the   *)
(* session does not refresh a loaded row; seen is that memory.  An         *)
(* assignment reaches the row only if it differs from what was read.       *)
(***************************************************************************)
EXTENDS Naturals, FiniteSets

CONSTANTS
    Item,          \* differences the detector may find, each a work item
    Detection,     \* sets of differences one detection may find
    Client,        \* request handlers of the API
    MaxFaults,     \* failing stages, lapses of a worker's lease, crashes
    MaxCommands    \* commands given outside of the workflow's own order

WorkflowAssumption ==
    /\ IsFiniteSet(Item)
    /\ Detection \subseteq SUBSET Item
    /\ MaxFaults \in Nat /\ MaxCommands \in Nat

VARIABLES
    task,        \* reconciliation_tasks: stage and status
    stageRun,    \* the latest workflow_stage_runs row of each stage
    diffs,       \* difference_records of the task
    job,         \* analysis_jobs: the job of the workflow
    item,        \* analysis_work_items of the job
    finding,     \* analysis_results: what is recorded of each difference
    desk,        \* the memory of each analysis worker
    request,     \* the memory of each client's request
    faults,
    commands

taskVars  == <<task, stageRun, diffs>>
jobVars   == <<job, item, finding>>
boundVars == <<faults, commands>>

WorkflowStage == {"matching", "differences", "analysis"}
TaskStage     == {"snapshots", "matching", "differences_ready", "analysis_ready"}
TaskStatus    == {"ready", "processing", "failed"}
RunStatus     == {"absent", "running", "succeeded", "failed"}

NoRun   == [attempt |-> 0, status |-> "absent", retryable |-> FALSE]
AnyTask == [stage |-> "snapshots", status |-> "ready"]
NoJob   == [status |-> "absent", cancel |-> FALSE, total |-> 0, completed |-> 0,
            succeeded |-> 0, manual |-> 0]

\* What a request remembers: the task or the columns of the job it read, or
\* the stage run it lost.
Quiet == [pc |-> "idle", task |-> AnyTask, status |-> "absent", cancel |-> FALSE,
          completed |-> 0, stage |-> "matching", attempt |-> 0]

\* What a row holds after a column read as seen is assigned new.
Written(current, seen, new) == IF new = seen THEN current ELSE new

StageOf(taskStage) == CASE taskStage = "snapshots" -> "matching"
                       [] taskStage = "matching" -> "differences"
                       [] taskStage = "differences_ready" -> "analysis"

\* latest: stages are started in order, so the furthest one with a run.
LatestStage == CASE stageRun["analysis"].attempt > 0 -> "analysis"
                 [] stageRun["differences"].attempt > 0 -> "differences"
                 [] OTHER -> "matching"

CanRetry == /\ task.status = "failed"
            /\ stageRun[LatestStage].status = "failed"
            /\ stageRun[LatestStage].retryable

MayStart(stage) == stageRun[stage].status \in {"absent", "failed"}

\* start, with the outcome that the stage's transaction commits.
RunOf(stage, status, retryable) ==
    [stageRun EXCEPT ![stage] = [attempt |-> @.attempt + 1, status |-> status,
                                 retryable |-> retryable]]

-----------------------------------------------------------------------------
(* One stage of the workflow, from advance or from retry.                  *)

MatchingStage ==
    /\ task' = [stage |-> "matching", status |-> "ready"]
    /\ stageRun' = RunOf("matching", "succeeded", FALSE)
    /\ UNCHANGED <<diffs, job, item>>

DifferencesStage ==
    \E found \in Detection :
        /\ diffs' = diffs \cup found
        /\ task' = [stage |-> "differences_ready", status |-> "ready"]
        /\ stageRun' = RunOf("differences", "succeeded", FALSE)
        /\ UNCHANGED <<job, item>>

QueuedItem == [status |-> "queued", owner |-> "none", live |-> FALSE, attempts |-> 0]
NoItem     == [QueuedItem EXCEPT !.status = "absent"]

\* create_job finds the job of an earlier attempt by its idempotency key; a
\* job without differences is completed where it is created.
AnalysisStage ==
    /\ IF job.status = "absent"
         THEN /\ job' = [NoJob EXCEPT !.total = Cardinality(diffs),
                             !.status = IF diffs = {} THEN "completed" ELSE "queued"]
              /\ item' = [i \in Item |-> IF i \in diffs THEN QueuedItem ELSE NoItem]
         ELSE UNCHANGED <<job, item>>
    /\ task' = [task EXCEPT !.status = "processing"]
    /\ stageRun' = RunOf("analysis", "running", FALSE)
    /\ UNCHANGED diffs

\* An error of the stage's own work: the run and the task fail with it.
StageFails(stage) ==
    /\ faults < MaxFaults
    /\ faults' = faults + 1
    /\ \E retryable \in BOOLEAN : stageRun' = RunOf(stage, "failed", retryable)
    /\ task' = [task EXCEPT !.status = "failed"]
    /\ UNCHANGED <<diffs, job, item, request>>

\* An error of the database: everything is rolled back, and the lock is lost.
StageAborts(c, stage) ==
    /\ faults < MaxFaults
    /\ faults' = faults + 1
    /\ request' = [request EXCEPT ![c] = [Quiet EXCEPT
                       !.pc = "relock", !.stage = stage, !.attempt = stageRun[stage].attempt + 1]]
    /\ UNCHANGED <<taskVars, job, item>>

AdvanceStage(c, stage) ==
    /\ MayStart(stage)
    /\ \/ /\ \/ stage = "matching" /\ MatchingStage
             \/ stage = "differences" /\ DifferencesStage
             \/ stage = "analysis" /\ AnalysisStage
          /\ UNCHANGED <<request, faults>>
       \/ StageFails(stage)
       \/ StageAborts(c, stage)
    /\ UNCHANGED <<finding, desk, commands>>

Advance(c) ==
    /\ request[c].pc = "idle"
    /\ task.status # "failed"
    /\ task.stage # "analysis_ready"
    /\ AdvanceStage(c, StageOf(task.stage))

\* retry; a stage whose run may not start leaves only the task made ready.
RetryWorkflow(c) ==
    /\ request[c].pc = "idle"
    /\ CanRetry
    /\ IF task.stage # "analysis_ready" /\ MayStart(StageOf(task.stage))
         THEN AdvanceStage(c, StageOf(task.stage))
         ELSE /\ task' = [task EXCEPT !.status = "ready"]
              /\ UNCHANGED <<stageRun, diffs, jobVars, desk, request, boundVars>>

\* fail_after_rollback: another attempt may have been recorded meanwhile.
FailAfterRollback(c) ==
    LET r == request[c] IN
    /\ r.pc = "relock"
    /\ request' = [request EXCEPT ![c] = Quiet]
    /\ IF stageRun[r.stage].attempt >= r.attempt
         THEN UNCHANGED <<task, stageRun>>
         ELSE /\ \E retryable \in BOOLEAN :
                    stageRun' = RunOf(r.stage, "failed", retryable)
              /\ task' = [task EXCEPT !.status = "failed"]
    /\ UNCHANGED <<diffs, jobVars, desk, boundVars>>

-----------------------------------------------------------------------------
(* The endpoints beside the workflow: read the task, then lock it.         *)

ReadTask(c) ==
    /\ request[c].pc = "idle"
    /\ commands < MaxCommands
    /\ commands' = commands + 1
    /\ \E pc \in {"resolve", "detect"} :
          request' = [request EXCEPT ![c] = [Quiet EXCEPT !.pc = pc, !.task = task]]
    /\ UNCHANGED <<taskVars, jobVars, desk, faults>>

\* resolve: a task beyond the matching keeps its decisions; one before it, or
\* one whose analysis is ready, is matched (again).
Resolve(c) ==
    /\ request[c].pc = "resolve"
    /\ request' = [request EXCEPT ![c] = Quiet]
    /\ task' = IF request[c].task.stage \in {"matching", "differences_ready"}
                 THEN task ELSE [stage |-> "matching", status |-> "ready"]
    /\ UNCHANGED <<stageRun, diffs, jobVars, desk, boundVars>>

Detect(c) ==
    LET seen == request[c].task IN
    /\ request[c].pc = "detect"
    /\ request' = [request EXCEPT ![c] = Quiet]
    /\ IF seen.stage \in {"matching", "differences_ready"}
         THEN /\ \E found \in Detection : diffs' = diffs \cup found
              /\ task' = [stage |-> Written(task.stage, seen.stage, "differences_ready"),
                          status |-> Written(task.status, seen.status, "ready")]
         ELSE UNCHANGED <<task, diffs>>
    /\ UNCHANGED <<stageRun, jobVars, desk, boundVars>>

-----------------------------------------------------------------------------
(* sync_workflow: what a job's status, as the caller knows it, makes of the *)
(* task.                                                                   *)

Sync(status) ==
    IF stageRun["analysis"].attempt = 0 THEN UNCHANGED <<task, stageRun>> ELSE
    CASE status = "completed" ->
           /\ stageRun' = [stageRun EXCEPT !["analysis"].status = "succeeded",
                                           !["analysis"].retryable = FALSE]
           /\ task' = [stage |-> "analysis_ready", status |-> "ready"]
      [] status = "canceled" ->
           /\ stageRun' = [stageRun EXCEPT !["analysis"].status = "failed",
                                           !["analysis"].retryable = TRUE]
           /\ task' = [stage |-> "differences_ready", status |-> "failed"]
      [] OTHER ->
           /\ stageRun' = [stageRun EXCEPT !["analysis"].status = "running",
                                           !["analysis"].retryable = FALSE]
           /\ task' = [stage |-> "differences_ready", status |-> "processing"]

WorkflowTypeOK ==
    /\ task \in [stage : TaskStage, status : TaskStatus]
    /\ stageRun \in [WorkflowStage -> [attempt : Nat, status : RunStatus, retryable : BOOLEAN]]
    /\ diffs \subseteq Item
    /\ faults \in Nat /\ commands \in Nat

WorkflowInit ==
    /\ task = AnyTask
    /\ stageRun = [s \in WorkflowStage |-> NoRun]
    /\ diffs = {}
    /\ faults = 0
    /\ commands = 0

WorkflowNext ==
    \E c \in Client : \/ Advance(c) \/ RetryWorkflow(c) \/ FailAfterRollback(c)
                      \/ ReadTask(c) \/ Resolve(c) \/ Detect(c)
=============================================================================
