---------------------------- MODULE AnalysisJobs ----------------------------
(***************************************************************************)
(* The analysis job of a legacy task: work items leased by workers, one    *)
(* recorded analysis for each difference, and the commands that cancel a   *)
(* job or retry it.                                                        *)
(*                                                                         *)
(* A worker's iteration (AnalysisWorker.run_once) is split at its          *)
(* transactions: claim, analysis, completion, and the two statements that  *)
(* carry the job's state to the task.  An exception ends the iteration.    *)
(***************************************************************************)
EXTENDS TaskWorkflow

CONSTANTS
    Analyst,        \* analysis workers
    MaxAttempts     \* analysis_work_items.max_attempts

ASSUME JobsAssumption == WorkflowAssumption /\ MaxAttempts \in Nat /\ "none" \notin Analyst

vars == <<task, stageRun, diffs, job, item, finding, desk, request, faults, commands>>

JobStatus  == {"absent", "queued", "running", "completed", "canceled"}
Settled    == {"succeeded", "manual_required"}
ItemStatus == {"absent", "queued", "retry_wait", "running", "canceled"} \cup Settled
Finding    == {"none", "auto", "manual"}
Job        == [status : JobStatus, cancel : BOOLEAN, total : Nat, completed : Nat,
               succeeded : Nat, manual : Nat]

AtRest == [pc |-> "idle", item |-> "none", seen |-> "absent"]

Open == job.status \in {"queued", "running"} /\ ~job.cancel

\* Mutant of Holds: an outcome is accepted from anybody.
HoldsUnchecked(w, i) == TRUE

\* The lease of the item is the worker's, and has not expired.
Holds(w, i) == item[i].status = "running" /\ item[i].owner = w /\ item[i].live

\* Mutant of Claimable: a dead lease is not taken over.
ClaimableQueued(i) == item[i].status \in {"queued", "retry_wait"}

Claimable(i) == \/ item[i].status \in {"queued", "retry_wait"}
                \/ item[i].status = "running" /\ ~item[i].live

-----------------------------------------------------------------------------
(* A worker's iteration.                                                   *)

\* claim_next_available lists the open jobs without a lock.
Poll(w) ==
    /\ desk[w].pc = "idle"
    /\ Open
    /\ desk' = [desk EXCEPT ![w].pc = "claim"]
    /\ UNCHANGED <<taskVars, jobVars, request, boundVars>>

\* claim_next on an item of a job that was cancelled meanwhile cancels it.
Claim(w) ==
    /\ desk[w].pc = "claim"
    /\ \/ \E i \in Item :
            /\ Claimable(i)
            /\ IF job.cancel
                 THEN /\ item' = [item EXCEPT ![i].status = "canceled"]
                      /\ desk' = [desk EXCEPT ![w] = AtRest]
                      /\ UNCHANGED job
                 ELSE /\ item' = [item EXCEPT ![i] = [status |-> "running", owner |-> w,
                                     live |-> TRUE, attempts |-> @.attempts + 1]]
                      /\ job' = IF job.status = "queued" THEN [job EXCEPT !.status = "running"]
                                ELSE job
                      /\ desk' = [desk EXCEPT ![w].pc = "analyse", ![w].item = i]
       \/ /\ ~\E i \in Item : Claimable(i)
          /\ desk' = [desk EXCEPT ![w] = AtRest]
          /\ UNCHANGED <<item, job>>
    /\ UNCHANGED <<taskVars, finding, request, boundVars>>

\* The analysis that is recorded first stays: _save and analyze_v3 return it.
Record(i, kind) ==
    finding' = IF finding[i] = "none" THEN [finding EXCEPT ![i] = kind] ELSE finding

\* analyze_v3 answers, or has failed for good and persist_v3_fallback does.
Analyse(w) ==
    /\ desk[w].pc = "analyse"
    /\ \E kind \in {"auto", "manual"} : Record(desk[w].item, kind)
    /\ desk' = [desk EXCEPT ![w].pc = "complete"]
    /\ UNCHANGED <<taskVars, job, item, request, boundVars>>

\* A transient failure before the last attempt; nothing is recorded.
ScheduleRetry(w) ==
    LET i == desk[w].item IN
    /\ desk[w].pc = "analyse"
    /\ finding[i] = "none"
    /\ item[i].attempts < MaxAttempts
    /\ desk' = [desk EXCEPT ![w] = AtRest]
    /\ item' = IF item[i].owner = w /\ item[i].live
                 THEN [item EXCEPT ![i].status = "retry_wait", ![i].owner = "none",
                                   ![i].live = FALSE]
                 ELSE item
    /\ UNCHANGED <<taskVars, job, finding, request, boundVars>>

\* Mutant of Outcome: the analysis' verdict in place of the item's status.
OutcomeAsFound(i) == finding[i]

Outcome(i) == IF finding[i] = "auto" THEN "succeeded" ELSE "manual_required"

\* complete_item: the item's outcome and the job's counters.
CompleteItem(w) ==
    LET i == desk[w].item
        done == job.completed + 1
    IN
    /\ desk[w].pc = "complete"
    /\ IF Holds(w, i)
         THEN /\ item' = [item EXCEPT ![i].status = Outcome(i), ![i].owner = "none",
                                      ![i].live = FALSE]
              /\ job' = [job EXCEPT
                    !.completed = done,
                    !.succeeded = IF Outcome(i) = "succeeded" THEN @ + 1 ELSE @,
                    !.manual = IF Outcome(i) = "manual_required" THEN @ + 1 ELSE @,
                    !.status = IF done >= job.total /\ ~job.cancel /\ @ # "canceled"
                                 THEN "completed" ELSE @]
              /\ desk' = [desk EXCEPT ![w].pc = "read_job", ![w].item = "none"]
         ELSE /\ desk' = [desk EXCEPT ![w] = AtRest]
              /\ UNCHANGED <<item, job>>
    /\ UNCHANGED <<taskVars, finding, request, boundVars>>

\* Mutant of ReadJob: the finished item is taken for the finished job.
ReadJobAsDone(w) ==
    /\ desk[w].pc = "read_job"
    /\ desk' = [desk EXCEPT ![w] = [pc |-> "sync", item |-> "none", seen |-> "completed"]]
    /\ UNCHANGED <<taskVars, jobVars, request, boundVars>>

\* _sync_workflow reads the job first and locks the task after it.
ReadJob(w) ==
    /\ desk[w].pc = "read_job"
    /\ desk' = [desk EXCEPT ![w] = [pc |-> "sync", item |-> "none", seen |-> job.status]]
    /\ UNCHANGED <<taskVars, jobVars, request, boundVars>>

SyncTask(w) ==
    /\ desk[w].pc = "sync"
    /\ Sync(desk[w].seen)
    /\ desk' = [desk EXCEPT ![w] = AtRest]
    /\ UNCHANGED <<diffs, jobVars, request, boundVars>>

Crash(w) ==
    /\ desk[w].pc # "idle"
    /\ faults < MaxFaults
    /\ faults' = faults + 1
    /\ desk' = [desk EXCEPT ![w] = AtRest]
    /\ UNCHANGED <<taskVars, jobVars, request, commands>>

AtWork(i) == \E w \in Analyst : /\ desk[w].item = i /\ item[i].owner = w
                                /\ desk[w].pc \in {"analyse", "complete"}

\* A lease lapses: at once if nobody renews it, by a stall if the worker lives.
Lapse(i) ==
    /\ item[i].live
    /\ item' = [item EXCEPT ![i].live = FALSE]
    /\ IF AtWork(i) THEN faults < MaxFaults /\ faults' = faults + 1 ELSE UNCHANGED faults
    /\ UNCHANGED <<taskVars, job, finding, desk, request, commands>>

-----------------------------------------------------------------------------
(* The operator's commands: read the job, then lock it.                    *)

OpenCommand(c) ==
    /\ request[c].pc = "idle"
    /\ job.status # "absent"
    /\ commands < MaxCommands
    /\ commands' = commands + 1
    /\ \E pc \in {"cancel", "retry"} :
          request' = [request EXCEPT ![c] = [Quiet EXCEPT !.pc = pc, !.status = job.status,
                                     !.cancel = job.cancel, !.completed = job.completed]]
    /\ UNCHANGED <<taskVars, jobVars, desk, faults>>

CancelJob(c) ==
    LET seen == request[c]
        known == IF seen.status \in {"queued", "running"} THEN "canceled" ELSE seen.status
    IN
    /\ request[c].pc = "cancel"
    /\ job' = [job EXCEPT !.cancel = Written(@, seen.cancel, TRUE),
                          !.status = Written(@, seen.status, known)]
    /\ Sync(known)
    /\ request' = [request EXCEPT ![c] = Quiet]
    /\ UNCHANGED <<diffs, item, finding, desk, boundVars>>

\* Mutant of Retryable: what a person has to decide is analysed again too.
RetryableManual(i) == item[i].status \in {"canceled", "manual_required"}

\* The items retry_failed selects; none ever fails.
Retryable(i) == item[i].status = "canceled"

\* retry_failed: the selected items are queued again.
RetryJob(c) ==
    LET seen == request[c]
        again == {i \in Item : Retryable(i)}
        known == CASE seen.completed >= job.total -> "completed"
                   [] seen.completed \in 1..(job.total - 1) -> "running"
                   [] OTHER -> "queued"
    IN
    /\ request[c].pc = "retry"
    /\ IF again = {} /\ seen.status # "canceled"
         THEN /\ UNCHANGED <<job, item>>
              /\ Sync(seen.status)
         ELSE /\ item' = [i \in Item |-> IF i \in again
                              THEN [item[i] EXCEPT !.status = "queued", !.owner = "none",
                                                   !.live = FALSE] ELSE item[i]]
              /\ job' = [job EXCEPT !.cancel = Written(@, seen.cancel, FALSE),
                                    !.status = Written(@, seen.status, known)]
              /\ Sync(known)
    /\ request' = [request EXCEPT ![c] = Quiet]
    /\ UNCHANGED <<diffs, finding, desk, boundVars>>

-----------------------------------------------------------------------------
JobsTypeOK ==
    /\ WorkflowTypeOK
    /\ job \in Job
    /\ item \in [Item -> [status : ItemStatus, owner : Analyst \cup {"none"}, live : BOOLEAN,
                          attempts : Nat]]
    /\ finding \in [Item -> Finding]
    /\ desk \in [Analyst -> [pc : {"idle", "claim", "analyse", "complete", "read_job", "sync"},
                             item : Item \cup {"none"}, seen : JobStatus]]
    /\ request \in [Client -> [pc : {"idle", "cancel", "retry", "resolve", "detect", "relock"},
                               task : [stage : TaskStage, status : TaskStatus], status : JobStatus,
                               cancel : BOOLEAN, completed : Nat,
                               stage : WorkflowStage, attempt : Nat]]

JobsInit ==
    /\ WorkflowInit
    /\ job = NoJob
    /\ item = [i \in Item |-> NoItem]
    /\ finding = [i \in Item |-> "none"]
    /\ desk = [w \in Analyst |-> AtRest]
    /\ request = [c \in Client |-> Quiet]

WorkerStep(w) == \/ Poll(w) \/ Claim(w) \/ Analyse(w) \/ ScheduleRetry(w)
                 \/ CompleteItem(w) \/ ReadJob(w) \/ SyncTask(w)

JobsNext ==
    \/ WorkflowNext
    \/ \E w \in Analyst : WorkerStep(w) \/ Crash(w)
    \/ \E i \in Item : Lapse(i)
    \/ \E c \in Client : OpenCommand(c) \/ CancelJob(c) \/ RetryJob(c)

\* run_worker_loop survives every exception; leases lapse with time; a
\* request that was begun is finished.
JobsFairness ==
    /\ \A w \in Analyst : WF_vars(WorkerStep(w))
    /\ \A i \in Item : WF_vars(Lapse(i) /\ ~AtWork(i))
    /\ \A c \in Client : WF_vars(CancelJob(c) \/ RetryJob(c) \/ FailAfterRollback(c)
                                 \/ Resolve(c) \/ Detect(c))

JobsSpec == JobsInit /\ [][JobsNext]_vars /\ JobsFairness

-----------------------------------------------------------------------------
(* Properties.                                                             *)

ItemsIn(statuses) == {i \in Item : item[i].status \in statuses}

\* The counters of a job are the outcomes of its items, whoever finished,
\* cancelled or requeued them (complete_item and retry_failed change both).
CountersAddUp ==
    /\ job.completed = Cardinality(ItemsIn(Settled))
    /\ job.succeeded = Cardinality(ItemsIn({"succeeded"}))
    /\ job.manual = Cardinality(ItemsIn({"manual_required"}))
    /\ job.total = Cardinality(ItemsIn(ItemStatus \ {"absent"}))

\* An outcome is final: neither a worker whose lease lapsed nor a cancelled
\* or retried job changes it (complete_item's checks, retry_failed's filter).
OutcomesAreFinal ==
    [][\A i \in Item : item[i].status \in Settled => item'[i].status = item[i].status]_vars

\* An item's outcome is that of the one analysis recorded for its
\* difference, also if another worker recorded it (_save, _resolution_outcome).
OutcomeMatchesAnalysis ==
    \A i \in Item : item[i].status \in Settled =>
        /\ finding[i] # "none"
        /\ (item[i].status = "succeeded") = (finding[i] = "auto")

\* Both: the counters of an analysis job are its items' outcomes, and these are
\* the outcomes of the one recorded analysis.
JobsAddUp == CountersAddUp /\ OutcomeMatchesAnalysis

\* A task whose analysis is ready has an analysis job with every item
\* settled (sync_workflow), in every order of workers and commands.
ReadyMeansAnalysed ==
    task.stage = "analysis_ready" => ItemsIn(ItemStatus \ (Settled \cup {"absent"})) = {}

\* A stage of the workflow that succeeded is never failed or run again by a
\* late error of another request (start, fail_after_rollback).
SucceededStagesStay ==
    [][\A s \in {"matching", "differences"} :
          stageRun[s].status = "succeeded" => stageRun'[s] = stageRun[s]]_vars

\* Unless the job is cancelled, every queued item gets its outcome, in spite
\* of crashes, lapsed leases and retries (claim_next takes over a dead lease).
ItemsSettle ==
    \A i \in Item : item[i].status \in {"queued", "retry_wait", "running"}
                      ~> (item[i].status \in Settled \/ job.cancel)
=============================================================================
