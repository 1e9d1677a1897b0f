--------------------------- MODULE RollbackCycles ---------------------------
(***************************************************************************)
(* The Agent tasks on one target data source of a tenant: synchronisations *)
(* and the rollbacks of their writes, with the row of the source's sync    *)
(* cycle (agent_rollback_cycles), which says whether a rollback is still   *)
(* allowed, and the deletion of tasks that left no trace in the target.    *)
(*                                                                         *)
(* Both a preview and its confirmation read the latest sync without a lock *)
(* and then lock the cycle, hence two steps each.  The cycle row exists    *)
(* from the first full sync on; databases with older reports and no cycle  *)
(* row (_historical_blocked) are not modelled.                             *)
(***************************************************************************)
EXTENDS Naturals, FiniteSets

CONSTANTS MaxTasks,        \* bound: tasks ever created on the data source
          DatabaseTarget   \* whether the target is a database

ASSUME CyclesAssumption == MaxTasks \in Nat /\ DatabaseTarget \in BOOLEAN

Slot == 1..MaxTasks

VARIABLES tasks,    \* [Slot -> task], in the order of creation
          cycle,    \* generation (0: no row) and completed_rollback_task_id
          school,   \* the task that holds the school lock, 0 for none
          asked     \* requests between their two reads: <<command, task>>

cycleVars == <<tasks, cycle, school, asked>>

Phases  == {"absent", "preview", "analysing", "executing", "reporting", "ended", "deleted"}
Reports == {"none", "full", "completed", "skipped", "other"}
Unused  == [kind |-> "none", source |-> 0, generation |-> 0, phase |-> "absent",
            blocked |-> FALSE, wrote |-> FALSE, report |-> "none"]

CyclesTypeOK ==
  /\ tasks \in [Slot -> [kind : {"none", "sync", "rollback"}, source : {0} \cup Slot,
                         generation : Nat, phase : Phases, blocked : BOOLEAN,
                         wrote : BOOLEAN, report : Reports]]
  /\ cycle \in [generation : Nat, completed : {0} \cup Slot]
  /\ school \in {0} \cup Slot
  /\ asked \subseteq {"preview", "confirm"} \X Slot

CyclesInit ==
  /\ tasks = [t \in Slot |-> Unused]
  /\ cycle = [generation |-> 0, completed |-> 0]
  /\ school = 0
  /\ asked = {}

Exists(t) == tasks[t].phase \notin {"absent", "deleted"}
IsSync(t) == tasks[t].kind = "sync"

\* The slot of the next task: created_at grows.
IsNext(n) == \A t \in Slot : tasks[t].phase = "absent" <=> t >= n

\* _latest_sync_task_id is s.
IsLatest(s) ==
  /\ IsSync(s) /\ Exists(s)
  /\ \A t \in Slot : IsSync(t) /\ Exists(t) => t <= s

-----------------------------------------------------------------------------
(* Synchronisations and the life of a task.                                *)

\* AgentTaskService.create with record_sync_started and start, one
\* transaction: without the lock nothing of it remains.
CreateSync(n) ==
  /\ IsNext(n)
  /\ school = 0
  /\ tasks' = [tasks EXCEPT ![n] = [Unused EXCEPT !.kind = "sync", !.phase = "analysing"]]
  /\ cycle' = IF cycle.generation = 0 THEN cycle
              ELSE [generation |-> cycle.generation + 1, completed |-> 0]
  /\ school' = n
  /\ UNCHANGED asked

Advance(t) ==
  /\ \E step \in {<<"analysing", "executing">>, <<"analysing", "reporting">>,
                  <<"executing", "reporting">>} :
       /\ tasks[t].phase = step[1] /\ ~tasks[t].blocked
       /\ tasks' = [tasks EXCEPT ![t].phase = step[2]]
  /\ UNCHANGED <<cycle, school, asked>>

\* A write to the target, or a restore of one, that the task's own records name:
\* a restore found already made by a replay is not one.
WriteTarget(t) ==
  /\ tasks[t].phase = "executing" /\ ~tasks[t].blocked
  /\ ~tasks[t].wrote
  /\ tasks' = [tasks EXCEPT ![t].wrote = TRUE]
  /\ UNCHANGED <<cycle, school, asked>>

\* block_model_failure; only a termination ends it.
Block(t) ==
  /\ tasks[t].phase \in {"analysing", "executing", "reporting"}
  /\ ~tasks[t].blocked /\ tasks[t].report = "none"
  /\ tasks' = [tasks EXCEPT ![t].blocked = TRUE]
  /\ UNCHANGED <<cycle, school, asked>>

Terminate(t) ==
  /\ tasks[t].phase \in {"analysing", "executing", "reporting"}
  /\ tasks[t].report = "none"
  /\ tasks' = [tasks EXCEPT ![t].phase = "reporting", ![t].blocked = FALSE,
                            ![t].report = "other"]
  /\ UNCHANGED <<cycle, school, asked>>

\* What AgentReportingService.generate may say: is_fully_successful_sync,
\* rollback_terminal_state and _rollback_report_is_retryable.
MayReport(t, report) ==
  \/ report = "other"
  \/ report = "full" /\ IsSync(t) /\ tasks[t].wrote
  \/ report = "completed" /\ ~IsSync(t)
  \/ report = "skipped" /\ ~IsSync(t) /\ ~tasks[t].wrote

\* record_fully_successful_sync, record_completed_rollback.
Recorded(t, report) ==
  LET generation == IF cycle.generation = 0 THEN 1 ELSE cycle.generation IN
  IF report = "full" THEN [generation |-> generation, completed |-> 0]
  ELSE IF report = "completed" /\ cycle.completed = 0
         THEN [generation |-> generation, completed |-> t]
  ELSE cycle

Report(t) ==
  /\ tasks[t].phase = "reporting" /\ ~tasks[t].blocked
  /\ tasks[t].report = "none"
  /\ \E report \in Reports \ {"none"} :
       /\ MayReport(t, report)
       /\ tasks' = [tasks EXCEPT ![t].report = report]
       /\ cycle' = Recorded(t, report)
  /\ UNCHANGED <<school, asked>>

\* The terminal transition; a failed run has no report.
End(t) ==
  /\ \/ tasks[t].phase = "reporting" /\ tasks[t].report # "none"
     \/ tasks[t].phase \in {"analysing", "executing", "reporting"} /\ ~tasks[t].blocked
        /\ tasks[t].report = "none"
  /\ tasks' = [tasks EXCEPT ![t].phase = "ended"]
  /\ school' = IF school = t THEN 0 ELSE school
  /\ UNCHANGED <<cycle, asked>>

-----------------------------------------------------------------------------
(* Rollbacks.                                                              *)

\* The newest rollback of s that still exists.
IsNewestRollback(r, s) ==
  /\ tasks[r].kind = "rollback" /\ tasks[r].source = s /\ Exists(r)
  /\ \A t \in Slot : tasks[t].kind = "rollback" /\ tasks[t].source = s /\ Exists(t) => t <= r

\* A rollback that skipped every operation may be repeated on a database.
Retryable(r) ==
  DatabaseTarget /\ tasks[r].phase = "ended" /\ tasks[r].report = "skipped"

\* Mutant of Available: a preview of an earlier generation is accepted.
AvailableOnce(generation) == cycle.completed = 0

\* Under the lock of the cycle row: ensure_available's second half.
Available(generation) == cycle.generation = generation /\ cycle.completed = 0

AskPreview(s) ==
  /\ tasks[s].report = "full"
  /\ IsLatest(s)
  /\ asked' = asked \cup {<<"preview", s>>}
  /\ UNCHANGED <<tasks, cycle, school>>

\* create_rollback_task inserts a task, or answers with the one that exists.
Preview(s) ==
  /\ <<"preview", s>> \in asked
  /\ asked' = asked \ {<<"preview", s>>}
  /\ IF /\ cycle.completed = 0
        /\ \A r \in Slot : IsNewestRollback(r, s) =>
             Available(tasks[r].generation) /\ Retryable(r)
        /\ school = 0
       THEN \E n \in Slot :
              /\ IsNext(n)
              /\ tasks' = [tasks EXCEPT ![n] =
                   [Unused EXCEPT !.kind = "rollback", !.source = s, !.phase = "preview",
                                  !.generation = cycle.generation]]
       ELSE UNCHANGED tasks
  /\ UNCHANGED <<cycle, school>>

AskConfirm(r) ==
  /\ tasks[r].phase = "preview"
  /\ IsLatest(tasks[r].source)
  /\ asked' = asked \cup {<<"confirm", r>>}
  /\ UNCHANGED <<tasks, cycle, school>>

\* Mutant of ConfirmRollback: the preview's generation is not checked again.
ConfirmAnyRollback(r) ==
  /\ <<"confirm", r>> \in asked
  /\ asked' = asked \ {<<"confirm", r>>}
  /\ IF tasks[r].phase = "preview" /\ cycle.completed = 0 /\ school = 0
       THEN /\ tasks' = [tasks EXCEPT ![r].phase = "analysing"]
            /\ school' = r
       ELSE UNCHANGED <<tasks, school>>
  /\ UNCHANGED cycle

ConfirmRollback(r) ==
  /\ <<"confirm", r>> \in asked
  /\ asked' = asked \ {<<"confirm", r>>}
  /\ IF tasks[r].phase = "preview" /\ Available(tasks[r].generation) /\ school = 0
       THEN /\ tasks' = [tasks EXCEPT ![r].phase = "analysing"]
            /\ school' = r
       ELSE UNCHANGED <<tasks, school>>
  /\ UNCHANGED cycle

\* reject_agent_rollback of a task of the fixed phases.
RejectRollback(r) ==
  /\ tasks[r].phase = "preview"
  /\ tasks' = [tasks EXCEPT ![r].phase = "ended", ![r].report = "other"]
  /\ UNCHANGED <<cycle, school, asked>>

-----------------------------------------------------------------------------
(* TaskDeletionService.delete: the task's rows, its lock, and its place in *)
(* the cycle, in one transaction.  A rollback has no governance operations *)
(* of its own: what it wrote protects it once its report names it, which   *)
(* the report of one that was terminated or ended in conflicts need not.   *)

Deletable(t) ==
  /\ Exists(t)
  /\ tasks[t].phase = "executing" => tasks[t].blocked
  /\ tasks[t].wrote => ~IsSync(t) /\ tasks[t].report \in {"none", "other"}

Delete(t) ==
  /\ Deletable(t)
  /\ tasks' = [tasks EXCEPT ![t].phase = "deleted"]
  /\ school' = IF school = t THEN 0 ELSE school
  /\ cycle' = IF cycle.completed = t THEN [cycle EXCEPT !.completed = 0] ELSE cycle
  /\ UNCHANGED asked

CyclesNext ==
  \E t \in Slot :
    \/ CreateSync(t) \/ Advance(t) \/ WriteTarget(t) \/ Block(t) \/ Terminate(t)
    \/ Report(t) \/ End(t)
    \/ AskPreview(t) \/ Preview(t) \/ AskConfirm(t) \/ ConfirmRollback(t)
    \/ RejectRollback(t) \/ Delete(t)

CyclesSpec == CyclesInit /\ [][CyclesNext]_cycleVars

-----------------------------------------------------------------------------
(* Properties.                                                             *)

Underway(t) == tasks[t].phase \in {"analysing", "executing", "reporting"}

\* No rollback runs over the writes of a later sync: ensure_available's two
\* reads, the generation and the deletion of syncs together.
RollbackTargetsLatestSync ==
  \A r, s \in Slot :
    tasks[r].kind = "rollback" /\ Underway(r) /\ IsSync(s) /\ s > tasks[r].source =>
      ~tasks[s].wrote

\* The writes of a sync are taken back by one completed rollback at most, in
\* whatever order tasks are previewed, confirmed, repeated and deleted
\* (record_completed_rollback, _rollback_report_is_retryable, delete).
OneRollbackPerSync ==
  \A r, q \in Slot :
    /\ {tasks[r].report, tasks[q].report} = {"completed"}
    /\ tasks[r].wrote /\ tasks[q].wrote
    /\ tasks[r].source = tasks[q].source
    => r = q

\* Both: a rollback takes back the writes of the latest sync, and once.
RollbacksUndoTheLatestSync == RollbackTargetsLatestSync /\ OneRollbackPerSync

\* Only one task of the school is under way, and while a rollback is under
\* way its preview is still the valid one (acquire_school_lock,
\* record_sync_started, require_rollback_cycle_generation).
PreviewStaysValid ==
  \A r \in Slot :
    tasks[r].kind = "rollback" /\ Underway(r) =>
      /\ school = r
      /\ tasks[r].report = "none" => Available(tasks[r].generation)
=============================================================================
