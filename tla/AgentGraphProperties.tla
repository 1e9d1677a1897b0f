------------------------ MODULE AgentGraphProperties ------------------------
(***************************************************************************)
(* What the controlled Agent runtime promises, stated over AgentGraph.     *)
(***************************************************************************)
EXTENDS AgentGraph

-----------------------------------------------------------------------------
(* Invariants *)

\* A run owns its school's lock exactly while it is running, waiting for a human
\* or blocked and has not failed: every end of a run (completed, terminated, either
\* failure) gives the school back, nothing that only pauses it does, and a failed
\* run never gets it back, not even one that a late decision calls running again.
SchoolHeldWhileActive ==
    \A r \in Run : status[r] \in Active /\ error[r] = "none" <=> lock[TenantOf[r]] = r

\* Fencing works: the worker that passes validate_fencing has the run's current
\* node and cursor, and two iterations that claimed the same run never hold the
\* same token, so that at most one of them can commit.
FencedWorkerIsCurrent ==
    /\ \A w \in Worker : Fenced(w) => Fresh(w) /\ HoldsSchool(w)
    /\ \A v, w \in Worker :
           Busy(v) /\ Busy(w) /\ v # w /\ ctx[v].run = ctx[w].run
               => ctx[v].token # ctx[w].token

\* Workers that execute or commit at the same cursor, one of them late, carry
\* out the same frozen action; only the termination action may differ from it.
SameActionPerCursor ==
    \A w \in Worker :
        LET r == ctx[w].run
        IN  /\ ctx[w].pc \in {"decide", "insert", "execute", "commit"}
            /\ cursor[r] = ctx[w].cursor
            => ctx[w].act \in {frozen[r], TerminateAction}

\* Some gate of the run's node can still be decided, through its endpoint or by
\* confirming a clarification, for the first time or once more; and every conflict
\* that was not answered yet is in an open gate, so that it can be.
CanBeWoken(r) ==
    \E x \in gates[r] :
        /\ x.kind # "termination_confirmation"
        /\ Actionable(r, x)
        /\ x.kind = "identity_conflict" =>
               /\ \E k \in Clarification : clar[r][k] \in Unresolved \cup {"settled"}
               /\ \A k \in Clarification : clar[r][k] = "pending" =>
                      \E y \in Pending(r, "identity_conflict") : k \in y.member

\* A pause for identity conflicts ends with the last confirmation: while no
\* confirmation is in flight, a run that waits for them has an open conflict.
ConfirmedConflictsResume ==
    \A r \in Run :
        /\ status[r] = "waiting_human" /\ node[r] = "resolve_identity_conflicts"
        /\ confirming[r] = {}
        => \E k \in Clarification : clar[r][k] \in Unresolved

TerminationRefused(r) ==
    \E x \in gates[r] : x.kind = "termination_confirmation" /\ x.st = "rejected"

\* A run that waits for a human can be woken.
PausedRunHasGate ==
    \A r \in Run : status[r] = "waiting_human" => CanBeWoken(r)

\* A run that waits for a human can be woken, unless an operator has refused a
\* termination confirmation of it, in whatever order the operators decide its
\* gates, groups and clarifications.
UnrefusedPauseHasGate ==
    \A r \in Run :
        status[r] = "waiting_human" /\ ~TerminationRefused(r) => CanBeWoken(r)

\* What a plan executes was approved and stays approved: an approval group that
\* is pending or rejected is never among the groups of the latest plan.  Only a
\* group endpoint, which trusts the status it loaded, or a gate decided after it,
\* can take an approval back.
PlanOnlyApproved ==
    \A r \in Run : \A g \in plan[r].approved :
        \/ groups[r][g] = "approved"
        \/ LegacyApprovals /\ groups[r][g] = "rejected"

\* Without an approved rollback gate and the approval of every conflict found,
\* no restore operation has been written to the target.
RestoreWasApproved ==
    \A r \in Run : "restore" \in applied[r] =>
        /\ ConflictsApproved(r)
        /\ \E x \in gates[r] : x.kind = "rollback_approval" /\ x.st = "approved"

\* A run reaches its end only behind a committed report: completed with a report
\* of its own graph path, terminated with some report of the task.
ReportPrecedesEnd ==
    \A r \in Run :
        /\ status[r] = "completed" =>
               report[r] \in {"completed", "abnormal_input", "rollback"}
        /\ status[r] = "terminated" => report[r] # "none"

-----------------------------------------------------------------------------
(* Action properties *)

\* Every transition of a started run advances the cursor by one, along an edge
\* that was frozen and decided at that cursor; only draining for termination and
\* blocking on a model failure may skip the decision.
TransitionsFollowDecisions ==
    [][\A r \in Run : cursor[r] >= 2 /\ cursor'[r] # cursor[r] =>
         /\ cursor'[r] = cursor[r] + 1
         /\ \/ node'[r] \in {"drain_current_atomic_unit", "blocked_model_error"}
            \/ /\ cursor[r] \in decided[r]
               /\ frozen[r].to = node'[r]
               /\ frozen[r] \in ActionsAt(VersionOf[r], node[r])]_vars

\* A run has ended: its status says so, or said so when it failed.
HasEnded(r) == status[r] \in Terminal \/ error[r] # "none"

\* What a step leaves of the runs that have ended.
KeepsEndedRuns ==
    \A r \in Run : HasEnded(r) =>
        /\ status'[r] # status[r] => status[r] = "failed" /\ status'[r] = "running"
        /\ node'[r] = node[r] /\ cursor'[r] = cursor[r] /\ error'[r] = error[r]
        /\ (lock'[TenantOf[r]] = r => lock[TenantOf[r]] = r)

\* Nothing that is still in flight when a run ends changes its place in the graph
\* or its error, takes the school for it again, or changes its status, except that
\* a decision whose request loaded a failed run before may call it running.
EndedRunsStayEnded == [][KeepsEndedRuns]_vars

\* "Terminal runs are immutable", without that exception.
TerminalRunsAreImmutable ==
    [][\A r \in Run : status[r] \in Terminal => status'[r] = status[r]]_vars

\* A human decision of the node the run is at is still open.
Undecided(r) ==
    \E x \in gates[r] :
        /\ x.st = "pending"
        /\ x.at + 1 = cursor[r]
        /\ node[r] = GateNode(x.kind)
        /\ x.kind = "high_risk_approval" => groups[r][x.member] = "pending"

Leaves(r) ==
    /\ node'[r] # node[r]
    /\ node'[r] \notin {"drain_current_atomic_unit", "blocked_model_error"}

\* No run leaves a human gate node for the next business node before its gates
\* are decided, unless an operator refused a termination confirmation.
GatesAreWaitedFor ==
    [][\A r \in Run : Undecided(r) /\ Leaves(r) => TerminationRefused(r)]_vars

\* The design's wording, without that exception.
GatesAreAlwaysWaitedFor ==
    [][\A r \in Run : ~(Undecided(r) /\ Leaves(r))]_vars

\* Once termination is asked for, no new target write begins: the termination
\* action itself writes nothing to the target.
TerminationWritesNothing ==
    [][\A w \in Worker :
         ctx[w].act = TerminateAction /\ ctx'[w] # ctx[w] => applied' = applied]_vars

\* The target is written only by the run that holds its school.
TargetWrittenUnderLock ==
    [][\A r \in Run : applied'[r] # applied[r] => lock[TenantOf[r]] = r]_vars

-----------------------------------------------------------------------------
(* Liveness *)

\* A running run does not keep running: it ends, blocks, or waits for a human,
\* whatever crashes, stalls and lost claims a bounded number of faults brings.
RunSettles == \A r \in Run : status[r] = "running" ~> status[r] # "running"

\* A requested termination of a started run ends it.
TerminationEnds == \A r \in Run : term[r] /\ status[r] \in Active ~> status[r] \in Terminal

-----------------------------------------------------------------------------
(* Refinement *)

\* A run with an error has failed, whatever its status says.
PhaseOf(s, e) ==
    IF e # "none" THEN "failed"
    ELSE IF s \in Active THEN "active" ELSE IF s \in Terminal THEN s ELSE "new"

Schools == INSTANCE SchoolRuns WITH
    School <- Tenant, SchoolOf <- TenantOf, None <- NoRun,
    phase <- [r \in Run |-> PhaseOf(status[r], error[r])], holder <- lock, place <- cursor

\* The runtime with its workers, lapsed leases, crashes and operators is, to a
\* school, what SchoolRuns says: whatever is paused, woken, fenced off or
\* repeated, one run at a time works for it, step by step, and ends once.
RefinesSchoolRuns == Schools!SchoolSpec

-----------------------------------------------------------------------------
(* Conjunctions for runs that repeat properties on another graph *)

\* The attempts at a cursor agree and a pause can be ended, on the sync graph.
SyncRunIsSafe == TypeOK /\ SameActionPerCursor /\ PausedRunHasGate

\* Plans, reports, transitions, gates and pauses in every order of operators'
\* commands.
OperatorsKeepTheOrder ==
    /\ [](PlanOnlyApproved /\ ReportPrecedesEnd /\ UnrefusedPauseHasGate)
    /\ TransitionsFollowDecisions /\ GatesAreWaitedFor
=============================================================================
