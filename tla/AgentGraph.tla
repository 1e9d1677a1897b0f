----------------------------- MODULE AgentGraph -----------------------------
(***************************************************************************)
(* The durable, controlled Agent runtime: runs that walk a versioned state *)
(* graph, workers that lease a run and carry it one transition further,    *)
(* the per-school lock that only one run may hold, and the operator API    *)
(* that decides human gates, clarifications and termination.               *)
(*                                                                         *)
(* A worker iteration (AgentGraphWorker.run_once) is split at its database *)
(* transactions: everything between two of them may interleave with other  *)
(* workers, with operators, with a lapse of the lease and with a crash.    *)
(* Rows of the database are the variables, indexed by run; ctx[w] is the   *)
(* memory of worker w and is lost when it crashes.  An operator's request  *)
(* is split where it reads without a lock what it uses later, or reads     *)
(* before others see what it wrote: loaded, confirming and deciding are    *)
(* the memory of the requests in flight.  A request that dies in between   *)
(* is rolled back, which is as if it had not begun.                        *)
(***************************************************************************)
EXTENDS Naturals, FiniteSets, GraphDefinition

CONSTANTS
    Run,              \* Agent runs
    Worker,           \* Agent graph worker processes
    Tenant,           \* schools
    Group,            \* frozen high-risk approval groups of a run
    Clarification,    \* identity conflicts of a run
    TenantOf,         \* the school of a run
    VersionOf,        \* the graph version frozen when the run was created
    NoRun, NoWorker, NoGroup,
    MaxFaults,        \* crashes, transient errors, stalls, target drifts, and
                      \* requests that decide what an overlapping one settled
    MaxPreviews,      \* termination confirmations opened per run
    MaxRounds,        \* extra batches, execution rounds and replans per run
    MaxAttempts,      \* claims of one run
    LegacyApprovals   \* operators also use the approval-group endpoints

ASSUME ConstantsAssumption ==
    /\ TenantOf \in [Run -> Tenant]
    /\ VersionOf \in [Run -> GraphVersion]
    /\ NoRun \notin Run
    /\ NoWorker \notin Worker
    /\ NoGroup \notin Group
    /\ IsFiniteSet(Group)
    /\ MaxFaults \in Nat /\ MaxPreviews \in Nat
    /\ MaxRounds \in Nat /\ MaxAttempts \in Nat
    /\ LegacyApprovals \in BOOLEAN

VARIABLES
    status,    \* agent_runs.status ("absent": no row yet)
    node,      \* agent_graph_runs.current_node
    cursor,    \* agent_graph_runs.cursor
    term,      \* agent_graph_runs.termination_requested
    error,     \* which fail handler ended the run
    lock,      \* school_task_locks: the run holding each school
    owner,     \* agent_runs.lease_owner
    token,     \* agent_runs.lease_token; a token is the attempt that drew it
    leased,    \* lease_expires_at is set and has not passed
    attempt,   \* agent_runs.attempt_count
    frozen,    \* the candidate action frozen for the current cursor
    decided,   \* cursors that have a Supervisor decision
    inspected, \* inspection actions with a committed transition
    gates,     \* agent_human_gates
    groups,    \* agent_approval_groups.status
    clar,      \* agent_clarifications.status
    loaded,    \* what requests that decide a gate read of the run's status
    confirming,\* clarifications confirmed by requests that did not commit yet
    deciding,  \* groups decided by requests that did not commit yet
    sealed,    \* pending groups recorded by the aggregate invocation
    plan,      \* the latest governance plan
    drifted,   \* the external target moved away from the recorded version
    applied,   \* which target writes the run has made
    report,    \* agent_reports.terminal_state
    faults,    \* faults so far
    rounds,    \* extra rounds each run has made
    ctx        \* each worker's GraphWorkContext and progress

rowVars   == <<status, node, cursor, term, error, lock>>
leaseVars == <<owner, token, leased, attempt>>
stepVars  == <<frozen, decided, inspected>>
callVars  == <<loaded, confirming, deciding>>
humanVars == <<gates, groups, clar, callVars>>
workVars  == <<sealed, plan, drifted, applied, report>>
boundVars == <<faults, rounds>>
vars == <<rowVars, leaseVars, stepVars, humanVars, workVars, boundVars, ctx>>

-----------------------------------------------------------------------------
(* Values *)

Active   == {"running", "waiting_human", "blocked_model_error"}
Terminal == {"completed", "terminated", "failed"}
Status   == {"absent", "pending"} \cup Active \cup Terminal

NoAction == [kind |-> "none", to |-> "none"]
NoPlan   == [made |-> FALSE, approved |-> {}]

\* What a gate is about: an approval group, or the conflicts to be clarified.
GateStatus == {"pending", "approved", "rejected"}
Member == Group \cup {NoGroup} \cup SUBSET Clarification
Gate == [kind: GateKind, at: Nat, member: Member, st: GateStatus]

\* "latent": in the input data, not yet discovered by the run.  "interpreted":
\* it has been, even if an answer that leaves it open made it pending again.
GroupStatus == {"none", "latent", "pending", "approved", "rejected"}
ClarStatus  == {"none", "latent", "pending", "interpreted", "settled"}
Unresolved  == {"pending", "interpreted"}

Outcome == {"approved", "rejected"}

\* A gate and the status its request loaded; a clarification or a group, and
\* whether its request saw no other one open.
GateCall      == [gate: Gate, seen: Status]
Confirmation  == [clar: Clarification, last: BOOLEAN]
GroupDecision == [group: Group, last: BOOLEAN]

ReportKind == {"none", "completed", "abnormal_input", "terminated", "rollback"}

Pc == {"idle", "claimed", "evaluate", "freeze", "decide", "insert",
       "execute", "commit", "block", "reject", "persist"}

Handlers == {"block", "reject", "persist"}

Context == [pc: Pc, run: Run \cup {NoRun}, node: Node, cursor: Nat, token: Nat,
            act: Action \cup {NoAction}, pause: BOOLEAN]

IdleContext == [pc |-> "idle", run |-> NoRun, node |-> "terminal", cursor |-> 0,
                token |-> 0, act |-> NoAction, pause |-> FALSE]

TypeOK ==
    /\ status \in [Run -> Status]
    /\ node \in [Run -> Node]
    /\ cursor \in [Run -> Nat]
    /\ term \in [Run -> BOOLEAN]
    /\ error \in [Run -> {"none", "action_contract", "persistence_contract"}]
    /\ lock \in [Tenant -> Run \cup {NoRun}]
    /\ owner \in [Run -> Worker \cup {NoWorker}]
    /\ token \in [Run -> Nat]
    /\ leased \in [Run -> BOOLEAN]
    /\ attempt \in [Run -> Nat]
    /\ frozen \in [Run -> Action \cup {NoAction}]
    /\ decided \in [Run -> SUBSET Nat]
    /\ inspected \in [Run -> SUBSET {"inspect_authority", "inspect_target"}]
    /\ gates \in [Run -> SUBSET Gate]
    /\ groups \in [Run -> [Group -> GroupStatus]]
    /\ clar \in [Run -> [Clarification -> ClarStatus]]
    /\ loaded \in [Run -> SUBSET GateCall]
    /\ confirming \in [Run -> SUBSET Confirmation]
    /\ deciding \in [Run -> SUBSET GroupDecision]
    /\ sealed \in [Run -> SUBSET Nat]
    /\ plan \in [Run -> [made: BOOLEAN, approved: SUBSET Group]]
    /\ drifted \in [Run -> BOOLEAN]
    /\ applied \in [Run -> SUBSET {"plan", "restore"}]
    /\ report \in [Run -> ReportKind]
    /\ faults \in Nat
    /\ rounds \in [Run -> Nat]
    /\ ctx \in [Worker -> Context]

Init ==
    /\ status = [r \in Run |-> "absent"]
    /\ node = [r \in Run |-> InitialNode(VersionOf[r])]
    /\ cursor = [r \in Run |-> 0]
    /\ term = [r \in Run |-> FALSE]
    /\ error = [r \in Run |-> "none"]
    /\ lock = [t \in Tenant |-> NoRun]
    /\ owner = [r \in Run |-> NoWorker]
    /\ token = [r \in Run |-> 0]
    /\ leased = [r \in Run |-> FALSE]
    /\ attempt = [r \in Run |-> 0]
    /\ frozen = [r \in Run |-> NoAction]
    /\ decided = [r \in Run |-> {}]
    /\ inspected = [r \in Run |-> {}]
    /\ gates = [r \in Run |-> {}]
    /\ groups = [r \in Run |-> [g \in Group |-> "none"]]
    /\ clar = [r \in Run |-> [k \in Clarification |-> "none"]]
    /\ loaded = [r \in Run |-> {}]
    /\ confirming = [r \in Run |-> {}]
    /\ deciding = [r \in Run |-> {}]
    /\ sealed = [r \in Run |-> {}]
    /\ plan = [r \in Run |-> NoPlan]
    /\ drifted = [r \in Run |-> FALSE]
    /\ applied = [r \in Run |-> {}]
    /\ report = [r \in Run |-> "none"]
    /\ faults = 0
    /\ rounds = [r \in Run |-> 0]
    /\ ctx = [w \in Worker |-> IdleContext]

-----------------------------------------------------------------------------
(* Starting runs (AgentSupervisorService, AgentReportingService) *)

\* Mutant of TakeSchool: the school lock is taken without looking at its owner.
TakeSchoolUnlocked(r) ==
    /\ lock' = [lock EXCEPT ![TenantOf[r]] = r]
    /\ status' = [status EXCEPT ![r] = "running"]
    /\ node' = [node EXCEPT ![r] = AfterLockNode(VersionOf[r])]
    /\ cursor' = [cursor EXCEPT ![r] = 2]

\* create_run, record_transition twice, acquire_school_lock: one transaction.
TakeSchool(r) ==
    /\ lock[TenantOf[r]] = NoRun
    /\ lock' = [lock EXCEPT ![TenantOf[r]] = r]
    /\ status' = [status EXCEPT ![r] = "running"]
    /\ node' = [node EXCEPT ![r] = AfterLockNode(VersionOf[r])]
    /\ cursor' = [cursor EXCEPT ![r] = 2]

\* The input data fixes which conflicts and risky findings the run will meet.
Start(r) ==
    /\ VersionOf[r] \in Sync
    /\ status[r] = "absent"
    /\ TakeSchool(r)
    /\ \E G \in SUBSET Group : groups' =
           [groups EXCEPT ![r] = [g \in Group |-> IF g \in G THEN "latent" ELSE "none"]]
    /\ \E K \in SUBSET Clarification : clar' =
           [clar EXCEPT ![r] = [k \in Clarification |-> IF k \in K THEN "latent" ELSE "none"]]
    /\ UNCHANGED <<term, error, leaseVars, stepVars, gates, callVars, workVars, boundVars, ctx>>

CreateRollback(r) ==
    /\ VersionOf[r] \notin Sync
    /\ status[r] = "absent"
    /\ lock[TenantOf[r]] = NoRun
    /\ status' = [status EXCEPT ![r] = "pending"]
    /\ UNCHANGED <<node, cursor, term, error, lock, leaseVars, stepVars,
                   humanVars, workVars, boundVars, ctx>>

\* Mutant of ConfirmRollback: a preview can be confirmed again later.
ConfirmRollbackAgain(r) ==
    /\ status[r] # "absent"
    /\ TakeSchool(r)
    /\ UNCHANGED <<term, error, leaseVars, stepVars, humanVars, workVars, boundVars, ctx>>

ConfirmRollback(r) ==
    /\ status[r] = "pending"
    /\ TakeSchool(r)
    /\ UNCHANGED <<term, error, leaseVars, stepVars, humanVars, workVars, boundVars, ctx>>

\* Rejecting the preview only raises the termination flag.
RejectRollback(r) ==
    /\ status[r] = "pending"
    /\ ~term[r]
    /\ term' = [term EXCEPT ![r] = TRUE]
    /\ UNCHANGED <<status, node, cursor, error, lock, leaseVars, stepVars,
                   humanVars, workVars, boundVars, ctx>>

-----------------------------------------------------------------------------
(* Claiming, heartbeats and losing a claim *)

Busy(w) == ctx[w].pc # "idle"

\* validate_fencing: the worker still is the last claimant of its run.
Fenced(w) ==
    LET r == ctx[w].run
    IN  /\ Busy(w)
        /\ owner[r] = w
        /\ token[r] = ctx[w].token

\* _validate_snapshot: the graph has not moved since the claim.
Fresh(w) ==
    LET r == ctx[w].run
    IN  node[r] = ctx[w].node /\ cursor[r] = ctx[w].cursor

Goto(w, pc) == ctx' = [ctx EXCEPT ![w] = [@ EXCEPT !.pc = pc]]

GotoWith(w, pc, a) == ctx' = [ctx EXCEPT ![w] = [@ EXCEPT !.pc = pc, !.act = a]]

Quit(w) == ctx' = [ctx EXCEPT ![w] = IdleContext]

\* release_run_claim: a no-op for a worker that lost the claim.
ReleaseClaim(w) ==
    LET r == ctx[w].run
    IN  /\ owner'  = IF Fenced(w) THEN [owner EXCEPT ![r] = NoWorker] ELSE owner
        /\ token'  = IF Fenced(w) THEN [token EXCEPT ![r] = 0] ELSE token
        /\ leased' = IF Fenced(w) THEN [leased EXCEPT ![r] = FALSE] ELSE leased
        /\ UNCHANGED attempt

\* Mutant of Claim: only a run without an owner is claimed, not a lapsed lease.
ClaimUnowned(w, r) ==
    /\ ~Busy(w)
    /\ status[r] = "running"
    /\ owner[r] = NoWorker
    /\ lock[TenantOf[r]] = r
    /\ attempt[r] < MaxAttempts
    /\ attempt' = [attempt EXCEPT ![r] = @ + 1]
    /\ owner' = [owner EXCEPT ![r] = w]
    /\ token' = [token EXCEPT ![r] = attempt[r] + 1]
    /\ leased' = [leased EXCEPT ![r] = TRUE]
    /\ ctx' = [ctx EXCEPT ![w] =
                 [pc |-> "claimed", run |-> r, node |-> node[r], cursor |-> cursor[r],
                  token |-> attempt[r] + 1, act |-> NoAction, pause |-> FALSE]]
    /\ UNCHANGED <<rowVars, stepVars, humanVars, workVars, boundVars>>

\* _claim: claim_next_run, then read the graph state and check the lock.
Claim(w, r) ==
    /\ ~Busy(w)
    /\ status[r] = "running"
    /\ ~leased[r]
    /\ lock[TenantOf[r]] = r
    /\ attempt[r] < MaxAttempts
    /\ attempt' = [attempt EXCEPT ![r] = @ + 1]
    /\ owner' = [owner EXCEPT ![r] = w]
    /\ token' = [token EXCEPT ![r] = attempt[r] + 1]
    /\ leased' = [leased EXCEPT ![r] = TRUE]
    /\ ctx' = [ctx EXCEPT ![w] =
                 [pc |-> "claimed", run |-> r, node |-> node[r], cursor |-> cursor[r],
                  token |-> attempt[r] + 1, act |-> NoAction, pause |-> FALSE]]
    /\ UNCHANGED <<rowVars, stepVars, humanVars, workVars, boundVars>>

\* heartbeat_run_claim has no expiry check: a late heartbeat revives the lease.
Heartbeat(w) ==
    /\ Fenced(w)
    /\ ctx[w].pc \notin Handlers
    /\ ~leased[ctx[w].run]
    /\ leased' = [leased EXCEPT ![ctx[w].run] = TRUE]
    /\ UNCHANGED <<rowVars, owner, token, attempt, stepVars, humanVars, workVars, boundVars, ctx>>

\* The heartbeat finds another claimant and cancels the work in progress.
LoseClaim(w) ==
    /\ Busy(w)
    /\ ctx[w].pc \notin Handlers
    /\ ~Fenced(w)
    /\ Quit(w)
    /\ UNCHANGED <<rowVars, leaseVars, stepVars, humanVars, workVars, boundVars>>

\* A lease passes for free once nobody renews it; a live worker has to stall.
LeaseExpire(r) ==
    /\ leased[r]
    /\ leased' = [leased EXCEPT ![r] = FALSE]
    /\ IF \E w \in Worker : Fenced(w) /\ ctx[w].run = r
       THEN faults < MaxFaults /\ faults' = faults + 1
       ELSE UNCHANGED faults
    /\ UNCHANGED <<rowVars, owner, token, attempt, stepVars, humanVars, workVars, rounds, ctx>>

Crash(w) ==
    /\ Busy(w)
    /\ faults < MaxFaults
    /\ faults' = faults + 1
    /\ Quit(w)
    /\ UNCHANGED <<rowVars, leaseVars, stepVars, humanVars, workVars, rounds>>

\* An exception run_once cannot classify (a lost connection): release and retry.
TransientError(w) ==
    /\ Busy(w)
    /\ ctx[w].pc \notin Handlers
    /\ faults < MaxFaults
    /\ faults' = faults + 1
    /\ ReleaseClaim(w)
    /\ Quit(w)
    /\ UNCHANGED <<rowVars, stepVars, humanVars, workVars, rounds>>

-----------------------------------------------------------------------------
(* Choosing the action: _process_claimed *)

\* A drift matters once there is a plan to compare with.
PlanStale(r) == plan[r].made /\ drifted[r]

\* Kinds that lead back to where the run has been.
LoopKinds == {"normalize_next_batch", "analyze_next_batch", "execute_remaining_independent"}

\* ProductionGraphCandidateProvider._actions.  Where the choice depends on data
\* that is not modelled (batches left, input abnormal) every outcome is offered.
Offered(r, n) ==
    LET here == ActionsAt(VersionOf[r], n)
        kinds(K) == {a \in here : a.kind \in K}
        awaiting == \E k \in Clarification : clar[r][k] \in Unresolved
        toInspect == {"inspect_authority", "inspect_target"} \ inspected[r]
        loops == IF rounds[r] < MaxRounds THEN LoopKinds ELSE {}
    IN  IF term[r] /\ n \notin DrainNodes THEN {TerminateAction}
        ELSE CASE n = "inspect_sources" ->
                    kinds(IF "inspect_authority" \in toInspect THEN {"inspect_authority"}
                          ELSE IF toInspect # {} THEN {"inspect_target"}
                          ELSE {"normalize_ready_sources"})
               [] n = "normalize_input_batches" ->
                    kinds(loops \cup {"validate_normalized_input"})
               [] n = "analyze_actionable_batches" ->
                    kinds(IF awaiting THEN {"resolve_identity_conflicts"}
                          ELSE loops \cup {"enter_aggregate_risk"})
               [] n = "preflight_execution" ->
                    kinds(IF PlanStale(r) THEN {"request_cross_phase_replan"}
                          ELSE {"execute_ready_operations"})
               [] n = "verify_operations" ->
                    kinds(loops \cup {"generate_terminal_report"})
               [] OTHER -> here

\* _termination_request_is_pending: go straight to the termination action.
BeginTermination(w) ==
    /\ ctx[w].pc = "claimed"
    /\ term[ctx[w].run]
    /\ ctx[w].node \notin DrainNodes
    /\ GotoWith(w, "execute", TerminateAction)
    /\ UNCHANGED <<rowVars, leaseVars, stepVars, humanVars, workVars, boundVars>>

\* A candidate frozen by an earlier attempt at this cursor is replayed.
BeginReplay(w) ==
    LET r == ctx[w].run
    IN  /\ ctx[w].pc = "claimed"
        /\ ~(term[r] /\ ctx[w].node \notin DrainNodes)
        /\ cursor[r] = ctx[w].cursor /\ frozen[r] # NoAction
        /\ GotoWith(w, "freeze", frozen[r])
        /\ UNCHANGED <<rowVars, leaseVars, stepVars, humanVars, workVars, boundVars>>

BeginFresh(w) ==
    LET r == ctx[w].run
    IN  /\ ctx[w].pc = "claimed"
        /\ ~(term[r] /\ ctx[w].node \notin DrainNodes)
        /\ ~(cursor[r] = ctx[w].cursor /\ frozen[r] # NoAction)
        /\ Goto(w, "evaluate")
        /\ UNCHANGED <<rowVars, leaseVars, stepVars, humanVars, workVars, boundVars>>

Evaluate(w) ==
    /\ ctx[w].pc = "evaluate"
    /\ \E a \in Offered(ctx[w].run, ctx[w].node) : GotoWith(w, "freeze", a)
    /\ UNCHANGED <<rowVars, leaseVars, stepVars, humanVars, workVars, boundVars>>

\* Mutant of Freeze: a second candidate set replaces the frozen one.
FreezeOverwrites(w) ==
    LET r == ctx[w].run
    IN  /\ ctx[w].pc = "freeze"
        /\ Fresh(w)
        /\ frozen' = [frozen EXCEPT ![r] = ctx[w].act]
        /\ Goto(w, IF cursor[r] \in decided[r] THEN "execute" ELSE "decide")
        /\ UNCHANGED <<rowVars, leaseVars, decided, inspected, humanVars, workVars, boundVars>>

\* Mutant of Freeze: a replayed candidate is executed without its decision.
FreezeTrustsReplay(w) ==
    LET r == ctx[w].run
        a == ctx[w].act
    IN  /\ ctx[w].pc = "freeze"
        /\ Fresh(w)
        /\ frozen[r] \in {NoAction, a}
        /\ frozen' = [frozen EXCEPT ![r] = a]
        /\ Goto(w, IF frozen[r] = a THEN "execute" ELSE "decide")
        /\ UNCHANGED <<rowVars, leaseVars, decided, inspected, humanVars, workVars, boundVars>>

\* record_candidate_set under the snapshot check, and the read of the decision.
Freeze(w) ==
    LET r == ctx[w].run
        a == ctx[w].act
    IN  /\ ctx[w].pc = "freeze"
        /\ Fresh(w)
        /\ frozen[r] \in {NoAction, a}
        /\ frozen' = [frozen EXCEPT ![r] = a]
        /\ Goto(w, IF cursor[r] \in decided[r] THEN "execute" ELSE "decide")
        /\ UNCHANGED <<rowVars, leaseVars, decided, inspected, humanVars, workVars, boundVars>>

\* record_decision: the SELECT, then the INSERT of another statement.
DecideRead(w) ==
    /\ ctx[w].pc = "decide"
    /\ ctx[w].cursor \notin decided[ctx[w].run]
    /\ Goto(w, "insert")
    /\ UNCHANGED <<rowVars, leaseVars, stepVars, humanVars, workVars, boundVars>>

DecideInsert(w) ==
    LET r == ctx[w].run
    IN  /\ ctx[w].pc = "insert"
        /\ ctx[w].cursor \notin decided[r]
        /\ decided' = [decided EXCEPT ![r] = @ \cup {ctx[w].cursor}]
        /\ Goto(w, "execute")
        /\ UNCHANGED <<rowVars, leaseVars, frozen, inspected, humanVars, workVars, boundVars>>

\* The unique constraint answers 23505, which run_once takes for a contract error.
DecideDuplicate(w) ==
    /\ ctx[w].pc = "insert"
    /\ ctx[w].cursor \in decided[ctx[w].run]
    /\ Goto(w, "persist")
    /\ UNCHANGED <<rowVars, leaseVars, stepVars, humanVars, workVars, boundVars>>

-----------------------------------------------------------------------------
(* Executing the action: ProductionGraphActionExecutor *)

\* __call__ looks first at the action kind and then at the node, so that a
\* termination action is also served by the node's executor where there is one.
Executor(n, a) ==
    CASE a.kind = "build_identity_index" -> "build_identity_index"
      [] a.kind = "resolve_identity_conflicts" -> "open_identity_conflict_gate"
      [] a.kind = "aggregate_risk" -> "aggregate_risk"
      [] a.kind = "compile_execution_plan" -> "compile_execution_plan"
      [] n = "preflight_execution" -> "preflight_execution"
      [] n \in {"execute_ready_operations", "execute_remaining_independent"}
            /\ a.kind = "verify_operations" -> "execute_governance"
      [] n \in {"generate_terminal_report", "abnormal_input_report", "termination_report",
                "generate_rollback_report"} -> "generate_report"
      [] n = "assess_restore_impact" -> "assess_rollback"
      [] n = "wait_restore_conflicts" /\ a.kind = "wait_rollback_approval" ->
            "enter_rollback_approval"
      [] n = "compile_restore_plan" -> "compile_rollback"
      [] n = "execute_restore_operations" -> "execute_rollback"
      [] OTHER -> "no_tracked_effect"

Executing(w, name) ==
    /\ ctx[w].pc = "execute"
    /\ Executor(ctx[w].node, ctx[w].act) = name

\* _require_state_at_cursor: the only check an executor's writes pass; it does
\* not look at the lease, the lock or the run's status.
AtCursor(w) == cursor[ctx[w].run] = ctx[w].cursor

Executed(w, pause) ==
    ctx' = [ctx EXCEPT ![w] = [@ EXCEPT !.pc = "commit", !.pause = pause]]

\* record_human_gate replays an identical pending gate and refuses a decided one.
Gates(r, kind, at) == {x \in gates[r] : x.kind = kind /\ x.at = at}

Pending(r, kind) == {x \in gates[r] : x.kind = kind /\ x.st = "pending"}

\* Mutant of NewGate: a gate in a state no decision expects.
NewGateOpen(kind, at, m) == [kind |-> kind, at |-> at, member |-> m, st |-> "open"]

NewGate(kind, at, m) == [kind |-> kind, at |-> at, member |-> m, st |-> "pending"]

\* Mutant of RecordGate: the gate names the cursor after the transition.
RecordGateLate(r, kind, at, m) ==
    /\ \A x \in Gates(r, kind, at + 1) : x.member = m => x.st = "pending"
    /\ gates' = [gates EXCEPT ![r] = @ \cup {NewGate(kind, at + 1, m)}]

RecordGate(r, kind, at, m) ==
    /\ \A x \in Gates(r, kind, at) : x.member = m => x.st = "pending"
    /\ gates' = [gates EXCEPT ![r] = @ \cup {NewGate(kind, at, m)}]

\* Materialisation, inspection, normalisation, batch analysis, restore planning
\* and the guarded no-op write only facts that no other step here reads.
ExecuteOther(w) ==
    /\ Executing(w, "no_tracked_effect")
    /\ AtCursor(w)
    /\ Executed(w, FALSE)
    /\ UNCHANGED <<rowVars, leaseVars, stepVars, humanVars, workVars, boundVars>>

BuildIdentityIndex(w) ==
    LET r == ctx[w].run
    IN  /\ Executing(w, "build_identity_index")
        /\ AtCursor(w)
        /\ clar' = [clar EXCEPT ![r] = [k \in Clarification |->
                      IF clar[r][k] = "latent" THEN "pending" ELSE clar[r][k]]]
        /\ Executed(w, FALSE)
        /\ UNCHANGED <<rowVars, leaseVars, stepVars, gates, groups, callVars, workVars, boundVars>>

\* The gate names the conflicts that are open now; another attempt at the same
\* cursor that finds other ones opens a gate of its own.
OpenIdentityConflictGate(w) ==
    LET r == ctx[w].run
        open == {k \in Clarification : clar[r][k] \in Unresolved}
    IN  /\ Executing(w, "open_identity_conflict_gate")
        /\ AtCursor(w)
        /\ open # {}
        /\ RecordGate(r, "identity_conflict", ctx[w].cursor, open)
        /\ Executed(w, TRUE)
        /\ UNCHANGED <<rowVars, leaseVars, stepVars, groups, clar, callVars, workVars, boundVars>>

\* One approval group per risky finding set, one gate per pending group; the
\* invocation records how many were pending and a replay has to find as many.
AggregateRisk(w) ==
    LET r == ctx[w].run
        aggregated == [g \in Group |->
                         IF groups[r][g] = "latent" THEN "pending" ELSE groups[r][g]]
        open == {g \in Group : aggregated[g] = "pending"}
    IN  /\ Executing(w, "aggregate_risk")
        /\ AtCursor(w)
        /\ sealed[r] \subseteq {Cardinality(open)}
        /\ sealed' = [sealed EXCEPT ![r] = {Cardinality(open)}]
        /\ groups' = [groups EXCEPT ![r] = aggregated]
        /\ gates' = [gates EXCEPT ![r] =
                       @ \cup {NewGate("high_risk_approval", ctx[w].cursor, g) : g \in open}]
        /\ Executed(w, open # {})
        /\ UNCHANGED <<rowVars, leaseVars, stepVars, clar, callVars, plan, drifted, applied, report,
                       boundVars>>

\* Mutant of CompileExecutionPlan: every decided group is planned.
CompileDecidedGroups(w) ==
    LET r == ctx[w].run
        decidedGroups == {g \in Group : groups[r][g] \in {"approved", "rejected"}}
    IN  /\ Executing(w, "compile_execution_plan")
        /\ AtCursor(w)
        /\ \A g \in Group : groups[r][g] # "pending"
        /\ plan' = [plan EXCEPT ![r] = [made |-> TRUE, approved |-> decidedGroups]]
        /\ Executed(w, FALSE)
        /\ UNCHANGED <<rowVars, leaseVars, stepVars, humanVars, sealed, drifted,
                       applied, report, boundVars>>

\* compile_agent_plan refuses an undecided group and keeps the approved ones.
\* Without any executable finding (low-risk ones included) no plan is saved.
CompileExecutionPlan(w) ==
    LET r == ctx[w].run
        approved == {g \in Group : groups[r][g] = "approved"}
    IN  /\ Executing(w, "compile_execution_plan")
        /\ AtCursor(w)
        /\ \A g \in Group : groups[r][g] # "pending"
        /\ \/ plan' = [plan EXCEPT ![r] = [made |-> TRUE, approved |-> approved]]
           \/ approved = {} /\ UNCHANGED plan
        /\ Executed(w, FALSE)
        /\ UNCHANGED <<rowVars, leaseVars, stepVars, humanVars, sealed, drifted,
                       applied, report, boundVars>>

PreflightPassed(w) ==
    /\ Executing(w, "preflight_execution")
    /\ AtCursor(w)
    /\ ctx[w].act.kind = "execute_ready_operations"
    /\ ~PlanStale(ctx[w].run)
    /\ Executed(w, FALSE)
    /\ UNCHANGED <<rowVars, leaseVars, stepVars, humanVars, workVars, boundVars>>

PreflightStale(w) ==
    LET r == ctx[w].run
    IN  /\ Executing(w, "preflight_execution")
        /\ AtCursor(w)
        /\ ctx[w].act.kind = "request_cross_phase_replan"
        /\ PlanStale(r)
        /\ RecordGate(r, "cross_phase_replan", ctx[w].cursor, NoGroup)
        /\ Executed(w, TRUE)
        /\ UNCHANGED <<rowVars, leaseVars, stepVars, groups, clar, callVars, workVars, boundVars>>

\* The ready operations of one batch; the cursor is compared after the writes,
\* so that a late worker writes to an external target before it is refused.
ExecuteGovernance(w) ==
    LET r == ctx[w].run
    IN  /\ Executing(w, "execute_governance")
        /\ applied' = [applied EXCEPT ![r] = IF plan[r].made THEN @ \cup {"plan"} ELSE @]
        /\ IF AtCursor(w)
           THEN Executed(w, FALSE) /\ UNCHANGED leaseVars
           ELSE Quit(w) /\ ReleaseClaim(w)
        /\ UNCHANGED <<rowVars, stepVars, humanVars, sealed, plan, drifted, report, boundVars>>

\* Mutant of ReportOf: the node is stored where the terminal state belongs.
ReportOfNode(n) == n

ReportOf(n) ==
    CASE n = "abnormal_input_report" -> "abnormal_input"
      [] n = "termination_report" -> "terminated"
      [] n = "generate_rollback_report" -> "rollback"
      [] OTHER -> "completed"

\* Mutant of GenerateReport: no report once termination was requested.
GenerateReportUnlessTerminated(w) ==
    LET r == ctx[w].run
    IN  /\ Executing(w, "generate_report")
        /\ AtCursor(w)
        /\ report' = [report EXCEPT ![r] =
                        IF @ = "none" /\ ~term[r] THEN ReportOf(ctx[w].node) ELSE @]
        /\ Executed(w, FALSE)
        /\ UNCHANGED <<rowVars, leaseVars, stepVars, humanVars, sealed, plan, drifted,
                       applied, boundVars>>

\* AgentReportingService.generate returns the task's report when there is one.
GenerateReport(w) ==
    LET r == ctx[w].run
    IN  /\ Executing(w, "generate_report")
        /\ AtCursor(w)
        /\ report' = [report EXCEPT ![r] = IF @ = "none" THEN ReportOf(ctx[w].node) ELSE @]
        /\ Executed(w, FALSE)
        /\ UNCHANGED <<rowVars, leaseVars, stepVars, humanVars, sealed, plan, drifted,
                       applied, boundVars>>

\* The model says which restores conflict with later changes.
AssessRollback(w) ==
    LET r == ctx[w].run
    IN  /\ Executing(w, "assess_rollback")
        /\ AtCursor(w)
        /\ \/ /\ RecordGate(r, "rollback_conflict", ctx[w].cursor, NoGroup)
              /\ Executed(w, TRUE)
           \/ /\ UNCHANGED gates
              /\ Executed(w, FALSE)
        /\ UNCHANGED <<rowVars, leaseVars, stepVars, groups, clar, callVars, workVars, boundVars>>

ConflictsApproved(r) ==
    \A x \in gates[r] : x.kind = "rollback_conflict" => x.st = "approved"

EnterRollbackApproval(w) ==
    LET r == ctx[w].run
    IN  /\ Executing(w, "enter_rollback_approval")
        /\ AtCursor(w)
        /\ ConflictsApproved(r)
        /\ RecordGate(r, "rollback_approval", ctx[w].cursor, NoGroup)
        /\ Executed(w, TRUE)
        /\ UNCHANGED <<rowVars, leaseVars, stepVars, groups, clar, callVars, workVars, boundVars>>

\* Mutant of CompileRollback: the approvals are left to the gate nodes.
CompileRollbackUnchecked(w) ==
    /\ Executing(w, "compile_rollback")
    /\ AtCursor(w)
    /\ Executed(w, FALSE)
    /\ UNCHANGED <<rowVars, leaseVars, stepVars, humanVars, workVars, boundVars>>

CompileRollback(w) ==
    LET r == ctx[w].run
        approvals == {x \in gates[r] : x.kind = "rollback_approval"}
    IN  /\ Executing(w, "compile_rollback")
        /\ AtCursor(w)
        /\ Cardinality(approvals) = 1
        /\ \A x \in approvals : x.st = "approved"
        /\ ConflictsApproved(r)
        /\ Executed(w, FALSE)
        /\ UNCHANGED <<rowVars, leaseVars, stepVars, humanVars, workVars, boundVars>>

\* Under the deterministic execution contract nothing is compared with the graph.
ExecuteRollback(w) ==
    /\ Executing(w, "execute_rollback")
    /\ applied' = [applied EXCEPT ![ctx[w].run] = @ \cup {"restore"}]
    /\ Executed(w, FALSE)
    /\ UNCHANGED <<rowVars, leaseVars, stepVars, humanVars, sealed, plan, drifted, report, boundVars>>

\* Executors that ask a model, whose retries may be exhausted.
AsksModel(n, a) ==
    \/ a # TerminateAction /\ n \in ModelNodes
    \/ Executor(n, a) \in {"assess_rollback", "execute_rollback"}

ModelFails(w) ==
    /\ ctx[w].pc = "execute"
    /\ AsksModel(ctx[w].node, ctx[w].act)
    /\ Goto(w, "block")
    /\ UNCHANGED <<rowVars, leaseVars, stepVars, humanVars, workVars, boundVars>>

\* A provider or executor raises LookupError, PermissionError, ValueError or a
\* guard rejection: always where an executor's precondition above fails, and
\* wherever the data it works on breaks its contract.
ExecutorRejects(w) ==
    /\ ctx[w].pc \in {"evaluate", "execute"}
    /\ Goto(w, "reject")
    /\ UNCHANGED <<rowVars, leaseVars, stepVars, humanVars, workVars, boundVars>>

\* GraphCursorConflict and GraphFactConflict are RuntimeErrors: the claim is
\* released and the run is tried again.
Conflict(w) ==
    LET r == ctx[w].run
        a == ctx[w].act
    IN  \/ ctx[w].pc = "freeze" /\ ~(Fresh(w) /\ frozen[r] \in {NoAction, a})
        \/ ctx[w].pc = "decide" /\ ctx[w].cursor \in decided[r]
        \/ /\ ctx[w].pc = "execute"
           /\ ~AtCursor(w)
           /\ Executor(ctx[w].node, a) \notin {"execute_governance", "execute_rollback"}
        \/ /\ Executing(w, "aggregate_risk")
           /\ AtCursor(w)
           /\ sealed[r] # {}
           /\ sealed[r] # {Cardinality({g \in Group : groups[r][g] = "pending"})}

Abandon(w) ==
    /\ Conflict(w)
    /\ ReleaseClaim(w)
    /\ Quit(w)
    /\ UNCHANGED <<rowVars, stepVars, humanVars, workVars, boundVars>>

-----------------------------------------------------------------------------
(* Committing the transition, or the failure: _commit and the fail handlers *)

HoldsSchool(w) == lock[TenantOf[ctx[w].run]] = ctx[w].run

\* Mutant of Advance: the candidate set is not kept per cursor.
AdvanceKeepsFrozen(r, to) ==
    /\ node' = [node EXCEPT ![r] = to]
    /\ cursor' = [cursor EXCEPT ![r] = @ + 1]
    /\ UNCHANGED frozen

\* record_transition: the next cursor has no frozen candidate yet.
Advance(r, to) ==
    /\ node' = [node EXCEPT ![r] = to]
    /\ cursor' = [cursor EXCEPT ![r] = @ + 1]
    /\ frozen' = [frozen EXCEPT ![r] = NoAction]

\* Mutant of Finish: the transition is not fenced by the claim.
FinishUnfenced(w) == ReleaseClaim(w) /\ Quit(w)

\* release_run_claim and the end of the iteration.
Finish(w) == Fenced(w) /\ ReleaseClaim(w) /\ Quit(w)

\* pause_for_human is refused where the successor is no human gate node.
BadPause(w) == ctx[w].pause /\ ctx[w].act.to \notin HumanPauseNodes

\* Mutant of CommitStep: the pause for a human is forgotten.
CommitStepRunsOn(w) ==
    LET r == ctx[w].run
        a == ctx[w].act
    IN  /\ ctx[w].pc = "commit"
        /\ Fresh(w) /\ HoldsSchool(w) /\ ~BadPause(w)
        /\ a.to # "terminal"
        /\ Advance(r, a.to)
        /\ inspected' = [inspected EXCEPT ![r] =
                           @ \cup ({a.kind} \cap {"inspect_authority", "inspect_target"})]
        /\ rounds' = [rounds EXCEPT ![r] = IF a.kind \in LoopKinds THEN @ + 1 ELSE @]
        /\ Finish(w)
        /\ UNCHANGED <<status, term, error, lock, decided, humanVars, workVars, faults>>

CommitStep(w) ==
    LET r == ctx[w].run
        a == ctx[w].act
    IN  /\ ctx[w].pc = "commit"
        /\ Fresh(w) /\ HoldsSchool(w) /\ ~BadPause(w)
        /\ a.to # "terminal"
        /\ Advance(r, a.to)
        /\ status' = [status EXCEPT ![r] = IF ctx[w].pause THEN "waiting_human" ELSE @]
        /\ inspected' = [inspected EXCEPT ![r] =
                           @ \cup ({a.kind} \cap {"inspect_authority", "inspect_target"})]
        /\ rounds' = [rounds EXCEPT ![r] = IF a.kind \in LoopKinds THEN @ + 1 ELSE @]
        /\ Finish(w)
        /\ UNCHANGED <<term, error, lock, decided, humanVars, workVars, faults>>

\* The successor "terminal" also ends the task and gives the school back.
CommitTerminal(w) ==
    LET r == ctx[w].run
    IN  /\ ctx[w].pc = "commit"
        /\ Fresh(w) /\ HoldsSchool(w) /\ ~BadPause(w)
        /\ ctx[w].act.to = "terminal"
        /\ Advance(r, "terminal")
        /\ status' = [status EXCEPT ![r] = IF term[r] THEN "terminated" ELSE "completed"]
        /\ lock' = [lock EXCEPT ![TenantOf[r]] = NoRun]
        /\ Finish(w)
        /\ UNCHANGED <<term, error, decided, inspected, humanVars, workVars, boundVars>>

\* GraphGuardRejected inside _commit rolls it back and is an action failure.
CommitRejected(w) ==
    /\ ctx[w].pc = "commit"
    /\ ~Fenced(w) \/ BadPause(w)
    /\ Goto(w, "reject")
    /\ UNCHANGED <<rowVars, leaseVars, stepVars, humanVars, workVars, boundVars>>

\* _block_model_failure: the run stops, the school lock stays.
BlockModelFailure(w) ==
    LET r == ctx[w].run
    IN  /\ ctx[w].pc = "block"
        /\ Fresh(w)
        /\ Advance(r, "blocked_model_error")
        /\ status' = [status EXCEPT ![r] = "blocked_model_error"]
        /\ Finish(w)
        /\ UNCHANGED <<term, error, lock, decided, inspected, humanVars, workVars, boundVars>>

\* Mutant of FailRun: the failed run keeps the school.
FailRunKeepsSchool(w, why) ==
    LET r == ctx[w].run
    IN  /\ Fresh(w)
        /\ status' = [status EXCEPT ![r] = "failed"]
        /\ error' = [error EXCEPT ![r] = why]
        /\ Finish(w)
        /\ UNCHANGED <<node, cursor, term, lock, stepVars, humanVars, workVars, boundVars>>

\* Both fail handlers end the run and give the school back.
FailRun(w, why) ==
    LET r == ctx[w].run
    IN  /\ Fresh(w)
        /\ status' = [status EXCEPT ![r] = "failed"]
        /\ error' = [error EXCEPT ![r] = why]
        /\ lock' = [lock EXCEPT ![TenantOf[r]] = NoRun]
        /\ Finish(w)
        /\ UNCHANGED <<node, cursor, term, stepVars, humanVars, workVars, boundVars>>

FailActionContract(w) ==
    /\ ctx[w].pc = "reject"
    /\ FailRun(w, "action_contract")

FailPersistenceContract(w) ==
    /\ ctx[w].pc = "persist"
    /\ FailRun(w, "persistence_contract")

\* A handler without the claim raises stale_fencing out of run_once.
HandlerStale(w) ==
    /\ ctx[w].pc \in Handlers
    /\ ~Fenced(w)
    /\ Quit(w)
    /\ UNCHANGED <<rowVars, leaseVars, stepVars, humanVars, workVars, boundVars>>

-----------------------------------------------------------------------------
(* The operator API: routes/agent.py *)

\* _graph_gate_actionability, for a request that loaded the run in this status;
\* the gate and the graph are read under the graph's lock.
ActionableAs(r, x, seen) ==
    /\ x \in gates[r] /\ x.st = "pending"
    /\ seen \notin Terminal
    /\ IF x.kind = "termination_confirmation"
       THEN x.at = cursor[r]
       ELSE /\ x.at + 1 = cursor[r]
            /\ node[r] = GateNode(x.kind)
            /\ seen = "waiting_human"

Actionable(r, x) == ActionableAs(r, x, status[r])

\* The termination preview records a gate; a decided one at the same cursor has
\* the same content and makes it fail.  The run's status was read before the
\* graph was locked: the run may have ended meanwhile.
PreviewTermination(r) ==
    /\ status[r] # "absent"
    /\ Gates(r, "termination_confirmation", cursor[r]) = {}
    /\ Cardinality({x \in gates[r] : x.kind = "termination_confirmation"}) < MaxPreviews
    /\ gates' = [gates EXCEPT ![r] =
                   @ \cup {NewGate("termination_confirmation", cursor[r], NoGroup)}]
    /\ UNCHANGED <<rowVars, leaseVars, stepVars, groups, clar, callVars, workVars, boundVars, ctx>>

\* decide_agent_graph_gate loads the task and its run; the later SELECT FOR UPDATE
\* of the same row does not refresh what was loaded.  A request can be late by any
\* time and others may decide the same gate: it stays until the gate is decided.
\* One that finds the gate not actionable is refused for what it has loaded.
LoadForDecision(r, x) ==
    /\ x.kind # "identity_conflict"
    /\ Actionable(r, x)
    /\ loaded' = [loaded EXCEPT ![r] = @ \cup {[gate |-> x, seen |-> status[r]]}]
    /\ UNCHANGED <<rowVars, leaseVars, stepVars, gates, groups, clar, confirming, deciding,
                   workVars, boundVars, ctx>>

\* The gate is decided, and every other request for it will be refused.
Settle(r, x, d) ==
    /\ gates' = [gates EXCEPT ![r] = (@ \ {x}) \cup {[x EXCEPT !.st = d]}]
    /\ loaded' = [loaded EXCEPT ![r] = {q \in @ : q.gate # x}]

\* AgentSupervisorService.terminate, on a graph run: raise the flag and wake it,
\* if it waited when the request loaded it.
ApproveTermination(r, q) ==
    /\ q.gate.kind = "termination_confirmation"
    /\ ActionableAs(r, q.gate, q.seen)
    /\ Settle(r, q.gate, "approved")
    /\ term' = [term EXCEPT ![r] = TRUE]
    /\ status' = [status EXCEPT ![r] =
                    IF q.seen \in {"waiting_human", "blocked_model_error"} THEN "running" ELSE @]
    /\ UNCHANGED <<node, cursor, error, lock, leaseVars, stepVars, groups, clar,
                   confirming, deciding, workVars, boundVars, ctx>>

\* decide_agent_graph_gate, for every other decision.  A refused rollback or
\* replan asks for termination.  The run is woken when no other gate of the
\* same kind is pending, whatever the kind was, if it waited when it was loaded.
\* The group's row may be locked by a request that decides it.
DecideGate(r, q, d) ==
    LET x == q.gate
    IN  /\ <<x.kind, d>> # <<"termination_confirmation", "approved">>
        /\ <<x.kind, d>> = <<"cross_phase_replan", "approved">> => rounds[r] < MaxRounds
        /\ ActionableAs(r, x, q.seen)
        /\ \A c \in deciding[r] : c.group # x.member
        /\ Settle(r, x, d)
        /\ groups' = IF x.kind = "high_risk_approval"
                     THEN [groups EXCEPT ![r][x.member] = d] ELSE groups
        /\ term' = [term EXCEPT ![r] =
                      \/ @
                      \/ d = "rejected" /\ x.kind \in
                             {"rollback_conflict", "rollback_approval", "cross_phase_replan"}]
        /\ status' = [status EXCEPT ![r] =
                        IF q.seen = "waiting_human" /\ Pending(r, x.kind) = {x}
                        THEN "running" ELSE @]
        /\ rounds' = [rounds EXCEPT ![r] =
                        IF <<x.kind, d>> = <<"cross_phase_replan", "approved">>
                        THEN @ + 1 ELSE @]
        /\ UNCHANGED <<node, cursor, error, lock, leaseVars, stepVars, clar,
                       confirming, deciding, workVars, faults, ctx>>

\* The clarification dialogue: an answer is read back, then confirmed.  It checks
\* the row's status as loaded before the locks, so that an answer that overlaps
\* the confirmation of the same conflict opens it again.
InterpretClarification(r, k) ==
    /\ node[r] = "resolve_identity_conflicts"
    /\ \E x \in Pending(r, "identity_conflict") : k \in x.member
    /\ \/ clar[r][k] = "pending" /\ UNCHANGED faults
       \/ /\ clar[r][k] = "settled"
          /\ faults < MaxFaults
          /\ faults' = faults + 1
    /\ \A c \in confirming[r] : c.clar # k
    /\ clar' = [clar EXCEPT ![r][k] = "interpreted"]
    /\ UNCHANGED <<rowVars, leaseVars, stepVars, gates, groups, callVars, workVars, rounds, ctx>>

\* confirm_agent_clarification up to its unlocked read of the other ones: it has
\* locked and written its own row, which nobody else sees before the commit.  Once
\* more for a settled one it changes something only if it sees no open one.
ConfirmClarification(r, k) ==
    LET last == \A j \in Clarification \ {k} : clar[r][j] \notin Unresolved
    IN
    /\ clar[r][k] = "interpreted" \/ (clar[r][k] = "settled" /\ last)
    /\ \A c \in confirming[r] : c.clar # k
    /\ confirming' = [confirming EXCEPT ![r] = @ \cup {[clar |-> k, last |-> last]}]
    /\ UNCHANGED <<rowVars, leaseVars, stepVars, gates, groups, clar, loaded, deciding,
                   workVars, boundVars, ctx>>

\* Mutant of ResumeAfterClarification: the gates are decided, the run is not woken.
ResumeAfterClarificationOnly(r, c) ==
    LET open == Pending(r, "identity_conflict")
    IN  /\ clar' = [clar EXCEPT ![r][c.clar] = "settled"]
        /\ confirming' = [confirming EXCEPT ![r] = @ \ {c}]
        /\ gates' = [gates EXCEPT ![r] =
                       IF c.last /\ node[r] = "resolve_identity_conflicts"
                       THEN (@ \ open) \cup {[x EXCEPT !.st = "approved"] : x \in open}
                       ELSE @]
        /\ UNCHANGED <<rowVars, leaseVars, stepVars, groups, loaded, deciding,
                       workVars, boundVars, ctx>>

\* _resume_after_clarifications and the commit: a request that saw no other open
\* conflict decides the identity gates and wakes the run, under their locks.
ResumeAfterClarification(r, c) ==
    LET here == node[r] = "resolve_identity_conflicts"
        open == Pending(r, "identity_conflict")
    IN  /\ clar' = [clar EXCEPT ![r][c.clar] = "settled"]
        /\ confirming' = [confirming EXCEPT ![r] = @ \ {c}]
        /\ gates' = [gates EXCEPT ![r] =
                       IF c.last /\ here
                       THEN (@ \ open) \cup {[x EXCEPT !.st = "approved"] : x \in open}
                       ELSE @]
        /\ status' = [status EXCEPT ![r] =
                        IF c.last /\ here /\ @ = "waiting_human" THEN "running" ELSE @]
        /\ UNCHANGED <<node, cursor, term, error, lock, leaseVars, stepVars, groups,
                       loaded, deciding, workVars, boundVars, ctx>>

\* The approval-group endpoints decide the group, not its gate, and check the
\* row's status as loaded before its lock: requests that overlap all decide it.
\* Up to the unlocked read of the other groups; what it wrote is seen later.
DecideGroup(r, g) ==
    /\ LegacyApprovals
    /\ \/ groups[r][g] = "pending" /\ UNCHANGED faults
       \/ /\ groups[r][g] \in Outcome
          /\ faults < MaxFaults
          /\ faults' = faults + 1
    /\ \A c \in deciding[r] : c.group # g
    /\ deciding' = [deciding EXCEPT ![r] = @ \cup
           {[group |-> g, last |-> \A h \in Group \ {g} : groups[r][h] # "pending"]}]
    /\ UNCHANGED <<rowVars, leaseVars, stepVars, gates, groups, clar, loaded, confirming,
                   workVars, rounds, ctx>>

\* _resume_after_approvals and the commit.
ResumeAfterApproval(r, c, d) ==
    /\ groups' = [groups EXCEPT ![r][c.group] = d]
    /\ deciding' = [deciding EXCEPT ![r] = @ \ {c}]
    /\ status' = [status EXCEPT ![r] =
                    IF /\ @ = "waiting_human"
                       /\ node[r] = "wait_high_risk_approvals"
                       /\ c.last
                    THEN "running" ELSE @]
    /\ UNCHANGED <<node, cursor, term, error, lock, leaseVars, stepVars, gates, clar,
                   loaded, confirming, workVars, boundVars, ctx>>

\* The external target database changes, or changes back, under the run.
TargetMoves(r) ==
    /\ VersionOf[r] \in Sync
    /\ plan[r].made
    /\ status[r] \in Active
    /\ faults < MaxFaults
    /\ faults' = faults + 1
    /\ drifted' = [drifted EXCEPT ![r] = ~@]
    /\ UNCHANGED <<rowVars, leaseVars, stepVars, humanVars, sealed, plan, applied, report, rounds, ctx>>

-----------------------------------------------------------------------------
(* The specification *)

\* What a live worker does next with the run it has claimed.
Execute(w) ==
    \/ ExecuteOther(w) \/ BuildIdentityIndex(w) \/ OpenIdentityConflictGate(w)
    \/ AggregateRisk(w) \/ CompileExecutionPlan(w) \/ PreflightPassed(w)
    \/ PreflightStale(w) \/ ExecuteGovernance(w) \/ GenerateReport(w)
    \/ AssessRollback(w) \/ EnterRollbackApproval(w) \/ CompileRollback(w)
    \/ ExecuteRollback(w) \/ ModelFails(w) \/ ExecutorRejects(w)

Work(w) ==
    \/ BeginTermination(w) \/ BeginReplay(w) \/ BeginFresh(w) \/ Evaluate(w)
    \/ Freeze(w) \/ DecideRead(w) \/ DecideInsert(w) \/ DecideDuplicate(w)
    \/ Execute(w) \/ Abandon(w)
    \/ CommitStep(w) \/ CommitTerminal(w) \/ CommitRejected(w)
    \/ BlockModelFailure(w) \/ FailActionContract(w) \/ FailPersistenceContract(w)
    \/ HandlerStale(w) \/ LoseClaim(w)

Fault ==
    \/ \E w \in Worker : Crash(w) \/ TransientError(w) \/ Heartbeat(w)
    \/ \E r \in Run : LeaseExpire(r) \/ TargetMoves(r)

Operator(r) ==
    \/ Start(r) \/ CreateRollback(r) \/ ConfirmRollback(r) \/ RejectRollback(r)
    \/ PreviewTermination(r)
    \/ \E x \in gates[r] : LoadForDecision(r, x)
    \/ \E q \in loaded[r] :
           ApproveTermination(r, q) \/ \E d \in Outcome : DecideGate(r, q, d)
    \/ \E k \in Clarification : InterpretClarification(r, k) \/ ConfirmClarification(r, k)
    \/ \E c \in confirming[r] : ResumeAfterClarification(r, c)
    \/ \E g \in Group : DecideGroup(r, g)
    \/ \E c \in deciding[r], d \in Outcome : ResumeAfterApproval(r, c, d)

Next ==
    \/ \E w \in Worker, r \in Run : Claim(w, r)
    \/ \E w \in Worker : Work(w)
    \/ Fault
    \/ \E r \in Run : Operator(r)

Spec == Init /\ [][Next]_vars

\* A live worker goes on with its run; an idle one claims the run that waited
\* longest (claim_next_run orders by updated_at), so that none waits for ever;
\* and a lease that nobody renews passes.
Orphaned(r) == leased[r] /\ ~\E w \in Worker : Fenced(w) /\ ctx[w].run = r

Fairness ==
    /\ \A w \in Worker : WF_vars(Work(w))
    /\ \A r \in Run : SF_vars(\E w \in Worker : Claim(w, r))
    /\ \A r \in Run : WF_vars(Orphaned(r) /\ LeaseExpire(r))

FairSpec == Spec /\ Fairness

=============================================================================
