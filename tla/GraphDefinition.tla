-------------------------- MODULE GraphDefinition --------------------------
(***************************************************************************)
(* The versioned state graphs of the controlled Agent runtime              *)
(* (backend/app/agent_graph/definition.py) and the static facts the worker *)
(* and the operator API derive from a node: which action leads where,      *)
(* where a human pause may end, and which node a human gate belongs to.    *)
(* A graph edge is a triple <<node, action kind, successor>>.              *)
(***************************************************************************)

GraphVersion == {"agent-sync-graph-v1", "agent-sync-graph-v2",
                 "agent-rollback-graph-v1"}

Sync == {"agent-sync-graph-v1", "agent-sync-graph-v2"}

CommonEdges ==
    { <<"drain_current_atomic_unit", "termination_report", "termination_report">>,
      <<"termination_report", "finish_termination_report", "terminal">>,
      <<"blocked_model_error", "terminate_blocked_run", "drain_current_atomic_unit">> }

SyncEdges ==
    CommonEdges \cup
    { <<"intent_confirmed", "acquire_school_lock", "acquire_school_lock">>,
      <<"inspect_sources", "inspect_authority", "inspect_sources">>,
      <<"inspect_sources", "inspect_target", "inspect_sources">>,
      <<"inspect_sources", "normalize_ready_sources", "normalize_input_batches">>,
      <<"normalize_input_batches", "normalize_next_batch", "normalize_input_batches">>,
      <<"normalize_input_batches", "validate_normalized_input", "validate_input_contract">>,
      <<"validate_input_contract", "report_abnormal_input", "abnormal_input_report">>,
      <<"validate_input_contract", "build_identity_index", "build_identity_index">>,
      <<"abnormal_input_report", "finish_abnormal_report", "terminal">>,
      <<"build_identity_index", "build_identity_index", "construct_identity_work">>,
      <<"construct_identity_work", "construct_identity_work", "analyze_actionable_batches">>,
      <<"analyze_actionable_batches", "analyze_next_batch", "analyze_actionable_batches">>,
      <<"analyze_actionable_batches", "repair_analysis_batch", "repair_analysis_batch">>,
      <<"analyze_actionable_batches", "resolve_identity_conflicts", "resolve_identity_conflicts">>,
      <<"analyze_actionable_batches", "enter_aggregate_risk", "aggregate_risk">>,
      <<"repair_analysis_batch", "repair_analysis_batch", "analyze_actionable_batches">>,
      <<"resolve_identity_conflicts", "resume_analysis_after_identity_conflicts",
            "analyze_actionable_batches">>,
      <<"aggregate_risk", "aggregate_risk", "wait_high_risk_approvals">>,
      <<"wait_high_risk_approvals", "compile_execution_plan", "compile_execution_plan">>,
      <<"compile_execution_plan", "preflight_execution", "preflight_execution">>,
      <<"preflight_execution", "request_cross_phase_replan", "wait_replan_confirmation">>,
      <<"preflight_execution", "execute_ready_operations", "execute_ready_operations">>,
      <<"wait_replan_confirmation", "compile_execution_plan", "compile_execution_plan">>,
      <<"execute_ready_operations", "verify_operations", "verify_operations">>,
      <<"verify_operations", "execute_remaining_independent", "execute_remaining_independent">>,
      <<"verify_operations", "generate_terminal_report", "generate_terminal_report">>,
      <<"execute_remaining_independent", "verify_operations", "verify_operations">>,
      <<"generate_terminal_report", "finish_terminal_report", "terminal">> }

\* SYNC_GRAPH_V1 and SYNC_GRAPH_V2 differ only in what follows the school lock.
SyncV1Edges ==
    SyncEdges \cup
    { <<"acquire_school_lock", "inspect_sources", "inspect_sources">> }

SyncV2Edges ==
    SyncEdges \cup
    { <<"acquire_school_lock", "materialize_sources", "materialize_sources">>,
      <<"materialize_sources", "materialize_remote_authority", "inspect_sources">> }

RollbackEdges ==
    CommonEdges \cup
    { <<"rollback_intent_confirmed", "acquire_school_lock", "acquire_school_lock">>,
      <<"acquire_school_lock", "load_verified_mutations", "load_verified_mutations">>,
      <<"load_verified_mutations", "assess_restore_impact", "assess_restore_impact">>,
      <<"assess_restore_impact", "assess_restore_impact", "wait_restore_conflicts">>,
      <<"wait_restore_conflicts", "wait_rollback_approval", "wait_rollback_approval">>,
      <<"wait_rollback_approval", "compile_restore_plan", "compile_restore_plan">>,
      <<"compile_restore_plan", "preflight_restore", "preflight_restore">>,
      <<"preflight_restore", "execute_restore_operations", "execute_restore_operations">>,
      <<"execute_restore_operations", "verify_restore_operations", "verify_restore_operations">>,
      <<"verify_restore_operations", "generate_rollback_report", "generate_rollback_report">>,
      <<"generate_rollback_report", "finish_rollback_report", "terminal">> }

Edges(v) == CASE v = "agent-sync-graph-v1" -> SyncV1Edges
              [] v = "agent-sync-graph-v2" -> SyncV2Edges
              [] OTHER -> RollbackEdges

Nodes(v) == UNION {{e[1], e[3]} : e \in Edges(v)}

Node == UNION {Nodes(v) : v \in GraphVersion}

InitialNode(v) ==
    IF v \in Sync THEN "intent_confirmed" ELSE "rollback_intent_confirmed"

\* Where the start and confirm services leave a run once it owns the school lock.
AfterLockNode(v) ==
    CHOOSE n \in Nodes(v) : \E e \in Edges(v) : e[1] = "acquire_school_lock" /\ e[3] = n

(***************************************************************************)
(* Actions.  An action is an edge without its source; the terminate action *)
(* is the only one that is in no edge table.                               *)
(***************************************************************************)
TerminateAction == [kind |-> "terminate_requested",
                    to   |-> "drain_current_atomic_unit"]

Action == {TerminateAction}
          \cup {[kind |-> e[2], to |-> e[3]] : e \in UNION {Edges(v) : v \in GraphVersion}}

ActionsAt(v, n) == {[kind |-> e[2], to |-> e[3]] : e \in {x \in Edges(v) : x[1] = n}}

\* GraphGuardService.validate_action_path.
ValidActionPath(v, n, a) ==
    \/ a = TerminateAction /\ n # "terminal"
    \/ a \in ActionsAt(v, n)

\* From these nodes the worker no longer looks at the termination flag.
DrainNodes == {"drain_current_atomic_unit", "termination_report", "terminal"}

\* The successors at which _commit accepts pause_for_human.
HumanPauseNodes ==
    {"resolve_identity_conflicts", "wait_high_risk_approvals",
     "wait_replan_confirmation", "wait_restore_conflicts",
     "wait_rollback_approval", "blocked_model_error"}

\* Nodes whose executor dispatches a model and may exhaust its retries.  The
\* report nodes also ask a model, but fall back to a deterministic narrative.
ModelNodes ==
    {"inspect_sources", "normalize_input_batches", "analyze_actionable_batches",
     "execute_ready_operations", "execute_remaining_independent",
     "assess_restore_impact", "execute_restore_operations"}

\* The kind of human gate whose decision releases a node (_graph_gate_actionability).
GateKind == {"high_risk_approval", "identity_conflict", "rollback_conflict",
             "rollback_approval", "cross_phase_replan", "termination_confirmation"}

GateNode(kind) ==
    CASE kind = "high_risk_approval" -> "wait_high_risk_approvals"
      [] kind = "identity_conflict"  -> "resolve_identity_conflicts"
      [] kind = "rollback_conflict"  -> "wait_restore_conflicts"
      [] kind = "rollback_approval"  -> "wait_rollback_approval"
      [] kind = "cross_phase_replan" -> "wait_replan_confirmation"
      [] OTHER -> "none"
=============================================================================
