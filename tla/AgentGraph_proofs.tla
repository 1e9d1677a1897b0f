-------------------------- MODULE AgentGraph_proofs --------------------------
EXTENDS AgentGraphProperties, FiniteSetTheorems, TLAPS

(* Proofs about AgentGraph, for every value of its constants.  TypeInv is   *)
(* the type invariant; SafeInv relates a school's lease to the runs that    *)
(* may still write, and a worker's claim to the lease generation it was     *)
(* given.  ClaimIsPast is what makes it inductive: a claim never carries a  *)
(* fencing token newer than its run's, so a token that was superseded can   *)
(* never become current again.  CallsArePast is its counterpart for requests *)
(* that decide a gate on a status loaded before, and ErrorsMarkFailures     *)
(* tells a failed run that such a request calls running from one that runs. *)

\* Every successor and every source of an edge is a node.
LEMMA ActionLeadsToNode == \A a \in Action : a.to \in Node
<1> SUFFICES ASSUME NEW a \in Action PROVE a.to \in Node
    OBVIOUS
<1>1. CASE a = TerminateAction
  <2>1. <<"drain_current_atomic_unit", "termination_report", "termination_report">> \in CommonEdges
        BY DEF CommonEdges
  <2>2. CommonEdges \subseteq Edges("agent-rollback-graph-v1")
        BY DEF Edges, RollbackEdges
  <2> QED BY <1>1, <2>1, <2>2 DEF TerminateAction, Node, Nodes, GraphVersion
<1>2. CASE a # TerminateAction
  <2>0. PICK v \in GraphVersion : \E e \in Edges(v) : a = [kind |-> e[2], to |-> e[3]]
        BY <1>2 DEF Action
  <2>1. PICK e \in Edges(v) : a = [kind |-> e[2], to |-> e[3]]
        BY <2>0
  <2>2. e[3] \in Nodes(v)
        BY DEF Nodes
  <2> QED BY <2>1, <2>2 DEF Node
<1> QED BY <1>1, <1>2

\* What a node offers are actions.
LEMMA ActionsAtAreActions ==
    \A v \in GraphVersion : \A n : ActionsAt(v, n) \subseteq Action
BY DEF ActionsAt, Action

LEMMA TerminateIsAction == TerminateAction \in Action
BY DEF Action

\* Every edge names its action: none of them is the absent action.
LEMMA ActionsAreReal == NoAction \notin Action
<1> SUFFICES ASSUME NoAction \in Action PROVE FALSE
    OBVIOUS
<1>1. NoAction # TerminateAction
      BY DEF NoAction, TerminateAction
<1>2. PICK v \in GraphVersion : \E e \in Edges(v) : NoAction = [kind |-> e[2], to |-> e[3]]
      BY <1>1 DEF Action
<1>3. PICK e \in Edges(v) : NoAction = [kind |-> e[2], to |-> e[3]]
      BY <1>2
<1>4. e[2] = "none"
      BY <1>3 DEF NoAction
<1>5. \A x \in CommonEdges : x[2] # "none"
      BY DEF CommonEdges
<1>6. \A x \in SyncEdges : x[2] # "none"
      BY <1>5 DEF SyncEdges
<1>7. \A x \in RollbackEdges : x[2] # "none"
      BY <1>5 DEF RollbackEdges
<1>8. \A x \in SyncV1Edges \cup SyncV2Edges : x[2] # "none"
      BY <1>6 DEF SyncV1Edges, SyncV2Edges
<1> QED BY <1>4, <1>7, <1>8 DEF Edges

LEMMA OfferedAreActions ==
    ASSUME ConstantsAssumption, NEW r \in Run, NEW n
    PROVE  Offered(r, n) \subseteq ActionsAt(VersionOf[r], n) \cup {TerminateAction}
<1> DEFINE here == ActionsAt(VersionOf[r], n)
<1> QED BY DEF Offered, LoopKinds

\* The nodes the runtime enters outside the edge table.
LEMMA FixedNodes ==
    /\ "terminal" \in Node
    /\ "blocked_model_error" \in Node
    /\ "drain_current_atomic_unit" \in Node
<1>1. /\ <<"termination_report", "finish_termination_report", "terminal">> \in CommonEdges
      /\ <<"blocked_model_error", "terminate_blocked_run", "drain_current_atomic_unit">> \in CommonEdges
      BY DEF CommonEdges
<1>2. CommonEdges \subseteq Edges("agent-rollback-graph-v1")
      BY DEF Edges, RollbackEdges
<1>3. Nodes("agent-rollback-graph-v1") \subseteq Node
      BY DEF Node, GraphVersion
<1> QED BY <1>1, <1>2, <1>3 DEF Nodes

LEMMA StartNodes ==
    \A v \in GraphVersion : InitialNode(v) \in Node /\ AfterLockNode(v) \in Node
<1> SUFFICES ASSUME NEW v \in GraphVersion
             PROVE  InitialNode(v) \in Node /\ AfterLockNode(v) \in Node
    OBVIOUS
<1>1. \E e \in Edges(v) : e[1] = "acquire_school_lock"
  <2>1. CASE v = "agent-sync-graph-v1"
    <3>1. <<"acquire_school_lock", "inspect_sources", "inspect_sources">> \in Edges(v)
          BY <2>1 DEF Edges, SyncV1Edges
    <3> QED BY <3>1
  <2>2. CASE v = "agent-sync-graph-v2"
    <3>1. <<"acquire_school_lock", "materialize_sources", "materialize_sources">> \in Edges(v)
          BY <2>2 DEF Edges, SyncV2Edges
    <3> QED BY <3>1
  <2>3. CASE v = "agent-rollback-graph-v1"
    <3>1. <<"acquire_school_lock", "load_verified_mutations", "load_verified_mutations">> \in Edges(v)
          BY <2>3 DEF Edges, RollbackEdges
    <3> QED BY <3>1
  <2> QED BY <2>1, <2>2, <2>3 DEF GraphVersion
<1>2. AfterLockNode(v) \in Nodes(v)
  <2>1. \E n \in Nodes(v) : \E e \in Edges(v) : e[1] = "acquire_school_lock" /\ e[3] = n
        BY <1>1 DEF Nodes
  <2> QED BY <2>1 DEF AfterLockNode
<1>3. InitialNode(v) \in Nodes(v)
  <2>1. CASE v \in Sync
    <3>1. <<"intent_confirmed", "acquire_school_lock", "acquire_school_lock">> \in SyncEdges
          BY DEF SyncEdges
    <3>2. SyncEdges \subseteq Edges(v)
          BY <2>1 DEF Edges, SyncV1Edges, SyncV2Edges, Sync
    <3> QED BY <2>1, <3>1, <3>2 DEF InitialNode, Nodes
  <2>2. CASE v \notin Sync
    <3>1. <<"rollback_intent_confirmed", "acquire_school_lock", "acquire_school_lock">> \in Edges(v)
          BY <2>2 DEF Edges, RollbackEdges, Sync
    <3> QED BY <2>2, <3>1 DEF InitialNode, Nodes
  <2> QED BY <2>1, <2>2
<1> QED BY <1>2, <1>3 DEF Node

-----------------------------------------------------------------------------
(* What a step does to the memory of its worker *)

\* Moving on changes the place of one worker, and perhaps its action or pause.
LEMMA GotoEffect ==
    ASSUME ctx \in [Worker -> Context], NEW w \in Worker, NEW p \in Pc, Goto(w, p)
    PROVE  /\ ctx' \in [Worker -> Context]
           /\ \A v \in Worker \ {w} : ctx'[v] = ctx[v]
           /\ ctx'[w].pc = p /\ ctx'[w].act = ctx[w].act
           /\ ctx'[w].run = ctx[w].run /\ ctx'[w].node = ctx[w].node
           /\ ctx'[w].cursor = ctx[w].cursor /\ ctx'[w].token = ctx[w].token
<1>1. ctx[w] \in Context /\ ctx'[w] = [ctx[w] EXCEPT !.pc = p]
      BY DEF Goto
<1>2. ctx'[w] \in Context
      BY <1>1 DEF Context
<1>3. ctx' \in [Worker -> Context] /\ \A v \in Worker \ {w} : ctx'[v] = ctx[v]
      BY <1>2 DEF Goto
<1>4. /\ ctx'[w].pc = p /\ ctx'[w].act = ctx[w].act
      /\ ctx'[w].run = ctx[w].run /\ ctx'[w].node = ctx[w].node
      /\ ctx'[w].cursor = ctx[w].cursor /\ ctx'[w].token = ctx[w].token
      BY <1>1 DEF Context
<1> QED BY <1>3, <1>4

LEMMA GotoWithEffect ==
    ASSUME ctx \in [Worker -> Context], NEW w \in Worker, NEW p \in Pc,
           NEW a \in Action \cup {NoAction}, GotoWith(w, p, a)
    PROVE  /\ ctx' \in [Worker -> Context]
           /\ \A v \in Worker \ {w} : ctx'[v] = ctx[v]
           /\ ctx'[w].pc = p /\ ctx'[w].act = a
           /\ ctx'[w].run = ctx[w].run /\ ctx'[w].node = ctx[w].node
           /\ ctx'[w].cursor = ctx[w].cursor /\ ctx'[w].token = ctx[w].token
<1>1. ctx[w] \in Context /\ ctx'[w] = [ctx[w] EXCEPT !.pc = p, !.act = a]
      BY DEF GotoWith
<1>2. ctx'[w] \in Context
      BY <1>1 DEF Context
<1>3. ctx' \in [Worker -> Context] /\ \A v \in Worker \ {w} : ctx'[v] = ctx[v]
      BY <1>2 DEF GotoWith
<1>4. /\ ctx'[w].pc = p /\ ctx'[w].act = a
      /\ ctx'[w].run = ctx[w].run /\ ctx'[w].node = ctx[w].node
      /\ ctx'[w].cursor = ctx[w].cursor /\ ctx'[w].token = ctx[w].token
      BY <1>1 DEF Context
<1> QED BY <1>3, <1>4

LEMMA ExecutedEffect ==
    ASSUME ctx \in [Worker -> Context], NEW w \in Worker, NEW b \in BOOLEAN, Executed(w, b)
    PROVE  /\ ctx' \in [Worker -> Context]
           /\ \A v \in Worker \ {w} : ctx'[v] = ctx[v]
           /\ ctx'[w].pc = "commit" /\ ctx'[w].act = ctx[w].act
           /\ ctx'[w].run = ctx[w].run /\ ctx'[w].node = ctx[w].node
           /\ ctx'[w].cursor = ctx[w].cursor /\ ctx'[w].token = ctx[w].token
<1>1. ctx[w] \in Context /\ ctx'[w] = [ctx[w] EXCEPT !.pc = "commit", !.pause = b]
      BY DEF Executed
<1>2. ctx'[w] \in Context
      BY <1>1 DEF Context, Pc
<1>3. ctx' \in [Worker -> Context] /\ \A v \in Worker \ {w} : ctx'[v] = ctx[v]
      BY <1>2 DEF Executed
<1> QED BY <1>1, <1>3 DEF Context

\* The end of an iteration forgets everything the worker knew.
LEMMA QuitEffect ==
    ASSUME ctx \in [Worker -> Context], NEW w \in Worker, Quit(w)
    PROVE  /\ ctx' \in [Worker -> Context]
           /\ \A v \in Worker \ {w} : ctx'[v] = ctx[v]
           /\ ctx'[w] = IdleContext
<1>1. IdleContext \in Context
      BY FixedNodes DEF IdleContext, Context, Pc
<1> QED BY <1>1 DEF Quit

-----------------------------------------------------------------------------
(* Type correctness *)

\* Where a worker has to know its action.
Acting == {"freeze", "decide", "insert", "execute", "commit"}

\* A busy worker has a run, and one past the choice of its action has an action.
ActionChosen ==
    \A w \in Worker :
        /\ Busy(w) => ctx[w].run \in Run
        /\ ctx[w].pc \in Acting => ctx[w].act \in Action

TypeInv == TypeOK /\ ActionChosen

LEMMA TypeInit == ASSUME ConstantsAssumption PROVE Init => TypeInv
BY StartNodes, FixedNodes
   DEF Init, TypeInv, TypeOK, ActionChosen, Acting, Busy, IdleContext, Context, Pc, NoPlan,
       Status, ReportKind, GroupStatus, ClarStatus

LEMMA TypeFrame ==
    ASSUME TypeOK, ctx' \in [Worker -> Context],
           UNCHANGED <<rowVars, leaseVars, stepVars, humanVars, workVars, boundVars>>
    PROVE  TypeOK'
BY DEF TypeOK, rowVars, leaseVars, stepVars, humanVars, callVars, workVars, boundVars

LEMMA GotoType ==
    ASSUME TypeInv, NEW w \in Worker, NEW p \in Pc, Goto(w, p), Busy(w),
           p \in Acting => ctx[w].pc \in Acting
    PROVE  ctx' \in [Worker -> Context] /\ ActionChosen'
<1>1. ctx \in [Worker -> Context]
      BY DEF TypeInv, TypeOK
<1>2. /\ ctx' \in [Worker -> Context]
      /\ \A v \in Worker \ {w} : ctx'[v] = ctx[v]
      /\ ctx'[w].pc = p /\ ctx'[w].act = ctx[w].act /\ ctx'[w].run = ctx[w].run
      BY <1>1, GotoEffect
<1> QED BY <1>2 DEF TypeInv, ActionChosen, Acting, Busy

LEMMA GotoWithType ==
    ASSUME TypeInv, NEW w \in Worker, NEW p \in Pc, NEW a \in Action,
           GotoWith(w, p, a), Busy(w)
    PROVE  ctx' \in [Worker -> Context] /\ ActionChosen'
<1>1. ctx \in [Worker -> Context]
      BY DEF TypeInv, TypeOK
<1>2. /\ ctx' \in [Worker -> Context]
      /\ \A v \in Worker \ {w} : ctx'[v] = ctx[v]
      /\ ctx'[w].pc = p /\ ctx'[w].act = a /\ ctx'[w].run = ctx[w].run
      BY <1>1, GotoWithEffect
<1> QED BY <1>2 DEF TypeInv, ActionChosen, Acting, Busy

LEMMA ExecutedType ==
    ASSUME TypeInv, NEW w \in Worker, NEW b \in BOOLEAN, Executed(w, b),
           ctx[w].pc = "execute"
    PROVE  ctx' \in [Worker -> Context] /\ ActionChosen'
<1>1. ctx \in [Worker -> Context]
      BY DEF TypeInv, TypeOK
<1>2. /\ ctx' \in [Worker -> Context]
      /\ \A v \in Worker \ {w} : ctx'[v] = ctx[v]
      /\ ctx'[w].pc = "commit" /\ ctx'[w].act = ctx[w].act /\ ctx'[w].run = ctx[w].run
      BY <1>1, ExecutedEffect
<1> QED BY <1>2 DEF TypeInv, ActionChosen, Acting, Busy

LEMMA QuitType ==
    ASSUME TypeInv, NEW w \in Worker, Quit(w)
    PROVE  ctx' \in [Worker -> Context] /\ ActionChosen'
<1>1. ctx \in [Worker -> Context]
      BY DEF TypeInv, TypeOK
<1>2. /\ ctx' \in [Worker -> Context]
      /\ \A v \in Worker \ {w} : ctx'[v] = ctx[v]
      /\ ctx'[w].pc = "idle"
      BY <1>1, QuitEffect DEF IdleContext
<1> QED BY <1>2 DEF TypeInv, ActionChosen, Acting, Busy

\* Choosing an action keeps the types.
LEMMA TypeChoose ==
    ASSUME ConstantsAssumption, TypeInv, NEW w \in Worker,
           BeginTermination(w) \/
           BeginReplay(w) \/
           BeginFresh(w) \/
           Evaluate(w) \/
           DecideRead(w) \/
           DecideDuplicate(w)
    PROVE  TypeInv'
<1>1. CASE BeginTermination(w)
      BY <1>1, GotoWithType, TerminateIsAction, TypeFrame DEF BeginTermination, TypeInv, Busy, Pc
<1>2. CASE BeginReplay(w)
  <2>1. frozen[ctx[w].run] \in Action
        BY <1>2 DEF BeginReplay, TypeInv, TypeOK, ActionChosen, Busy
  <2> QED BY <1>2, <2>1, GotoWithType, TypeFrame DEF BeginReplay, TypeInv, Busy, Pc
<1>3. CASE BeginFresh(w)
      BY <1>3, GotoType, TypeFrame DEF BeginFresh, TypeInv, Busy, Pc, Acting
<1>4. CASE Evaluate(w)
  <2>1. PICK a \in Offered(ctx[w].run, ctx[w].node) : GotoWith(w, "freeze", a)
        BY <1>4 DEF Evaluate
  <2>2. ctx[w].run \in Run
        BY <1>4 DEF Evaluate, TypeInv, ActionChosen, Busy
  <2>3. a \in Action
        BY <2>1, <2>2, OfferedAreActions, ActionsAtAreActions, TerminateIsAction
           DEF ConstantsAssumption
  <2> QED BY <1>4, <2>1, <2>3, GotoWithType, TypeFrame DEF Evaluate, TypeInv, Busy, Pc
<1>5. CASE DecideRead(w)
      BY <1>5, GotoType, TypeFrame DEF DecideRead, TypeInv, Busy, Pc, Acting
<1>6. CASE DecideDuplicate(w)
      BY <1>6, GotoType, TypeFrame DEF DecideDuplicate, TypeInv, Busy, Pc, Acting
<1> QED BY <1>1, <1>2, <1>3, <1>4, <1>5, <1>6

\* Freezing the candidate and recording the decision keep the types.
LEMMA TypeFreeze ==
    ASSUME ConstantsAssumption, TypeInv, NEW w \in Worker,
           Freeze(w) \/
           DecideInsert(w)
    PROVE  TypeInv'
<1>1. CASE Freeze(w)
  <2>1. ctx[w].pc = "freeze" /\ ctx[w].run \in Run /\ ctx[w].act \in Action
        BY <1>1 DEF Freeze, TypeInv, ActionChosen, Busy, Acting
  <2>2. ctx' \in [Worker -> Context] /\ ActionChosen'
        BY <1>1, <2>1, GotoType DEF Freeze, Busy, Pc, Acting
  <2>3. frozen' \in [Run -> Action \cup {NoAction}]
        BY <1>1, <2>1 DEF Freeze, TypeInv, TypeOK
  <2> QED BY <1>1, <2>2, <2>3
          DEF Freeze, TypeInv, TypeOK, rowVars, leaseVars, humanVars, callVars, workVars, boundVars
<1>2. CASE DecideInsert(w)
  <2>1. ctx[w].pc = "insert" /\ ctx[w].run \in Run /\ ctx[w].cursor \in Nat
        BY <1>2 DEF DecideInsert, TypeInv, TypeOK, ActionChosen, Busy, Context
  <2>2. ctx' \in [Worker -> Context] /\ ActionChosen'
        BY <1>2, <2>1, GotoType DEF DecideInsert, Busy, Pc, Acting
  <2>3. decided' \in [Run -> SUBSET Nat]
        BY <1>2, <2>1 DEF DecideInsert, TypeInv, TypeOK
  <2> QED BY <1>2, <2>2, <2>3
          DEF DecideInsert, TypeInv, TypeOK, rowVars, leaseVars, humanVars, callVars, workVars, boundVars
<1> QED BY <1>1, <1>2

LEMMA NewGateType ==
    \A kind \in GateKind, at \in Nat, m \in Member : NewGate(kind, at, m) \in Gate
BY DEF NewGate, Gate, GateStatus

LEMMA RecordGateType ==
    ASSUME TypeOK, NEW r \in Run, NEW kind \in GateKind, NEW at \in Nat, NEW m \in Member,
           RecordGate(r, kind, at, m)
    PROVE  gates' \in [Run -> SUBSET Gate]
<1>1. NewGate(kind, at, m) \in Gate
      BY NewGateType
<1> QED BY <1>1 DEF RecordGate, TypeOK

LEMMA ReleaseType ==
    ASSUME ConstantsAssumption, TypeInv, NEW w \in Worker, ReleaseClaim(w)
    PROVE  /\ owner' \in [Run -> Worker \cup {NoWorker}]
           /\ token' \in [Run -> Nat]
           /\ leased' \in [Run -> BOOLEAN]
           /\ attempt' \in [Run -> Nat]
BY DEF ReleaseClaim, TypeInv, TypeOK

\* A worker that executes knows its run and its cursor.
LEMMA ExecutingType ==
    ASSUME TypeInv, NEW w \in Worker, ctx[w].pc = "execute"
    PROVE  ctx[w].run \in Run /\ ctx[w].cursor \in Nat /\ ctx[w].act \in Action /\ Busy(w)
BY DEF TypeInv, TypeOK, ActionChosen, Acting, Busy, Context

\* Executors that change nothing modelled keep the types.
LEMMA TypeExecuteReads ==
    ASSUME ConstantsAssumption, TypeInv, NEW w \in Worker,
           ExecuteOther(w) \/
           PreflightPassed(w) \/
           CompileRollback(w) \/
           ModelFails(w) \/
           ExecutorRejects(w)
    PROVE  TypeInv'
<1>1. CASE ExecuteOther(w)
      BY <1>1, ExecutedType, TypeFrame DEF ExecuteOther, Executing, TypeInv
<1>2. CASE PreflightPassed(w)
      BY <1>2, ExecutedType, TypeFrame DEF PreflightPassed, Executing, TypeInv
<1>3. CASE CompileRollback(w)
      BY <1>3, ExecutedType, TypeFrame DEF CompileRollback, Executing, TypeInv
<1>4. CASE ModelFails(w)
      BY <1>4, GotoType, TypeFrame DEF ModelFails, TypeInv, Busy, Pc, Acting
<1>5. CASE ExecutorRejects(w)
      BY <1>5, GotoType, TypeFrame DEF ExecutorRejects, TypeInv, Busy, Pc, Acting
<1> QED BY <1>1, <1>2, <1>3, <1>4, <1>5

\* Executors that open a gate keep the types.
LEMMA TypeExecuteGates ==
    ASSUME ConstantsAssumption, TypeInv, NEW w \in Worker,
           OpenIdentityConflictGate(w) \/
           PreflightStale(w) \/
           AssessRollback(w) \/
           EnterRollbackApproval(w)
    PROVE  TypeInv'
<1>1. CASE OpenIdentityConflictGate(w)
  <2>1. ctx[w].pc = "execute"
        BY <1>1 DEF OpenIdentityConflictGate, Executing
  <2>2. ctx' \in [Worker -> Context] /\ ActionChosen'
        BY <1>1, <2>1, ExecutedType DEF OpenIdentityConflictGate
  <2>3. ctx[w].run \in Run /\ ctx[w].cursor \in Nat
        BY <2>1, ExecutingType
  <2>4. gates' \in [Run -> SUBSET Gate]
    <3> DEFINE open == {k \in Clarification : clar[ctx[w].run][k] \in Unresolved}
    <3>1. open \in Member
          BY DEF Member
    <3>2. RecordGate(ctx[w].run, "identity_conflict", ctx[w].cursor, open)
          BY <1>1 DEF OpenIdentityConflictGate
    <3> HIDE DEF open
    <3> QED BY <2>3, <3>1, <3>2, RecordGateType DEF TypeInv, GateKind
  <2> QED BY <1>1, <2>2, <2>4
          DEF OpenIdentityConflictGate, TypeInv, TypeOK, rowVars, leaseVars, stepVars, callVars, workVars, boundVars
<1>2. CASE PreflightStale(w)
  <2>1. ctx[w].pc = "execute"
        BY <1>2 DEF PreflightStale, Executing
  <2>2. ctx' \in [Worker -> Context] /\ ActionChosen'
        BY <1>2, <2>1, ExecutedType DEF PreflightStale
  <2>3. ctx[w].run \in Run /\ ctx[w].cursor \in Nat
        BY <2>1, ExecutingType
  <2>4. gates' \in [Run -> SUBSET Gate]
        BY <1>2, <2>3, RecordGateType DEF PreflightStale, TypeInv, TypeOK, GateKind, Member
  <2> QED BY <1>2, <2>2, <2>4
          DEF PreflightStale, TypeInv, TypeOK, rowVars, leaseVars, stepVars, callVars, workVars, boundVars
<1>3. CASE AssessRollback(w)
  <2>1. ctx[w].pc = "execute"
        BY <1>3 DEF AssessRollback, Executing
  <2>2. ctx' \in [Worker -> Context] /\ ActionChosen'
        BY <1>3, <2>1, ExecutedType DEF AssessRollback
  <2>3. ctx[w].run \in Run /\ ctx[w].cursor \in Nat
        BY <2>1, ExecutingType
  <2>4. gates' \in [Run -> SUBSET Gate]
        BY <1>3, <2>3, RecordGateType DEF AssessRollback, TypeInv, TypeOK, GateKind, Member
  <2> QED BY <1>3, <2>2, <2>4
          DEF AssessRollback, TypeInv, TypeOK, rowVars, leaseVars, stepVars, callVars, workVars, boundVars
<1>4. CASE EnterRollbackApproval(w)
  <2>1. ctx[w].pc = "execute"
        BY <1>4 DEF EnterRollbackApproval, Executing
  <2>2. ctx' \in [Worker -> Context] /\ ActionChosen'
        BY <1>4, <2>1, ExecutedType DEF EnterRollbackApproval
  <2>3. ctx[w].run \in Run /\ ctx[w].cursor \in Nat
        BY <2>1, ExecutingType
  <2>4. gates' \in [Run -> SUBSET Gate]
        BY <1>4, <2>3, RecordGateType DEF EnterRollbackApproval, TypeInv, TypeOK, GateKind, Member
  <2> QED BY <1>4, <2>2, <2>4
          DEF EnterRollbackApproval, TypeInv, TypeOK, rowVars, leaseVars, stepVars, callVars, workVars, boundVars
<1> QED BY <1>1, <1>2, <1>3, <1>4

\* Executors that write facts keep the types.
LEMMA TypeExecuteWrites ==
    ASSUME ConstantsAssumption, TypeInv, NEW w \in Worker,
           BuildIdentityIndex(w) \/
           AggregateRisk(w) \/
           CompileExecutionPlan(w) \/
           ExecuteGovernance(w) \/
           GenerateReport(w) \/
           ExecuteRollback(w)
    PROVE  TypeInv'
<1>1. CASE BuildIdentityIndex(w)
  <2>1. ctx[w].pc = "execute"
        BY <1>1 DEF BuildIdentityIndex, Executing
  <2>2. ctx' \in [Worker -> Context] /\ ActionChosen'
        BY <1>1, <2>1, ExecutedType DEF BuildIdentityIndex
  <2>3. ctx[w].run \in Run /\ ctx[w].cursor \in Nat
        BY <2>1, ExecutingType
  <2>4. clar' \in [Run -> [Clarification -> ClarStatus]]
        BY <1>1, <2>3 DEF BuildIdentityIndex, TypeInv, TypeOK, ClarStatus
  <2> QED BY <1>1, <2>2, <2>4
          DEF BuildIdentityIndex, TypeInv, TypeOK, rowVars, leaseVars, stepVars, callVars, workVars, boundVars
<1>2. CASE AggregateRisk(w)
  <2> DEFINE r == ctx[w].run
             aggregated == [g \in Group |->
                              IF groups[r][g] = "latent" THEN "pending" ELSE groups[r][g]]
             open == {g \in Group : aggregated[g] = "pending"}
             opened == {NewGate("high_risk_approval", ctx[w].cursor, g) : g \in open}
  <2>1. ctx[w].pc = "execute"
        BY <1>2 DEF AggregateRisk, Executing
  <2>2. ctx' \in [Worker -> Context] /\ ActionChosen'
        BY <1>2, <2>1, ExecutedType DEF AggregateRisk
  <2>3. r \in Run /\ ctx[w].cursor \in Nat
        BY <2>1, ExecutingType
  <2>4. Cardinality(open) \in Nat
    <3>1. IsFiniteSet(Group) /\ open \subseteq Group
          BY DEF ConstantsAssumption
    <3>2. IsFiniteSet(open)
          BY <3>1, FS_Subset
    <3> QED BY <3>2, FS_CardinalityType
  <2>5. sealed' \in [Run -> SUBSET Nat]
        BY <1>2, <2>3, <2>4 DEF AggregateRisk, TypeInv, TypeOK
  <2>6. groups' \in [Run -> [Group -> GroupStatus]]
    <3>1. aggregated \in [Group -> GroupStatus]
          BY <2>3 DEF TypeInv, TypeOK, GroupStatus
    <3>2. groups' = [groups EXCEPT ![r] = aggregated]
          BY <1>2 DEF AggregateRisk
    <3> HIDE DEF aggregated
    <3> QED BY <3>1, <3>2 DEF TypeInv, TypeOK
  <2>7. gates' \in [Run -> SUBSET Gate]
    <3>1. opened \subseteq Gate
      <4> SUFFICES ASSUME NEW g \in open
                   PROVE  NewGate("high_risk_approval", ctx[w].cursor, g) \in Gate
          OBVIOUS
      <4> "high_risk_approval" \in GateKind /\ g \in Member
          BY DEF GateKind, Member
      <4> QED BY <2>3, NewGateType
    <3>2. gates' = [gates EXCEPT ![r] = @ \cup opened]
          BY <1>2 DEF AggregateRisk
    <3> HIDE DEF opened
    <3> QED BY <2>3, <3>1, <3>2 DEF TypeInv, TypeOK
  <2> QED BY <1>2, <2>2, <2>5, <2>6, <2>7
          DEF AggregateRisk, TypeInv, TypeOK, rowVars, leaseVars, stepVars, callVars, boundVars
<1>3. CASE CompileExecutionPlan(w)
  <2>1. ctx[w].pc = "execute"
        BY <1>3 DEF CompileExecutionPlan, Executing
  <2>2. ctx' \in [Worker -> Context] /\ ActionChosen'
        BY <1>3, <2>1, ExecutedType DEF CompileExecutionPlan
  <2>3. ctx[w].run \in Run /\ ctx[w].cursor \in Nat
        BY <2>1, ExecutingType
  <2>4. plan' \in [Run -> [made: BOOLEAN, approved: SUBSET Group]]
    <3> DEFINE compiled == [made |-> TRUE,
                            approved |-> {g \in Group : groups[ctx[w].run][g] = "approved"}]
    <3>1. compiled \in [made: BOOLEAN, approved: SUBSET Group]
          OBVIOUS
    <3>2. \/ plan' = [plan EXCEPT ![ctx[w].run] = compiled]
          \/ plan' = plan
          BY <1>3 DEF CompileExecutionPlan
    <3> HIDE DEF compiled
    <3> QED BY <3>1, <3>2 DEF TypeInv, TypeOK
  <2> QED BY <1>3, <2>2, <2>4
          DEF CompileExecutionPlan, TypeInv, TypeOK, rowVars, leaseVars, stepVars, humanVars, callVars, boundVars
<1>4. CASE ExecuteGovernance(w)
  <2>1. ctx[w].pc = "execute"
        BY <1>4 DEF ExecuteGovernance, Executing
  <2>2. ctx[w].run \in Run
        BY <2>1, ExecutingType
  <2>3. applied' \in [Run -> SUBSET {"plan", "restore"}]
        BY <1>4, <2>2 DEF ExecuteGovernance, TypeInv, TypeOK
  <2>4. CASE AtCursor(w)
    <3>1. ctx' \in [Worker -> Context] /\ ActionChosen'
          BY <1>4, <2>1, <2>4, ExecutedType DEF ExecuteGovernance
    <3> QED BY <1>4, <2>3, <2>4, <3>1
            DEF ExecuteGovernance, TypeInv, TypeOK, rowVars, leaseVars, stepVars, humanVars, callVars, boundVars
  <2>5. CASE ~AtCursor(w)
    <3>1. ctx' \in [Worker -> Context] /\ ActionChosen'
          BY <1>4, <2>5, QuitType DEF ExecuteGovernance
    <3> QED BY <1>4, <2>3, <2>5, <3>1, ReleaseType
            DEF ExecuteGovernance, TypeInv, TypeOK, rowVars, stepVars, humanVars, callVars, boundVars
  <2> QED BY <2>4, <2>5
<1>5. CASE GenerateReport(w)
  <2>1. ctx[w].pc = "execute"
        BY <1>5 DEF GenerateReport, Executing
  <2>2. ctx' \in [Worker -> Context] /\ ActionChosen'
        BY <1>5, <2>1, ExecutedType DEF GenerateReport
  <2>3. ctx[w].run \in Run /\ ctx[w].cursor \in Nat
        BY <2>1, ExecutingType
  <2>4. report' \in [Run -> ReportKind]
        BY <1>5, <2>3 DEF GenerateReport, TypeInv, TypeOK, ReportKind, ReportOf
  <2> QED BY <1>5, <2>2, <2>4
          DEF GenerateReport, TypeInv, TypeOK, rowVars, leaseVars, stepVars, humanVars, callVars, boundVars
<1>6. CASE ExecuteRollback(w)
  <2>1. ctx[w].pc = "execute"
        BY <1>6 DEF ExecuteRollback, Executing
  <2>2. ctx' \in [Worker -> Context] /\ ActionChosen'
        BY <1>6, <2>1, ExecutedType DEF ExecuteRollback
  <2>3. ctx[w].run \in Run /\ ctx[w].cursor \in Nat
        BY <2>1, ExecutingType
  <2>4. applied' \in [Run -> SUBSET {"plan", "restore"}]
        BY <1>6, <2>3 DEF ExecuteRollback, TypeInv, TypeOK
  <2> QED BY <1>6, <2>2, <2>4
          DEF ExecuteRollback, TypeInv, TypeOK, rowVars, leaseVars, stepVars, humanVars, callVars, boundVars
<1> QED BY <1>1, <1>2, <1>3, <1>4, <1>5, <1>6

\* Ending an iteration without a transition keeps the types.
LEMMA TypeEnd ==
    ASSUME ConstantsAssumption, TypeInv, NEW w \in Worker,
           Abandon(w) \/
           CommitRejected(w) \/
           HandlerStale(w) \/
           LoseClaim(w) \/
           Crash(w) \/
           TransientError(w)
    PROVE  TypeInv'
<1>1. CASE Abandon(w)
  <2>1. ctx' \in [Worker -> Context] /\ ActionChosen'
        BY <1>1, QuitType DEF Abandon
  <2> QED BY <1>1, <2>1, ReleaseType
          DEF Abandon, TypeInv, TypeOK, rowVars, stepVars, humanVars, callVars, workVars, boundVars
<1>2. CASE CommitRejected(w)
      BY <1>2, GotoType, TypeFrame DEF CommitRejected, TypeInv, Busy, Pc, Acting
<1>3. CASE HandlerStale(w)
      BY <1>3, QuitType, TypeFrame DEF HandlerStale, TypeInv
<1>4. CASE LoseClaim(w)
      BY <1>4, QuitType, TypeFrame DEF LoseClaim, TypeInv
<1>5. CASE Crash(w)
  <2>1. ctx' \in [Worker -> Context] /\ ActionChosen'
        BY <1>5, QuitType DEF Crash
  <2> QED BY <1>5, <2>1 DEF Crash, TypeInv, TypeOK, rowVars, leaseVars, stepVars, humanVars, callVars, workVars
<1>6. CASE TransientError(w)
  <2>1. ctx' \in [Worker -> Context] /\ ActionChosen'
        BY <1>6, QuitType DEF TransientError
  <2> QED BY <1>6, <2>1, ReleaseType
          DEF TransientError, TypeInv, TypeOK, rowVars, stepVars, humanVars, callVars, workVars
<1> QED BY <1>1, <1>2, <1>3, <1>4, <1>5, <1>6

\* Committing a transition or a failure keeps the types.
LEMMA TypeCommit ==
    ASSUME ConstantsAssumption, TypeInv, NEW w \in Worker,
           CommitStep(w) \/
           CommitTerminal(w) \/
           BlockModelFailure(w) \/
           FailActionContract(w) \/
           FailPersistenceContract(w)
    PROVE  TypeInv'
<1>1. CASE CommitStep(w)
  <2> DEFINE r == ctx[w].run
  <2>1. r \in Run /\ ctx[w].act \in Action \cup {NoAction} /\ r \in DOMAIN TenantOf
        BY <1>1 DEF CommitStep, TypeInv, TypeOK, ActionChosen, Busy, Context, ConstantsAssumption
  <2>2. ctx[w].act.to \in Node
        BY <1>1, ActionLeadsToNode DEF CommitStep, TypeInv, ActionChosen, Acting
  <2>3. ctx' \in [Worker -> Context] /\ ActionChosen'
        BY <1>1, QuitType DEF CommitStep, Finish
  <2>4. ReleaseClaim(w)
        BY <1>1 DEF CommitStep, Finish
  <2>5. /\ node' \in [Run -> Node]
        /\ cursor' \in [Run -> Nat]
        /\ frozen' \in [Run -> Action \cup {NoAction}]
        BY <1>1, <2>1, <2>2 DEF CommitStep, Advance, TypeInv, TypeOK
  <2>6. status' \in [Run -> Status]
        BY <1>1, <2>1 DEF CommitStep, TypeInv, TypeOK, Status, Active, Terminal
  <2>7. inspected' \in [Run -> SUBSET {"inspect_authority", "inspect_target"}]
        BY <1>1, <2>1 DEF CommitStep, TypeInv, TypeOK
  <2>8. rounds' \in [Run -> Nat]
        BY <1>1, <2>1 DEF CommitStep, TypeInv, TypeOK
  <2> QED BY <1>1, <2>1, <2>3, <2>4, <2>5, <2>6, <2>7, <2>8, ReleaseType
          DEF CommitStep, TypeInv, TypeOK, humanVars, callVars, workVars
<1>2. CASE CommitTerminal(w)
  <2> DEFINE r == ctx[w].run
  <2>1. r \in Run /\ ctx[w].act \in Action \cup {NoAction} /\ r \in DOMAIN TenantOf
        BY <1>2 DEF CommitTerminal, TypeInv, TypeOK, ActionChosen, Busy, Context, ConstantsAssumption
  <2>3. ctx' \in [Worker -> Context] /\ ActionChosen'
        BY <1>2, QuitType DEF CommitTerminal, Finish
  <2>4. ReleaseClaim(w)
        BY <1>2 DEF CommitTerminal, Finish
  <2>5. /\ node' \in [Run -> Node]
        /\ cursor' \in [Run -> Nat]
        /\ frozen' \in [Run -> Action \cup {NoAction}]
        BY <1>2, <2>1, FixedNodes DEF CommitTerminal, Advance, TypeInv, TypeOK
  <2>6. /\ status' \in [Run -> Status]
        /\ lock' \in [Tenant -> Run \cup {NoRun}]
        BY <1>2, <2>1 DEF CommitTerminal, TypeInv, TypeOK, Status, Active, Terminal
  <2> QED BY <1>2, <2>1, <2>3, <2>4, <2>5, <2>6, ReleaseType
          DEF CommitTerminal, TypeInv, TypeOK, humanVars, callVars, workVars, boundVars
<1>3. CASE BlockModelFailure(w)
  <2> DEFINE r == ctx[w].run
  <2>1. r \in Run /\ ctx[w].act \in Action \cup {NoAction} /\ r \in DOMAIN TenantOf
        BY <1>3 DEF BlockModelFailure, TypeInv, TypeOK, ActionChosen, Busy, Context, ConstantsAssumption
  <2>3. ctx' \in [Worker -> Context] /\ ActionChosen'
        BY <1>3, QuitType DEF BlockModelFailure, Finish
  <2>4. ReleaseClaim(w)
        BY <1>3 DEF BlockModelFailure, Finish
  <2>5. /\ node' \in [Run -> Node]
        /\ cursor' \in [Run -> Nat]
        /\ frozen' \in [Run -> Action \cup {NoAction}]
        BY <1>3, <2>1, FixedNodes DEF BlockModelFailure, Advance, TypeInv, TypeOK
  <2>6. status' \in [Run -> Status]
        BY <1>3, <2>1 DEF BlockModelFailure, TypeInv, TypeOK, Status, Active, Terminal
  <2> QED BY <1>3, <2>1, <2>3, <2>4, <2>5, <2>6, ReleaseType
          DEF BlockModelFailure, TypeInv, TypeOK, humanVars, callVars, workVars, boundVars
<1>4. CASE FailActionContract(w)
  <2> DEFINE r == ctx[w].run
  <2>1. r \in Run /\ ctx[w].act \in Action \cup {NoAction} /\ r \in DOMAIN TenantOf
        BY <1>4 DEF FailActionContract, TypeInv, TypeOK, ActionChosen, Busy, Context, ConstantsAssumption
  <2>3. ctx' \in [Worker -> Context] /\ ActionChosen'
        BY <1>4, QuitType DEF FailActionContract, FailRun, Finish
  <2>4. ReleaseClaim(w)
        BY <1>4 DEF FailActionContract, FailRun, Finish
  <2>5. /\ status' \in [Run -> Status]
        /\ lock' \in [Tenant -> Run \cup {NoRun}]
        /\ error' \in [Run -> {"none", "action_contract", "persistence_contract"}]
        BY <1>4, <2>1 DEF FailActionContract, FailRun, TypeInv, TypeOK, Status, Terminal
  <2> QED BY <1>4, <2>1, <2>3, <2>4, <2>5, ReleaseType
          DEF FailActionContract, FailRun, TypeInv, TypeOK, stepVars, humanVars, callVars, workVars, boundVars
<1>5. CASE FailPersistenceContract(w)
  <2> DEFINE r == ctx[w].run
  <2>1. r \in Run /\ ctx[w].act \in Action \cup {NoAction} /\ r \in DOMAIN TenantOf
        BY <1>5 DEF FailPersistenceContract, TypeInv, TypeOK, ActionChosen, Busy, Context, ConstantsAssumption
  <2>3. ctx' \in [Worker -> Context] /\ ActionChosen'
        BY <1>5, QuitType DEF FailPersistenceContract, FailRun, Finish
  <2>4. ReleaseClaim(w)
        BY <1>5 DEF FailPersistenceContract, FailRun, Finish
  <2>5. /\ status' \in [Run -> Status]
        /\ lock' \in [Tenant -> Run \cup {NoRun}]
        /\ error' \in [Run -> {"none", "action_contract", "persistence_contract"}]
        BY <1>5, <2>1 DEF FailPersistenceContract, FailRun, TypeInv, TypeOK, Status, Terminal
  <2> QED BY <1>5, <2>1, <2>3, <2>4, <2>5, ReleaseType
          DEF FailPersistenceContract, FailRun, TypeInv, TypeOK, stepVars, humanVars, callVars, workVars, boundVars
<1> QED BY <1>1, <1>2, <1>3, <1>4, <1>5

\* The memory of the workers is not touched by the clock or by operators.
LEMMA UnchangedContextType ==
    ASSUME ActionChosen, UNCHANGED ctx
    PROVE  ActionChosen'
BY DEF ActionChosen, Busy

\* A claim hands the worker the run as it stands.
LEMMA TypeClaim ==
    ASSUME ConstantsAssumption, TypeInv, NEW w \in Worker, NEW r \in Run, Claim(w, r)
    PROVE  TypeInv'
<1> DEFINE c == [pc |-> "claimed", run |-> r, node |-> node[r], cursor |-> cursor[r],
                 token |-> attempt[r] + 1, act |-> NoAction, pause |-> FALSE]
<1>1. c \in Context
      BY DEF TypeInv, TypeOK, Context, Pc
<1>2. ctx' = [ctx EXCEPT ![w] = c]
      BY DEF Claim
<1>3. ctx' \in [Worker -> Context] /\ \A v \in Worker \ {w} : ctx'[v] = ctx[v]
      BY <1>1, <1>2 DEF TypeInv, TypeOK
<1>4. ctx'[w].pc = "claimed" /\ ctx'[w].run \in Run
      BY <1>2 DEF TypeInv, TypeOK
<1>5. ActionChosen'
      BY <1>3, <1>4 DEF TypeInv, ActionChosen, Acting, Busy
<1>6. /\ owner' \in [Run -> Worker \cup {NoWorker}]
      /\ token' \in [Run -> Nat]
      /\ leased' \in [Run -> BOOLEAN]
      /\ attempt' \in [Run -> Nat]
      BY DEF Claim, TypeInv, TypeOK
<1> QED BY <1>3, <1>5, <1>6
        DEF Claim, TypeInv, TypeOK, rowVars, stepVars, humanVars, callVars, workVars, boundVars

\* A heartbeat keeps the types.
LEMMA TypeHeartbeat ==
    ASSUME ConstantsAssumption, TypeInv, NEW w \in Worker,
           Heartbeat(w)
    PROVE  TypeInv'
<1>1. CASE Heartbeat(w)
  <2>1. leased' \in [Run -> BOOLEAN]
        BY <1>1 DEF Heartbeat, TypeInv, TypeOK
  <2> QED BY <1>1, <2>1, UnchangedContextType
          DEF Heartbeat, TypeInv, TypeOK, rowVars, stepVars, humanVars, callVars, workVars, boundVars
<1> QED BY <1>1

\* The lapse of a lease and the drift of the target keep the types.
LEMMA TypeExpire ==
    ASSUME ConstantsAssumption, TypeInv, NEW r \in Run,
           LeaseExpire(r) \/
           TargetMoves(r)
    PROVE  TypeInv'
<1>1. CASE LeaseExpire(r)
  <2>1. leased' \in [Run -> BOOLEAN] /\ faults' \in Nat
        BY <1>1 DEF LeaseExpire, TypeInv, TypeOK
  <2> QED BY <1>1, <2>1, UnchangedContextType
          DEF LeaseExpire, TypeInv, TypeOK, rowVars, stepVars, humanVars, callVars, workVars
<1>2. CASE TargetMoves(r)
  <2>1. drifted' \in [Run -> BOOLEAN] /\ faults' \in Nat
        BY <1>2 DEF TargetMoves, TypeInv, TypeOK
  <2> QED BY <1>2, <2>1, UnchangedContextType
          DEF TargetMoves, TypeInv, TypeOK, rowVars, leaseVars, stepVars, humanVars, callVars
<1> QED BY <1>1, <1>2

\* Starting and refusing runs keep the types.
LEMMA TypeStart ==
    ASSUME ConstantsAssumption, TypeInv, NEW r \in Run,
           Start(r) \/
           CreateRollback(r) \/
           ConfirmRollback(r) \/
           RejectRollback(r)
    PROVE  TypeInv'
<1>1. CASE Start(r)
  <2>1. /\ status' \in [Run -> Status]
        /\ node' \in [Run -> Node]
        /\ cursor' \in [Run -> Nat]
        /\ lock' \in [Tenant -> Run \cup {NoRun}]
        BY <1>1, StartNodes DEF Start, TakeSchool, TypeInv, TypeOK, Status, Active, ConstantsAssumption
  <2>2. groups' \in [Run -> [Group -> GroupStatus]]
    <3>1. PICK G \in SUBSET Group : groups' =
              [groups EXCEPT ![r] = [g \in Group |-> IF g \in G THEN "latent" ELSE "none"]]
          BY <1>1 DEF Start
    <3>2. [g \in Group |-> IF g \in G THEN "latent" ELSE "none"] \in [Group -> GroupStatus]
          BY DEF GroupStatus
    <3> QED BY <3>1, <3>2 DEF TypeInv, TypeOK
  <2>3. clar' \in [Run -> [Clarification -> ClarStatus]]
    <3>1. PICK K \in SUBSET Clarification : clar' =
              [clar EXCEPT ![r] = [k \in Clarification |-> IF k \in K THEN "latent" ELSE "none"]]
          BY <1>1 DEF Start
    <3>2. [k \in Clarification |-> IF k \in K THEN "latent" ELSE "none"]
              \in [Clarification -> ClarStatus]
          BY DEF ClarStatus
    <3> QED BY <3>1, <3>2 DEF TypeInv, TypeOK
  <2> QED BY <1>1, <2>1, <2>2, <2>3, UnchangedContextType
          DEF Start, TypeInv, TypeOK, leaseVars, stepVars, callVars, workVars, boundVars
<1>2. CASE CreateRollback(r)
  <2>1. status' \in [Run -> Status]
        BY <1>2 DEF CreateRollback, TypeInv, TypeOK, Status
  <2> QED BY <1>2, <2>1, UnchangedContextType
          DEF CreateRollback, TypeInv, TypeOK, leaseVars, stepVars, humanVars, callVars, workVars, boundVars
<1>3. CASE ConfirmRollback(r)
  <2>1. /\ status' \in [Run -> Status]
        /\ node' \in [Run -> Node]
        /\ cursor' \in [Run -> Nat]
        /\ lock' \in [Tenant -> Run \cup {NoRun}]
        BY <1>3, StartNodes DEF ConfirmRollback, TakeSchool, TypeInv, TypeOK, Status, Active, ConstantsAssumption
  <2> QED BY <1>3, <2>1, UnchangedContextType
          DEF ConfirmRollback, TypeInv, TypeOK, leaseVars, stepVars, humanVars, callVars, workVars, boundVars
<1>4. CASE RejectRollback(r)
  <2>1. term' \in [Run -> BOOLEAN]
        BY <1>4 DEF RejectRollback, TypeInv, TypeOK
  <2> QED BY <1>4, <2>1, UnchangedContextType
          DEF RejectRollback, TypeInv, TypeOK, leaseVars, stepVars, humanVars, callVars, workVars, boundVars
<1> QED BY <1>1, <1>2, <1>3, <1>4

\* A request that decides a gate remembers the gate and a status.
LEMMA TypeLoad ==
    ASSUME ConstantsAssumption, TypeInv, NEW r \in Run, NEW x \in gates[r], LoadForDecision(r, x)
    PROVE  TypeInv'
<1> DEFINE q == [gate |-> x, seen |-> status[r]]
<1>1. q \in GateCall
      BY DEF GateCall, TypeInv, TypeOK
<1>2. loaded' = [loaded EXCEPT ![r] = @ \cup {q}]
      BY DEF LoadForDecision
<1> HIDE DEF q
<1>3. loaded' \in [Run -> SUBSET GateCall]
      BY <1>1, <1>2 DEF TypeInv, TypeOK
<1> QED BY <1>3, UnchangedContextType
        DEF LoadForDecision, TypeInv, TypeOK, rowVars, leaseVars, stepVars, workVars, boundVars

\* A decision leaves a gate a gate, and forgets the requests for it.
LEMMA SettleType ==
    ASSUME TypeOK, NEW r \in Run, NEW x \in gates[r], NEW d \in Outcome, Settle(r, x, d)
    PROVE  gates' \in [Run -> SUBSET Gate] /\ loaded' \in [Run -> SUBSET GateCall]
<1>1. x \in Gate
      BY DEF TypeOK
<1>2. [x EXCEPT !.st = d] \in Gate
      BY <1>1 DEF Gate, GateStatus, Outcome
<1>3. gates' \in [Run -> SUBSET Gate]
      BY <1>2 DEF Settle, TypeOK
<1>4. loaded' \in [Run -> SUBSET GateCall]
      BY DEF Settle, TypeOK
<1> QED BY <1>3, <1>4

\* Decisions on gates keep the types.
LEMMA TypeDecide ==
    ASSUME ConstantsAssumption, TypeInv, NEW r \in Run, NEW q \in loaded[r], NEW d \in Outcome,
           ApproveTermination(r, q) \/
           DecideGate(r, q, d)
    PROVE  TypeInv'
<1>1. CASE ApproveTermination(r, q)
  <2>1. gates' \in [Run -> SUBSET Gate] /\ loaded' \in [Run -> SUBSET GateCall]
        BY <1>1, SettleType DEF ApproveTermination, ActionableAs, TypeInv, Outcome
  <2>2. status' \in [Run -> Status] /\ term' \in [Run -> BOOLEAN]
        BY <1>1 DEF ApproveTermination, TypeInv, TypeOK, Status, Active
  <2> QED BY <1>1, <2>1, <2>2, UnchangedContextType
          DEF ApproveTermination, TypeInv, TypeOK, leaseVars, stepVars, workVars, boundVars
<1>2. CASE DecideGate(r, q, d)
  <2>1. gates' \in [Run -> SUBSET Gate] /\ loaded' \in [Run -> SUBSET GateCall]
        BY <1>2, SettleType DEF DecideGate, ActionableAs, TypeInv
  <2>2. status' \in [Run -> Status]
        BY <1>2 DEF DecideGate, TypeInv, TypeOK, Status, Active
  <2>3. term' \in [Run -> BOOLEAN]
        BY <1>2 DEF DecideGate, TypeInv, TypeOK
  <2>4. rounds' \in [Run -> Nat]
        BY <1>2 DEF DecideGate, TypeInv, TypeOK
  <2>5. groups' \in [Run -> [Group -> GroupStatus]]
        BY <1>2 DEF DecideGate, TypeInv, TypeOK, GroupStatus, Outcome
  <2> QED BY <1>2, <2>1, <2>2, <2>3, <2>4, <2>5, UnchangedContextType
          DEF DecideGate, TypeInv, TypeOK, leaseVars, stepVars, workVars
<1> QED BY <1>1, <1>2

\* The clarification dialogue keeps the types.
LEMMA TypeClarify ==
    ASSUME ConstantsAssumption, TypeInv, NEW r \in Run, NEW k \in Clarification,
           InterpretClarification(r, k) \/
           ConfirmClarification(r, k)
    PROVE  TypeInv'
<1>1. CASE InterpretClarification(r, k)
  <2>1. clar' \in [Run -> [Clarification -> ClarStatus]]
        BY <1>1 DEF InterpretClarification, TypeInv, TypeOK, ClarStatus
  <2>2. faults' \in Nat
        BY <1>1 DEF InterpretClarification, TypeInv, TypeOK
  <2> QED BY <1>1, <2>1, <2>2, UnchangedContextType
          DEF InterpretClarification, TypeInv, TypeOK, rowVars, leaseVars, stepVars, callVars,
              workVars
<1>2. CASE ConfirmClarification(r, k)
  <2> DEFINE last == \A j \in Clarification \ {k} : clar[r][j] \notin Unresolved
             c == [clar |-> k, last |-> last]
  <2>1. c \in Confirmation
        BY DEF Confirmation
  <2>2. confirming' = [confirming EXCEPT ![r] = @ \cup {c}]
        BY <1>2 DEF ConfirmClarification
  <2> HIDE DEF c
  <2>3. confirming' \in [Run -> SUBSET Confirmation]
        BY <2>1, <2>2 DEF TypeInv, TypeOK
  <2> QED BY <1>2, <2>3, UnchangedContextType
          DEF ConfirmClarification, TypeInv, TypeOK, rowVars, leaseVars, stepVars, workVars, boundVars
<1> QED BY <1>1, <1>2

\* The end of a confirmation keeps the types.
LEMMA TypeResume ==
    ASSUME ConstantsAssumption, TypeInv, NEW r \in Run, NEW c \in confirming[r],
           ResumeAfterClarification(r, c)
    PROVE  TypeInv'
<1> DEFINE open == Pending(r, "identity_conflict")
           approved == {[x EXCEPT !.st = "approved"] : x \in open}
           after == (gates[r] \ open) \cup approved
<1>1. clar' \in [Run -> [Clarification -> ClarStatus]]
      BY DEF ResumeAfterClarification, TypeInv, TypeOK, ClarStatus
<1>2. status' \in [Run -> Status]
      BY DEF ResumeAfterClarification, TypeInv, TypeOK, Status, Active
<1>3. confirming' \in [Run -> SUBSET Confirmation]
      BY DEF ResumeAfterClarification, TypeInv, TypeOK
<1>4. gates' \in [Run -> SUBSET Gate]
  <2>1. open \subseteq Gate
        BY DEF Pending, TypeInv, TypeOK
  <2>2. approved \subseteq Gate
    <3> SUFFICES ASSUME NEW x \in open PROVE [x EXCEPT !.st = "approved"] \in Gate
        OBVIOUS
    <3> QED BY <2>1 DEF Gate, GateStatus
  <2>3. after \in SUBSET Gate
        BY <2>2 DEF TypeInv, TypeOK
  <2>4. gates' = [gates EXCEPT ![r] = after] \/ gates' = gates
        BY DEF ResumeAfterClarification, TypeInv, TypeOK
  <2> HIDE DEF after
  <2> QED BY <2>3, <2>4 DEF TypeInv, TypeOK
<1> QED BY <1>1, <1>2, <1>3, <1>4, UnchangedContextType
        DEF ResumeAfterClarification, TypeInv, TypeOK, leaseVars, stepVars, workVars, boundVars

\* A decision on an approval group keeps the types.
LEMMA TypeDecideGroup ==
    ASSUME ConstantsAssumption, TypeInv, NEW r \in Run, NEW g \in Group, DecideGroup(r, g)
    PROVE  TypeInv'
<1> DEFINE c == [group |-> g, last |-> \A h \in Group \ {g} : groups[r][h] # "pending"]
<1>1. c \in GroupDecision
      BY DEF GroupDecision
<1>2. deciding' = [deciding EXCEPT ![r] = @ \cup {c}] /\ faults' \in Nat
      BY DEF DecideGroup, TypeInv, TypeOK
<1> HIDE DEF c
<1>3. deciding' \in [Run -> SUBSET GroupDecision]
      BY <1>1, <1>2 DEF TypeInv, TypeOK
<1> QED BY <1>2, <1>3, UnchangedContextType
        DEF DecideGroup, TypeInv, TypeOK, rowVars, leaseVars, stepVars, workVars

\* The end of such a decision keeps the types.
LEMMA TypeResumeApproval ==
    ASSUME ConstantsAssumption, TypeInv, NEW r \in Run, NEW c \in deciding[r], NEW d \in Outcome,
           ResumeAfterApproval(r, c, d)
    PROVE  TypeInv'
<1>1. groups' \in [Run -> [Group -> GroupStatus]]
      BY DEF ResumeAfterApproval, TypeInv, TypeOK, GroupStatus, Outcome
<1>2. status' \in [Run -> Status]
      BY DEF ResumeAfterApproval, TypeInv, TypeOK, Status, Active
<1>3. deciding' \in [Run -> SUBSET GroupDecision]
      BY DEF ResumeAfterApproval, TypeInv, TypeOK
<1> QED BY <1>1, <1>2, <1>3, UnchangedContextType
        DEF ResumeAfterApproval, TypeInv, TypeOK, leaseVars, stepVars, workVars, boundVars

LEMMA TypePreview ==
    ASSUME TypeInv, NEW r \in Run, PreviewTermination(r)
    PROVE  TypeInv'
<1>1. NewGate("termination_confirmation", cursor[r], NoGroup) \in Gate
      BY NewGateType DEF GateKind, Member, TypeInv, TypeOK
<1>2. gates' \in [Run -> SUBSET Gate]
      BY <1>1 DEF PreviewTermination, TypeInv, TypeOK
<1> QED BY <1>2, UnchangedContextType
        DEF PreviewTermination, TypeInv, TypeOK, rowVars, leaseVars, stepVars, callVars, workVars,
            boundVars

\* Every step keeps the types.
LEMMA TypeStep == TypeInv /\ [Next]_vars => TypeInv'
<1> SUFFICES ASSUME TypeInv, [Next]_vars PROVE TypeInv'
    OBVIOUS
<1>1. CASE UNCHANGED vars
      BY <1>1, UnchangedContextType, TypeFrame DEF vars, TypeInv, TypeOK
<1>2. ASSUME NEW w \in Worker, NEW r \in Run, Claim(w, r) PROVE TypeInv'
      BY <1>2, TypeClaim, ConstantsAssumption
<1>3. ASSUME NEW w \in Worker, Work(w) PROVE TypeInv'
  <2>1. CASE Execute(w)
        BY <2>1, TypeExecuteReads, TypeExecuteGates, TypeExecuteWrites, ConstantsAssumption
           DEF Execute
  <2>2. CASE ~Execute(w)
        BY <1>3, <2>2, TypeChoose, TypeFreeze, TypeEnd, TypeCommit, ConstantsAssumption DEF Work
  <2> QED BY <2>1, <2>2
<1>4. CASE Fault
  <2>1. ASSUME NEW w \in Worker, Crash(w) \/ TransientError(w) \/ Heartbeat(w) PROVE TypeInv'
    <3>1. CASE Heartbeat(w)
      <4>1. ctx[w].run \in Run
            BY <3>1 DEF Heartbeat, Fenced, TypeInv, ActionChosen
      <4> QED BY <3>1, <4>1, TypeHeartbeat, ConstantsAssumption
    <3> QED BY <2>1, <3>1, TypeEnd, ConstantsAssumption
  <2>2. ASSUME NEW r \in Run, LeaseExpire(r) \/ TargetMoves(r) PROVE TypeInv'
        BY <2>2, TypeExpire, ConstantsAssumption
  <2> QED BY <1>4, <2>1, <2>2 DEF Fault
<1>5. ASSUME NEW r \in Run, Operator(r) PROVE TypeInv'
  <2>1. CASE Start(r) \/ CreateRollback(r) \/ ConfirmRollback(r) \/ RejectRollback(r)
        BY <2>1, TypeStart, ConstantsAssumption
  <2>2. CASE PreviewTermination(r)
        BY <2>2, TypePreview
  <2>3. ASSUME NEW x \in gates[r], LoadForDecision(r, x) PROVE TypeInv'
        BY <2>3, TypeLoad, ConstantsAssumption
  <2>4. ASSUME NEW q \in loaded[r], ApproveTermination(r, q) PROVE TypeInv'
        BY <2>4, TypeDecide, ConstantsAssumption DEF Outcome
  <2>5. ASSUME NEW q \in loaded[r], NEW d \in Outcome, DecideGate(r, q, d) PROVE TypeInv'
        BY <2>5, TypeDecide, ConstantsAssumption
  <2>6. ASSUME NEW k \in Clarification, InterpretClarification(r, k) \/ ConfirmClarification(r, k)
        PROVE  TypeInv'
        BY <2>6, TypeClarify, ConstantsAssumption
  <2>7. ASSUME NEW c \in confirming[r], ResumeAfterClarification(r, c) PROVE TypeInv'
        BY <2>7, TypeResume, ConstantsAssumption
  <2>8. ASSUME NEW g \in Group, DecideGroup(r, g) PROVE TypeInv'
        BY <2>8, TypeDecideGroup, ConstantsAssumption
  <2>9. ASSUME NEW c \in deciding[r], NEW d \in Outcome, ResumeAfterApproval(r, c, d)
        PROVE  TypeInv'
        BY <2>9, TypeResumeApproval, ConstantsAssumption
  <2> QED BY <1>5, <2>1, <2>2, <2>3, <2>4, <2>5, <2>6, <2>7, <2>8, <2>9 DEF Operator
<1> QED BY <1>1, <1>2, <1>3, <1>4, <1>5 DEF Next

\* Every variable keeps its type, and a worker that freezes, executes or commits
\* has an action.
THEOREM TypeCorrect == Spec => []TypeOK
<1>1. Init => TypeInv
      BY TypeInit, ConstantsAssumption
<1>2. TypeInv => TypeOK
      BY DEF TypeInv
<1> QED BY <1>1, <1>2, TypeStep, PTL DEF Spec

-----------------------------------------------------------------------------
(* Fencing and the school lock *)

\* What a claim froze stays a past of the run: a busy worker's run was started,
\* its cursor only moves away from the worker's, and its tokens are used up.
ClaimIsPast ==
    \A w \in Worker : Busy(w) =>
        /\ status[ctx[w].run] \notin {"absent", "pending"}
        /\ ctx[w].cursor <= cursor[ctx[w].run]
        /\ ctx[w].cursor = cursor[ctx[w].run] => ctx[w].node = node[ctx[w].run]
        /\ ctx[w].token <= attempt[ctx[w].run]

HoldInv == SchoolHeldWhileActive /\ FencedWorkerIsCurrent /\ ClaimIsPast

\* A failed run has an error, and keeps it when a late decision calls it running.
ErrorsMarkFailures ==
    \A r \in Run :
        /\ status[r] = "failed" => error[r] # "none"
        /\ error[r] # "none" => status[r] \in {"failed", "running"}

\* The cursor at which a gate can be decided.
PlaceOf(x) == IF x.kind = "termination_confirmation" THEN x.at ELSE x.at + 1

\* A request that loaded a waiting or blocked run decides nothing behind the
\* run's last transition.
CallsArePast ==
    \A r \in Run : \A q \in loaded[r] :
        q.seen \in {"waiting_human", "blocked_model_error"} =>
            /\ status[r] \notin {"absent", "pending"}
            /\ PlaceOf(q.gate) <= cursor[r]
            /\ status[r] \in {"completed", "terminated"} => PlaceOf(q.gate) < cursor[r]

SafeInv == HoldInv /\ ErrorsMarkFailures /\ CallsArePast

LEMMA SafeInit == ASSUME ConstantsAssumption PROVE Init => SafeInv
BY DEF Init, SafeInv, HoldInv, SchoolHeldWhileActive, FencedWorkerIsCurrent, ClaimIsPast, Busy, Fenced,
       ErrorsMarkFailures, CallsArePast, IdleContext, Active, ConstantsAssumption

\* The facts SafeInv speaks of.
safeVars == <<status, node, cursor, error, lock, owner, token, attempt>>

\* A step of a busy worker that keeps what it knows of its claim.
LEMMA SafeQuiet ==
    ASSUME SafeInv, NEW w \in Worker, Busy(w), UNCHANGED safeVars,
           \A v \in Worker \ {w} : ctx'[v] = ctx[v],
           ctx'[w].run = ctx[w].run, ctx'[w].node = ctx[w].node,
           ctx'[w].cursor = ctx[w].cursor, ctx'[w].token = ctx[w].token
    PROVE  HoldInv'
<1>1. \A v \in Worker : /\ Busy(v)' => Busy(v)
                        /\ ctx'[v].run = ctx[v].run /\ ctx'[v].node = ctx[v].node
                        /\ ctx'[v].cursor = ctx[v].cursor /\ ctx'[v].token = ctx[v].token
      BY DEF Busy
<1>2. \A v \in Worker : Fenced(v)' => Fenced(v)
      BY <1>1 DEF Fenced, safeVars
<1>3. SchoolHeldWhileActive'
      BY DEF SafeInv, HoldInv, SchoolHeldWhileActive, safeVars
<1>4. FencedWorkerIsCurrent'
      BY <1>1, <1>2 DEF SafeInv, HoldInv, FencedWorkerIsCurrent, Fresh, HoldsSchool, safeVars
<1>5. ClaimIsPast'
      BY <1>1 DEF SafeInv, HoldInv, ClaimIsPast, safeVars
<1> QED BY <1>3, <1>4, <1>5 DEF SafeInv, HoldInv

\* A step that leaves the workers' memory and the facts alone.
LEMMA SafeFrame ==
    ASSUME SafeInv, UNCHANGED safeVars, UNCHANGED ctx
    PROVE  HoldInv'
BY DEF SafeInv, HoldInv, SchoolHeldWhileActive, FencedWorkerIsCurrent, ClaimIsPast, Busy, Fenced, Fresh,
       HoldsSchool, safeVars

\* Only the claimant releases a claim, and nobody is fenced for the run then.
LEMMA ReleaseEffect ==
    ASSUME TypeInv, NEW w \in Worker, ReleaseClaim(w)
    PROVE  /\ attempt' = attempt
           /\ \A r \in Run : \/ owner'[r] = NoWorker
                             \/ owner'[r] = owner[r] /\ token'[r] = token[r]
           /\ Fenced(w) => owner'[ctx[w].run] = NoWorker
BY DEF ReleaseClaim, Fenced, TypeInv, TypeOK, ActionChosen

\* The end of an iteration, with or without the claim.
LEMMA SafeEnd ==
    ASSUME ConstantsAssumption, TypeInv, SafeInv, NEW w \in Worker, Quit(w),
           UNCHANGED <<status, node, cursor, error, lock>>,
           ReleaseClaim(w) \/ UNCHANGED <<owner, token, attempt>>
    PROVE  HoldInv'
<1>1. /\ \A v \in Worker \ {w} : ctx'[v] = ctx[v]
      /\ ctx'[w].pc = "idle"
      BY QuitEffect DEF TypeInv, TypeOK, IdleContext
<1>2. \A v \in Worker : Busy(v)' => Busy(v) /\ v # w
      BY <1>1 DEF Busy
<1>3. /\ attempt' = attempt
      /\ \A r \in Run : \/ owner'[r] = NoWorker
                        \/ owner'[r] = owner[r] /\ token'[r] = token[r]
      BY ReleaseEffect
<1>4. \A v \in Worker : Fenced(v)' => Fenced(v) /\ v # w
      BY <1>1, <1>2, <1>3 DEF Fenced, TypeInv, ActionChosen, ConstantsAssumption
<1>5. SchoolHeldWhileActive'
      BY DEF SafeInv, HoldInv, SchoolHeldWhileActive
<1>6. FencedWorkerIsCurrent'
      BY <1>1, <1>2, <1>4 DEF SafeInv, HoldInv, FencedWorkerIsCurrent, Fresh, HoldsSchool
<1>7. ClaimIsPast'
      BY <1>1, <1>2, <1>3 DEF SafeInv, HoldInv, ClaimIsPast
<1> QED BY <1>5, <1>6, <1>7 DEF SafeInv, HoldInv

\* The claim: a fresh token, the run as it stands, its school held.
LEMMA SafeClaim ==
    ASSUME ConstantsAssumption, TypeInv, SafeInv, NEW w \in Worker, NEW r \in Run, Claim(w, r)
    PROVE  HoldInv'
<1>1. /\ ~Busy(w) /\ status[r] = "running" /\ lock[TenantOf[r]] = r
      /\ UNCHANGED <<status, node, cursor, error, lock>>
      BY DEF Claim, rowVars
<1>2. /\ owner' = [owner EXCEPT ![r] = w]
      /\ token' = [token EXCEPT ![r] = attempt[r] + 1]
      /\ attempt' = [attempt EXCEPT ![r] = @ + 1]
      BY DEF Claim
<1>3. /\ \A v \in Worker \ {w} : ctx'[v] = ctx[v]
      /\ ctx'[w].run = r /\ ctx'[w].node = node[r] /\ ctx'[w].cursor = cursor[r]
      /\ ctx'[w].token = attempt[r] + 1
      BY DEF Claim, TypeInv, TypeOK
<1>4. attempt \in [Run -> Nat] /\ cursor \in [Run -> Nat] /\ owner \in [Run -> Worker \cup {NoWorker}]
      /\ token \in [Run -> Nat]
      BY DEF TypeInv, TypeOK
<1>5. \A v \in Worker \ {w} : /\ Busy(v)' <=> Busy(v)
                              /\ Busy(v) => ctx[v].run \in Run /\ ctx[v].token \in Nat
      BY <1>3 DEF Busy, TypeInv, TypeOK, ActionChosen, Context
<1>6. \A v \in Worker \ {w} : Fenced(v)' => Fenced(v) /\ ctx[v].run # r
      BY <1>2, <1>3, <1>4, <1>5 DEF Fenced
<1>7. SchoolHeldWhileActive'
      BY <1>1 DEF SafeInv, HoldInv, SchoolHeldWhileActive
<1>8. ClaimIsPast'
  <2>1. ASSUME NEW v \in Worker, Busy(v)'
        PROVE  /\ status'[ctx'[v].run] \notin {"absent", "pending"}
               /\ ctx'[v].cursor <= cursor'[ctx'[v].run]
               /\ ctx'[v].cursor = cursor'[ctx'[v].run] => ctx'[v].node = node'[ctx'[v].run]
               /\ ctx'[v].token <= attempt'[ctx'[v].run]
    <3>1. CASE v = w
          BY <3>1, <1>1, <1>2, <1>3, <1>4
    <3>2. CASE v # w
      <4>1. ctx'[v] = ctx[v] /\ Busy(v) /\ ctx[v].run \in Run /\ ctx[v].token \in Nat
            BY <3>2, <2>1, <1>3, <1>5
      <4>2. attempt[ctx[v].run] <= attempt'[ctx[v].run]
            BY <4>1, <1>2, <1>4
      <4> QED BY <4>1, <4>2, <1>1, <1>2, <1>4 DEF SafeInv, HoldInv, ClaimIsPast
    <3> QED BY <3>1, <3>2
  <2> QED BY <2>1 DEF ClaimIsPast
<1>9. FencedWorkerIsCurrent'
  <2>1. ASSUME NEW v \in Worker, Fenced(v)' PROVE Fresh(v)' /\ HoldsSchool(v)'
    <3>1. CASE v = w
          BY <3>1, <1>1, <1>3 DEF Fresh, HoldsSchool
    <3>2. CASE v # w
          BY <3>2, <2>1, <1>1, <1>3, <1>6
             DEF SafeInv, HoldInv, FencedWorkerIsCurrent, Fresh, HoldsSchool
    <3> QED BY <3>1, <3>2
  <2>2. ASSUME NEW u \in Worker, NEW v \in Worker, Busy(u)', Busy(v)', u # v,
               ctx'[u].run = ctx'[v].run
        PROVE  ctx'[u].token # ctx'[v].token
    <3>1. \A x \in Worker \ {w} : Busy(x) => ctx[x].token < attempt[ctx[x].run] + 1
          BY <1>4, <1>5 DEF SafeInv, HoldInv, ClaimIsPast
    <3>2. CASE u = w
          BY <3>1, <3>2, <2>2, <1>3, <1>4, <1>5
    <3>3. CASE v = w
          BY <3>1, <3>3, <2>2, <1>3, <1>4, <1>5
    <3>4. CASE u # w /\ v # w
          BY <3>4, <2>2, <1>3, <1>5 DEF SafeInv, HoldInv, FencedWorkerIsCurrent
    <3> QED BY <3>2, <3>3, <3>4
  <2> QED BY <2>1, <2>2 DEF FencedWorkerIsCurrent
<1> QED BY <1>7, <1>8, <1>9 DEF SafeInv, HoldInv

\* What the claimant knows when it commits.
LEMMA FinishFacts ==
    ASSUME ConstantsAssumption, TypeInv, SafeInv, NEW w \in Worker, Finish(w)
    PROVE  /\ ctx[w].run \in Run /\ Fresh(w) /\ HoldsSchool(w)
           /\ status[ctx[w].run] \in Active /\ error[ctx[w].run] = "none"
           /\ \A v \in Worker \ {w} : ctx'[v] = ctx[v]
           /\ \A v \in Worker : Busy(v)' => Busy(v) /\ v # w
           /\ attempt' = attempt
           /\ \A v \in Worker : Fenced(v)' => Fenced(v) /\ v # w /\ ctx[v].run # ctx[w].run
<1>1. Fenced(w) /\ ReleaseClaim(w) /\ Quit(w)
      BY DEF Finish
<1>2. ctx[w].run \in Run /\ Fresh(w) /\ HoldsSchool(w)
      BY <1>1 DEF SafeInv, HoldInv, FencedWorkerIsCurrent, Fenced, TypeInv, ActionChosen
<1>3. status[ctx[w].run] \in Active /\ error[ctx[w].run] = "none"
      BY <1>2 DEF SafeInv, HoldInv, SchoolHeldWhileActive, HoldsSchool
<1>4. /\ \A v \in Worker \ {w} : ctx'[v] = ctx[v]
      /\ ctx'[w].pc = "idle"
      BY <1>1, QuitEffect DEF TypeInv, TypeOK, IdleContext
<1>5. \A v \in Worker : Busy(v)' => Busy(v) /\ v # w
      BY <1>4 DEF Busy
<1>6. /\ attempt' = attempt
      /\ \A r \in Run : \/ owner'[r] = NoWorker
                        \/ owner'[r] = owner[r] /\ token'[r] = token[r]
      /\ owner'[ctx[w].run] = NoWorker
      BY <1>1, ReleaseEffect
<1>7. \A v \in Worker : Fenced(v)' => Fenced(v) /\ v # w /\ ctx[v].run # ctx[w].run
      BY <1>4, <1>5, <1>6 DEF Fenced, TypeInv, ActionChosen, ConstantsAssumption
<1> QED BY <1>2, <1>3, <1>4, <1>5, <1>6, <1>7

\* A transition that keeps the run active keeps its school.
LEMMA SafeAdvance ==
    ASSUME ConstantsAssumption, TypeInv, SafeInv, NEW w \in Worker, Finish(w),
           NEW s \in Active, NEW n \in Node,
           status' = [status EXCEPT ![ctx[w].run] = s],
           Advance(ctx[w].run, n), lock' = lock, error' = error
    PROVE  HoldInv'
<1> DEFINE r == ctx[w].run
<1>1. /\ r \in Run /\ HoldsSchool(w) /\ status[r] \in Active /\ error[r] = "none"
      /\ \A v \in Worker \ {w} : ctx'[v] = ctx[v]
      /\ \A v \in Worker : Busy(v)' => Busy(v) /\ v # w
      /\ attempt' = attempt
      /\ \A v \in Worker : Fenced(v)' => Fenced(v) /\ v # w /\ ctx[v].run # r
      BY FinishFacts
<1>2. /\ \A q \in Run \ {r} : status'[q] = status[q] /\ node'[q] = node[q] /\ cursor'[q] = cursor[q]
      /\ status'[r] = s /\ cursor'[r] = cursor[r] + 1 /\ cursor[r] \in Nat
      BY <1>1 DEF Advance, TypeInv, TypeOK
<1>3. SchoolHeldWhileActive'
      BY <1>1, <1>2 DEF SafeInv, HoldInv, SchoolHeldWhileActive
<1>4. FencedWorkerIsCurrent'
  <2>1. ASSUME NEW v \in Worker, Fenced(v)' PROVE Fresh(v)' /\ HoldsSchool(v)'
    <3>1. Fenced(v) /\ ctx'[v] = ctx[v] /\ ctx[v].run \in Run \ {r}
          BY <1>1, <2>1 DEF Fenced, TypeInv, ActionChosen
    <3> QED BY <1>2, <3>1 DEF SafeInv, HoldInv, FencedWorkerIsCurrent, Fresh, HoldsSchool
  <2> QED BY <1>1, <2>1 DEF SafeInv, HoldInv, FencedWorkerIsCurrent
<1>5. ClaimIsPast'
  <2>1. ASSUME NEW v \in Worker, Busy(v)'
        PROVE  /\ status'[ctx'[v].run] \notin {"absent", "pending"}
               /\ ctx'[v].cursor <= cursor'[ctx'[v].run]
               /\ ctx'[v].cursor = cursor'[ctx'[v].run] => ctx'[v].node = node'[ctx'[v].run]
               /\ ctx'[v].token <= attempt'[ctx'[v].run]
    <3>1. Busy(v) /\ ctx'[v] = ctx[v] /\ ctx[v].run \in Run /\ ctx[v].cursor \in Nat
          BY <1>1, <2>1 DEF TypeInv, TypeOK, ActionChosen, Context
    <3>2. /\ status[ctx[v].run] \notin {"absent", "pending"}
          /\ ctx[v].cursor <= cursor[ctx[v].run]
          /\ ctx[v].cursor = cursor[ctx[v].run] => ctx[v].node = node[ctx[v].run]
          /\ ctx[v].token <= attempt[ctx[v].run]
          BY <3>1 DEF SafeInv, HoldInv, ClaimIsPast
    <3>3. CASE ctx[v].run = r
          BY <1>1, <1>2, <3>1, <3>2, <3>3 DEF Active
    <3>4. CASE ctx[v].run # r
          BY <1>1, <1>2, <3>1, <3>2, <3>4
    <3> QED BY <3>3, <3>4
  <2> QED BY <2>1 DEF ClaimIsPast
<1> QED BY <1>3, <1>4, <1>5 DEF SafeInv, HoldInv

\* A transition or a failure that ends the run gives its school back.
LEMMA SafeEndRun ==
    ASSUME ConstantsAssumption, TypeInv, SafeInv, NEW w \in Worker, Finish(w),
           NEW s \in Terminal,
           status' = [status EXCEPT ![ctx[w].run] = s],
           (\E n \in Node : Advance(ctx[w].run, n)) \/ UNCHANGED <<node, cursor>>,
           lock' = [lock EXCEPT ![TenantOf[ctx[w].run]] = NoRun],
           \A q \in Run \ {ctx[w].run} : error'[q] = error[q]
    PROVE  HoldInv'
<1> DEFINE r == ctx[w].run
<1>1. /\ r \in Run /\ lock[TenantOf[r]] = r /\ status[r] \in Active
      /\ \A v \in Worker \ {w} : ctx'[v] = ctx[v]
      /\ \A v \in Worker : Busy(v)' => Busy(v) /\ v # w
      /\ attempt' = attempt
      /\ \A v \in Worker : Fenced(v)' => Fenced(v) /\ v # w /\ ctx[v].run # r
      BY FinishFacts DEF HoldsSchool
<1>2. /\ \A q \in Run \ {r} : status'[q] = status[q] /\ node'[q] = node[q] /\ cursor'[q] = cursor[q]
      /\ status'[r] = s /\ cursor[r] \in Nat
      /\ \/ cursor'[r] = cursor[r] + 1
         \/ cursor'[r] = cursor[r] /\ node'[r] = node[r]
      BY <1>1 DEF Advance, TypeInv, TypeOK
<1>3. \A q \in Run : /\ TenantOf[q] \in Tenant
                     /\ TenantOf[q] = TenantOf[r] => lock'[TenantOf[q]] = NoRun
                     /\ TenantOf[q] # TenantOf[r] => lock'[TenantOf[q]] = lock[TenantOf[q]]
      BY <1>1 DEF TypeInv, TypeOK, ConstantsAssumption
<1>4. SchoolHeldWhileActive'
  <2>1. ASSUME NEW q \in Run
        PROVE  (status'[q] \in Active /\ error'[q] = "none") <=> (lock'[TenantOf[q]] = q)
    <3>1. (status[q] \in Active /\ error[q] = "none") <=> (lock[TenantOf[q]] = q)
          BY DEF SafeInv, HoldInv, SchoolHeldWhileActive
    <3>2. q # NoRun
          BY DEF ConstantsAssumption
    <3>3. CASE q = r
      <4>1. s \notin Active
            BY DEF Active, Terminal
      <4>2. lock'[TenantOf[q]] = NoRun /\ status'[q] = s
            BY <1>2, <1>3, <3>3
      <4> QED BY <3>2, <4>1, <4>2
    <3>4. CASE q # r /\ TenantOf[q] = TenantOf[r]
          BY <1>1, <1>2, <1>3, <3>1, <3>2, <3>4
    <3>5. CASE q # r /\ TenantOf[q] # TenantOf[r]
          BY <1>2, <1>3, <3>1, <3>5
    <3> QED BY <3>3, <3>4, <3>5
  <2> QED BY <2>1 DEF SchoolHeldWhileActive
<1>5. FencedWorkerIsCurrent'
  <2>1. ASSUME NEW v \in Worker, Fenced(v)' PROVE Fresh(v)' /\ HoldsSchool(v)'
    <3>1. Fenced(v) /\ ctx'[v] = ctx[v] /\ ctx[v].run \in Run \ {r}
          BY <1>1, <2>1 DEF Fenced, TypeInv, ActionChosen
    <3>2. Fresh(v) /\ lock[TenantOf[ctx[v].run]] = ctx[v].run
          BY <3>1 DEF SafeInv, HoldInv, FencedWorkerIsCurrent, HoldsSchool
    <3>3. TenantOf[ctx[v].run] # TenantOf[r]
          BY <1>1, <3>1, <3>2
    <3> QED BY <1>2, <1>3, <3>1, <3>2, <3>3 DEF Fresh, HoldsSchool
  <2> QED BY <1>1, <2>1 DEF SafeInv, HoldInv, FencedWorkerIsCurrent
<1>6. ClaimIsPast'
  <2>1. ASSUME NEW v \in Worker, Busy(v)'
        PROVE  /\ status'[ctx'[v].run] \notin {"absent", "pending"}
               /\ ctx'[v].cursor <= cursor'[ctx'[v].run]
               /\ ctx'[v].cursor = cursor'[ctx'[v].run] => ctx'[v].node = node'[ctx'[v].run]
               /\ ctx'[v].token <= attempt'[ctx'[v].run]
    <3>1. Busy(v) /\ ctx'[v] = ctx[v] /\ ctx[v].run \in Run /\ ctx[v].cursor \in Nat
          BY <1>1, <2>1 DEF TypeInv, TypeOK, ActionChosen, Context
    <3>2. /\ status[ctx[v].run] \notin {"absent", "pending"}
          /\ ctx[v].cursor <= cursor[ctx[v].run]
          /\ ctx[v].cursor = cursor[ctx[v].run] => ctx[v].node = node[ctx[v].run]
          /\ ctx[v].token <= attempt[ctx[v].run]
          BY <3>1 DEF SafeInv, HoldInv, ClaimIsPast
    <3>3. CASE ctx[v].run = r
          BY <1>1, <1>2, <3>1, <3>2, <3>3 DEF Terminal
    <3>4. CASE ctx[v].run # r
          BY <1>1, <1>2, <3>1, <3>2, <3>4
    <3> QED BY <3>3, <3>4
  <2> QED BY <2>1 DEF ClaimIsPast
<1> QED BY <1>4, <1>5, <1>6 DEF SafeInv, HoldInv

LEMMA SafeCommit ==
    ASSUME ConstantsAssumption, TypeInv, SafeInv, NEW w \in Worker,
           CommitStep(w) \/ CommitTerminal(w) \/ BlockModelFailure(w) \/
           FailActionContract(w) \/ FailPersistenceContract(w)
    PROVE  HoldInv'
<1>1. CASE CommitStep(w)
  <2>1. Finish(w) /\ lock' = lock /\ error' = error /\ Advance(ctx[w].run, ctx[w].act.to)
        BY <1>1 DEF CommitStep
  <2>2. ctx[w].act.to \in Node
        BY <1>1, ActionLeadsToNode DEF CommitStep, TypeInv, ActionChosen, Acting
  <2>3. status[ctx[w].run] \in Active
        BY <2>1, FinishFacts
  <2>4. \E s \in Active : status' = [status EXCEPT ![ctx[w].run] = s]
        BY <1>1, <2>3 DEF CommitStep, Active
  <2> QED BY <2>1, <2>2, <2>4, SafeAdvance
<1>2. CASE CommitTerminal(w)
  <2>1. /\ Finish(w) /\ Advance(ctx[w].run, "terminal") /\ error' = error
        /\ lock' = [lock EXCEPT ![TenantOf[ctx[w].run]] = NoRun]
        BY <1>2 DEF CommitTerminal
  <2>2. \E s \in Terminal : status' = [status EXCEPT ![ctx[w].run] = s]
        BY <1>2 DEF CommitTerminal, Terminal
  <2> QED BY <2>1, <2>2, FixedNodes, SafeEndRun
<1>3. CASE BlockModelFailure(w)
  <2>1. /\ Finish(w) /\ Advance(ctx[w].run, "blocked_model_error") /\ lock' = lock /\ error' = error
        /\ status' = [status EXCEPT ![ctx[w].run] = "blocked_model_error"]
        BY <1>3 DEF BlockModelFailure
  <2>2. "blocked_model_error" \in Active
        BY DEF Active
  <2> QED BY <2>1, <2>2, FixedNodes, SafeAdvance
<1>4. CASE FailActionContract(w) \/ FailPersistenceContract(w)
  <2>1. /\ Finish(w) /\ UNCHANGED <<node, cursor>>
        /\ lock' = [lock EXCEPT ![TenantOf[ctx[w].run]] = NoRun]
        /\ status' = [status EXCEPT ![ctx[w].run] = "failed"]
        /\ \A q \in Run \ {ctx[w].run} : error'[q] = error[q]
        BY <1>4 DEF FailActionContract, FailPersistenceContract, FailRun, TypeInv, TypeOK
  <2>2. "failed" \in Terminal
        BY DEF Terminal
  <2> QED BY <2>1, <2>2, SafeEndRun
<1> QED BY <1>1, <1>2, <1>3, <1>4

\* Taking the school for a run that nobody has worked on yet.
LEMMA SafeTake ==
    ASSUME ConstantsAssumption, TypeInv, SafeInv, NEW r \in Run,
           status[r] \in {"absent", "pending"}, TakeSchool(r),
           UNCHANGED <<error, owner, token, attempt, ctx>>
    PROVE  HoldInv'
<1>1. /\ lock[TenantOf[r]] = NoRun /\ lock' = [lock EXCEPT ![TenantOf[r]] = r]
      /\ status' = [status EXCEPT ![r] = "running"]
      /\ \A q \in Run \ {r} : status'[q] = status[q] /\ node'[q] = node[q] /\ cursor'[q] = cursor[q]
      BY DEF TakeSchool, TypeInv, TypeOK
<1>2. \A q \in Run : TenantOf[q] \in Tenant /\ q # NoRun
      BY DEF ConstantsAssumption
<1>3. status'[r] = "running" /\ lock'[TenantOf[r]] = r
      BY <1>1, <1>2 DEF TypeInv, TypeOK
<1>4. \A q \in Run : TenantOf[q] # TenantOf[r] => lock'[TenantOf[q]] = lock[TenantOf[q]]
      BY <1>1, <1>2 DEF TypeInv, TypeOK
<1>5. \A v \in Worker : /\ Busy(v)' <=> Busy(v)
                        /\ Fenced(v)' <=> Fenced(v)
                        /\ Busy(v) => ctx[v].run \in Run \ {r}
      BY DEF Busy, Fenced, SafeInv, HoldInv, ClaimIsPast, TypeInv, ActionChosen
<1>6. \A v \in Worker : Fenced(v) => Busy(v) /\ TenantOf[ctx[v].run] # TenantOf[r]
  <2>1. ASSUME NEW v \in Worker, Fenced(v)
        PROVE  Busy(v) /\ TenantOf[ctx[v].run] # TenantOf[r]
    <3>1. lock[TenantOf[ctx[v].run]] = ctx[v].run /\ Busy(v)
          BY <2>1 DEF SafeInv, HoldInv, FencedWorkerIsCurrent, HoldsSchool, Fenced
    <3> QED BY <1>1, <1>2, <1>5, <3>1
  <2> QED BY <2>1
<1>7. SchoolHeldWhileActive'
  <2>1. ASSUME NEW q \in Run
        PROVE  (status'[q] \in Active /\ error'[q] = "none") <=> (lock'[TenantOf[q]] = q)
    <3>1. CASE q = r
      <4>1. error'[r] = "none"
            BY DEF SafeInv, ErrorsMarkFailures
      <4> QED BY <1>3, <3>1, <4>1 DEF Active
    <3>2. CASE q # r /\ TenantOf[q] = TenantOf[r]
      <4>1. ~(status[q] \in Active /\ error[q] = "none")
            BY <1>1, <1>2, <3>2 DEF SafeInv, HoldInv, SchoolHeldWhileActive
      <4> QED BY <1>1, <1>3, <3>2, <4>1
    <3>3. CASE q # r /\ TenantOf[q] # TenantOf[r]
          BY <1>1, <1>4, <3>3 DEF SafeInv, HoldInv, SchoolHeldWhileActive
    <3> QED BY <3>1, <3>2, <3>3
  <2> QED BY <2>1 DEF SchoolHeldWhileActive
<1>8. FencedWorkerIsCurrent'
  <2>1. ASSUME NEW v \in Worker, Fenced(v)' PROVE Fresh(v)' /\ HoldsSchool(v)'
    <3>1. Fenced(v) /\ ctx'[v] = ctx[v] /\ ctx[v].run \in Run \ {r}
          BY <1>5, <1>6, <2>1
    <3>2. Fresh(v) /\ lock[TenantOf[ctx[v].run]] = ctx[v].run
          BY <3>1 DEF SafeInv, HoldInv, FencedWorkerIsCurrent, HoldsSchool
    <3>3. lock'[TenantOf[ctx[v].run]] = lock[TenantOf[ctx[v].run]]
          BY <1>4, <1>6, <3>1
    <3> QED BY <1>1, <3>1, <3>2, <3>3 DEF Fresh, HoldsSchool
  <2> QED BY <1>5, <2>1 DEF SafeInv, HoldInv, FencedWorkerIsCurrent
<1>9. ClaimIsPast'
      BY <1>1, <1>5 DEF SafeInv, HoldInv, ClaimIsPast
<1> QED BY <1>7, <1>8, <1>9 DEF SafeInv, HoldInv

\* What operators do to a run: they create it, wake it or leave its status.
LEMMA SafeOperator ==
    ASSUME SafeInv, TypeInv, UNCHANGED <<node, cursor, error, lock, owner, token, attempt, ctx>>,
           \A q \in Run : \/ status'[q] = status[q]
                          \/ status[q] \in Active /\ status'[q] \in Active
                          \/ status[q] = "absent" /\ status'[q] = "pending"
                          \/ /\ status[q] \notin {"absent", "pending"} /\ error[q] # "none"
                             /\ status'[q] = "running"
    PROVE  HoldInv'
<1>1. SchoolHeldWhileActive'
  <2>1. \A q \in Run : error[q] = "none" => (status'[q] \in Active <=> status[q] \in Active)
        BY DEF Active
  <2> QED BY <2>1 DEF SafeInv, HoldInv, SchoolHeldWhileActive
<1>2. \A v \in Worker : Busy(v)' <=> Busy(v)
      BY DEF Busy
<1>3. FencedWorkerIsCurrent'
      BY DEF SafeInv, HoldInv, FencedWorkerIsCurrent, Busy, Fenced, Fresh, HoldsSchool
<1>4. ClaimIsPast'
  <2>1. ASSUME NEW v \in Worker, Busy(v)
        PROVE  status'[ctx[v].run] \notin {"absent", "pending"}
    <3>1. ctx[v].run \in Run /\ status[ctx[v].run] \notin {"absent", "pending"}
          BY <2>1 DEF SafeInv, HoldInv, ClaimIsPast, TypeInv, ActionChosen
    <3> QED BY <3>1 DEF Active
  <2> QED BY <1>2, <2>1 DEF SafeInv, HoldInv, ClaimIsPast
<1> QED BY <1>1, <1>3, <1>4 DEF SafeInv, HoldInv

\* A decision changes the status of a run that serves its school, or of one that
\* failed after the decision's request had loaded it.
LEMMA LateDecision ==
    ASSUME TypeInv, SafeInv, NEW r \in Run, NEW q \in loaded[r],
           ActionableAs(r, q.gate, q.seen),
           q.seen \in {"waiting_human", "blocked_model_error"}
    PROVE  status[r] \in Active \/ (status[r] = "failed" /\ error[r] # "none")
<1>1. /\ status[r] \notin {"absent", "pending"}
      /\ status[r] \in {"completed", "terminated"} => PlaceOf(q.gate) < cursor[r]
      BY DEF SafeInv, CallsArePast
<1>2. PlaceOf(q.gate) = cursor[r]
      BY DEF ActionableAs, PlaceOf
<1>3. cursor[r] \in Nat /\ status[r] \in Status
      BY DEF TypeInv, TypeOK
<1>4. status[r] \in Active \cup {"failed"}
      BY <1>1, <1>2, <1>3 DEF Status, Active, Terminal
<1> QED BY <1>4 DEF SafeInv, ErrorsMarkFailures

\* What a decision does to the statuses.
LEMMA DecisionWakes ==
    ASSUME TypeInv, SafeInv, NEW r \in Run, NEW q \in loaded[r],
           ApproveTermination(r, q) \/ \E d \in Outcome : DecideGate(r, q, d)
    PROVE  \/ status' = status
           \/ /\ status' = [status EXCEPT ![r] = "running"]
              /\ status[r] \in Active \/ (status[r] = "failed" /\ error[r] # "none")
<1>1. status' = status \/ status' = [status EXCEPT ![r] = "running"]
      BY DEF ApproveTermination, DecideGate, TypeInv, TypeOK
<1>2. ActionableAs(r, q.gate, q.seen)
      BY DEF ApproveTermination, DecideGate
<1>3. CASE q.seen \in {"waiting_human", "blocked_model_error"}
      BY <1>1, <1>2, <1>3, LateDecision
<1>4. CASE q.seen \notin {"waiting_human", "blocked_model_error"}
      BY <1>4 DEF ApproveTermination, DecideGate, TypeInv, TypeOK
<1> QED BY <1>3, <1>4

\* Every operation of the API keeps the school locks and the fencing.
LEMMA SafeApi ==
    ASSUME ConstantsAssumption, TypeInv, SafeInv, NEW r \in Run, Operator(r)
    PROVE  HoldInv'
<1>1. CASE Start(r) \/ ConfirmRollback(r)
  <2>1. /\ TakeSchool(r) /\ UNCHANGED <<error, owner, token, attempt, ctx>>
        /\ status[r] \in {"absent", "pending"}
        BY <1>1 DEF Start, ConfirmRollback, leaseVars
  <2> QED BY <2>1, SafeTake
<1>2. CASE CreateRollback(r) \/ RejectRollback(r) \/ PreviewTermination(r)
  <2>1. /\ UNCHANGED <<node, cursor, error, lock, owner, token, attempt, ctx>>
        /\ \/ status' = status
           \/ status[r] = "absent" /\ status' = [status EXCEPT ![r] = "pending"]
        BY <1>2 DEF CreateRollback, RejectRollback, PreviewTermination, rowVars, leaseVars
  <2> QED BY <2>1, SafeOperator DEF TypeInv, TypeOK
<1>3. ASSUME NEW q \in loaded[r], ApproveTermination(r, q) \/ \E d \in Outcome : DecideGate(r, q, d)
      PROVE  HoldInv'
  <2>1. UNCHANGED <<node, cursor, error, lock, owner, token, attempt, ctx>>
        BY <1>3 DEF ApproveTermination, DecideGate, leaseVars
  <2>2. \/ status' = status
        \/ /\ status' = [status EXCEPT ![r] = "running"]
           /\ status[r] \in Active \/ (status[r] = "failed" /\ error[r] # "none")
        BY <1>3, DecisionWakes
  <2> QED BY <2>1, <2>2, SafeOperator DEF TypeInv, TypeOK, Active
<1>4. ASSUME NEW k \in Clarification, InterpretClarification(r, k) \/ ConfirmClarification(r, k)
      PROVE  HoldInv'
      BY <1>4, SafeFrame
         DEF InterpretClarification, ConfirmClarification, rowVars, leaseVars, safeVars
<1>5. ASSUME NEW c \in confirming[r], ResumeAfterClarification(r, c)
      PROVE  HoldInv'
  <2>1. /\ UNCHANGED <<node, cursor, error, lock, owner, token, attempt, ctx>>
        /\ \A q \in Run : \/ status'[q] = status[q]
                          \/ status[q] = "waiting_human" /\ status'[q] = "running"
        BY <1>5 DEF ResumeAfterClarification, leaseVars, TypeInv, TypeOK
  <2> QED BY <2>1, SafeOperator DEF Active
<1>6. ASSUME (\E x \in gates[r] : LoadForDecision(r, x)) \/ (\E g \in Group : DecideGroup(r, g))
      PROVE  HoldInv'
      BY <1>6, SafeFrame DEF LoadForDecision, DecideGroup, rowVars, leaseVars, safeVars
<1>7. ASSUME NEW c \in deciding[r], NEW d \in Outcome, ResumeAfterApproval(r, c, d)
      PROVE  HoldInv'
  <2>1. /\ UNCHANGED <<node, cursor, error, lock, owner, token, attempt, ctx>>
        /\ \A q \in Run : \/ status'[q] = status[q]
                          \/ status[q] = "waiting_human" /\ status'[q] = "running"
        BY <1>7 DEF ResumeAfterApproval, leaseVars, TypeInv, TypeOK
  <2> QED BY <2>1, SafeOperator DEF Active
<1> QED BY <1>1, <1>2, <1>3, <1>4, <1>5, <1>6, <1>7 DEF Operator

\* What a worker does between its claim and the end of its iteration: it moves
\* on, keeps its claim in mind and changes neither status, cursor nor lease.
MovesOn(w) ==
    /\ UNCHANGED safeVars
    /\ \/ \E p \in Pc : Goto(w, p)
       \/ \E p \in Pc, a \in Action : GotoWith(w, p, a)
       \/ \E b \in BOOLEAN : Executed(w, b)

LEMMA SafeMovesOn ==
    ASSUME TypeInv, SafeInv, NEW w \in Worker, Busy(w), MovesOn(w)
    PROVE  HoldInv'
<1>1. ctx \in [Worker -> Context] /\ UNCHANGED safeVars
      BY DEF TypeInv, TypeOK, MovesOn
<1>2. /\ \A v \in Worker \ {w} : ctx'[v] = ctx[v]
      /\ ctx'[w].run = ctx[w].run /\ ctx'[w].node = ctx[w].node
      /\ ctx'[w].cursor = ctx[w].cursor /\ ctx'[w].token = ctx[w].token
  <2>1. CASE \E p \in Pc : Goto(w, p)
        BY <1>1, <2>1, GotoEffect
  <2>2. CASE \E p \in Pc, a \in Action : GotoWith(w, p, a)
    <3>1. PICK p \in Pc : \E a \in Action : GotoWith(w, p, a)
          BY <2>2
    <3>2. PICK a \in Action : GotoWith(w, p, a)
          BY <3>1
    <3> QED BY <1>1, <3>2, GotoWithEffect
  <2>3. CASE \E b \in BOOLEAN : Executed(w, b)
        BY <1>1, <2>3, ExecutedEffect
  <2> QED BY <2>1, <2>2, <2>3 DEF MovesOn
<1> QED BY <1>1, <1>2, SafeQuiet

\* The steps up to the execution move on.
LEMMA ChoosingMovesOn ==
    ASSUME ConstantsAssumption, TypeInv, NEW w \in Worker,
           \/ BeginTermination(w) \/ BeginReplay(w) \/ BeginFresh(w) \/ Evaluate(w)
           \/ Freeze(w) \/ DecideRead(w) \/ DecideInsert(w) \/ DecideDuplicate(w)
           \/ CommitRejected(w)
    PROVE  Busy(w) /\ MovesOn(w)
<1>1. CASE BeginTermination(w)
      BY <1>1, TerminateIsAction
         DEF BeginTermination, MovesOn, safeVars, rowVars, leaseVars, Busy, Pc
<1>2. CASE BeginReplay(w)
  <2>1. frozen[ctx[w].run] \in Action
        BY <1>2 DEF BeginReplay, TypeInv, TypeOK, ActionChosen, Busy
  <2> QED BY <1>2, <2>1 DEF BeginReplay, MovesOn, safeVars, rowVars, leaseVars, Busy, Pc
<1>3. CASE Evaluate(w)
  <2>1. PICK a \in Offered(ctx[w].run, ctx[w].node) : GotoWith(w, "freeze", a)
        BY <1>3 DEF Evaluate
  <2>2. ctx[w].run \in Run
        BY <1>3 DEF Evaluate, TypeInv, ActionChosen, Busy
  <2>3. a \in Action
        BY <2>1, <2>2, OfferedAreActions, ActionsAtAreActions, TerminateIsAction
           DEF ConstantsAssumption
  <2> QED BY <1>3, <2>1, <2>3 DEF Evaluate, MovesOn, safeVars, rowVars, leaseVars, Busy, Pc
<1>4. CASE \/ BeginFresh(w) \/ Freeze(w) \/ DecideRead(w) \/ DecideInsert(w)
           \/ DecideDuplicate(w) \/ CommitRejected(w)
  <2>1. /\ Busy(w) /\ UNCHANGED <<rowVars, leaseVars>>
        /\ \E p \in Pc : Goto(w, p)
        BY <1>4 DEF BeginFresh, Freeze, DecideRead, DecideInsert, DecideDuplicate,
                    CommitRejected, Busy, Pc
  <2> QED BY <2>1 DEF MovesOn, safeVars, rowVars, leaseVars
<1> QED BY <1>1, <1>2, <1>3, <1>4

\* Every executor moves on, except the one that is refused after its writes.
LEMMA ExecutingMovesOn ==
    ASSUME NEW w \in Worker, Execute(w)
    PROVE  Busy(w) /\ (MovesOn(w) \/ ExecuteGovernance(w))
<1>1. Busy(w)
      BY DEF Execute, ExecuteOther, BuildIdentityIndex, OpenIdentityConflictGate, AggregateRisk,
             CompileExecutionPlan, PreflightPassed, PreflightStale, ExecuteGovernance,
             GenerateReport, AssessRollback, EnterRollbackApproval, CompileRollback,
             ExecuteRollback, ModelFails, ExecutorRejects, Executing, Busy
<1>2. CASE ModelFails(w) \/ ExecutorRejects(w)
      BY <1>1, <1>2 DEF ModelFails, ExecutorRejects, MovesOn, safeVars, rowVars, leaseVars, Pc
<1>3. CASE ExecuteOther(w) \/ BuildIdentityIndex(w) \/ OpenIdentityConflictGate(w) \/ AggregateRisk(w)
  <2>1. UNCHANGED <<rowVars, leaseVars>> /\ \E b \in BOOLEAN : Executed(w, b)
        BY <1>3 DEF ExecuteOther, BuildIdentityIndex, OpenIdentityConflictGate, AggregateRisk
  <2> QED BY <1>1, <2>1 DEF MovesOn, safeVars, rowVars, leaseVars
<1>4. CASE CompileExecutionPlan(w) \/ PreflightPassed(w) \/ PreflightStale(w) \/ GenerateReport(w)
  <2>1. UNCHANGED <<rowVars, leaseVars>> /\ \E b \in BOOLEAN : Executed(w, b)
        BY <1>4 DEF CompileExecutionPlan, PreflightPassed, PreflightStale, GenerateReport
  <2> QED BY <1>1, <2>1 DEF MovesOn, safeVars, rowVars, leaseVars
<1>5. CASE AssessRollback(w) \/ EnterRollbackApproval(w) \/ CompileRollback(w) \/ ExecuteRollback(w)
  <2>1. UNCHANGED <<rowVars, leaseVars>> /\ \E b \in BOOLEAN : Executed(w, b)
        BY <1>5 DEF AssessRollback, EnterRollbackApproval, CompileRollback, ExecuteRollback
  <2> QED BY <1>1, <2>1 DEF MovesOn, safeVars, rowVars, leaseVars
<1> QED BY <1>1, <1>2, <1>3, <1>4, <1>5 DEF Execute

\* Every step of a live worker keeps the school locks and the fencing.
LEMMA SafeWork ==
    ASSUME ConstantsAssumption, TypeInv, SafeInv, NEW w \in Worker, Work(w)
    PROVE  HoldInv'
<1>1. CASE Execute(w)
  <2>1. CASE MovesOn(w)
        BY <1>1, <2>1, ExecutingMovesOn, SafeMovesOn
  <2>2. CASE ExecuteGovernance(w)
    <3>1. UNCHANGED <<status, node, cursor, error, lock>>
          BY <2>2 DEF ExecuteGovernance, rowVars
    <3>2. CASE Executed(w, FALSE) /\ UNCHANGED leaseVars
      <4>1. MovesOn(w) /\ Busy(w)
            BY <2>2, <3>1, <3>2 DEF ExecuteGovernance, Executing, MovesOn, safeVars, leaseVars, Busy
      <4> QED BY <4>1, SafeMovesOn
    <3>3. CASE Quit(w) /\ ReleaseClaim(w)
          BY <3>1, <3>3, SafeEnd
    <3> QED BY <2>2, <3>2, <3>3 DEF ExecuteGovernance
  <2> QED BY <1>1, <2>1, <2>2, ExecutingMovesOn
<1>2. CASE \/ BeginTermination(w) \/ BeginReplay(w) \/ BeginFresh(w) \/ Evaluate(w)
           \/ Freeze(w) \/ DecideRead(w) \/ DecideInsert(w) \/ DecideDuplicate(w)
           \/ CommitRejected(w)
      BY <1>2, ChoosingMovesOn, SafeMovesOn
<1>3. CASE Abandon(w)
      BY <1>3, SafeEnd DEF Abandon, rowVars
<1>4. CASE HandlerStale(w) \/ LoseClaim(w)
      BY <1>4, SafeEnd DEF HandlerStale, LoseClaim, rowVars, leaseVars
<1>5. CASE \/ CommitStep(w) \/ CommitTerminal(w) \/ BlockModelFailure(w)
           \/ FailActionContract(w) \/ FailPersistenceContract(w)
      BY <1>5, SafeCommit
<1> QED BY <1>1, <1>2, <1>3, <1>4, <1>5 DEF Work

\* Every step keeps the school locks and the fencing.
LEMMA HoldStep ==
    ASSUME TypeInv, SafeInv, [Next]_vars
    PROVE  HoldInv'
<1>1. CASE UNCHANGED vars
      BY <1>1, SafeFrame DEF vars, safeVars, rowVars, leaseVars
<1>2. ASSUME NEW w \in Worker, NEW r \in Run, Claim(w, r) PROVE HoldInv'
      BY <1>2, SafeClaim, ConstantsAssumption
<1>3. ASSUME NEW w \in Worker, Work(w) PROVE HoldInv'
      BY <1>3, SafeWork, ConstantsAssumption
<1>4. CASE Fault
  <2>1. ASSUME NEW w \in Worker, Crash(w) \/ TransientError(w) PROVE HoldInv'
        BY <2>1, SafeEnd, ConstantsAssumption DEF Crash, TransientError, rowVars, leaseVars
  <2>2. ASSUME NEW w \in Worker, Heartbeat(w) PROVE HoldInv'
        BY <2>2, SafeFrame DEF Heartbeat, safeVars, rowVars
  <2>3. ASSUME NEW r \in Run, LeaseExpire(r) \/ TargetMoves(r) PROVE HoldInv'
        BY <2>3, SafeFrame DEF LeaseExpire, TargetMoves, safeVars, rowVars, leaseVars
  <2> QED BY <1>4, <2>1, <2>2, <2>3 DEF Fault
<1>5. ASSUME NEW r \in Run, Operator(r) PROVE HoldInv'
      BY <1>5, SafeApi, ConstantsAssumption
<1> QED BY <1>1, <1>2, <1>3, <1>4, <1>5 DEF Next

\* What the statuses, the errors and the requests in flight depend on.
CallFacts == <<status, cursor, error, loaded>>

LEMMA CallFrame ==
    ASSUME SafeInv, UNCHANGED CallFacts
    PROVE  ErrorsMarkFailures' /\ CallsArePast'
BY DEF SafeInv, ErrorsMarkFailures, CallsArePast, CallFacts

\* A transition moves the run away from every request in flight.
LEMMA CallAdvance ==
    ASSUME ConstantsAssumption, TypeInv, SafeInv, NEW w \in Worker, Finish(w),
           NEW s \in Active \cup {"completed", "terminated"}, NEW n \in Node,
           status' = [status EXCEPT ![ctx[w].run] = s], Advance(ctx[w].run, n),
           UNCHANGED <<error, loaded>>
    PROVE  ErrorsMarkFailures' /\ CallsArePast'
<1> DEFINE r == ctx[w].run
<1>1. r \in Run /\ status[r] \in Active /\ error[r] = "none"
      BY FinishFacts
<1>2. /\ \A q \in Run \ {r} : status'[q] = status[q] /\ cursor'[q] = cursor[q]
      /\ status'[r] = s /\ cursor'[r] = cursor[r] + 1 /\ cursor[r] \in Nat
      BY <1>1 DEF Advance, TypeInv, TypeOK
<1>3. ErrorsMarkFailures'
  <2>1. s # "failed"
        BY DEF Active
  <2> QED BY <1>1, <1>2, <2>1 DEF SafeInv, ErrorsMarkFailures
<1>4. CallsArePast'
  <2>1. ASSUME NEW q \in loaded[r], q.seen \in {"waiting_human", "blocked_model_error"}
        PROVE  /\ s \notin {"absent", "pending"}
               /\ PlaceOf(q.gate) <= cursor[r] + 1 /\ PlaceOf(q.gate) < cursor[r] + 1
    <3>1. PlaceOf(q.gate) <= cursor[r]
          BY <1>1, <2>1 DEF SafeInv, CallsArePast
    <3>2. PlaceOf(q.gate) \in Nat
          BY <1>1 DEF PlaceOf, TypeInv, TypeOK, GateCall, Gate
    <3> QED BY <1>2, <3>1, <3>2 DEF Active
  <2> QED BY <1>2, <2>1 DEF SafeInv, CallsArePast
<1> QED BY <1>3, <1>4

\* A failure leaves the run where the requests in flight found it.
LEMMA CallFail ==
    ASSUME ConstantsAssumption, TypeInv, SafeInv, NEW w \in Worker,
           FailActionContract(w) \/ FailPersistenceContract(w)
    PROVE  ErrorsMarkFailures' /\ CallsArePast'
<1> DEFINE r == ctx[w].run
<1>1. /\ r \in Run /\ UNCHANGED <<cursor, loaded>>
      /\ \A q \in Run \ {r} : status'[q] = status[q] /\ error'[q] = error[q]
      /\ status'[r] = "failed" /\ error'[r] # "none"
      /\ status[r] \in Active
      BY FinishFacts
         DEF FailActionContract, FailPersistenceContract, FailRun, TypeInv, TypeOK, humanVars, callVars
<1>2. ErrorsMarkFailures'
      BY <1>1 DEF SafeInv, ErrorsMarkFailures
<1>3. CallsArePast'
      BY <1>1 DEF SafeInv, CallsArePast, Active
<1> QED BY <1>2, <1>3

LEMMA CallCommit ==
    ASSUME ConstantsAssumption, TypeInv, SafeInv, NEW w \in Worker,
           CommitStep(w) \/ CommitTerminal(w) \/ BlockModelFailure(w) \/
           FailActionContract(w) \/ FailPersistenceContract(w)
    PROVE  ErrorsMarkFailures' /\ CallsArePast'
<1>1. CASE CommitStep(w)
  <2>1. Finish(w) /\ Advance(ctx[w].run, ctx[w].act.to) /\ UNCHANGED <<error, loaded>>
        BY <1>1 DEF CommitStep, humanVars, callVars
  <2>2. ctx[w].act.to \in Node
        BY <1>1, ActionLeadsToNode DEF CommitStep, TypeInv, ActionChosen, Acting
  <2>3. status[ctx[w].run] \in Active
        BY <2>1, FinishFacts
  <2>4. \E s \in Active : status' = [status EXCEPT ![ctx[w].run] = s]
        BY <1>1, <2>3 DEF CommitStep, Active
  <2> QED BY <2>1, <2>2, <2>4, CallAdvance
<1>2. CASE CommitTerminal(w)
  <2>1. Finish(w) /\ Advance(ctx[w].run, "terminal") /\ UNCHANGED <<error, loaded>>
        BY <1>2 DEF CommitTerminal, humanVars, callVars
  <2>2. \E s \in {"completed", "terminated"} : status' = [status EXCEPT ![ctx[w].run] = s]
        BY <1>2 DEF CommitTerminal
  <2> QED BY <2>1, <2>2, FixedNodes, CallAdvance
<1>3. CASE BlockModelFailure(w)
  <2>1. /\ Finish(w) /\ Advance(ctx[w].run, "blocked_model_error") /\ UNCHANGED <<error, loaded>>
        /\ status' = [status EXCEPT ![ctx[w].run] = "blocked_model_error"]
        BY <1>3 DEF BlockModelFailure, humanVars, callVars
  <2>2. "blocked_model_error" \in Active
        BY DEF Active
  <2> QED BY <2>1, <2>2, FixedNodes, CallAdvance
<1>4. CASE FailActionContract(w) \/ FailPersistenceContract(w)
      BY <1>4, CallFail
<1> QED BY <1>1, <1>2, <1>3, <1>4

\* A decision wakes a run whose requests are past already, and drops its own.
LEMMA CallDecide ==
    ASSUME TypeInv, SafeInv, NEW r \in Run, NEW q \in loaded[r],
           ApproveTermination(r, q) \/ \E d \in Outcome : DecideGate(r, q, d)
    PROVE  ErrorsMarkFailures' /\ CallsArePast'
<1>1. UNCHANGED <<cursor, error>>
      BY DEF ApproveTermination, DecideGate
<1>2. \/ status' = status
      \/ /\ status' = [status EXCEPT ![r] = "running"]
         /\ status[r] \in Active \/ (status[r] = "failed" /\ error[r] # "none")
      BY DecisionWakes
<1>3. \A p \in Run : loaded'[p] \subseteq loaded[p]
  <2>1. loaded' = [loaded EXCEPT ![r] = {c \in @ : c.gate # q.gate}]
        BY DEF ApproveTermination, DecideGate, Settle
  <2>2. loaded \in [Run -> SUBSET GateCall]
        BY DEF TypeInv, TypeOK
  <2> QED BY <2>1, <2>2
<1>4. ErrorsMarkFailures'
      BY <1>1, <1>2 DEF SafeInv, ErrorsMarkFailures, TypeInv, TypeOK
<1>5. CallsArePast'
      BY <1>1, <1>2, <1>3 DEF SafeInv, CallsArePast, TypeInv, TypeOK
<1> QED BY <1>4, <1>5

\* A request loads the run where it waits.
LEMMA CallLoad ==
    ASSUME TypeInv, SafeInv, NEW r \in Run, NEW x \in gates[r], LoadForDecision(r, x)
    PROVE  ErrorsMarkFailures' /\ CallsArePast'
<1> DEFINE new == [gate |-> x, seen |-> status[r]]
<1>1. UNCHANGED <<status, cursor, error>>
      BY DEF LoadForDecision, rowVars
<1>2. loaded' = [loaded EXCEPT ![r] = @ \cup {new}]
      BY DEF LoadForDecision
<1>3. new.seen = status[r] /\ new.gate = x
      OBVIOUS
<1>4. PlaceOf(x) = cursor[r] /\ cursor[r] \in Nat
      BY DEF LoadForDecision, Actionable, ActionableAs, PlaceOf, TypeInv, TypeOK
<1> HIDE DEF new
<1>5. ErrorsMarkFailures'
      BY <1>1 DEF SafeInv, ErrorsMarkFailures
<1>6. CallsArePast'
      BY <1>1, <1>2, <1>3, <1>4 DEF SafeInv, CallsArePast, TypeInv, TypeOK
<1> QED BY <1>5, <1>6

LEMMA CallApi ==
    ASSUME ConstantsAssumption, TypeInv, SafeInv, NEW r \in Run, Operator(r)
    PROVE  ErrorsMarkFailures' /\ CallsArePast'
<1>1. CASE Start(r) \/ ConfirmRollback(r)
  <2>1. /\ UNCHANGED <<error, loaded>> /\ status[r] \in {"absent", "pending"}
        /\ \A q \in Run \ {r} : status'[q] = status[q] /\ cursor'[q] = cursor[q]
        /\ status'[r] = "running"
        BY <1>1 DEF Start, ConfirmRollback, TakeSchool, humanVars, callVars, TypeInv, TypeOK
  <2>2. \A q \in loaded[r] : q.seen \notin {"waiting_human", "blocked_model_error"}
        BY <2>1 DEF SafeInv, CallsArePast
  <2> QED BY <2>1, <2>2 DEF SafeInv, ErrorsMarkFailures, CallsArePast
<1>2. CASE CreateRollback(r)
  <2>1. /\ UNCHANGED <<cursor, error, loaded>> /\ status[r] = "absent"
        /\ \A q \in Run \ {r} : status'[q] = status[q]
        /\ status'[r] = "pending"
        BY <1>2 DEF CreateRollback, humanVars, callVars, TypeInv, TypeOK
  <2>2. \A q \in loaded[r] : q.seen \notin {"waiting_human", "blocked_model_error"}
        BY <2>1 DEF SafeInv, CallsArePast
  <2> QED BY <2>1, <2>2 DEF SafeInv, ErrorsMarkFailures, CallsArePast
<1>3. ASSUME \/ RejectRollback(r) \/ PreviewTermination(r)
             \/ \E k \in Clarification : InterpretClarification(r, k) \/ ConfirmClarification(r, k)
             \/ \E g \in Group : DecideGroup(r, g)
      PROVE  ErrorsMarkFailures' /\ CallsArePast'
  <2>1. UNCHANGED CallFacts
        BY <1>3 DEF RejectRollback, PreviewTermination, InterpretClarification, ConfirmClarification,
                    DecideGroup, rowVars, humanVars, callVars, CallFacts
  <2> QED BY <2>1, CallFrame
<1>4. ASSUME \/ \E c \in confirming[r] : ResumeAfterClarification(r, c)
             \/ \E c \in deciding[r], d \in Outcome : ResumeAfterApproval(r, c, d)
      PROVE  ErrorsMarkFailures' /\ CallsArePast'
  <2>1. /\ UNCHANGED <<cursor, error, loaded>>
        /\ \A q \in Run : \/ status'[q] = status[q]
                          \/ status[q] = "waiting_human" /\ status'[q] = "running"
        BY <1>4 DEF ResumeAfterClarification, ResumeAfterApproval, TypeInv, TypeOK
  <2> QED BY <2>1 DEF SafeInv, ErrorsMarkFailures, CallsArePast
<1>5. ASSUME NEW x \in gates[r], LoadForDecision(r, x)
      PROVE  ErrorsMarkFailures' /\ CallsArePast'
      BY <1>5, CallLoad
<1>6. ASSUME NEW q \in loaded[r], ApproveTermination(r, q) \/ \E d \in Outcome : DecideGate(r, q, d)
      PROVE  ErrorsMarkFailures' /\ CallsArePast'
      BY <1>6, CallDecide
<1> QED BY <1>1, <1>2, <1>3, <1>4, <1>5, <1>6 DEF Operator

\* The steps of a worker that leave the run's row and every request alone.
LEMMA QuietWork ==
    ASSUME NEW w \in Worker, Work(w),
           ~(CommitStep(w) \/ CommitTerminal(w) \/ BlockModelFailure(w) \/
             FailActionContract(w) \/ FailPersistenceContract(w))
    PROVE  UNCHANGED <<rowVars, callVars>>
<1>1. CASE Execute(w)
      BY <1>1 DEF Execute, ExecuteOther, BuildIdentityIndex, OpenIdentityConflictGate,
             AggregateRisk, CompileExecutionPlan, PreflightPassed, PreflightStale,
             ExecuteGovernance, GenerateReport, AssessRollback, EnterRollbackApproval,
             CompileRollback, ExecuteRollback, ModelFails, ExecutorRejects, humanVars
<1>2. CASE \/ BeginTermination(w) \/ BeginReplay(w) \/ BeginFresh(w) \/ Evaluate(w)
           \/ Freeze(w) \/ DecideRead(w) \/ DecideInsert(w) \/ DecideDuplicate(w)
           \/ Abandon(w) \/ CommitRejected(w) \/ HandlerStale(w) \/ LoseClaim(w)
      BY <1>2 DEF BeginTermination, BeginReplay, BeginFresh, Evaluate, Freeze, DecideRead,
             DecideInsert, DecideDuplicate, Abandon, CommitRejected, HandlerStale, LoseClaim,
             humanVars
<1> QED BY <1>1, <1>2 DEF Work

LEMMA QuietFault == Fault => UNCHANGED <<rowVars, callVars>>
BY DEF Fault, Crash, TransientError, Heartbeat, LeaseExpire, TargetMoves, humanVars

\* Every step keeps the marks of the failed runs and the requests in the past.
LEMMA CallStep ==
    ASSUME TypeInv, SafeInv, [Next]_vars
    PROVE  ErrorsMarkFailures' /\ CallsArePast'
<1>1. UNCHANGED <<rowVars, callVars>> => ErrorsMarkFailures' /\ CallsArePast'
      BY CallFrame DEF rowVars, callVars, CallFacts
<1>2. ASSUME NEW w \in Worker, NEW r \in Run, Claim(w, r)
      PROVE  ErrorsMarkFailures' /\ CallsArePast'
      BY <1>1, <1>2 DEF Claim, humanVars
<1>3. ASSUME NEW w \in Worker, Work(w)
      PROVE  ErrorsMarkFailures' /\ CallsArePast'
      BY <1>1, <1>3, QuietWork, CallCommit, ConstantsAssumption
<1>4. CASE Fault
      BY <1>1, <1>4, QuietFault
<1>5. ASSUME NEW r \in Run, Operator(r)
      PROVE  ErrorsMarkFailures' /\ CallsArePast'
      BY <1>5, CallApi, ConstantsAssumption
<1>6. CASE UNCHANGED vars
      BY <1>1, <1>6 DEF vars, humanVars, rowVars, callVars
<1> QED BY <1>2, <1>3, <1>4, <1>5, <1>6 DEF Next

\* Every step keeps the invariant.
LEMMA SafeStep == TypeInv /\ SafeInv /\ [Next]_vars => SafeInv'
BY HoldStep, CallStep DEF SafeInv

\* The inductive invariant of the runtime.
LEMMA Safe == Spec => [](TypeInv /\ SafeInv)
<1>1. Init => TypeInv /\ SafeInv
      BY TypeInit, SafeInit, ConstantsAssumption
<1>2. TypeInv /\ SafeInv /\ [Next]_vars => (TypeInv /\ SafeInv)'
      BY TypeStep, SafeStep
<1> QED BY <1>1, <1>2, PTL DEF Spec

\* A run owns its school's lock exactly while it runs, waits or is blocked and has
\* not failed, also where a late decision calls a failed run running.
THEOREM SchoolLocksAreHeld == Spec => []SchoolHeldWhileActive
<1>1. TypeInv /\ SafeInv => SchoolHeldWhileActive
      BY DEF SafeInv, HoldInv
<1> QED BY <1>1, Safe, PTL

\* The worker that passes the fencing check is up to date and holds the school,
\* and two claims of one run never have the same token.
THEOREM FencingWorks == Spec => []FencedWorkerIsCurrent
<1>1. TypeInv /\ SafeInv => FencedWorkerIsCurrent
      BY DEF SafeInv, HoldInv
<1> QED BY <1>1, Safe, PTL

-----------------------------------------------------------------------------
(* Runs that have ended *)

\* Only the holder of a school may end its run, and only its own run.
LEMMA TerminalFinish ==
    ASSUME ConstantsAssumption, TypeInv, SafeInv, NEW w \in Worker, Finish(w),
           NEW s, status' = [status EXCEPT ![ctx[w].run] = s],
           \/ \E n \in Node : Advance(ctx[w].run, n)
           \/ UNCHANGED <<node, cursor>>,
           \/ lock' = lock
           \/ lock' = [lock EXCEPT ![TenantOf[ctx[w].run]] = NoRun],
           \A q \in Run \ {ctx[w].run} : error'[q] = error[q]
    PROVE  KeepsEndedRuns
<1> DEFINE r == ctx[w].run
<1>1. r \in Run /\ status[r] \in Active /\ error[r] = "none"
      BY FinishFacts
<1>2. SUFFICES ASSUME NEW q \in Run, HasEnded(q)
               PROVE  /\ status'[q] = status[q]
                      /\ node'[q] = node[q] /\ cursor'[q] = cursor[q] /\ error'[q] = error[q]
                      /\ (lock'[TenantOf[q]] = q => lock[TenantOf[q]] = q)
      BY DEF KeepsEndedRuns
<1>3. q # r
      BY <1>1, <1>2 DEF HasEnded, Active, Terminal
<1>4. status'[q] = status[q] /\ node'[q] = node[q] /\ cursor'[q] = cursor[q]
      BY <1>3 DEF Advance, TypeInv, TypeOK
<1>5. q # NoRun /\ TenantOf[q] \in Tenant /\ lock \in [Tenant -> Run \cup {NoRun}]
      BY DEF ConstantsAssumption, TypeInv, TypeOK
<1>6. CASE lock' = lock
      BY <1>3, <1>4, <1>6
<1>7. CASE lock' = [lock EXCEPT ![TenantOf[r]] = NoRun]
  <2>1. lock'[TenantOf[q]] = q => lock[TenantOf[q]] = q
        BY <1>5, <1>7
  <2> QED BY <1>3, <1>4, <2>1
<1> QED BY <1>6, <1>7

\* The outcomes of an iteration leave the runs that have ended alone.
LEMMA TerminalCommit ==
    ASSUME ConstantsAssumption, TypeInv, SafeInv, NEW w \in Worker,
           CommitStep(w) \/ CommitTerminal(w) \/ BlockModelFailure(w) \/
           FailActionContract(w) \/ FailPersistenceContract(w)
    PROVE  KeepsEndedRuns
<1> DEFINE r == ctx[w].run
<1>1. CASE CommitStep(w)
  <2>1. /\ Finish(w) /\ lock' = lock /\ error' = error /\ Advance(r, ctx[w].act.to)
        /\ \E s : status' = [status EXCEPT ![r] = s]
        BY <1>1 DEF CommitStep
  <2>2. ctx[w].act.to \in Node
        BY <1>1, ActionLeadsToNode DEF CommitStep, TypeInv, ActionChosen, Acting
  <2> QED BY <2>1, <2>2, TerminalFinish
<1>2. CASE CommitTerminal(w)
  <2>1. /\ Finish(w) /\ error' = error /\ Advance(r, "terminal")
        /\ lock' = [lock EXCEPT ![TenantOf[r]] = NoRun]
        /\ \E s : status' = [status EXCEPT ![r] = s]
        BY <1>2 DEF CommitTerminal
  <2> QED BY <2>1, FixedNodes, TerminalFinish
<1>3. CASE BlockModelFailure(w)
  <2>1. /\ Finish(w) /\ error' = error /\ Advance(r, "blocked_model_error") /\ lock' = lock
        /\ \E s : status' = [status EXCEPT ![r] = s]
        BY <1>3 DEF BlockModelFailure
  <2> QED BY <2>1, FixedNodes, TerminalFinish
<1>4. CASE FailActionContract(w) \/ FailPersistenceContract(w)
  <2>1. /\ Finish(w) /\ UNCHANGED <<node, cursor>>
        /\ \E why : error' = [error EXCEPT ![r] = why]
        /\ lock' = [lock EXCEPT ![TenantOf[r]] = NoRun]
        /\ \E s : status' = [status EXCEPT ![r] = s]
        BY <1>4 DEF FailActionContract, FailPersistenceContract, FailRun
  <2>2. \A q \in Run \ {r} : error'[q] = error[q]
        BY <2>1 DEF TypeInv, TypeOK
  <2> QED BY <2>1, <2>2, TerminalFinish
<1> QED BY <1>1, <1>2, <1>3, <1>4

\* Operators start, wake or confirm runs that have not ended; only a decision that
\* is late calls a failed run running.
LEMMA TerminalApi ==
    ASSUME ConstantsAssumption, TypeInv, SafeInv, NEW r \in Run, Operator(r)
    PROVE  KeepsEndedRuns
<1>1. CASE Start(r) \/ ConfirmRollback(r)
  <2>1. /\ TakeSchool(r) /\ error' = error /\ status[r] \in {"absent", "pending"}
        BY <1>1 DEF Start, ConfirmRollback
  <2>2. SUFFICES ASSUME NEW q \in Run, HasEnded(q)
                 PROVE  /\ status'[q] = status[q]
                        /\ node'[q] = node[q] /\ cursor'[q] = cursor[q] /\ error'[q] = error[q]
                        /\ (lock'[TenantOf[q]] = q => lock[TenantOf[q]] = q)
        BY DEF KeepsEndedRuns
  <2>3. q # r
        BY <2>1, <2>2 DEF SafeInv, ErrorsMarkFailures, HasEnded, Terminal
  <2>4. TenantOf[q] \in Tenant /\ TenantOf[r] \in Tenant
        BY DEF ConstantsAssumption
  <2> QED BY <2>1, <2>3, <2>4 DEF TakeSchool, TypeInv, TypeOK
<1>2. CASE CreateRollback(r) \/ RejectRollback(r) \/ PreviewTermination(r)
  <2>1. /\ UNCHANGED <<node, cursor, error, lock>>
        /\ \/ status' = status
           \/ status[r] = "absent" /\ status' = [status EXCEPT ![r] = "pending"]
        BY <1>2 DEF CreateRollback, RejectRollback, PreviewTermination, rowVars
  <2> QED BY <2>1 DEF KeepsEndedRuns, SafeInv, ErrorsMarkFailures, HasEnded, Terminal, TypeInv,
                     TypeOK
<1>3. ASSUME NEW q \in loaded[r], ApproveTermination(r, q) \/ \E d \in Outcome : DecideGate(r, q, d)
      PROVE  KeepsEndedRuns
  <2>1. UNCHANGED <<node, cursor, error, lock>>
        BY <1>3 DEF ApproveTermination, DecideGate
  <2>2. \/ status' = status
        \/ /\ status' = [status EXCEPT ![r] = "running"]
           /\ status[r] \in Active \/ (status[r] = "failed" /\ error[r] # "none")
        BY <1>3, DecisionWakes
  <2> QED BY <2>1, <2>2
          DEF KeepsEndedRuns, SafeInv, ErrorsMarkFailures, HasEnded, Active, Terminal, TypeInv, TypeOK
<1>4. ASSUME \/ \E c \in confirming[r] : ResumeAfterClarification(r, c)
             \/ \E c \in deciding[r], d \in Outcome : ResumeAfterApproval(r, c, d)
      PROVE  KeepsEndedRuns
  <2>1. /\ UNCHANGED <<node, cursor, error, lock>>
        /\ \A q \in Run : status'[q] = status[q] \/ status[q] = "waiting_human"
        BY <1>4 DEF ResumeAfterClarification, ResumeAfterApproval, TypeInv, TypeOK
  <2> QED BY <2>1 DEF KeepsEndedRuns, SafeInv, ErrorsMarkFailures, HasEnded, Terminal
<1>5. ASSUME \/ \E x \in gates[r] : LoadForDecision(r, x)
             \/ \E k \in Clarification : InterpretClarification(r, k) \/ ConfirmClarification(r, k)
             \/ \E g \in Group : DecideGroup(r, g)
      PROVE  KeepsEndedRuns
      BY <1>5 DEF LoadForDecision, InterpretClarification, ConfirmClarification, DecideGroup, rowVars,
                  KeepsEndedRuns
<1> QED BY <1>1, <1>2, <1>3, <1>4, <1>5 DEF Operator

\* No step changes a run that has ended but for that one.
LEMMA TerminalStep == TypeInv /\ SafeInv /\ [Next]_vars => [KeepsEndedRuns]_vars
<1> SUFFICES ASSUME TypeInv, SafeInv, Next PROVE KeepsEndedRuns
    OBVIOUS
<1>1. UNCHANGED rowVars => KeepsEndedRuns
      BY DEF rowVars, KeepsEndedRuns
<1>2. ASSUME NEW w \in Worker, NEW r \in Run, Claim(w, r) PROVE KeepsEndedRuns
      BY <1>1, <1>2 DEF Claim
<1>3. ASSUME NEW w \in Worker, Work(w) PROVE KeepsEndedRuns
      BY <1>1, <1>3, QuietWork, TerminalCommit, ConstantsAssumption
<1>4. CASE Fault
      BY <1>1, <1>4, QuietFault
<1>5. ASSUME NEW r \in Run, Operator(r) PROVE KeepsEndedRuns
      BY <1>5, TerminalApi, ConstantsAssumption
<1> QED BY <1>2, <1>3, <1>4, <1>5 DEF Next

\* The fence lets no late commit change the outcome or the place of a run that has
\* ended, and nothing takes its school again; no operator wakes, confirms or restarts
\* it, but that a decision which loaded a failed run before calls it running.
THEOREM EndedRunsStay == Spec => EndedRunsStayEnded
<1>1. TypeInv /\ SafeInv /\ [Next]_vars => [KeepsEndedRuns]_vars
      BY TerminalStep
<1> QED BY <1>1, Safe, PTL DEF Spec, EndedRunsStayEnded

-----------------------------------------------------------------------------
(* AgentGraph implements SchoolRuns, for every value of the constants.  The *)
(* school's view of a run changes in three places only: a run takes its     *)
(* school, a fenced worker commits a transition, a fenced worker ends the   *)
(* run.  SafeInv says that the fenced worker's run holds the school, which  *)
(* is what the abstract steps ask for.                                      *)

SchoolView == [r \in Run |-> PhaseOf(status[r], error[r])]

\* What the school does not see.
LEMMA UnseenStep ==
    ASSUME lock' = lock, cursor' = cursor,
           \A q \in Run : PhaseOf(status'[q], error'[q]) = PhaseOf(status[q], error[q])
    PROVE  UNCHANGED Schools!schoolVars
BY DEF Schools!schoolVars, PhaseOf

LEMMA SchoolsInit == ASSUME ConstantsAssumption PROVE Init => Schools!SchoolInit
BY DEF Init, Schools!SchoolInit, PhaseOf, Active, Terminal

\* Taking the school is the abstract beginning.
LEMMA TakeBegins ==
    ASSUME ConstantsAssumption, TypeInv, SafeInv, NEW r \in Run, TakeSchool(r), error' = error,
           status[r] \in {"absent", "pending"}
    PROVE  Schools!Begin(r)
<1>0. error[r] = "none"
      BY DEF SafeInv, ErrorsMarkFailures
<1>1. /\ lock[TenantOf[r]] = NoRun
      /\ lock' = [lock EXCEPT ![TenantOf[r]] = r]
      /\ cursor' = [cursor EXCEPT ![r] = 2]
      /\ status' = [status EXCEPT ![r] = "running"]
      BY DEF TakeSchool
<1>2. SchoolView[r] = "new"
      BY <1>0 DEF SchoolView, PhaseOf, Active, Terminal
<1>3. SchoolView' = [SchoolView EXCEPT ![r] = "active"]
  <2>1. \A q \in Run : PhaseOf(status'[q], error'[q]) =
                           IF q = r THEN "active" ELSE PhaseOf(status[q], error[q])
        BY <1>0, <1>1 DEF PhaseOf, Active, TypeInv, TypeOK
  <2> QED BY <2>1 DEF SchoolView
<1> QED BY <1>1, <1>2, <1>3 DEF Schools!Begin, SchoolView

\* A fenced transition that keeps the run active is a step of its walk.
LEMMA CommitWalks ==
    ASSUME ConstantsAssumption, TypeInv, SafeInv, NEW w \in Worker, Finish(w),
           NEW n \in Node, Advance(ctx[w].run, n), lock' = lock, error' = error,
           NEW s \in Active, status' = [status EXCEPT ![ctx[w].run] = s]
    PROVE  Schools!Walk(ctx[w].run)
<1> DEFINE r == ctx[w].run
<1>1. r \in Run /\ HoldsSchool(w) /\ status[r] \in Active /\ error[r] = "none"
      BY FinishFacts
<1>2. lock[TenantOf[r]] = r /\ cursor' = [cursor EXCEPT ![r] = @ + 1]
      BY <1>1 DEF HoldsSchool, Advance
<1>3. SchoolView[r] = "active"
      BY <1>1 DEF SchoolView, PhaseOf
<1>4. SchoolView' = SchoolView
  <2>1. \A q \in Run : PhaseOf(status'[q], error'[q]) = PhaseOf(status[q], error[q])
        BY <1>1 DEF PhaseOf, TypeInv, TypeOK
  <2> QED BY <2>1 DEF SchoolView
<1> QED BY <1>2, <1>3, <1>4 DEF Schools!Walk, SchoolView

\* A fenced end is the abstract one: behind the last transition or a failure.
LEMMA FinishEnds ==
    ASSUME ConstantsAssumption, TypeInv, SafeInv, NEW w \in Worker, Finish(w),
           lock' = [lock EXCEPT ![TenantOf[ctx[w].run]] = NoRun],
           NEW s \in Terminal, status' = [status EXCEPT ![ctx[w].run] = s],
           \A q \in Run \ {ctx[w].run} : error'[q] = error[q],
           \/ s # "failed" /\ error' = error /\ \E n \in Node : Advance(ctx[w].run, n)
           \/ s = "failed" /\ error'[ctx[w].run] # "none" /\ cursor' = cursor
    PROVE  Schools!End(ctx[w].run)
<1> DEFINE r == ctx[w].run
<1>1. r \in Run /\ HoldsSchool(w) /\ status[r] \in Active /\ error[r] = "none"
      BY FinishFacts
<1>2. /\ lock[TenantOf[r]] = r
      /\ \/ cursor' = [cursor EXCEPT ![r] = @ + 1]
         \/ s = "failed" /\ cursor' = cursor
      BY <1>1 DEF HoldsSchool, Advance
<1>3. SchoolView[r] = "active" /\ s \in Schools!Ended
      BY <1>1 DEF SchoolView, PhaseOf, Schools!Ended, Terminal
<1>4. SchoolView' = [SchoolView EXCEPT ![r] = s]
  <2>1. PhaseOf(s, error'[r]) = s
        BY <1>1 DEF PhaseOf, Active, Terminal
  <2>2. \A q \in Run : PhaseOf(status'[q], error'[q]) =
                           IF q = r THEN s ELSE PhaseOf(status[q], error[q])
        BY <1>1, <2>1 DEF TypeInv, TypeOK
  <2> QED BY <2>2 DEF SchoolView
<1>5. SchoolView'[r] = s
      BY <1>1, <1>4 DEF SchoolView
<1> QED BY <1>2, <1>3, <1>4, <1>5 DEF Schools!End, SchoolView

\* The outcomes of an iteration.
LEMMA CommitRefines ==
    ASSUME ConstantsAssumption, TypeInv, SafeInv, NEW w \in Worker,
           CommitStep(w) \/ CommitTerminal(w) \/ BlockModelFailure(w) \/
           FailActionContract(w) \/ FailPersistenceContract(w)
    PROVE  Schools!SchoolNext
<1> DEFINE r == ctx[w].run
<1>1. CASE CommitStep(w)
  <2>1. /\ Finish(w) /\ UNCHANGED <<lock, error>> /\ Advance(r, ctx[w].act.to)
        /\ status' = [status EXCEPT ![r] = IF ctx[w].pause THEN "waiting_human" ELSE @]
        BY <1>1 DEF CommitStep
  <2>2. ctx[w].act.to \in Node
        BY <1>1, ActionLeadsToNode DEF CommitStep, TypeInv, ActionChosen, Acting
  <2>3. r \in Run /\ status[r] \in Active
        BY <2>1, FinishFacts
  <2>4. \E s \in Active : status' = [status EXCEPT ![r] = s]
        BY <2>1, <2>3 DEF Active
  <2> QED BY <2>1, <2>2, <2>3, <2>4, CommitWalks DEF Schools!SchoolNext
<1>2. CASE BlockModelFailure(w)
  <2>1. /\ Finish(w) /\ Advance(r, "blocked_model_error") /\ UNCHANGED <<lock, error>>
        /\ status' = [status EXCEPT ![r] = "blocked_model_error"]
        BY <1>2 DEF BlockModelFailure
  <2>2. r \in Run /\ "blocked_model_error" \in Active
        BY <2>1, FinishFacts DEF Active
  <2> QED BY <2>1, <2>2, FixedNodes, CommitWalks DEF Schools!SchoolNext
<1>3. CASE CommitTerminal(w)
  <2>1. /\ Finish(w) /\ Advance(r, "terminal") /\ error' = error
        /\ lock' = [lock EXCEPT ![TenantOf[r]] = NoRun]
        /\ \E s \in Terminal \ {"failed"} : status' = [status EXCEPT ![r] = s]
        BY <1>3 DEF CommitTerminal, Terminal
  <2>2. r \in Run
        BY <2>1, FinishFacts
  <2> QED BY <2>1, <2>2, FixedNodes, FinishEnds DEF Schools!SchoolNext
<1>4. CASE FailActionContract(w) \/ FailPersistenceContract(w)
  <2>1. /\ Finish(w) /\ cursor' = cursor
        /\ lock' = [lock EXCEPT ![TenantOf[r]] = NoRun]
        /\ status' = [status EXCEPT ![r] = "failed"]
        BY <1>4 DEF FailActionContract, FailPersistenceContract, FailRun
  <2>2. r \in Run /\ "failed" \in Terminal
        BY <2>1, FinishFacts DEF Terminal
  <2>3. error'[r] # "none" /\ \A q \in Run \ {r} : error'[q] = error[q]
        BY <1>4, <2>2 DEF FailActionContract, FailPersistenceContract, FailRun, TypeInv, TypeOK
  <2> QED BY <2>1, <2>2, <2>3, FinishEnds DEF Schools!SchoolNext
<1> QED BY <1>1, <1>2, <1>3, <1>4

\* Operators start or confirm a run, or wake one that has its school already; that a
\* failed run is called running is not seen.
LEMMA OperatorRefines ==
    ASSUME ConstantsAssumption, TypeInv, SafeInv, NEW r \in Run, Operator(r)
    PROVE  Schools!SchoolNext \/ UNCHANGED Schools!schoolVars
<1>1. CASE Start(r) \/ ConfirmRollback(r)
  <2>1. TakeSchool(r) /\ error' = error /\ status[r] \in {"absent", "pending"}
        BY <1>1 DEF Start, ConfirmRollback
  <2> QED BY <2>1, TakeBegins DEF Schools!SchoolNext
<1>2. CASE CreateRollback(r) \/ RejectRollback(r) \/ PreviewTermination(r)
  <2>1. /\ UNCHANGED <<cursor, lock, error>>
        /\ \/ status' = status
           \/ status[r] = "absent" /\ status' = [status EXCEPT ![r] = "pending"]
        BY <1>2 DEF CreateRollback, RejectRollback, PreviewTermination, rowVars
  <2>2. \A q \in Run : PhaseOf(status'[q], error'[q]) = PhaseOf(status[q], error[q])
        BY <2>1 DEF PhaseOf, Active, Terminal, TypeInv, TypeOK
  <2> QED BY <2>1, <2>2, UnseenStep
<1>3. ASSUME /\ UNCHANGED <<cursor, lock, error>>
             /\ \A q \in Run : \/ status'[q] = status[q]
                               \/ status[q] \in Active /\ status'[q] \in Active
                               \/ error[q] # "none"
      PROVE  UNCHANGED Schools!schoolVars
  <2>1. \A q \in Run : PhaseOf(status'[q], error'[q]) = PhaseOf(status[q], error[q])
        BY <1>3 DEF PhaseOf
  <2> QED BY <1>3, <2>1, UnseenStep
<1>4. ASSUME NEW q \in loaded[r], ApproveTermination(r, q) \/ \E d \in Outcome : DecideGate(r, q, d)
      PROVE  UNCHANGED Schools!schoolVars
  <2>1. UNCHANGED <<cursor, lock, error>>
        BY <1>4 DEF ApproveTermination, DecideGate
  <2>2. \/ status' = status
        \/ /\ status' = [status EXCEPT ![r] = "running"]
           /\ status[r] \in Active \/ (status[r] = "failed" /\ error[r] # "none")
        BY <1>4, DecisionWakes
  <2> QED BY <1>3, <2>1, <2>2 DEF Active, TypeInv, TypeOK
<1>5. ASSUME \/ \E c \in confirming[r] : ResumeAfterClarification(r, c)
             \/ \E c \in deciding[r], d \in Outcome : ResumeAfterApproval(r, c, d)
      PROVE  UNCHANGED Schools!schoolVars
      BY <1>3, <1>5 DEF ResumeAfterClarification, ResumeAfterApproval, Active, TypeInv, TypeOK
<1>6. ASSUME \/ \E x \in gates[r] : LoadForDecision(r, x)
             \/ \E k \in Clarification : InterpretClarification(r, k) \/ ConfirmClarification(r, k)
             \/ \E g \in Group : DecideGroup(r, g)
      PROVE  UNCHANGED Schools!schoolVars
      BY <1>3, <1>6 DEF LoadForDecision, InterpretClarification, ConfirmClarification, DecideGroup,
                        rowVars
<1> QED BY <1>1, <1>2, <1>4, <1>5, <1>6 DEF Operator

\* Every step is a step for the school, or is not seen by it.
LEMMA StepRefines ==
    TypeInv /\ SafeInv /\ [Next]_vars => [Schools!SchoolNext]_(Schools!schoolVars)
<1> SUFFICES ASSUME TypeInv, SafeInv, [Next]_vars
             PROVE  Schools!SchoolNext \/ UNCHANGED Schools!schoolVars
    OBVIOUS
<1>1. UNCHANGED rowVars => UNCHANGED Schools!schoolVars
      BY UnseenStep DEF rowVars
<1>2. ASSUME NEW w \in Worker, NEW r \in Run, Claim(w, r) PROVE UNCHANGED Schools!schoolVars
      BY <1>1, <1>2 DEF Claim
<1>3. ASSUME NEW w \in Worker, Work(w)
      PROVE  Schools!SchoolNext \/ UNCHANGED Schools!schoolVars
      BY <1>1, <1>3, QuietWork, CommitRefines, ConstantsAssumption
<1>4. CASE Fault
      BY <1>1, <1>4, QuietFault
<1>5. ASSUME NEW r \in Run, Operator(r)
      PROVE  Schools!SchoolNext \/ UNCHANGED Schools!schoolVars
      BY <1>5, OperatorRefines, ConstantsAssumption
<1>6. CASE UNCHANGED vars
      BY <1>1, <1>6 DEF vars, rowVars
<1> QED BY <1>2, <1>3, <1>4, <1>5, <1>6 DEF Next

\* The controlled runtime implements SchoolRuns: one run at a time works for a
\* school, walks one transition at a time, ends once and gives the school back.
THEOREM RunsServeSchools == Spec => RefinesSchoolRuns
<1>1. Init => Schools!SchoolInit
      BY SchoolsInit, ConstantsAssumption
<1>2. TypeInv /\ SafeInv /\ [Next]_vars => [Schools!SchoolNext]_(Schools!schoolVars)
      BY StepRefines
<1> QED BY <1>1, <1>2, Safe, PTL DEF Spec, RefinesSchoolRuns, Schools!SchoolSpec
=============================================================================
