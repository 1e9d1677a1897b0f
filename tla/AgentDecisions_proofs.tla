------------------------ MODULE AgentDecisions_proofs ------------------------
EXTENDS AgentGraph_proofs

(* Every transition carries out a recorded decision, for every value of the *)
(* constants.  DecisionInv follows a candidate action from the node that    *)
(* offers it through the freeze and the decision to the commit: at the      *)
(* current cursor there is one frozen action, every worker past its freeze  *)
(* carries it (or the termination action), and whoever executes it finds    *)
(* its decision recorded.  A cursor never comes back, so workers of an      *)
(* earlier cursor need not agree with anything.                             *)

New == {"absent", "pending"}

\* The worker's cursor still is its run's.
Current(w) == cursor[ctx[w].run] = ctx[w].cursor

Offers(r, n) == ActionsAt(VersionOf[r], n) \cup {TerminateAction}

\* A run that was not started has walked nowhere, and what is frozen at a cursor
\* is an action that the run's node offers.
RunFollowsGraph(r) ==
    /\ status[r] \in New =>
           cursor[r] = 0 /\ node[r] = InitialNode(VersionOf[r]) /\ frozen[r] = NoAction
    /\ frozen[r] \in Offers(r, node[r]) \cup {NoAction}

PastFreeze == {"decide", "insert", "execute", "commit"}

WorkerFollowsDecision(w) ==
    LET r == ctx[w].run
    IN  /\ ctx[w].pc \in Acting => ctx[w].act \in Offers(r, ctx[w].node)
        /\ ctx[w].pc \in PastFreeze /\ Current(w) => ctx[w].act \in {frozen[r], TerminateAction}
        /\ ctx[w].pc \in {"execute", "commit"} /\ Current(w) /\ ctx[w].act # TerminateAction
               => ctx[w].cursor \in decided[r]

DecisionInv ==
    /\ \A r \in Run : RunFollowsGraph(r)
    /\ \A w \in Worker : WorkerFollowsDecision(w)

LEMMA DecisionInit == ASSUME ConstantsAssumption PROVE Init => DecisionInv
BY DEF Init, DecisionInv, RunFollowsGraph, WorkerFollowsDecision, IdleContext, Acting, PastFreeze

\* A step that leaves the graph state alone, and at most takes workers out of
\* the stages in which they carry an action.
LEMMA DecisionFrame ==
    ASSUME DecisionInv, UNCHANGED <<node, cursor, frozen>>,
           \A r \in Run : status'[r] \in New => status[r] \in New,
           \A r \in Run : decided[r] \subseteq decided'[r],
           \A w \in Worker : ctx[w].pc \in Acting => ctx[w].run \in Run,
           \A w \in Worker : ctx'[w] = ctx[w] \/ ctx'[w].pc \notin Acting
    PROVE  DecisionInv'
<1>1. ASSUME NEW r \in Run PROVE RunFollowsGraph(r)'
      BY <1>1 DEF DecisionInv, RunFollowsGraph, Offers
<1>2. ASSUME NEW w \in Worker PROVE WorkerFollowsDecision(w)'
  <2>1. CASE ctx'[w] = ctx[w]
        BY <1>2, <2>1 DEF DecisionInv, WorkerFollowsDecision, Offers, Current, Acting, PastFreeze
  <2>2. CASE ctx'[w].pc \notin Acting
        BY <2>2 DEF WorkerFollowsDecision, Acting, PastFreeze
  <2> QED BY <1>2, <2>1, <2>2
<1> QED BY <1>1, <1>2 DEF DecisionInv

\* The same for the steps of one worker that stays with its action.
LEMMA DecisionMove ==
    ASSUME TypeInv, DecisionInv, UNCHANGED <<status, node, cursor, frozen>>,
           \A r \in Run : decided[r] \subseteq decided'[r],
           NEW w \in Worker, \A v \in Worker \ {w} : ctx'[v] = ctx[v],
           ctx'[w].run = ctx[w].run, ctx'[w].node = ctx[w].node,
           ctx'[w].cursor = ctx[w].cursor,
           WorkerFollowsDecision(w)'
    PROVE  DecisionInv'
<1>1. ASSUME NEW r \in Run PROVE RunFollowsGraph(r)'
      BY <1>1 DEF DecisionInv, RunFollowsGraph, Offers
<1>2. ASSUME NEW v \in Worker, v # w PROVE WorkerFollowsDecision(v)'
  <2>1. ctx'[v] = ctx[v] /\ (ctx[v].pc \in Acting => ctx[v].run \in Run)
        BY <1>2 DEF TypeInv, ActionChosen, Busy, Acting
  <2> QED BY <1>2, <2>1 DEF DecisionInv, WorkerFollowsDecision, Offers, Current, Acting, PastFreeze
<1> QED BY <1>1, <1>2 DEF DecisionInv

\* Where the action comes from: the termination flag, the frozen candidate set
\* of an earlier attempt, or the candidate provider.
LEMMA DecisionChoose ==
    ASSUME ConstantsAssumption, TypeInv, SafeInv, DecisionInv, NEW w \in Worker,
           BeginTermination(w) \/ BeginReplay(w) \/ BeginFresh(w) \/ Evaluate(w)
    PROVE  DecisionInv'
<1> DEFINE r == ctx[w].run
<1>1. /\ UNCHANGED <<status, node, cursor, frozen, decided>>
      /\ ctx[w].pc \in {"claimed", "evaluate"}
      BY DEF BeginTermination, BeginReplay, BeginFresh, Evaluate, rowVars, stepVars
<1>2. r \in Run /\ Busy(w) /\ ctx \in [Worker -> Context] /\ VersionOf[r] \in GraphVersion
      BY <1>1 DEF TypeInv, TypeOK, ActionChosen, Busy, ConstantsAssumption
<1>3. ASSUME NEW p \in Pc, NEW a \in Action, GotoWith(w, p, a), a \in Offers(r, ctx[w].node),
             p = "freeze" \/ (p = "execute" /\ a = TerminateAction)
      PROVE  DecisionInv'
  <2>1. /\ \A v \in Worker \ {w} : ctx'[v] = ctx[v]
        /\ ctx'[w].pc = p /\ ctx'[w].act = a
        /\ ctx'[w].run = r /\ ctx'[w].node = ctx[w].node /\ ctx'[w].cursor = ctx[w].cursor
        BY <1>2, <1>3, GotoWithEffect
  <2>2. WorkerFollowsDecision(w)'
        BY <1>1, <1>3, <2>1 DEF WorkerFollowsDecision, Offers, PastFreeze
  <2> QED BY <1>1, <2>1, <2>2, DecisionMove
<1>4. CASE BeginTermination(w)
      BY <1>3, <1>4, TerminateIsAction DEF BeginTermination, Offers, Pc
<1>5. CASE BeginReplay(w)
  <2>1. /\ GotoWith(w, "freeze", frozen[r]) /\ frozen[r] # NoAction
        /\ cursor[r] = ctx[w].cursor
        BY <1>5 DEF BeginReplay
  <2>2. node[r] = ctx[w].node
        BY <1>2, <2>1 DEF SafeInv, HoldInv, ClaimIsPast
  <2>3. frozen[r] \in Action /\ frozen[r] \in Offers(r, ctx[w].node)
        BY <1>2, <2>1, <2>2 DEF TypeInv, TypeOK, DecisionInv, RunFollowsGraph
  <2> QED BY <1>3, <2>1, <2>3 DEF Pc
<1>6. CASE BeginFresh(w)
  <2>1. \A v \in Worker \ {w} : ctx'[v] = ctx[v]
        BY <1>6 DEF BeginFresh, Goto, TypeInv, TypeOK
  <2>2. ctx'[w].pc = "evaluate"
        BY <1>2, <1>6, GotoEffect DEF BeginFresh, Pc
  <2> QED BY <1>1, <2>1, <2>2, DecisionFrame DEF Acting, TypeInv, ActionChosen, Busy
<1>7. CASE Evaluate(w)
  <2>1. PICK a \in Offered(r, ctx[w].node) : GotoWith(w, "freeze", a)
        BY <1>7 DEF Evaluate
  <2>2. a \in Offers(r, ctx[w].node) /\ a \in Action
        BY <1>2, <2>1, OfferedAreActions, ActionsAtAreActions, TerminateIsAction DEF Offers
  <2> QED BY <1>3, <2>1, <2>2 DEF Pc
<1> QED BY <1>4, <1>5, <1>6, <1>7

\* The first worker to freeze at a cursor fixes the action for all of them.
LEMMA DecisionFreeze ==
    ASSUME ConstantsAssumption, TypeInv, SafeInv, DecisionInv, NEW w \in Worker, Freeze(w)
    PROVE  DecisionInv'
<1> DEFINE r == ctx[w].run
           a == ctx[w].act
<1>1. /\ ctx[w].pc = "freeze" /\ Fresh(w) /\ frozen[r] \in {NoAction, a}
      /\ frozen' = [frozen EXCEPT ![r] = a]
      /\ UNCHANGED <<status, node, cursor, decided>>
      BY DEF Freeze, rowVars
<1>2. r \in Run /\ a \in Action /\ a \in Offers(r, node[r]) /\ ctx \in [Worker -> Context]
      BY <1>1 DEF TypeInv, TypeOK, ActionChosen, Busy, Acting, Fresh, DecisionInv,
                  WorkerFollowsDecision
<1>3. /\ frozen'[r] = a
      /\ \A q \in Run \ {r} : frozen'[q] = frozen[q]
      BY <1>1, <1>2 DEF TypeInv, TypeOK
<1>4. /\ \A v \in Worker \ {w} : ctx'[v] = ctx[v]
      /\ ctx'[w].pc \in {"execute", "decide"} /\ ctx'[w].act = a
      /\ ctx'[w].pc = "execute" => cursor[r] \in decided[r]
      /\ ctx'[w].run = r /\ ctx'[w].node = ctx[w].node /\ ctx'[w].cursor = ctx[w].cursor
      BY <1>2, GotoEffect DEF Freeze, Pc
<1>5. ASSUME NEW q \in Run PROVE RunFollowsGraph(q)'
  <2>1. CASE q = r
    <3>1. status[r] \notin New
          BY <1>1 DEF SafeInv, HoldInv, ClaimIsPast, Busy, New
    <3> QED BY <1>1, <1>2, <1>3, <2>1, <3>1 DEF RunFollowsGraph, Offers
  <2>2. CASE q # r
        BY <1>1, <1>3, <1>5, <2>2 DEF DecisionInv, RunFollowsGraph, Offers
  <2> QED BY <2>1, <2>2
<1>6. ASSUME NEW v \in Worker PROVE WorkerFollowsDecision(v)'
  <2>1. CASE v = w
        BY <1>1, <1>2, <1>3, <1>4, <2>1
           DEF WorkerFollowsDecision, Offers, Current, Fresh, Acting, PastFreeze
  <2>2. CASE v # w
    <3>1. /\ ctx'[v] = ctx[v] /\ WorkerFollowsDecision(v)
          /\ ctx[v].pc \in Acting => ctx[v].act \in Action /\ ctx[v].run \in Run
          BY <1>4, <1>6, <2>2 DEF DecisionInv, TypeInv, ActionChosen, Busy, Acting
    <3>2. CASE ctx[v].pc \in PastFreeze /\ Current(v) /\ ctx[v].run = r
      <4>1. ctx[v].act \in {frozen[r], TerminateAction} /\ ctx[v].act # NoAction
            BY <3>1, <3>2, ActionsAreReal DEF WorkerFollowsDecision, Acting, PastFreeze
      <4>2. ctx[v].act \in {a, TerminateAction}
            BY <1>1, <4>1
      <4> QED BY <1>1, <1>3, <3>1, <3>2, <4>2 DEF WorkerFollowsDecision, Offers, Current
    <3>3. CASE ~(ctx[v].pc \in PastFreeze /\ Current(v)) \/ ctx[v].run # r
          BY <1>1, <1>3, <3>1, <3>3
             DEF WorkerFollowsDecision, Offers, Current, Acting, PastFreeze
    <3> QED BY <3>2, <3>3
  <2> QED BY <2>1, <2>2
<1> QED BY <1>5, <1>6 DEF DecisionInv

\* Recording the decision, and carrying the action on to its commit.
LEMMA DecisionCarry ==
    ASSUME ConstantsAssumption, TypeInv, DecisionInv, NEW w \in Worker,
           \/ DecideRead(w) \/ DecideInsert(w)
           \/ ctx[w].pc = "execute" /\ UNCHANGED <<rowVars, stepVars>>
                /\ \E b \in BOOLEAN : Executed(w, b)
    PROVE  DecisionInv'
<1> DEFINE r == ctx[w].run
<1>1. /\ UNCHANGED <<status, node, cursor, frozen>>
      /\ ctx[w].pc \in PastFreeze
      BY DEF DecideRead, DecideInsert, rowVars, stepVars, PastFreeze
<1>2. r \in Run /\ ctx \in [Worker -> Context]
      BY <1>1 DEF TypeInv, TypeOK, ActionChosen, Busy, PastFreeze
<1>3. \A q \in Run : decided[q] \subseteq decided'[q]
  <2>1. CASE DecideInsert(w)
        BY <2>1 DEF DecideInsert, TypeInv, TypeOK
  <2>2. CASE DecideRead(w) \/ UNCHANGED <<rowVars, stepVars>>
        BY <2>2 DEF DecideRead, stepVars
  <2> QED BY <2>1, <2>2
<1>4. /\ \A v \in Worker \ {w} : ctx'[v] = ctx[v]
      /\ ctx'[w].act = ctx[w].act
      /\ ctx'[w].run = r /\ ctx'[w].node = ctx[w].node /\ ctx'[w].cursor = ctx[w].cursor
      /\ ctx'[w].pc \in PastFreeze
      /\ ctx'[w].pc \in {"execute", "commit"} =>
             ctx[w].pc = "execute" \/ ctx[w].cursor \in decided'[r]
  <2>1. CASE DecideRead(w)
        BY <1>2, <2>1, GotoEffect DEF DecideRead, Pc, PastFreeze
  <2>2. CASE DecideInsert(w)
    <3>1. ctx[w].cursor \in decided'[r]
          BY <1>2, <2>2 DEF DecideInsert, TypeInv, TypeOK
    <3> QED BY <1>2, <2>2, <3>1, GotoEffect DEF DecideInsert, Pc, PastFreeze
  <2>3. CASE ctx[w].pc = "execute" /\ \E b \in BOOLEAN : Executed(w, b)
        BY <1>2, <2>3, ExecutedEffect DEF PastFreeze
  <2> QED BY <2>1, <2>2, <2>3
<1>5. WorkerFollowsDecision(w)
      BY DEF DecisionInv
<1>6. WorkerFollowsDecision(w)'
      BY <1>1, <1>2, <1>3, <1>4, <1>5
         DEF WorkerFollowsDecision, Offers, Current, Acting, PastFreeze
<1> QED BY <1>1, <1>2, <1>3, <1>4, <1>6, DecisionMove

\* A commit takes its cursor away from everybody who worked at it.
LEMMA DecisionAdvance ==
    ASSUME ConstantsAssumption, TypeInv, SafeInv, DecisionInv, NEW w \in Worker, Finish(w),
           NEW n \in Node, Advance(ctx[w].run, n), decided' = decided,
           NEW s \in Active \cup Terminal, status' = [status EXCEPT ![ctx[w].run] = s]
    PROVE  DecisionInv'
<1> DEFINE r == ctx[w].run
<1>1. /\ r \in Run
      /\ \A v \in Worker : Busy(v)' => Busy(v) /\ v # w /\ ctx'[v] = ctx[v]
      BY FinishFacts
<1>2. /\ \A q \in Run \ {r} : /\ status'[q] = status[q] /\ node'[q] = node[q]
                              /\ cursor'[q] = cursor[q] /\ frozen'[q] = frozen[q]
      /\ status'[r] = s /\ cursor'[r] = cursor[r] + 1 /\ cursor[r] \in Nat /\ frozen'[r] = NoAction
      BY <1>1 DEF Advance, TypeInv, TypeOK
<1>3. ASSUME NEW q \in Run PROVE RunFollowsGraph(q)'
      BY <1>2, <1>3 DEF DecisionInv, RunFollowsGraph, Offers, New, Active, Terminal
<1>4. ASSUME NEW v \in Worker PROVE WorkerFollowsDecision(v)'
  <2>1. CASE ~Busy(v)'
        BY <2>1 DEF WorkerFollowsDecision, Busy, Acting, PastFreeze
  <2>2. CASE Busy(v)'
    <3>1. Busy(v) /\ ctx'[v] = ctx[v] /\ WorkerFollowsDecision(v) /\ ctx[v].run \in Run
          BY <1>1, <2>2 DEF DecisionInv, TypeInv, ActionChosen
    <3>2. ctx[v].run = r => ~Current(v)'
      <4>1. ctx[v].cursor <= cursor[ctx[v].run] /\ ctx[v].cursor \in Nat
            BY <3>1 DEF SafeInv, HoldInv, ClaimIsPast, TypeInv, TypeOK, Context
      <4> QED BY <1>2, <3>1, <4>1 DEF Current
    <3> QED BY <1>2, <3>1, <3>2 DEF WorkerFollowsDecision, Offers, Current
  <2> QED BY <2>1, <2>2
<1> QED BY <1>3, <1>4 DEF DecisionInv

LEMMA DecisionCommit ==
    ASSUME ConstantsAssumption, TypeInv, SafeInv, DecisionInv, NEW w \in Worker,
           CommitStep(w) \/ CommitTerminal(w) \/ BlockModelFailure(w) \/
           FailActionContract(w) \/ FailPersistenceContract(w)
    PROVE  DecisionInv'
<1> DEFINE r == ctx[w].run
<1>1. CASE CommitStep(w)
  <2>1. Finish(w) /\ Advance(r, ctx[w].act.to) /\ decided' = decided
        BY <1>1 DEF CommitStep
  <2>2. ctx[w].act.to \in Node
        BY <1>1, ActionLeadsToNode DEF CommitStep, TypeInv, ActionChosen, Acting
  <2>3. status[r] \in Active
        BY <2>1, FinishFacts
  <2>4. \E s \in Active : status' = [status EXCEPT ![r] = s]
        BY <1>1, <2>3 DEF CommitStep, Active
  <2> QED BY <2>1, <2>2, <2>4, DecisionAdvance
<1>2. CASE CommitTerminal(w)
  <2>1. Finish(w) /\ Advance(r, "terminal") /\ decided' = decided
        BY <1>2 DEF CommitTerminal
  <2>2. \E s \in Terminal : status' = [status EXCEPT ![r] = s]
        BY <1>2 DEF CommitTerminal, Terminal
  <2> QED BY <2>1, <2>2, FixedNodes, DecisionAdvance
<1>3. CASE BlockModelFailure(w)
  <2>1. /\ Finish(w) /\ Advance(r, "blocked_model_error") /\ decided' = decided
        /\ status' = [status EXCEPT ![r] = "blocked_model_error"]
        BY <1>3 DEF BlockModelFailure
  <2>2. "blocked_model_error" \in Active
        BY DEF Active
  <2> QED BY <2>1, <2>2, FixedNodes, DecisionAdvance
<1>4. CASE FailActionContract(w) \/ FailPersistenceContract(w)
  <2>1. /\ Finish(w) /\ UNCHANGED <<node, cursor, stepVars>>
        /\ status' = [status EXCEPT ![r] = "failed"]
        BY <1>4 DEF FailActionContract, FailPersistenceContract, FailRun
  <2>2. \A v \in Worker : ctx'[v] = ctx[v] \/ ctx'[v].pc \notin Acting
        BY <2>1, FinishFacts DEF Busy, Acting
  <2>3. \A q \in Run : status'[q] \in New => status[q] \in New
        BY <2>1 DEF New, TypeInv, TypeOK
  <2> QED BY <2>1, <2>2, <2>3, DecisionFrame DEF stepVars, TypeInv, ActionChosen, Busy, Acting
<1> QED BY <1>1, <1>2, <1>3, <1>4

\* Nobody works for a run that has not been started.
LEMMA DecisionTake ==
    ASSUME ConstantsAssumption, TypeInv, SafeInv, DecisionInv, NEW r \in Run,
           status[r] \in New, TakeSchool(r), UNCHANGED <<stepVars, ctx>>
    PROVE  DecisionInv'
<1>1. /\ \A q \in Run \ {r} : status'[q] = status[q] /\ node'[q] = node[q] /\ cursor'[q] = cursor[q]
      /\ status'[r] = "running"
      BY DEF TakeSchool, TypeInv, TypeOK
<1>2. ASSUME NEW q \in Run PROVE RunFollowsGraph(q)'
      BY <1>1, <1>2 DEF DecisionInv, RunFollowsGraph, Offers, New, stepVars
<1>3. ASSUME NEW v \in Worker PROVE WorkerFollowsDecision(v)'
  <2>1. Busy(v) => ctx[v].run \in Run \ {r}
        BY <1>3 DEF SafeInv, HoldInv, ClaimIsPast, TypeInv, ActionChosen, New
  <2>2. ctx[v].pc \in Acting => Busy(v)
        BY DEF Acting, Busy
  <2> QED BY <1>1, <1>3, <2>1, <2>2
          DEF DecisionInv, WorkerFollowsDecision, Offers, Current, Acting, PastFreeze, stepVars
<1> QED BY <1>2, <1>3 DEF DecisionInv

\* Operators record gates and wake runs; they never touch the graph state of a
\* run that has been started.
LEMMA DecisionApi ==
    ASSUME ConstantsAssumption, TypeInv, SafeInv, DecisionInv, NEW r \in Run, Operator(r)
    PROVE  DecisionInv'
<1>1. CASE Start(r) \/ ConfirmRollback(r)
  <2>1. TakeSchool(r) /\ UNCHANGED <<stepVars, ctx>> /\ status[r] \in New
        BY <1>1 DEF Start, ConfirmRollback, New
  <2> QED BY <2>1, DecisionTake
<1>2. ASSUME UNCHANGED <<node, cursor, stepVars, ctx>>,
             \A q \in Run : status'[q] \in New => status[q] \in New
      PROVE  DecisionInv'
      BY <1>2, DecisionFrame DEF stepVars, TypeInv, ActionChosen, Busy, Acting
<1>3. CASE CreateRollback(r) \/ RejectRollback(r) \/ PreviewTermination(r)
  <2>1. UNCHANGED <<node, cursor, stepVars, ctx>>
        BY <1>3 DEF CreateRollback, RejectRollback, PreviewTermination, rowVars
  <2>2. \A q \in Run : status'[q] \in New => status[q] \in New
        BY <1>3 DEF CreateRollback, RejectRollback, PreviewTermination, rowVars, TypeInv, TypeOK, New
  <2> QED BY <1>2, <2>1, <2>2
<1>4. ASSUME NEW x \in gates[r], LoadForDecision(r, x) PROVE DecisionInv'
      BY <1>2, <1>4 DEF LoadForDecision, rowVars
<1>5. ASSUME NEW q \in loaded[r],
             ApproveTermination(r, q) \/ \E d \in Outcome : DecideGate(r, q, d)
      PROVE  DecisionInv'
  <2>1. UNCHANGED <<node, cursor, stepVars, ctx>>
        BY <1>5 DEF ApproveTermination, DecideGate
  <2>2. status' = status \/ status' = [status EXCEPT ![r] = "running"]
        BY <1>5, DecisionWakes
  <2> QED BY <1>2, <2>1, <2>2 DEF TypeInv, TypeOK, New
<1>6. ASSUME \/ \E k \in Clarification : InterpretClarification(r, k) \/ ConfirmClarification(r, k)
             \/ \E g \in Group : DecideGroup(r, g)
      PROVE  DecisionInv'
      BY <1>2, <1>6 DEF InterpretClarification, ConfirmClarification, DecideGroup, rowVars
<1>7. ASSUME \/ \E c \in confirming[r] : ResumeAfterClarification(r, c)
             \/ \E c \in deciding[r], d \in Outcome : ResumeAfterApproval(r, c, d)
      PROVE  DecisionInv'
  <2>1. UNCHANGED <<node, cursor, stepVars, ctx>>
        BY <1>7 DEF ResumeAfterClarification, ResumeAfterApproval
  <2>2. \A q \in Run : status'[q] \in New => status[q] \in New
        BY <1>7 DEF ResumeAfterClarification, ResumeAfterApproval, TypeInv, TypeOK, New
  <2> QED BY <1>2, <2>1, <2>2
<1> QED BY <1>1, <1>3, <1>4, <1>5, <1>6, <1>7 DEF Operator

\* Every executor carries its action to the commit, or drops it.
LEMMA ExecutingCarries ==
    ASSUME TypeInv, NEW w \in Worker, Execute(w)
    PROVE  /\ UNCHANGED <<rowVars, stepVars>> /\ Busy(w)
           /\ \/ ctx[w].pc = "execute" /\ \E b \in BOOLEAN : Executed(w, b)
              \/ Goto(w, "block") \/ Goto(w, "reject") \/ Quit(w)
<1>1. CASE ModelFails(w) \/ ExecutorRejects(w)
      BY <1>1 DEF ModelFails, ExecutorRejects, Busy
<1>2. CASE ExecuteOther(w) \/ BuildIdentityIndex(w) \/ OpenIdentityConflictGate(w) \/ AggregateRisk(w)
      BY <1>2 DEF ExecuteOther, BuildIdentityIndex, OpenIdentityConflictGate, AggregateRisk, Executing, Busy
<1>3. CASE CompileExecutionPlan(w) \/ PreflightPassed(w) \/ PreflightStale(w) \/ GenerateReport(w)
      BY <1>3 DEF CompileExecutionPlan, PreflightPassed, PreflightStale, GenerateReport, Executing, Busy
<1>4. CASE AssessRollback(w) \/ EnterRollbackApproval(w) \/ CompileRollback(w) \/ ExecuteRollback(w)
      BY <1>4 DEF AssessRollback, EnterRollbackApproval, CompileRollback, ExecuteRollback, Executing, Busy
<1>5. CASE ExecuteGovernance(w)
      BY <1>5 DEF ExecuteGovernance, Executing, Busy
<1> QED BY <1>1, <1>2, <1>3, <1>4, <1>5 DEF Execute

\* A worker that drops its action, or its claim.
LEMMA DecisionDrop ==
    ASSUME TypeInv, DecisionInv, NEW w \in Worker, UNCHANGED <<rowVars, stepVars>>,
           (\E p \in Pc \ Acting : Goto(w, p)) \/ Quit(w)
    PROVE  DecisionInv'
<1>1. /\ \A v \in Worker \ {w} : ctx'[v] = ctx[v]
      /\ ctx'[w].pc \notin Acting
  <2>1. CASE \E p \in Pc \ Acting : Goto(w, p)
        BY <2>1, GotoEffect DEF TypeInv, TypeOK
  <2>2. CASE Quit(w)
        BY <2>2, QuitEffect DEF TypeInv, TypeOK, IdleContext, Acting
  <2> QED BY <2>1, <2>2
<1> QED BY <1>1, DecisionFrame DEF rowVars, stepVars, TypeInv, ActionChosen, Busy, Acting

LEMMA DecisionWork ==
    ASSUME ConstantsAssumption, TypeInv, SafeInv, DecisionInv, NEW w \in Worker, Work(w)
    PROVE  DecisionInv'
<1>1. CASE BeginTermination(w) \/ BeginReplay(w) \/ BeginFresh(w) \/ Evaluate(w)
      BY <1>1, DecisionChoose
<1>2. CASE Freeze(w)
      BY <1>2, DecisionFreeze
<1>3. CASE DecideRead(w) \/ DecideInsert(w)
      BY <1>3, DecisionCarry
<1>4. CASE Execute(w)
  <2>1. CASE ctx[w].pc = "execute" /\ \E b \in BOOLEAN : Executed(w, b)
        BY <1>4, <2>1, ExecutingCarries, DecisionCarry
  <2>2. CASE Goto(w, "block") \/ Goto(w, "reject") \/ Quit(w)
        BY <1>4, <2>2, ExecutingCarries, DecisionDrop DEF Pc, Acting
  <2> QED BY <1>4, <2>1, <2>2, ExecutingCarries
<1>5. CASE DecideDuplicate(w) \/ Abandon(w) \/ CommitRejected(w) \/ HandlerStale(w) \/ LoseClaim(w)
  <2>1. UNCHANGED <<rowVars, stepVars>> /\ (Goto(w, "persist") \/ Goto(w, "reject") \/ Quit(w))
        BY <1>5 DEF DecideDuplicate, Abandon, CommitRejected, HandlerStale, LoseClaim
  <2> QED BY <2>1, DecisionDrop DEF Pc, Acting
<1>6. CASE \/ CommitStep(w) \/ CommitTerminal(w) \/ BlockModelFailure(w)
           \/ FailActionContract(w) \/ FailPersistenceContract(w)
      BY <1>6, DecisionCommit
<1> QED BY <1>1, <1>2, <1>3, <1>4, <1>5, <1>6 DEF Work

LEMMA DecisionStep == TypeInv /\ SafeInv /\ DecisionInv /\ [Next]_vars => DecisionInv'
<1> SUFFICES ASSUME TypeInv, SafeInv, DecisionInv, [Next]_vars PROVE DecisionInv'
    OBVIOUS
<1>0. \A w \in Worker : ctx[w].pc \in Acting => ctx[w].run \in Run
      BY DEF TypeInv, ActionChosen, Busy, Acting
<1>1. CASE UNCHANGED vars
      BY <1>0, <1>1, DecisionFrame DEF vars, rowVars, stepVars
<1>2. ASSUME NEW w \in Worker, NEW r \in Run, Claim(w, r) PROVE DecisionInv'
  <2>1. /\ \A v \in Worker \ {w} : ctx'[v] = ctx[v]
        /\ ctx'[w].pc \notin Acting
        BY <1>2 DEF Claim, TypeInv, TypeOK, Acting
  <2> QED BY <1>0, <1>2, <2>1, DecisionFrame DEF Claim, rowVars, stepVars
<1>3. ASSUME NEW w \in Worker, Work(w) PROVE DecisionInv'
      BY <1>3, DecisionWork, ConstantsAssumption
<1>4. CASE Fault
  <2>1. ASSUME NEW w \in Worker, Crash(w) \/ TransientError(w) PROVE DecisionInv'
        BY <2>1, DecisionDrop DEF Crash, TransientError
  <2>2. ASSUME UNCHANGED <<rowVars, stepVars, ctx>> PROVE DecisionInv'
        BY <1>0, <2>2, DecisionFrame DEF rowVars, stepVars
  <2> QED BY <1>4, <2>1, <2>2 DEF Fault, Heartbeat, LeaseExpire, TargetMoves
<1>5. ASSUME NEW r \in Run, Operator(r) PROVE DecisionInv'
      BY <1>5, DecisionApi, ConstantsAssumption
<1> QED BY <1>1, <1>2, <1>3, <1>4, <1>5 DEF Next

\* The inductive invariant of the walk through the graph.
LEMMA Decisions == Spec => [](TypeInv /\ SafeInv /\ DecisionInv)
<1>1. Init => DecisionInv
      BY DecisionInit, ConstantsAssumption
<1>2. TypeInv /\ SafeInv /\ DecisionInv /\ [Next]_vars => DecisionInv'
      BY DecisionStep
<1> QED BY <1>1, <1>2, Safe, PTL DEF Spec

\* Workers that execute or commit at the same cursor carry out one frozen action,
\* the termination action excepted, whoever crashed or lost its claim before.
THEOREM AttemptsAgree == Spec => []SameActionPerCursor
<1>1. TypeInv /\ SafeInv /\ DecisionInv => SameActionPerCursor
      BY DEF DecisionInv, WorkerFollowsDecision, SameActionPerCursor, Current, PastFreeze
<1> QED BY <1>1, Decisions, PTL

-----------------------------------------------------------------------------
(* Transitions *)

\* One conjunct of TransitionsFollowDecisions.
FollowsDecision(r) ==
    cursor[r] >= 2 /\ cursor'[r] # cursor[r] =>
        /\ cursor'[r] = cursor[r] + 1
        /\ \/ node'[r] \in {"drain_current_atomic_unit", "blocked_model_error"}
           \/ /\ cursor[r] \in decided[r]
              /\ frozen[r].to = node'[r]
              /\ frozen[r] \in ActionsAt(VersionOf[r], node[r])

\* A commit carries out the action that was frozen and decided at its cursor.
LEMMA CommitFollowsDecision ==
    ASSUME ConstantsAssumption, TypeInv, SafeInv, DecisionInv, NEW w \in Worker,
           ctx[w].pc = "commit", Finish(w), Advance(ctx[w].run, ctx[w].act.to),
           NEW q \in Run
    PROVE  FollowsDecision(q)
<1> DEFINE r == ctx[w].run
           a == ctx[w].act
<1>1. r \in Run /\ Fresh(w)
      BY FinishFacts
<1>2. CASE q # r
      BY <1>1, <1>2 DEF Advance, FollowsDecision, TypeInv, TypeOK
<1>3. CASE q = r
  <2>1. cursor'[r] = cursor[r] + 1 /\ node'[r] = a.to
        BY <1>1 DEF Advance, TypeInv, TypeOK
  <2>2. Current(w) /\ node[r] = ctx[w].node /\ WorkerFollowsDecision(w)
        BY <1>1 DEF Fresh, Current, DecisionInv
  <2>3. CASE a = TerminateAction
        BY <1>3, <2>1, <2>3 DEF FollowsDecision, TerminateAction
  <2>4. CASE a # TerminateAction
    <3>1. a = frozen[r] /\ a \in ActionsAt(VersionOf[r], node[r]) /\ cursor[r] \in decided[r]
          BY <2>2, <2>4 DEF WorkerFollowsDecision, Offers, Acting, PastFreeze, Current
    <3> QED BY <1>3, <2>1, <3>1 DEF FollowsDecision
  <2> QED BY <2>3, <2>4
<1> QED BY <1>2, <1>3

LEMMA TransitionStep ==
    TypeInv /\ SafeInv /\ DecisionInv /\ [Next]_vars => [\A r \in Run : FollowsDecision(r)]_vars
<1> SUFFICES ASSUME TypeInv, SafeInv, DecisionInv, Next, NEW q \in Run PROVE FollowsDecision(q)
    OBVIOUS
<1>1. cursor' = cursor => FollowsDecision(q)
      BY DEF FollowsDecision
<1>2. ASSUME NEW w \in Worker, NEW r \in Run, Claim(w, r) PROVE FollowsDecision(q)
      BY <1>1, <1>2 DEF Claim, rowVars
<1>3. ASSUME NEW w \in Worker, Work(w) PROVE FollowsDecision(q)
  <2>1. CASE Execute(w)
        BY <1>1, <2>1, ExecutingCarries DEF rowVars
  <2>2. CASE CommitStep(w) \/ CommitTerminal(w)
    <3>1. ctx[w].pc = "commit" /\ Finish(w) /\ Advance(ctx[w].run, ctx[w].act.to)
          BY <2>2 DEF CommitStep, CommitTerminal
    <3> QED BY <3>1, CommitFollowsDecision, ConstantsAssumption
  <2>3. CASE BlockModelFailure(w)
    <3>1. Finish(w) /\ Advance(ctx[w].run, "blocked_model_error")
          BY <2>3 DEF BlockModelFailure
    <3>2. ctx[w].run \in Run
          BY <3>1, FinishFacts, ConstantsAssumption
    <3> QED BY <3>1, <3>2 DEF Advance, FollowsDecision, TypeInv, TypeOK
  <2>4. CASE FailActionContract(w) \/ FailPersistenceContract(w)
        BY <1>1, <2>4 DEF FailActionContract, FailPersistenceContract, FailRun
  <2>5. CASE \/ BeginTermination(w) \/ BeginReplay(w) \/ BeginFresh(w) \/ Evaluate(w)
             \/ Freeze(w) \/ DecideRead(w) \/ DecideInsert(w) \/ DecideDuplicate(w)
             \/ Abandon(w) \/ CommitRejected(w) \/ HandlerStale(w) \/ LoseClaim(w)
    <3>1. UNCHANGED rowVars
          BY <2>5 DEF BeginTermination, BeginReplay, BeginFresh, Evaluate, Freeze, DecideRead,
                 DecideInsert, DecideDuplicate, Abandon, CommitRejected, HandlerStale, LoseClaim
    <3> QED BY <1>1, <3>1 DEF rowVars
  <2> QED BY <1>3, <2>1, <2>2, <2>3, <2>4, <2>5 DEF Work
<1>4. CASE Fault
  <2>1. UNCHANGED rowVars
        BY <1>4 DEF Fault, Crash, TransientError, Heartbeat, LeaseExpire, TargetMoves
  <2> QED BY <1>1, <2>1 DEF rowVars
<1>5. ASSUME NEW r \in Run, Operator(r) PROVE FollowsDecision(q)
  <2>1. CASE Start(r) \/ ConfirmRollback(r)
    <3>1. TakeSchool(r) /\ status[r] \in New
          BY <2>1 DEF Start, ConfirmRollback, New
    <3>2. cursor[r] = 0
          BY <3>1 DEF DecisionInv, RunFollowsGraph
    <3> QED BY <3>1, <3>2 DEF TakeSchool, FollowsDecision, TypeInv, TypeOK
  <2>2. CASE ~(Start(r) \/ ConfirmRollback(r))
    <3>1. cursor' = cursor
          BY <1>5, <2>2 DEF Operator, CreateRollback, RejectRollback, PreviewTermination,
                 LoadForDecision, ApproveTermination, DecideGate, InterpretClarification,
                 ConfirmClarification, ResumeAfterClarification, DecideGroup,
                 ResumeAfterApproval, rowVars
    <3> QED BY <1>1, <3>1
  <2> QED BY <2>1, <2>2
<1> QED BY <1>2, <1>3, <1>4, <1>5 DEF Next

\* Every transition of a started run moves it one cursor further along an edge
\* that was frozen and decided there; only draining and blocking skip the decision.
THEOREM TransitionsAreDecided == Spec => TransitionsFollowDecisions
<1>1. TypeInv /\ SafeInv /\ DecisionInv /\ [Next]_vars => [\A r \in Run : FollowsDecision(r)]_vars
      BY TransitionStep
<1>2. [\A r \in Run : FollowsDecision(r)]_vars =>
          [\A r \in Run : cursor[r] >= 2 /\ cursor'[r] # cursor[r] =>
             /\ cursor'[r] = cursor[r] + 1
             /\ \/ node'[r] \in {"drain_current_atomic_unit", "blocked_model_error"}
                \/ /\ cursor[r] \in decided[r]
                   /\ frozen[r].to = node'[r]
                   /\ frozen[r] \in ActionsAt(VersionOf[r], node[r])]_vars
      BY DEF FollowsDecision
<1> QED BY <1>1, <1>2, Decisions, PTL DEF Spec, TransitionsFollowDecisions


-----------------------------------------------------------------------------
(* What any step of AgentGraph may do to one run or one worker.  The        *)
(* proofs about approvals, reports and gates argue about a run, a worker    *)
(* or a gate, and cite these summaries instead of the actions of Next.      *)

Idling(w) ==
    \/ BeginTermination(w) \/ BeginReplay(w) \/ BeginFresh(w) \/ Evaluate(w)
    \/ Freeze(w) \/ DecideRead(w) \/ DecideInsert(w) \/ DecideDuplicate(w)
    \/ Abandon(w) \/ CommitRejected(w) \/ HandlerStale(w) \/ LoseClaim(w)
    \/ Crash(w) \/ TransientError(w) \/ Heartbeat(w)

Ending(w) ==
    \/ CommitStep(w) \/ CommitTerminal(w) \/ BlockModelFailure(w)
    \/ FailActionContract(w) \/ FailPersistenceContract(w)

\* Every step is a claim, a step of a worker that writes no facts, an execution,
\* an ending, a change from outside or an operation of the API.
LEMMA StepKinds ==
    ASSUME Next
    PROVE  \/ \E w \in Worker, r \in Run : Claim(w, r)
           \/ \E w \in Worker : Idling(w) \/ Execute(w) \/ Ending(w)
           \/ \E r \in Run : LeaseExpire(r) \/ TargetMoves(r) \/ Operator(r)
BY DEF Next, Work, Fault, Idling, Ending

LEMMA IdlingWritesNothing ==
    ASSUME NEW w \in Worker, Idling(w)
    PROVE  UNCHANGED <<rowVars, humanVars, workVars, inspected, rounds>>
<1>1. CASE \/ BeginTermination(w) \/ BeginReplay(w) \/ BeginFresh(w) \/ Evaluate(w)
           \/ Freeze(w) \/ DecideRead(w) \/ DecideInsert(w) \/ DecideDuplicate(w)
      BY <1>1 DEF BeginTermination, BeginReplay, BeginFresh, Evaluate, Freeze, DecideRead,
             DecideInsert, DecideDuplicate, stepVars, boundVars
<1>2. CASE \/ Abandon(w) \/ CommitRejected(w) \/ HandlerStale(w) \/ LoseClaim(w)
           \/ Crash(w) \/ TransientError(w) \/ Heartbeat(w)
      BY <1>2 DEF Abandon, CommitRejected, HandlerStale, LoseClaim, Crash, TransientError,
             Heartbeat, stepVars, boundVars
<1> QED BY <1>1, <1>2 DEF Idling

LEMMA EndingWrites ==
    ASSUME NEW w \in Worker, Ending(w)
    PROVE  UNCHANGED <<humanVars, workVars, term>> /\ Finish(w)
BY DEF Ending, CommitStep, CommitTerminal, BlockModelFailure, FailActionContract,
       FailPersistenceContract, FailRun

LEMMA OutsideWrites ==
    ASSUME NEW r \in Run, LeaseExpire(r) \/ TargetMoves(r)
    PROVE  UNCHANGED <<rowVars, humanVars, stepVars, sealed, plan, applied, report, rounds, ctx>>
BY DEF LeaseExpire, TargetMoves, workVars

LEMMA ApiWrites ==
    ASSUME NEW r \in Run, Operator(r)
    PROVE  UNCHANGED <<workVars, stepVars, ctx>>
BY DEF Operator, Start, CreateRollback, ConfirmRollback, RejectRollback, PreviewTermination,
       LoadForDecision, ApproveTermination, DecideGate, InterpretClarification,
       ConfirmClarification, ResumeAfterClarification, DecideGroup, ResumeAfterApproval

LEMMA ClaimWrites ==
    ASSUME TypeInv, NEW w \in Worker, NEW r \in Run, Claim(w, r)
    PROVE  /\ UNCHANGED <<rowVars, stepVars, humanVars, workVars, boundVars>>
           /\ \A v \in Worker \ {w} : ctx'[v] = ctx[v]
           /\ ctx'[w].pc = "claimed" /\ ctx'[w].run = r /\ ctx'[w].node = node[r]
           /\ ctx'[w].cursor = cursor[r] /\ status[r] = "running"
BY DEF Claim, TypeInv, TypeOK

-----------------------------------------------------------------------------
(* A worker *)

\* The memory of a worker is changed by its own steps only.
LEMMA OwnSteps ==
    ASSUME TypeInv, SafeInv, Next, NEW v \in Worker
    PROVE  \/ ctx'[v] = ctx[v]
           \/ \E r \in Run : Claim(v, r)
           \/ Idling(v) \/ Execute(v) \/ Ending(v)
<1>1. ASSUME NEW w \in Worker, NEW r \in Run, Claim(w, r), w # v PROVE ctx'[v] = ctx[v]
      BY <1>1, ClaimWrites
<1>2. ASSUME NEW w \in Worker, Idling(w) \/ Execute(w) \/ Ending(w), w # v PROVE ctx'[v] = ctx[v]
  <2>1. CASE Idling(w)
    <3>1. \/ \E p : Goto(w, p)
          \/ \E p : \E a : GotoWith(w, p, a)
          \/ Quit(w)
          \/ ctx' = ctx
          BY <2>1 DEF Idling, BeginTermination, BeginReplay, BeginFresh, Evaluate, Freeze,
                 DecideRead, DecideInsert, DecideDuplicate, Abandon, CommitRejected,
                 HandlerStale, LoseClaim, Crash, TransientError, Heartbeat
    <3> QED BY <1>2, <3>1 DEF Goto, GotoWith, Quit, TypeInv, TypeOK
  <2>2. CASE Execute(w)
    <3>1. (\E b \in BOOLEAN : Executed(w, b)) \/ Goto(w, "block") \/ Goto(w, "reject") \/ Quit(w)
          BY <2>2, ExecutingCarries
    <3> QED BY <1>2, <3>1 DEF Goto, Executed, Quit, TypeInv, TypeOK
  <2>3. CASE Ending(w)
        BY <1>2, <2>3, EndingWrites DEF Finish, Quit, TypeInv, TypeOK
  <2> QED BY <1>2, <2>1, <2>2, <2>3
<1>3. ASSUME NEW r \in Run, LeaseExpire(r) \/ TargetMoves(r) \/ Operator(r) PROVE ctx'[v] = ctx[v]
      BY <1>3, OutsideWrites, ApiWrites
<1> QED BY <1>1, <1>2, <1>3, StepKinds

\* A worker keeps the place it claimed until it is idle again.
LEMMA PlaceIsKept ==
    ASSUME ConstantsAssumption, TypeInv, SafeInv, Next, NEW v \in Worker, Busy(v)'
    PROVE  \/ \E r \in Run : Claim(v, r)
           \/ /\ Busy(v)
              /\ ctx'[v].run = ctx[v].run /\ ctx'[v].node = ctx[v].node
              /\ ctx'[v].cursor = ctx[v].cursor
<1>0. ctx \in [Worker -> Context]
      BY DEF TypeInv, TypeOK
<1>1. CASE ctx'[v] = ctx[v]
      BY <1>1 DEF Busy
<1>2. Quit(v) => ~Busy(v)'
      BY <1>0, QuitEffect DEF Busy, IdleContext
<1>3. CASE Idling(v)
  <2>1. Busy(v)
        BY <1>3 DEF Idling, BeginTermination, BeginReplay, BeginFresh, Evaluate, Freeze,
               DecideRead, DecideInsert, DecideDuplicate, Abandon, Conflict, Executing,
               CommitRejected, HandlerStale, Handlers, LoseClaim, Crash, TransientError,
               Heartbeat, Fenced, Busy
  <2>2. CASE \/ BeginTermination(v) \/ BeginReplay(v) \/ BeginFresh(v) \/ Evaluate(v)
             \/ Freeze(v) \/ DecideRead(v) \/ DecideInsert(v) \/ DecideDuplicate(v)
             \/ CommitRejected(v)
    <3>1. \/ \E p \in Pc : Goto(v, p)
          \/ \E p \in Pc, a \in Action : GotoWith(v, p, a)
          \/ \E b \in BOOLEAN : Executed(v, b)
          BY <2>2, ChoosingMovesOn DEF MovesOn
    <3>2. CASE \E p \in Pc : Goto(v, p)
          BY <1>0, <2>1, <3>2, GotoEffect
    <3>3. CASE \E p \in Pc, a \in Action : GotoWith(v, p, a)
      <4>1. PICK p \in Pc : \E a \in Action : GotoWith(v, p, a)
            BY <3>3
      <4>2. PICK a \in Action : GotoWith(v, p, a)
            BY <4>1
      <4> QED BY <1>0, <2>1, <4>2, GotoWithEffect
    <3>4. CASE \E b \in BOOLEAN : Executed(v, b)
          BY <1>0, <2>1, <3>4, ExecutedEffect
    <3> QED BY <3>1, <3>2, <3>3, <3>4
  <2>3. CASE \/ Abandon(v) \/ HandlerStale(v) \/ LoseClaim(v) \/ Crash(v) \/ TransientError(v)
        BY <1>2, <2>3 DEF Abandon, HandlerStale, LoseClaim, Crash, TransientError
  <2>4. CASE Heartbeat(v)
        BY <2>1, <2>4 DEF Heartbeat
  <2> QED BY <1>3, <2>2, <2>3, <2>4 DEF Idling
<1>4. CASE Execute(v)
  <2>1. Busy(v) /\ \/ \E b \in BOOLEAN : Executed(v, b)
                   \/ Goto(v, "block") \/ Goto(v, "reject") \/ Quit(v)
        BY <1>4, ExecutingCarries
  <2>2. CASE \E b \in BOOLEAN : Executed(v, b)
        BY <1>0, <2>1, <2>2, ExecutedEffect
  <2>3. CASE Goto(v, "block") \/ Goto(v, "reject")
        BY <1>0, <2>1, <2>3, GotoEffect DEF Pc
  <2> QED BY <1>2, <2>1, <2>2, <2>3
<1>5. CASE Ending(v)
      BY <1>2, <1>5, EndingWrites DEF Finish
<1> QED BY <1>1, <1>3, <1>4, <1>5, OwnSteps

\* A worker that waits to commit was waiting before, or has just executed.
LEMMA CommitStage ==
    ASSUME ConstantsAssumption, TypeInv, SafeInv, Next, NEW v \in Worker, ctx'[v].pc = "commit"
    PROVE  \/ ctx'[v] = ctx[v]
           \/ /\ Execute(v) /\ ctx[v].pc = "execute"
              /\ ctx'[v].act = ctx[v].act /\ ctx'[v].run = ctx[v].run
              /\ ctx'[v].node = ctx[v].node /\ ctx'[v].cursor = ctx[v].cursor
              /\ \E b \in BOOLEAN : Executed(v, b)
<1>0. ctx \in [Worker -> Context]
      BY DEF TypeInv, TypeOK
<1>1. ASSUME NEW r \in Run, Claim(v, r) PROVE FALSE
      BY <1>1, ClaimWrites
<1>2. Quit(v) => ctx'[v].pc # "commit"
      BY <1>0, QuitEffect DEF IdleContext
<1>3. CASE Idling(v)
  <2>1. \/ \E p \in Pc \ {"commit"} : Goto(v, p)
        \/ \E p \in Pc \ {"commit"} : \E a : GotoWith(v, p, a)
        \/ Quit(v)
        \/ ctx' = ctx
        BY <1>3 DEF Idling, BeginTermination, BeginReplay, BeginFresh, Evaluate, Freeze,
               DecideRead, DecideInsert, DecideDuplicate, Abandon, CommitRejected,
               HandlerStale, LoseClaim, Crash, TransientError, Heartbeat, Pc
  <2>2. ASSUME NEW p \in Pc \ {"commit"}, Goto(v, p) \/ \E a : GotoWith(v, p, a) PROVE FALSE
    <3>1. ctx[v] \in Context
          BY <1>0
    <3>2. CASE Goto(v, p)
          BY <1>0, <2>2, <3>2, GotoEffect
    <3>3. CASE \E a : GotoWith(v, p, a)
      <4>1. PICK a : ctx'[v] = [ctx[v] EXCEPT !.pc = p, !.act = a]
            BY <1>0, <3>3 DEF GotoWith
      <4>2. ctx'[v].pc = p
            BY <3>1, <4>1 DEF Context
      <4> QED BY <2>2, <4>2
    <3> QED BY <2>2, <3>2, <3>3
  <2> QED BY <1>2, <2>1, <2>2
<1>4. CASE Execute(v)
  <2>1. \/ ctx[v].pc = "execute" /\ \E b \in BOOLEAN : Executed(v, b)
        \/ Goto(v, "block") \/ Goto(v, "reject") \/ Quit(v)
        BY <1>4, ExecutingCarries
  <2>2. ~Goto(v, "block") /\ ~Goto(v, "reject")
        BY <1>0, GotoEffect DEF Pc
  <2> QED BY <1>0, <1>2, <1>4, <2>1, <2>2, ExecutedEffect
<1>5. CASE Ending(v)
      BY <1>2, <1>5, EndingWrites DEF Finish
<1> QED BY <1>1, <1>3, <1>4, <1>5, OwnSteps

-----------------------------------------------------------------------------
(* A run *)

\* The run stays where it is: at most it is created, woken, ended by a failure, or
\* called running by a late decision after it has failed.
Stays(r) ==
    /\ node'[r] = node[r] /\ cursor'[r] = cursor[r]
    /\ \/ status'[r] = status[r]
       \/ status[r] = "absent" /\ status'[r] = "pending"
       \/ /\ status[r] \in {"waiting_human", "blocked_model_error"}
          /\ status'[r] = "running"
       \/ status[r] = "failed" /\ error[r] # "none" /\ status'[r] = "running"
       \/ status[r] \in Active /\ status'[r] = "failed"

Taken(r) ==
    /\ status[r] \in New /\ status'[r] = "running"
    /\ node'[r] = AfterLockNode(VersionOf[r]) /\ cursor'[r] = 2

\* A worker commits the action it carries.
Walked(r, w) ==
    /\ ctx[w].pc = "commit" /\ ctx[w].run = r
    /\ Fresh(w) /\ ~BadPause(w) /\ Finish(w) /\ UNCHANGED humanVars
    /\ cursor'[r] = cursor[r] + 1 /\ node'[r] = ctx[w].act.to
    /\ status[r] \in Active /\ error[r] = "none"
    /\ status'[r] = IF ctx[w].act.to = "terminal"
                    THEN IF term[r] THEN "terminated" ELSE "completed"
                    ELSE IF ctx[w].pause THEN "waiting_human" ELSE status[r]

BlockedBy(r, w) ==
    /\ ctx[w].run = r /\ Fresh(w) /\ Finish(w)
    /\ cursor'[r] = cursor[r] + 1 /\ node'[r] = "blocked_model_error"
    /\ status[r] \in Active /\ error[r] = "none" /\ status'[r] = "blocked_model_error"

LEMMA EndingOfRun ==
    ASSUME ConstantsAssumption, TypeInv, SafeInv, NEW w \in Worker, Ending(w), NEW q \in Run
    PROVE  Stays(q) \/ Walked(q, w) \/ BlockedBy(q, w)
<1> DEFINE r == ctx[w].run
<1>1. /\ r \in Run /\ Fresh(w) /\ Finish(w) /\ UNCHANGED humanVars
      /\ status[r] \in Active /\ error[r] = "none"
      BY EndingWrites, FinishFacts
<1>2. CASE CommitStep(w)
  <2>1. /\ Advance(r, ctx[w].act.to) /\ ctx[w].act.to # "terminal"
        /\ status' = [status EXCEPT ![r] = IF ctx[w].pause THEN "waiting_human" ELSE @]
        /\ ctx[w].pc = "commit" /\ ~BadPause(w)
        BY <1>2 DEF CommitStep
  <2> QED BY <1>1, <2>1 DEF Advance, Stays, Walked, TypeInv, TypeOK
<1>3. CASE CommitTerminal(w)
  <2>1. /\ Advance(r, "terminal") /\ ctx[w].act.to = "terminal"
        /\ status' = [status EXCEPT ![r] = IF term[r] THEN "terminated" ELSE "completed"]
        /\ ctx[w].pc = "commit" /\ ~BadPause(w)
        BY <1>3 DEF CommitTerminal
  <2> QED BY <1>1, <2>1 DEF Advance, Stays, Walked, TypeInv, TypeOK
<1>4. CASE BlockModelFailure(w)
  <2>1. /\ Advance(r, "blocked_model_error")
        /\ status' = [status EXCEPT ![r] = "blocked_model_error"]
        BY <1>4 DEF BlockModelFailure
  <2> QED BY <1>1, <2>1 DEF Advance, Stays, BlockedBy, TypeInv, TypeOK
<1>5. CASE FailActionContract(w) \/ FailPersistenceContract(w)
  <2>1. UNCHANGED <<node, cursor>> /\ status' = [status EXCEPT ![r] = "failed"]
        BY <1>5 DEF FailActionContract, FailPersistenceContract, FailRun
  <2> QED BY <1>1, <2>1 DEF Stays, TypeInv, TypeOK
<1> QED BY <1>2, <1>3, <1>4, <1>5 DEF Ending

LEMMA ApiOfRun ==
    ASSUME ConstantsAssumption, TypeInv, SafeInv, NEW r \in Run, Operator(r), NEW q \in Run
    PROVE  Stays(q) \/ Taken(q)
<1>1. CASE Start(r) \/ ConfirmRollback(r)
  <2>1. TakeSchool(r) /\ status[r] \in New
        BY <1>1 DEF Start, ConfirmRollback, New
  <2> QED BY <2>1 DEF TakeSchool, Stays, Taken, TypeInv, TypeOK
<1>2. CASE CreateRollback(r) \/ RejectRollback(r) \/ PreviewTermination(r)
  <2>1. /\ UNCHANGED <<node, cursor>>
        /\ \/ status' = status
           \/ status[r] = "absent" /\ status' = [status EXCEPT ![r] = "pending"]
        BY <1>2 DEF CreateRollback, RejectRollback, PreviewTermination, rowVars
  <2> QED BY <2>1 DEF Stays, TypeInv, TypeOK
<1>3. ASSUME UNCHANGED <<node, cursor>>,
             \A p \in Run : \/ status'[p] = status[p]
                            \/ /\ status[p] \in {"waiting_human", "blocked_model_error"}
                               /\ status'[p] = "running"
      PROVE  Stays(q)
      BY <1>3 DEF Stays
<1>4. ASSUME NEW x \in gates[r], LoadForDecision(r, x) PROVE Stays(q)
      BY <1>4 DEF LoadForDecision, rowVars, Stays
<1>5. ASSUME NEW c \in loaded[r],
             ApproveTermination(r, c) \/ \E d \in Outcome : DecideGate(r, c, d)
      PROVE  Stays(q)
  <2>1. UNCHANGED <<node, cursor>>
        BY <1>5 DEF ApproveTermination, DecideGate
  <2>2. \/ status' = status
        \/ /\ status' = [status EXCEPT ![r] = "running"]
           /\ status[r] \in Active \/ (status[r] = "failed" /\ error[r] # "none")
        BY <1>5, DecisionWakes
  <2> QED BY <2>1, <2>2 DEF Stays, Active, TypeInv, TypeOK
<1>6. ASSUME \/ \E k \in Clarification : InterpretClarification(r, k) \/ ConfirmClarification(r, k)
             \/ \E g \in Group : DecideGroup(r, g)
      PROVE  Stays(q)
      BY <1>6 DEF InterpretClarification, ConfirmClarification, DecideGroup, rowVars, Stays
<1>7. ASSUME \/ \E c \in confirming[r] : ResumeAfterClarification(r, c)
             \/ \E c \in deciding[r], d \in Outcome : ResumeAfterApproval(r, c, d)
      PROVE  Stays(q)
      BY <1>3, <1>7 DEF ResumeAfterClarification, ResumeAfterApproval, TypeInv, TypeOK
<1> QED BY <1>1, <1>2, <1>4, <1>5, <1>6, <1>7 DEF Operator

\* What one step does to the place of a run in its graph.
LEMMA RunStep ==
    ASSUME ConstantsAssumption, TypeInv, SafeInv, Next, NEW r \in Run
    PROVE  Stays(r) \/ Taken(r) \/ \E w \in Worker : Walked(r, w) \/ BlockedBy(r, w)
<1>1. UNCHANGED rowVars => Stays(r)
      BY DEF rowVars, Stays
<1>2. ASSUME NEW w \in Worker, Idling(w) \/ Execute(w) PROVE Stays(r)
      BY <1>1, <1>2, IdlingWritesNothing, ExecutingCarries
<1> QED BY <1>1, <1>2, StepKinds, ClaimWrites, EndingOfRun, OutsideWrites, ApiOfRun

\* Termination, once asked for, stays asked for.
LEMMA TermStays ==
    ASSUME TypeInv, Next, NEW r \in Run, term[r]
    PROVE  term'[r]
<1>1. UNCHANGED rowVars => term'[r]
      BY DEF rowVars
<1>2. ASSUME NEW w \in Worker, Idling(w) \/ Execute(w) \/ Ending(w) PROVE term'[r]
      BY <1>1, <1>2, IdlingWritesNothing, ExecutingCarries, EndingWrites
<1>3. ASSUME NEW q \in Run, Operator(q) PROVE term'[r]
  <2>1. \/ term' = term
        \/ \E b \in {TRUE, term[q]} : term' = [term EXCEPT ![q] = b]
        \/ \E b \in BOOLEAN : term' = [term EXCEPT ![q] = term[q] \/ b]
        BY <1>3 DEF Operator, Start, CreateRollback, ConfirmRollback, RejectRollback,
               PreviewTermination, LoadForDecision, ApproveTermination, DecideGate,
               InterpretClarification, ConfirmClarification, ResumeAfterClarification,
               DecideGroup, ResumeAfterApproval, rowVars
  <2> QED BY <2>1 DEF TypeInv, TypeOK
<1> QED BY <1>1, <1>2, <1>3, StepKinds, ClaimWrites, OutsideWrites

\* A run that has failed is never again without an error.
LEMMA ErrorStays ==
    ASSUME ConstantsAssumption, TypeInv, SafeInv, Next, NEW r \in Run, error[r] # "none"
    PROVE  error'[r] = error[r]
<1>1. UNCHANGED rowVars => error'[r] = error[r]
      BY DEF rowVars
<1>2. ASSUME NEW w \in Worker, Ending(w) PROVE error'[r] = error[r]
  <2>1. Finish(w) /\ error[ctx[w].run] = "none"
        BY <1>2, EndingWrites, FinishFacts
  <2> QED BY <1>2, <2>1 DEF Ending, CommitStep, CommitTerminal, BlockModelFailure,
             FailActionContract, FailPersistenceContract, FailRun, TypeInv, TypeOK
<1>3. ASSUME NEW w \in Worker, Idling(w) \/ Execute(w) PROVE error'[r] = error[r]
      BY <1>1, <1>3, IdlingWritesNothing, ExecutingCarries
<1>4. ASSUME NEW q \in Run, Operator(q) PROVE error' = error
      BY <1>4 DEF Operator, Start, CreateRollback, ConfirmRollback, RejectRollback,
             PreviewTermination, LoadForDecision, ApproveTermination, DecideGate,
             InterpretClarification, ConfirmClarification, ResumeAfterClarification,
             DecideGroup, ResumeAfterApproval, rowVars
<1> QED BY <1>1, <1>2, <1>3, <1>4, StepKinds, ClaimWrites, OutsideWrites

-----------------------------------------------------------------------------
(* What executors write *)

\* The plan is written by the compilation only, the report by the report's
\* executor, a restore by the executor of restores.
LEMMA WorkStep ==
    ASSUME TypeInv, Next, NEW r \in Run
    PROVE  /\ (plan'[r] = plan[r] \/ \E w \in Worker : CompileExecutionPlan(w) /\ ctx[w].run = r)
           /\ (report'[r] = report[r] \/ \E w \in Worker : GenerateReport(w) /\ ctx[w].run = r)
           /\ \/ "restore" \in applied'[r] => "restore" \in applied[r]
              \/ \E w \in Worker : ExecuteRollback(w) /\ ctx[w].run = r
<1>1. UNCHANGED <<plan, report, applied>> =>
          /\ plan'[r] = plan[r] /\ report'[r] = report[r]
          /\ "restore" \in applied'[r] => "restore" \in applied[r]
      OBVIOUS
<1>2. ASSUME NEW w \in Worker, Idling(w) \/ Ending(w) PROVE UNCHANGED <<plan, report, applied>>
      BY <1>2, IdlingWritesNothing, EndingWrites DEF workVars
<1>3. ASSUME NEW w \in Worker, Execute(w)
      PROVE  /\ (plan'[r] = plan[r] \/ (CompileExecutionPlan(w) /\ ctx[w].run = r))
             /\ (report'[r] = report[r] \/ (GenerateReport(w) /\ ctx[w].run = r))
             /\ \/ "restore" \in applied'[r] => "restore" \in applied[r]
                \/ ExecuteRollback(w) /\ ctx[w].run = r
  <2>1. CASE CompileExecutionPlan(w)
        BY <2>1 DEF CompileExecutionPlan, TypeInv, TypeOK
  <2>2. CASE GenerateReport(w)
        BY <2>2 DEF GenerateReport, TypeInv, TypeOK
  <2>3. CASE ExecuteRollback(w)
        BY <2>3 DEF ExecuteRollback, TypeInv, TypeOK
  <2>4. CASE ExecuteGovernance(w)
        BY <2>4 DEF ExecuteGovernance, TypeInv, TypeOK
  <2>5. CASE \/ ExecuteOther(w) \/ BuildIdentityIndex(w) \/ OpenIdentityConflictGate(w)
             \/ AggregateRisk(w) \/ PreflightPassed(w) \/ PreflightStale(w) \/ AssessRollback(w)
             \/ EnterRollbackApproval(w) \/ CompileRollback(w) \/ ModelFails(w) \/ ExecutorRejects(w)
    <3>1. UNCHANGED <<plan, report, applied>>
          BY <2>5 DEF ExecuteOther, BuildIdentityIndex, OpenIdentityConflictGate, AggregateRisk,
                 PreflightPassed, PreflightStale, AssessRollback, EnterRollbackApproval,
                 CompileRollback, ModelFails, ExecutorRejects, workVars
    <3> QED BY <1>1, <3>1
  <2> QED BY <1>3, <2>1, <2>2, <2>3, <2>4, <2>5 DEF Execute
<1>4. ASSUME NEW w \in Worker, NEW q \in Run, Claim(w, q) PROVE UNCHANGED <<plan, report, applied>>
      BY <1>4, ClaimWrites DEF workVars
<1>5. ASSUME NEW q \in Run, LeaseExpire(q) \/ TargetMoves(q) \/ Operator(q)
      PROVE  UNCHANGED <<plan, report, applied>>
      BY <1>5, OutsideWrites, ApiWrites DEF workVars
<1> QED BY <1>1, <1>2, <1>3, <1>4, <1>5, StepKinds

-----------------------------------------------------------------------------
(* Gates and approval groups *)

\* The executor that opens a gate of a kind, at the cursor it was claimed for.
Records(w, r, x) ==
    /\ ctx[w].run = r /\ ctx[w].pc = "execute" /\ AtCursor(w)
    /\ x.st = "pending" /\ x.at = ctx[w].cursor
    /\ \/ x.kind = "high_risk_approval" /\ x.member \in Group /\ AggregateRisk(w)
       \/ x.kind = "identity_conflict" /\ OpenIdentityConflictGate(w)
       \/ x.kind = "cross_phase_replan" /\ PreflightStale(w)
       \/ x.kind = "rollback_conflict" /\ AssessRollback(w)
       \/ x.kind = "rollback_approval" /\ EnterRollbackApproval(w)

\* A gate that was pending with the same content.
WasPending(r, x) ==
    \E y \in gates[r] :
        /\ y.st = "pending"
        /\ x.kind = y.kind /\ x.at = y.at /\ x.member = y.member

\* A gate of the next state was there, was decided, or was opened by an executor
\* or a termination preview.
GateFrom(r, x) ==
    \/ x \in gates[r]
    \/ x.st \in {"approved", "rejected"} /\ WasPending(r, x)
    \/ /\ x.st = "pending" /\ x.kind = "termination_confirmation" /\ x.at = cursor[r]
       /\ PreviewTermination(r)
    \/ \E w \in Worker : Records(w, r, x)

\* Who decides a gate.
Decides(r, x) ==
    /\ x.st = "pending"
    /\ \/ \E q \in loaded[r] :
              /\ q.gate = x
              /\ ApproveTermination(r, q) \/ \E d \in Outcome : DecideGate(r, q, d)
       \/ /\ x.kind = "identity_conflict" /\ node[r] = "resolve_identity_conflicts"
          /\ \E c \in confirming[r] : c.last /\ ResumeAfterClarification(r, c)

\* Deciding a gate changes its status only.
LEMMA DecidedGate ==
    ASSUME NEW x \in Gate, NEW d \in GateStatus
    PROVE  /\ [x EXCEPT !.st = d].st = d /\ [x EXCEPT !.st = d].kind = x.kind
           /\ [x EXCEPT !.st = d].at = x.at /\ [x EXCEPT !.st = d].member = x.member
BY DEF Gate

LEMMA GateOfDecision ==
    ASSUME TypeInv, NEW r \in Run, NEW x \in gates[r], NEW d \in {"approved", "rejected"},
           x.st = "pending",
           gates' = [gates EXCEPT ![r] = (gates[r] \ {x}) \cup {[x EXCEPT !.st = d]}],
           NEW y \in gates'[r]
    PROVE  y \in gates[r] \/ (y.st \in {"approved", "rejected"} /\ WasPending(r, y))
<1>1. gates'[r] = (gates[r] \ {x}) \cup {[x EXCEPT !.st = d]} /\ x \in Gate
      BY DEF TypeInv, TypeOK
<1>2. CASE y = [x EXCEPT !.st = d]
      BY <1>1, <1>2, DecidedGate DEF GateStatus, WasPending
<1>3. CASE y # [x EXCEPT !.st = d]
      BY <1>1, <1>3
<1> QED BY <1>2, <1>3

LEMMA GateOfRecord ==
    ASSUME TypeInv, NEW w \in Worker, NEW kind, NEW r \in Run, r = ctx[w].run,
           NEW m, RecordGate(r, kind, ctx[w].cursor, m),
           NEW y \in gates'[r], y \notin gates[r]
    PROVE  y.kind = kind /\ y.at = ctx[w].cursor /\ y.st = "pending" /\ y.member = m
BY DEF RecordGate, NewGate, TypeInv, TypeOK

LEMMA GateOfApi ==
    ASSUME TypeInv, NEW q \in Run, Operator(q), NEW r \in Run, NEW y \in gates'[r]
    PROVE  GateFrom(r, y)
<1>1. CASE gates'[r] = gates[r]
      BY <1>1 DEF GateFrom
<1>2. CASE PreviewTermination(q)
  <2>1. gates' = [gates EXCEPT ![q] =
                    gates[q] \cup {NewGate("termination_confirmation", cursor[q], NoGroup)}]
        BY <1>2 DEF PreviewTermination
  <2>2. q # r => gates'[r] = gates[r]
        BY <2>1 DEF TypeInv, TypeOK
  <2>3. q = r => gates'[r] = gates[r] \cup {NewGate("termination_confirmation", cursor[r], NoGroup)}
        BY <2>1 DEF TypeInv, TypeOK
  <2> QED BY <1>1, <1>2, <2>2, <2>3 DEF GateFrom, NewGate
<1>3. ASSUME NEW c \in loaded[q],
             ApproveTermination(q, c) \/ \E d \in Outcome : DecideGate(q, c, d)
      PROVE  GateFrom(r, y)
  <2>1. \E d \in Outcome : Settle(q, c.gate, d)
        BY <1>3 DEF ApproveTermination, DecideGate, Outcome
  <2>2. PICK d \in Outcome :
            gates' = [gates EXCEPT ![q] = (gates[q] \ {c.gate}) \cup {[c.gate EXCEPT !.st = d]}]
        BY <2>1 DEF Settle
  <2>3. c.gate \in gates[q] /\ c.gate.st = "pending"
        BY <1>3 DEF ApproveTermination, DecideGate, ActionableAs
  <2>4. q # r => gates'[r] = gates[r]
        BY <2>2 DEF TypeInv, TypeOK
  <2> QED BY <1>1, <2>2, <2>3, <2>4, GateOfDecision DEF GateFrom, Outcome
<1>4. ASSUME NEW x \in gates[q], LoadForDecision(q, x) PROVE GateFrom(r, y)
      BY <1>1, <1>4 DEF LoadForDecision
<1>5. ASSUME NEW c \in confirming[q], ResumeAfterClarification(q, c) PROVE GateFrom(r, y)
  <2> DEFINE open == Pending(q, "identity_conflict")
             decidedGates == {[x EXCEPT !.st = "approved"] : x \in open}
  <2>1. \/ gates' = [gates EXCEPT ![q] = (gates[q] \ open) \cup decidedGates]
        \/ gates' = [gates EXCEPT ![q] = gates[q]]
        BY <1>5 DEF ResumeAfterClarification
  <2>2. q # r => gates'[r] = gates[r]
        BY <2>1 DEF TypeInv, TypeOK
  <2>3. CASE q = r /\ y \notin gates[r]
    <3>1. y \in decidedGates
          BY <2>1, <2>3 DEF TypeInv, TypeOK
    <3>2. PICK x \in open : y = [x EXCEPT !.st = "approved"]
          BY <3>1
    <3>3. x \in gates[q] /\ x \in Gate /\ x.st = "pending"
          BY <3>2 DEF Pending, TypeInv, TypeOK
    <3> QED BY <2>3, <3>2, <3>3, DecidedGate DEF GateStatus, GateFrom, WasPending
  <2> QED BY <1>1, <2>2, <2>3 DEF GateFrom
<1>6. CASE \/ Start(q) \/ CreateRollback(q) \/ ConfirmRollback(q) \/ RejectRollback(q)
           \/ \E k \in Clarification : InterpretClarification(q, k) \/ ConfirmClarification(q, k)
           \/ \E g \in Group : DecideGroup(q, g)
           \/ \E c \in deciding[q], d \in Outcome : ResumeAfterApproval(q, c, d)
  <2>1. gates' = gates
        BY <1>6 DEF Start, CreateRollback, ConfirmRollback, RejectRollback, ConfirmClarification,
               InterpretClarification, DecideGroup, ResumeAfterApproval, humanVars
  <2> QED BY <1>1, <2>1
<1> QED BY <1>2, <1>3, <1>4, <1>5, <1>6 DEF Operator

LEMMA GateOfExecution ==
    ASSUME TypeInv, NEW w \in Worker, Execute(w), NEW r \in Run, NEW y \in gates'[r]
    PROVE  y \in gates[r] \/ Records(w, r, y)
<1> SUFFICES ASSUME y \notin gates[r] PROVE Records(w, r, y)
    OBVIOUS
<1>1. CASE \/ ExecuteOther(w) \/ BuildIdentityIndex(w) \/ CompileExecutionPlan(w)
           \/ PreflightPassed(w) \/ ExecuteGovernance(w) \/ GenerateReport(w)
           \/ CompileRollback(w) \/ ExecuteRollback(w) \/ ModelFails(w) \/ ExecutorRejects(w)
  <2>1. gates' = gates
        BY <1>1 DEF ExecuteOther, BuildIdentityIndex, CompileExecutionPlan, PreflightPassed,
               ExecuteGovernance, GenerateReport, CompileRollback, ExecuteRollback, ModelFails,
               ExecutorRejects, humanVars
  <2> QED BY <2>1
<1>2. CASE AggregateRisk(w)
  <2> DEFINE q == ctx[w].run
             aggregated == [g \in Group |->
                              IF groups[q][g] = "latent" THEN "pending" ELSE groups[q][g]]
             open == {g \in Group : aggregated[g] = "pending"}
             opened == {NewGate("high_risk_approval", ctx[w].cursor, g) : g \in open}
  <2>1. gates' = [gates EXCEPT ![q] = gates[q] \cup opened]
        BY <1>2 DEF AggregateRisk
  <2>2. q = r /\ y \in opened
    <3> HIDE DEF opened
    <3> QED BY <2>1 DEF TypeInv, TypeOK
  <2>3. PICK g \in open : y = NewGate("high_risk_approval", ctx[w].cursor, g)
        BY <2>2
  <2>4. /\ y.kind = "high_risk_approval" /\ y.at = ctx[w].cursor /\ y.st = "pending"
        /\ y.member \in Group
        BY <2>3 DEF NewGate
  <2>5. ctx[w].pc = "execute" /\ AtCursor(w)
        BY <1>2 DEF AggregateRisk, Executing
  <2> QED BY <1>2, <2>2, <2>4, <2>5 DEF Records
<1>3. ASSUME NEW kind, NEW m, ctx[w].run \in Run, RecordGate(ctx[w].run, kind, ctx[w].cursor, m)
      PROVE  ctx[w].run = r /\ y.kind = kind /\ y.at = ctx[w].cursor /\ y.st = "pending"
  <2>1. ctx[w].run = r
        BY <1>3 DEF RecordGate, TypeInv, TypeOK
  <2> QED BY <1>3, <2>1, GateOfRecord
<1>4. ctx[w].pc = "execute" => ctx[w].run \in Run
      BY ExecutingType
<1>5. CASE OpenIdentityConflictGate(w)
      BY <1>3, <1>4, <1>5 DEF OpenIdentityConflictGate, Executing, Records
<1>6. CASE PreflightStale(w)
      BY <1>3, <1>4, <1>6 DEF PreflightStale, Executing, Records
<1>7. CASE AssessRollback(w)
  <2>1. gates' # gates
        OBVIOUS
  <2> QED BY <1>3, <1>4, <1>7, <2>1 DEF AssessRollback, Executing, Records
<1>8. CASE EnterRollbackApproval(w)
      BY <1>3, <1>4, <1>8 DEF EnterRollbackApproval, Executing, Records
<1> QED BY <1>1, <1>2, <1>5, <1>6, <1>7, <1>8 DEF Execute

\* Where the gates of the next state come from.
LEMMA GateStep ==
    ASSUME ConstantsAssumption, TypeInv, SafeInv, Next, NEW r \in Run, NEW y \in gates'[r]
    PROVE  GateFrom(r, y)
<1>1. gates' = gates => GateFrom(r, y)
      BY DEF GateFrom
<1>2. ASSUME NEW w \in Worker, Idling(w) \/ Ending(w) PROVE gates' = gates
      BY <1>2, IdlingWritesNothing, EndingWrites DEF humanVars
<1>3. ASSUME NEW w \in Worker, Execute(w) PROVE GateFrom(r, y)
      BY <1>3, GateOfExecution DEF GateFrom
<1>4. ASSUME NEW w \in Worker, NEW q \in Run, Claim(w, q) PROVE gates' = gates
      BY <1>4, ClaimWrites DEF humanVars
<1>5. ASSUME NEW q \in Run, LeaseExpire(q) \/ TargetMoves(q) PROVE gates' = gates
      BY <1>5, OutsideWrites DEF humanVars
<1> QED BY <1>1, <1>2, <1>3, <1>4, <1>5, StepKinds, GateOfApi

\* A gate disappears only by being decided; a decided one stays as it is.
LEMMA GateKept ==
    ASSUME ConstantsAssumption, TypeInv, SafeInv, Next, NEW r \in Run, NEW x \in gates[r]
    PROVE  x \in gates'[r] \/ Decides(r, x)
<1>1. gates' = gates => x \in gates'[r]
      OBVIOUS
<1>2. ASSUME NEW w \in Worker, Idling(w) \/ Ending(w) PROVE gates' = gates
      BY <1>2, IdlingWritesNothing, EndingWrites DEF humanVars
<1>3. ASSUME NEW w \in Worker, Execute(w) PROVE x \in gates'[r]
  <2>1. CASE \/ ExecuteOther(w) \/ BuildIdentityIndex(w) \/ CompileExecutionPlan(w)
             \/ PreflightPassed(w) \/ ExecuteGovernance(w) \/ GenerateReport(w)
             \/ CompileRollback(w) \/ ExecuteRollback(w) \/ ModelFails(w) \/ ExecutorRejects(w)
    <3>1. gates' = gates
          BY <2>1 DEF ExecuteOther, BuildIdentityIndex, CompileExecutionPlan, PreflightPassed,
                 ExecuteGovernance, GenerateReport, CompileRollback, ExecuteRollback, ModelFails,
                 ExecutorRejects, humanVars
    <3> QED BY <3>1
  <2>2. CASE \/ OpenIdentityConflictGate(w) \/ AggregateRisk(w) \/ PreflightStale(w)
             \/ AssessRollback(w) \/ EnterRollbackApproval(w)
    <3>1. \/ gates' = gates
          \/ \E q : \E S : gates' = [gates EXCEPT ![q] = gates[q] \cup S]
          BY <2>2 DEF OpenIdentityConflictGate, AggregateRisk, PreflightStale, AssessRollback,
                 EnterRollbackApproval, RecordGate
    <3>2. CASE \E q : \E S : gates' = [gates EXCEPT ![q] = gates[q] \cup S]
      <4>1. PICK q : \E S : gates' = [gates EXCEPT ![q] = gates[q] \cup S]
            BY <3>2
      <4>2. PICK S : gates' = [gates EXCEPT ![q] = gates[q] \cup S]
            BY <4>1
      <4>3. DOMAIN gates = Run
            BY DEF TypeInv, TypeOK
      <4> QED BY <4>2, <4>3
    <3> QED BY <3>1, <3>2
  <2> QED BY <1>3, <2>1, <2>2 DEF Execute
<1>4. ASSUME NEW w \in Worker, NEW q \in Run, Claim(w, q) PROVE gates' = gates
      BY <1>4, ClaimWrites DEF humanVars
<1>5. ASSUME NEW q \in Run, LeaseExpire(q) \/ TargetMoves(q) PROVE gates' = gates
      BY <1>5, OutsideWrites DEF humanVars
<1>6. ASSUME NEW q \in Run, Operator(q) PROVE x \in gates'[r] \/ Decides(r, x)
  <2>1. CASE \/ Start(q) \/ CreateRollback(q) \/ ConfirmRollback(q) \/ RejectRollback(q)
             \/ \E y \in gates[q] : LoadForDecision(q, y)
             \/ \E k \in Clarification : InterpretClarification(q, k) \/ ConfirmClarification(q, k)
             \/ \E g \in Group : DecideGroup(q, g)
             \/ \E c \in deciding[q], d \in Outcome : ResumeAfterApproval(q, c, d)
    <3>1. gates' = gates
          BY <2>1 DEF Start, CreateRollback, ConfirmRollback, RejectRollback, LoadForDecision,
                 InterpretClarification, ConfirmClarification, DecideGroup, ResumeAfterApproval,
                 humanVars
    <3> QED BY <3>1
  <2>2. CASE PreviewTermination(q)
        BY <2>2 DEF PreviewTermination, TypeInv, TypeOK
  <2>3. ASSUME NEW c \in loaded[q],
               ApproveTermination(q, c) \/ \E d \in Outcome : DecideGate(q, c, d)
        PROVE  x \in gates'[r] \/ Decides(r, x)
    <3>1. \E d \in Outcome : Settle(q, c.gate, d)
          BY <2>3 DEF ApproveTermination, DecideGate, Outcome
    <3>2. PICK d \in Outcome :
              gates' = [gates EXCEPT ![q] = (gates[q] \ {c.gate}) \cup {[c.gate EXCEPT !.st = d]}]
          BY <3>1 DEF Settle
    <3>3. c.gate.st = "pending"
          BY <2>3 DEF ApproveTermination, DecideGate, ActionableAs
    <3>4. x \in gates'[r] \/ (q = r /\ x = c.gate)
          BY <3>2 DEF TypeInv, TypeOK
    <3> QED BY <2>3, <3>3, <3>4 DEF Decides
  <2>4. ASSUME NEW c \in confirming[q], ResumeAfterClarification(q, c)
        PROVE  x \in gates'[r] \/ Decides(r, x)
    <3> DEFINE open == Pending(q, "identity_conflict")
               approved == {[y EXCEPT !.st = "approved"] : y \in open}
               all == c.last /\ node[q] = "resolve_identity_conflicts"
    <3>1. gates' = [gates EXCEPT ![q] = IF all THEN (gates[q] \ open) \cup approved ELSE gates[q]]
          BY <2>4 DEF ResumeAfterClarification
    <3>2. x \in gates'[r] \/ (q = r /\ x \in open /\ all)
      <4>1. DOMAIN gates = Run
            BY DEF TypeInv, TypeOK
      <4> HIDE DEF approved, open, all
      <4> QED BY <3>1, <4>1
    <3> QED BY <2>4, <3>2 DEF Pending, Decides
  <2> QED BY <1>6, <2>1, <2>2, <2>3, <2>4 DEF Operator
<1> QED BY <1>1, <1>2, <1>3, <1>4, <1>5, <1>6, StepKinds

\* An approval group is chosen at the start, found by the aggregation, and
\* decided once: through its endpoint, or through its gate.
LEMMA GroupStep ==
    ASSUME ConstantsAssumption, TypeInv, SafeInv, Next, NEW r \in Run, NEW g \in Group
    PROVE  \/ groups'[r][g] = groups[r][g]
           \/ Start(r)
           \/ /\ groups[r][g] = "latent" /\ groups'[r][g] = "pending"
              /\ \E w \in Worker : AggregateRisk(w) /\ ctx[w].run = r
           \/ \E c \in deciding[r], d \in Outcome :
                  c.group = g /\ ResumeAfterApproval(r, c, d) /\ groups'[r][g] = d
           \/ \E q \in loaded[r], d \in Outcome :
                  /\ q.gate.kind = "high_risk_approval" /\ q.gate.member = g
                  /\ DecideGate(r, q, d) /\ groups'[r][g] = d
<1>0. groups \in [Run -> [Group -> GroupStatus]]
      BY DEF TypeInv, TypeOK
<1>1. ASSUME NEW w \in Worker, Idling(w) \/ Ending(w) PROVE groups' = groups
      BY <1>1, IdlingWritesNothing, EndingWrites DEF humanVars
<1>2. ASSUME NEW w \in Worker, Execute(w), ~AggregateRisk(w) PROVE groups' = groups
  <2>1. CASE \/ ExecuteOther(w) \/ BuildIdentityIndex(w) \/ CompileExecutionPlan(w)
             \/ PreflightPassed(w) \/ ExecuteGovernance(w) \/ GenerateReport(w)
             \/ CompileRollback(w) \/ ExecuteRollback(w) \/ ModelFails(w) \/ ExecutorRejects(w)
        BY <2>1 DEF ExecuteOther, BuildIdentityIndex, CompileExecutionPlan, PreflightPassed,
               ExecuteGovernance, GenerateReport, CompileRollback, ExecuteRollback, ModelFails,
               ExecutorRejects, humanVars
  <2>2. CASE \/ OpenIdentityConflictGate(w) \/ PreflightStale(w)
             \/ AssessRollback(w) \/ EnterRollbackApproval(w)
        BY <2>2 DEF OpenIdentityConflictGate, PreflightStale, AssessRollback,
               EnterRollbackApproval
  <2> QED BY <1>2, <2>1, <2>2 DEF Execute
<1>3. ASSUME NEW w \in Worker, AggregateRisk(w)
      PROVE  \/ groups'[r][g] = groups[r][g]
             \/ ctx[w].run = r /\ groups[r][g] = "latent" /\ groups'[r][g] = "pending"
  <2> DEFINE aggregated == [h \in Group |->
                  IF groups[ctx[w].run][h] = "latent" THEN "pending" ELSE groups[ctx[w].run][h]]
  <2>1. groups' = [groups EXCEPT ![ctx[w].run] = aggregated]
        BY <1>3 DEF AggregateRisk
  <2>2. aggregated[g] = IF groups[ctx[w].run][g] = "latent" THEN "pending"
                        ELSE groups[ctx[w].run][g]
        OBVIOUS
  <2> HIDE DEF aggregated
  <2> QED BY <1>0, <2>1, <2>2
<1>4. ASSUME NEW w \in Worker, NEW q \in Run, Claim(w, q) PROVE groups' = groups
      BY <1>4, ClaimWrites DEF humanVars
<1>5. ASSUME NEW q \in Run, LeaseExpire(q) \/ TargetMoves(q) PROVE groups' = groups
      BY <1>5, OutsideWrites DEF humanVars
<1>6. ASSUME NEW q \in Run, Operator(q)
      PROVE  \/ groups'[r][g] = groups[r][g]
             \/ Start(r)
             \/ \E c \in deciding[r], d \in Outcome :
                    c.group = g /\ ResumeAfterApproval(r, c, d) /\ groups'[r][g] = d
             \/ \E p \in loaded[r], d \in Outcome :
                    /\ p.gate.kind = "high_risk_approval" /\ p.gate.member = g
                    /\ DecideGate(r, p, d) /\ groups'[r][g] = d
  <2>1. CASE Start(q)
        BY <1>0, <2>1 DEF Start
  <2>2. CASE \/ CreateRollback(q) \/ ConfirmRollback(q) \/ RejectRollback(q)
             \/ PreviewTermination(q)
             \/ \E x \in gates[q] : LoadForDecision(q, x)
             \/ \E p \in loaded[q] : ApproveTermination(q, p)
             \/ \E k \in Clarification : InterpretClarification(q, k) \/ ConfirmClarification(q, k)
             \/ \E c \in confirming[q] : ResumeAfterClarification(q, c)
             \/ \E h \in Group : DecideGroup(q, h)
    <3>1. groups' = groups
          BY <2>2 DEF CreateRollback, ConfirmRollback, RejectRollback, PreviewTermination,
                 LoadForDecision, ApproveTermination, InterpretClarification,
                 ConfirmClarification, ResumeAfterClarification, DecideGroup, humanVars
    <3> QED BY <3>1
  <2>3. ASSUME NEW p \in loaded[q], NEW d \in Outcome, DecideGate(q, p, d),
               groups'[r][g] # groups[r][g]
        PROVE  p.gate.kind = "high_risk_approval" /\ p.gate.member = g /\ q = r /\ groups'[r][g] = d
    <3>1. groups' = IF p.gate.kind = "high_risk_approval"
                    THEN [groups EXCEPT ![q][p.gate.member] = d] ELSE groups
          BY <2>3 DEF DecideGate
    <3> QED BY <1>0, <2>3, <3>1
  <2>4. ASSUME NEW c \in deciding[q], NEW d \in Outcome, ResumeAfterApproval(q, c, d),
               groups'[r][g] # groups[r][g]
        PROVE  q = r /\ c.group = g /\ groups'[r][g] = d
    <3>1. groups' = [groups EXCEPT ![q][c.group] = d]
          BY <2>4 DEF ResumeAfterApproval
    <3> QED BY <1>0, <2>4, <3>1
  <2> QED BY <1>6, <2>1, <2>2, <2>3, <2>4 DEF Operator
<1> QED BY <1>1, <1>2, <1>3, <1>4, <1>5, <1>6, StepKinds

-----------------------------------------------------------------------------
(* What was approved is what is executed, and a report comes before the     *)
(* end, for every value of the constants.  Each of the three invariants     *)
(* says which part of the graph a run must have reached for the fact to     *)
(* exist, so that the steps that could undo it are behind the run.          *)

-----------------------------------------------------------------------------
(* Facts about the graphs *)

\* Where a run is that has a plan.
PlanNodes ==
    {"wait_high_risk_approvals", "compile_execution_plan", "preflight_execution",
     "wait_replan_confirmation", "execute_ready_operations", "verify_operations",
     "execute_remaining_independent", "generate_terminal_report", "terminal",
     "drain_current_atomic_unit", "termination_report", "blocked_model_error"}

\* Behind the compilation of the restore plan.
RestoreNodes ==
    {"preflight_restore", "execute_restore_operations", "verify_restore_operations",
     "generate_rollback_report"}

\* Where the conflicts of a restore are all known.
AfterAssess ==
    RestoreNodes \cup
    {"wait_restore_conflicts", "wait_rollback_approval", "compile_restore_plan", "terminal",
     "drain_current_atomic_unit", "termination_report", "blocked_model_error"}

TermNodes == {"drain_current_atomic_unit", "termination_report"}

ReportNodes == {"generate_terminal_report", "abnormal_input_report", "termination_report",
                "generate_rollback_report"}

\* Kinds that have an executor of their own, whatever the node.
OwnExecutor == {"build_identity_index", "resolve_identity_conflicts", "aggregate_risk",
                "compile_execution_plan"}

\* Nodes that have an executor of their own, whatever the action.
ServingNodes == ReportNodes \cup
    {"preflight_execution", "execute_ready_operations", "execute_remaining_independent",
     "assess_restore_impact", "wait_restore_conflicts", "compile_restore_plan",
     "execute_restore_operations"}

\* The edges among the nodes of plans.
PlanEdge(n, kind, to) ==
    /\ n \in PlanNodes \cup {"aggregate_risk"} => to \in PlanNodes
    /\ kind = "aggregate_risk" => n = "aggregate_risk"
    /\ kind = "compile_execution_plan" =>
           n \in {"wait_high_risk_approvals", "wait_replan_confirmation"}
    /\ to = "wait_high_risk_approvals" => n = "aggregate_risk" /\ kind = "aggregate_risk"

\* The edges among the nodes of restores.
RestoreEdge(n, kind, to) ==
    /\ n \in AfterAssess => to \in AfterAssess
    /\ to \in RestoreNodes => n \in RestoreNodes \cup {"compile_restore_plan"}
    /\ n \in ServingNodes => kind \notin OwnExecutor

\* The edges towards the end of a run.
EndEdge(n, kind, to) ==
    /\ kind # "terminate_requested" /\ to # "blocked_model_error"
    /\ to \in TermNodes => n \in TermNodes \cup {"blocked_model_error"}
    /\ to = "terminal" => n \in ReportNodes

\* The edges into and out of the nodes that wait for a human.
GateEdge(n, kind, to) ==
    /\ to = "resolve_identity_conflicts" => kind = "resolve_identity_conflicts"
    /\ to = "wait_replan_confirmation" =>
           n = "preflight_execution" /\ kind = "request_cross_phase_replan"
    /\ to = "wait_restore_conflicts" => n = "assess_restore_impact"
    /\ to = "wait_rollback_approval" =>
           n = "wait_restore_conflicts" /\ kind = "wait_rollback_approval"
    /\ n = "wait_high_risk_approvals" => kind = "compile_execution_plan"
    /\ n = "wait_replan_confirmation" => kind = "compile_execution_plan"
    /\ n = "resolve_identity_conflicts" => kind = "resume_analysis_after_identity_conflicts"
    /\ n = "wait_restore_conflicts" => kind = "wait_rollback_approval"
    /\ n = "wait_rollback_approval" => kind = "compile_restore_plan"

EdgeFacts(n, kind, to) ==
    PlanEdge(n, kind, to) /\ RestoreEdge(n, kind, to) /\ EndEdge(n, kind, to) /\ GateEdge(n, kind, to)

\* Every action a node offers is an edge of its graph.
LEMMA OfferedEdge ==
    ASSUME NEW v \in GraphVersion, NEW n, NEW a \in ActionsAt(v, n)
    PROVE  EdgeFacts(n, a.kind, a.to)
<1>1. PICK e \in Edges(v) : e[1] = n /\ a = [kind |-> e[2], to |-> e[3]]
      BY DEF ActionsAt
<1>2. \A x \in CommonEdges : EdgeFacts(x[1], x[2], x[3])
      BY DEF CommonEdges, EdgeFacts, PlanEdge, RestoreEdge, EndEdge, GateEdge, PlanNodes,
             RestoreNodes, AfterAssess, TermNodes, ReportNodes, OwnExecutor, ServingNodes
<1>3. \A x \in SyncEdges : EdgeFacts(x[1], x[2], x[3])
      BY <1>2 DEF SyncEdges, EdgeFacts, PlanEdge, RestoreEdge, EndEdge, GateEdge, PlanNodes,
             RestoreNodes, AfterAssess, TermNodes, ReportNodes, OwnExecutor, ServingNodes
<1>4. \A x \in SyncV1Edges \cup SyncV2Edges : EdgeFacts(x[1], x[2], x[3])
      BY <1>3 DEF SyncV1Edges, SyncV2Edges, EdgeFacts, PlanEdge, RestoreEdge, EndEdge, GateEdge,
             PlanNodes, RestoreNodes, AfterAssess, TermNodes, ReportNodes, OwnExecutor, ServingNodes
<1>5. \A x \in RollbackEdges : EdgeFacts(x[1], x[2], x[3])
      BY <1>2 DEF RollbackEdges, EdgeFacts, PlanEdge, RestoreEdge, EndEdge, GateEdge, PlanNodes,
             RestoreNodes, AfterAssess, TermNodes, ReportNodes, OwnExecutor, ServingNodes
<1>6. EdgeFacts(e[1], e[2], e[3])
      BY <1>4, <1>5 DEF Edges
<1>7. a.kind = e[2] /\ a.to = e[3]
      BY <1>1
<1> QED BY <1>1, <1>6, <1>7

\* What a worker carries, at its node.
LEMMA CarriedEdge ==
    ASSUME ConstantsAssumption, TypeInv, DecisionInv, NEW w \in Worker, ctx[w].pc \in Acting
    PROVE  \/ ctx[w].act = TerminateAction
           \/ EdgeFacts(ctx[w].node, ctx[w].act.kind, ctx[w].act.to)
BY OfferedEdge DEF DecisionInv, WorkerFollowsDecision, Offers, TypeInv, ActionChosen, Busy, Acting,
   ConstantsAssumption

\* The node of a termination confirmation is none.
LEMMA NoneIsNoNode == "none" \notin Node
<1>1. \A x \in CommonEdges : x[1] # "none" /\ x[3] # "none"
      BY DEF CommonEdges
<1>2. \A x \in SyncEdges : x[1] # "none" /\ x[3] # "none"
      BY <1>1 DEF SyncEdges
<1>3. \A x \in SyncV1Edges \cup SyncV2Edges \cup RollbackEdges : x[1] # "none" /\ x[3] # "none"
      BY <1>1, <1>2 DEF SyncV1Edges, SyncV2Edges, RollbackEdges
<1>4. \A v \in GraphVersion : \A e \in Edges(v) : e[1] # "none" /\ e[3] # "none"
      BY <1>3 DEF Edges
<1> QED BY <1>4 DEF Node, Nodes

\* Where a run begins, and where it begins to be worked on.
LEMMA BeginsEarly ==
    ASSUME NEW v \in GraphVersion
    PROVE  /\ {InitialNode(v), AfterLockNode(v)} \cap (PlanNodes \cup AfterAssess) = {}
           /\ AfterLockNode(v) \notin HumanPauseNodes
<1>1. InitialNode(v) \notin PlanNodes \cup AfterAssess
      BY DEF InitialNode, PlanNodes, AfterAssess, RestoreNodes
<1>2. AfterLockNode(v) \in {"inspect_sources", "materialize_sources", "load_verified_mutations"}
  <2>0. /\ <<"acquire_school_lock", "inspect_sources", "inspect_sources">> \in SyncV1Edges
        /\ <<"acquire_school_lock", "materialize_sources", "materialize_sources">> \in SyncV2Edges
        /\ <<"acquire_school_lock", "load_verified_mutations", "load_verified_mutations">>
               \in RollbackEdges
        BY DEF SyncV1Edges, SyncV2Edges, RollbackEdges
  <2>1. \E e \in Edges(v) : e[1] = "acquire_school_lock"
        BY <2>0 DEF Edges, GraphVersion
  <2>2. \E n \in Nodes(v) : \E e \in Edges(v) : e[1] = "acquire_school_lock" /\ e[3] = n
        BY <2>1 DEF Nodes
  <2>3. \E e \in Edges(v) : e[1] = "acquire_school_lock" /\ e[3] = AfterLockNode(v)
        BY <2>2 DEF AfterLockNode
  <2>4. PICK e \in Edges(v) : e[1] = "acquire_school_lock" /\ e[3] = AfterLockNode(v)
        BY <2>3
  <2>5. \A x \in CommonEdges : x[1] # "acquire_school_lock"
        BY DEF CommonEdges
  <2>6. \A x \in SyncEdges : x[1] # "acquire_school_lock"
        BY <2>5 DEF SyncEdges
  <2>7. \A x \in SyncV1Edges \cup SyncV2Edges \cup RollbackEdges : x[1] = "acquire_school_lock" =>
            x[3] \in {"inspect_sources", "materialize_sources", "load_verified_mutations"}
        BY <2>5, <2>6 DEF SyncV1Edges, SyncV2Edges, RollbackEdges
  <2> QED BY <2>4, <2>7 DEF Edges
<1> QED BY <1>1, <1>2 DEF PlanNodes, AfterAssess, RestoreNodes, HumanPauseNodes

\* Which executor serves an action.
LEMMA ServedBy ==
    ASSUME NEW n, NEW a
    PROVE  /\ Executor(n, a) = "compile_execution_plan" => a.kind = "compile_execution_plan"
           /\ Executor(n, a) = "aggregate_risk" => a.kind = "aggregate_risk"
           /\ Executor(n, a) = "open_identity_conflict_gate" => a.kind = "resolve_identity_conflicts"
           /\ Executor(n, a) = "preflight_execution" => n = "preflight_execution"
           /\ Executor(n, a) = "assess_rollback" => n = "assess_restore_impact"
           /\ Executor(n, a) = "enter_rollback_approval" => n = "wait_restore_conflicts"
           /\ Executor(n, a) = "execute_rollback" => n = "execute_restore_operations"
           /\ Executor(n, a) = "generate_report" => n \in ReportNodes
BY DEF Executor, ReportNodes

\* The executors of the actions that lead to a gate, a restore or the end.
LEMMA ServesWhat ==
    ASSUME NEW n, NEW a
    PROVE  /\ n \notin ServingNodes /\ a.kind = "resolve_identity_conflicts" =>
                  Executor(n, a) = "open_identity_conflict_gate"
           /\ n \notin ServingNodes /\ a.kind = "aggregate_risk" =>
                  Executor(n, a) = "aggregate_risk"
           /\ a.kind \notin OwnExecutor =>
                  /\ n = "preflight_execution" => Executor(n, a) = "preflight_execution"
                  /\ n = "assess_restore_impact" => Executor(n, a) = "assess_rollback"
                  /\ n = "wait_restore_conflicts" /\ a.kind = "wait_rollback_approval" =>
                         Executor(n, a) = "enter_rollback_approval"
                  /\ n = "compile_restore_plan" => Executor(n, a) = "compile_rollback"
                  /\ n \in ReportNodes => Executor(n, a) = "generate_report"
<1>1. CASE a.kind = "resolve_identity_conflicts" /\ n \notin ServingNodes
      BY <1>1 DEF Executor, OwnExecutor, ServingNodes, ReportNodes
<1>2. CASE a.kind = "aggregate_risk" /\ n \notin ServingNodes
      BY <1>2 DEF Executor, OwnExecutor, ServingNodes, ReportNodes
<1>3. CASE a.kind \notin OwnExecutor /\ n = "preflight_execution"
      BY <1>3 DEF Executor, OwnExecutor, ReportNodes
<1>4. CASE a.kind \notin OwnExecutor /\ n = "assess_restore_impact"
      BY <1>4 DEF Executor, OwnExecutor, ReportNodes
<1>5. CASE a.kind \notin OwnExecutor /\ n = "wait_restore_conflicts"
      BY <1>5 DEF Executor, OwnExecutor, ReportNodes
<1>6. CASE a.kind \notin OwnExecutor /\ n = "compile_restore_plan"
      BY <1>6 DEF Executor, OwnExecutor, ReportNodes
<1>7. CASE a.kind \notin OwnExecutor /\ n \in ReportNodes
      BY <1>7 DEF Executor, OwnExecutor, ReportNodes
<1> QED BY <1>1, <1>2, <1>3, <1>4, <1>5, <1>6, <1>7 DEF OwnExecutor

\* The executor an action reaches the commit through.
LEMMA ServedWhole ==
    ASSUME TypeInv, NEW w \in Worker, Execute(w), ctx'[w].pc = "commit"
    PROVE  /\ Executing(w, "compile_rollback") => CompileRollback(w)
           /\ Executing(w, "generate_report") => GenerateReport(w)
           /\ Executing(w, "open_identity_conflict_gate") => OpenIdentityConflictGate(w)
           /\ Executing(w, "aggregate_risk") => AggregateRisk(w)
           /\ Executing(w, "preflight_execution") => PreflightPassed(w) \/ PreflightStale(w)
           /\ Executing(w, "assess_rollback") => AssessRollback(w)
           /\ Executing(w, "enter_rollback_approval") => EnterRollbackApproval(w)
<1>1. ~ModelFails(w) /\ ~ExecutorRejects(w)
      BY GotoEffect DEF ModelFails, ExecutorRejects, Pc, TypeInv, TypeOK
<1>2. \A x, y : Executing(w, x) /\ Executing(w, y) => x = y
      BY DEF Executing
<1> QED BY <1>1, <1>2 DEF Execute, ExecuteOther, BuildIdentityIndex, OpenIdentityConflictGate,
           AggregateRisk, CompileExecutionPlan, PreflightPassed, PreflightStale, ExecuteGovernance,
           GenerateReport, AssessRollback, EnterRollbackApproval, CompileRollback, ExecuteRollback

-----------------------------------------------------------------------------
(* Workers that are still current *)

\* Groups that the aggregation has found.
Found == {"pending"} \cup Outcome

\* The aggregation finds all groups of a run at once; who decides a group, and
\* saw no other one pending, will be the last.
GroupsOfRun(r) ==
    /\ (\E g \in Group : groups[r][g] \in Found) =>
           status[r] \notin New /\ \A h \in Group : groups[r][h] # "latent"
    /\ \A c \in deciding[r] :
           /\ LegacyApprovals /\ groups[r][c.group] \in Found
           /\ c.last => \A h \in Group \ {c.group} : groups[r][h] # "pending"

\* The gates of the groups are opened by one aggregation; unless the group
\* endpoints are used too, a gate is pending as long as its group.
GatesOfGroups(r) ==
    \A x \in gates[r] : x.kind = "high_risk_approval" =>
        /\ x.member \in Group /\ groups[r][x.member] \in Found
        /\ node[r] \in PlanNodes \/ (node[r] = "aggregate_risk" /\ x.at = cursor[r])
        /\ \A y \in gates[r] : y.kind = "high_risk_approval" => y.at = x.at
        /\ LegacyApprovals \/ (x.st = "pending" => groups[r][x.member] = "pending")

GroupInv == \A r \in Run : GroupsOfRun(r) /\ GatesOfGroups(r)

\* At its cursor a worker finds its run running or ended.
RunningOrEnded ==
    \A w \in Worker : Busy(w) /\ Current(w) => status[ctx[w].run] \in {"running"} \cup Terminal

\* A blocked run stands at its node, and one that waits for a human elsewhere,
\* also when a decision of a termination finds it as it was loaded.
BlockedStands(r) ==
    /\ status[r] = "blocked_model_error" => node[r] = "blocked_model_error"
    /\ status[r] = "waiting_human" => node[r] # "blocked_model_error"
    /\ \A q \in loaded[r] :
           /\ q.gate.kind = "termination_confirmation" /\ q.gate.at = cursor[r]
           /\ q.seen = "waiting_human"
           => node[r] # "blocked_model_error"

PlaceInv == RunningOrEnded /\ \A r \in Run : BlockedStands(r)

AgentInv == TypeInv /\ SafeInv /\ DecisionInv /\ GroupInv /\ PlaceInv

\* A worker that is current after a step was so before, at the same place, and
\* its run has not moved.
LEMMA StillCurrent ==
    ASSUME ConstantsAssumption, AgentInv, Next, NEW v \in Worker, Busy(v)', Current(v)'
    PROVE  \/ \E r \in Run : Claim(v, r)
           \/ /\ Busy(v) /\ Current(v) /\ ctx[v].run \in Run
              /\ ctx'[v].run = ctx[v].run /\ ctx'[v].node = ctx[v].node
              /\ ctx'[v].cursor = ctx[v].cursor
              /\ ctx[v].node = node[ctx[v].run]
              /\ Stays(ctx[v].run)
<1> DEFINE r == ctx[v].run
<1> SUFFICES ASSUME ~\E q \in Run : Claim(v, q)
             PROVE  /\ Busy(v) /\ Current(v) /\ r \in Run
                    /\ ctx'[v].run = r /\ ctx'[v].node = ctx[v].node
                    /\ ctx'[v].cursor = ctx[v].cursor
                    /\ ctx[v].node = node[r]
                    /\ Stays(r)
    OBVIOUS
<1>1. /\ Busy(v) /\ ctx'[v].run = r /\ ctx'[v].node = ctx[v].node
      /\ ctx'[v].cursor = ctx[v].cursor
      BY PlaceIsKept DEF AgentInv
<1>2. r \in Run /\ ctx[v].cursor <= cursor[r] /\ status[r] \notin New
      /\ (ctx[v].cursor = cursor[r] => ctx[v].node = node[r])
      BY <1>1 DEF AgentInv, TypeInv, ActionChosen, SafeInv, HoldInv, ClaimIsPast, New
<1>3. ctx[v].cursor \in Nat /\ cursor[r] \in Nat
      BY <1>2 DEF AgentInv, TypeInv, TypeOK, Context
<1>4. cursor'[r] = ctx[v].cursor
      BY <1>1 DEF Current
<1>5. Stays(r) \/ Taken(r) \/ \E w \in Worker : Walked(r, w) \/ BlockedBy(r, w)
      BY <1>2, RunStep DEF AgentInv
<1>6. Stays(r)
      BY <1>2, <1>3, <1>4, <1>5 DEF Taken, Walked, BlockedBy
<1>7. cursor'[r] = cursor[r]
      BY <1>6 DEF Stays
<1> QED BY <1>1, <1>2, <1>4, <1>6, <1>7 DEF Current

\* A worker that executes or commits at its cursor stands where its run stands.
LEMMA StandsThere ==
    ASSUME AgentInv, NEW w \in Worker, Busy(w), AtCursor(w)
    PROVE  ctx[w].run \in Run /\ node[ctx[w].run] = ctx[w].node /\ status[ctx[w].run] \notin New
BY DEF AgentInv, TypeInv, ActionChosen, SafeInv, HoldInv, ClaimIsPast, New, AtCursor

\* A commit leaves the node of its run along an edge, or to the drain.
LEMMA WalkedEdge ==
    ASSUME ConstantsAssumption, AgentInv, NEW r \in Run, NEW w \in Worker, Walked(r, w)
    PROVE  /\ Busy(w) /\ Current(w) /\ ctx[w].node = node[r] /\ node'[r] = ctx[w].act.to
           /\ \/ ctx[w].act = TerminateAction /\ node'[r] = "drain_current_atomic_unit"
              \/ EdgeFacts(node[r], ctx[w].act.kind, node'[r])
<1>1. /\ Busy(w) /\ Current(w) /\ ctx[w].node = node[r] /\ node'[r] = ctx[w].act.to
      /\ ctx[w].pc \in Acting
      BY DEF Walked, Fresh, Busy, Current, Acting
<1> QED BY <1>1, CarriedEdge DEF AgentInv, TerminateAction

-----------------------------------------------------------------------------
(* Requests in flight, groups and places *)

LEMMA ExecutionKeepsCalls ==
    ASSUME NEW w \in Worker, Execute(w)
    PROVE  UNCHANGED callVars
<1>1. CASE \/ ExecuteOther(w) \/ CompileExecutionPlan(w) \/ PreflightPassed(w)
           \/ ExecuteGovernance(w) \/ GenerateReport(w) \/ CompileRollback(w)
           \/ ExecuteRollback(w) \/ ModelFails(w) \/ ExecutorRejects(w)
      BY <1>1 DEF ExecuteOther, CompileExecutionPlan, PreflightPassed, ExecuteGovernance,
             GenerateReport, CompileRollback, ExecuteRollback, ModelFails, ExecutorRejects, humanVars
<1>2. CASE \/ BuildIdentityIndex(w) \/ OpenIdentityConflictGate(w) \/ AggregateRisk(w)
           \/ PreflightStale(w) \/ AssessRollback(w) \/ EnterRollbackApproval(w)
      BY <1>2 DEF BuildIdentityIndex, OpenIdentityConflictGate, AggregateRisk, PreflightStale,
             AssessRollback, EnterRollbackApproval
<1> QED BY <1>1, <1>2 DEF Execute

\* Only the API begins and ends requests.
LEMMA CallsOfApi ==
    ASSUME Next
    PROVE  UNCHANGED callVars \/ \E r \in Run : Operator(r)
<1>1. UNCHANGED humanVars => UNCHANGED callVars
      BY DEF humanVars
<1> QED BY <1>1, StepKinds, ExecutionKeepsCalls, IdlingWritesNothing, EndingWrites, OutsideWrites
        DEF Claim

\* A request that decides a gate has loaded the run's status for it.
LEMMA LoadedStep ==
    ASSUME TypeInv, Next, NEW r \in Run, NEW q \in loaded'[r]
    PROVE  \/ q \in loaded[r]
           \/ q.gate \in gates[r] /\ LoadForDecision(r, q.gate) /\ q.seen = status[r]
<1>1. loaded' = loaded => q \in loaded[r]
      OBVIOUS
<1>2. ASSUME NEW p \in Run, Operator(p), loaded' # loaded
      PROVE  \/ q \in loaded[r]
             \/ q.gate \in gates[r] /\ LoadForDecision(r, q.gate) /\ q.seen = status[r]
  <2>1. CASE \E x \in gates[p] : LoadForDecision(p, x)
    <3>1. PICK x \in gates[p] : LoadForDecision(p, x)
          BY <2>1
    <3>2. loaded' = [loaded EXCEPT ![p] = loaded[p] \cup {[gate |-> x, seen |-> status[p]]}]
          BY <3>1 DEF LoadForDecision
    <3>3. q \in loaded[r] \/ (p = r /\ q = [gate |-> x, seen |-> status[p]])
          BY <3>2 DEF TypeInv, TypeOK
    <3> QED BY <3>1, <3>3
  <2>2. CASE \E c \in loaded[p] :
                 ApproveTermination(p, c) \/ \E d \in Outcome : DecideGate(p, c, d)
    <3>1. PICK c \in loaded[p] : \E d \in Outcome : Settle(p, c.gate, d)
          BY <2>2 DEF ApproveTermination, DecideGate, Outcome
    <3>2. loaded' = [loaded EXCEPT ![p] = {o \in loaded[p] : o.gate # c.gate}]
          BY <3>1 DEF Settle
    <3> QED BY <3>2 DEF TypeInv, TypeOK
  <2>3. ~(\/ Start(p) \/ CreateRollback(p) \/ ConfirmRollback(p) \/ RejectRollback(p)
          \/ PreviewTermination(p)
          \/ \E k \in Clarification : InterpretClarification(p, k) \/ ConfirmClarification(p, k)
          \/ \E c \in confirming[p] : ResumeAfterClarification(p, c)
          \/ \E g \in Group : DecideGroup(p, g)
          \/ \E c \in deciding[p], d \in Outcome : ResumeAfterApproval(p, c, d))
        BY <1>2 DEF Start, CreateRollback, ConfirmRollback, RejectRollback, PreviewTermination,
               InterpretClarification, ConfirmClarification, ResumeAfterClarification, DecideGroup,
               ResumeAfterApproval, humanVars, callVars
  <2> QED BY <1>2, <2>1, <2>2, <2>3 DEF Operator
<1> QED BY <1>1, <1>2, CallsOfApi DEF callVars

\* One that decides a group has looked at the other ones.
LEMMA DecidingStep ==
    ASSUME TypeInv, Next, NEW r \in Run, NEW c \in deciding'[r]
    PROVE  \/ c \in deciding[r]
           \/ /\ LegacyApprovals /\ groups' = groups
              /\ c.group \in Group /\ groups[r][c.group] \in Found
              /\ c.last => \A h \in Group \ {c.group} : groups[r][h] # "pending"
<1>1. deciding' = deciding => c \in deciding[r]
      OBVIOUS
<1>2. ASSUME NEW p \in Run, Operator(p), deciding' # deciding, c \notin deciding[r]
      PROVE  /\ LegacyApprovals /\ groups' = groups
             /\ c.group \in Group /\ groups[r][c.group] \in Found
             /\ c.last => \A h \in Group \ {c.group} : groups[r][h] # "pending"
  <2>1. ASSUME NEW g \in Group, DecideGroup(p, g)
        PROVE  /\ LegacyApprovals /\ groups' = groups
               /\ c.group \in Group /\ groups[r][c.group] \in Found
               /\ c.last => \A h \in Group \ {c.group} : groups[r][h] # "pending"
    <3> DEFINE new == [group |-> g, last |-> \A h \in Group \ {g} : groups[p][h] # "pending"]
    <3>1. deciding' = [deciding EXCEPT ![p] = deciding[p] \cup {new}]
          BY <2>1 DEF DecideGroup
    <3>2. p = r /\ c = new
      <4> HIDE DEF new
      <4> QED BY <1>2, <3>1 DEF TypeInv, TypeOK
    <3>3. c.group = g /\ (c.last => \A h \in Group \ {g} : groups[r][h] # "pending")
          BY <3>2
    <3> QED BY <2>1, <3>2, <3>3 DEF DecideGroup, Found
  <2>2. ASSUME NEW e \in deciding[p], NEW d \in Outcome, ResumeAfterApproval(p, e, d) PROVE FALSE
    <3>1. deciding' = [deciding EXCEPT ![p] = deciding[p] \ {e}]
          BY <2>2 DEF ResumeAfterApproval
    <3> QED BY <1>2, <3>1 DEF TypeInv, TypeOK
  <2>3. ~(\/ Start(p) \/ CreateRollback(p) \/ ConfirmRollback(p) \/ RejectRollback(p)
          \/ PreviewTermination(p)
          \/ \E x \in gates[p] : LoadForDecision(p, x)
          \/ \E q \in loaded[p] :
                 ApproveTermination(p, q) \/ \E d \in Outcome : DecideGate(p, q, d)
          \/ \E k \in Clarification : InterpretClarification(p, k) \/ ConfirmClarification(p, k)
          \/ \E e \in confirming[p] : ResumeAfterClarification(p, e))
        BY <1>2 DEF Start, CreateRollback, ConfirmRollback, RejectRollback, PreviewTermination,
               LoadForDecision, ApproveTermination, DecideGate, InterpretClarification,
               ConfirmClarification, ResumeAfterClarification, humanVars, callVars
  <2> QED BY <1>2, <2>1, <2>2, <2>3 DEF Operator
<1> QED BY <1>1, <1>2, CallsOfApi DEF callVars

\* A run that was started stays started.
LEMMA StartedStays ==
    ASSUME ConstantsAssumption, AgentInv, Next, NEW r \in Run, status[r] \notin New
    PROVE  status'[r] \notin New
BY RunStep DEF AgentInv, Stays, Taken, Walked, BlockedBy, New, Active

\* What the aggregation opens is pending, like its group.
LEMMA AggregatedGates ==
    ASSUME TypeInv, NEW w \in Worker, AggregateRisk(w), NEW r \in Run, ctx[w].run = r
    PROVE  /\ \A g \in Group : groups'[r][g] # "latent"
           /\ \A x \in gates'[r] : x \in gates[r] \/ groups'[r][x.member] = "pending"
<1> DEFINE aggregated == [g \in Group |->
                           IF groups[r][g] = "latent" THEN "pending" ELSE groups[r][g]]
           open == {g \in Group : aggregated[g] = "pending"}
           opened == {NewGate("high_risk_approval", ctx[w].cursor, g) : g \in open}
<1>1. groups' = [groups EXCEPT ![r] = aggregated] /\ gates' = [gates EXCEPT ![r] = gates[r] \cup opened]
      BY DEF AggregateRisk
<1>2. groups'[r] = aggregated /\ gates'[r] = gates[r] \cup opened
  <2> HIDE DEF aggregated, opened
  <2> QED BY <1>1 DEF TypeInv, TypeOK
<1>3. \A x \in opened : aggregated[x.member] = "pending"
      BY DEF NewGate
<1>4. \A g \in Group : aggregated[g] # "latent"
      OBVIOUS
<1> HIDE DEF aggregated, opened
<1> QED BY <1>2, <1>3, <1>4

LEMMA AggregatesThere ==
    ASSUME ConstantsAssumption, AgentInv, NEW w \in Worker, AggregateRisk(w)
    PROVE  /\ ctx[w].run \in Run /\ status[ctx[w].run] \notin New /\ UNCHANGED rowVars
           /\ node[ctx[w].run] = "aggregate_risk" /\ ctx[w].cursor = cursor[ctx[w].run]
<1>1. /\ ctx[w].pc = "execute" /\ AtCursor(w) /\ UNCHANGED rowVars
      /\ Executor(ctx[w].node, ctx[w].act) = "aggregate_risk"
      BY DEF AggregateRisk, Executing
<1>2. ctx[w].act.kind = "aggregate_risk"
      BY <1>1, ServedBy
<1>3. ctx[w].node = "aggregate_risk"
      BY <1>1, <1>2, CarriedEdge DEF AgentInv, EdgeFacts, PlanEdge, TerminateAction, Acting
<1> QED BY <1>1, <1>3, StandsThere DEF Busy, AtCursor

\* A group, once found, stays found; none is found after it.
LEMMA FoundStays ==
    ASSUME ConstantsAssumption, AgentInv, Next, NEW r \in Run, NEW g \in Group, groups[r][g] \in Found
    PROVE  /\ groups'[r][g] \in Found /\ status'[r] \notin New
           /\ \A h \in Group : groups'[r][h] # "latent"
           /\ \A h \in Group : groups'[r][h] = "pending" => groups[r][h] = "pending"
<1>1. status[r] \notin New /\ \A h \in Group : groups[r][h] # "latent"
      BY DEF AgentInv, GroupInv, GroupsOfRun
<1>2. ~Start(r)
      BY <1>1 DEF Start, New
<1>3. \A h \in Group : groups'[r][h] = groups[r][h] \/ groups'[r][h] \in Outcome
      BY <1>1, <1>2, GroupStep DEF AgentInv
<1> QED BY <1>1, <1>3, StartedStays DEF Found, Outcome

LEMMA GroupsOfRunStep ==
    ASSUME ConstantsAssumption, AgentInv, Next, NEW r \in Run
    PROVE  GroupsOfRun(r)'
<1>1. ASSUME NEW g \in Group, groups'[r][g] \in Found, groups[r][g] \notin Found
      PROVE  status'[r] \notin New /\ \A h \in Group : groups'[r][h] # "latent"
  <2>1. ~Start(r)
    <3> SUFFICES ASSUME Start(r) PROVE FALSE
        OBVIOUS
    <3>1. PICK G \in SUBSET Group : groups' =
              [groups EXCEPT ![r] = [h \in Group |-> IF h \in G THEN "latent" ELSE "none"]]
          BY DEF Start
    <3>2. groups'[r] = [h \in Group |-> IF h \in G THEN "latent" ELSE "none"]
          BY <3>1 DEF AgentInv, TypeInv, TypeOK
    <3> QED BY <1>1, <3>2 DEF Found, Outcome
  <2>2. ~\E c \in deciding[r] : c.group = g
        BY <1>1 DEF AgentInv, GroupInv, GroupsOfRun
  <2>3. ~\E q \in loaded[r], d \in Outcome :
             q.gate.kind = "high_risk_approval" /\ q.gate.member = g /\ DecideGate(r, q, d)
        BY <1>1 DEF AgentInv, GroupInv, GatesOfGroups, DecideGate, ActionableAs
  <2>4. PICK w \in Worker : AggregateRisk(w) /\ ctx[w].run = r
        BY <1>1, <2>1, <2>2, <2>3, GroupStep DEF AgentInv
  <2> QED BY <2>4, AggregatesThere, AggregatedGates, StartedStays DEF AgentInv
<1>2. ASSUME NEW c \in deciding'[r]
      PROVE  /\ LegacyApprovals /\ groups'[r][c.group] \in Found
             /\ c.last => \A h \in Group \ {c.group} : groups'[r][h] # "pending"
  <2>1. CASE c \in deciding[r]
    <3>1. c.group \in Group
          BY <2>1 DEF AgentInv, TypeInv, TypeOK, GroupDecision
    <3> QED BY <2>1, <3>1, FoundStays DEF AgentInv, GroupInv, GroupsOfRun
  <2>2. CASE c \notin deciding[r]
        BY <2>2, DecidingStep DEF AgentInv
  <2> QED BY <2>1, <2>2
<1>3. ASSUME NEW g \in Group, groups'[r][g] \in Found
      PROVE  status'[r] \notin New /\ \A h \in Group : groups'[r][h] # "latent"
  <2>1. CASE groups[r][g] \in Found
        BY <2>1, FoundStays
  <2> QED BY <1>1, <1>3, <2>1
<1> QED BY <1>2, <1>3 DEF GroupsOfRun

\* Where the gates of groups come from.
LEMMA GroupGateStep ==
    ASSUME ConstantsAssumption, AgentInv, Next, NEW r \in Run, NEW x \in gates'[r],
           x.kind = "high_risk_approval"
    PROVE  \/ x \in gates[r]
           \/ /\ x.st # "pending"
              /\ \E y \in gates[r] : y.kind = x.kind /\ y.at = x.at /\ y.member = x.member
           \/ /\ x.member \in Group /\ groups'[r][x.member] = "pending"
              /\ x.at = cursor[r] /\ node[r] = "aggregate_risk" /\ UNCHANGED <<node, cursor>>
<1>1. ASSUME NEW w \in Worker, Records(w, r, x), x \notin gates[r]
      PROVE  /\ x.member \in Group /\ groups'[r][x.member] = "pending"
             /\ x.at = cursor[r] /\ node[r] = "aggregate_risk" /\ UNCHANGED <<node, cursor>>
      BY <1>1, AggregatesThere, AggregatedGates DEF Records, AgentInv, rowVars
<1> QED BY <1>1, GateStep DEF AgentInv, GateFrom, WasPending

LEMMA GatesOfGroupsStep ==
    ASSUME ConstantsAssumption, AgentInv, Next, NEW r \in Run
    PROVE  GatesOfGroups(r)'
<1>0. GatesOfGroups(r)
      BY DEF AgentInv, GroupInv
<1>1. ASSUME NEW y \in gates[r], y.kind = "high_risk_approval"
      PROVE  node'[r] \in PlanNodes \/ (node'[r] = "aggregate_risk" /\ cursor'[r] = cursor[r]
                                        /\ node[r] = "aggregate_risk")
  <2>1. /\ groups[r][y.member] \in Found /\ y.member \in Group
        /\ node[r] \in PlanNodes \cup {"aggregate_risk"}
        BY <1>0, <1>1 DEF GatesOfGroups
  <2>2. ~Taken(r)
        BY <2>1 DEF Taken, AgentInv, GroupInv, GroupsOfRun
  <2>3. ASSUME NEW w \in Worker, Walked(r, w) PROVE node'[r] \in PlanNodes
    <3>1. CASE node'[r] = "drain_current_atomic_unit"
          BY <3>1 DEF PlanNodes
    <3>2. CASE EdgeFacts(node[r], ctx[w].act.kind, node'[r])
          BY <2>1, <3>2 DEF EdgeFacts, PlanEdge
    <3> QED BY <2>3, <3>1, <3>2, WalkedEdge
  <2>4. ASSUME NEW w \in Worker, BlockedBy(r, w) PROVE node'[r] \in PlanNodes
        BY <2>4 DEF BlockedBy, PlanNodes
  <2> QED BY <2>1, <2>2, <2>3, <2>4, RunStep DEF AgentInv, Stays
<1>2. "aggregate_risk" \notin PlanNodes
      BY DEF PlanNodes
<1>3. ASSUME NEW x \in gates'[r], x.kind = "high_risk_approval"
      PROVE  /\ x.member \in Group /\ groups'[r][x.member] \in Found
             /\ node'[r] \in PlanNodes \/ (node'[r] = "aggregate_risk" /\ x.at = cursor'[r])
             /\ \A y \in gates[r] : y.kind = "high_risk_approval" => y.at = x.at
  <2>1. CASE \E y \in gates[r] : y.kind = x.kind /\ y.at = x.at /\ y.member = x.member
        BY <1>0, <1>1, <1>2, <1>3, <2>1, FoundStays DEF GatesOfGroups
  <2>2. CASE /\ x.member \in Group /\ groups'[r][x.member] = "pending"
             /\ x.at = cursor[r] /\ node[r] = "aggregate_risk" /\ UNCHANGED <<node, cursor>>
        BY <1>0, <1>2, <2>2 DEF GatesOfGroups, Found
  <2> QED BY <1>3, <2>1, <2>2, GroupGateStep
<1>4. ASSUME NEW x \in gates'[r], x.kind = "high_risk_approval",
             NEW y \in gates'[r], y.kind = "high_risk_approval"
      PROVE  y.at = x.at
  <2>1. \/ \E z \in gates[r] : z.kind = "high_risk_approval" /\ z.at = x.at
        \/ x.at = cursor[r] /\ node[r] = "aggregate_risk"
        BY <1>4, GroupGateStep
  <2>2. \/ \E z \in gates[r] : z.kind = "high_risk_approval" /\ z.at = y.at
        \/ y.at = cursor[r] /\ node[r] = "aggregate_risk"
        BY <1>4, GroupGateStep
  <2> QED BY <1>0, <1>2, <2>1, <2>2 DEF GatesOfGroups
<1>5. ASSUME NEW x \in gates'[r], x.kind = "high_risk_approval", ~LegacyApprovals, x.st = "pending"
      PROVE  groups'[r][x.member] = "pending"
  <2>1. CASE x \in gates[r]
    <3>1. groups[r][x.member] = "pending" /\ x.member \in Group
          BY <1>0, <1>5, <2>1 DEF GatesOfGroups
    <3>2. ~Start(r) /\ deciding[r] = {}
          BY <1>5, <3>1 DEF AgentInv, GroupInv, GroupsOfRun, Found, Start, New
    <3>3. ASSUME NEW q \in loaded[r], NEW d \in Outcome, DecideGate(r, q, d),
                 q.gate.kind = "high_risk_approval", q.gate.member = x.member
          PROVE  FALSE
      <4>1. q.gate \in gates[r] /\ q.gate.st = "pending" /\ Settle(r, q.gate, d)
            BY <3>3 DEF DecideGate, ActionableAs
      <4>2. x \in Gate /\ q.gate \in Gate /\ q.gate.at = x.at
            BY <1>0, <1>5, <2>1, <3>3, <4>1 DEF GatesOfGroups, AgentInv, TypeInv, TypeOK
      <4>3. q.gate = x
            BY <1>5, <3>3, <4>1, <4>2 DEF Gate
      <4>4. gates'[r] = (gates[r] \ {x}) \cup {[x EXCEPT !.st = d]}
            BY <4>1, <4>3 DEF Settle, AgentInv, TypeInv, TypeOK
      <4>5. [x EXCEPT !.st = d].st = d
            BY <4>2 DEF Gate
      <4> QED BY <1>5, <4>4, <4>5 DEF Outcome
    <3> QED BY <3>1, <3>2, <3>3, GroupStep DEF AgentInv
  <2>2. CASE x \notin gates[r]
        BY <1>5, <2>2, GroupGateStep
  <2> QED BY <2>1, <2>2
<1> QED BY <1>3, <1>4, <1>5 DEF GatesOfGroups

LEMMA RunningStep ==
    ASSUME ConstantsAssumption, AgentInv, Next
    PROVE  RunningOrEnded'
<1> SUFFICES ASSUME NEW v \in Worker, Busy(v)', Current(v)'
             PROVE  status'[ctx'[v].run] \in {"running"} \cup Terminal
    BY DEF RunningOrEnded
<1>1. ASSUME NEW r \in Run, Claim(v, r) PROVE status'[ctx'[v].run] = "running"
      BY <1>1, ClaimWrites DEF rowVars, AgentInv
<1>2. CASE ~\E r \in Run : Claim(v, r)
  <2>1. /\ Busy(v) /\ Current(v) /\ ctx'[v].run = ctx[v].run
        /\ Stays(ctx[v].run)
        BY <1>2, StillCurrent
  <2>2. status[ctx[v].run] \in {"running"} \cup Terminal
        BY <2>1 DEF AgentInv, PlaceInv, RunningOrEnded
  <2> QED BY <2>1, <2>2 DEF Stays, Active, Terminal
<1> QED BY <1>1, <1>2

LEMMA BlockedStep ==
    ASSUME ConstantsAssumption, AgentInv, Next, NEW r \in Run
    PROVE  BlockedStands(r)'
<1>0. BlockedStands(r)
      BY DEF AgentInv, PlaceInv
<1>1. ASSUME NEW w \in Worker, Walked(r, w)
      PROVE  node'[r] # "blocked_model_error" /\ status'[r] # "blocked_model_error"
  <2>1. Busy(w) /\ Current(w) /\ ctx[w].run = r
        BY <1>1, WalkedEdge DEF Walked
  <2>2. status[r] # "blocked_model_error"
        BY <1>1, <2>1 DEF AgentInv, PlaceInv, RunningOrEnded, Terminal
  <2> QED BY <1>1, <2>2, WalkedEdge DEF Walked, EdgeFacts, EndEdge
<1>2. /\ status'[r] = "blocked_model_error" => node'[r] = "blocked_model_error"
      /\ status'[r] = "waiting_human" => node'[r] # "blocked_model_error"
      BY <1>0, <1>1, RunStep DEF AgentInv, BlockedStands, Stays, Taken, BlockedBy
<1>3. ASSUME NEW q \in loaded'[r], q.gate.kind = "termination_confirmation",
             q.gate.at = cursor'[r], q.seen = "waiting_human"
      PROVE  node'[r] # "blocked_model_error"
  <2>1. CASE q \in loaded[r]
    <3>1. status[r] \notin New /\ q.gate.at <= cursor[r]
          BY <1>3, <2>1 DEF AgentInv, SafeInv, CallsArePast, PlaceOf, New
    <3>2. cursor[r] \in Nat
          BY DEF AgentInv, TypeInv, TypeOK
    <3>3. Stays(r)
          BY <1>3, <3>1, <3>2, RunStep DEF AgentInv, Taken, Walked, BlockedBy
    <3> QED BY <1>0, <1>3, <2>1, <3>3 DEF BlockedStands, Stays
  <2>2. CASE q \notin loaded[r]
    <3>1. LoadForDecision(r, q.gate) /\ q.seen = status[r]
          BY <2>2, LoadedStep DEF AgentInv
    <3> QED BY <1>0, <1>3, <3>1 DEF BlockedStands, LoadForDecision, rowVars
  <2> QED BY <2>1, <2>2
<1> QED BY <1>2, <1>3 DEF BlockedStands

LEMMA AgentStep == AgentInv /\ [Next]_vars => GroupInv' /\ PlaceInv'
<1> SUFFICES ASSUME AgentInv, [Next]_vars PROVE GroupInv' /\ PlaceInv'
    OBVIOUS
<1>1. CASE Next
      BY <1>1, GroupsOfRunStep, GatesOfGroupsStep, RunningStep, BlockedStep, ConstantsAssumption
         DEF GroupInv, PlaceInv
<1>2. CASE UNCHANGED vars
      BY <1>2 DEF vars, rowVars, humanVars, callVars, AgentInv, GroupInv, PlaceInv, GroupsOfRun,
             GatesOfGroups, RunningOrEnded, BlockedStands, Busy, Current
<1> QED BY <1>1, <1>2

\* What the proofs below start from.
LEMMA Agents == Spec => []AgentInv
<1>1. Init => GroupInv /\ PlaceInv
      BY ConstantsAssumption DEF Init, GroupInv, GroupsOfRun, GatesOfGroups, PlaceInv, RunningOrEnded,
         BlockedStands, IdleContext, Busy, Found, Outcome
<1>2. AgentInv <=> (TypeInv /\ SafeInv /\ DecisionInv) /\ GroupInv /\ PlaceInv
      BY DEF AgentInv
<1> QED BY <1>1, <1>2, AgentStep, Decisions, PTL DEF Spec

-----------------------------------------------------------------------------
(* Plans *)

\* A run with a plan has passed the aggregation of its groups.
PlannedBehindGate == \A r \in Run : plan[r].approved # {} => node[r] \in PlanNodes

PlanInv == PlannedBehindGate /\ PlanOnlyApproved

LEMMA PlanInit == ASSUME ConstantsAssumption PROVE Init => PlanInv
BY DEF Init, PlanInv, PlannedBehindGate, PlanOnlyApproved, NoPlan

\* The compilation happens behind the gate.
LEMMA CompilesBehindGate ==
    ASSUME ConstantsAssumption, AgentInv, NEW w \in Worker, CompileExecutionPlan(w)
    PROVE  /\ ctx[w].run \in Run /\ node[ctx[w].run] \in PlanNodes
           /\ UNCHANGED <<rowVars, humanVars>>
<1>1. /\ ctx[w].pc = "execute" /\ AtCursor(w) /\ UNCHANGED <<rowVars, humanVars>>
      /\ Executor(ctx[w].node, ctx[w].act) = "compile_execution_plan"
      BY DEF CompileExecutionPlan, Executing
<1>2. ctx[w].run \in Run /\ node[ctx[w].run] = ctx[w].node
      BY <1>1, StandsThere DEF Busy
<1>3. ctx[w].act.kind = "compile_execution_plan"
      BY <1>1, ServedBy
<1>4. ctx[w].node \in {"wait_high_risk_approvals", "wait_replan_confirmation"}
      BY <1>1, <1>3, CarriedEdge DEF AgentInv, EdgeFacts, PlanEdge, TerminateAction, Acting
<1> QED BY <1>1, <1>2, <1>4 DEF PlanNodes

LEMMA PlannedStep ==
    ASSUME ConstantsAssumption, AgentInv, PlannedBehindGate, Next
    PROVE  PlannedBehindGate'
<1> SUFFICES ASSUME NEW r \in Run, plan'[r].approved # {}
             PROVE  node'[r] \in PlanNodes
    BY DEF PlannedBehindGate
<1>1. ASSUME NEW w \in Worker, CompileExecutionPlan(w), ctx[w].run = r
      PROVE  node'[r] \in PlanNodes
      BY <1>1, CompilesBehindGate DEF rowVars
<1>2. CASE plan'[r] = plan[r]
  <2>1. node[r] \in PlanNodes
        BY <1>2 DEF PlannedBehindGate
  <2>2. CASE Stays(r)
        BY <2>1, <2>2 DEF Stays
  <2>3. CASE Taken(r)
    <3>1. node[r] = InitialNode(VersionOf[r]) /\ VersionOf[r] \in GraphVersion
          BY <2>3 DEF Taken, AgentInv, DecisionInv, RunFollowsGraph, ConstantsAssumption
    <3> QED BY <2>1, <3>1, BeginsEarly
  <2>4. ASSUME NEW w \in Worker, Walked(r, w) PROVE node'[r] \in PlanNodes
    <3>1. CASE node'[r] = "drain_current_atomic_unit"
          BY <3>1 DEF PlanNodes
    <3>2. CASE EdgeFacts(node[r], ctx[w].act.kind, node'[r])
          BY <2>1, <3>2 DEF EdgeFacts, PlanEdge
    <3> QED BY <2>4, <3>1, <3>2, WalkedEdge
  <2>5. ASSUME NEW w \in Worker, BlockedBy(r, w) PROVE node'[r] = "blocked_model_error"
        BY <2>5 DEF BlockedBy
  <2> QED BY <2>2, <2>3, <2>4, <2>5, RunStep DEF AgentInv, PlanNodes
<1> QED BY <1>1, <1>2, WorkStep DEF AgentInv

\* Only the group endpoints take an approval back: the gate of a group that was
\* decided through it is no longer pending.
LEMMA ApprovalsStay ==
    ASSUME ConstantsAssumption, AgentInv, Next, NEW r \in Run, NEW g \in Group,
           groups[r][g] = "approved" \/ (LegacyApprovals /\ groups[r][g] = "rejected")
    PROVE  groups'[r][g] = "approved" \/ (LegacyApprovals /\ groups'[r][g] = "rejected")
<1>1. groups[r][g] \in Found /\ groups[r][g] # "latent" /\ groups[r][g] # "pending"
      BY DEF Found, Outcome
<1>2. ~Start(r)
      BY <1>1 DEF AgentInv, GroupInv, GroupsOfRun, Start, New
<1>3. ASSUME NEW c \in deciding[r] PROVE LegacyApprovals
      BY <1>3 DEF AgentInv, GroupInv, GroupsOfRun
<1>4. ASSUME NEW q \in loaded[r], NEW d \in Outcome, DecideGate(r, q, d),
             q.gate.kind = "high_risk_approval", q.gate.member = g
      PROVE  LegacyApprovals
  <2>1. q.gate \in gates[r] /\ q.gate.st = "pending"
        BY <1>4 DEF DecideGate, ActionableAs
  <2> QED BY <1>1, <1>4, <2>1 DEF AgentInv, GroupInv, GatesOfGroups
<1> QED BY <1>1, <1>2, <1>3, <1>4, GroupStep DEF AgentInv, Outcome

LEMMA ApprovedPlanStep ==
    ASSUME ConstantsAssumption, AgentInv, PlanInv, Next
    PROVE  PlanOnlyApproved'
<1> SUFFICES ASSUME NEW r \in Run, NEW g \in Group, g \in plan'[r].approved
             PROVE  groups'[r][g] = "approved" \/ (LegacyApprovals /\ groups'[r][g] = "rejected")
  <2>1. \A r \in Run : plan'[r].approved \subseteq Group
        BY TypeStep DEF TypeInv, TypeOK, AgentInv
  <2> QED BY <2>1 DEF PlanOnlyApproved
<1>1. ASSUME NEW w \in Worker, CompileExecutionPlan(w), ctx[w].run = r, plan'[r] # plan[r]
      PROVE  groups'[r][g] = "approved"
  <2> DEFINE approved == {h \in Group : groups[ctx[w].run][h] = "approved"}
  <2>1. /\ plan' = [plan EXCEPT ![r] = [made |-> TRUE, approved |-> approved]]
        /\ UNCHANGED humanVars
        BY <1>1 DEF CompileExecutionPlan
  <2>2. plan'[r].approved = approved
    <3> HIDE DEF approved
    <3> QED BY <2>1 DEF AgentInv, TypeInv, TypeOK
  <2> QED BY <1>1, <2>1, <2>2 DEF humanVars
<1>2. CASE plan'[r] = plan[r]
      BY <1>2, ApprovalsStay DEF PlanInv, PlanOnlyApproved
<1> QED BY <1>1, <1>2, WorkStep DEF AgentInv

LEMMA PlanStep == AgentInv /\ PlanInv /\ [Next]_vars => PlanInv'
<1> SUFFICES ASSUME AgentInv, PlanInv, [Next]_vars PROVE PlanInv'
    OBVIOUS
<1>1. CASE Next
      BY <1>1, PlannedStep, ApprovedPlanStep, ConstantsAssumption DEF PlanInv
<1>2. CASE UNCHANGED vars
      BY <1>2 DEF vars, rowVars, humanVars, workVars, PlanInv, PlannedBehindGate, PlanOnlyApproved
<1> QED BY <1>1, <1>2

LEMMA Planned == Spec => [](AgentInv /\ PlanInv)
<1>1. Init => PlanInv
      BY PlanInit, ConstantsAssumption
<1> QED BY <1>1, PlanStep, Agents, PTL DEF Spec

\* What a plan executes was approved, however often it is compiled and in whatever
\* order the gates are decided; only where the group endpoints are used as well can
\* an approval be taken back later.
THEOREM PlansAreApproved == Spec => []PlanOnlyApproved
<1>1. PlanInv => PlanOnlyApproved
      BY DEF PlanInv
<1> QED BY <1>1, Planned, PTL

-----------------------------------------------------------------------------
(* Restores *)

Approved(r) ==
    /\ ConflictsApproved(r)
    /\ \E x \in gates[r] : x.kind = "rollback_approval" /\ x.st = "approved"

\* A run behind the compilation of its restore plan is approved.
RestoreIsApproved ==
    \A r \in Run : node[r] \in RestoreNodes \/ "restore" \in applied[r] => Approved(r)

\* The approval is asked for when the conflicts are known.
ApprovalAfterAssess ==
    \A r \in Run : (\E x \in gates[r] : x.kind = "rollback_approval") => node[r] \in AfterAssess

\* So is the run of a worker that executes a restore, however late, and that of
\* one that has compiled the restore plan.
RestorerIsApproved ==
    \A w \in Worker :
        /\ Busy(w) /\ ctx[w].node \in RestoreNodes => Approved(ctx[w].run)
        /\ /\ ctx[w].pc = "commit" /\ ctx[w].node = "compile_restore_plan"
           /\ ctx[w].act # TerminateAction
           => Approved(ctx[w].run)

RestoreInv == RestoreIsApproved /\ ApprovalAfterAssess /\ RestorerIsApproved

LEMMA RestoreInit == ASSUME ConstantsAssumption PROVE Init => RestoreInv
<1> SUFFICES ASSUME Init PROVE RestoreInv
    OBVIOUS
<1>1. ASSUME NEW r \in Run
      PROVE  node[r] = InitialNode(VersionOf[r]) /\ VersionOf[r] \in GraphVersion
      BY <1>1 DEF Init, ConstantsAssumption
<1>2. \A r \in Run : node[r] \notin AfterAssess
      BY <1>1, BeginsEarly
<1>3. RestoreIsApproved
      BY <1>2 DEF Init, RestoreIsApproved, AfterAssess
<1>4. ApprovalAfterAssess /\ RestorerIsApproved
      BY DEF Init, ApprovalAfterAssess, RestorerIsApproved, IdleContext, Busy
<1> QED BY <1>3, <1>4 DEF RestoreInv

\* A new conflict is found at the assessment only.
LEMMA ConflictsStay ==
    ASSUME ConstantsAssumption, AgentInv, Next, NEW r \in Run,
           node[r] # "assess_restore_impact", ConflictsApproved(r)
    PROVE  ConflictsApproved(r)'
<1> SUFFICES ASSUME NEW x \in gates'[r], x.kind = "rollback_conflict" PROVE x.st = "approved"
    BY DEF ConflictsApproved
<1>1. ~WasPending(r, x)
      BY DEF WasPending, ConflictsApproved
<1>2. ASSUME NEW w \in Worker, Records(w, r, x) PROVE FALSE
  <2>1. AssessRollback(w) /\ ctx[w].run = r /\ AtCursor(w) /\ Busy(w)
        BY <1>2 DEF Records, Busy
  <2>2. ctx[w].node = "assess_restore_impact"
        BY <2>1, ServedBy DEF AssessRollback, Executing
  <2> QED BY <2>1, <2>2, StandsThere
<1>3. x \in gates[r]
      BY <1>1, <1>2, GateStep DEF AgentInv, GateFrom
<1> QED BY <1>3 DEF ConflictsApproved

\* An approval exists only behind the assessment.
LEMMA ApprovedStays ==
    ASSUME ConstantsAssumption, AgentInv, ApprovalAfterAssess, Next, NEW r \in Run, Approved(r)
    PROVE  Approved(r)'
<1>1. PICK y \in gates[r] : y.kind = "rollback_approval" /\ y.st = "approved"
      BY DEF Approved
<1>2. y \in gates'[r]
      BY <1>1, GateKept DEF AgentInv, Decides
<1>3. node[r] \in AfterAssess
      BY <1>1 DEF ApprovalAfterAssess
<1>4. ConflictsApproved(r)'
      BY <1>3, ConflictsStay DEF Approved, AfterAssess, RestoreNodes
<1> QED BY <1>1, <1>2, <1>4 DEF Approved

LEMMA RestoreIsApprovedStep ==
    ASSUME ConstantsAssumption, AgentInv, RestoreInv, Next
    PROVE  RestoreIsApproved'
<1> SUFFICES ASSUME NEW r \in Run, node'[r] \in RestoreNodes \/ "restore" \in applied'[r]
             PROVE  Approved(r)
    BY ApprovedStays DEF RestoreIsApproved, RestoreInv
<1>1. CASE "restore" \in applied'[r] /\ "restore" \notin applied[r]
  <2>1. PICK w \in Worker : ExecuteRollback(w) /\ ctx[w].run = r
        BY <1>1, WorkStep DEF AgentInv
  <2>2. Busy(w) /\ ctx[w].node = "execute_restore_operations"
        BY <2>1, ServedBy DEF ExecuteRollback, Executing, Busy
  <2> QED BY <2>1, <2>2 DEF RestoreInv, RestorerIsApproved, RestoreNodes
<1>2. CASE "restore" \in applied[r] \/ node[r] \in RestoreNodes
      BY <1>2 DEF RestoreInv, RestoreIsApproved
<1>3. CASE node'[r] \in RestoreNodes /\ node[r] \notin RestoreNodes
  <2>1. ~Stays(r) /\ ~\E w \in Worker : BlockedBy(r, w)
        BY <1>3 DEF Stays, BlockedBy, RestoreNodes
  <2>2. ~Taken(r)
        BY <1>3, BeginsEarly DEF Taken, AfterAssess, ConstantsAssumption
  <2>3. PICK w \in Worker : Walked(r, w)
        BY <2>1, <2>2, RunStep DEF AgentInv
  <2>4. ctx[w].act # TerminateAction /\ EdgeFacts(node[r], ctx[w].act.kind, node'[r])
        BY <1>3, <2>3, WalkedEdge DEF RestoreNodes, TerminateAction
  <2>5. ctx[w].node = "compile_restore_plan" /\ ctx[w].pc = "commit" /\ ctx[w].run = r
        BY <1>3, <2>3, <2>4, WalkedEdge DEF EdgeFacts, RestoreEdge, Walked
  <2> QED BY <2>4, <2>5 DEF RestoreInv, RestorerIsApproved
<1> QED BY <1>1, <1>2, <1>3

LEMMA ApprovalStep ==
    ASSUME ConstantsAssumption, AgentInv, ApprovalAfterAssess, Next
    PROVE  ApprovalAfterAssess'
<1> SUFFICES ASSUME NEW r \in Run, NEW x \in gates'[r], x.kind = "rollback_approval"
             PROVE  node'[r] \in AfterAssess
    BY DEF ApprovalAfterAssess
<1>1. ASSUME NEW w \in Worker, Records(w, r, x) PROVE node'[r] \in AfterAssess
  <2>1. EnterRollbackApproval(w) /\ ctx[w].run = r /\ AtCursor(w) /\ Busy(w)
        BY <1>1 DEF Records, Busy
  <2>2. ctx[w].node = "wait_restore_conflicts" /\ node' = node
        BY <2>1, ServedBy DEF EnterRollbackApproval, Executing, rowVars
  <2> QED BY <2>1, <2>2, StandsThere DEF AfterAssess
<1>2. CASE x \in gates[r] \/ WasPending(r, x)
  <2>1. node[r] \in AfterAssess
        BY <1>2 DEF WasPending, ApprovalAfterAssess
  <2>2. ~Taken(r)
    <3>1. status[r] \in New => node[r] = InitialNode(VersionOf[r])
          BY DEF AgentInv, DecisionInv, RunFollowsGraph
    <3> QED BY <2>1, <3>1, BeginsEarly DEF Taken, ConstantsAssumption
  <2>3. ASSUME NEW w \in Worker, Walked(r, w) PROVE node'[r] \in AfterAssess
        BY <2>1, <2>3, WalkedEdge DEF EdgeFacts, RestoreEdge, AfterAssess
  <2> QED BY <2>1, <2>2, <2>3, RunStep DEF AgentInv, Stays, BlockedBy, AfterAssess
<1> QED BY <1>1, <1>2, GateStep DEF AgentInv, GateFrom

\* The compilation of the restore plan looks for the approvals.
LEMMA CompilesApproved ==
    ASSUME NEW w \in Worker, CompileRollback(w)
    PROVE  Approved(ctx[w].run)
<1> DEFINE approvals == {x \in gates[ctx[w].run] : x.kind = "rollback_approval"}
<1>1. Cardinality(approvals) = 1 /\ \A x \in approvals : x.st = "approved"
      BY DEF CompileRollback
<1>2. approvals # {}
  <2> SUFFICES ASSUME approvals = {} PROVE FALSE
      OBVIOUS
  <2>1. Cardinality({}) = 0
        BY FS_EmptySet
  <2> HIDE DEF approvals
  <2>2. Cardinality(approvals) = 0
        BY <2>1
  <2> QED BY <1>1, <2>2
<1> QED BY <1>1, <1>2 DEF CompileRollback, Approved

LEMMA RestorerStep ==
    ASSUME ConstantsAssumption, AgentInv, RestoreInv, Next
    PROVE  RestorerIsApproved'
<1> SUFFICES ASSUME NEW v \in Worker,
                    \/ Busy(v)' /\ ctx'[v].node \in RestoreNodes
                    \/ /\ ctx'[v].pc = "commit" /\ ctx'[v].node = "compile_restore_plan"
                       /\ ctx'[v].act # TerminateAction
             PROVE  ctx'[v].run \in Run /\ Approved(ctx'[v].run)
    BY ApprovedStays DEF RestorerIsApproved, RestoreInv, Approved, ConflictsApproved
<1>0. Busy(v)' /\ ctx'[v].run \in Run
      BY TypeStep DEF Busy, AgentInv, TypeInv, ActionChosen
<1>1. CASE ctx'[v].node \in RestoreNodes
  <2>1. ASSUME NEW r \in Run, Claim(v, r) PROVE Approved(ctx'[v].run)
        BY <1>1, <2>1, ClaimWrites DEF AgentInv, RestoreInv, RestoreIsApproved
  <2>2. CASE Busy(v) /\ ctx'[v].run = ctx[v].run /\ ctx'[v].node = ctx[v].node
    <3>1. Busy(v) /\ ctx[v].node \in RestoreNodes
          BY <1>1, <2>2
    <3>2. Approved(ctx[v].run)
          BY <3>1 DEF RestoreInv, RestorerIsApproved
    <3> QED BY <1>0, <2>2, <3>2
  <2> QED BY <1>0, <2>1, <2>2, PlaceIsKept DEF AgentInv
<1>2. CASE /\ ctx'[v].pc = "commit" /\ ctx'[v].node = "compile_restore_plan"
           /\ ctx'[v].act # TerminateAction
  <2>1. CASE ctx'[v] = ctx[v]
        BY <1>0, <1>2, <2>1 DEF RestoreInv, RestorerIsApproved
  <2>2. CASE /\ Execute(v) /\ ctx[v].pc = "execute" /\ ctx'[v].act = ctx[v].act
             /\ ctx'[v].run = ctx[v].run /\ ctx'[v].node = ctx[v].node
    <3>1. EdgeFacts(ctx[v].node, ctx[v].act.kind, ctx[v].act.to)
          BY <1>2, <2>2, CarriedEdge DEF AgentInv, Acting
    <3>2. ctx[v].act.kind \notin OwnExecutor
          BY <1>2, <2>2, <3>1 DEF EdgeFacts, RestoreEdge, ServingNodes
    <3>3. Executing(v, "compile_rollback")
          BY <1>2, <2>2, <3>2, ServesWhat DEF Executing
    <3> QED BY <1>0, <1>2, <2>2, <3>3, ServedWhole, CompilesApproved DEF AgentInv
  <2> QED BY <1>2, <2>1, <2>2, CommitStage DEF AgentInv
<1> QED BY <1>0, <1>1, <1>2

LEMMA RestoreStep == AgentInv /\ RestoreInv /\ [Next]_vars => RestoreInv'
<1> SUFFICES ASSUME AgentInv, RestoreInv, [Next]_vars PROVE RestoreInv'
    OBVIOUS
<1>1. CASE Next
      BY <1>1, RestoreIsApprovedStep, ApprovalStep, RestorerStep, ConstantsAssumption DEF RestoreInv
<1>2. CASE UNCHANGED vars
      BY <1>2 DEF vars, rowVars, humanVars, workVars, RestoreInv, RestoreIsApproved,
             ApprovalAfterAssess, RestorerIsApproved, Approved, ConflictsApproved, Busy
<1> QED BY <1>1, <1>2

\* No restore is written without the approval of the rollback and of every
\* conflict it found, by however late a worker.
THEOREM RestoresAreApproved == Spec => []RestoreWasApproved
<1>1. Init => RestoreInv
      BY RestoreInit, ConstantsAssumption
<1>2. RestoreInv => RestoreWasApproved
      BY DEF RestoreInv, RestoreIsApproved, RestoreWasApproved, Approved
<1> QED BY <1>1, <1>2, RestoreStep, Agents, PTL DEF Spec

-----------------------------------------------------------------------------
(* Reports *)

\* A run that drains, reports its termination, or leaves a blocked node.
Terminating(r) ==
    \/ node[r] \in TermNodes \/ frozen[r] = TerminateAction \/ report[r] = "terminated"
    \/ node[r] = "blocked_model_error" /\ status[r] # "blocked_model_error"

\* It does so only when termination was asked for.
TerminatesOnRequest == \A r \in Run : Terminating(r) => term[r]

\* So do its workers, who may have seen the request before it.
WorkersTerminateOnRequest ==
    \A w \in Worker :
        /\ Busy(w) /\ ctx[w].node \in TermNodes \cup {"blocked_model_error"} => term[ctx[w].run]
        /\ ctx[w].pc \in Acting /\ ctx[w].act = TerminateAction => term[ctx[w].run]

\* Who is about to end the run has its report.
ReportedAtCommit ==
    \A w \in Worker : ctx[w].pc = "commit" /\ ctx[w].act.to = "terminal" => report[ctx[w].run] # "none"

EndInv ==
    TerminatesOnRequest /\ WorkersTerminateOnRequest /\ ReportedAtCommit /\ ReportPrecedesEnd

LEMMA EndInit == ASSUME ConstantsAssumption PROVE Init => EndInv
<1> SUFFICES ASSUME Init PROVE EndInv
    OBVIOUS
<1>1. ASSUME NEW r \in Run PROVE node[r] \notin TermNodes \cup {"blocked_model_error"}
  <2>1. node[r] = InitialNode(VersionOf[r]) /\ VersionOf[r] \in GraphVersion
        BY <1>1 DEF Init, ConstantsAssumption
  <2> QED BY <2>1, BeginsEarly DEF PlanNodes, TermNodes
<1>2. TerminatesOnRequest
      BY <1>1 DEF Init, TerminatesOnRequest, Terminating, NoAction, TerminateAction
<1>3. WorkersTerminateOnRequest /\ ReportedAtCommit /\ ReportPrecedesEnd
      BY DEF Init, WorkersTerminateOnRequest, ReportedAtCommit, ReportPrecedesEnd, IdleContext,
         Busy, Acting
<1> QED BY <1>2, <1>3 DEF EndInv

\* Where the termination action of a worker comes from.
LEMMA TerminationComes ==
    ASSUME ConstantsAssumption, AgentInv, Next, NEW v \in Worker,
           ctx'[v].pc \in Acting, ctx'[v].act = TerminateAction
    PROVE  /\ Busy(v) /\ ctx'[v].run = ctx[v].run
           /\ \/ ctx[v].pc \in Acting /\ ctx[v].act = TerminateAction
              \/ term[ctx[v].run]
              \/ frozen[ctx[v].run] = TerminateAction
<1>0. ctx \in [Worker -> Context] /\ ctx[v] \in Context
      BY DEF AgentInv, TypeInv, TypeOK
<1>1. ~\E r \in Run : Claim(v, r)
      BY ClaimWrites DEF Acting, AgentInv
<1>2. Busy(v) /\ ctx'[v].run = ctx[v].run
      BY <1>1, PlaceIsKept DEF AgentInv, Busy, Acting
<1>3. ~Quit(v)
      BY <1>0, QuitEffect DEF IdleContext, Acting
<1>4. ASSUME NEW p \in Pc, Goto(v, p), ctx[v].pc \in Acting \/ p \notin Acting
      PROVE  ctx[v].pc \in Acting /\ ctx[v].act = TerminateAction
      BY <1>0, <1>4, GotoEffect
<1>5. ASSUME NEW p, NEW a, GotoWith(v, p, a) PROVE a = TerminateAction
  <2>1. ctx'[v] = [ctx[v] EXCEPT !.pc = p, !.act = a]
        BY <1>0, <1>5 DEF GotoWith
  <2> QED BY <1>0, <2>1 DEF Context
<1>6. CASE ctx'[v] = ctx[v]
      BY <1>2, <1>6
<1>7. CASE Idling(v)
  <2>1. CASE BeginTermination(v)
        BY <1>2, <2>1 DEF BeginTermination
  <2>2. CASE BeginReplay(v)
        BY <1>2, <1>5, <2>2 DEF BeginReplay
  <2>3. CASE Evaluate(v)
    <3>1. PICK a \in Offered(ctx[v].run, ctx[v].node) : GotoWith(v, "freeze", a)
          BY <2>3 DEF Evaluate
    <3>2. a = TerminateAction
          BY <3>1, <1>5
    <3>3. VersionOf[ctx[v].run] \in GraphVersion
          BY <1>2 DEF AgentInv, TypeInv, ActionChosen, ConstantsAssumption
    <3>4. TerminateAction \notin ActionsAt(VersionOf[ctx[v].run], ctx[v].node)
          BY <3>3, OfferedEdge DEF EdgeFacts, EndEdge, TerminateAction
    <3>5. term[ctx[v].run]
          BY <3>1, <3>2, <3>4 DEF Offered
    <3> QED BY <1>2, <3>5
  <2>4. CASE BeginFresh(v) \/ Freeze(v) \/ DecideRead(v) \/ DecideInsert(v)
             \/ DecideDuplicate(v) \/ CommitRejected(v)
    <3>1. \E p \in Pc : Goto(v, p) /\ (ctx[v].pc \in Acting \/ p \notin Acting)
          BY <2>4 DEF BeginFresh, Freeze, DecideRead, DecideInsert, DecideDuplicate,
                 CommitRejected, Pc, Acting
    <3> QED BY <1>2, <1>4, <3>1
  <2>5. CASE Abandon(v) \/ HandlerStale(v) \/ LoseClaim(v) \/ Crash(v) \/ TransientError(v)
        BY <1>3, <2>5 DEF Abandon, HandlerStale, LoseClaim, Crash, TransientError
  <2>6. CASE Heartbeat(v)
        BY <1>6, <2>6 DEF Heartbeat
  <2> QED BY <1>7, <2>1, <2>2, <2>3, <2>4, <2>5, <2>6 DEF Idling
<1>8. CASE Execute(v)
  <2>1. \/ ctx[v].pc = "execute" /\ \E b \in BOOLEAN : Executed(v, b)
        \/ Goto(v, "block") \/ Goto(v, "reject")
        BY <1>3, <1>8, ExecutingCarries DEF AgentInv
  <2>2. CASE Goto(v, "block") \/ Goto(v, "reject")
        BY <1>2, <1>4, <2>2 DEF Pc, Acting
  <2>3. CASE ctx[v].pc = "execute" /\ \E b \in BOOLEAN : Executed(v, b)
        BY <1>0, <1>2, <2>3, ExecutedEffect DEF Acting
  <2> QED BY <2>1, <2>2, <2>3
<1>9. CASE Ending(v)
      BY <1>3, <1>9, EndingWrites DEF Finish
<1> QED BY <1>1, <1>6, <1>7, <1>8, <1>9, OwnSteps DEF AgentInv

\* What is frozen is what a worker carries.
LEMMA FrozenComes ==
    ASSUME ConstantsAssumption, AgentInv, Next, NEW r \in Run
    PROVE  \/ frozen'[r] = frozen[r]
           \/ frozen'[r] = NoAction
           \/ \E w \in Worker : ctx[w].pc = "freeze" /\ ctx[w].run = r /\ frozen'[r] = ctx[w].act
<1>0. frozen \in [Run -> Action \cup {NoAction}]
      BY DEF AgentInv, TypeInv, TypeOK
<1>1. ASSUME UNCHANGED stepVars PROVE frozen'[r] = frozen[r]
      BY <1>1 DEF stepVars
<1>2. ASSUME NEW w \in Worker, Idling(w)
      PROVE  \/ frozen'[r] = frozen[r]
             \/ ctx[w].pc = "freeze" /\ ctx[w].run = r /\ frozen'[r] = ctx[w].act
  <2>1. CASE Freeze(w)
        BY <1>0, <2>1 DEF Freeze
  <2>2. CASE ~Freeze(w)
    <3>1. frozen' = frozen
          BY <1>2, <2>2 DEF Idling, BeginTermination, BeginReplay, BeginFresh, Evaluate, DecideRead,
                 DecideInsert, DecideDuplicate, Abandon, CommitRejected, HandlerStale, LoseClaim,
                 Crash, TransientError, Heartbeat, stepVars
    <3> QED BY <3>1
  <2> QED BY <2>1, <2>2
<1>3. ASSUME NEW w \in Worker, Ending(w) PROVE frozen'[r] = frozen[r] \/ frozen'[r] = NoAction
  <2>1. \/ frozen' = frozen
        \/ \E q : frozen' = [frozen EXCEPT ![q] = NoAction]
        BY <1>3 DEF Ending, CommitStep, CommitTerminal, BlockModelFailure, FailActionContract,
               FailPersistenceContract, FailRun, Advance, stepVars
  <2> QED BY <1>0, <2>1
<1> QED BY <1>1, <1>2, <1>3, StepKinds, ClaimWrites, ExecutingCarries, OutsideWrites, ApiWrites
        DEF AgentInv

\* Only an approved termination wakes a blocked run.
LEMMA BlockedWakes ==
    ASSUME ConstantsAssumption, AgentInv, Next, NEW r \in Run,
           status[r] = "blocked_model_error", status'[r] # "blocked_model_error"
    PROVE  term'[r]
<1>0. /\ status \in [Run -> Status] /\ term \in [Run -> BOOLEAN]
      /\ node[r] = "blocked_model_error" /\ BlockedStands(r)
      BY DEF AgentInv, TypeInv, TypeOK, PlaceInv, BlockedStands
<1>1. status' # status
      BY <1>0
<1>2. ASSUME NEW w \in Worker, Ending(w) PROVE FALSE
  <2>1. Finish(w) /\ Fresh(w) /\ status[ctx[w].run] \in Active /\ Busy(w) /\ Current(w)
        BY <1>2, EndingWrites, FinishFacts DEF AgentInv, Finish, Fenced, Fresh, Current
  <2>2. status[ctx[w].run] = "running"
        BY <2>1 DEF AgentInv, PlaceInv, RunningOrEnded, Active, Terminal
  <2>3. status'[r] = status[r]
        BY <1>0, <1>2, <2>2 DEF Ending, CommitStep, CommitTerminal, BlockModelFailure,
           FailActionContract, FailPersistenceContract, FailRun
  <2> QED BY <2>3
<1>3. ASSUME NEW q \in Run, Operator(q) PROVE term'[r]
  <2>1. CASE \E c \in loaded[q] : ApproveTermination(q, c)
        BY <1>0, <2>1 DEF ApproveTermination
  <2>2. CASE Start(q) \/ ConfirmRollback(q)
        BY <1>0, <2>2 DEF Start, ConfirmRollback, TakeSchool
  <2>3. ASSUME NEW c \in loaded[q], NEW d \in Outcome, DecideGate(q, c, d)
        PROVE  FALSE
    <3>1. q = r /\ c.seen = "waiting_human" /\ ActionableAs(r, c.gate, c.seen)
          BY <1>0, <2>3 DEF DecideGate
    <3>2. c.gate.kind \in GateKind
          BY <2>3, <3>1 DEF AgentInv, TypeInv, TypeOK, GateCall, Gate
    <3>3. c.gate.kind # "termination_confirmation"
          BY <1>0, <2>3, <3>1 DEF BlockedStands, ActionableAs
    <3>4. GateNode(c.gate.kind) # "blocked_model_error"
          BY <3>2 DEF GateKind, GateNode
    <3> QED BY <1>0, <3>1, <3>3, <3>4 DEF ActionableAs
  <2>4. CASE \/ \E c \in confirming[q] : ResumeAfterClarification(q, c)
             \/ \E c \in deciding[q], d \in Outcome : ResumeAfterApproval(q, c, d)
        BY <1>0, <2>4 DEF ResumeAfterClarification, ResumeAfterApproval
  <2>5. CASE \/ \E k \in Clarification : InterpretClarification(q, k) \/ ConfirmClarification(q, k)
             \/ \E g \in Group : DecideGroup(q, g)
             \/ \E x \in gates[q] : LoadForDecision(q, x)
             \/ CreateRollback(q) \/ RejectRollback(q) \/ PreviewTermination(q)
    <3>1. status'[r] = status[r]
          BY <1>0, <2>5 DEF InterpretClarification, ConfirmClarification, DecideGroup,
                 LoadForDecision, CreateRollback, RejectRollback, PreviewTermination, rowVars
    <3> QED BY <3>1
  <2> QED BY <1>3, <2>1, <2>2, <2>3, <2>4, <2>5 DEF Operator
<1> QED BY <1>1, <1>2, <1>3, StepKinds, ClaimWrites, ExecutingCarries, IdlingWritesNothing,
        OutsideWrites DEF AgentInv, rowVars

LEMMA TerminatingStep ==
    ASSUME ConstantsAssumption, AgentInv, EndInv, Next
    PROVE  TerminatesOnRequest'
<1> SUFFICES ASSUME NEW r \in Run, Terminating(r)', ~Terminating(r) PROVE term'[r]
    BY TermStays DEF TerminatesOnRequest, EndInv, AgentInv
<1>1. ASSUME term[r] PROVE term'[r]
      BY <1>1, TermStays DEF AgentInv
<1>2. CASE frozen'[r] = TerminateAction
  <2>1. PICK w \in Worker : ctx[w].pc = "freeze" /\ ctx[w].run = r /\ ctx[w].act = TerminateAction
        BY <1>2, FrozenComes DEF Terminating, NoAction, TerminateAction
  <2> QED BY <1>1, <2>1 DEF EndInv, WorkersTerminateOnRequest, Acting
<1>3. CASE report'[r] = "terminated"
  <2>1. PICK w \in Worker : GenerateReport(w) /\ ctx[w].run = r
        BY <1>3, WorkStep DEF AgentInv, Terminating
  <2>2. report'[r] = IF report[r] = "none" THEN ReportOf(ctx[w].node) ELSE report[r]
        BY <2>1 DEF GenerateReport, AgentInv, TypeInv, TypeOK
  <2>3. ctx[w].node = "termination_report" /\ Busy(w)
        BY <1>3, <2>1, <2>2 DEF Terminating, ReportOf, GenerateReport, Executing, Busy
  <2> QED BY <1>1, <2>1, <2>3 DEF EndInv, WorkersTerminateOnRequest, TermNodes
<1>4. CASE node'[r] \in TermNodes
  <2>1. ~Stays(r) /\ ~\E w \in Worker : BlockedBy(r, w)
        BY <1>4 DEF Terminating, Stays, BlockedBy, TermNodes
  <2>2. ~Taken(r)
        BY <1>4, BeginsEarly DEF Taken, PlanNodes, TermNodes, ConstantsAssumption
  <2>3. PICK w \in Worker : Walked(r, w)
        BY <2>1, <2>2, RunStep DEF AgentInv
  <2>4. ctx[w].pc = "commit" /\ ctx[w].run = r
        BY <2>3 DEF Walked
  <2>5. CASE ctx[w].act = TerminateAction
        BY <1>1, <2>4, <2>5 DEF EndInv, WorkersTerminateOnRequest, Acting
  <2>6. CASE EdgeFacts(node[r], ctx[w].act.kind, node'[r])
    <3>1. ctx[w].node \in TermNodes \cup {"blocked_model_error"} /\ Busy(w)
          BY <1>4, <2>3, <2>6, WalkedEdge DEF EdgeFacts, EndEdge
    <3> QED BY <1>1, <2>4, <3>1 DEF EndInv, WorkersTerminateOnRequest
  <2> QED BY <2>3, <2>5, <2>6, WalkedEdge
<1>5. CASE node'[r] = "blocked_model_error" /\ status'[r] # "blocked_model_error"
  <2>1. ~Taken(r) /\ ~\E w \in Worker : BlockedBy(r, w)
        BY <1>5, BeginsEarly DEF Taken, BlockedBy, PlanNodes, ConstantsAssumption
  <2>2. ASSUME NEW w \in Worker, Walked(r, w) PROVE FALSE
        BY <1>5, <2>2, WalkedEdge DEF EdgeFacts, EndEdge
  <2>3. Stays(r)
        BY <2>1, <2>2, RunStep DEF AgentInv
  <2>4. status[r] = "blocked_model_error"
        BY <1>5, <2>3 DEF Stays, Terminating
  <2> QED BY <1>5, <2>4, BlockedWakes
<1> QED BY <1>2, <1>3, <1>4, <1>5 DEF Terminating

LEMMA WorkersTerminateStep ==
    ASSUME ConstantsAssumption, AgentInv, EndInv, Next
    PROVE  WorkersTerminateOnRequest'
<1> SUFFICES ASSUME NEW v \in Worker
             PROVE  /\ Busy(v)' /\ ctx'[v].node \in TermNodes \cup {"blocked_model_error"} =>
                           term'[ctx'[v].run]
                    /\ ctx'[v].pc \in Acting /\ ctx'[v].act = TerminateAction => term'[ctx'[v].run]
    BY DEF WorkersTerminateOnRequest
<1>0. Busy(v)' => ctx'[v].run \in Run
      BY TypeStep DEF AgentInv, TypeInv, ActionChosen
<1>1. ASSUME Busy(v)', ctx'[v].node \in TermNodes \cup {"blocked_model_error"}
      PROVE  term'[ctx'[v].run]
  <2>1. ASSUME NEW r \in Run, Claim(v, r) PROVE term[ctx'[v].run]
    <3>1. ctx'[v].run = r /\ ctx'[v].node = node[r] /\ status[r] = "running"
          BY <2>1, ClaimWrites DEF AgentInv
    <3>2. Terminating(r)
          BY <1>1, <3>1 DEF Terminating
    <3> QED BY <3>1, <3>2 DEF EndInv, TerminatesOnRequest
  <2>2. CASE Busy(v) /\ ctx'[v].run = ctx[v].run /\ ctx'[v].node = ctx[v].node
    <3>1. term[ctx[v].run]
          BY <1>1, <2>2 DEF EndInv, WorkersTerminateOnRequest
    <3> QED BY <1>0, <1>1, <2>2, <3>1, TermStays DEF AgentInv
  <2> QED BY <1>0, <1>1, <2>1, <2>2, PlaceIsKept, TermStays DEF AgentInv
<1>2. ASSUME ctx'[v].pc \in Acting, ctx'[v].act = TerminateAction
      PROVE  term'[ctx'[v].run]
  <2>1. Busy(v) /\ ctx'[v].run = ctx[v].run /\ ctx[v].run \in Run
        BY <1>2, TerminationComes DEF AgentInv, TypeInv, ActionChosen
  <2>2. CASE ctx[v].pc \in Acting /\ ctx[v].act = TerminateAction
        BY <2>1, <2>2, TermStays DEF EndInv, WorkersTerminateOnRequest, AgentInv
  <2>3. CASE term[ctx[v].run]
        BY <2>1, <2>3, TermStays DEF AgentInv
  <2>4. CASE frozen[ctx[v].run] = TerminateAction
        BY <2>1, <2>4, TermStays DEF EndInv, TerminatesOnRequest, Terminating, AgentInv
  <2> QED BY <1>2, <2>2, <2>3, <2>4, TerminationComes
<1> QED BY <1>1, <1>2

\* A report is written once.
LEMMA ReportStays ==
    ASSUME AgentInv, Next, NEW r \in Run, report[r] # "none"
    PROVE  report'[r] = report[r]
<1>1. ASSUME NEW w \in Worker, GenerateReport(w), ctx[w].run = r PROVE report'[r] = report[r]
      BY <1>1 DEF GenerateReport, AgentInv, TypeInv, TypeOK
<1> QED BY <1>1, WorkStep DEF AgentInv

LEMMA ReportedStep ==
    ASSUME ConstantsAssumption, AgentInv, ReportedAtCommit, Next
    PROVE  ReportedAtCommit'
<1> SUFFICES ASSUME NEW v \in Worker, ctx'[v].pc = "commit", ctx'[v].act.to = "terminal"
             PROVE  report'[ctx'[v].run] # "none"
    BY DEF ReportedAtCommit
<1>1. CASE ctx'[v] = ctx[v]
  <2>1. ctx[v].run \in Run /\ report[ctx[v].run] # "none"
        BY <1>1 DEF ReportedAtCommit, AgentInv, TypeInv, ActionChosen, Busy
  <2> QED BY <1>1, <2>1, ReportStays
<1>2. CASE /\ Execute(v) /\ ctx[v].pc = "execute" /\ ctx'[v].act = ctx[v].act
           /\ ctx'[v].run = ctx[v].run
  <2>1. EdgeFacts(ctx[v].node, ctx[v].act.kind, "terminal")
        BY <1>2, CarriedEdge DEF AgentInv, Acting, TerminateAction
  <2>2. ctx[v].node \in ReportNodes /\ ctx[v].act.kind \notin OwnExecutor
        BY <2>1 DEF EdgeFacts, EndEdge, RestoreEdge, ServingNodes
  <2>3. GenerateReport(v)
        BY <1>2, <2>2, ServesWhat, ServedWhole DEF Executing, AgentInv
  <2>4. ctx[v].run \in Run
        BY <1>2 DEF AgentInv, TypeInv, ActionChosen, Busy
  <2>5. report'[ctx[v].run] = IF report[ctx[v].run] = "none" THEN ReportOf(ctx[v].node)
                              ELSE report[ctx[v].run]
        BY <2>3, <2>4 DEF GenerateReport, AgentInv, TypeInv, TypeOK
  <2> QED BY <1>2, <2>5 DEF ReportOf
<1> QED BY <1>1, <1>2, CommitStage DEF AgentInv

LEMMA ReportPrecedesEndStep ==
    ASSUME ConstantsAssumption, AgentInv, EndInv, Next
    PROVE  ReportPrecedesEnd'
<1> SUFFICES ASSUME NEW r \in Run
             PROVE  /\ status'[r] = "completed" =>
                           report'[r] \in {"completed", "abnormal_input", "rollback"}
                    /\ status'[r] = "terminated" => report'[r] # "none"
    BY DEF ReportPrecedesEnd
<1>1. CASE status'[r] = status[r]
      BY <1>1, ReportStays DEF EndInv, ReportPrecedesEnd
<1>2. ASSUME status'[r] # status[r], status'[r] \in {"completed", "terminated"}
      PROVE  /\ report'[r] = report[r] /\ report[r] # "none"
             /\ status'[r] = "completed" => ~term[r]
  <2>1. PICK w \in Worker : Walked(r, w)
        BY <1>2, RunStep DEF AgentInv, Stays, Taken, BlockedBy, Active
  <2>2. ctx[w].pc = "commit" /\ ctx[w].run = r /\ ctx[w].act.to = "terminal"
        BY <1>2, <2>1 DEF Walked
  <2>3. report[r] # "none"
        BY <2>2 DEF EndInv, ReportedAtCommit
  <2> QED BY <2>1, <2>2, <2>3, ReportStays DEF Walked
<1>3. report[r] \in ReportKind
      BY DEF AgentInv, TypeInv, TypeOK
<1>4. ~term[r] => report[r] # "terminated"
      BY DEF EndInv, TerminatesOnRequest, Terminating
<1> QED BY <1>1, <1>2, <1>3, <1>4 DEF ReportKind

LEMMA EndStep == AgentInv /\ EndInv /\ [Next]_vars => EndInv'
<1> SUFFICES ASSUME AgentInv, EndInv, [Next]_vars PROVE EndInv'
    OBVIOUS
<1>1. CASE Next
      BY <1>1, TerminatingStep, WorkersTerminateStep, ReportedStep, ReportPrecedesEndStep,
         ConstantsAssumption DEF EndInv
<1>2. CASE UNCHANGED vars
      BY <1>2 DEF vars, rowVars, stepVars, workVars, EndInv, TerminatesOnRequest, Terminating,
             WorkersTerminateOnRequest, ReportedAtCommit, ReportPrecedesEnd, Busy
<1> QED BY <1>1, <1>2

\* A run is completed behind a report of its own path and terminated behind some
\* report, whichever of its workers committed the end.
THEOREM ReportsComeFirst == Spec => []ReportPrecedesEnd
<1>1. Init => EndInv
      BY EndInit, ConstantsAssumption
<1>2. EndInv => ReportPrecedesEnd
      BY DEF EndInv
<1> QED BY <1>1, <1>2, EndStep, Agents, PTL DEF Spec

-----------------------------------------------------------------------------
(* Gates are waited for.  A run comes to a gate node with a pending gate    *)
(* only through the executor that opened it, which pauses the run; it is    *)
(* woken when the last gate of that kind is decided, by a termination, or   *)
(* by the refusal of one.  The exception is the assessment of a rollback,   *)
(* whose second attempt may find no conflict and not pause: there the next  *)
(* executor looks for the approvals itself.                                 *)

-----------------------------------------------------------------------------
(* Helpers *)

\* An undecided gate other than one of a rollback's conflicts.
UndecidedGate(r, x) ==
    /\ x.st = "pending" /\ x.at + 1 = cursor[r] /\ node[r] = GateNode(x.kind)
    /\ x.kind = "high_risk_approval" => groups[r][x.member] = "pending"
    /\ x.kind # "rollback_conflict"

Waits(r) == ~TerminationRefused(r) /\ \E x \in gates[r] : UndecidedGate(r, x)

\* The gate nodes tell the kinds apart, and lie outside the drain.
LEMMA GateNodes ==
    ASSUME NEW k \in GateKind
    PROVE  /\ GateNode(k) \notin DrainNodes \cup {"blocked_model_error", "aggregate_risk"}
           /\ k # "termination_confirmation" => GateNode(k) # "none"
           /\ k = "termination_confirmation" => GateNode(k) = "none"
           /\ \A j \in GateKind \ {"termination_confirmation"} : GateNode(j) = GateNode(k) => j = k
BY DEF GateKind, GateNode, DrainNodes

\* A run that waits at a gate node is not running, or is to terminate.  One that
\* has failed may be called running, but nobody works for it any more.
WaitingRunRests ==
    \A r \in Run : Waits(r) /\ error[r] = "none" => status[r] # "running" \/ term[r]

\* A worker that finds a run at such a gate only carries a termination out.
WaitingRunIsLeftAlone ==
    \A w \in Worker :
        LET r == ctx[w].run
        IN  Busy(w) /\ Current(w) /\ status[r] = "running" /\ error[r] = "none" /\ Waits(r) =>
                \/ ctx[w].pc \in {"claimed"} \cup Handlers
                \/ ctx[w].pc \in {"execute", "commit"} /\ ctx[w].act = TerminateAction

\* Who leaves the conflicts of a rollback behind has found them approved.
ConflictsLookedAt ==
    \A w \in Worker :
        /\ ctx[w].pc = "commit" /\ Current(w)
        /\ ctx[w].node = "wait_restore_conflicts" /\ ctx[w].act # TerminateAction
        => ConflictsApproved(ctx[w].run)

PausingNodes == {"resolve_identity_conflicts", "wait_replan_confirmation", "wait_rollback_approval"}

\* Who is about to bring a run to a gate node pauses it; at the approval of
\* risks, unless there is no group left to approve.
GateNodesPause ==
    \A w \in Worker : ctx[w].pc = "commit" =>
        /\ ctx[w].act.to \in PausingNodes => ctx[w].pause
        /\ Current(w) /\ ctx[w].act.to = "wait_high_risk_approvals" /\ ~ctx[w].pause =>
               \A g \in Group : groups[ctx[w].run][g] \notin {"latent", "pending"}

GateInv ==
    WaitingRunRests /\ WaitingRunIsLeftAlone /\ ConflictsLookedAt /\ GateNodesPause

LEMMA GateInit == ASSUME ConstantsAssumption PROVE Init => GateInv
BY DEF Init, GateInv, WaitingRunRests, WaitingRunIsLeftAlone, ConflictsLookedAt,
   GateNodesPause, Waits, IdleContext, Busy

-----------------------------------------------------------------------------
(* What a step leaves of a gate *)

\* A refusal of a termination is not forgotten.
LEMMA RefusedStays ==
    ASSUME ConstantsAssumption, AgentInv, Next, NEW r \in Run, TerminationRefused(r)
    PROVE  TerminationRefused(r)'
BY GateKept DEF AgentInv, TerminationRefused, Decides

\* A gate that is pending for the cursor before was pending already.
LEMMA PendingBefore ==
    ASSUME ConstantsAssumption, AgentInv, Next, NEW r \in Run, NEW x \in gates'[r],
           x.st = "pending", x.at # cursor[r]
    PROVE  x \in gates[r]
<1>1. GateFrom(r, x)
      BY GateStep DEF AgentInv
<1>2. ASSUME NEW w \in Worker, Records(w, r, x) PROVE FALSE
      BY <1>2 DEF Records, AtCursor
<1> QED BY <1>1, <1>2 DEF GateFrom

\* While a run stays at its node, no gate of it becomes undecided.
LEMMA UndecidedBefore ==
    ASSUME ConstantsAssumption, AgentInv, Next, NEW r \in Run, Stays(r),
           NEW x \in gates'[r], UndecidedGate(r, x)'
    PROVE  x \in gates[r] /\ UndecidedGate(r, x)
<1>1. /\ cursor'[r] = cursor[r] /\ node'[r] = node[r] /\ cursor[r] \in Nat
      /\ x.st = "pending" /\ x.at + 1 = cursor[r] /\ x.at \in Nat /\ x.kind \in GateKind
  <2>1. x \in Gate /\ cursor[r] \in Nat
        BY TypeStep DEF AgentInv, TypeInv, TypeOK
  <2> QED BY <2>1 DEF Stays, UndecidedGate, Gate
<1>2. x \in gates[r]
      BY <1>1, PendingBefore
<1>3. ASSUME x.kind = "high_risk_approval" PROVE groups[r][x.member] = "pending"
  <2> DEFINE g == x.member
  <2>1. g \in Group /\ groups'[r][g] = "pending" /\ node[r] = "wait_high_risk_approvals"
        BY <1>1, <1>2, <1>3 DEF AgentInv, GroupInv, GatesOfGroups, UndecidedGate, GateNode
  <2>2. ASSUME NEW w \in Worker, AggregateRisk(w), ctx[w].run = r PROVE FALSE
        BY <2>1, <2>2, AggregatesThere
  <2>3. ~Start(r)
    <3> SUFFICES ASSUME Start(r) PROVE FALSE
        OBVIOUS
    <3>1. cursor[r] = 0
          BY DEF Start, New, AgentInv, DecisionInv, RunFollowsGraph
    <3> QED BY <1>1, <3>1
  <2> QED BY <2>1, <2>2, <2>3, GroupStep DEF AgentInv, Outcome
<1> QED BY <1>1, <1>2, <1>3 DEF UndecidedGate

LEMMA WaitedBefore ==
    ASSUME ConstantsAssumption, AgentInv, Next, NEW r \in Run, Stays(r), Waits(r)'
    PROVE  Waits(r)
<1>1. PICK x \in gates'[r] : UndecidedGate(r, x)'
      BY DEF Waits
<1>2. x \in gates[r] /\ UndecidedGate(r, x)
      BY <1>1, UndecidedBefore
<1>3. ~TerminationRefused(r)
      BY RefusedStays DEF Waits
<1> QED BY <1>2, <1>3 DEF Waits

-----------------------------------------------------------------------------
(* Waking a run *)

\* Who wakes a run that waits for a human.
LEMMA WokenBy ==
    ASSUME ConstantsAssumption, AgentInv, Next, NEW r \in Run,
           status[r] = "waiting_human", status'[r] = "running"
    PROVE  \/ \E q \in loaded[r] : ApproveTermination(r, q)
           \/ \E q \in loaded[r], d \in Outcome :
                  DecideGate(r, q, d) /\ Pending(r, q.gate.kind) = {q.gate}
           \/ /\ node[r] = "resolve_identity_conflicts"
              /\ \E c \in confirming[r] : c.last /\ ResumeAfterClarification(r, c)
              /\ \A x \in gates'[r] : x.kind = "identity_conflict" => x.st # "pending"
           \/ /\ node[r] = "wait_high_risk_approvals"
              /\ \A g \in Group : groups'[r][g] # "pending"
<1>0. status \in [Run -> Status] /\ gates \in [Run -> SUBSET Gate]
      /\ groups \in [Run -> [Group -> GroupStatus]]
      BY DEF AgentInv, TypeInv, TypeOK
<1>1. ASSUME status'[r] = status[r] PROVE FALSE
      BY <1>1
<1>2. ASSUME NEW w \in Worker, Ending(w) PROVE FALSE
  <2>1. status' = status \/ \E s \in {"waiting_human", "terminated", "completed",
                                     "blocked_model_error", "failed", status[ctx[w].run]} :
                               status' = [status EXCEPT ![ctx[w].run] = s]
        BY <1>2 DEF Ending, CommitStep, CommitTerminal, BlockModelFailure, FailActionContract,
               FailPersistenceContract, FailRun
  <2> QED BY <1>0, <2>1
<1>3. ASSUME NEW q \in Run, Operator(q)
      PROVE  \/ \E p \in loaded[r] : ApproveTermination(r, p)
             \/ \E p \in loaded[r], d \in Outcome :
                    DecideGate(r, p, d) /\ Pending(r, p.gate.kind) = {p.gate}
             \/ /\ node[r] = "resolve_identity_conflicts"
                /\ \E c \in confirming[r] : c.last /\ ResumeAfterClarification(r, c)
                /\ \A x \in gates'[r] : x.kind = "identity_conflict" => x.st # "pending"
             \/ /\ node[r] = "wait_high_risk_approvals"
                /\ \A g \in Group : groups'[r][g] # "pending"
  <2>1. CASE \/ Start(q) \/ ConfirmRollback(q) \/ CreateRollback(q) \/ RejectRollback(q)
             \/ PreviewTermination(q)
             \/ \E x \in gates[q] : LoadForDecision(q, x)
             \/ \E k \in Clarification : InterpretClarification(q, k) \/ ConfirmClarification(q, k)
             \/ \E g \in Group : DecideGroup(q, g)
    <3>1. status' = status \/ status[q] \in New
          BY <2>1 DEF Start, ConfirmRollback, CreateRollback, RejectRollback, PreviewTermination,
                 LoadForDecision, InterpretClarification, ConfirmClarification, DecideGroup, rowVars,
                 New
    <3>2. q # r => status'[r] = status[r]
          BY <1>0, <2>1 DEF Start, ConfirmRollback, TakeSchool, CreateRollback, RejectRollback,
                 PreviewTermination, LoadForDecision, InterpretClarification, ConfirmClarification,
                 DecideGroup, rowVars
    <3> QED BY <3>1, <3>2 DEF New
  <2>2. ASSUME NEW c \in loaded[q], ApproveTermination(q, c)
        PROVE  q = r
        BY <1>0, <2>2 DEF ApproveTermination
  <2>3. ASSUME NEW c \in loaded[q], NEW d \in Outcome, DecideGate(q, c, d)
        PROVE  q = r /\ Pending(r, c.gate.kind) = {c.gate}
        BY <1>0, <2>3 DEF DecideGate
  <2>4. ASSUME NEW c \in confirming[q], ResumeAfterClarification(q, c)
        PROVE  /\ q = r /\ c.last /\ node[r] = "resolve_identity_conflicts"
               /\ \A x \in gates'[r] : x.kind = "identity_conflict" => x.st # "pending"
    <3> DEFINE open == Pending(q, "identity_conflict")
               approved == {[x EXCEPT !.st = "approved"] : x \in open}
    <3>1. q = r /\ c.last /\ node[r] = "resolve_identity_conflicts"
          BY <1>0, <2>4 DEF ResumeAfterClarification
    <3>2. gates' = [gates EXCEPT ![q] = (gates[q] \ open) \cup approved]
          BY <2>4, <3>1 DEF ResumeAfterClarification
    <3>3. gates'[r] = (gates[r] \ open) \cup approved
      <4> HIDE DEF open, approved
      <4> QED BY <1>0, <3>1, <3>2
    <3>4. \A x \in approved : x.st # "pending"
      <4> SUFFICES ASSUME NEW x \in open PROVE [x EXCEPT !.st = "approved"].st # "pending"
          OBVIOUS
      <4>1. x \in Gate
            BY <1>0 DEF Pending
      <4> QED BY <4>1 DEF Gate
    <3>5. \A x \in gates[r] \ open : x.kind = "identity_conflict" => x.st # "pending"
          BY <3>1 DEF Pending
    <3> HIDE DEF open, approved
    <3> QED BY <3>1, <3>3, <3>4, <3>5
  <2>5. ASSUME NEW c \in deciding[q], NEW d \in Outcome, ResumeAfterApproval(q, c, d)
        PROVE  /\ node[r] = "wait_high_risk_approvals"
               /\ \A h \in Group : groups'[r][h] # "pending"
    <3>1. q = r /\ node[r] = "wait_high_risk_approvals" /\ c.last
          BY <1>0, <2>5 DEF ResumeAfterApproval
    <3>2. c.group \in Group /\ \A h \in Group \ {c.group} : groups[r][h] # "pending"
          BY <2>5, <3>1 DEF AgentInv, GroupInv, GroupsOfRun, TypeInv, TypeOK, GroupDecision
    <3>3. groups' = [groups EXCEPT ![r][c.group] = d] /\ d # "pending"
          BY <2>5, <3>1 DEF ResumeAfterApproval, Outcome
    <3>4. \A h \in Group : groups'[r][h] = IF h = c.group THEN d ELSE groups[r][h]
          BY <1>0, <3>2, <3>3
    <3> QED BY <3>1, <3>2, <3>3, <3>4
  <2> QED BY <1>3, <2>1, <2>2, <2>3, <2>4, <2>5 DEF Operator
<1> QED BY <1>1, <1>2, <1>3, StepKinds, ClaimWrites, ExecutingCarries, IdlingWritesNothing,
        OutsideWrites DEF AgentInv, rowVars

\* A run that is woken has no undecided gate left, or is to terminate, or its
\* termination was refused.
LEMMA WokenWhenDecided ==
    ASSUME ConstantsAssumption, AgentInv, Next, NEW r \in Run, Stays(r),
           status[r] = "waiting_human", status'[r] = "running", Waits(r)'
    PROVE  term'[r]
<1>0. /\ gates \in [Run -> SUBSET Gate] /\ term \in [Run -> BOOLEAN]
      BY DEF AgentInv, TypeInv, TypeOK
<1>1. PICK y \in gates'[r] : UndecidedGate(r, y)'
      BY DEF Waits
<1>2. y \in gates[r] /\ UndecidedGate(r, y)
      BY <1>1, UndecidedBefore
<1>3. y.kind \in GateKind /\ node[r] = GateNode(y.kind) /\ y.st = "pending"
      BY <1>0, <1>2 DEF UndecidedGate, Gate
<1>4. node[r] # "none"
      BY NoneIsNoNode DEF AgentInv, TypeInv, TypeOK
<1>5. ASSUME NEW q \in loaded[r], ApproveTermination(r, q) PROVE term'[r]
      BY <1>0, <1>5 DEF ApproveTermination
<1>6. ASSUME NEW q \in loaded[r], NEW d \in Outcome,
             DecideGate(r, q, d), Pending(r, q.gate.kind) = {q.gate}
      PROVE  FALSE
  <2> DEFINE x == q.gate
  <2>1. /\ gates'[r] = (gates[r] \ {x}) \cup {[x EXCEPT !.st = d]}
        /\ x.st = "pending" /\ x \in Gate
    <3>1. gates' = [gates EXCEPT ![r] = (gates[r] \ {x}) \cup {[x EXCEPT !.st = d]}]
          BY <1>6 DEF DecideGate, Settle
    <3>2. x \in gates[r] /\ x.st = "pending"
          BY <1>6 DEF DecideGate, ActionableAs
    <3> QED BY <1>0, <3>1, <3>2
  <2>2. [x EXCEPT !.st = d].st = d /\ [x EXCEPT !.st = d].kind = x.kind
        BY <2>1, DecidedGate DEF GateStatus, Outcome
  <2>3. y # x
        BY <1>3, <2>1, <2>2, <1>1 DEF Outcome
  <2>4. x.kind # "termination_confirmation"
    <3> SUFFICES ASSUME x.kind = "termination_confirmation" PROVE FALSE
        OBVIOUS
    <3>1. d = "rejected"
          BY <1>6 DEF DecideGate, Outcome
    <3>2. TerminationRefused(r)'
          BY <2>1, <2>2, <3>1 DEF TerminationRefused
    <3> QED BY <3>2 DEF Waits
  <2>5. node[r] = GateNode(x.kind) /\ x.kind \in GateKind
        BY <1>6, <2>1, <2>4 DEF DecideGate, ActionableAs, Gate
  <2>6. y.kind = x.kind
        BY <1>3, <1>4, <2>4, <2>5, GateNodes
  <2>7. y \in Pending(r, x.kind)
        BY <1>2, <1>3, <2>6 DEF Pending
  <2> QED BY <1>6, <2>3, <2>7
<1>7. CASE /\ node[r] = "resolve_identity_conflicts"
           /\ \A x \in gates'[r] : x.kind = "identity_conflict" => x.st # "pending"
  <2>1. y.kind = "identity_conflict"
        BY <1>3, <1>7, GateNodes DEF GateNode, GateKind
  <2> QED BY <1>1, <1>3, <1>7, <2>1
<1>8. CASE /\ node[r] = "wait_high_risk_approvals"
           /\ \A g \in Group : groups'[r][g] # "pending"
  <2>1. y.kind = "high_risk_approval"
        BY <1>3, <1>8, GateNodes DEF GateNode, GateKind
  <2>2. y.member \in Group
        BY <1>2, <2>1 DEF AgentInv, GroupInv, GatesOfGroups
  <2> QED BY <1>1, <1>8, <2>1, <2>2 DEF UndecidedGate
<1> QED BY <1>5, <1>6, <1>7, <1>8, WokenBy

-----------------------------------------------------------------------------
(* Coming to a gate *)

\* The executor says whether the commit pauses.
LEMMA PauseSet ==
    ASSUME AgentInv, NEW w \in Worker, NEW b, Executed(w, b)
    PROVE  ctx'[w].pause = b
<1>1. ctx[w] \in Context /\ ctx'[w] = [ctx[w] EXCEPT !.pc = "commit", !.pause = b]
      BY DEF Executed, AgentInv, TypeInv, TypeOK
<1> QED BY <1>1 DEF Context

\* The executors in front of a gate node.
LEMMA BeforeGate ==
    ASSUME ConstantsAssumption, AgentInv, NEW w \in Worker, Execute(w), ctx[w].pc = "execute",
           ctx'[w].pc = "commit", ctx[w].act # TerminateAction
    PROVE  /\ ctx[w].act.to = "resolve_identity_conflicts" => OpenIdentityConflictGate(w)
           /\ ctx[w].act.to = "wait_replan_confirmation" => PreflightStale(w)
           /\ ctx[w].act.to = "wait_rollback_approval" => EnterRollbackApproval(w)
           /\ ctx[w].act.to = "wait_high_risk_approvals" => AggregateRisk(w)
           /\ ctx[w].act.to = "wait_restore_conflicts" => AssessRollback(w)
           /\ ctx[w].node = "wait_restore_conflicts" => EnterRollbackApproval(w)
<1> DEFINE n == ctx[w].node
           a == ctx[w].act
<1>1. EdgeFacts(n, a.kind, a.to)
      BY CarriedEdge DEF AgentInv, Acting
<1>2. \A name : Executor(n, a) = name => Executing(w, name)
      BY DEF Executing
<1>3. n \in ServingNodes => a.kind \notin OwnExecutor
      BY <1>1 DEF EdgeFacts, RestoreEdge
<1>4. ASSUME a.to = "resolve_identity_conflicts" PROVE OpenIdentityConflictGate(w)
  <2>1. a.kind = "resolve_identity_conflicts" /\ n \notin ServingNodes
        BY <1>1, <1>3, <1>4 DEF EdgeFacts, GateEdge, OwnExecutor
  <2> QED BY <1>2, <2>1, ServesWhat, ServedWhole DEF AgentInv
<1>5. ASSUME a.to = "wait_replan_confirmation" PROVE PreflightStale(w)
  <2>1. a.kind = "request_cross_phase_replan" /\ n = "preflight_execution"
        BY <1>1, <1>5 DEF EdgeFacts, GateEdge
  <2>2. PreflightPassed(w) \/ PreflightStale(w)
        BY <1>2, <2>1, ServesWhat, ServedWhole DEF AgentInv, OwnExecutor
  <2> QED BY <2>1, <2>2 DEF PreflightPassed
<1>6. ASSUME n = "wait_restore_conflicts" \/ a.to = "wait_rollback_approval"
      PROVE  EnterRollbackApproval(w)
  <2>1. a.kind = "wait_rollback_approval" /\ n = "wait_restore_conflicts"
        BY <1>1, <1>6 DEF EdgeFacts, GateEdge
  <2> QED BY <1>2, <2>1, ServesWhat, ServedWhole DEF AgentInv, OwnExecutor
<1>7. ASSUME a.to = "wait_high_risk_approvals" PROVE AggregateRisk(w)
  <2>1. a.kind = "aggregate_risk" /\ n \notin ServingNodes
        BY <1>1, <1>3, <1>7 DEF EdgeFacts, PlanEdge, OwnExecutor
  <2> QED BY <1>2, <2>1, ServesWhat, ServedWhole DEF AgentInv
<1>8. ASSUME a.to = "wait_restore_conflicts" PROVE AssessRollback(w)
  <2>1. n = "assess_restore_impact" /\ a.kind \notin OwnExecutor
        BY <1>1, <1>3, <1>8 DEF EdgeFacts, GateEdge, ServingNodes
  <2> QED BY <1>2, <2>1, ServesWhat, ServedWhole DEF AgentInv
<1> QED BY <1>4, <1>5, <1>6, <1>7, <1>8

\* An aggregation that does not pause leaves no group to approve.
LEMMA NothingToApprove ==
    ASSUME AgentInv, NEW w \in Worker, AggregateRisk(w), ~ctx'[w].pause
    PROVE  \A g \in Group : groups'[ctx[w].run][g] \notin {"latent", "pending"}
<1> DEFINE r == ctx[w].run
           aggregated == [g \in Group |->
                            IF groups[r][g] = "latent" THEN "pending" ELSE groups[r][g]]
           open == {g \in Group : aggregated[g] = "pending"}
<1>1. r \in Run
      BY ExecutingType DEF AggregateRisk, Executing, AgentInv
<1>2. Executed(w, open # {}) /\ groups' = [groups EXCEPT ![r] = aggregated]
      BY DEF AggregateRisk
<1>3. open = {}
  <2> HIDE DEF open
  <2> QED BY <1>2, PauseSet
<1>4. groups'[r] = aggregated
  <2> HIDE DEF aggregated
  <2> QED BY <1>1, <1>2 DEF AgentInv, TypeInv, TypeOK
<1>5. \A g \in Group : aggregated[g] # "pending" /\ aggregated[g] # "latent"
      BY <1>3
<1> QED BY <1>4, <1>5

\* Without any left, none appears.
LEMMA NothingAppears ==
    ASSUME ConstantsAssumption, AgentInv, Next, NEW r \in Run, status[r] \notin New,
           \A g \in Group : groups[r][g] \notin {"latent", "pending"}
    PROVE  \A g \in Group : groups'[r][g] \notin {"latent", "pending"}
<1> SUFFICES ASSUME NEW g \in Group PROVE groups'[r][g] \notin {"latent", "pending"}
    OBVIOUS
<1>1. ~Start(r)
      BY DEF Start, New
<1> QED BY <1>1, GroupStep DEF AgentInv, Outcome

LEMMA PausesStep ==
    ASSUME ConstantsAssumption, AgentInv, GateNodesPause, Next
    PROVE  GateNodesPause'
<1> SUFFICES ASSUME NEW v \in Worker, ctx'[v].pc = "commit"
             PROVE  /\ ctx'[v].act.to \in PausingNodes => ctx'[v].pause
                    /\ /\ Current(v)' /\ ctx'[v].act.to = "wait_high_risk_approvals"
                       /\ ~ctx'[v].pause
                       => \A g \in Group : groups'[ctx'[v].run][g] \notin {"latent", "pending"}
    BY DEF GateNodesPause
<1>1. CASE ctx'[v] = ctx[v]
  <2>1. ctx[v].act.to \in PausingNodes => ctx[v].pause
        BY <1>1 DEF GateNodesPause
  <2>2. ASSUME Current(v)', ctx[v].act.to = "wait_high_risk_approvals", ~ctx[v].pause
        PROVE  \A g \in Group : groups'[ctx[v].run][g] \notin {"latent", "pending"}
    <3>1. Current(v) /\ ctx[v].run \in Run /\ Busy(v)
          BY <1>1, <2>2, StillCurrent, ClaimWrites DEF Busy, AgentInv
    <3>2. \A g \in Group : groups[ctx[v].run][g] \notin {"latent", "pending"}
          BY <1>1, <2>2, <3>1 DEF GateNodesPause
    <3>3. status[ctx[v].run] \notin New
          BY <3>1, StandsThere DEF Current, AtCursor
    <3> QED BY <3>1, <3>2, <3>3, NothingAppears
  <2> QED BY <1>1, <2>1, <2>2
<1>2. CASE /\ Execute(v) /\ ctx[v].pc = "execute" /\ ctx'[v].act = ctx[v].act
           /\ ctx'[v].run = ctx[v].run
  <2>1. ctx[v].act.to \in PausingNodes \cup {"wait_high_risk_approvals"} =>
            ctx[v].act # TerminateAction
        BY DEF PausingNodes, TerminateAction
  <2>2. ASSUME ctx[v].act.to \in PausingNodes PROVE ctx'[v].pause = TRUE
    <3>1. OpenIdentityConflictGate(v) \/ PreflightStale(v) \/ EnterRollbackApproval(v)
          BY <1>2, <2>1, <2>2, BeforeGate DEF PausingNodes
    <3>2. Executed(v, TRUE)
          BY <3>1 DEF OpenIdentityConflictGate, PreflightStale, EnterRollbackApproval
    <3> QED BY <3>2, PauseSet
  <2>3. ASSUME ctx[v].act.to = "wait_high_risk_approvals", ~ctx'[v].pause
        PROVE  \A g \in Group : groups'[ctx[v].run][g] \notin {"latent", "pending"}
        BY <1>2, <2>1, <2>3, BeforeGate, NothingToApprove
  <2> QED BY <1>2, <2>2, <2>3
<1> QED BY <1>1, <1>2, CommitStage DEF AgentInv

LEMMA LookedAtStep ==
    ASSUME ConstantsAssumption, AgentInv, ConflictsLookedAt, Next
    PROVE  ConflictsLookedAt'
<1> SUFFICES ASSUME NEW v \in Worker, ctx'[v].pc = "commit", Current(v)',
                    ctx'[v].node = "wait_restore_conflicts", ctx'[v].act # TerminateAction
             PROVE  \A x \in gates'[ctx'[v].run] : x.kind = "rollback_conflict" => x.st = "approved"
    BY DEF ConflictsLookedAt, ConflictsApproved
<1>1. /\ Current(v) /\ ctx[v].run \in Run /\ ctx'[v].run = ctx[v].run
      /\ ctx'[v].node = ctx[v].node /\ ctx[v].node = node[ctx[v].run]
      BY StillCurrent, ClaimWrites DEF Busy, AgentInv
<1>2. ConflictsApproved(ctx[v].run)
  <2>1. CASE ctx'[v] = ctx[v]
        BY <1>1, <2>1 DEF ConflictsLookedAt
  <2>2. CASE Execute(v) /\ ctx[v].pc = "execute" /\ ctx'[v].act = ctx[v].act
    <3>1. EnterRollbackApproval(v)
          BY <1>1, <2>2, BeforeGate
    <3> QED BY <3>1 DEF EnterRollbackApproval
  <2> QED BY <2>1, <2>2, CommitStage DEF AgentInv
<1>3. node[ctx[v].run] # "assess_restore_impact"
      BY <1>1
<1> QED BY <1>1, <1>2, <1>3, ConflictsStay DEF ConflictsApproved

-----------------------------------------------------------------------------
(* Waiting at a gate *)

\* A run that arrives at an undecided gate is paused.
LEMMA ArrivesPaused ==
    ASSUME ConstantsAssumption, AgentInv, GateNodesPause, Next,
           NEW r \in Run, NEW w \in Worker, Walked(r, w), Waits(r)'
    PROVE  status'[r] = "waiting_human"
<1> DEFINE to == ctx[w].act.to
<1>1. PICK x \in gates'[r] : UndecidedGate(r, x)'
      BY DEF Waits
<1>2. /\ node'[r] = to /\ gates' = gates /\ groups' = groups
      /\ ctx[w].pc = "commit" /\ ctx[w].run = r /\ Current(w)
      BY WalkedEdge DEF Walked, humanVars
<1>3. /\ x \in gates[r] /\ x.kind \in GateKind /\ to = GateNode(x.kind) /\ to # "none"
  <2>1. x \in Gate /\ x \in gates[r]
        BY <1>1, <1>2 DEF AgentInv, TypeInv, TypeOK
  <2>2. node'[r] # "none"
        BY TypeStep, NoneIsNoNode DEF AgentInv, TypeInv, TypeOK
  <2> QED BY <1>1, <1>2, <2>1, <2>2 DEF UndecidedGate, Gate
<1>4. /\ x.kind # "termination_confirmation" /\ x.kind # "rollback_conflict"
      /\ x.kind = "high_risk_approval" => x.member \in Group /\ groups[r][x.member] = "pending"
      BY <1>1, <1>2, <1>3, GateNodes DEF UndecidedGate, AgentInv, GroupInv, GatesOfGroups
<1>5. to \in PausingNodes \/ (to = "wait_high_risk_approvals" /\ x.kind = "high_risk_approval")
      BY <1>3, <1>4 DEF GateKind, GateNode, PausingNodes
<1>6. ctx[w].pause
  <2>1. CASE to \in PausingNodes
        BY <1>2, <2>1 DEF GateNodesPause
  <2>2. CASE to = "wait_high_risk_approvals" /\ x.kind = "high_risk_approval"
        BY <1>2, <1>4, <2>2 DEF GateNodesPause
  <2> QED BY <1>5, <2>1, <2>2
<1>7. to # "terminal"
      BY <1>5 DEF PausingNodes
<1> QED BY <1>2, <1>6, <1>7 DEF Walked

\* A run that waits was started, and stays or has just arrived.
LEMMA WaitsWhere ==
    ASSUME ConstantsAssumption, AgentInv, Next, NEW r \in Run, Waits(r)'
    PROVE  Stays(r) \/ \E w \in Worker : Walked(r, w)
<1>1. PICK x \in gates'[r] : UndecidedGate(r, x)'
      BY DEF Waits
<1>2. x.kind \in GateKind /\ node'[r] = GateNode(x.kind) /\ node'[r] # "none"
  <2>1. x \in Gate /\ node'[r] \in Node
        BY TypeStep DEF AgentInv, TypeInv, TypeOK
  <2> QED BY <1>1, <2>1, NoneIsNoNode DEF UndecidedGate, Gate
<1>3. ~Taken(r)
  <2>1. Taken(r) => node'[r] \notin HumanPauseNodes
        BY BeginsEarly DEF Taken, ConstantsAssumption
  <2> QED BY <1>2, <2>1 DEF GateKind, GateNode, HumanPauseNodes
<1>4. ~\E w \in Worker : BlockedBy(r, w)
      BY <1>2, GateNodes DEF BlockedBy
<1> QED BY <1>3, <1>4, RunStep DEF AgentInv

LEMMA RestsStep ==
    ASSUME ConstantsAssumption, AgentInv, GateInv, Next
    PROVE  WaitingRunRests'
<1> SUFFICES ASSUME NEW r \in Run, Waits(r)', error'[r] = "none", status'[r] = "running" PROVE term'[r]
    BY DEF WaitingRunRests
<1>1. CASE Stays(r)
  <2>1. Waits(r)
        BY <1>1, WaitedBefore DEF GateInv
  <2>2. error[r] = "none" /\ (status[r] # "running" \/ term[r])
        BY <2>1, ErrorStays DEF AgentInv, GateInv, WaitingRunRests
  <2>3. CASE term[r]
        BY <2>3, TermStays DEF AgentInv
  <2>4. CASE status[r] = "waiting_human"
        BY <1>1, <2>4, WokenWhenDecided DEF GateInv
  <2>5. CASE status[r] = "blocked_model_error"
        BY <2>5, BlockedWakes
  <2> QED BY <1>1, <2>2, <2>3, <2>4, <2>5 DEF Stays
<1>2. ~\E w \in Worker : Walked(r, w)
      BY ArrivesPaused DEF GateInv
<1> QED BY <1>1, <1>2, WaitsWhere DEF GateInv

\* The stages a worker passes.
LEMMA Stages ==
    ASSUME ConstantsAssumption, AgentInv, NEW v \in Worker, Idling(v) \/ Execute(v) \/ Ending(v),
           Busy(v)'
    PROVE  \/ ctx'[v] = ctx[v]
           \/ ctx'[v].pc \in Handlers
           \/ ctx'[v].pc = "execute" /\ ctx'[v].act = TerminateAction
           \/ /\ ctx[v].pc = "claimed"
              /\ ~(term[ctx[v].run] /\ ctx[v].node \notin DrainNodes)
           \/ ctx[v].pc \in {"evaluate", "freeze", "decide", "insert"}
           \/ ctx[v].pc = "execute" /\ ctx'[v].pc = "commit" /\ ctx'[v].act = ctx[v].act
<1>0. ctx \in [Worker -> Context]
      BY DEF AgentInv, TypeInv, TypeOK
<1>1. ~Quit(v)
      BY <1>0, QuitEffect DEF IdleContext, Busy
<1>2. ASSUME NEW p \in Handlers, Goto(v, p) PROVE ctx'[v].pc \in Handlers
      BY <1>0, <1>2, GotoEffect DEF Handlers, Pc
<1>3. CASE BeginTermination(v)
      BY <1>0, <1>3, GotoWithEffect, TerminateIsAction DEF BeginTermination, Pc
<1>4. CASE BeginReplay(v) \/ BeginFresh(v)
      BY <1>4 DEF BeginReplay, BeginFresh
<1>5. CASE Evaluate(v) \/ Freeze(v) \/ DecideRead(v) \/ DecideInsert(v) \/ DecideDuplicate(v)
      BY <1>5 DEF Evaluate, Freeze, DecideRead, DecideInsert, DecideDuplicate
<1>6. CASE CommitRejected(v)
      BY <1>2, <1>6 DEF CommitRejected, Handlers
<1>7. CASE Abandon(v) \/ HandlerStale(v) \/ LoseClaim(v) \/ Crash(v) \/ TransientError(v)
      BY <1>1, <1>7 DEF Abandon, HandlerStale, LoseClaim, Crash, TransientError
<1>8. CASE Heartbeat(v)
      BY <1>8 DEF Heartbeat
<1>9. CASE Ending(v)
      BY <1>1, <1>9, EndingWrites DEF Finish
<1>10. CASE Execute(v)
  <2>1. \/ ctx[v].pc = "execute" /\ \E b \in BOOLEAN : Executed(v, b)
        \/ Goto(v, "block") \/ Goto(v, "reject")
        BY <1>1, <1>10, ExecutingCarries DEF AgentInv
  <2> QED BY <1>0, <1>2, <2>1, ExecutedEffect DEF Handlers
<1> QED BY <1>3, <1>4, <1>5, <1>6, <1>7, <1>8, <1>9, <1>10 DEF Idling

LEMMA LeftAloneStep ==
    ASSUME ConstantsAssumption, AgentInv, GateInv, Next
    PROVE  WaitingRunIsLeftAlone'
<1> SUFFICES ASSUME NEW v \in Worker, NEW r \in Run, ctx'[v].run = r,
                    Busy(v)', Current(v)', status'[r] = "running", error'[r] = "none", Waits(r)'
             PROVE  \/ ctx'[v].pc \in {"claimed"} \cup Handlers
                    \/ ctx'[v].pc \in {"execute", "commit"} /\ ctx'[v].act = TerminateAction
  <2>1. \A v \in Worker : Busy(v)' => ctx'[v].run \in Run
        BY TypeStep DEF AgentInv, TypeInv, ActionChosen
  <2> QED BY <2>1 DEF WaitingRunIsLeftAlone, Waits, TerminationRefused, UndecidedGate
<1>1. CASE \E q \in Run : Claim(v, q)
      BY <1>1, ClaimWrites DEF AgentInv
<1>2. CASE ~\E q \in Run : Claim(v, q)
  <2>1. /\ Busy(v) /\ Current(v) /\ ctx[v].run = r
        /\ ctx[v].node = node[r] /\ Stays(r)
        BY <1>2, StillCurrent
  <2>2. Waits(r)
        BY <2>1, WaitedBefore DEF GateInv
  <2>3. error[r] = "none" /\ status[r] = "running"
    <3>1. error[r] = "none"
          BY <2>1, ErrorStays DEF AgentInv
    <3> QED BY <2>1, <3>1 DEF AgentInv, PlaceInv, RunningOrEnded, Stays, Terminal
  <2>4. term[r]
        BY <2>2, <2>3 DEF GateInv, WaitingRunRests
  <2>5. \/ ctx[v].pc \in {"claimed"} \cup Handlers
        \/ ctx[v].pc \in {"execute", "commit"} /\ ctx[v].act = TerminateAction
        BY <2>1, <2>2, <2>3 DEF GateInv, WaitingRunIsLeftAlone
  <2>6. node[r] \notin DrainNodes
    <3>1. PICK x \in gates[r] : UndecidedGate(r, x)
          BY <2>2 DEF Waits
    <3>2. x.kind \in GateKind
          BY <3>1 DEF AgentInv, TypeInv, TypeOK, Gate
    <3> QED BY <3>1, <3>2, GateNodes DEF UndecidedGate
  <2>7. ctx[v].pc \notin {"evaluate", "freeze", "decide", "insert"}
        BY <2>5 DEF Handlers
  <2>8. CASE ctx'[v] = ctx[v]
        BY <2>5, <2>8
  <2>9. CASE Idling(v) \/ Execute(v) \/ Ending(v)
    <3>1. CASE ctx[v].pc = "execute" /\ ctx'[v].pc = "commit" /\ ctx'[v].act = ctx[v].act
          BY <2>5, <3>1 DEF Handlers
    <3> QED BY <2>1, <2>4, <2>5, <2>6, <2>7, <2>9, <3>1, Stages
  <2> QED BY <1>2, <2>8, <2>9, OwnSteps DEF AgentInv
<1> QED BY <1>1, <1>2

LEMMA GateInvStep == AgentInv /\ GateInv /\ [Next]_vars => GateInv'
<1> SUFFICES ASSUME AgentInv, GateInv, [Next]_vars PROVE GateInv'
    OBVIOUS
<1>1. CASE Next
      BY <1>1, RestsStep, LeftAloneStep, LookedAtStep, PausesStep,
         ConstantsAssumption DEF GateInv
<1>2. CASE UNCHANGED vars
  <2>1. UNCHANGED <<status, node, cursor, term, error, gates, groups, ctx>>
        BY <1>2 DEF vars, rowVars, humanVars
  <2>2. (ConflictsLookedAt /\ GateNodesPause)'
        BY <2>1 DEF GateInv, ConflictsLookedAt, ConflictsApproved, GateNodesPause, Busy, Current
  <2>3. \A r \in Run : Waits(r)' => Waits(r)
        BY <2>1 DEF Waits, TerminationRefused, UndecidedGate
  <2>4. (WaitingRunRests /\ WaitingRunIsLeftAlone)'
        BY <2>1 DEF GateInv, WaitingRunRests, WaitingRunIsLeftAlone, Waits, TerminationRefused,
           UndecidedGate, Busy, Current
  <2> QED BY <2>2, <2>4 DEF GateInv
<1> QED BY <1>1, <1>2

LEMMA Gated == Spec => [](AgentInv /\ GateInv)
<1>1. Init => GateInv
      BY GateInit, ConstantsAssumption
<1> QED BY <1>1, GateInvStep, Agents, PTL DEF Spec

\* One conjunct of GatesAreWaitedFor.
WaitedFor(r) == Undecided(r) /\ Leaves(r) => TerminationRefused(r)

LEMMA WaitedForStep == AgentInv /\ GateInv /\ [Next]_vars => [\A r \in Run : WaitedFor(r)]_vars
<1> SUFFICES ASSUME AgentInv, GateInv, Next, NEW r \in Run,
                    Undecided(r), Leaves(r), ~TerminationRefused(r)
             PROVE  FALSE
    BY DEF WaitedFor
<1>1. PICK x \in gates[r] : /\ x.st = "pending" /\ x.at + 1 = cursor[r]
                            /\ node[r] = GateNode(x.kind)
                            /\ x.kind = "high_risk_approval" => groups[r][x.member] = "pending"
      BY DEF Undecided
<1>2. x.at \in Nat /\ x.kind \in GateKind /\ node[r] # "none"
  <2>1. x \in Gate /\ node[r] \in Node
        BY DEF AgentInv, TypeInv, TypeOK
  <2> QED BY <2>1, NoneIsNoNode DEF Gate
<1>3. PICK w \in Worker : Walked(r, w)
  <2>1. ~Taken(r)
        BY <1>1, <1>2 DEF Taken, AgentInv, DecisionInv, RunFollowsGraph
  <2>2. ~Stays(r) /\ ~\E w \in Worker : BlockedBy(r, w)
        BY DEF Stays, BlockedBy, Leaves
  <2> QED BY <2>1, <2>2, RunStep, ConstantsAssumption DEF AgentInv
<1>4. /\ Busy(w) /\ Current(w) /\ ctx[w].node = node[r] /\ ctx[w].run = r /\ ctx[w].pc = "commit"
      /\ ctx[w].act # TerminateAction
      BY <1>3, WalkedEdge, ConstantsAssumption DEF Walked, Leaves, TerminateAction
<1>5. status[r] = "running" /\ error[r] = "none"
      BY <1>3, <1>4 DEF AgentInv, PlaceInv, RunningOrEnded, Walked, Active, Terminal
<1>6. CASE x.kind = "rollback_conflict"
  <2>1. node[r] = "wait_restore_conflicts"
        BY <1>1, <1>6 DEF GateNode
  <2>2. ConflictsApproved(r)
        BY <1>4, <2>1 DEF GateInv, ConflictsLookedAt
  <2> QED BY <1>1, <1>6, <2>2 DEF ConflictsApproved
<1>7. CASE x.kind # "rollback_conflict"
  <2>1. Waits(r)
        BY <1>1, <1>7 DEF Waits, UndecidedGate
  <2> QED BY <1>4, <1>5, <2>1 DEF GateInv, WaitingRunIsLeftAlone, Handlers
<1> QED BY <1>6, <1>7

\* No run leaves a human gate node before its gates are decided, unless an
\* operator refused a termination confirmation.
THEOREM HumanGatesHold == Spec => GatesAreWaitedFor
<1>1. [\A r \in Run : WaitedFor(r)]_vars =>
          [\A r \in Run : Undecided(r) /\ Leaves(r) => TerminationRefused(r)]_vars
      BY DEF WaitedFor
<1> QED BY <1>1, WaitedForStep, Gated, PTL DEF Spec, GatesAreWaitedFor

-----------------------------------------------------------------------------
(* A paused run can be woken.  The executor that makes a commit pause opens *)
(* a gate of the node the commit leads to; the gates a run has left behind  *)
(* undecided are of other kinds than the one it waits at, so that deciding  *)
(* the last gate of a kind wakes the run, and before that one can still be  *)
(* decided.  A refused termination breaks the second fact: it wakes a run   *)
(* whose gates stay pending.  On the rollback graph it does no harm: the    *)
(* next executor finds the gate pending and refuses.  An identity gate is   *)
(* woken through its conflicts: it names those that nobody has answered,    *)
(* and one that was settled can be confirmed once more.                     *)

-----------------------------------------------------------------------------
(* Facts about the graphs *)

ExitNodes == DrainNodes \cup {"blocked_model_error"}

\* The edges out of the exits stay there; the edge to a gate node is the one
\* whose executor opens the gate.
PauseEdge(n, kind, to) ==
    /\ n \in ExitNodes => to \in ExitNodes /\ kind # "build_identity_index"
    /\ to \in HumanPauseNodes => to # n
    /\ n = "assess_restore_impact" => to = "wait_restore_conflicts"
    /\ kind = "aggregate_risk" => to = "wait_high_risk_approvals"
    /\ kind = "resolve_identity_conflicts" => to = "resolve_identity_conflicts"
    /\ kind = "request_cross_phase_replan" => to = "wait_replan_confirmation"
    /\ kind = "wait_rollback_approval" => to = "wait_rollback_approval"
    /\ n = "wait_rollback_approval" => to = "compile_restore_plan"
    /\ n \in RestoreNodes \cup {"compile_restore_plan"} => to \in RestoreNodes \cup ExitNodes

LEMMA OfferedPause ==
    ASSUME NEW v \in GraphVersion, NEW n, NEW a \in ActionsAt(v, n)
    PROVE  PauseEdge(n, a.kind, a.to)
<1>1. PICK e \in Edges(v) : e[1] = n /\ a = [kind |-> e[2], to |-> e[3]]
      BY DEF ActionsAt
<1>2. \A x \in CommonEdges : PauseEdge(x[1], x[2], x[3])
      BY DEF CommonEdges, PauseEdge, ExitNodes, DrainNodes, HumanPauseNodes,
             RestoreNodes
<1>3. \A x \in SyncEdges : PauseEdge(x[1], x[2], x[3])
      BY <1>2 DEF SyncEdges, PauseEdge, ExitNodes, DrainNodes, HumanPauseNodes,
             RestoreNodes
<1>4. \A x \in SyncV1Edges \cup SyncV2Edges : PauseEdge(x[1], x[2], x[3])
      BY <1>3 DEF SyncV1Edges, SyncV2Edges, PauseEdge, ExitNodes, DrainNodes, HumanPauseNodes,
             RestoreNodes
<1>5. \A x \in RollbackEdges : PauseEdge(x[1], x[2], x[3])
      BY <1>2 DEF RollbackEdges, PauseEdge, ExitNodes, DrainNodes, HumanPauseNodes,
             RestoreNodes
<1>6. PauseEdge(e[1], e[2], e[3])
      BY <1>4, <1>5 DEF Edges
<1>7. a.kind = e[2] /\ a.to = e[3]
      BY <1>1
<1> QED BY <1>1, <1>6, <1>7

LEMMA CarriedPause ==
    ASSUME ConstantsAssumption, TypeInv, DecisionInv, NEW w \in Worker, ctx[w].pc \in Acting,
           ctx[w].act # TerminateAction
    PROVE  PauseEdge(ctx[w].node, ctx[w].act.kind, ctx[w].act.to)
BY OfferedPause DEF DecisionInv, WorkerFollowsDecision, Offers, TypeInv, ActionChosen, Busy, Acting,
   ConstantsAssumption

\* Where a rollback waits.
RestoreWaits == {"wait_restore_conflicts", "wait_rollback_approval"}

LEMMA RollbackPauses ==
    ASSUME NEW v \in GraphVersion \ Sync, NEW n, NEW a \in ActionsAt(v, n), a.to \in HumanPauseNodes
    PROVE  a.to \in RestoreWaits
<1>1. PICK e \in Edges(v) : e[1] = n /\ a = [kind |-> e[2], to |-> e[3]]
      BY DEF ActionsAt
<1>2. e \in RollbackEdges
      BY <1>1 DEF Edges, Sync, GraphVersion
<1>3. \A x \in CommonEdges : x[3] \notin HumanPauseNodes
      BY DEF CommonEdges, HumanPauseNodes
<1>4. \A x \in RollbackEdges : x[3] \in HumanPauseNodes => x[3] \in RestoreWaits
      BY <1>3 DEF RollbackEdges, HumanPauseNodes, RestoreWaits
<1> QED BY <1>1, <1>2, <1>4

-----------------------------------------------------------------------------
(* The invariant *)

\* A gate other than a termination confirmation that was not decided through
\* the gate endpoint.
Open(r, x) == x.st = "pending" /\ x.kind # "termination_confirmation"

\* Where a run stands that has such a gate: at the executor that opened it, at
\* its gate node, or behind it on the way out; an approval decided through its
\* group leaves the gate of a planned run open.
StandsBehind(r, x) ==
    /\ x.at <= cursor[r]
    /\ x.at = cursor[r] =>
           \/ frozen[r].to = GateNode(x.kind)
           \/ x.kind = "rollback_conflict" /\ node[r] = "assess_restore_impact"
    /\ x.at + 1 = cursor[r] => node[r] \in {GateNode(x.kind)} \cup ExitNodes
    /\ x.at + 1 < cursor[r] =>
           \/ node[r] \in ExitNodes
           \/ x.kind = "high_risk_approval" /\ node[r] \in PlanNodes

OpenGatesArePlaced ==
    \A r \in Run : ~TerminationRefused(r) =>
        \A x \in gates[r] : Open(r, x) => StandsBehind(r, x)

\* The gates of a rollback, whether a termination was refused or not.
RestoreKinds == {"rollback_conflict", "rollback_approval"}

StandsInRollback(r, x) ==
    /\ x.at <= cursor[r]
    /\ x.at = cursor[r] =>
           node[r] = IF x.kind = "rollback_conflict" THEN "assess_restore_impact"
                                                    ELSE "wait_restore_conflicts"
    /\ x.at + 1 = cursor[r] => node[r] \in {GateNode(x.kind)} \cup ExitNodes
    /\ x.at + 1 < cursor[r] =>
           \/ node[r] \in ExitNodes
           \/ x.kind = "rollback_approval" /\ node[r] \in RestoreNodes \cup {"compile_restore_plan"}

RestoreGatesArePlaced ==
    \A r \in Run : \A x \in gates[r] :
        x.st = "pending" /\ x.kind \in RestoreKinds => StandsInRollback(r, x)

\* A gate that was opened for the pause at node n behind cursor c.
OpenedFor(r, c, n) == \E x \in gates[r] : x.st = "pending" /\ x.at = c /\ GateNode(x.kind) = n

\* Who is about to pause a run has opened a gate.
PausersOpenGates ==
    \A w \in Worker :
        /\ ctx[w].pc = "commit" /\ ctx[w].pause /\ Current(w)
        /\ ctx[w].act.to \in HumanPauseNodes
        => OpenedFor(ctx[w].run, ctx[w].cursor, ctx[w].act.to)

\* A gate whose kind is pending nowhere but here.
OnlyHere(r, x) ==
    /\ Open(r, x) /\ x.at + 1 = cursor[r] /\ node[r] = GateNode(x.kind)
    /\ \A y \in Pending(r, x.kind) : y.at + 1 = cursor[r]

PausesHaveGates ==
    \A r \in Run :
        /\ ~TerminationRefused(r) \/ node[r] \in RestoreWaits
        /\ status[r] = "waiting_human"
        => \E x \in gates[r] : OnlyHere(r, x)

RollbacksPauseThere ==
    \A r \in Run : status[r] = "waiting_human" /\ VersionOf[r] \notin Sync => node[r] \in RestoreWaits

\* An identity gate was opened for conflicts that the run has found.
GatesHadConflicts ==
    \A r \in Run : \A x \in gates[r] : x.kind = "identity_conflict" =>
        /\ status[r] \notin New
        /\ \E k \in Clarification : clar[r][k] \in Unresolved \cup {"settled"}

\* It names every conflict that nobody has answered yet.
GatesNameConflicts ==
    \A r \in Run : ~TerminationRefused(r) =>
        \A x \in Pending(r, "identity_conflict") : x.at = cursor[r] \/ x.at + 1 = cursor[r] =>
            \A k \in Clarification : clar[r][k] = "pending" => k \in x.member

PausedInv ==
    /\ OpenGatesArePlaced /\ PausersOpenGates /\ PausesHaveGates
    /\ GatesHadConflicts /\ GatesNameConflicts
    /\ RestoreGatesArePlaced /\ RollbacksPauseThere

LEMMA PausedInit == ASSUME ConstantsAssumption PROVE Init => PausedInv
BY DEF Init, PausedInv, OpenGatesArePlaced, PausersOpenGates, PausesHaveGates, GatesHadConflicts,
   GatesNameConflicts, RestoreGatesArePlaced, RollbacksPauseThere, Pending, IdleContext

-----------------------------------------------------------------------------
(* Open gates *)

\* What is frozen stays frozen at its cursor.
LEMMA FrozenStays ==
    ASSUME ConstantsAssumption, AgentInv, Next, NEW r \in Run,
           frozen[r] # NoAction, cursor'[r] = cursor[r]
    PROVE  frozen'[r] = frozen[r]
<1>0. frozen \in [Run -> Action \cup {NoAction}] /\ cursor \in [Run -> Nat]
      BY DEF AgentInv, TypeInv, TypeOK
<1>1. ASSUME UNCHANGED stepVars PROVE frozen'[r] = frozen[r]
      BY <1>1 DEF stepVars
<1>2. ASSUME NEW w \in Worker, Idling(w) PROVE frozen'[r] = frozen[r]
  <2>1. CASE Freeze(w)
        BY <1>0, <2>1 DEF Freeze
  <2>2. CASE ~Freeze(w)
    <3>1. frozen' = frozen
          BY <1>2, <2>2 DEF Idling, BeginTermination, BeginReplay, BeginFresh, Evaluate, DecideRead,
                 DecideInsert, DecideDuplicate, Abandon, CommitRejected, HandlerStale, LoseClaim,
                 Crash, TransientError, Heartbeat, stepVars
    <3> QED BY <3>1
  <2> QED BY <2>1, <2>2
<1>3. ASSUME NEW w \in Worker, Ending(w) PROVE frozen'[r] = frozen[r]
  <2>1. CASE \E to : Advance(ctx[w].run, to)
    <3>1. ctx[w].run # r
          BY <1>0, <2>1 DEF Advance
    <3> QED BY <1>0, <2>1, <3>1 DEF Advance
  <2>2. CASE frozen' = frozen
        BY <2>2
  <2> QED BY <1>3, <2>1, <2>2 DEF Ending, CommitStep, CommitTerminal, BlockModelFailure,
        FailActionContract, FailPersistenceContract, FailRun, stepVars
<1> QED BY <1>1, <1>2, <1>3, StepKinds, ClaimWrites, ExecutingCarries, OutsideWrites, ApiWrites
        DEF AgentInv

\* A gate is opened by the executor in front of its node.
LEMMA OpenedBefore ==
    ASSUME ConstantsAssumption, AgentInv, NEW r \in Run, NEW w \in Worker, NEW x,
           Records(w, r, x)
    PROVE  /\ x.at = cursor[r]
           /\ \/ frozen[r].to = GateNode(x.kind)
              \/ x.kind = "rollback_conflict" /\ node[r] = "assess_restore_impact"
<1> DEFINE a == ctx[w].act
           n == ctx[w].node
<1>1. /\ ctx[w].run = r /\ ctx[w].pc = "execute" /\ Current(w) /\ x.at = cursor[r]
      /\ Busy(w) /\ AtCursor(w)
      BY DEF Records, AtCursor, Current, Busy
<1>2. node[r] = n
      BY <1>1, StandsThere
<1>3. ASSUME a # TerminateAction PROVE frozen[r] = a /\ PauseEdge(n, a.kind, a.to)
      BY <1>1, <1>3, CarriedPause DEF AgentInv, DecisionInv, WorkerFollowsDecision, PastFreeze, Acting
<1>4. CASE x.kind = "high_risk_approval" /\ AggregateRisk(w)
  <2>1. a.kind = "aggregate_risk"
        BY <1>4, ServedBy DEF AggregateRisk, Executing
  <2> QED BY <1>1, <1>3, <1>4, <2>1 DEF PauseEdge, TerminateAction, GateNode
<1>5. CASE x.kind = "identity_conflict" /\ OpenIdentityConflictGate(w)
  <2>1. a.kind = "resolve_identity_conflicts"
        BY <1>5, ServedBy DEF OpenIdentityConflictGate, Executing
  <2> QED BY <1>1, <1>3, <1>5, <2>1 DEF PauseEdge, TerminateAction, GateNode
<1>6. CASE x.kind = "cross_phase_replan" /\ PreflightStale(w)
  <2>1. a.kind = "request_cross_phase_replan"
        BY <1>6 DEF PreflightStale
  <2> QED BY <1>1, <1>3, <1>6, <2>1 DEF PauseEdge, TerminateAction, GateNode
<1>7. CASE x.kind = "rollback_conflict" /\ AssessRollback(w)
  <2>1. n = "assess_restore_impact"
        BY <1>7, ServedBy DEF AssessRollback, Executing
  <2> QED BY <1>1, <1>2, <1>7, <2>1
<1>8. CASE x.kind = "rollback_approval" /\ EnterRollbackApproval(w)
  <2>1. Executor(n, a) = "enter_rollback_approval"
        BY <1>8 DEF EnterRollbackApproval, Executing
  <2>2. a.kind = "wait_rollback_approval"
        BY <2>1 DEF Executor
  <2> QED BY <1>1, <1>3, <1>8, <2>2 DEF PauseEdge, TerminateAction, GateNode
<1> QED BY <1>4, <1>5, <1>6, <1>7, <1>8 DEF Records

\* A run that has not been started has no open gate.
LEMMA NewHasNoGate ==
    ASSUME ConstantsAssumption, AgentInv, NEW r \in Run, NEW x \in gates[r], Open(r, x),
           StandsBehind(r, x)
    PROVE  status[r] \notin New
<1> SUFFICES ASSUME status[r] \in New PROVE FALSE
    OBVIOUS
<1>1. /\ cursor[r] = 0 /\ frozen[r] = NoAction /\ node[r] = InitialNode(VersionOf[r])
      BY DEF AgentInv, DecisionInv, RunFollowsGraph
<1>2. x.at \in Nat /\ x.kind \in GateKind
      BY DEF AgentInv, TypeInv, TypeOK, Gate
<1>3. x.at = cursor[r]
      BY <1>1, <1>2 DEF StandsBehind
<1>4. GateNode(x.kind) # "none"
      BY <1>2, GateNodes DEF Open
<1> QED BY <1>1, <1>3, <1>4 DEF StandsBehind, NoAction, InitialNode

\* A commit leaves an undecided gate only to drain, or from an approval that was
\* decided through its group.
LEMMA WalksPastGate ==
    ASSUME ConstantsAssumption, AgentInv, GateInv, NEW r \in Run, NEW w \in Worker, Walked(r, w),
           ~TerminationRefused(r), NEW x \in gates[r], Open(r, x),
           x.at + 1 = cursor[r], node[r] = GateNode(x.kind), x.kind # "high_risk_approval"
    PROVE  ctx[w].act = TerminateAction
<1>1. /\ Busy(w) /\ Current(w) /\ ctx[w].node = node[r] /\ ctx[w].run = r /\ ctx[w].pc = "commit"
      /\ status[r] \in Active /\ error[r] = "none"
      BY WalkedEdge DEF Walked
<1>2. status[r] = "running"
      BY <1>1 DEF AgentInv, PlaceInv, RunningOrEnded, Active, Terminal
<1>3. CASE x.kind = "rollback_conflict"
  <2>1. node[r] = "wait_restore_conflicts"
        BY <1>3 DEF GateNode
  <2> QED BY <1>1, <1>3, <2>1 DEF GateInv, ConflictsLookedAt, ConflictsApproved, Open
<1>4. CASE x.kind # "rollback_conflict"
  <2>1. Waits(r)
        BY <1>4 DEF Waits, UndecidedGate, Open
  <2> QED BY <1>1, <1>2, <2>1 DEF GateInv, WaitingRunIsLeftAlone, Handlers
<1> QED BY <1>3, <1>4

\* A commit takes a run past its open gates.
LEMMA WalkedBehind ==
    ASSUME ConstantsAssumption, AgentInv, GateInv, NEW r \in Run, NEW w \in Worker, Walked(r, w),
           ~TerminationRefused(r), NEW x \in gates[r], Open(r, x), StandsBehind(r, x)
    PROVE  StandsBehind(r, x)'
<1> DEFINE a == ctx[w].act
<1>1. /\ ctx[w].run = r /\ ctx[w].pc = "commit" /\ Current(w) /\ ctx[w].node = node[r]
      /\ node'[r] = a.to /\ cursor'[r] = cursor[r] + 1
      /\ cursor[r] \in Nat /\ x.at \in Nat /\ x.kind \in GateKind
      BY WalkedEdge DEF Walked, AgentInv, TypeInv, TypeOK, Gate
<1>2. CASE a = TerminateAction
  <2>1. node'[r] \in ExitNodes
        BY <1>1, <1>2 DEF TerminateAction, ExitNodes, DrainNodes
  <2> QED BY <1>1, <2>1 DEF StandsBehind
<1>3. CASE a # TerminateAction
  <2>1. /\ frozen[r] = a
        /\ PauseEdge(node[r], a.kind, a.to) /\ EdgeFacts(node[r], a.kind, a.to)
        BY <1>1, <1>3, CarriedPause, CarriedEdge DEF AgentInv, DecisionInv, WorkerFollowsDecision,
           PastFreeze, Acting
  <2>2. CASE x.at = cursor[r]
    <3>1. a.to = GateNode(x.kind)
          BY <2>1, <2>2 DEF StandsBehind, PauseEdge, GateNode
    <3> QED BY <1>1, <2>2, <3>1 DEF StandsBehind
  <2>3. CASE node[r] \in ExitNodes /\ x.at + 1 <= cursor[r]
    <3>1. a.to \in ExitNodes
          BY <2>1, <2>3 DEF PauseEdge
    <3> QED BY <1>1, <2>3, <3>1 DEF StandsBehind
  <2>4. CASE x.kind = "high_risk_approval" /\ node[r] \in PlanNodes /\ x.at + 1 <= cursor[r]
    <3>1. a.to \in PlanNodes
          BY <2>1, <2>4 DEF EdgeFacts, PlanEdge
    <3> QED BY <1>1, <2>4, <3>1 DEF StandsBehind
  <2>5. CASE x.at + 1 = cursor[r] /\ node[r] = GateNode(x.kind)
    <3>1. x.kind = "high_risk_approval"
          BY <1>3, <2>5, WalksPastGate
    <3>2. node[r] \in PlanNodes
          BY <2>5, <3>1 DEF GateNode, PlanNodes
    <3> QED BY <2>4, <2>5, <3>1, <3>2, <1>1
  <2>6. x.at = cursor[r] \/ x.at + 1 = cursor[r] \/ x.at + 1 < cursor[r]
        BY <1>1 DEF StandsBehind
  <2> QED BY <1>1, <2>2, <2>3, <2>4, <2>5, <2>6 DEF StandsBehind
<1> QED BY <1>2, <1>3

LEMMA PlacedStep ==
    ASSUME ConstantsAssumption, AgentInv, GateInv, OpenGatesArePlaced, Next
    PROVE  OpenGatesArePlaced'
<1> SUFFICES ASSUME NEW r \in Run, ~TerminationRefused(r)', NEW x \in gates'[r], Open(r, x)
             PROVE  StandsBehind(r, x)'
    BY DEF OpenGatesArePlaced, Open
<1>0. /\ x.at \in Nat /\ x.kind \in GateKind /\ cursor[r] \in Nat
      /\ GateNode(x.kind) # "none"
  <2>1. x \in Gate /\ cursor[r] \in Nat
        BY TypeStep DEF AgentInv, TypeInv, TypeOK
  <2> QED BY <2>1, GateNodes DEF Gate, Open
<1>1. ~TerminationRefused(r)
      BY RefusedStays
<1>2. CASE x \notin gates[r]
  <2>1. PICK w \in Worker : Records(w, r, x)
        BY <1>2, GateStep DEF GateFrom, Open, AgentInv
  <2>2. Execute(w)
        BY <2>1 DEF Records, Execute
  <2>3. /\ node'[r] = node[r] /\ cursor'[r] = cursor[r] /\ frozen'[r] = frozen[r]
        BY <2>2, ExecutingCarries DEF AgentInv, rowVars, stepVars
  <2> QED BY <1>0, <2>1, <2>3, OpenedBefore DEF StandsBehind
<1>3. CASE x \in gates[r]
  <2>1. StandsBehind(r, x)
        BY <1>1, <1>3 DEF OpenGatesArePlaced
  <2>2. CASE Stays(r)
    <3>1. node'[r] = node[r] /\ cursor'[r] = cursor[r]
          BY <2>2 DEF Stays
    <3>2. frozen[r].to = GateNode(x.kind) => frozen'[r] = frozen[r]
          BY <1>0, <3>1, FrozenStays DEF NoAction
    <3> QED BY <2>1, <3>1, <3>2 DEF StandsBehind
  <2>3. ASSUME NEW w \in Worker, Walked(r, w) PROVE StandsBehind(r, x)'
        BY <1>1, <1>3, <2>1, <2>3, WalkedBehind
  <2>4. ASSUME NEW w \in Worker, BlockedBy(r, w) PROVE StandsBehind(r, x)'
    <3>1. node'[r] \in ExitNodes /\ cursor'[r] = cursor[r] + 1
          BY <2>4 DEF BlockedBy, ExitNodes
    <3> QED BY <1>0, <2>1, <3>1 DEF StandsBehind
  <2>5. ~Taken(r)
        BY <1>3, <2>1, NewHasNoGate DEF Taken
  <2> QED BY <2>2, <2>3, <2>4, <2>5, RunStep DEF AgentInv
<1> QED BY <1>2, <1>3

-----------------------------------------------------------------------------
(* The gates of a rollback *)

LEMMA WalkedInRollback ==
    ASSUME ConstantsAssumption, AgentInv, GateInv, NEW r \in Run, NEW w \in Worker, Walked(r, w),
           NEW x \in gates[r], x.st = "pending", x.kind \in RestoreKinds, StandsInRollback(r, x)
    PROVE  StandsInRollback(r, x)'
<1> DEFINE a == ctx[w].act
<1>1. /\ ctx[w].run = r /\ ctx[w].pc = "commit" /\ Current(w) /\ ctx[w].node = node[r]
      /\ node'[r] = a.to /\ cursor'[r] = cursor[r] + 1
      /\ cursor[r] \in Nat /\ x.at \in Nat
      BY WalkedEdge DEF Walked, AgentInv, TypeInv, TypeOK, Gate
<1>2. CASE a = TerminateAction
  <2>1. node'[r] \in ExitNodes
        BY <1>1, <1>2 DEF TerminateAction, ExitNodes, DrainNodes
  <2> QED BY <1>1, <2>1 DEF StandsInRollback
<1>3. CASE a # TerminateAction
  <2>1. PauseEdge(node[r], a.kind, a.to) /\ EdgeFacts(node[r], a.kind, a.to)
        BY <1>1, <1>3, CarriedPause, CarriedEdge DEF AgentInv, Acting
  <2>2. ~(x.kind = "rollback_conflict" /\ node[r] = "wait_restore_conflicts")
        BY <1>1, <1>3 DEF GateInv, ConflictsLookedAt, ConflictsApproved
  <2>3. CASE x.at = cursor[r]
    <3>1. a.to = GateNode(x.kind)
          BY <2>1, <2>3 DEF StandsInRollback, PauseEdge, EdgeFacts, GateEdge, GateNode, RestoreKinds
    <3> QED BY <1>1, <2>3, <3>1 DEF StandsInRollback
  <2>4. CASE node[r] \in ExitNodes /\ x.at + 1 <= cursor[r]
    <3>1. a.to \in ExitNodes
          BY <2>1, <2>4 DEF PauseEdge
    <3> QED BY <1>1, <2>4, <3>1 DEF StandsInRollback
  <2>5. CASE /\ x.kind = "rollback_approval" /\ x.at + 1 <= cursor[r]
             /\ node[r] \in RestoreNodes \cup {"compile_restore_plan", "wait_rollback_approval"}
    <3>1. a.to \in RestoreNodes \cup ExitNodes \cup {"compile_restore_plan"}
          BY <2>1, <2>5 DEF PauseEdge
    <3> QED BY <1>1, <2>5, <3>1 DEF StandsInRollback
  <2>6. x.at = cursor[r] \/ x.at + 1 = cursor[r] \/ x.at + 1 < cursor[r]
        BY <1>1 DEF StandsInRollback
  <2> QED BY <1>1, <2>2, <2>3, <2>4, <2>5, <2>6 DEF StandsInRollback, RestoreKinds, GateNode
<1> QED BY <1>2, <1>3

LEMMA RollbackPlacedStep ==
    ASSUME ConstantsAssumption, AgentInv, GateInv, RestoreGatesArePlaced, Next
    PROVE  RestoreGatesArePlaced'
<1> SUFFICES ASSUME NEW r \in Run, NEW x \in gates'[r], x.st = "pending", x.kind \in RestoreKinds
             PROVE  StandsInRollback(r, x)'
    BY DEF RestoreGatesArePlaced
<1>0. x.at \in Nat /\ cursor[r] \in Nat
      BY TypeStep DEF AgentInv, TypeInv, TypeOK, Gate
<1>1. CASE x \notin gates[r]
  <2>1. PICK w \in Worker : Records(w, r, x)
        BY <1>1, GateStep DEF GateFrom, AgentInv, RestoreKinds
  <2>2. /\ ctx[w].run = r /\ Busy(w) /\ AtCursor(w) /\ x.at = cursor[r]
        /\ \/ x.kind = "rollback_conflict" /\ AssessRollback(w)
           \/ x.kind = "rollback_approval" /\ EnterRollbackApproval(w)
        BY <2>1 DEF Records, Busy, AtCursor, RestoreKinds
  <2>3. node[r] = IF x.kind = "rollback_conflict" THEN "assess_restore_impact"
                                                 ELSE "wait_restore_conflicts"
        BY <2>2, StandsThere, ServedBy DEF AssessRollback, EnterRollbackApproval, Executing
  <2>4. node'[r] = node[r] /\ cursor'[r] = cursor[r]
        BY <2>2, ExecutingCarries DEF Execute, AgentInv, rowVars
  <2> QED BY <1>0, <2>2, <2>3, <2>4 DEF StandsInRollback
<1>2. CASE x \in gates[r]
  <2>1. StandsInRollback(r, x)
        BY <1>2 DEF RestoreGatesArePlaced
  <2>2. CASE Stays(r)
        BY <2>1, <2>2 DEF Stays, StandsInRollback
  <2>3. ASSUME NEW w \in Worker, BlockedBy(r, w) PROVE StandsInRollback(r, x)'
    <3>1. node'[r] \in ExitNodes /\ cursor'[r] = cursor[r] + 1
          BY <2>3 DEF BlockedBy, ExitNodes
    <3> QED BY <1>0, <2>1, <3>1 DEF StandsInRollback
  <2>4. ~Taken(r)
    <3> SUFFICES ASSUME status[r] \in New PROVE FALSE
        BY DEF Taken
    <3>1. cursor[r] = 0 /\ node[r] = InitialNode(VersionOf[r])
          BY DEF AgentInv, DecisionInv, RunFollowsGraph
    <3> QED BY <1>0, <2>1, <3>1 DEF StandsInRollback, InitialNode
  <2> QED BY <1>2, <2>1, <2>2, <2>3, <2>4, WalkedInRollback, RunStep DEF AgentInv
<1> QED BY <1>1, <1>2

-----------------------------------------------------------------------------
(* Opening a gate and pausing *)

\* An execution that makes the commit pause at a gate node has opened a gate.
LEMMA OpensGate ==
    ASSUME ConstantsAssumption, AgentInv, NEW w \in Worker, Execute(w), ctx[w].pc = "execute",
           ctx'[w].pc = "commit", ctx'[w].pause, ctx[w].act.to \in HumanPauseNodes
    PROVE  \E x \in gates'[ctx[w].run] :
               x.st = "pending" /\ x.at = ctx[w].cursor /\ GateNode(x.kind) = ctx[w].act.to
<1> DEFINE r == ctx[w].run
           c == ctx[w].cursor
           to == ctx[w].act.to
<1>0. r \in Run /\ gates \in [Run -> SUBSET Gate]
      BY ExecutingType DEF AgentInv, TypeInv, TypeOK
<1>1. ctx[w].act # TerminateAction
      BY DEF TerminateAction, HumanPauseNodes
<1>2. to # "blocked_model_error"
      BY <1>1, CarriedEdge DEF AgentInv, Acting, EdgeFacts, EndEdge
<1>3. ASSUME NEW kind \in GateKind, NEW m, RecordGate(r, kind, c, m), GateNode(kind) = to
      PROVE  \E x \in gates'[r] : x.st = "pending" /\ x.at = c /\ GateNode(x.kind) = to
  <2>1. NewGate(kind, c, m) \in gates'[r]
        BY <1>0, <1>3 DEF RecordGate
  <2> QED BY <1>3, <2>1 DEF NewGate
<1>4. CASE to = "resolve_identity_conflicts"
  <2>1. OpenIdentityConflictGate(w)
        BY <1>1, <1>4, BeforeGate
  <2> QED BY <1>3, <1>4, <2>1 DEF OpenIdentityConflictGate, GateNode, GateKind
<1>5. CASE to = "wait_replan_confirmation"
  <2>1. PreflightStale(w)
        BY <1>1, <1>5, BeforeGate
  <2> QED BY <1>3, <1>5, <2>1 DEF PreflightStale, GateNode, GateKind
<1>6. CASE to = "wait_rollback_approval"
  <2>1. EnterRollbackApproval(w)
        BY <1>1, <1>6, BeforeGate
  <2> QED BY <1>3, <1>6, <2>1 DEF EnterRollbackApproval, GateNode, GateKind
<1>7. CASE to = "wait_restore_conflicts"
  <2>1. AssessRollback(w)
        BY <1>1, <1>7, BeforeGate
  <2>2. RecordGate(r, "rollback_conflict", c, NoGroup)
        BY <2>1, PauseSet DEF AssessRollback
  <2> QED BY <1>3, <1>7, <2>2 DEF GateNode, GateKind
<1>8. CASE to = "wait_high_risk_approvals"
  <2> DEFINE aggregated == [g \in Group |->
                              IF groups[r][g] = "latent" THEN "pending" ELSE groups[r][g]]
             open == {g \in Group : aggregated[g] = "pending"}
             opened == {NewGate("high_risk_approval", c, g) : g \in open}
  <2>1. AggregateRisk(w)
        BY <1>1, <1>8, BeforeGate
  <2>2. Executed(w, open # {}) /\ gates' = [gates EXCEPT ![r] = @ \cup opened]
        BY <2>1 DEF AggregateRisk
  <2>3. PICK g \in Group : g \in open
    <3>1. open # {}
      <4> HIDE DEF open
      <4> QED BY <2>2, PauseSet
    <3> QED BY <3>1
  <2>4. NewGate("high_risk_approval", c, g) \in gates'[r]
    <3>1. NewGate("high_risk_approval", c, g) \in opened
          BY <2>3
    <3> HIDE DEF opened
    <3> QED BY <1>0, <2>2, <3>1
  <2> QED BY <1>8, <2>4 DEF NewGate, GateNode
<1> QED BY <1>2, <1>4, <1>5, <1>6, <1>7, <1>8 DEF HumanPauseNodes

\* Before its commit a gate cannot be decided.
LEMMA OpenedStays ==
    ASSUME ConstantsAssumption, AgentInv, Next, NEW r \in Run, NEW x \in gates[r],
           x.at = cursor[r], node[r] # GateNode(x.kind), GateNode(x.kind) # "none"
    PROVE  x \in gates'[r]
<1>0. x.at \in Nat /\ x.kind \in GateKind
      BY DEF AgentInv, TypeInv, TypeOK, Gate
<1>1. x.kind # "termination_confirmation"
      BY <1>0, GateNodes
<1>2. ASSUME NEW q \in loaded[r], q.gate = x PROVE ~ActionableAs(r, q.gate, q.seen)
      BY <1>0, <1>1, <1>2 DEF ActionableAs
<1>3. x.kind = "identity_conflict" => node[r] # "resolve_identity_conflicts"
      BY DEF GateNode
<1> QED BY <1>2, <1>3, GateKept DEF AgentInv, Decides, ApproveTermination, DecideGate

LEMMA PausersStep ==
    ASSUME ConstantsAssumption, AgentInv, PausersOpenGates, Next
    PROVE  PausersOpenGates'
<1> SUFFICES ASSUME NEW v \in Worker, ctx'[v].pc = "commit", ctx'[v].pause, Current(v)',
                    ctx'[v].act.to \in HumanPauseNodes
             PROVE  \E x \in gates'[ctx'[v].run] :
                        x.st = "pending" /\ x.at = ctx'[v].cursor /\ GateNode(x.kind) = ctx'[v].act.to
    BY DEF PausersOpenGates, OpenedFor
<1>1. CASE ctx'[v] = ctx[v]
  <2> DEFINE r == ctx[v].run
  <2>1. /\ Current(v) /\ r \in Run /\ Busy(v) /\ ctx[v].node = node[r]
        BY <1>1, StillCurrent, ClaimWrites DEF Busy, AgentInv
  <2>2. PICK x \in gates[r] : /\ x.st = "pending" /\ x.at = ctx[v].cursor
                              /\ GateNode(x.kind) = ctx[v].act.to
        BY <1>1, <2>1 DEF PausersOpenGates, OpenedFor
  <2>3. ctx[v].act # TerminateAction
        BY <1>1 DEF TerminateAction, HumanPauseNodes
  <2>4. ctx[v].act.to # node[r]
        BY <1>1, <2>1, <2>3, CarriedPause DEF AgentInv, Acting, PauseEdge
  <2>5. GateNode(x.kind) # "none"
        BY <1>1, <2>2 DEF HumanPauseNodes
  <2>6. x \in gates'[r]
        BY <2>1, <2>2, <2>4, <2>5, OpenedStays DEF Current
  <2> QED BY <1>1, <2>2, <2>6
<1>2. CASE /\ Execute(v) /\ ctx[v].pc = "execute" /\ ctx'[v].act = ctx[v].act
           /\ ctx'[v].run = ctx[v].run /\ ctx'[v].cursor = ctx[v].cursor
      BY <1>2, OpensGate
<1> QED BY <1>1, <1>2, CommitStage DEF AgentInv

-----------------------------------------------------------------------------
(* Waiting *)

\* A run that comes to its pause finds the gate its worker has opened, and no
\* other of its kind.
LEMMA ArrivesServed ==
    ASSUME ConstantsAssumption, AgentInv, OpenGatesArePlaced, RestoreGatesArePlaced,
           PausersOpenGates, Next,
           NEW r \in Run, NEW w \in Worker, Walked(r, w), ctx[w].pause, ctx[w].act.to # "terminal",
           ~TerminationRefused(r) \/ ctx[w].act.to \in RestoreWaits
    PROVE  \E x \in gates'[r] : OnlyHere(r, x)'
<1> DEFINE to == ctx[w].act.to
<1>1. /\ ctx[w].run = r /\ ctx[w].pc = "commit" /\ Current(w) /\ ctx[w].node = node[r]
      /\ node'[r] = to /\ cursor'[r] = cursor[r] + 1 /\ ctx[w].cursor = cursor[r]
      /\ to \in HumanPauseNodes /\ gates' = gates /\ cursor[r] \in Nat
      BY WalkedEdge DEF Walked, BadPause, Current, humanVars, AgentInv, TypeInv, TypeOK
<1>2. PICK x \in gates[r] : x.st = "pending" /\ x.at = cursor[r] /\ GateNode(x.kind) = to
      BY <1>1 DEF PausersOpenGates, OpenedFor
<1>3. to # "none" /\ ctx[w].act # TerminateAction
      BY <1>1 DEF HumanPauseNodes, TerminateAction
<1>4. x.kind \in GateKind /\ x.kind # "termination_confirmation"
  <2>1. x.kind \in GateKind
        BY DEF AgentInv, TypeInv, TypeOK, Gate
  <2> QED BY <1>2, <1>3, <2>1, GateNodes
<1>5. /\ PauseEdge(node[r], ctx[w].act.kind, to) /\ EdgeFacts(node[r], ctx[w].act.kind, to)
      BY <1>1, <1>3, CarriedPause, CarriedEdge DEF AgentInv, Acting
<1>6. to \notin ExitNodes
      BY <1>2, <1>4, GateNodes DEF ExitNodes
<1>7. node[r] \notin ExitNodes /\ node[r] # to
      BY <1>1, <1>5, <1>6 DEF PauseEdge
<1>8. ASSUME NEW y \in Pending(r, x.kind) PROVE y.at = cursor[r]
  <2>1. y \in gates[r] /\ Open(r, y) /\ y.kind = x.kind /\ y.at \in Nat
        BY <1>4 DEF Pending, Open, AgentInv, TypeInv, TypeOK, Gate
  <2>2. CASE ~TerminationRefused(r)
    <3>1. StandsBehind(r, y)
          BY <2>1, <2>2 DEF OpenGatesArePlaced
    <3>2. ~(x.kind = "high_risk_approval" /\ node[r] \in PlanNodes)
          BY <1>2, <1>5 DEF GateNode, EdgeFacts, PlanEdge, PlanNodes
    <3> QED BY <1>1, <1>2, <1>7, <2>1, <3>1, <3>2 DEF StandsBehind
  <2>3. CASE to \in RestoreWaits
    <3>1. x.kind \in RestoreKinds
          BY <1>2, <1>4, <2>3 DEF RestoreWaits, RestoreKinds, GateKind, GateNode
    <3>2. StandsInRollback(r, y)
          BY <2>1, <3>1 DEF RestoreGatesArePlaced, Open
    <3>3. x.kind = "rollback_approval" => node[r] = "wait_restore_conflicts"
          BY <1>2, <1>5 DEF GateNode, EdgeFacts, GateEdge
    <3> QED BY <1>1, <1>2, <1>7, <2>1, <3>2, <3>3 DEF StandsInRollback, RestoreNodes
  <2> QED BY <2>2, <2>3
<1>9. \A y \in Pending(r, x.kind)' : y.at + 1 = cursor'[r]
      BY <1>1, <1>8 DEF Pending
<1> QED BY <1>1, <1>2, <1>4, <1>9 DEF OnlyHere, Open

\* A gate that is decided while its run waits leaves another of its kind, or
\* wakes the run.
LEMMA WaitsServed ==
    ASSUME ConstantsAssumption, AgentInv, GateInv, PausesHaveGates, Next, NEW r \in Run, Stays(r),
           status[r] = "waiting_human", status'[r] = "waiting_human",
           ~TerminationRefused(r) \/ node[r] \in RestoreWaits
    PROVE  \E x \in gates'[r] : OnlyHere(r, x)'
<1>0. /\ gates \in [Run -> SUBSET Gate] /\ status \in [Run -> Status] /\ cursor[r] \in Nat
      /\ node'[r] = node[r] /\ cursor'[r] = cursor[r]
      BY DEF AgentInv, TypeInv, TypeOK, Stays
<1>1. PICK x \in gates[r] : OnlyHere(r, x)
      BY DEF PausesHaveGates
<1>2. ASSUME NEW y \in gates'[r], y.st = "pending", y.kind = x.kind PROVE y \in gates[r]
  <2>1. ASSUME NEW w \in Worker, Records(w, r, y) PROVE FALSE
    <3>1. Busy(w) /\ Current(w) /\ ctx[w].run = r
          BY <2>1 DEF Records, Busy, Current, AtCursor
    <3> QED BY <3>1 DEF AgentInv, PlaceInv, RunningOrEnded, Terminal
  <2> QED BY <1>1, <1>2, <2>1, GateStep DEF GateFrom, AgentInv, OnlyHere, Open
<1>3. ASSUME NEW y \in gates'[r], y.st = "pending", y.kind = x.kind PROVE OnlyHere(r, y)'
  <2>1. y \in Pending(r, x.kind)
        BY <1>2, <1>3 DEF Pending
  <2>2. \A z \in Pending(r, x.kind)' : z.at + 1 = cursor'[r]
        BY <1>0, <1>1, <1>2 DEF Pending, OnlyHere
  <2> QED BY <1>0, <1>1, <1>3, <2>1, <2>2 DEF OnlyHere, Open
<1>4. CASE x \in gates'[r]
      BY <1>1, <1>3, <1>4 DEF OnlyHere, Open
<1>5. CASE x \notin gates'[r]
  <2>1. PICK q \in loaded[r], d \in Outcome : q.gate = x /\ DecideGate(r, q, d)
    <3>1. ASSUME NEW c \in confirming[r], c.last, ResumeAfterClarification(r, c),
                 node[r] = "resolve_identity_conflicts"
          PROVE  FALSE
          BY <1>0, <3>1 DEF ResumeAfterClarification
    <3> QED BY <1>1, <1>5, <3>1, GateKept DEF AgentInv, Decides, ApproveTermination, OnlyHere, Open
  <2>2. PICK y \in Pending(r, x.kind) : y # x
    <3>1. Pending(r, x.kind) # {x}
      <4>1. q.seen = "waiting_human"
            BY <1>1, <2>1 DEF DecideGate, ActionableAs, OnlyHere, Open
      <4> QED BY <1>0, <2>1, <4>1 DEF DecideGate
    <3>2. x \in Pending(r, x.kind)
          BY <1>1 DEF OnlyHere, Open, Pending
    <3> QED BY <3>1, <3>2
  <2>3. y \in gates'[r] /\ y.st = "pending" /\ y.kind = x.kind
        BY <1>0, <2>1, <2>2 DEF DecideGate, Settle, Pending
  <2> QED BY <1>3, <2>3
<1> QED BY <1>4, <1>5

LEMMA ServedStep ==
    ASSUME ConstantsAssumption, AgentInv, GateInv, PausedInv, Next
    PROVE  PausesHaveGates'
<1> SUFFICES ASSUME NEW r \in Run, ~TerminationRefused(r)' \/ node'[r] \in RestoreWaits,
                    status'[r] = "waiting_human"
             PROVE  \E x \in gates'[r] : OnlyHere(r, x)'
    BY DEF PausesHaveGates
<1>1. ~TerminationRefused(r) \/ node'[r] \in RestoreWaits
      BY RefusedStays
<1>2. CASE Stays(r)
      BY <1>1, <1>2, WaitsServed DEF PausedInv, Stays
<1>3. ASSUME NEW w \in Worker, Walked(r, w) PROVE \E x \in gates'[r] : OnlyHere(r, x)'
  <2>1. Busy(w) /\ Current(w) /\ ctx[w].run = r
        BY <1>3, WalkedEdge DEF Walked
  <2>2. status[r] # "waiting_human"
        BY <2>1 DEF AgentInv, PlaceInv, RunningOrEnded, Terminal
  <2>3. ctx[w].pause /\ ctx[w].act.to # "terminal"
        BY <1>3, <2>2 DEF Walked
  <2>4. node'[r] = ctx[w].act.to
        BY <1>3 DEF Walked
  <2> QED BY <1>1, <1>3, <2>3, <2>4, ArrivesServed DEF PausedInv
<1> QED BY <1>2, <1>3, RunStep DEF AgentInv, Taken, BlockedBy

LEMMA PausesThereStep ==
    ASSUME ConstantsAssumption, AgentInv, GateInv, RollbacksPauseThere, Next
    PROVE  RollbacksPauseThere'
<1> SUFFICES ASSUME NEW r \in Run, status'[r] = "waiting_human", VersionOf[r] \notin Sync
             PROVE  node'[r] \in RestoreWaits
    BY DEF RollbacksPauseThere
<1>1. CASE Stays(r)
      BY <1>1 DEF Stays, RollbacksPauseThere
<1>2. ASSUME NEW w \in Worker, Walked(r, w) PROVE node'[r] \in RestoreWaits
  <2>1. /\ Busy(w) /\ Current(w) /\ ctx[w].run = r /\ ctx[w].pc = "commit"
        /\ ctx[w].node = node[r] /\ node'[r] = ctx[w].act.to
        BY <1>2, WalkedEdge DEF Walked
  <2>2. status[r] # "waiting_human"
        BY <2>1 DEF AgentInv, PlaceInv, RunningOrEnded, Terminal
  <2>3. ctx[w].act.to \in HumanPauseNodes
        BY <1>2, <2>2 DEF Walked, BadPause
  <2>4. ctx[w].act \in ActionsAt(VersionOf[r], node[r])
        BY <2>1, <2>3 DEF AgentInv, DecisionInv, WorkerFollowsDecision, Offers, Acting,
           TerminateAction, HumanPauseNodes
  <2>5. VersionOf[r] \in GraphVersion
        BY DEF ConstantsAssumption
  <2> QED BY <2>1, <2>3, <2>4, <2>5, RollbackPauses
<1> QED BY <1>1, <1>2, RunStep DEF AgentInv, Taken, BlockedBy

-----------------------------------------------------------------------------
(* Clarifications *)

\* A conflict is chosen at the start, found by the identity index, read back,
\* and settled.
LEMMA ClarStep ==
    ASSUME ConstantsAssumption, AgentInv, Next, NEW r \in Run, NEW k \in Clarification
    PROVE  \/ clar'[r][k] = clar[r][k]
           \/ Start(r)
           \/ /\ clar[r][k] = "latent" /\ clar'[r][k] = "pending"
              /\ \E w \in Worker : BuildIdentityIndex(w) /\ ctx[w].run = r
           \/ clar[r][k] \in {"pending", "settled"} /\ clar'[r][k] = "interpreted"
           \/ \E c \in confirming[r] :
                  c.clar = k /\ ResumeAfterClarification(r, c) /\ clar'[r][k] = "settled"
<1>0. clar \in [Run -> [Clarification -> ClarStatus]]
      BY DEF AgentInv, TypeInv, TypeOK
<1>1. ASSUME clar' = clar PROVE clar'[r][k] = clar[r][k]
      BY <1>1
<1>2. ASSUME NEW w \in Worker, Execute(w)
      PROVE  \/ clar'[r][k] = clar[r][k]
             \/ /\ clar[r][k] = "latent" /\ clar'[r][k] = "pending"
                /\ BuildIdentityIndex(w) /\ ctx[w].run = r
  <2>1. CASE BuildIdentityIndex(w)
    <3>1. ctx[w].run \in Run
          BY <2>1, ExecutingType DEF BuildIdentityIndex, Executing, AgentInv
    <3> QED BY <1>0, <2>1, <3>1 DEF BuildIdentityIndex
  <2>2. CASE ~BuildIdentityIndex(w)
    <3>1. clar' = clar
          BY <1>2, <2>2 DEF Execute, ExecuteOther, OpenIdentityConflictGate, AggregateRisk,
             CompileExecutionPlan, PreflightPassed, PreflightStale, ExecuteGovernance, GenerateReport,
             AssessRollback, EnterRollbackApproval, CompileRollback, ExecuteRollback, ModelFails,
             ExecutorRejects, humanVars
    <3> QED BY <3>1
  <2> QED BY <2>1, <2>2
<1>3. ASSUME NEW q \in Run, Operator(q)
      PROVE  \/ clar' = clar
             \/ Start(q)
             \/ \E j \in Clarification : InterpretClarification(q, j)
             \/ \E c \in confirming[q] : ResumeAfterClarification(q, c)
      BY <1>3 DEF Operator, CreateRollback, ConfirmRollback, RejectRollback, PreviewTermination,
         LoadForDecision, ApproveTermination, DecideGate, ConfirmClarification, DecideGroup,
         ResumeAfterApproval, humanVars
<1>4. ASSUME NEW q \in Run, Start(q) PROVE q = r \/ clar'[r][k] = clar[r][k]
      BY <1>0, <1>4 DEF Start
<1>5. ASSUME NEW q \in Run, NEW j \in Clarification, InterpretClarification(q, j)
      PROVE  \/ clar'[r][k] = clar[r][k]
             \/ clar[r][k] \in {"pending", "settled"} /\ clar'[r][k] = "interpreted"
      BY <1>0, <1>5 DEF InterpretClarification
<1>6. ASSUME NEW q \in Run, NEW c \in confirming[q], ResumeAfterClarification(q, c)
      PROVE  \/ clar'[r][k] = clar[r][k]
             \/ q = r /\ c.clar = k /\ clar'[r][k] = "settled"
      BY <1>0, <1>6 DEF ResumeAfterClarification
<1> QED BY <1>1, <1>2, <1>3, <1>4, <1>5, <1>6, StepKinds, ClaimWrites, IdlingWritesNothing,
        EndingWrites, OutsideWrites DEF AgentInv, humanVars

LEMMA HadConflictsStep ==
    ASSUME ConstantsAssumption, AgentInv, GatesHadConflicts, Next
    PROVE  GatesHadConflicts'
<1> SUFFICES ASSUME NEW r \in Run, NEW x \in gates'[r], x.kind = "identity_conflict"
             PROVE  /\ status'[r] \notin New
                    /\ \E k \in Clarification : clar'[r][k] \in Unresolved \cup {"settled"}
    BY DEF GatesHadConflicts
<1>1. CASE \E y \in gates[r] : y.kind = "identity_conflict"
  <2>1. PICK k \in Clarification : clar[r][k] \in Unresolved \cup {"settled"}
        BY <1>1 DEF GatesHadConflicts
  <2>2. status[r] \notin New
        BY <1>1 DEF GatesHadConflicts
  <2>3. ~Start(r)
        BY <2>2 DEF Start, New
  <2>4. clar'[r][k] \in Unresolved \cup {"settled"}
        BY <2>1, <2>3, ClarStep DEF Unresolved
  <2> QED BY <2>2, <2>4, StartedStays
<1>2. ASSUME NEW w \in Worker, Records(w, r, x)
      PROVE  /\ status'[r] \notin New
             /\ \E k \in Clarification : clar'[r][k] \in Unresolved \cup {"settled"}
  <2>1. OpenIdentityConflictGate(w) /\ ctx[w].run = r /\ Busy(w) /\ AtCursor(w)
        BY <1>2 DEF Records, Busy
  <2>2. status[r] \notin New
        BY <2>1, StandsThere
  <2> QED BY <2>1, <2>2, StartedStays DEF OpenIdentityConflictGate
<1> QED BY <1>1, <1>2, GateStep DEF AgentInv, GateFrom, WasPending

\* What an identity gate names when it is opened.
LEMMA OpenedNamesConflicts ==
    ASSUME AgentInv, NEW w \in Worker, OpenIdentityConflictGate(w), NEW r \in Run, ctx[w].run = r,
           NEW x \in gates'[r], x \notin gates[r]
    PROVE  \A k \in Clarification : clar'[r][k] = "pending" => k \in x.member
<1> DEFINE open == {k \in Clarification : clar[r][k] \in Unresolved}
<1>1. RecordGate(r, "identity_conflict", ctx[w].cursor, open) /\ clar' = clar
      BY DEF OpenIdentityConflictGate
<1>2. x.member = open
  <2> HIDE DEF open
  <2> QED BY <1>1, GateOfRecord DEF AgentInv
<1> QED BY <1>1, <1>2 DEF Unresolved

\* The index is not built again between the opening of an identity gate and
\* the end of its pause.
LEMMA NoIndexAtGate ==
    ASSUME ConstantsAssumption, AgentInv, NEW w \in Worker, BuildIdentityIndex(w),
           NEW r \in Run, ctx[w].run = r, NEW x \in gates[r],
           x.kind = "identity_conflict", StandsBehind(r, x)
    PROVE  x.at # cursor[r] /\ x.at + 1 # cursor[r]
<1> DEFINE a == ctx[w].act
<1>1. /\ ctx[w].pc = "execute" /\ AtCursor(w) /\ Busy(w) /\ Current(w)
      /\ Executor(ctx[w].node, a) = "build_identity_index"
      BY DEF BuildIdentityIndex, Executing, Busy, AtCursor, Current
<1>2. a.kind = "build_identity_index" /\ a # TerminateAction
      BY <1>1 DEF Executor, TerminateAction
<1>3. frozen[r] = a /\ ctx[w].node = node[r]
      BY <1>1, <1>2, StandsThere DEF AgentInv, DecisionInv, WorkerFollowsDecision, PastFreeze
<1>4. PauseEdge(node[r], a.kind, a.to) /\ EdgeFacts(node[r], a.kind, a.to)
      BY <1>1, <1>2, <1>3, CarriedPause, CarriedEdge DEF AgentInv, Acting
<1>5. GateNode(x.kind) = "resolve_identity_conflicts"
      BY DEF GateNode
<1> QED BY <1>2, <1>3, <1>4, <1>5 DEF StandsBehind, PauseEdge, EdgeFacts, GateEdge

LEMMA NameConflictsStep ==
    ASSUME ConstantsAssumption, AgentInv, OpenGatesArePlaced, GatesNameConflicts, Next
    PROVE  GatesNameConflicts'
<1> SUFFICES ASSUME NEW r \in Run, ~TerminationRefused(r)', NEW x \in gates'[r],
                    x.st = "pending", x.kind = "identity_conflict",
                    x.at = cursor'[r] \/ x.at + 1 = cursor'[r],
                    NEW k \in Clarification, clar'[r][k] = "pending"
             PROVE  k \in x.member
    BY DEF GatesNameConflicts, Pending
<1>1. ~TerminationRefused(r)
      BY RefusedStays
<1>2. CASE x \notin gates[r]
      BY <1>2, GateStep, OpenedNamesConflicts DEF AgentInv, GateFrom, Records
<1>3. CASE x \in gates[r]
  <2>1. /\ Open(r, x) /\ StandsBehind(r, x) /\ status[r] \notin New
        BY <1>1, <1>3, NewHasNoGate DEF OpenGatesArePlaced, Open
  <2>2. x.at = cursor[r] \/ x.at + 1 = cursor[r]
    <3>1. cursor'[r] = cursor[r] \/ cursor'[r] = cursor[r] + 1
          BY <2>1, RunStep DEF AgentInv, Stays, Taken, Walked, BlockedBy
    <3>2. x.at \in Nat /\ cursor[r] \in Nat
          BY <1>3 DEF AgentInv, TypeInv, TypeOK, Gate
    <3> QED BY <2>1, <3>1, <3>2 DEF StandsBehind
  <2>3. ~Start(r)
        BY <2>1 DEF Start, New
  <2>4. ~\E w \in Worker : BuildIdentityIndex(w) /\ ctx[w].run = r
        BY <1>3, <2>1, <2>2, NoIndexAtGate
  <2>5. clar[r][k] = "pending"
        BY <2>3, <2>4, ClarStep
  <2> QED BY <1>1, <1>3, <2>2, <2>5 DEF GatesNameConflicts, Pending
<1> QED BY <1>2, <1>3

-----------------------------------------------------------------------------
(* Theorems *)

LEMMA PausedInvStep == AgentInv /\ GateInv /\ PausedInv /\ [Next]_vars => PausedInv'
<1> SUFFICES ASSUME AgentInv, GateInv, PausedInv, [Next]_vars PROVE PausedInv'
    OBVIOUS
<1>1. CASE Next
      BY <1>1, PlacedStep, PausersStep, ServedStep, HadConflictsStep, NameConflictsStep,
         RollbackPlacedStep, PausesThereStep, ConstantsAssumption DEF PausedInv
<1>2. CASE UNCHANGED vars
  <2>1. UNCHANGED <<status, node, cursor, frozen, gates, clar, ctx>>
        BY <1>2 DEF vars, rowVars, stepVars, humanVars
  <2> QED BY <2>1 DEF PausedInv, OpenGatesArePlaced, PausersOpenGates, PausesHaveGates,
          GatesHadConflicts, GatesNameConflicts, TerminationRefused, Open, StandsBehind, OpenedFor,
          OnlyHere, Pending, Current, RestoreGatesArePlaced, StandsInRollback, RollbacksPauseThere
<1> QED BY <1>1, <1>2

LEMMA PausesServed == Spec => [](AgentInv /\ PausedInv)
<1>1. Init => PausedInv
      BY PausedInit, ConstantsAssumption
<1> QED BY <1>1, PausedInvStep, Gated, PTL DEF Spec

\* A gate of a paused run that is found nowhere else wakes it.
LEMMA ServedIsWoken ==
    ASSUME AgentInv, PausedInv, NEW r \in Run, status[r] = "waiting_human",
           ~TerminationRefused(r) \/ node[r] \in RestoreWaits
    PROVE  CanBeWoken(r)
<1>1. PICK x \in gates[r] : OnlyHere(r, x)
      BY DEF PausedInv, PausesHaveGates
<1>2. Actionable(r, x) /\ x.kind # "termination_confirmation"
      BY <1>1 DEF OnlyHere, Open, Actionable, ActionableAs, Terminal
<1>3. ASSUME x.kind = "identity_conflict"
      PROVE  /\ \E k \in Clarification : clar[r][k] \in Unresolved \cup {"settled"}
             /\ \A k \in Clarification : clar[r][k] = "pending" =>
                    \E y \in Pending(r, "identity_conflict") : k \in y.member
  <2>1. ~TerminationRefused(r)
        BY <1>1, <1>3 DEF OnlyHere, GateNode, RestoreWaits
  <2>2. x \in Pending(r, "identity_conflict") /\ x.at + 1 = cursor[r]
        BY <1>1, <1>3 DEF OnlyHere, Open, Pending
  <2>3. \A k \in Clarification : clar[r][k] = "pending" => k \in x.member
        BY <2>1, <2>2 DEF PausedInv, GatesNameConflicts
  <2>4. \E k \in Clarification : clar[r][k] \in Unresolved \cup {"settled"}
        BY <1>1, <1>3 DEF PausedInv, GatesHadConflicts
  <2> QED BY <2>2, <2>3, <2>4
<1> QED BY <1>2, <1>3 DEF CanBeWoken

\* A run that waits for a human can be woken by deciding one of its gates, or by
\* answering one of its conflicts, unless a termination of it was refused.
THEOREM PausesCanEnd == Spec => []UnrefusedPauseHasGate
<1>1. AgentInv /\ PausedInv => UnrefusedPauseHasGate
      BY ServedIsWoken DEF UnrefusedPauseHasGate
<1> QED BY <1>1, PausesServed, PTL

\* Whatever order the operators' commands come in, plans, reports, transitions
\* and gates keep theirs, and pauses can be ended.
THEOREM OrderIsKept == Spec => OperatorsKeepTheOrder
BY PlansAreApproved, ReportsComeFirst, TransitionsAreDecided, HumanGatesHold, PausesCanEnd, PTL
   DEF OperatorsKeepTheOrder

\* Where no terminations are previewed, none is refused.
NoConfirmations ==
    MaxPreviews = 0 => \A r \in Run : \A x \in gates[r] : x.kind # "termination_confirmation"

LEMMA NoConfirmationsStep == AgentInv /\ NoConfirmations /\ [Next]_vars => NoConfirmations'
<1> SUFFICES ASSUME AgentInv, NoConfirmations, [Next]_vars, MaxPreviews = 0,
                    NEW r \in Run, NEW x \in gates'[r], x.kind = "termination_confirmation"
             PROVE  FALSE
    BY DEF NoConfirmations
<1>1. CASE UNCHANGED vars
      BY <1>1 DEF vars, humanVars, NoConfirmations
<1>2. CASE Next
  <2>1. ASSUME NEW q \in Run, PreviewTermination(q) PROVE FALSE
    <3>1. {y \in gates[q] : y.kind = "termination_confirmation"} = {}
          BY DEF NoConfirmations
    <3>2. Cardinality({y \in gates[q] : y.kind = "termination_confirmation"}) = 0
          BY <3>1, FS_EmptySet
    <3> QED BY <2>1, <3>2 DEF PreviewTermination
  <2>2. ~(\E y \in gates[r] : x.kind = y.kind)
        BY DEF NoConfirmations
  <2>3. ~\E w \in Worker : Records(w, r, x)
        BY DEF Records
  <2> QED BY <1>2, <2>1, <2>2, <2>3, GateStep, ConstantsAssumption DEF AgentInv, GateFrom, WasPending
<1> QED BY <1>1, <1>2

LEMMA Unconfirmed == Spec => [](AgentInv /\ PausedInv /\ NoConfirmations)
<1>1. Init => NoConfirmations
      BY DEF Init, NoConfirmations
<1> QED BY <1>1, NoConfirmationsStep, PausesServed, PTL DEF Spec

\* A run that waits for a human can be woken whatever was refused on the rollback
\* graph, and on every graph where no terminations are previewed.
THEOREM PausesHaveGate ==
    Spec => []((MaxPreviews = 0 \/ \A r \in Run : VersionOf[r] \notin Sync) => PausedRunHasGate)
<1> SUFFICES AgentInv /\ PausedInv /\ NoConfirmations =>
                 ((MaxPreviews = 0 \/ \A r \in Run : VersionOf[r] \notin Sync) => PausedRunHasGate)
    BY Unconfirmed, PTL
<1> SUFFICES ASSUME AgentInv, PausedInv, NoConfirmations, NEW r \in Run,
                    MaxPreviews = 0 \/ VersionOf[r] \notin Sync, status[r] = "waiting_human"
             PROVE  CanBeWoken(r)
    BY DEF PausedRunHasGate
<1>1. ~TerminationRefused(r) \/ node[r] \in RestoreWaits
      BY DEF PausedInv, RollbacksPauseThere, NoConfirmations, TerminationRefused
<1> QED BY <1>1, ServedIsWoken

\* A run of the sync graph keeps its types, carries one action out per cursor,
\* and its pauses can be ended, where no terminations are previewed.
THEOREM SyncRunsAreSafe == Spec => [](MaxPreviews = 0 => SyncRunIsSafe)
<1>1. /\ TypeOK /\ SameActionPerCursor
      /\ (MaxPreviews = 0 \/ \A r \in Run : VersionOf[r] \notin Sync) => PausedRunHasGate
      => (MaxPreviews = 0 => SyncRunIsSafe)
      BY DEF SyncRunIsSafe
<1> QED BY <1>1, TypeCorrect, AttemptsAgree, PausesHaveGate, PTL

=============================================================================
