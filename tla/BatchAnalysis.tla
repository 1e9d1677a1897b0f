---------------------------- MODULE BatchAnalysis ----------------------------
(***************************************************************************)
(* The analysis of a graph run, from construct_identity_work to the step   *)
(* into aggregate_risk: the planner that cuts the actionable work items    *)
(* into batches, the frozen action that names one batch, the lease on the  *)
(* batch, the skill invocations of the model with their attempts, replays  *)
(* and repairs, the template that items of one profile share, and the      *)
(* findings that end a batch.                                              *)
(*                                                                         *)
(* A worker holds a lease on the run and, while it analyses, one of its    *)
(* own on the batch; it may lose either and go on until its heartbeat      *)
(* notices.  A worker has one iteration at most, so that its name stands   *)
(* for the tokens of its leases.  Every action below is one transaction;   *)
(* rows a worker has loaded are not read again (expire_on_commit is off),  *)
(* so that finalize_invocation takes an attempt it began for a running     *)
(* one whatever others have made of it.  The planner reads and inserts in  *)
(* one transaction; two that insert one batch at once meet its unique      *)
(* constraint.  What the model answers is a free choice between a valid    *)
(* output, one that is rejected with feedback, and no output.              *)
(***************************************************************************)
EXTENDS Naturals, FiniteSets, Sequences, SequencesExt

CONSTANTS
    Analyst,        \* graph workers
    FirstItems,     \* actionable work items of the identity index
    LateItems,      \* those that the answers to its conflicts add
    KindOfItem,     \* [item -> kind], by which batches are grouped
    ProfileOf,      \* [item -> profile of a template, "none" if not eligible]
    BatchSize,      \* items of a batch, as configured
    MaxTries,       \* attempts of one invocation: max_retries + 1
    MaxToolCalls,   \* tool calls of one invocation
    MaxMishaps      \* bound: crashes, stalls, lost connections, restarts

Item == FirstItems \cup LateItems
Profiles == {ProfileOf[i] : i \in Item} \ {"none"}

ASSUME BatchAnalysisAssumption ==
    /\ Item \subseteq Nat \ {0} /\ IsFiniteSet(Item)
    /\ FirstItems \cap LateItems = {}
    /\ DOMAIN KindOfItem = Item /\ DOMAIN ProfileOf = Item
    /\ BatchSize \in Nat \ {0} /\ MaxTries \in Nat \ {0}
    /\ MaxToolCalls \in Nat /\ MaxMishaps \in Nat
    /\ "none" \notin Analyst

VARIABLES
    graph,        \* the run: node, cursor, status, lease, frozen action
    agenda,       \* the work items, the question about conflicts, the batch size
    modelBatches, \* Seq of batches: set of members, status, owner of the lease
    tries,        \* [part -> its attempts and tool calls] at the graph's cursor;
                  \* those of earlier cursors are never read again
    noted,        \* [deterministic action -> the one output recorded, if any]
    templates,    \* [profile -> the checkpoint of its template]
    findings,     \* [item -> the answer its finding was compiled from]
    analyst,      \* [Analyst -> its iteration]
    mishaps       \* crashes, stalls, lost connections and restarts so far

runVars      == <<graph, agenda, noted>>
analysisVars == <<graph, agenda, modelBatches, tries, noted, templates, findings, analyst,
                  mishaps>>

\* Within a batch, the items of one profile are answered by a template, the
\* rest by an invocation of its own.
Answerable == {"template", "rest"}

\* An answer is known by the batch it was given for.
Answer(b, p) == [batch |-> b, part |-> p]
NoAnswer == Answer(0, "none")

NoTries == [p \in Answerable |-> [rows |-> <<>>, calls |-> 0]]

Nothing == [kind |-> "none", members |-> {}]
Act(k) == [kind |-> k, members |-> {}]

NoIteration == [pc |-> "idle", cursor |-> 0, action |-> Nothing, batch |-> 0, part |-> "none",
         try |-> 0, told |-> 0, open |-> {}, used |-> 0, template |-> NoAnswer]

Acts == [kind : {"none", "construct", "clarify", "resume", "batch", "aggregate"},
         members : SUBSET Item]
Answers == [batch : Nat, part : Answerable \cup {"none"}]
Graphs == [node : {"construct", "analyze", "resolve", "aggregate", "blocked"}, cursor : Nat,
           status : {"running", "waiting", "blocked", "failed"},
           owner : Analyst \cup {"none"}, live : BOOLEAN, frozen : Acts]
Agendas == [items : SUBSET Item, question : {"pending", "confirmed", "resolved"},
            size : 1..BatchSize]
Batches == [members : SUBSET Item, status : {"pending", "claimed", "completed", "superseded"},
            owner : Analyst \cup {"none"}]
Attempts == [status : {"running", "completed", "failed"}, told : 0..MaxTries]
AnalysisPcs == {"idle", "plan", "offer", "freeze", "act", "resume", "record", "replay", "model",
                "store", "finalize", "release", "block", "commit"}
Iterations ==
    [pc : AnalysisPcs, cursor : Nat, action : Acts, batch : Nat,
     part : Answerable \cup {"none"}, try : 0..MaxTries, told : 0..MaxTries,
     open : SUBSET Nat, used : Nat, template : Answers]

BatchAnalysisTypeOK ==
    /\ graph \in Graphs /\ agenda \in Agendas
    /\ modelBatches \in Seq(Batches)
    /\ \A b \in DOMAIN modelBatches : modelBatches[b].members \subseteq agenda.items
    /\ tries \in [Answerable -> [rows : Seq(Attempts), calls : Nat]]
    /\ \A p \in Answerable : Len(tries[p].rows) <= MaxTries
    /\ noted \in [{"construct", "resume"} -> SUBSET SUBSET Nat]
    /\ templates \in [Profiles -> Answers] /\ findings \in [Item -> Answers]
    /\ analyst \in [Analyst -> Iterations]
    /\ mishaps \in 0..MaxMishaps

BatchAnalysisInit ==
    /\ graph = [node |-> "construct", cursor |-> 0, status |-> "running",
                owner |-> "none", live |-> FALSE, frozen |-> Nothing]
    /\ agenda = [items |-> FirstItems, question |-> "pending", size |-> BatchSize]
    /\ modelBatches = <<>> /\ tries = NoTries
    /\ noted = [k \in {"construct", "resume"} |-> {}]
    /\ templates = [p \in Profiles |-> NoAnswer]
    /\ findings = [i \in Item |-> NoAnswer]
    /\ analyst = [w \in Analyst |-> NoIteration]
    /\ mishaps = 0

IsAt(w, pc) == analyst[w].pc = pc
Goes(w, pc) == analyst' = [analyst EXCEPT ![w].pc = pc]

\* validate_fencing, and _validate_snapshot or _require_state_at_cursor
Holds(w) == graph.owner = w
Current(w) == analyst[w].cursor = graph.cursor

\* release_run_claim does nothing for a worker that lost its claim.
GraphFreed(w) == IF Holds(w) THEN [graph EXCEPT !.owner = "none", !.live = FALSE] ELSE graph

\* A RuntimeError: the claim is given back and the action tried again.
Drops(w) ==
    /\ graph' = GraphFreed(w)
    /\ analyst' = [analyst EXCEPT ![w] = NoIteration]

\* A ValueError or a LookupError: _fail_action_contract, if the claim is held.
Fails(w) ==
    /\ graph' = IF Holds(w) THEN [GraphFreed(w) EXCEPT !.status = "failed"] ELSE graph
    /\ analyst' = [analyst EXCEPT ![w] = NoIteration]

-----------------------------------------------------------------------------
(* Planning: AgentBatchPlanner.create_for_run                              *)

\* A claim in the way of smaller batches is stale once its lease has passed or
\* the run has another owner (supersede_oversized_batches).
Oversized(lapsed) ==
    {b \in DOMAIN modelBatches :
        /\ Cardinality(modelBatches[b].members) > agenda.size
        /\ \/ modelBatches[b].status = "pending"
           \/ /\ modelBatches[b].status = "claimed"
              /\ lapsed \/ modelBatches[b].owner # graph.owner}

Unleased(batch, status) == [batch EXCEPT !.status = status, !.owner = "none"]

InUse == {b \in DOMAIN modelBatches : modelBatches[b].status # "superseded"}
MembersOf(b) == modelBatches[b].members

\* How many items of its kind come before an item.
Place(items, i) == Cardinality({j \in items : KindOfItem[j] = KindOfItem[i] /\ j < i})

\* Mutant of Pieces: each piece ends with the next one's first item.
PiecesOverlap(items) ==
    {{j \in items : /\ KindOfItem[j] = KindOfItem[i]
                    /\ \/ Place(items, j) \div agenda.size = Place(items, i) \div agenda.size
                       \/ Place(items, j) = (Place(items, i) \div agenda.size + 1) * agenda.size} :
     i \in items}

\* partition_analysis_batches: by kind and in their order, cut into pieces of the
\* configured size.
Pieces(items) ==
    {{j \in items : /\ KindOfItem[j] = KindOfItem[i]
                    /\ Place(items, j) \div agenda.size = Place(items, i) \div agenda.size} :
     i \in items}

\* The items no batch covers; the order of the new batches is any.
Manifests(requested, gone) ==
    SetToSeq(Pieces(requested \ UNION {MembersOf(b) : b \in InUse \ gone}))

\* create_or_get_batch for each manifest; a batch of these members can only be
\* a superseded one of a larger size, which has other members.
PlanBatches(requested, gone) ==
    LET new == Manifests(requested, gone)
        kept == [b \in DOMAIN modelBatches |->
                   IF b \in gone THEN Unleased(modelBatches[b], "superseded") ELSE modelBatches[b]]
    IN  modelBatches' = kept \o
          [k \in DOMAIN new |-> [members |-> new[k], status |-> "pending", owner |-> "none"]]

\* The batches create_for_run returns.
Returned(requested, gone) ==
    {b \in InUse \ gone : /\ Cardinality(MembersOf(b)) <= agenda.size
                          /\ MembersOf(b) \subseteq requested}
    \cup {Len(modelBatches) + k : k \in DOMAIN Manifests(requested, gone)}

\* An executor that plans and records what it planned: its replay must return
\* the same batches (record_invocation), or nothing of it is kept.  Asked for
\* no items, create_for_run returns before it supersedes any batch.
PlanAndNote(w, k, items, question, requested) ==
    \E lapsed \in BOOLEAN :
        LET gone == IF requested = {} THEN {} ELSE Oversized(lapsed)
            returned == Returned(requested, gone)
        IN  IF ~Current(w) \/ ~(noted[k] \subseteq {returned})
            THEN Drops(w) /\ UNCHANGED <<agenda, modelBatches, noted>>
            ELSE /\ PlanBatches(requested, gone)
                 /\ noted' = [noted EXCEPT ![k] = {returned}]
                 /\ agenda' = [agenda EXCEPT !.items = items, !.question = question]
                 /\ Goes(w, "commit")
                 /\ UNCHANGED graph

ConstructIdentityWork(w) ==
    /\ IsAt(w, "act") /\ analyst[w].action.kind = "construct"
    /\ PlanAndNote(w, "construct", agenda.items, agenda.question, agenda.items)
    /\ UNCHANGED <<tries, templates, findings, mishaps>>

\* resolve_confirmed_conflicts adds the items of the answers, or returns those
\* it added before; only they are planned.
ResumeAnalysis(w) ==
    /\ IsAt(w, "act") /\ analyst[w].action.kind = "resume"
    /\ PlanAndNote(w, "resume", agenda.items \cup LateItems, "resolved", LateItems)
    /\ UNCHANGED <<tries, templates, findings, mishaps>>

\* The candidate provider plans what is left before it offers an action.
RecoverPlan(w) ==
    /\ IsAt(w, "plan")
    /\ \E lapsed \in BOOLEAN : PlanBatches(agenda.items, Oversized(lapsed))
    /\ Goes(w, "offer")
    /\ UNCHANGED <<runVars, tries, templates, findings, mishaps>>

-----------------------------------------------------------------------------
(* The run's claim and its next action.                                    *)

ClaimGraph(w) ==
    /\ IsAt(w, "idle")
    /\ graph.status = "running" /\ graph.node # "aggregate" /\ ~graph.live
    /\ graph' = [graph EXCEPT !.owner = w, !.live = TRUE]
    /\ analyst' = [analyst EXCEPT ![w] =
         [NoIteration EXCEPT !.pc = CASE graph.frozen # Nothing -> "act"
                               [] graph.node = "analyze" -> "plan"
                               [] OTHER -> "offer",
                      !.cursor = graph.cursor, !.action = graph.frozen]]
    /\ UNCHANGED <<agenda, modelBatches, tries, noted, templates, findings, mishaps>>

\* _analysis_actions: a question first, then the oldest batch that nobody claims.
AnalysisAction ==
    LET open == {b \in DOMAIN modelBatches : modelBatches[b].status = "pending"} IN
    CASE agenda.question = "pending" -> Act("clarify")
      [] agenda.question # "pending" /\ open # {} ->
            [kind |-> "batch",
             members |-> modelBatches[CHOOSE b \in open : \A c \in open : b <= c].members]
      [] OTHER -> Act("aggregate")

Offer(w) ==
    /\ IsAt(w, "offer")
    /\ analyst' = [analyst EXCEPT ![w].pc = "freeze", ![w].action =
         CASE graph.node = "construct" -> Act("construct")
           [] graph.node = "resolve" -> Act("resume")
           [] OTHER -> AnalysisAction]
    /\ UNCHANGED <<runVars, modelBatches, tries, templates, findings, mishaps>>

\* The candidate set is checked against the cursor, not against the claim.
Freeze(w) ==
    /\ IsAt(w, "freeze")
    /\ IF Current(w) /\ graph.frozen \in {Nothing, analyst[w].action}
       THEN /\ graph' = [graph EXCEPT !.frozen = analyst[w].action]
            /\ Goes(w, "act")
       ELSE Drops(w)
    /\ UNCHANGED <<agenda, modelBatches, tries, noted, templates, findings, mishaps>>

OpenConflictGate(w) ==
    /\ IsAt(w, "act") /\ analyst[w].action.kind = "clarify"
    /\ CASE agenda.question # "pending" -> Fails(w)
         [] agenda.question = "pending" /\ ~Current(w) -> Drops(w)
         [] OTHER -> Goes(w, "commit") /\ UNCHANGED graph
    /\ UNCHANGED <<agenda, modelBatches, tries, noted, templates, findings, mishaps>>

EnterAggregateRisk(w) ==
    /\ IsAt(w, "act") /\ analyst[w].action.kind = "aggregate"
    /\ Goes(w, "commit")
    /\ UNCHANGED <<runVars, modelBatches, tries, templates, findings, mishaps>>

Successor(k) ==
    CASE k = "clarify" -> "resolve" [] k = "aggregate" -> "aggregate" [] OTHER -> "analyze"

CommitTransition(w) ==
    /\ IsAt(w, "commit")
    /\ IF Holds(w) /\ Current(w) /\ graph.status = "running"
       THEN LET k == analyst[w].action.kind IN
            /\ graph' = [GraphFreed(w) EXCEPT !.node = Successor(k), !.cursor = @ + 1,
                         !.frozen = Nothing,
                         !.status = IF k = "clarify" THEN "waiting" ELSE "running"]
            /\ analyst' = [analyst EXCEPT ![w] = NoIteration]
            /\ tries' = NoTries
       ELSE Drops(w) /\ UNCHANGED tries
    /\ UNCHANGED <<agenda, modelBatches, noted, templates, findings, mishaps>>

\* The operator answers the question and the run is woken.
AnswerQuestion ==
    /\ graph.status = "waiting" /\ agenda.question = "pending"
    /\ agenda' = [agenda EXCEPT !.question = "confirmed"]
    /\ graph' = [graph EXCEPT !.status = "running"]
    /\ UNCHANGED <<modelBatches, tries, noted, templates, findings, analyst, mishaps>>

-----------------------------------------------------------------------------
(* One batch: _analyze_batch                                               *)

\* _analysis_run_is_active
Active(w) == Holds(w) /\ graph.live /\ graph.status = "running" /\ graph.node = "analyze"

\* partition_analysis_template_work: the largest group of one profile, and what
\* is left for an invocation of its own.
TemplateItems(members) ==
    LET group(p) == {i \in members : ProfileOf[i] = p}
        found == {p \in Profiles : group(p) # {}}
    IN  IF found = {} THEN {}
        ELSE group(CHOOSE p \in found :
                     \A q \in found : Cardinality(group(q)) <= Cardinality(group(p)))
ProfileIn(members) == ProfileOf[CHOOSE i \in TemplateItems(members) : TRUE]
Fallback(members) == members \ TemplateItems(members)

\* _find_exact_batch: a superseded batch is no longer found.
ExactBatch(members) ==
    {b \in DOMAIN modelBatches :
        modelBatches[b].members = members /\ modelBatches[b].status # "superseded"}

\* claim_batch: a completed batch, a lease that has not passed or a lost run
\* cannot be claimed.  Nobody renews the lease of a batch, whatever the model
\* takes, so that at any time it may have passed or not.
ClaimModelBatch(w) ==
    /\ IsAt(w, "act") /\ analyst[w].action.kind = "batch"
    /\ LET exact == ExactBatch(analyst[w].action.members) IN
       IF exact = {} THEN Fails(w) /\ UNCHANGED modelBatches
       ELSE LET b == CHOOSE b \in exact : TRUE IN
            \/ /\ modelBatches[b].status # "pending" \/ ~Active(w)
               /\ Drops(w) /\ UNCHANGED modelBatches
            \/ /\ modelBatches[b].status # "completed" /\ Active(w)
               /\ modelBatches' = [modelBatches EXCEPT ![b].status = "claimed", ![b].owner = w]
               /\ analyst' = [analyst EXCEPT ![w].pc = "resume", ![w].batch = b,
                    ![w].part = IF TemplateItems(MembersOf(b)) # {} THEN "template" ELSE "rest"]
               /\ UNCHANGED graph
    /\ UNCHANGED <<agenda, tries, noted, templates, findings, mishaps>>

\* The attempts at the worker's invocation.  A worker behind the cursor ends in
\* a conflict whatever it reads.
Mine(w) == tries[analyst[w].part].rows

\* The template's part is followed by the fallback, the last part by the batch.
PartDone(w, templated) ==
    LET next == IF Fallback(MembersOf(analyst[w].batch)) # {} THEN "resume" ELSE "finalize"
    IN  analyst' = [analyst EXCEPT ![w] =
          [@ EXCEPT !.pc = next, !.part = "rest", !.template = templated]]

Answered(w) == Goes(w, IF analyst[w].part = "template" THEN "store" ELSE "finalize")

NeedsModel(w) ==
    analyst[w].part = "template" => templates[ProfileIn(MembersOf(analyst[w].batch))] = NoAnswer

ReuseTemplate(w) ==
    /\ IsAt(w, "resume") /\ ~NeedsModel(w)
    /\ PartDone(w, templates[ProfileIn(MembersOf(analyst[w].batch))])
    /\ UNCHANGED <<runVars, modelBatches, tries, templates, findings, mishaps>>

\* save_checkpoint keeps what is there; the batch keeps its own answer.
StoreTemplate(w) ==
    /\ IsAt(w, "store")
    /\ LET p == ProfileIn(MembersOf(analyst[w].batch))
           own == Answer(analyst[w].batch, "template") IN
       /\ templates' = [templates EXCEPT ![p] = IF @ = NoAnswer THEN own ELSE @]
       /\ PartDone(w, own)
    /\ UNCHANGED <<runVars, modelBatches, tries, findings, mishaps>>

\* finalize_batch takes findings from the owner of the run and of the batch.
MayFinalize(w) ==
    LET b == analyst[w].batch IN
    /\ Active(w)
    /\ modelBatches[b].status = "claimed" /\ modelBatches[b].owner = w
    /\ \A i \in MembersOf(b) : findings[i] = NoAnswer

\* Exactly one finding for each member; a completed batch takes the same
\* findings only, and the model may have said something else.
FinalizeBatch(w) ==
    /\ IsAt(w, "finalize")
    /\ LET b == analyst[w].batch
           said == [i \in Item |-> IF i \in TemplateItems(MembersOf(b)) THEN analyst[w].template
                            ELSE Answer(b, "rest")]
       IN  \/ /\ modelBatches[b].status = "completed"
              /\ Goes(w, "commit") /\ UNCHANGED <<graph, modelBatches, findings>>
           \/ /\ MayFinalize(w)
              /\ modelBatches' = [modelBatches EXCEPT ![b] = Unleased(@, "completed")]
              /\ findings' = [i \in Item |->
                                IF i \in MembersOf(b) THEN said[i] ELSE findings[i]]
              /\ Goes(w, "commit") /\ UNCHANGED graph
           \/ ~MayFinalize(w) /\ Fails(w) /\ UNCHANGED <<modelBatches, findings>>
    /\ UNCHANGED <<agenda, tries, noted, templates, mishaps>>

\* release_batch_claim: by the claim on the batch alone.
ReleaseBatch(w) ==
    /\ IsAt(w, "release")
    /\ LET b == analyst[w].batch IN
       CASE modelBatches[b].status = "completed" ->
               Goes(w, "block") /\ UNCHANGED <<graph, modelBatches>>
         [] modelBatches[b].status = "claimed" /\ modelBatches[b].owner = w ->
               /\ modelBatches' = [modelBatches EXCEPT ![b] = Unleased(@, "pending")]
               /\ Goes(w, "block") /\ UNCHANGED graph
         [] OTHER -> Fails(w) /\ UNCHANGED modelBatches
    /\ UNCHANGED <<agenda, tries, noted, templates, findings, mishaps>>

\* _block_model_failure: a transition to blocked_model_error.
BlockModelFailure(w) ==
    /\ IsAt(w, "block")
    /\ IF Holds(w) /\ Current(w)
       THEN /\ graph' = [GraphFreed(w) EXCEPT !.node = "blocked", !.cursor = @ + 1,
                                        !.status = "blocked", !.frozen = Nothing]
            /\ tries' = NoTries
       ELSE UNCHANGED <<graph, tries>>
    /\ analyst' = [analyst EXCEPT ![w] = NoIteration]
    /\ UNCHANGED <<agenda, modelBatches, noted, templates, findings, mishaps>>

-----------------------------------------------------------------------------
(* One invocation of a skill: GraphSkillModelRunner.run                    *)

\* An attempt and the attempt whose feedback it carries.  (An attempt that was
\* denied a tool would be final on resume as well; only a worker behind the
\* cursor is denied one.)
AttemptRow(status, told) == [status |-> status, told |-> told]

\* find_completed_invocation, then prepare_invocation_resume: an attempt that
\* still runs has been interrupted, the latest feedback is passed on.
ResumeInvocation(w) ==
    /\ IsAt(w, "resume") /\ NeedsModel(w)
    /\ LET rows == Mine(w)
           with(status) == {n \in DOMAIN rows : rows[n].status = status}
           told == {rows[n].told : n \in DOMAIN rows} \cup {0}
       IN  CASE with("completed") # {} -> Answered(w)
             [] with("completed") = {} /\ Len(rows) = MaxTries -> Goes(w, "release")
             [] OTHER -> analyst' = [analyst EXCEPT ![w] =
                   [@ EXCEPT !.pc = "record", !.try = Len(rows) + 1,
                             !.told = CHOOSE n \in told : \A m \in told : m <= n,
                             !.open = with("running")]]
    /\ UNCHANGED <<runVars, modelBatches, tries, templates, findings, mishaps>>

Interrupted(rows, open) ==
    [n \in DOMAIN rows |-> IF n \in open THEN AttemptRow("failed", rows[n].told) ELSE rows[n]]

\* record_invocation: an attempt another worker has recorded meanwhile is taken
\* over if it is the same, and a conflict if not.  The tool calls of every
\* attempt so far are to be replayed.
RecordInvocation(w) ==
    /\ IsAt(w, "record")
    /\ LET h == analyst[w]
           rows == Interrupted(Mine(w), h.open)
           there == h.try <= Len(rows)
           same == there /\ rows[h.try] = AttemptRow("running", h.told)
           calls == tries[h.part].calls
       IN  IF Current(w) /\ (there => same)
           THEN /\ tries' = [tries EXCEPT ![h.part].rows =
                     IF there THEN rows ELSE Append(rows, AttemptRow("running", h.told))]
                /\ analyst' = [analyst EXCEPT ![w] =
                     [@ EXCEPT !.pc = IF calls > 0 THEN "replay" ELSE "model", !.used = calls]]
                /\ UNCHANGED graph
           ELSE Drops(w) /\ UNCHANGED tries
    /\ UNCHANGED <<agenda, modelBatches, noted, templates, findings, mishaps>>

\* finalize_invocation writes the row whatever it holds by now.
Closed(w, status, told) ==
    IF Current(w)
    THEN tries' = [tries EXCEPT ![analyst[w].part].rows[analyst[w].try] = AttemptRow(status, told)]
    ELSE UNCHANGED tries

\* The next attempt, unless this was the last.
Again(w, told) ==
    LET h == analyst[w] IN
    analyst' = [analyst EXCEPT ![w] =
      IF h.try = MaxTries THEN [h EXCEPT !.pc = "release"]
      ELSE [h EXCEPT !.pc = "record", !.try = h.try + 1, !.told = told, !.open = {}]]

ModelAnswers(w) ==
    /\ IsAt(w, "model")
    /\ Closed(w, "completed", 0) /\ Answered(w)
    /\ UNCHANGED <<runVars, modelBatches, templates, findings, mishaps>>

\* Output or arguments against the contract, or one tool call too many: repaired.
\* If the provider or a tool fails, be it in a replay, the next attempt begins
\* without feedback.
AttemptFails(w) ==
    /\ IsAt(w, "model") \/ (IsAt(w, "replay") /\ Current(w))
    /\ \E told \in {0} \cup (IF IsAt(w, "model") THEN {analyst[w].try} ELSE {}) :
          Closed(w, "failed", told) /\ Again(w, told)
    /\ UNCHANGED <<runVars, modelBatches, templates, findings, mishaps>>

\* GraphPhaseToolGateway.call: authorized by the cursor of the graph, recorded
\* with its result.
CallTool(w) ==
    /\ IsAt(w, "model") /\ Current(w)
    /\ analyst[w].used < MaxToolCalls
    /\ tries' = [tries EXCEPT ![analyst[w].part].calls = @ + 1]
    /\ analyst' = [analyst EXCEPT ![w].used = @ + 1]
    /\ UNCHANGED <<runVars, modelBatches, templates, findings, mishaps>>

\* GraphPhaseToolGateway.replay: the recorded calls, in their order.
ReplayCalls(w) ==
    /\ IsAt(w, "replay") /\ Current(w)
    /\ Goes(w, "model")
    /\ UNCHANGED <<runVars, modelBatches, tries, templates, findings, mishaps>>

\* A call or a replay after the graph has moved on is final, and so is a replay
\* whose result is not the recorded one.
ToolIsRefused(w) ==
    /\ \/ /\ (IsAt(w, "model") /\ analyst[w].used < MaxToolCalls) \/ IsAt(w, "replay")
          /\ ~Current(w)
       \/ IsAt(w, "replay") /\ Current(w)
    /\ Closed(w, "failed", 0)
    /\ Goes(w, "release")
    /\ UNCHANGED <<runVars, modelBatches, templates, findings, mishaps>>

-----------------------------------------------------------------------------
(* What goes wrong around the workers.                                     *)

Strays == mishaps < MaxMishaps /\ mishaps' = mishaps + 1

AnalystCrashes(w) ==
    /\ ~IsAt(w, "idle") /\ Strays
    /\ analyst' = [analyst EXCEPT ![w] = NoIteration]
    /\ UNCHANGED <<runVars, modelBatches, tries, templates, findings>>

\* A database error, or a heartbeat that finds the claim gone.
AbandonAnalysis(w) ==
    /\ ~IsAt(w, "idle")
    /\ IF Holds(w) THEN Strays ELSE UNCHANGED mishaps
    /\ Drops(w)
    /\ UNCHANGED <<agenda, modelBatches, tries, noted, templates, findings>>

\* A heartbeat renews the run's lease, also one that has just passed.
RenewGraph(w) ==
    /\ ~IsAt(w, "idle") /\ Holds(w) /\ ~graph.live
    /\ graph' = [graph EXCEPT !.live = TRUE]
    /\ UNCHANGED <<agenda, modelBatches, tries, noted, templates, findings, analyst, mishaps>>

\* The lease of a worker that is at work passes only if it stalls.
LapseGraph ==
    /\ graph.live
    /\ graph' = [graph EXCEPT !.live = FALSE]
    /\ IF \E w \in Analyst : Holds(w) /\ ~IsAt(w, "idle") THEN Strays ELSE UNCHANGED mishaps
    /\ UNCHANGED <<agenda, modelBatches, tries, noted, templates, findings, analyst>>

\* Workers are restarted with a smaller batch size.
ShrinkBatches ==
    /\ agenda.size > 1 /\ Strays
    /\ agenda' = [agenda EXCEPT !.size = 1]
    /\ UNCHANGED <<graph, modelBatches, tries, noted, templates, findings, analyst>>

-----------------------------------------------------------------------------

AnalystStep(w) ==
    \/ ClaimGraph(w) \/ RecoverPlan(w) \/ Offer(w) \/ Freeze(w)
    \/ ConstructIdentityWork(w) \/ OpenConflictGate(w) \/ ResumeAnalysis(w)
    \/ EnterAggregateRisk(w) \/ CommitTransition(w)
    \/ ClaimModelBatch(w) \/ ReuseTemplate(w) \/ StoreTemplate(w)
    \/ FinalizeBatch(w) \/ ReleaseBatch(w) \/ BlockModelFailure(w)
    \/ ResumeInvocation(w) \/ RecordInvocation(w) \/ ModelAnswers(w)
    \/ AttemptFails(w) \/ CallTool(w) \/ ReplayCalls(w)
    \/ ToolIsRefused(w)
    \/ AnalystCrashes(w) \/ AbandonAnalysis(w) \/ RenewGraph(w)

BatchAnalysisNext ==
    \/ \E w \in Analyst : AnalystStep(w)
    \/ AnswerQuestion \/ LapseGraph \/ ShrinkBatches

BatchAnalysisSpec == BatchAnalysisInit /\ [][BatchAnalysisNext]_analysisVars

-----------------------------------------------------------------------------

\* Batches in use have no item in common, the completed ones are exactly the ones
\* whose items have findings, and each finding was compiled from an answer to
\* that batch or from the template of its profile (create_for_run, finalize_batch).
FindingsComeFromTheirBatch ==
    /\ \A b, c \in InUse : b # c => MembersOf(b) \cap MembersOf(c) = {}
    /\ \A i \in Item : findings[i] # NoAnswer <=>
         \E b \in DOMAIN modelBatches : modelBatches[b].status = "completed" /\ i \in MembersOf(b)
    /\ \A b \in DOMAIN modelBatches : modelBatches[b].status = "completed" =>
         \A i \in MembersOf(b) :
            IF i \in TemplateItems(MembersOf(b))
            THEN /\ findings[i].part = "template"
                 /\ ProfileIn(MembersOf(findings[i].batch)) = ProfileOf[i]
            ELSE findings[i].part = "rest" /\ findings[i].batch = b

\* Risk is aggregated only when the question is answered and every item, those
\* that the answers added included, has its finding (_analysis_actions).
AggregationIsComplete ==
    graph.node = "aggregate" \/ graph.frozen.kind = "aggregate" =>
        /\ agenda.question = "resolved"
        /\ \A i \in agenda.items : findings[i] # NoAnswer

\* A run is blocked by a failed invocation only while an item is unanswered, and
\* its batch can be analysed by nobody else (release_batch_claim,
\* _block_model_failure).
BlockedMeansUnanswered ==
    graph.status = "blocked" =>
        /\ \E i \in agenda.items : findings[i] = NoAnswer
        /\ \A b \in DOMAIN modelBatches : modelBatches[b].status # "claimed"

\* Every work item is in one batch and gets its finding from it before risk is
\* aggregated, and a run that is blocked has no batch left claimed.
EveryItemIsAnalysed ==
    FindingsComeFromTheirBatch /\ AggregationIsComplete /\ BlockedMeansUnanswered

\* A finding, a completed batch and a template stay what they are (finalize_batch,
\* save_checkpoint).
FindingsAreFinal ==
    [][/\ \A i \in Item : findings[i] # NoAnswer => findings'[i] = findings[i]
       /\ \A p \in Profiles : templates[p] # NoAnswer => templates'[p] = templates[p]
       /\ \A b \in DOMAIN modelBatches :
            modelBatches[b].status \in {"completed", "superseded"} =>
                modelBatches'[b] = modelBatches[b]]_analysisVars
=============================================================================
