---------------------------- MODULE FixedPhaseRun ----------------------------
(***************************************************************************)
(* A run of the fixed-phase Agent (workflow "new-agent-v1"): the phases in *)
(* their order, the workers that lease the run, the durable model batches  *)
(* with their attempts, the reviews of the operators and the plan compiled *)
(* from the findings that were not rejected.                               *)
(*                                                                         *)
(* A worker claims the run, runs the handler of its phase in transactions  *)
(* of its own, and commits the transition and the release of its claim in  *)
(* one more transaction, which is refused if the claim is gone; so is the  *)
(* recording of a model's answer, but no other handler.  A heartbeat that  *)
(* finds another owner stops the handler.  A worker has one claim at most, *)
(* so its name stands for the token of its lease, on runs and on batches.  *)
(* The first phases (ingestion) and the batch size of an older release are *)
(* left out; one question stands for the identity conflicts.               *)
(***************************************************************************)
EXTENDS Naturals, FiniteSets, SequencesExt

CONSTANTS
    RunWorker,      \* Agent workers
    Batch,          \* the model batches of the run
    Finding,        \* one finding for each work item of a batch
    BatchFor,       \* [Finding -> Batch]
    KeyOf,          \* [Finding -> key]: kind, operation and fields of the review
    DependsOn,      \* [Finding -> SUBSET Finding]: the model's dependencies
    MaxModelAttempts, \* four in the code
    MaxFaults       \* bound: crashes and stalls

ASSUME FixedPhaseAssumption ==
    /\ IsFiniteSet(Finding)
    /\ BatchFor \in [Finding -> Batch]
    /\ DOMAIN KeyOf = Finding
    /\ DependsOn \in [Finding -> SUBSET Finding]
    /\ \A f \in Finding : \A g \in DependsOn[f] : BatchFor[g] = BatchFor[f] /\ g # f
    /\ MaxModelAttempts \in Nat \ {0} /\ MaxFaults \in Nat
    /\ "none" \notin RunWorker \cup Batch

VARIABLES
    phased,     \* the run: phase, status, lease owner, whether the lease lives
    batches,    \* [Batch -> status, lease owner, lease lives, attempts]
    answer,     \* [Finding -> risk of the recommended operation, "none" before]
    question,   \* the clarification of the identity conflicts
    reviews,    \* [set of findings -> status of its approval group]
    judging,    \* [set of findings -> what a decision not yet committed saw]
    compiled,   \* the latest plan: whether there is one, its findings and version
    output,     \* the target version: how many plans were executed
    hand,       \* [RunWorker -> the iteration of the worker]
    stalls      \* crashes and stalls so far

reviewVars == <<question, reviews, judging>>
workVars   == <<batches, answer>>
planVars   == <<compiled, output>>
phaseVars  == <<phased, batches, answer, question, reviews, judging, compiled, output,
                hand, stalls>>

Phase == <<"build", "analyze", "clarify", "aggregate", "compile", "execute", "report", "terminal">>

Ended == {"completed", "terminated"}
Groups == (SUBSET Finding) \ {{}}
IdleHand == [pc |-> "idle", todo |-> {}, batch |-> "none", next |-> "none"]

FixedPhaseTypeOK ==
    /\ phased \in [phase : ToSet(Phase), status : {"running", "waiting", "blocked"} \cup Ended,
                   owner : RunWorker \cup {"none"}, live : BOOLEAN]
    /\ batches \in [Batch -> [status : {"absent", "pending", "claimed", "completed", "blocked"},
                              owner : RunWorker \cup {"none"}, live : BOOLEAN,
                              attempts : 0..MaxModelAttempts]]
    /\ answer \in [Finding -> {"none", "low", "high"}]
    /\ question \in {"none", "pending", "interpreted", "settled"}
    /\ reviews \in [Groups -> {"absent", "pending", "approved", "rejected"}]
    /\ judging \in [Groups -> {"none", "last", "other"}]
    /\ compiled \in [made : BOOLEAN, findings : SUBSET Finding, version : Nat]
    /\ output \in Nat
    /\ hand \in [RunWorker -> [pc : {"idle", "start", "claim", "model", "complete"},
                               todo : SUBSET Batch, batch : Batch \cup {"none"},
                               next : ToSet(Phase) \cup {"none", "waiting", "blocked"}]]
    /\ stalls \in 0..MaxFaults

FixedPhaseInit ==
    /\ phased = [phase |-> "build", status |-> "running", owner |-> "none", live |-> FALSE]
    /\ batches = [b \in Batch |->
                    [status |-> "absent", owner |-> "none", live |-> FALSE, attempts |-> 0]]
    /\ answer = [f \in Finding |-> "none"]
    /\ question = "none"
    /\ reviews = [g \in Groups |-> "absent"]
    /\ judging = [g \in Groups |-> "none"]
    /\ compiled = [made |-> FALSE, findings |-> {}, version |-> 0]
    /\ output = 0
    /\ hand = [w \in RunWorker |-> IdleHand]
    /\ stalls = 0

\* run_claim_is_active
Owns(w) == phased.owner = w /\ phased.live

\* release_run_claim does nothing for a worker that lost its claim.
Freed(w) == IF phased.owner = w THEN [phased EXCEPT !.owner = "none", !.live = FALSE] ELSE phased

At(w, pc) == hand[w].pc = pc

\* The handler has returned: what the completion is to write.
Returns(w, next) == hand' = [hand EXCEPT ![w] = [IdleHand EXCEPT !.pc = "complete", !.next = next]]

-----------------------------------------------------------------------------
(* The worker's claim, heartbeat and completion.                           *)

ClaimRun(w) ==
    /\ At(w, "idle")
    /\ phased.status = "running"
    /\ ~phased.live
    /\ phased' = [phased EXCEPT !.owner = w, !.live = TRUE]
    /\ hand' = [hand EXCEPT ![w] = [IdleHand EXCEPT !.pc = "start", !.next = phased.phase]]
    /\ UNCHANGED <<workVars, reviewVars, planVars, stalls>>

\* A late heartbeat revives a lease that lapsed and that nobody took over.
Renew(w) ==
    /\ hand[w].pc # "idle"
    /\ phased.owner = w /\ ~phased.live
    /\ phased' = [phased EXCEPT !.live = TRUE]
    /\ UNCHANGED <<workVars, reviewVars, planVars, hand, stalls>>

\* An exception of the handler, or a heartbeat that finds the claim gone.
Abandon(w) ==
    /\ phased' = Freed(w)
    /\ hand' = [hand EXCEPT ![w] = IdleHand]

LeaseLost(w) ==
    /\ hand[w].pc # "idle"
    /\ phased.owner # w
    /\ Abandon(w)
    /\ UNCHANGED <<workVars, reviewVars, planVars, stalls>>

\* transition_run, the release of the claim and, at the end, of the school.
Complete(w) ==
    /\ At(w, "complete")
    /\ IF Owns(w) /\ phased.status \notin Ended
         THEN phased' = [Freed(w) EXCEPT
                !.phase = IF hand[w].next \in ToSet(Phase) THEN hand[w].next ELSE @,
                !.status = CASE hand[w].next = "terminal" -> "completed"
                             [] hand[w].next \in {"waiting", "blocked"} -> hand[w].next
                             [] OTHER -> @]
         ELSE phased' = Freed(w)
    /\ hand' = [hand EXCEPT ![w] = IdleHand]
    /\ UNCHANGED <<workVars, reviewVars, planVars, stalls>>

-----------------------------------------------------------------------------
(* The phases before the plan.                                             *)

Starts(w, phase) == At(w, "start") /\ hand[w].next = phase

\* The index of identities may ask its question; the planner makes batches.
Build(w) ==
    /\ Starts(w, "build")
    /\ question' \in {question} \cup IF question = "none" THEN {"pending"} ELSE {}
    /\ batches' = [b \in Batch |-> IF batches[b].status = "absent"
                     THEN [batches[b] EXCEPT !.status = "pending"] ELSE batches[b]]
    /\ Returns(w, "analyze")
    /\ UNCHANGED <<phased, answer, reviews, judging, planVars, stalls>>

\* Mutant of ListBatches: batches claimed by somebody are left to him.
ListOpenBatches(w) ==
    /\ Starts(w, "analyze")
    /\ hand' = [hand EXCEPT ![w] = [IdleHand EXCEPT !.pc = "claim",
                   !.todo = {b \in Batch : batches[b].status \in {"pending", "blocked"}}]]
    /\ UNCHANGED <<phased, workVars, reviewVars, planVars, stalls>>

\* analyze_batches lists its work once.
ListBatches(w) ==
    /\ Starts(w, "analyze")
    /\ hand' = [hand EXCEPT ![w] = [IdleHand EXCEPT !.pc = "claim",
                   !.todo = {b \in Batch : batches[b].status # "completed"}]]
    /\ UNCHANGED <<phased, workVars, reviewVars, planVars, stalls>>

AnalysisDone(w) ==
    /\ At(w, "claim") /\ hand[w].todo = {}
    /\ Returns(w, "clarify")
    /\ UNCHANGED <<phased, workVars, reviewVars, planVars, stalls>>

\* _analysis_run_is_active
Analysing(w) == Owns(w) /\ phased.phase = "analyze" /\ phased.status = "running"

\* claim_batch goes on with the batch of the last attempt.  A batch that
\* cannot be claimed ends the iteration; spent attempts block the run.
ClaimBatch(w) ==
    /\ At(w, "claim")
    /\ \E b \in hand[w].todo :
         /\ hand[w].batch \in {b, "none"}
         /\ CASE batches[b].attempts >= MaxModelAttempts ->
                   /\ Returns(w, "blocked")
                   /\ UNCHANGED <<phased, batches>>
              [] batches[b].attempts < MaxModelAttempts /\ batches[b].status # "completed"
                   /\ Analysing(w) /\ ~batches[b].live ->
                   /\ batches' = [batches EXCEPT ![b].status = "claimed", ![b].owner = w,
                                                 ![b].live = TRUE]
                   /\ hand' = [hand EXCEPT ![w].pc = "model", ![w].batch = b]
                   /\ UNCHANGED phased
              [] OTHER -> Abandon(w) /\ UNCHANGED batches
    /\ UNCHANGED <<answer, reviewVars, planVars, stalls>>

Unclaimed(b, status) ==
    [batches[b] EXCEPT !.status = status, !.owner = "none", !.live = FALSE]

\* Mutant of Fenced: only the batch's claim is checked, not the run's.
FencedByBatch(w, b) == batches[b].status = "claimed" /\ batches[b].owner = w

\* The batch may be written by the worker.
Fenced(w, b) == Analysing(w) /\ batches[b].status = "claimed" /\ batches[b].owner = w

\* The exception of a model or of a write: release_batch_claim, then the run's.
DropBatch(w) ==
    LET b == hand[w].batch IN
    /\ batches' = IF batches[b].status = "claimed" /\ batches[b].owner = w
                    THEN [batches EXCEPT ![b] = Unclaimed(b, "pending")] ELSE batches
    /\ Abandon(w)

Members(b) == {f \in Finding : BatchFor[f] = b}

\* finalize_batch: one finding for each item, in one transaction.  For a
\* batch completed by someone else only the same answer is no error.
Finalize(w) ==
    LET b == hand[w].batch
        goOn == [hand EXCEPT ![w].pc = "claim", ![w].todo = @ \ {b}, ![w].batch = "none"]
    IN
    /\ At(w, "model")
    /\ \E risk \in [Members(b) -> {"low", "high"}] :
         LET saved == [f \in Finding |-> IF f \in Members(b) THEN risk[f] ELSE answer[f]] IN
         \/ /\ batches[b].status = "completed" /\ saved = answer
            /\ hand' = goOn
            /\ UNCHANGED <<phased, workVars>>
         \/ /\ Fenced(w, b)
            /\ answer' = saved
            /\ batches' = [batches EXCEPT ![b] = [Unclaimed(b, "completed")
                             EXCEPT !.attempts = @ + 1]]
            /\ hand' = goOn
            /\ UNCHANGED phased
         \/ /\ ~Fenced(w, b) /\ ~(batches[b].status = "completed" /\ saved = answer)
            /\ DropBatch(w)
            /\ UNCHANGED answer
    /\ UNCHANGED <<reviewVars, planVars, stalls>>

\* append_failed_attempt after an answer that may be retried.
ModelFails(w) ==
    LET b == hand[w].batch
        spent == batches[b].attempts + 1 = MaxModelAttempts
    IN
    /\ At(w, "model")
    /\ IF Fenced(w, b)
         THEN /\ batches' = [batches EXCEPT ![b] =
                   [Unclaimed(b, IF spent THEN "blocked" ELSE "pending")
                      EXCEPT !.attempts = @ + 1]]
              /\ IF spent THEN Returns(w, "blocked")
                 ELSE hand' = [hand EXCEPT ![w].pc = "claim"]
              /\ UNCHANGED phased
         ELSE DropBatch(w)
    /\ UNCHANGED <<answer, reviewVars, planVars, stalls>>

\* Any other exception of the model's client.
ModelBreaks(w) ==
    /\ At(w, "model")
    /\ DropBatch(w)
    /\ UNCHANGED <<answer, reviewVars, planVars, stalls>>

Clarify(w) ==
    /\ Starts(w, "clarify")
    /\ Returns(w, IF question \in {"pending", "interpreted"} THEN "waiting" ELSE "aggregate")
    /\ UNCHANGED <<phased, workVars, reviewVars, planVars, stalls>>

\* group_high_risk_findings: the high risks of one key form a group.
ReviewGroups(findings) ==
    {{f \in findings : answer[f] = "high" /\ KeyOf[f] = k} : k \in {KeyOf[f] : f \in Finding}}
      \ {{}}

Aggregate(w) ==
    /\ Starts(w, "aggregate")
    /\ reviews' = [g \in Groups |-> IF g \in ReviewGroups(Finding) /\ reviews[g] = "absent"
                                      THEN "pending" ELSE reviews[g]]
    /\ Returns(w, IF \E g \in Groups : reviews'[g] = "pending" THEN "waiting" ELSE "compile")
    /\ UNCHANGED <<phased, workVars, question, judging, planVars, stalls>>

-----------------------------------------------------------------------------
(* The operators.                                                          *)

\* _resume_waiting_run
Resumed(phase) ==
    IF phased.phase = phase /\ phased.status = "waiting"
      THEN [phased EXCEPT !.status = "running"] ELSE phased

\* A reading of the operator's words; feedback takes it back.
Interpret ==
    /\ \/ question \in {"pending", "interpreted"} /\ question' = "interpreted"
       \/ question = "interpreted" /\ question' = "pending"
    /\ UNCHANGED <<phased, workVars, reviews, judging, planVars, hand, stalls>>

\* confirm_clarification, either way.
ConfirmQuestion ==
    /\ question = "interpreted"
    /\ question' = "settled"
    /\ phased' = Resumed("clarify")
    /\ UNCHANGED <<workVars, reviews, judging, planVars, hand, stalls>>

\* A decision locks its group and reads which others are still pending.
OpenDecision(g) ==
    /\ reviews[g] = "pending" /\ judging[g] = "none"
    /\ judging' = [judging EXCEPT ![g] =
                     IF \E h \in Groups \ {g} : reviews[h] = "pending" THEN "other" ELSE "last"]
    /\ UNCHANGED <<phased, workVars, question, reviews, planVars, hand, stalls>>

\* It commits; only one that saw no other resumes the run.
Decide(g) ==
    /\ judging[g] # "none"
    /\ judging' = [judging EXCEPT ![g] = "none"]
    /\ \E verdict \in {"approved", "rejected"} : reviews' = [reviews EXCEPT ![g] = verdict]
    /\ phased' = IF judging[g] = "last" THEN Resumed("aggregate") ELSE phased
    /\ UNCHANGED <<workVars, question, planVars, hand, stalls>>

\* terminate reports and releases the school; the lease is left as it is.
TerminateRun ==
    /\ phased.status \notin Ended
    /\ phased' = [phased EXCEPT !.status = "terminated"]
    /\ UNCHANGED <<workVars, reviewVars, planVars, hand, stalls>>

-----------------------------------------------------------------------------
(* The plan, its execution and the report.                                 *)

Rejected == UNION {g \in Groups : reviews[g] = "rejected"}

\* Mutant of Blocked: only what depends on a rejected finding directly.
BlockedDirectly ==
    Rejected \cup {f \in Finding : DependsOn[f] \cap Rejected # {}}

\* compile's loop: what depends on something blocked is blocked.
BlockedAfter[n \in 0..Cardinality(Finding)] ==
    IF n = 0 THEN Rejected
    ELSE BlockedAfter[n - 1] \cup {f \in Finding : DependsOn[f] \cap BlockedAfter[n - 1] # {}}

Blocked == BlockedAfter[Cardinality(Finding)]

Eligible == Finding \ Blocked

\* compile_agent_plan groups the eligible findings anew, and refuses a group
\* of them that was not approved as it is.
Compile(w) ==
    /\ Starts(w, "compile")
    /\ IF Eligible = {} \/ \A g \in ReviewGroups(Eligible) : reviews[g] = "approved"
         THEN /\ compiled' = IF Eligible = {} THEN compiled
                             ELSE [made |-> TRUE, findings |-> Eligible, version |-> output]
              /\ Returns(w, "execute")
              /\ UNCHANGED phased
         ELSE Abandon(w) /\ UNCHANGED compiled
    /\ UNCHANGED <<workVars, reviewVars, output, stalls>>

\* One transaction for all operations; a target that moved on is refused.
ExecutePlan(w) ==
    /\ Starts(w, "execute")
    /\ IF ~compiled.made \/ output = compiled.version
         THEN /\ output' \in IF compiled.made THEN {output, output + 1} ELSE {output}
              /\ Returns(w, "report")
              /\ UNCHANGED phased
         ELSE Abandon(w) /\ UNCHANGED output
    /\ UNCHANGED <<workVars, reviewVars, compiled, stalls>>

WriteReport(w) ==
    /\ Starts(w, "report")
    /\ Returns(w, "terminal")
    /\ UNCHANGED <<phased, workVars, reviewVars, planVars, stalls>>

-----------------------------------------------------------------------------
(* Faults.                                                                 *)

Crash(w) ==
    /\ hand[w].pc # "idle"
    /\ stalls < MaxFaults /\ stalls' = stalls + 1
    /\ hand' = [hand EXCEPT ![w] = IdleHand]
    /\ UNCHANGED <<phased, workVars, reviewVars, planVars>>

AtWork == \E w \in RunWorker : phased.owner = w /\ hand[w].pc # "idle"

\* The heartbeat renews the run's lease until its worker crashes or stalls.
LapseRun ==
    /\ phased.live
    /\ phased' = [phased EXCEPT !.live = FALSE]
    /\ IF AtWork THEN stalls < MaxFaults /\ stalls' = stalls + 1 ELSE UNCHANGED stalls
    /\ UNCHANGED <<workVars, reviewVars, planVars, hand>>

\* Nothing renews a batch's lease: a slow model outlives it.
LapseBatch(b) ==
    /\ batches[b].live
    /\ batches' = [batches EXCEPT ![b].live = FALSE]
    /\ UNCHANGED <<phased, answer, reviewVars, planVars, hand, stalls>>

HandlerStep(w) ==
    \/ Build(w) \/ ListBatches(w) \/ AnalysisDone(w) \/ ClaimBatch(w) \/ Finalize(w)
    \/ ModelFails(w) \/ ModelBreaks(w) \/ Clarify(w) \/ Aggregate(w)
    \/ Compile(w) \/ ExecutePlan(w) \/ WriteReport(w)

FixedPhaseNext ==
    \/ \E w \in RunWorker : ClaimRun(w) \/ Renew(w) \/ LeaseLost(w) \/ Complete(w)
                            \/ HandlerStep(w) \/ Crash(w)
    \/ Interpret \/ ConfirmQuestion \/ TerminateRun \/ LapseRun
    \/ \E g \in Groups : OpenDecision(g) \/ Decide(g)
    \/ \E b \in Batch : LapseBatch(b)

FixedPhaseSpec == FixedPhaseInit /\ [][FixedPhaseNext]_phaseVars

-----------------------------------------------------------------------------
(* Properties.                                                             *)

\* A run leaves the analysis only when every batch is completed and every
\* finding has its answer, whoever analysed it (analyze_batches lists once).
AnalysisIsComplete ==
    phased.phase \notin {"build", "analyze"} =>
        /\ \A b \in Batch : batches[b].status = "completed"
        /\ \A f \in Finding : answer[f] # "none"

\* The recorded answer to a work item is final: a worker that lost its run,
\* or a termination, changes none of it (finalize_batch's fences).
AnswersAreFinal ==
    [][\A f \in Finding : answer'[f] # answer[f] =>
         answer[f] = "none" /\ phased.status = "running"]_phaseVars

\* What f depends on, directly or through others.
Upstream(f) ==
    {g \in Finding : \A S \in SUBSET Finding :
        DependsOn[f] \subseteq S /\ (\A h \in S : DependsOn[h] \subseteq S) => g \in S}

\* The plan has no finding that was rejected or rests on a rejected one, and
\* each high risk in it was approved in a group (compile, compile_agent_plan).
PlanRespectsReviews ==
    \A f \in compiled.findings :
        /\ \A g \in Upstream(f) \cup {f} : \A r \in Groups : g \in r => reviews[r] # "rejected"
        /\ answer[f] = "high" => \E r \in Groups : f \in r /\ reviews[r] = "approved"
=============================================================================
