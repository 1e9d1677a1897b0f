--------------------------- MODULE ExecutionBatches ---------------------------
(***************************************************************************)
(* Governance of a legacy task: reviewed proposals are compiled into a     *)
(* plan, a plan is confirmed as a batch, and a batch is executed against   *)
(* the CSV version it was confirmed for, which yields the next version.    *)
(*                                                                         *)
(* The rows of a CSV file are the task's differences: row d holds 0, what  *)
(* the uploaded file says of it, or the number of the proposal that was    *)
(* applied to it.  For a difference that creates a row, 0 is its absence.  *)
(*                                                                         *)
(* Executing a batch is one transaction of which only the reads at its     *)
(* beginning and its end at the task's lock (create_target_version) are    *)
(* told apart.                                                             *)
(***************************************************************************)
EXTENDS Naturals, Sequences, FiniteSets

CONSTANTS
    Difference,     \* differences with an analysis: the rows of the file
    KindOf,         \* each difference's operation: create, update or skip
    Needs,          \* the differences whose created rows a difference refers to
    Upload,         \* what the uploaded files may be like
    Key,            \* idempotency keys of confirmations, each names a batch
    Executor,       \* requests that execute a batch
    MaxProposals,   \* proposals for one difference
    MaxPreviews,    \* previews of plans and of restores
    MaxVersions     \* CSV versions of the task

ExecutionAssumption ==
    /\ IsFiniteSet(Difference)
    /\ KindOf \in [Difference -> {"create", "update", "skip"}]
    /\ Needs \in [Difference -> SUBSET Difference]
    /\ {MaxProposals, MaxPreviews} \subseteq Nat
    /\ MaxVersions \in Nat \ {0}
    /\ "none" \notin Key

VARIABLES
    proposal,    \* the latest governance_proposals version of each difference
    upload,      \* the uploaded file: form, rows that differ from the snapshot,
                 \* fields that are empty there or in the proposal
    version,     \* target_versions, in the order of their creation
    plans,       \* governance_plans
    batch,       \* execution_batches by key, with their execution_operations
    attempt,     \* the latest operation_attempts row of each operation
    restore,     \* restore_requests that are allowed
    execution    \* the memory of each executing request

batchVars == <<proposal, upload, version, plans, batch, attempt, restore, execution>>

Value   == 0..MaxProposals
Content == [Difference -> Value]
Form    == {"uploaded", "canonical"}
Status  == {"none", "succeeded", "failed", "blocked", "verification_failed"}

Operation == [row : Difference, kind : {"create", "update", "remove", "skip"},
              before : Value, after : Value, needs : SUBSET Nat]
NoBatch   == [kind |-> "none", hash |-> <<>>, ops |-> <<>>, input |-> 0, target |-> 0]
Untried   == [status |-> "none", version |-> 0]
Waiting   == [key |-> "none", prior |-> <<>>]
NoUpload  == [form |-> "canonical", mismatched |-> {}, nullBefore |-> {}, nullAfter |-> {}]

Of(f, key, v) == [f EXCEPT ![key] = v]

\* A version's file, as its SHA-256 tells it apart from others.
FileHash(v) == <<version[v].content, version[v].form>>

IsRestore(v) == version[v].batch # "none" /\ batch[version[v].batch].kind = "restore"
Accepted     == {v \in DOMAIN version : ~IsRestore(v) \/ version[v].restores # 0}

\* current_target_version: the latest one but for refused outputs of restores.
Current == CHOOSE v \in Accepted : \A u \in Accepted : u <= v

-----------------------------------------------------------------------------
(* Proposals: confirm_ai, confirm_manual and the batch that fills the gaps. *)

Propose(d) ==
    /\ proposal[d] < MaxProposals
    /\ proposal' = [proposal EXCEPT ![d] = @ + 1]
    /\ UNCHANGED <<upload, version, plans, batch, attempt, restore, execution>>

\* confirm: the previewed differences that have got a proposal are skipped.
ProposeBatch ==
    \E previewed \in SUBSET Difference :
        /\ \E d \in previewed : proposal[d] = 0
        /\ proposal' = [d \in Difference |->
                           IF d \in previewed /\ proposal[d] = 0 THEN 1 ELSE proposal[d]]
        /\ UNCHANGED <<upload, version, plans, batch, attempt, restore, execution>>

-----------------------------------------------------------------------------
(* Preview and confirmation.                                               *)

\* stable_topological_order of the selected differences, by rounds: a
\* difference follows those it needs.
Ordered(selected) ==
    CHOOSE s \in [1..Cardinality(selected) -> selected] :
        /\ \A i, j \in DOMAIN s : i # j => s[i] # s[j]
        /\ \A i, j \in DOMAIN s : s[j] \in Needs[s[i]] => j < i

\* bind_selected_dependencies, build: a dependency is one only if selected.
Compile(selected) ==
    LET s == Ordered(selected) IN
    [i \in DOMAIN s |-> [row |-> s[i], kind |-> KindOf[s[i]], before |-> 0,
                         after |-> proposal[s[i]],
                         needs |-> {j \in DOMAIN s : /\ s[j] \in Needs[s[i]]
                                                     /\ KindOf[s[j]] = "create"}]]

MayPreview == Cardinality(plans) + Cardinality(restore) < MaxPreviews

Preview ==
    /\ version # <<>> /\ MayPreview
    /\ \E selected \in SUBSET {d \in Difference : proposal[d] > 0} :
          /\ selected # {}
          /\ plans' = plans \cup {[hash |-> FileHash(Current), ops |-> Compile(selected)]}
    /\ UNCHANGED <<proposal, upload, version, batch, attempt, restore, execution>>

\* _ensure_target_version: the uploaded file is the first version.
EnsureTargetVersion ==
    /\ version = <<>>
    /\ \E u \in Upload : /\ upload' = u
                         /\ version' = <<[parent |-> 0, batch |-> "none", restores |-> 0, form |-> u.form,
                                          content |-> [d \in Difference |-> 0]]>>
    /\ UNCHANGED <<proposal, plans, batch, attempt, restore, execution>>

\* check: the plan's file is the current one, its proposals are the latest.
PreflightValid(hash, ops) ==
    /\ hash = FileHash(Current)
    /\ \A i \in DOMAIN ops : ops[i].after = proposal[ops[i].row]

\* create_batch; the same key finds the same confirmation or is refused.
CreateBatch(key, b) ==
    /\ batch[key] = NoBatch
    /\ batch' = Of(batch, key, b)
    /\ attempt' = Of(attempt, key, [i \in DOMAIN b.ops |-> Untried])

Confirm(key) ==
    \E p \in plans :
        /\ PreflightValid(p.hash, p.ops)
        /\ CreateBatch(key, [kind |-> "governance", hash |-> p.hash, ops |-> p.ops,
                             input |-> Current, target |-> 0])
        /\ UNCHANGED <<proposal, upload, version, plans, restore, execution>>

-----------------------------------------------------------------------------
(* apply_operation and verify on the rows of a file.                       *)

Applies(op, content) ==
    LET present == KindOf[op.row] # "create" \/ content[op.row] # 0 IN
    CASE op.kind = "skip"   -> TRUE
      [] op.kind = "create" -> ~present
      [] op.kind = "remove" -> present
      [] op.kind = "update" -> /\ present
                               /\ content[op.row] = op.before
                               /\ op.before = 0 => op.row \notin upload.mismatched

Apply(op, content) ==
    CASE op.kind = "skip"   -> content
      [] op.kind = "remove" -> [content EXCEPT ![op.row] = 0]
      [] OTHER              -> [content EXCEPT ![op.row] = op.after]

\* An expected null is not what an empty cell is read as.
Verifies(op) ==
    op.kind = "update" =>
        op.row \notin (IF op.after = 0 THEN upload.nullBefore ELSE upload.nullAfter)

\* execute: each operation in turn, on the rows that the earlier ones left.
StatusOf(op, prior, status, content) ==
    CASE prior = "succeeded" -> "succeeded"
      [] prior # "succeeded" /\ \E j \in op.needs : status[j] # "succeeded" -> "blocked"
      [] OTHER -> IF ~Applies(op, content) THEN "failed"
                  ELSE IF ~Verifies(op) THEN "verification_failed" ELSE "succeeded"

Executed(ops, prior, content) ==
    LET run[n \in 0..Len(ops)] ==
          IF n = 0 THEN [content |-> content, status |-> <<>>, tried |-> {}, applied |-> FALSE]
          ELSE LET before == run[n - 1]
                   status == StatusOf(ops[n], prior[n], before.status, before.content)
                   tried  == prior[n] # "succeeded"
                   done   == /\ tried /\ ops[n].kind # "skip"
                             /\ status \in {"succeeded", "verification_failed"}
               IN  [content |-> IF done THEN Apply(ops[n], before.content) ELSE before.content,
                    status  |-> Append(before.status, status),
                    tried   |-> IF tried THEN before.tried \cup {n} ELSE before.tried,
                    applied |-> before.applied \/ done]
    IN  run[Len(ops)]

AllSucceeded(result) == \A i \in DOMAIN result.status : result.status[i] = "succeeded"

-----------------------------------------------------------------------------
(* Execution: the endpoint revalidates and reads, then applies and records. *)

MayExecute(key) ==
    CASE batch[key].kind = "governance" -> PreflightValid(batch[key].hash, batch[key].ops)
      [] batch[key].kind = "restore"    -> Current = batch[key].input
      [] OTHER                          -> FALSE

BeginExecution(e, key) ==
    /\ execution[e] = Waiting
    /\ MayExecute(key)
    /\ execution' = [execution EXCEPT ![e] =
          [key |-> key, prior |-> [i \in DOMAIN attempt[key] |-> attempt[key][i].status]]]
    /\ UNCHANGED <<proposal, upload, version, plans, batch, attempt, restore>>

\* create_target_version under the task's lock: only on top of the current one.
ParentIsCurrent(parent) == Current = parent

\* append_attempt for every operation that was tried.
Record(key, result, v) ==
    attempt' = [attempt EXCEPT ![key] = [i \in DOMAIN @ |->
        IF i \in result.tried THEN [status |-> result.status[i], version |-> v] ELSE @[i]]]

\* RestoreService.execute: the output is accepted if it says what the selected
\* version says; a file that was uploaded in another form never compares equal.
StateMatches(content, target) ==
    version[target].content = content /\ version[target].form = "canonical"

FinishExecution(e) ==
    LET key == execution[e].key
        b == batch[key]
        result == Executed(b.ops, execution[e].prior, version[b.input].content)
        accepted == /\ b.kind = "restore" /\ AllSucceeded(result)
                    /\ StateMatches(result.content, b.target)
        output == [parent |-> b.input, batch |-> key, content |-> result.content,
                   form |-> "canonical", restores |-> IF accepted THEN b.target ELSE 0]
    IN
    /\ execution[e] # Waiting
    /\ execution' = [execution EXCEPT ![e] = Waiting]
    /\ IF result.applied
         THEN IF ParentIsCurrent(b.input)
                THEN /\ Len(version) < MaxVersions
                     /\ version' = Append(version, output)
                     /\ Record(key, result, Len(version) + 1)
                ELSE UNCHANGED <<version, attempt>>
         ELSE /\ UNCHANGED version
              /\ IF b.kind = "restore" /\ AllSucceeded(result)
                   THEN UNCHANGED attempt
                   ELSE Record(key, result, 0)
    /\ UNCHANGED <<proposal, upload, plans, batch, restore>>

\* The request fails before it has committed anything.
AbortExecution(e) ==
    /\ execution[e] # Waiting
    /\ execution' = [execution EXCEPT ![e] = Waiting]
    /\ UNCHANGED <<proposal, upload, version, plans, batch, attempt, restore>>

-----------------------------------------------------------------------------
BatchTypeOK ==
    /\ proposal \in [Difference -> Value]
    /\ upload \in Upload \cup {NoUpload}
    /\ \A v \in DOMAIN version :
          version[v] \in [parent : 0..(v - 1), batch : Key \cup {"none"}, restores : 0..(v - 1),
                          form : Form, content : Content]
    /\ \A p \in plans : \A i \in DOMAIN p.ops : p.ops[i] \in Operation
    /\ \A k \in Key : /\ batch[k].kind \in {"none", "governance", "restore"}
                      /\ batch[k].input \in 0..Len(version)
                      /\ DOMAIN attempt[k] = DOMAIN batch[k].ops
                      /\ \A i \in DOMAIN attempt[k] :
                            attempt[k][i] \in [status : Status, version : 0..Len(version)]
    /\ \A e \in Executor : execution[e].key \in Key \cup {"none"}

BatchInit ==
    /\ proposal = [d \in Difference |-> 0]
    /\ upload = NoUpload
    /\ version = <<>>
    /\ plans = {}
    /\ batch = [k \in Key |-> NoBatch]
    /\ attempt = [k \in Key |-> <<>>]
    /\ restore = {}
    /\ execution = [e \in Executor |-> Waiting]

BatchNext ==
    \/ ProposeBatch \/ EnsureTargetVersion \/ Preview
    \/ \E d \in Difference : Propose(d)
    \/ \E k \in Key : Confirm(k)
    \/ \E e \in Executor : FinishExecution(e) \/ AbortExecution(e)
    \/ \E e \in Executor, k \in Key : BeginExecution(e, k)

-----------------------------------------------------------------------------
(* Properties.                                                             *)

\* The versions that count as current were derived one from the other: no two
\* executions, whatever they had read, replace the same version
\* (create_target_version), and none overwrites the result of another.
VersionsFormAChain ==
    \A v \in Accepted : \A u \in Accepted : u < v =>
        /\ u <= version[v].parent
        /\ version[v].parent \in Accepted
=============================================================================
