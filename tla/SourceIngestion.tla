--------------------------- MODULE SourceIngestion ---------------------------
(***************************************************************************)
(* How an Agent run of the state graph takes in its two sources: the task  *)
(* service binds them (agent_runtime/task_service.py) and fixes the        *)
(* ingestion contract (agent_runtime/service.py), the candidate provider   *)
(* offers one action at a time (agent_graph/runtime.py) and the executor   *)
(* materialises, inspects, maps and normalises                             *)
(* (agent_graph/production_executor.py).                                   *)
(*                                                                         *)
(* An action is frozen with the cursor, so that whoever claims the run     *)
(* next repeats it.  The outside is read before the transaction that       *)
(* stores the result, and the transition is a transaction of its own:      *)
(* between them the worker may crash, a second worker may take the lapsed  *)
(* lease over while the first goes on, and an owner may edit a source.     *)
(* A content is known by its version; an edit changes every page.  An edit *)
(* that leaves the highest version of the table as it was is invisible to  *)
(* the program and not modelled.                                           *)
(***************************************************************************)
EXTENDS Naturals, Sequences, FiniteSets

CONSTANTS Ingester,       \* graph workers
          TaskPairs,      \* bound: the kinds of authority and target looked at
          MaxDisturbances \* bound: edits, faults, crashes and takeovers of one run

ASSUME IngestionAssumption ==
  /\ Ingester # {}
  /\ MaxDisturbances \in Nat

VARIABLES sources,    \* what the task is bound to, per role
          ingestion,  \* the run: contract, node, cursor, frozen action, owner, how it ended
          rows,       \* what is stored: checkpoints, invocations, inputs, first target version
          ingesting,  \* what each worker is at
          disturbed   \* edits, faults, crashes and takeovers so far

ingestionVars == <<sources, ingestion, rows, ingesting, disturbed>>

Role == {"authoritative", "target"}
Page == {1, 2}
Managed == {"csv"}                      \* an upload: nobody edits it
Fetched == {"remote", "api"}            \* materialised before they are read
Tabular == {"csv", "local", "remote"}   \* read as a CSV file

Do(kind, role, page) == [kind |-> kind, role |-> role, page |-> page]
NoAct == Do("none", "pair", 0)
Validate == Do("validate_normalized_input", "pair", 0)

Unoccupied == [step |-> "idle", act |-> NoAct, cursor |-> 0, before |-> [r \in Role |-> 0],
               read |-> {}, fresh |-> TRUE]

UnboundSource == [kind |-> "none", form |-> "recognized", version |-> 1, file |-> 0,
                  state |-> "registered", snapshot |-> FALSE]

IngestionInit ==
  /\ sources = [r \in Role |-> UnboundSource]
  /\ ingestion = [contract |-> 0, node |-> "none", cursor |-> 0, frozen |-> NoAct,
                  done |-> {}, owner |-> {}, ended |-> "active"]
  /\ rows = [checkpoints |-> <<>>, invocations |-> <<>>, inputs |-> [r \in Role |-> {}],
             version |-> 0]
  /\ ingesting = [w \in Ingester |-> Unoccupied]
  /\ disturbed = [edits |-> 0, faults |-> 0, crashes |-> 0, takeovers |-> 0]

-----------------------------------------------------------------------------
(* Creating the task and its run.                                          *)

\* The pairs of connectors that the settings permit.  A local authority with
\* an uploaded target is among them.
FilesToDatabase(a, t, v3) == a \in Tabular /\ t = "database" /\ v3
ApiToDatabase(a, t, v3) == a = "api" /\ t = "database" /\ v3
DatabasePair(a, t, v2) == a = "database" /\ t = "database" /\ v2

Permitted(a, t, v2, v3) ==
  \/ a \in {"csv", "local"} /\ t \in {"csv", "local"}
  \/ a = "remote" /\ t = "local" /\ v2
  \/ FilesToDatabase(a, t, v3) \/ ApiToDatabase(a, t, v3) \/ DatabasePair(a, t, v2)

Contract(a, t, v2, v3) ==
  CASE v3 /\ t = "database" /\ a # "database" -> 3
    [] ~(v3 /\ t = "database" /\ a # "database") /\ v2 -> 2
    [] OTHER -> 1

\* How a source presents itself: its fields are the fixed ones, have to be
\* mapped, or cannot be read; "empty" has the fields and no rows.  Under v1 a
\* model judges them.
Form(kind, contract) ==
  CASE kind = "api" -> {"recognized"}
    [] kind # "api" /\ contract = 1 -> {"recognized", "empty"}
    [] OTHER -> {"recognized", "mappable", "broken", "empty"}

\* The roles whose snapshots each way of binding creates.  A fetched authority
\* gets its own when it is materialised.
BindCsvPair == Role
BindLocalPair == Role
BindUploadedSourceLocalTarget == Role
BindRemoteSourceLocalTarget == {"target"}
BindDatabasePair == Role
BindApiDatabasePair == {"target"}
BindCsvDatabasePair(a) == IF a \in Fetched THEN {"target"} ELSE Role

\* No branch binds a local authority and an uploaded target.
Snapshots(a, t) ==
  CASE a = "csv" /\ t = "csv" -> BindCsvPair
    [] a = "local" /\ t = "local" -> BindLocalPair
    [] a = "csv" /\ t = "local" -> BindUploadedSourceLocalTarget
    [] a = "remote" /\ t = "local" -> BindRemoteSourceLocalTarget
    [] a = "database" /\ t = "database" -> BindDatabasePair
    [] a = "api" /\ t = "database" -> BindApiDatabasePair
    [] a \in Tabular /\ t = "database" -> BindCsvDatabasePair(a)
    [] OTHER -> {}

CreateTask(a, t, v2, v3) ==
  /\ ingestion.node = "none"
  /\ <<a, t>> \in TaskPairs
  /\ Permitted(a, t, v2, v3)
  /\ \E fa \in Form(a, Contract(a, t, v2, v3)), ft \in Form(t, Contract(a, t, v2, v3)) :
       /\ {fa, ft} = {"mappable"} \/ "recognized" \in {fa, ft}
       /\ sources' = [r \in Role |->
            [UnboundSource EXCEPT !.kind = IF r = "target" THEN t ELSE a,
                            !.form = IF r = "target" THEN ft ELSE fa,
                            !.snapshot = r \in Snapshots(a, t)]]
  /\ ingestion' = [ingestion EXCEPT
                     !.contract = Contract(a, t, v2, v3), !.cursor = 1,
                     !.node = IF a \in Fetched THEN "materialize_sources"
                              ELSE "inspect_sources"]
  /\ UNCHANGED <<rows, ingesting, disturbed>>

-----------------------------------------------------------------------------
(* The candidate of a node.                                                *)

Verdict(kind, r) ==
  IF <<kind, r>> \in DOMAIN rows.checkpoints THEN rows.checkpoints[<<kind, r>>].verdict
  ELSE "missing"

\* The first action of a plan that is not closed, `last` if all are.
FirstOpen(plan, closed, last) ==
  LET open == {i \in DOMAIN plan : plan[i] \notin closed}
  IN  IF open = {} THEN last ELSE plan[CHOOSE i \in open : \A j \in open : i <= j]

Mapped(r) == Verdict("mapping", r) # "missing"
Normalized(r) == Verdict("normalization", r) # "missing"

RolesDone ==
  {Do("map", r, 0) : r \in {r \in Role : Mapped(r)}} \cup
  {Do("normalize", r, 0) : r \in {r \in Role : Normalized(r)}}

InspectionAction ==
  FirstOpen(<<Do("inspect", "authoritative", 0), Do("inspect", "target", 0)>>,
            ingestion.done, Do("normalize_ready_sources", "pair", 0))

\* Nothing more can be mapped or normalised.
Hopeless ==
  \E r \in Role : \/ Verdict("inspection", r) \in {"missing", "problem"}
                  \/ Verdict("mapping", r) = "unresolved"

\* v3: mapped and normalised role by role.
NormalizeRoles ==
  IF Hopeless THEN Validate
  ELSE FirstOpen(<<Do("map", "authoritative", 0), Do("map", "target", 0),
                   Do("normalize", "authoritative", 0), Do("normalize", "target", 0)>>,
                 RolesDone, Validate)

\* v2: one mapping for both.
NormalizePair ==
  IF Hopeless THEN Validate
  ELSE IF \E r \in Role : ~Mapped(r) THEN Do("map", "pair", 0)
  ELSE FirstOpen(<<Do("normalize", "authoritative", 0), Do("normalize", "target", 0)>>,
                 ingestion.done, Validate)

\* v1: page after page.
Pages(r) ==
  IF sources[r].form = "empty" THEN <<Do("normalize", r, 1)>>
  ELSE <<Do("normalize", r, 1), Do("normalize", r, 2)>>

NormalizePages ==
  FirstOpen(Pages("authoritative"), ingestion.done,
            FirstOpen(Pages("target"), ingestion.done, Validate))

NormalizationAction ==
  CASE ingestion.contract = 3 -> NormalizeRoles
    [] ingestion.contract = 2 -> NormalizePair
    [] ingestion.contract = 1 -> NormalizePages

\* Mutant of Sound: what is missing is taken for sound.
SoundUnlessUnresolved(r) ==
  IF ingestion.contract = 1 THEN Verdict("inspection", r) = "recognized"
  ELSE Verdict("mapping", r) # "unresolved"

\* The contract is met: v3 asks for a database that was mapped without a
\* problem, for all rows that normalization counted, and for an authority.
Sound(r) ==
  CASE ingestion.contract = 3 ->
         /\ \/ Verdict("inspection", r) = "recognized"
            \/ Verdict("inspection", r) = "mappable" /\ Verdict("mapping", r) = "resolved"
         /\ Verdict("mapping", r) = "resolved"
         /\ Verdict("normalization", r) = "stored"
         /\ rows.checkpoints[<<"normalization", r>>].count = Cardinality(rows.inputs[r])
         /\ sources[r].snapshot
         /\ r = "authoritative" => rows.inputs[r] # {}
    [] ingestion.contract = 2 ->
         Verdict("mapping", r) = "resolved" /\ Verdict("normalization", r) = "stored"
    [] ingestion.contract = 1 -> Verdict("inspection", r) = "recognized"

ValidationAction ==
  Do(IF \A r \in Role : Sound(r) THEN "build_identity_index" ELSE "report_abnormal_input",
     "pair", 0)

Candidate ==
  CASE ingestion.node = "materialize_sources" -> Do("materialize", "authoritative", 0)
    [] ingestion.node = "inspect_sources" -> InspectionAction
    [] ingestion.node = "normalize_input_batches" -> NormalizationAction
    [] ingestion.node = "validate_input_contract" -> ValidationAction

NodeAfter(act) ==
  CASE act.kind = "materialize" -> "inspect_sources"
    [] act.kind = "normalize_ready_sources" -> "normalize_input_batches"
    [] act.kind = "validate_normalized_input" -> "validate_input_contract"
    [] act.kind \in {"build_identity_index", "report_abnormal_input"} -> act.kind
    [] OTHER -> ingestion.node

-----------------------------------------------------------------------------
(* A worker.                                                               *)

MayDisturb ==
  disturbed.edits + disturbed.faults + disturbed.crashes + disturbed.takeovers
    < MaxDisturbances

OwnsRun(w) == ingestion.owner = {w}

\* The rows that the action stores are there.
Stored(act) ==
  CASE act.kind = "materialize" -> sources[act.role].snapshot
    [] act.kind = "map" -> \E r \in Role : /\ act.role \in {r, "pair"}
                                           /\ Verdict("mapping", r) # "missing"
    [] act.kind = "inspect" -> Verdict("inspection", act.role) # "missing"
    [] act.kind = "normalize" -> \/ Verdict("normalization", act.role) # "missing"
                                 \/ \E x \in rows.inputs[act.role] : x[1] = act.page
    [] OTHER -> act \in DOMAIN rows.invocations

\* Claiming the run: nobody has it, its owner crashed, or the lease has lapsed
\* under an owner that goes on.
BeginAct(w) ==
  /\ ingesting[w] = Unoccupied
  /\ ingestion.ended = "active"
  /\ ingestion.node \notin {"none", "build_identity_index", "report_abnormal_input"}
  /\ LET busy == {v \in ingestion.owner : ingesting[v] # Unoccupied}
         act == IF ingestion.frozen = NoAct THEN Candidate ELSE ingestion.frozen
     IN  /\ busy # {} => MayDisturb
         /\ disturbed' = [disturbed EXCEPT !.takeovers = IF busy = {} THEN @ ELSE @ + 1]
         /\ ingestion' = [ingestion EXCEPT !.owner = {w}, !.frozen = act]
         /\ ingesting' = [ingesting EXCEPT ![w] =
              [Unoccupied EXCEPT !.step = "begun", !.act = act, !.cursor = ingestion.cursor,
                           !.before = [r \in Role |-> sources[r].version],
                           !.fresh = ~Stored(act)]]
  /\ UNCHANGED <<sources, rows>>

\* An error that is not retried fails the run, if the worker still owns it.
Fail(w) ==
  /\ ingestion' = IF OwnsRun(w) THEN [ingestion EXCEPT !.ended = "failed", !.owner = {}]
                  ELSE ingestion
  /\ ingesting' = [ingesting EXCEPT ![w] = Unoccupied]

\* Any other error gives the claim back, and the action is repeated.
GiveBack(w) ==
  /\ ingestion' = IF OwnsRun(w) THEN [ingestion EXCEPT !.owner = {}] ELSE ingestion
  /\ ingesting' = [ingesting EXCEPT ![w] = Unoccupied]

\* The sub-agent gave up: the run waits for its termination.
BlockRun(w) ==
  /\ ingesting[w].step = "begun"
  /\ \/ ingestion.contract = 1 /\ ingesting[w].act.kind \in {"inspect", "normalize"}
     \/ /\ ingesting[w].act.kind = "map" /\ ~Stored(ingesting[w].act)
        /\ \E r \in Role : /\ ingesting[w].act.role \in {r, "pair"}
                           /\ sources[r].form = "mappable"
  /\ ingestion' = IF OwnsRun(w) THEN [ingestion EXCEPT !.ended = "blocked", !.owner = {}]
                  ELSE ingestion
  /\ ingesting' = [ingesting EXCEPT ![w] = Unoccupied]
  /\ UNCHANGED <<sources, rows, disturbed>>

Did(w) == ingesting' = [ingesting EXCEPT ![w].step = "done"]

\* Where a worker that at the same time found no rows meets the unique
\* constraints of those another one stored meanwhile.
Collide(w) ==
  /\ ingesting[w].step \in {"begun", "captured"} /\ ingesting[w].fresh
  /\ Stored(ingesting[w].act)
  /\ ingesting[w].act.kind \in {"inspect", "map", "normalize"}
  /\ Fail(w)
  /\ UNCHANGED <<sources, rows, disturbed>>

-----------------------------------------------------------------------------
(* Materialisation.  The row of the source is locked from the download to  *)
(* the end of the transaction.                                             *)

LockedByAnother(w) ==
  \E v \in Ingester \ {w} : ingesting[v].step = "captured"

\* A remote file is published under its hash and found again after a crash;
\* an API is captured anew unless its source is ready.
Capture(w) ==
  /\ ingesting[w].step = "begun" /\ ingesting[w].act.kind = "materialize"
  /\ ~LockedByAnother(w)
  /\ ingesting' = [ingesting EXCEPT ![w].step = "captured",
                                    ![w].before = [r \in Role |-> sources[r].version]]
  /\ LET s == sources.authoritative
     IN  sources' = IF s.kind = "remote" /\ s.file = 0
                    THEN [sources EXCEPT !.authoritative.file = s.version]
                    ELSE sources
  /\ UNCHANGED <<ingestion, rows, disturbed>>

\* Mutant of Publish: a ready source is not reused.
PublishAgain(w) ==
  /\ ingesting[w].step = "captured"
  /\ IF sources.authoritative.snapshot
     THEN Fail(w) /\ UNCHANGED sources
     ELSE /\ sources' = [sources EXCEPT
               !.authoritative.state = "ready", !.authoritative.snapshot = TRUE,
               !.authoritative.file = ingesting[w].before["authoritative"]]
          /\ Did(w) /\ UNCHANGED ingestion
  /\ UNCHANGED <<rows, disturbed>>

\* A ready source is reused.  Publishing the rows of one that was made ready
\* before, and marked failed since, violates the key of its snapshot.
Publish(w) ==
  LET s == sources.authoritative
  IN  /\ ingesting[w].step = "captured"
      /\ CASE s.state = "ready" ->
                IF ingesting[w].cursor = ingestion.cursor
                THEN Did(w) /\ UNCHANGED <<sources, ingestion>>
                ELSE GiveBack(w) /\ UNCHANGED sources
           [] s.state # "ready" /\ s.snapshot -> Fail(w) /\ UNCHANGED sources
           [] OTHER ->
                /\ Did(w)
                /\ sources' = [sources EXCEPT
                     !.authoritative.state = "ready", !.authoritative.snapshot = TRUE,
                     !.authoritative.file = IF s.kind = "api"
                                            THEN ingesting[w].before["authoritative"]
                                            ELSE s.file]
                /\ UNCHANGED ingestion
      /\ UNCHANGED <<rows, disturbed>>

\* The download or the capture fails: the transaction is rolled back ...
CaptureFails(w) ==
  /\ ingesting[w].step = "begun" /\ ingesting[w].act.kind = "materialize"
  /\ sources.authoritative.state # "ready" /\ ~LockedByAnother(w)
  /\ MayDisturb
  /\ disturbed' = [disturbed EXCEPT !.faults = @ + 1]
  /\ ingesting' = [ingesting EXCEPT ![w].step = "failing"]
  /\ UNCHANGED <<sources, ingestion, rows>>

\* ... and a second one marks the source, whatever has become of it.  A
\* failed download fails the run, a failed capture is tried again.
MarkFailed(w) ==
  /\ ingesting[w].step = "failing" /\ ~LockedByAnother(w)
  /\ sources' = [sources EXCEPT !.authoritative.state = "failed",
                                !.authoritative.file =
                                    IF sources.authoritative.kind = "api" THEN 0
                                    ELSE sources.authoritative.file]
  /\ IF sources.authoritative.kind = "remote" THEN Fail(w) ELSE GiveBack(w)
  /\ UNCHANGED <<rows, disturbed>>

-----------------------------------------------------------------------------
(* Storing what an action found, with the checks of a replay.              *)

\* hash: what of the version the checkpoint's input hash covers.
CheckpointRow(verdict, hash, version, count) ==
  [verdict |-> verdict, hash |-> hash, version |-> version, count |-> count]

\* What an action found, if that is one checkpoint.
One(kind, r, row) == [k \in {<<kind, r>>} |-> row]

VersionOf(w, r) == IF sources[r].kind = "database" THEN ingesting[w].before[r] ELSE 0

InputsWith(input) == [r \in Role |-> rows.inputs[r] \cup input[r]]

\* One transaction: input rows first, then checkpoints, then the invocation of
\* the server (`recorded`), which also finds out that the cursor has moved.
Store(w, found, input, recorded) ==
  LET act == ingesting[w].act
      old == rows.checkpoints
      mixed == \E r \in Role : \E x \in input[r], y \in rows.inputs[r] : x[1] = y[1] /\ x # y
      rehashed == \E k \in DOMAIN found \cap DOMAIN old : old[k].hash # found[k].hash
      output == {found[k] : k \in DOMAIN found}
      altered == /\ recorded /\ act \in DOMAIN rows.invocations
                 /\ rows.invocations[act] # output
      stale == ingesting[w].cursor # ingestion.cursor
      fixed(r) == IF <<"normalization", r>> \in DOMAIN found
                  THEN found[<<"normalization", r>>].version ELSE 0
  IN  IF mixed
      THEN Fail(w) /\ UNCHANGED rows
      ELSE IF rehashed \/ altered \/ stale
      THEN GiveBack(w) /\ UNCHANGED rows
      ELSE /\ Did(w)
           /\ rows' = [checkpoints |-> [k \in DOMAIN found \cup DOMAIN old |->
                                          IF k \in DOMAIN old THEN old[k] ELSE found[k]],
                       invocations |-> IF recorded /\ act \notin DOMAIN rows.invocations
                                       THEN [a \in DOMAIN rows.invocations \cup {act} |->
                                               IF a = act THEN output ELSE rows.invocations[a]]
                                       ELSE rows.invocations,
                       inputs |-> InputsWith(input),
                       version |-> IF rows.version = 0 THEN fixed("target") ELSE rows.version]
           /\ UNCHANGED ingestion

NoInput == [r \in Role |-> {}]

\* Reading a role needs its snapshot, and an API source that is ready.
Unreadable(r) ==
  \/ ~sources[r].snapshot
  \/ sources[r].kind = "api" /\ sources[r].state # "ready"

Begun(w, kind) == ingesting[w].step = "begun" /\ ingesting[w].act.kind = kind
Roles(act) == {r \in Role : act.role \in {r, "pair"}}
KindsRead(w) == {sources[r].kind : r \in Roles(ingesting[w].act)}
Readable(w) == \A r \in Roles(ingesting[w].act) : ~Unreadable(r)

\* Whatever handles the action, it cannot do without the snapshots.
CannotRead(w) ==
  /\ ingesting[w].step = "begun"
  /\ ingesting[w].act.kind \in {"inspect", "map", "normalize"} /\ ~Readable(w)
  /\ Fail(w)
  /\ UNCHANGED <<sources, rows, disturbed>>

\* What the fields of a source are found to be.
Seen(r) ==
  CASE sources[r].form \in {"recognized", "empty"} -> "recognized"
    [] sources[r].form = "broken" -> "problem"
    [] sources[r].form = "mappable" ->
         IF sources[r].kind = "database" THEN "mappable" ELSE "unmapped"

SaveInspection(w, verdict, recorded) ==
  LET r == ingesting[w].act.role
  IN  /\ Store(w, One("inspection", r, CheckpointRow(verdict, VersionOf(w, r), VersionOf(w, r), 0)),
               NoInput, recorded)
      /\ UNCHANGED <<sources, disturbed>>

InspectDatabase(w) ==
  /\ Begun(w, "inspect") /\ Readable(w)
  /\ KindsRead(w) = {"database"}
  /\ SaveInspection(w, Seen(ingesting[w].act.role), TRUE)

InspectCsv(w) ==
  /\ Begun(w, "inspect") /\ Readable(w)
  /\ KindsRead(w) \subseteq Tabular /\ ingestion.contract > 1
  /\ SaveInspection(w, Seen(ingesting[w].act.role), TRUE)

InspectApi(w) ==
  /\ Begun(w, "inspect") /\ Readable(w)
  /\ KindsRead(w) = {"api"}
  /\ SaveInspection(w, "recognized", TRUE)

\* A contract of v1 asks a model once, which may say anything.
InspectByModel(w) ==
  LET known == Verdict("inspection", ingesting[w].act.role)
  IN  /\ Begun(w, "inspect") /\ Readable(w)
      /\ ingestion.contract = 1
      /\ \E v \in IF known # "missing" THEN {known} ELSE {"recognized", "problem"} :
           SaveInspection(w, v, FALSE)

\* A mapping of one role (v3) or of both (v2), with the versions it was read
\* at.  Fields that are not the fixed ones are mapped by a model, or by what it
\* answered before.  What the server finds by itself is recorded with its
\* output, of the model's answers only those for a CSV of v3 are.
Modelled(w) == \E r \in Roles(ingesting[w].act) : sources[r].form = "mappable"

Mappings(w) ==
  LET known == {Verdict("mapping", r) : r \in Roles(ingesting[w].act)}
  IN  IF ~Modelled(w) THEN {"resolved"}
      ELSE IF known # {"missing"} THEN known ELSE {"resolved", "unresolved"}

SaveMapping(w, verdict, recorded) ==
  /\ Store(w, [k \in {<<"mapping", r>> : r \in Roles(ingesting[w].act)} |->
                 CheckpointRow(verdict, 0, VersionOf(w, k[2]), 0)],
           NoInput, recorded)
  /\ UNCHANGED <<sources, disturbed>>

MapDatabasePair(w) ==
  /\ Begun(w, "map") /\ Readable(w)
  /\ ingestion.contract = 2 /\ KindsRead(w) = {"database"}
  /\ \E v \in Mappings(w) : SaveMapping(w, v, ~Modelled(w))

MapCsvPair(w) ==
  /\ Begun(w, "map") /\ Readable(w)
  /\ ingestion.contract = 2 /\ KindsRead(w) \subseteq Tabular
  /\ \E v \in Mappings(w) : SaveMapping(w, v, ~Modelled(w))

MapDatabase(w) ==
  /\ Begun(w, "map") /\ Readable(w)
  /\ ingestion.contract = 3 /\ KindsRead(w) = {"database"}
  /\ \E v \in Mappings(w) : SaveMapping(w, v, ~Modelled(w))

MapCsv(w) ==
  /\ Begun(w, "map") /\ Readable(w)
  /\ ingestion.contract = 3 /\ KindsRead(w) \subseteq Tabular
  /\ \E v \in Mappings(w) : SaveMapping(w, v, TRUE)

MapApi(w) ==
  /\ Begun(w, "map") /\ Readable(w)
  /\ KindsRead(w) = {"api"}
  /\ SaveMapping(w, "resolved", TRUE)

\* Extraction from a database, page after page; the version has to be the one
\* the mapping was frozen at, before and after it.
MappedVersion(r) == rows.checkpoints[<<"mapping", r>>].version

ReadPage(w) ==
  LET r == ingesting[w].act.role
      next == Cardinality(ingesting[w].read) + 1
  IN  /\ Begun(w, "normalize") /\ sources[r].kind = "database"
      /\ ingesting[w].before[r] = MappedVersion(r)
      /\ sources[r].form # "empty" /\ next \in Page
      /\ ingesting' = [ingesting EXCEPT ![w].read =
                         ingesting[w].read \cup {<<next, sources[r].version>>}]
      /\ UNCHANGED <<sources, ingestion, rows, disturbed>>

\* The rows of a source that are in it now, or in the file it was fetched to.
Content(r) ==
  LET version == IF sources[r].kind \in Fetched THEN sources[r].file ELSE sources[r].version
  IN  IF sources[r].form = "empty" THEN {} ELSE {<<p, version>> : p \in Page}

\* All pages were read.
Extracted(w, r) ==
  \/ sources[r].form = "empty"
  \/ {x[1] : x \in ingesting[w].read} = Page

\* Mutant of VersionHeld: the version is not read again.
VersionWasMapped(w, r) == ingesting[w].before[r] = MappedVersion(r)

VersionHeld(w, r) ==
  ingesting[w].before[r] = MappedVersion(r) /\ sources[r].version = ingesting[w].before[r]

NormalizeDatabase(w) ==
  LET r == ingesting[w].act.role
      read == ingesting[w].read
      version == ingesting[w].before[r]
  IN  /\ Begun(w, "normalize") /\ sources[r].kind = "database"
      /\ version = MappedVersion(r) => Extracted(w, r)
      /\ IF VersionHeld(w, r)
         THEN Store(w, One("normalization", r,
                           CheckpointRow("stored", version, version, Cardinality(read))),
                    [NoInput EXCEPT ![r] = read], TRUE)
         ELSE GiveBack(w) /\ UNCHANGED rows
      /\ UNCHANGED <<sources, disturbed>>

\* A CSV file or the artifact of an API, read as a whole.
NormalizeWhole(w) ==
  LET r == ingesting[w].act.role
  IN  /\ Store(w, One("normalization", r,
                      CheckpointRow("stored", 0, 0, Cardinality(Content(r)))),
               [NoInput EXCEPT ![r] = Content(r)], TRUE)
      /\ UNCHANGED <<sources, disturbed>>

NormalizeCsv(w) ==
  /\ Begun(w, "normalize") /\ Readable(w)
  /\ KindsRead(w) \subseteq Tabular /\ ingestion.contract > 1
  /\ NormalizeWhole(w)

NormalizeApi(w) ==
  /\ Begun(w, "normalize") /\ Readable(w)
  /\ KindsRead(w) = {"api"}
  /\ NormalizeWhole(w)

\* v1: the model normalises a page; what it answered once is used again.  An
\* empty source has no first page.
NormalizePage(w) ==
  LET act == ingesting[w].act
      answered == {x \in rows.inputs[act.role] : x[1] = act.page}
      page == {x \in Content(act.role) : x[1] = act.page}
  IN  /\ Begun(w, "normalize") /\ Readable(w)
      /\ ingestion.contract = 1
      /\ IF Content(act.role) = {}
         THEN Fail(w) /\ UNCHANGED rows
         ELSE Store(w, <<>>, [NoInput EXCEPT ![act.role] =
                                IF answered # {} THEN answered ELSE page], TRUE)
      /\ UNCHANGED <<sources, disturbed>>

\* The actions that only record that the server checked them.
Guard(w) ==
  /\ ingesting[w].step = "begun"
  /\ ingesting[w].act.kind \in {"normalize_ready_sources", "validate_normalized_input",
                                "build_identity_index", "report_abnormal_input"}
  /\ Store(w, <<>>, NoInput, TRUE)
  /\ UNCHANGED <<sources, disturbed>>

\* The transition, fenced by the claim and the cursor.
AdvanceRun(w) ==
  LET act == ingesting[w].act
  IN  /\ ingesting[w].step = "done"
      /\ ingestion' =
           IF OwnsRun(w) /\ ingesting[w].cursor = ingestion.cursor
           THEN [ingestion EXCEPT !.done = ingestion.done \cup {act},
                                  !.cursor = ingestion.cursor + 1, !.frozen = NoAct,
                                  !.node = NodeAfter(act), !.owner = {}]
           ELSE ingestion
      /\ ingesting' = [ingesting EXCEPT ![w] = Unoccupied]
      /\ UNCHANGED <<sources, rows, disturbed>>

-----------------------------------------------------------------------------
(* The outside.                                                            *)

\* An owner edits a table, a live file, or what a URL or an API serves.
EditSource(r) ==
  /\ sources[r].kind \notin Managed \cup {"none"}
  /\ ingestion.ended = "active" /\ MayDisturb
  /\ sources' = [sources EXCEPT ![r].version = sources[r].version + 1]
  /\ disturbed' = [disturbed EXCEPT !.edits = @ + 1]
  /\ UNCHANGED <<ingestion, rows, ingesting>>

\* The owner dies, or a connector or the database is out of reach.  A worker
\* that lost the claim may as well never take its next step.
CrashIngester(w) ==
  /\ ingesting[w] # Unoccupied /\ OwnsRun(w) /\ MayDisturb
  /\ ingesting' = [ingesting EXCEPT ![w] = Unoccupied]
  /\ disturbed' = [disturbed EXCEPT !.crashes = @ + 1]
  /\ UNCHANGED <<sources, ingestion, rows>>

IngestionNext ==
  \/ \E a \in Tabular \cup {"api", "database"}, t \in {"csv", "local", "database"},
        v2, v3 \in BOOLEAN : CreateTask(a, t, v2, v3)
  \/ \E w \in Ingester :
       \/ BeginAct(w) \/ AdvanceRun(w) \/ CrashIngester(w) \/ BlockRun(w) \/ Collide(w)
       \/ Capture(w) \/ Publish(w) \/ CaptureFails(w) \/ MarkFailed(w)
       \/ CannotRead(w) \/ Guard(w) \/ ReadPage(w)
       \/ InspectDatabase(w) \/ InspectCsv(w) \/ InspectApi(w) \/ InspectByModel(w)
       \/ MapDatabasePair(w) \/ MapCsvPair(w) \/ MapDatabase(w) \/ MapCsv(w) \/ MapApi(w)
       \/ NormalizeDatabase(w) \/ NormalizeCsv(w) \/ NormalizeApi(w) \/ NormalizePage(w)
  \/ \E r \in Role : EditSource(r)

IngestionSpec == IngestionInit /\ [][IngestionNext]_ingestionVars

-----------------------------------------------------------------------------
(* Properties.                                                             *)

IngestionTypeOK ==
  /\ \A r \in Role : /\ sources[r].state \in {"registered", "ready", "failed"}
                      /\ sources[r].version \in 1..(MaxDisturbances + 1)
                      /\ rows.inputs[r] \subseteq Page \X Nat
  /\ ingestion.contract \in 0..3 /\ ingestion.owner \subseteq Ingester
  /\ ingestion.ended \in {"active", "failed", "blocked"}
  /\ \A w \in Ingester :
       ingesting[w].step \in {"idle", "begun", "captured", "failing", "done"}
  /\ rows.version \in Nat

\* The inputs of a database are the rows of one of its versions, and that is
\* the version its mapping and its normalization were frozen at, and, of a
\* target, the first target version (_normalize_database_source_v2 and _v3).
\* What a fetched source delivers is one content, too.
IngestedFromOneVersion ==
  \A r \in Role :
    /\ sources[r].kind = "database" /\ Verdict("normalization", r) = "stored" =>
         LET v == rows.checkpoints[<<"normalization", r>>].version
         IN  /\ \A x \in rows.inputs[r] : x[2] = v
             /\ MappedVersion(r) = v
             /\ r = "target" => rows.version = v
    /\ sources[r].kind \in Fetched =>
         \A x, y \in rows.inputs[r] : x[2] = y[2]

\* The identity index is built from sources that were read to their end: both
\* normalised, every row of them there, every mapping resolved, and under v3
\* an authority that has rows (_validation_action).
BuiltFromCompleteInputs ==
  ingestion.node = "build_identity_index" =>
    /\ \A r \in Role : sources[r].form = "empty" \/ {x[1] : x \in rows.inputs[r]} = Page
    /\ ingestion.contract > 1 =>
         \A r \in Role : /\ Verdict("normalization", r) = "stored"
                          /\ Verdict("mapping", r) = "resolved"
    /\ ingestion.contract = 3 => sources.authoritative.form # "empty"

\* Whatever crashes, a run fails only when the outside gives a reason: a live
\* file or a table was edited, a source could not be fetched, was not bound or
\* has no rows, or two workers were at the run at once (save_checkpoint,
\* persist_inputs, record_invocation, the materialisers' ready sources).
CrashesFailNothing ==
  ingestion.ended = "failed" =>
    \/ disturbed.edits > 0 \/ disturbed.faults > 0 \/ disturbed.takeovers > 0
    \/ \E r \in Role : \/ ~sources[r].snapshot
                        \/ (ingestion.contract = 1 /\ sources[r].form = "empty")

\* A repeated action never changes what an earlier one stored: checkpoints,
\* inputs, the first target version, the content of a fetched source.
StoredIsKept ==
  [][/\ \A k \in DOMAIN rows.checkpoints :
          k \in DOMAIN rows'.checkpoints /\ rows'.checkpoints[k] = rows.checkpoints[k]
     /\ \A r \in Role : rows.inputs[r] \subseteq rows'.inputs[r]
     /\ rows.version # 0 => rows'.version = rows.version
     /\ sources.authoritative.file # 0 =>
          sources'.authoritative.file \in {sources.authoritative.file, 0}]_ingestionVars
=============================================================================
