----------------------------- MODULE MCTargets ------------------------------
(***************************************************************************)
(* Small instances for TLC of the components that prepare, make and undo   *)
(* changes of a target: the ingestion of the sources, identities and       *)
(* entity resolution, the analysis of a graph run in batches, execution    *)
(* batches and restores, the fixed-phase worker, SQL and CSV targets, the  *)
(* rollback cycle of a school, and the credentials of API connectors.      *)
(* They share no state, so that one run checks them all: `part` says which *)
(* one moves, the others keep their initial state.  The components about   *)
(* which theorems are proved are extended; execution batches and the       *)
(* identity index are instantiated.                                        *)
(***************************************************************************)
EXTENDS TargetWrites, RollbackCycles, ConnectorCredentials, FixedPhaseRun, EntityResolution,
        SourceIngestion, BatchAnalysis, TLC

CONSTANTS
    Executor, Key       \* requests that execute a batch, idempotency keys

VARIABLES part,
    proposal, upload, version, plans, batch, attempt, restore, execution,
    inputs, bound, facts, progress

batchVars      == <<proposal, upload, version, plans, batch, attempt, restore, execution>>
identityVars   == <<inputs, bound, facts, progress>>

-----------------------------------------------------------------------------
(* The instances.                                                          *)

\* Three entities, one with a parent, and two candidates for them.
Hierarchy == <<0, 0, 1>>

\* An update that refers to a created row, and two kinds of uploaded files.
Difference == {"created", "updated"}
Upload == {[form |-> "canonical", mismatched |-> {}, nullBefore |-> {}, nullAfter |-> {}],
           [form |-> "uploaded", mismatched |-> {}, nullBefore |-> {}, nullAfter |-> {"updated"}]}
Restored == INSTANCE Restores WITH
    KindOf <- [d \in Difference |-> IF d = "created" THEN "create" ELSE "update"],
    Needs <- [d \in Difference |-> IF d = "updated" THEN {"created"} ELSE {}],
    MaxProposals <- 2, MaxPreviews <- 3, MaxVersions <- 4

\* Three operations of one plan; the delete does not depend on the others,
\* the create needs the update.
OperationKinds == <<"update", "delete", "create">>
OperationNeeds == <<{}, {}, {1}>>

\* Three findings of one batch, a chain of dependencies; two of them are about
\* the same kind of risk.
OnlyBatch == [f \in Finding |-> "b1"]
RiskKeys == [f \in Finding |-> IF f = "f1" THEN "k1" ELSE "k2"]
DependencyChain ==
    [f \in Finding |-> CASE f = "f1" -> {} [] f = "f2" -> {"f1"} [] f = "f3" -> {"f2"}]

\* Two records on each side with two keys, all other fields equal.
Identity == INSTANCE IdentityIndex WITH
    Authorities <- 2, Targets <- 2, IdentityKey <- {"phone", "email"}, Differing <- {},
    MaxBuilds <- 2, MaxBindingChanges <- 1

\* Every kind of source, in one pair at least; an upload behaves as a live file
\* nobody edits.
EveryKindOfSource == {<<"local", "csv">>, <<"remote", "local">>,
                      <<"database", "database">>, <<"api", "database">>}

\* Two batches, of two items and of one that comes later; two items share a
\* template.
ItemKinds == <<"missing", "missing", "missing">>
ItemProfiles == <<"p", "none", "p">>

\* The workers are interchangeable.
Symmetry == Permutations(RunWorker)

\* The instances satisfy what their modules assume of the constants; TLC
\* evaluates the assumptions of the extended modules itself.
ASSUME InstancesAreLegal ==
    /\ Restored!ExecutionAssumption /\ Identity!IdentityAssumption

-----------------------------------------------------------------------------

Part == {"resolution", "restores", "sql", "csv", "cycles", "phases", "persistent",
         "temporary", "identity", "ingestion", "analysis"}

\* The versions of the rows matter to the SQL target only.
Init ==
    /\ part \in Part
    /\ ResolutionInit /\ Restored!BatchInit
    /\ SqlInit
    /\ part # "sql" => \A o \in Operation : row[o] # Absent => row[o].version = 1
    /\ CsvInit /\ CyclesInit /\ FixedPhaseInit
    /\ Identity!IdentityInit /\ IngestionInit
    /\ BatchAnalysisInit
    /\ CredentialInit

ResolutionStep ==
    /\ part = "resolution"
    /\ ResolutionNext
    /\ UNCHANGED <<part, batchVars, sqlVars, csvVars, cycleVars, phaseVars, credentialVars,
                   identityVars, ingestionVars, analysisVars>>

RestoreStep ==
    /\ part = "restores"
    /\ Restored!RestoreNext
    /\ UNCHANGED <<part, resolutionVars, sqlVars, csvVars, cycleVars, phaseVars, credentialVars,
                   identityVars, ingestionVars, analysisVars>>

SqlStep ==
    /\ part = "sql"
    /\ SqlNext
    /\ UNCHANGED <<part, resolutionVars, batchVars, csvVars, cycleVars, phaseVars, credentialVars,
                   identityVars, ingestionVars, analysisVars>>

CsvStep ==
    /\ part = "csv"
    /\ CsvNext
    /\ UNCHANGED <<part, resolutionVars, batchVars, sqlVars, cycleVars, phaseVars, credentialVars,
                   identityVars, ingestionVars, analysisVars>>

CycleStep ==
    /\ part = "cycles"
    /\ CyclesNext
    /\ UNCHANGED <<part, resolutionVars, batchVars, sqlVars, csvVars, phaseVars, credentialVars,
                   identityVars, ingestionVars, analysisVars>>

PhaseStep ==
    /\ part = "phases"
    /\ FixedPhaseNext
    /\ UNCHANGED <<part, resolutionVars, batchVars, sqlVars, csvVars, cycleVars, credentialVars,
                   identityVars, ingestionVars, analysisVars>>

\* The two kinds of connections share nothing but the school, so that each has
\* a part of its own.
NeverCreated(kind) == \A c \in kind : connections'[c] = connections[c]

\* One of the temporary kind is bound to one task at most: two connections meet
\* one task, or two tasks one connection.
ThreeRows ==
    Cardinality({c \in Connection : connections[c].state # "absent"})
      + Cardinality({x \in CredentialTask : authority[x].state # "absent"}) <= 3

PersistentStep ==
    /\ part = "persistent"
    /\ CredentialNext
    /\ NeverCreated(Ephemeral)
    /\ UNCHANGED <<part, resolutionVars, batchVars, sqlVars, csvVars, cycleVars, phaseVars,
                   identityVars, ingestionVars, analysisVars>>

IdentityStep ==
    /\ part = "identity"
    /\ Identity!IdentityNext
    /\ UNCHANGED <<part, resolutionVars, batchVars, sqlVars, csvVars, cycleVars, phaseVars,
                   credentialVars, ingestionVars, analysisVars>>

IngestionStep ==
    /\ part = "ingestion"
    /\ IngestionNext
    /\ UNCHANGED <<part, resolutionVars, batchVars, sqlVars, csvVars, cycleVars, phaseVars,
                   credentialVars, identityVars, analysisVars>>

TemporaryStep ==
    /\ part = "temporary"
    /\ CredentialNext
    /\ NeverCreated(Connection \ Ephemeral)
    /\ ThreeRows'
    /\ UNCHANGED <<part, resolutionVars, batchVars, sqlVars, csvVars, cycleVars, phaseVars,
                   identityVars, ingestionVars, analysisVars>>

AnalysisStep ==
    /\ part = "analysis"
    /\ BatchAnalysisNext
    /\ UNCHANGED <<part, resolutionVars, batchVars, sqlVars, csvVars, cycleVars, phaseVars,
                   credentialVars, identityVars, ingestionVars>>

Next ==
    \/ ResolutionStep \/ RestoreStep \/ SqlStep \/ CsvStep
    \/ CycleStep \/ PhaseStep \/ PersistentStep \/ TemporaryStep
    \/ IdentityStep \/ IngestionStep \/ AnalysisStep

-----------------------------------------------------------------------------
(* The properties under plain names; those of the extended modules have    *)
(* theirs.                                                                 *)

\* Every component's variables keep their types.
TypeOK ==
    /\ part = "resolution" => ResolutionTypeOK
    /\ part = "restores" => Restored!RestoreTypeOK
    /\ part = "sql" => SqlTypeOK
    /\ part = "csv" => CsvTypeOK
    /\ part = "cycles" => CyclesTypeOK
    /\ part = "phases" => FixedPhaseTypeOK
    /\ part \in {"persistent", "temporary"} => CredentialTypeOK
    /\ part = "identity" => Identity!IdentityTypeOK
    /\ part = "ingestion" => IngestionTypeOK
    /\ part = "analysis" => BatchAnalysisTypeOK

\* Each current version was derived from the one before it, whatever the
\* executors had read (create_target_version), and restoring along the semantic
\* path reaches the selected content (restores/planner.py _inverse and _replay).
RestoresKeepTheChain ==
    part = "restores" => Restored!VersionsFormAChain /\ Restored!RestorePlansReachTheirTarget

\* What is settled is not changed by a late or a repeated step: the answers of
\* a fixed-phase run, the identity facts of an earlier build, what ingestion
\* stored, the findings of a completed batch.
SettledFactsStay ==
    /\ AnswersAreFinal /\ Identity!RebuildsChangeNothing
    /\ StoredIsKept /\ FindingsAreFinal

=============================================================================
