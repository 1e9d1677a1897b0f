--------------------------- MODULE CsvTargetWrites ---------------------------
(***************************************************************************)
(* The writes of one Agent task to a local CSV file, their publication and *)
(* their rollback.                                                         *)
(*                                                                         *)
(* Operations never touch the live file.  Each one derives a new managed   *)
(* version from the current one; the last version replaces the live file   *)
(* in one os.replace, after the live file's hash was compared with the     *)
(* content the task started from.  A rollback first takes the live file as *)
(* its baseline when it is no longer the current version.  The live file   *)
(* belongs to somebody else, who edits it at any time.                     *)
(*                                                                         *)
(* A file is the function of its rows; every operation owns one row.  The  *)
(* governance action runs in one database transaction and touches nothing  *)
(* but fresh files, so it is one step here; each inverse operation is one. *)
(***************************************************************************)
EXTENDS Integers, Sequences, FiniteSetsExt

CONSTANTS CsvOperation,     \* operations of the approved plan, in plan order
          CsvKindOf,        \* [CsvOperation -> {"create", "update", "delete"}]
          CsvNeeds,         \* [CsvOperation -> SUBSET CsvOperation]
          MaxLiveEdits,     \* bound: edits of the live file by its owner
          MaxCsvCrashes,    \* bound: process crashes
          MaxPublications   \* bound: attempts to plan or publish

ASSUME CsvAssumption ==
  /\ CsvOperation \subseteq Nat \ {0} /\ CsvOperation # {} /\ IsFiniteSet(CsvOperation)
  /\ CsvKindOf \in [CsvOperation -> {"create", "update", "delete"}]
  /\ CsvNeeds \in [CsvOperation -> SUBSET CsvOperation]
  /\ \A o \in CsvOperation, n \in CsvOperation : n \in CsvNeeds[o] => n < o
  /\ {MaxLiveEdits, MaxCsvCrashes, MaxPublications} \subseteq Nat

VARIABLES live,         \* the content of the local target file
          managed,      \* the chain of target versions' contents; last is current
          csvStatus,    \* [CsvOperation -> status] of the governance ledger
          published,    \* [governance, rollback]: the publication checkpoints
          publisher,    \* the publication or rollback planning under way
          inverse,      \* the rollback task: baseline file and version, planned
                        \*   comparisons, checkpoints
          csvHistory    \* what happened: edits, crashes, attempts, races

csvVars == <<live, managed, csvStatus, published, publisher, inverse, csvHistory>>

CsvValues == {"absent", "before", "after", "other"}
File == [CsvOperation -> CsvValues]
Missing == <<>>
Resting == [mode |-> "none", step |-> "none"]
CsvModes == {"governance", "rollback"}
Published == {"published", "already_published", "no_changes"}
InverseStatuses == {"none", "succeeded", "already_restored", "conflict_skipped", "blocked", "failed"}

CurrentVersion(versions) == versions[Len(versions)]

-----------------------------------------------------------------------------
(* Operations.                                                             *)

Initial == [o \in CsvOperation |-> IF CsvKindOf[o] = "create" THEN "absent" ELSE "before"]
Executed(o) == IF CsvKindOf[o] = "delete" THEN "absent" ELSE "after"

\* CsvGovernanceHandlers.execute_operation for every operation of the plan: an
\* operation is blocked when a dependency did not succeed, and otherwise fails
\* (a duplicate row, a stale before-value) or succeeds.
Outcomes(failing) ==
  LET outcome[o \in CsvOperation] ==
        IF \E n \in CsvNeeds[o] : outcome[n] # "succeeded" THEN "blocked"
        ELSE IF o \in failing THEN "failed" ELSE "succeeded"
  IN  outcome

Succeeded == {o \in CsvOperation : csvStatus[o] = "succeeded"}

Execute ==
  /\ \A o \in CsvOperation : csvStatus[o] = "pending"
  /\ \E failing \in SUBSET CsvOperation :
       LET outcome == Outcomes(failing)
           done == {o \in CsvOperation : outcome[o] = "succeeded"}
       IN  /\ csvStatus' = outcome
           /\ managed' = IF done = {} THEN managed
                         ELSE Append(managed, [o \in CsvOperation |->
                                IF o \in done THEN Executed(o) ELSE CurrentVersion(managed)[o]])
  /\ UNCHANGED <<live, published, publisher, inverse, csvHistory>>

-----------------------------------------------------------------------------
(* Publication: publish_local_target and LocalCsvPublisher.publish.        *)

\* Mutant of HasOutput: a rollback has output only if every inverse changed a row.
HasWholeOutput(mode) ==
  IF mode = "governance" THEN Succeeded # {}
  ELSE \A o \in Succeeded : inverse.checkpoint[o] = "succeeded"

\* What the task last wrote; none when no operation of it succeeded.
HasOutput(mode) ==
  IF mode = "governance" THEN Succeeded # {}
  ELSE \E o \in CsvOperation : inverse.checkpoint[o] = "succeeded"

Output == CurrentVersion(managed)

\* _expected_destination_hash: the file the task was created from, or the
\* version the rollback compared with.
Expected(mode) ==
  IF mode = "governance" THEN managed[1] ELSE managed[inverse.baseline]

\* The report of a run is written after its operations are over.
ReadyToPublish(mode) ==
  IF mode = "governance" THEN \A o \in CsvOperation : csvStatus[o] # "pending"
  ELSE inverse.baseline # 0 /\ \A o \in Succeeded : inverse.checkpoint[o] # "none"

Attempt == csvHistory' = [csvHistory EXCEPT !.attempts = @ + 1, !.raced = FALSE]

Settle(mode, status) ==
  /\ published' = [published EXCEPT ![mode] = status]
  /\ publisher' = Resting

Refuse(mode) ==
  /\ publisher' = Resting
  /\ csvHistory' = [csvHistory EXCEPT !.attempts = @ + 1, !.refused = @ \cup {mode}]
  /\ UNCHANGED published

\* The two hash comparisons before anything is written.
CheckDestination ==
  \E mode \in CsvModes :
    /\ publisher = Resting /\ published[mode] = "none" /\ ReadyToPublish(mode)
    /\ csvHistory.attempts < MaxPublications
    /\ CASE ~HasOutput(mode) -> Settle(mode, "no_changes") /\ UNCHANGED csvHistory
         [] HasOutput(mode) /\ live = Output ->
              Settle(mode, "already_published") /\ UNCHANGED csvHistory
         [] HasOutput(mode) /\ live # Output /\ live # Expected(mode) -> Refuse(mode)
         [] OTHER -> /\ publisher' = [mode |-> mode, step |-> "checked"]
                     /\ Attempt /\ UNCHANGED published
    /\ UNCHANGED <<live, managed, csvStatus, inverse>>

\* os.replace in _atomic_copy.
Replace ==
  /\ publisher.step = "checked"
  /\ live' = Output
  /\ publisher' = [publisher EXCEPT !.step = "replaced"]
  /\ UNCHANGED <<managed, csvStatus, published, inverse, csvHistory>>

\* The read-back, the checkpoint and the commit.
ConfirmPublication ==
  /\ publisher.step = "replaced"
  /\ IF live = Output
       THEN Settle(publisher.mode, "published") /\ UNCHANGED csvHistory
       ELSE Refuse(publisher.mode)
  /\ UNCHANGED <<live, managed, csvStatus, inverse>>

-----------------------------------------------------------------------------
(* Rollback of a published task all of whose operations succeeded          *)
(* (is_fully_successful_sync).                                             *)

CsvDisposition(o, value) ==
  IF value = Initial[o] THEN "already_restored"
  ELSE IF value = Executed(o) THEN "safe_to_restore" ELSE "conflict"

\* copy_managed_initial_version writes one file per rollback task: a second
\* planning that finds it with another content is refused.
CopyBaseline ==
  /\ publisher = Resting /\ inverse.baseline = 0
  /\ Succeeded = CsvOperation /\ published["governance"] \in Published
  /\ csvHistory.attempts < MaxPublications
  /\ IF live # CurrentVersion(managed) /\ inverse.file \notin {Missing, live}
       THEN Refuse("plan") /\ UNCHANGED inverse
       ELSE /\ inverse' = [inverse EXCEPT !.file = IF live = CurrentVersion(managed) THEN @ ELSE live]
            /\ publisher' = [mode |-> "rollback",
                             step |-> IF live = CurrentVersion(managed) THEN "current" ELSE "copied"]
            /\ csvHistory' = [csvHistory EXCEPT !.attempts = @ + 1, !.current = TRUE]
            /\ UNCHANGED published
  /\ UNCHANGED <<live, managed, csvStatus>>

\* Mutant of PlanInverse: the baseline is one version too far.
PlanInverseAhead ==
  /\ publisher.step \in {"current", "copied"}
  /\ managed' = IF publisher.step = "current" THEN managed ELSE Append(managed, inverse.file)
  /\ inverse' = [inverse EXCEPT !.baseline = Len(managed') + 1,
                                !.planned = [o \in Succeeded |-> CurrentVersion(managed')[o]]]
  /\ publisher' = Resting
  /\ UNCHANGED <<live, csvStatus, published, csvHistory>>

\* The baseline's version, the frozen comparisons and the commit of plan.
PlanInverse ==
  /\ publisher.step \in {"current", "copied"}
  /\ managed' = IF publisher.step = "current" THEN managed ELSE Append(managed, inverse.file)
  /\ inverse' = [inverse EXCEPT !.baseline = Len(managed'),
                                !.planned = [o \in Succeeded |-> CurrentVersion(managed')[o]]]
  /\ publisher' = Resting
  /\ UNCHANGED <<live, csvStatus, published, csvHistory>>

CsvDependants(o) == {p \in Succeeded : o \in CsvNeeds[p]}

\* CsvRollbackHandlers.execute_operation: compared twice, against the plan and
\* against the version that is current now.
InverseOutcome(o) ==
  LET current == CsvDisposition(o, CurrentVersion(managed)[o])
  IN  IF \E p \in CsvDependants(o) :
           inverse.checkpoint[p] \notin {"succeeded", "already_restored"} THEN "blocked"
      ELSE IF current = "already_restored" THEN "already_restored"
      ELSE IF current = "safe_to_restore" /\ inverse.planned[o] = CurrentVersion(managed)[o]
        THEN "succeeded" ELSE "conflict_skipped"

RestoreOperation ==
  LET open == {p \in Succeeded : inverse.checkpoint[p] = "none"}
      o == Max(open)
      outcome == InverseOutcome(o)
  IN  /\ inverse.baseline # 0 /\ open # {}
      /\ \E status \in {outcome} \cup (IF outcome = "succeeded" THEN {"failed"} ELSE {}) :
           /\ inverse' = [inverse EXCEPT !.checkpoint[o] = status]
           /\ managed' = IF status = "succeeded"
                           THEN Append(managed, [CurrentVersion(managed) EXCEPT ![o] = Initial[o]])
                           ELSE managed
      /\ UNCHANGED <<live, csvStatus, published, publisher, csvHistory>>

-----------------------------------------------------------------------------
(* The environment.                                                        *)

EditLive ==
  /\ csvHistory.edits < MaxLiveEdits
  /\ \E o \in CsvOperation, value \in {"absent", "before", "other"} :
       live[o] # value /\ live' = [live EXCEPT ![o] = value]
  /\ csvHistory' = [csvHistory EXCEPT
       !.edits = @ + 1, !.current = FALSE,
       !.raced = @ \/ publisher.step = "checked"]
  /\ UNCHANGED <<managed, csvStatus, published, publisher, inverse>>

CrashCsv ==
  /\ csvHistory.crashes < MaxCsvCrashes /\ publisher # Resting
  /\ publisher' = Resting
  /\ csvHistory' = [csvHistory EXCEPT !.crashes = @ + 1]
  /\ UNCHANGED <<live, managed, csvStatus, published, inverse>>

-----------------------------------------------------------------------------
CsvInit ==
  /\ live = Initial
  /\ managed = <<Initial>>
  /\ csvStatus = [o \in CsvOperation |-> "pending"]
  /\ published = [mode \in CsvModes |-> "none"]
  /\ publisher = Resting
  /\ inverse = [file |-> Missing, baseline |-> 0, planned |-> <<>>,
                checkpoint |-> [o \in CsvOperation |-> "none"]]
  /\ csvHistory = [edits |-> 0, crashes |-> 0, attempts |-> 0, refused |-> {},
                   raced |-> FALSE, current |-> TRUE]

CsvNext ==
  \/ Execute \/ CheckDestination \/ Replace \/ ConfirmPublication
  \/ CopyBaseline \/ PlanInverse \/ RestoreOperation
  \/ EditLive \/ CrashCsv

CsvSpec == CsvInit /\ [][CsvNext]_csvVars

-----------------------------------------------------------------------------
(* Properties.                                                             *)

CsvTypeOK ==
  /\ live \in File /\ managed \in Seq(File)
  /\ csvStatus \in [CsvOperation -> {"pending", "succeeded", "failed", "blocked"}]
  /\ published \in [CsvModes -> Published \cup {"none"}]
  /\ publisher \in [mode : CsvModes \cup {"none"},
                    step : {"none", "checked", "replaced", "current", "copied"}]
  /\ inverse \in [file : File \cup {Missing}, baseline : 0..Len(managed),
                  planned : File \cup {Missing}, checkpoint : [CsvOperation -> InverseStatuses]]
  /\ csvHistory \in [edits : Nat, crashes : Nat, attempts : Nat,
                     refused : SUBSET (CsvModes \cup {"plan"}), raced : BOOLEAN,
                     current : BOOLEAN]

\* A value the owner wrote into the live file is never overwritten by the
\* publication of a task or of its rollback, unless it was written in the
\* moment between the last comparison of hashes and the replacement.
LiveEditsAreKept ==
  [][\A o \in CsvOperation :
       live[o] = "other" /\ live'[o] # "other"
         => csvHistory'.edits # csvHistory.edits \/ csvHistory.raced]_csvVars

\* A rollback whose inverse operations all went through and that is published
\* leaves every row the task changed as it was before the task, however the
\* file was edited in between.
PublishedRollbackRestores ==
  /\ published["rollback"] \in Published /\ csvHistory.current
  /\ \A o \in Succeeded : inverse.checkpoint[o] \in {"succeeded", "already_restored"}
  => \A o \in Succeeded : live[o] = Initial[o]

\* Only an edit of the live file makes a publication impossible: not a crash
\* between the replacement and its checkpoint, and not an edit made before the
\* rollback was planned, which is in its baseline.
RefusalsHaveACause ==
  /\ csvHistory.refused # {} => csvHistory.edits > 0
  /\ inverse.baseline # 0 /\ csvHistory.current => "rollback" \notin csvHistory.refused

\* Both, of the end of a publication.
CsvRollbacksAreExact == PublishedRollbackRestores /\ RefusalsHaveACause
=============================================================================
