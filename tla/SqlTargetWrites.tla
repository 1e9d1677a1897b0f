--------------------------- MODULE SqlTargetWrites ---------------------------
(***************************************************************************)
(* The writes of one Agent task to an external SQL table, and the rollback *)
(* of those writes.                                                        *)
(*                                                                         *)
(* A governance action executes all its operations inside ONE session      *)
(* transaction (production_executor._execute_governance): every operation  *)
(* commits its change to the external table at once and its ledger row     *)
(* only with the whole action.  A rollback commits operation by operation. *)
(* The table belongs to somebody else, who edits it at any time; its       *)
(* version is the largest version column of the rows that are there.       *)
(*                                                                         *)
(* Operations are numbered in plan order and own one row each, under a key *)
(* the program chooses.  Where the database generates the key, a replayed  *)
(* insert makes a second row; such tables are not modelled.                *)
(***************************************************************************)
EXTENDS Integers, FiniteSetsExt

CONSTANTS PlanLength,   \* number of operations of the approved plan
          KindOf,       \* [Operation -> {"create", "update", "delete"}]
          Needs,        \* [Operation -> SUBSET Operation]: dependencies
          MaxEdits,     \* bound: edits made outside the program
          MaxCrashes,   \* bound: process crashes
          MaxCalls      \* bound: executions of the governance action

Operation == 1..PlanLength
Kinds == {"create", "update", "delete"}

ASSUME SqlAssumption ==
  /\ PlanLength \in Nat \ {0}
  /\ KindOf \in [Operation -> Kinds]
  /\ Needs \in [Operation -> SUBSET Operation]
  /\ \A o \in Operation, n \in Operation : n \in Needs[o] => n < o
  /\ {MaxEdits, MaxCrashes, MaxCalls} \subseteq Nat

VARIABLES row,          \* [Operation -> [value, version]]: the operation's row
            ledger,       \* committed: operation status and current version hash
          pending,      \* the same inside the transaction under way
          sqlCall,      \* the call under way: its operation, step and reads
          sqlCache,     \* _idempotent_results of the connector in this process
          compensated,  \* [planned, checkpoint] of the rollback task
          sqlHistory    \* what happened: edits, crashes, calls, writes, failures

sqlVars == <<row, ledger, pending, sqlCall, sqlCache, compensated, sqlHistory>>

Absent == [value |-> "absent", version |-> 0]
RowValues == {"absent", "before", "after", "other"}
OpStatuses == {"pending", "succeeded", "blocked", "verification_failed"}
Terminal == OpStatuses \ {"pending"}
Modes == {"governance", "rollback"}
Checkpoints == {"none", "succeeded", "verification_failed", "already_restored",
                "conflict_skipped", "blocked"}
Idle == [mode |-> "idle", at |-> 0, step |-> "start", seen |-> 0, out |-> 0]

-----------------------------------------------------------------------------
(* The external table.                                                     *)

TargetVersion == Max({row[o].version : o \in Operation})

\* What an operation finds and leaves, and its inverse.
From(o, mode) == IF mode = "governance"
                   THEN IF KindOf[o] = "create" THEN "absent" ELSE "before"
                   ELSE IF KindOf[o] = "delete" THEN "absent" ELSE "after"

To(o, mode) == IF mode = "governance"
                 THEN IF KindOf[o] = "delete" THEN "absent" ELSE "after"
                 ELSE IF KindOf[o] = "create" THEN "absent" ELSE "before"

\* Mutant of Mutable: the version alone decides.
MutableAtVersion(o, mode, expected) == TargetVersion = expected

\* Mutant of Mutable: what the program wrote may be written again.
MutableAgain(o, mode, expected) ==
  TargetVersion = expected /\ row[o].value # "other"

\* SqlAlchemyConnectorStore.mutate of one operation, in one transaction of
\* the external database: the version must be the expected one, and the WHERE
\* clause names the key and every before-value.
Mutable(o, mode, expected) ==
  TargetVersion = expected /\ row[o].value = From(o, mode)

Mutate(o, mode) ==
  row' = [row EXCEPT ![o] =
    IF To(o, mode) = "absent" THEN Absent
    ELSE [value |-> To(o, mode), version |-> TargetVersion + 1]]

\* connector.verify and, for a delete, connector.read_record.
Verified(o, mode) == row[o].value = To(o, mode)

-----------------------------------------------------------------------------
(* Steps of a call.                                                        *)

Working(mode, step) == sqlCall.mode = mode /\ sqlCall.step = step /\ sqlCall.at \in Operation

\* An exception leaves the transaction: nothing of it is committed.
Raise ==
  /\ sqlCall' = Idle
  /\ pending' = ledger
  /\ sqlHistory' = [sqlHistory EXCEPT !.failed = TRUE]
  /\ UNCHANGED <<row, ledger, sqlCache, compensated>>

\* connector.version(): the first thing an operation reads from the target.
ReadVersion ==
  /\ sqlCall.mode # "idle" /\ sqlCall.step = "start" /\ sqlCall.at \in Operation
  /\ sqlCall' = [sqlCall EXCEPT !.step = "read", !.seen = TargetVersion]
  /\ UNCHANGED <<row, ledger, pending, sqlCache, compensated, sqlHistory>>

\* connector.apply: replayed from the connector's memory, refused, or made.
StepKey(o, mode) == <<o, mode>>

Apply(o, mode) ==
  \/ /\ sqlCache[StepKey(o, mode)] # 0
     /\ sqlCall' = [sqlCall EXCEPT !.step = "written", !.out = sqlCache[StepKey(o, mode)] - 1]
     /\ UNCHANGED <<row, ledger, pending, sqlCache, compensated, sqlHistory>>
  \/ /\ sqlCache[StepKey(o, mode)] = 0 /\ ~Mutable(o, mode, sqlCall.seen)
     /\ Raise
  \/ /\ sqlCache[StepKey(o, mode)] = 0 /\ Mutable(o, mode, sqlCall.seen)
     /\ Mutate(o, mode)
     /\ sqlCall' = [sqlCall EXCEPT !.step = "written", !.out = TargetVersion']
     /\ sqlCache' = [sqlCache EXCEPT ![StepKey(o, mode)] = TargetVersion' + 1]
     /\ sqlHistory' = [sqlHistory EXCEPT !.writes[StepKey(o, mode)] = @ + 1]
     /\ UNCHANGED <<ledger, pending, compensated>>

-----------------------------------------------------------------------------
(* Governance: all operations of the action, one transaction.              *)

Begin ==
  /\ sqlCall.mode = "idle" /\ compensated.planned = <<>>
  /\ \E o \in Operation : ledger.status[o] = "pending"
  /\ sqlHistory.calls < MaxCalls
  /\ sqlCall' = [Idle EXCEPT !.mode = "governance", !.at = 1]
  /\ pending' = ledger
  /\ sqlHistory' = [sqlHistory EXCEPT !.calls = @ + 1]
  /\ UNCHANGED <<row, ledger, sqlCache, compensated>>

\* record_operation_outcome and, when there is one, create_target_version.
Outcome(o, status, version) ==
  /\ pending' = [pending EXCEPT !.status[o] = status, !.version = version]
  /\ sqlCall' = [sqlCall EXCEPT !.at = o + 1, !.step = "start"]
  /\ UNCHANGED <<row, ledger, sqlCache, compensated, sqlHistory>>

DependenciesSucceeded(o) == \A n \in Needs[o] : pending.status[n] = "succeeded"

\* The early returns: a terminal row, a dependency that did not succeed.
SkipOrBlock ==
  LET o == sqlCall.at
  IN  /\ Working("governance", "start")
      /\ \/ /\ pending.status[o] \in Terminal
            /\ sqlCall' = [sqlCall EXCEPT !.at = o + 1]
            /\ UNCHANGED <<row, ledger, pending, sqlCache, compensated, sqlHistory>>
         \/ /\ pending.status[o] = "pending" /\ ~DependenciesSucceeded(o)
            /\ Outcome(o, "blocked", pending.version)

Observe ==
  /\ Working("governance", "start")
  /\ pending.status[sqlCall.at] = "pending" /\ DependenciesSucceeded(sqlCall.at)
  /\ ReadVersion

\* Mutant of Recover: any other version of the target is an earlier success.
RecoverAny ==
  LET o == sqlCall.at
  IN  /\ Working("governance", "read") /\ sqlCall.seen # pending.version
      /\ IF KindOf[o] # "create"
           THEN Outcome(o, "succeeded", sqlCall.seen)
           ELSE Raise

\* The target is not at the recorded version: an earlier attempt of this
\* operation is looked for.  A create would need the locator that was only
\* flushed by the transaction that wrote it, and is therefore never there.
Recover ==
  LET o == sqlCall.at
  IN  /\ Working("governance", "read") /\ sqlCall.seen # pending.version
      /\ IF KindOf[o] # "create" /\ Verified(o, "governance")
           THEN Outcome(o, "succeeded", sqlCall.seen)
           ELSE Raise

PlanIsStale ==
  /\ \A o \in Operation : pending.status[o] # "succeeded"
  /\ pending.version # ledger.planned

Write ==
  LET o == sqlCall.at
  IN  /\ Working("governance", "read") /\ sqlCall.seen = pending.version
      /\ IF PlanIsStale THEN Raise ELSE Apply(o, "governance")

Record ==
  /\ Working("governance", "written")
  /\ Outcome(sqlCall.at,
             IF Verified(sqlCall.at, "governance") THEN "succeeded" ELSE "verification_failed",
             sqlCall.out)

Commit ==
  /\ sqlCall.mode = "governance" /\ sqlCall.at = PlanLength + 1
  /\ ledger' = pending
  /\ sqlCall' = Idle
  /\ UNCHANGED <<row, pending, sqlCache, compensated, sqlHistory>>

-----------------------------------------------------------------------------
(* Rollback of a task all of whose operations succeeded                    *)
(* (is_fully_successful_sync).                                             *)

Mutations == {o \in Operation : ledger.status[o] = "succeeded"}
Settled == {"succeeded", "already_restored"}

Disposition(o, value) ==
  IF value = To(o, "rollback") THEN "already_restored"
  ELSE IF value = From(o, "rollback") THEN "safe_to_restore" ELSE "conflict"

\* SqlRollbackExecutionHandler.plan: every comparison is frozen.
PlanRollback ==
  /\ sqlCall.mode = "idle" /\ compensated.planned = <<>>
  /\ Mutations = Operation
  /\ compensated' = [compensated EXCEPT !.planned = [o \in Mutations |-> row[o].value]]
  /\ UNCHANGED <<row, ledger, pending, sqlCall, sqlCache, sqlHistory>>

\* The inverse of an operation waits for the inverses of its dependants.
Dependants(o) == {p \in Mutations : o \in Needs[p]}

\* The next operation of the reversed plan without a checkpoint.
BeginRestore ==
  LET open == {o \in Mutations : compensated.checkpoint[o] = "none"}
  IN  /\ sqlCall.mode = "idle" /\ compensated.planned # <<>> /\ open # {}
      /\ ~compensated.stopped
      /\ sqlCall' = [Idle EXCEPT !.mode = "rollback", !.at = Max(open)]
      /\ UNCHANGED <<row, ledger, pending, sqlCache, compensated, sqlHistory>>

\* save_checkpoint and the commit of the operation's transaction.
Checkpoint(o, status, version) ==
  /\ compensated' = [compensated EXCEPT !.checkpoint[o] = status]
  /\ ledger' = [ledger EXCEPT !.version = version]
  /\ pending' = ledger'
  /\ sqlCall' = Idle
  /\ UNCHANGED <<row, sqlCache, sqlHistory>>

RollbackBlocked(o) == \E p \in Dependants(o) : compensated.checkpoint[p] \notin Settled

ObserveRestore ==
  /\ Working("rollback", "start")
  /\ IF RollbackBlocked(sqlCall.at)
       THEN Checkpoint(sqlCall.at, "blocked", ledger.version)
       ELSE ReadVersion

\* read_record and the second comparison.
Compare ==
  LET o == sqlCall.at
      current == Disposition(o, row[o].value)
  IN  /\ Working("rollback", "read")
      /\ CASE current = "already_restored" -> Checkpoint(o, "already_restored", sqlCall.seen)
           [] current = "safe_to_restore" /\ compensated.planned[o] = row[o].value ->
                /\ sqlCall' = [sqlCall EXCEPT !.step = "compared"]
                /\ UNCHANGED <<row, ledger, pending, sqlCache, compensated, sqlHistory>>
           [] OTHER -> Checkpoint(o, "conflict_skipped", ledger.version)

\* A conflict inside apply stops the automatic rollback.
Restore ==
  LET o == sqlCall.at
  IN  /\ Working("rollback", "compared")
      /\ IF sqlCache[StepKey(o, "rollback")] = 0 /\ ~Mutable(o, "rollback", sqlCall.seen)
           THEN /\ compensated' = [compensated EXCEPT !.stopped = TRUE]
                /\ sqlCall' = Idle
                /\ UNCHANGED <<row, ledger, pending, sqlCache, sqlHistory>>
           ELSE Apply(o, "rollback")

RecordRestore ==
  /\ Working("rollback", "written")
  /\ Checkpoint(sqlCall.at,
                IF Verified(sqlCall.at, "rollback") THEN "succeeded" ELSE "verification_failed",
                sqlCall.out)

-----------------------------------------------------------------------------
(* The environment.                                                        *)

\* The table's owner changes or deletes a row.
Edit ==
  /\ sqlHistory.edits < MaxEdits
  /\ \E o \in Operation,
        edited \in {Absent, [value |-> "other", version |-> TargetVersion + 1]} :
       /\ row[o] # Absent
       /\ row' = [row EXCEPT ![o] = edited]
       /\ sqlHistory' = [sqlHistory EXCEPT !.edits = @ + 1, !.touched = @ \cup {o}]
  /\ UNCHANGED <<ledger, pending, sqlCall, sqlCache, compensated>>

\* The process dies: its transaction and the connector's memory are gone.
CrashSql ==
  /\ sqlHistory.crashes < MaxCrashes
  /\ sqlCall' = Idle
  /\ pending' = ledger
  /\ sqlCache' = [k \in DOMAIN sqlCache |-> 0]
  /\ sqlHistory' = [sqlHistory EXCEPT !.crashes = @ + 1]
  /\ UNCHANGED <<row, ledger, compensated>>

-----------------------------------------------------------------------------
SqlInit ==
  /\ row \in [Operation -> {Absent} \cup [value : {"before"}, version : 1..2]]
  /\ \A o \in Operation : row[o] = Absent <=> KindOf[o] = "create"
  /\ ledger = [status |-> [o \in Operation |-> "pending"],
               version |-> TargetVersion, planned |-> TargetVersion]
  /\ pending = ledger
  /\ sqlCall = Idle
  /\ sqlCache = [k \in Operation \X Modes |-> 0]
  /\ compensated = [planned |-> <<>>, checkpoint |-> [o \in Operation |-> "none"],
                    stopped |-> FALSE]
  /\ sqlHistory = [edits |-> 0, crashes |-> 0, calls |-> 0, touched |-> {},
                   writes |-> [k \in Operation \X Modes |-> 0],
                   failed |-> FALSE]

SqlNext ==
  \/ Begin \/ SkipOrBlock \/ Observe \/ Recover \/ Write \/ Record \/ Commit
  \/ PlanRollback \/ BeginRestore \/ ObserveRestore \/ Compare \/ Restore \/ RecordRestore
  \/ Edit \/ CrashSql

SqlSpec == SqlInit /\ [][SqlNext]_sqlVars

-----------------------------------------------------------------------------
(* Properties.                                                             *)

SqlTypeOK ==
  /\ row \in [Operation -> [value : RowValues, version : Nat]]
  /\ {ledger, pending} \subseteq
       [status : [Operation -> OpStatuses], version : Nat, planned : Nat]
  /\ sqlCall \in [mode : {"idle", "governance", "rollback"}, at : 0..(PlanLength + 1),
                  step : {"start", "read", "compared", "written"}, seen : Nat, out : Nat]
  /\ sqlCache \in [Operation \X Modes -> Nat]
  /\ compensated \in [planned : {<<>>} \cup [Operation -> RowValues],
                      checkpoint : [Operation -> Checkpoints], stopped : BOOLEAN]
  /\ sqlHistory \in [edits : Nat, crashes : Nat, calls : Nat, touched : SUBSET Operation,
                     writes : [Operation \X Modes -> Nat], failed : BOOLEAN]

\* An outcome that was recorded as reached is what the target holds, as long
\* as the table's owner leaves the row alone: neither a recovery that adopts
\* an earlier attempt nor a rollback records more than is there.
RecordedOutcomesAreReal ==
  \A o \in Operation \ sqlHistory.touched :
    /\ /\ ledger.status[o] = "succeeded"
       /\ sqlHistory.writes[StepKey(o, "rollback")] = 0
       => Verified(o, "governance")
    /\ compensated.checkpoint[o] \in Settled => Verified(o, "rollback")

\* Whatever the replays after conflicts and crashes do, the change of an
\* operation, and its inverse, reach a row its owner leaves alone at most once.
NothingIsWrittenTwice ==
  \A o \in Operation \ sqlHistory.touched, mode \in Modes :
    sqlHistory.writes[StepKey(o, mode)] <= 1

\* A value the table's owner wrote is never overwritten or deleted, neither by
\* an approved operation nor by a rollback, at whatever point it was written.
TableEditsAreKept ==
  [][\A o \in Operation : row[o].value = "other" /\ row'[o] # row[o]
                            => sqlHistory'.edits # sqlHistory.edits]_sqlVars

\* However often the action is replayed, an operation is blocked, or fails its
\* verification, only if the owner touched its row or that of an operation
\* before it: no replay, crash or recovery makes the program stumble over its
\* own writes.
OnlyEditsBlock ==
  \A n \in Operation :
    ledger.status[n] \in {"blocked", "verification_failed"}
      => sqlHistory.touched \cap (1..n) # {}

\* An inverse is only written after the inverses of everything that depends
\* on its operation.
InversesRespectDependencies ==
  \A n \in Operation : sqlHistory.writes[StepKey(n, "rollback")] > 0 =>
    \A o \in Dependants(n) : compensated.checkpoint[o] \in Settled

\* All three: replays write nothing twice, and nothing out of order.
ReplaysWriteOnce ==
  NothingIsWrittenTwice /\ OnlyEditsBlock /\ InversesRespectDependencies

\* agent_runtime/errors.py:2: "The external target may have committed and must
\* be replayed safely."  Nobody but the program writes, and yet a replay fails.
ReplaysAreSafe == sqlHistory.failed => sqlHistory.edits > 0
=============================================================================
