------------------------ MODULE TargetWrites_proofs ------------------------
(***************************************************************************)
(* What the writes of a task, their replays and their rollback leave in a  *)
(* target, for every plan, every owner and every pattern of crashes.  The  *)
(* two inductive invariants say, for the table, that every write the       *)
(* ledger or a connector remembers was made once and is still there unless *)
(* the owner touched the row, and, for the file, what the live content is  *)
(* as long as nobody edited it.  Outcomes of CSV operations are defined by *)
(* recursion over the plan and stay unexpanded.  The last part is about    *)
(* the tasks that ask for rollbacks: which writes one may undo, and when.  *)
(***************************************************************************)
EXTENDS TargetWrites, RollbackCycles, FiniteSetTheorems, WellFoundedInduction, SequenceTheorems, TLAPS

-----------------------------------------------------------------------------
(* The largest element of a finite set *)

LEMMA MaxOfFinite ==
    ASSUME NEW S, S \subseteq Int, S # {}, IsFiniteSet(S)
    PROVE  Max(S) \in S /\ \A y \in S : y <= Max(S)
<1> DEFINE Above(x) == {y \in S : y > x}
           Aboves == {Above(x) : x \in S}
<1>1. Aboves # {} /\ Aboves \subseteq FiniteSubsetsOf(S)
  <2>1. \A x \in S : Above(x) \in SUBSET S /\ IsFiniteSet(Above(x))
        BY FS_Subset
  <2> QED BY <2>1 DEF FiniteSubsetsOf
<1>2. PICK x \in S : \A y \in S : ~(<<Above(y), Above(x)>> \in StrictSubsetOrdering(S))
  <2>1. IsWellFoundedOn(StrictSubsetOrdering(S), FiniteSubsetsOf(S))
        BY FS_StrictSubsetOrderingWellFounded
  <2>2. \E top \in Aboves : \A other \in Aboves : ~(<<other, top>> \in StrictSubsetOrdering(S))
        BY <1>1, <2>1, WFMin
  <2> QED BY <2>2
<1>3. \A y \in S : y <= x
  <2> SUFFICES ASSUME NEW y \in S, y > x PROVE FALSE
      OBVIOUS
  <2>0. \A z \in S : z \in Int
        OBVIOUS
  <2>1. y \in Above(x) /\ y \notin Above(y) /\ \A z \in Above(y) : z \in Above(x)
        BY <2>0
  <2>2. <<Above(y), Above(x)>> \in StrictSubsetOrdering(S)
    <3>1. Above(y) \subseteq Above(x) /\ Above(y) # Above(x)
          BY <2>1
    <3> QED BY <3>1 DEF StrictSubsetOrdering
  <2> QED BY <1>2, <2>2
<1> QED BY <1>3 DEF Max

-----------------------------------------------------------------------------
(* Types *)

Row == [value : RowValues, version : Nat]
Ledger == [status : [Operation -> OpStatuses], version : Nat, planned : Nat]

LEMMA OperationsAreFinite ==
    PlanLength \in Nat /\ IsFiniteSet(Operation) /\ 1 \in Operation
    /\ \A o \in Operation : o \in Nat \ {0} /\ o + 1 \in 0..(PlanLength + 1)
<1>1. PlanLength \in Nat \ {0}
      BY SqlAssumption
<1>2. IsFiniteSet(1..PlanLength)
      BY <1>1, FS_Interval
<1> QED BY <1>1, <1>2 DEF Operation

LEMMA VersionIsNat == row \in [Operation -> Row] => TargetVersion \in Nat
<1> SUFFICES ASSUME row \in [Operation -> Row] PROVE TargetVersion \in Nat
    OBVIOUS
<1> DEFINE versions == {row[o].version : o \in Operation}
           version == [o \in Operation |-> row[o].version]
<1>1. \A o \in Operation : row[o].version \in Nat
      BY DEF Row
<1>2. version \in Surjection(Operation, versions)
      BY DEF Surjection
<1>3. IsFiniteSet(versions)
      BY <1>2, OperationsAreFinite, FS_Surjection
<1>4. versions \subseteq Int /\ versions \subseteq Nat /\ versions # {}
      BY <1>1, OperationsAreFinite
<1>5. Max(versions) \in versions
      BY <1>3, <1>4, MaxOfFinite
<1> QED BY <1>4, <1>5 DEF TargetVersion

Call == [mode : {"idle", "governance", "rollback"}, at : 0..(PlanLength + 1),
         step : {"start", "read", "compared", "written"}, seen : Nat, out : Nat]
Compensation == [planned : {<<>>} \cup [Operation -> RowValues],
                 checkpoint : [Operation -> Checkpoints], stopped : BOOLEAN]
History == [edits : Nat, crashes : Nat, calls : Nat, touched : SUBSET Operation,
            writes : [Operation \X Modes -> Nat], failed : BOOLEAN]

SqlTypes ==
    /\ row \in [Operation -> Row] /\ ledger \in Ledger /\ pending \in Ledger
    /\ sqlCall \in Call /\ sqlCache \in [Operation \X Modes -> Nat]
    /\ compensated \in Compensation /\ sqlHistory \in History

LEMMA SqlTyped == SqlTypeOK <=> SqlTypes
BY DEF SqlTypeOK, SqlTypes, Row, Ledger, Call, Compensation, History

LEMMA IdleTyped == Idle \in Call /\ Absent \in Row
BY OperationsAreFinite DEF Idle, Call, Absent, Row, RowValues

LEMMA SqlInitTyped == SqlInit => SqlTypeOK
<1> SUFFICES ASSUME SqlInit PROVE SqlTypes
    BY SqlTyped
<1>1. row \in [Operation -> Row]
      BY DEF SqlInit, Row, RowValues, Absent
<1>2. ledger \in Ledger /\ pending \in Ledger
  <2>1. TargetVersion \in Nat
        BY <1>1, VersionIsNat
  <2>2. [o \in Operation |-> "pending"] \in [Operation -> OpStatuses]
        BY DEF OpStatuses
  <2> QED BY <2>1, <2>2 DEF SqlInit, Ledger
<1>3. compensated \in Compensation /\ sqlHistory \in History
      BY DEF SqlInit, Compensation, History, Checkpoints
<1> QED BY <1>1, <1>2, <1>3, IdleTyped DEF SqlInit, SqlTypes

\* The steps that touch neither the ledger nor the rollback's checkpoints.
LEMMA ReadsTyped ==
    ASSUME SqlTypes, ReadVersion PROVE SqlTypes'
<1>1. TargetVersion \in Nat
      BY VersionIsNat DEF SqlTypes
<1>2. sqlCall' \in Call
      BY <1>1 DEF SqlTypes, ReadVersion, Call
<1> QED BY <1>2 DEF SqlTypes, ReadVersion

LEMMA RaiseTyped ==
    ASSUME SqlTypes, Raise PROVE SqlTypes'
<1>1. sqlHistory' \in History
      BY DEF SqlTypes, Raise, History
<1> QED BY <1>1, IdleTyped DEF SqlTypes, Raise

LEMMA ApplyTyped ==
    ASSUME SqlTypes, NEW o \in Operation, NEW mode \in Modes, Apply(o, mode), ~Raise
    PROVE  SqlTypes'
<1> DEFINE key == StepKey(o, mode)
<1>0. key \in Operation \X Modes
      BY DEF StepKey
<1>1. CASE /\ sqlCache[key] # 0
           /\ sqlCall' = [sqlCall EXCEPT !.step = "written", !.out = sqlCache[key] - 1]
           /\ UNCHANGED <<row, ledger, pending, sqlCache, compensated, sqlHistory>>
  <2>1. sqlCache[key] \in Nat
        BY <1>0 DEF SqlTypes
  <2>2. sqlCache[key] - 1 \in Nat
        BY <1>1, <2>1
  <2>3. sqlCall' \in Call
        BY <1>1, <2>2 DEF SqlTypes, Call
  <2> QED BY <1>1, <2>3 DEF SqlTypes
<1>2. CASE /\ Mutate(o, mode)
           /\ sqlCall' = [sqlCall EXCEPT !.step = "written", !.out = TargetVersion']
           /\ sqlCache' = [sqlCache EXCEPT ![key] = TargetVersion' + 1]
           /\ sqlHistory' = [sqlHistory EXCEPT !.writes[key] = @ + 1]
           /\ UNCHANGED <<ledger, pending, compensated>>
  <2>1. TargetVersion \in Nat
        BY VersionIsNat DEF SqlTypes
  <2>2. \A value \in RowValues : [value |-> value, version |-> TargetVersion + 1] \in Row
        BY <2>1 DEF Row
  <2>3. To(o, mode) \in RowValues
        BY DEF To, RowValues
  <2>4. (IF To(o, mode) = "absent" THEN Absent
         ELSE [value |-> To(o, mode), version |-> TargetVersion + 1]) \in Row
        BY <2>2, <2>3, IdleTyped
  <2>5. row' \in [Operation -> Row]
        BY <1>2, <2>4 DEF Mutate, SqlTypes
  <2>6. TargetVersion' \in Nat
    <3>1. VersionIsNat'
          BY VersionIsNat, PTL
    <3> QED BY <2>5, <3>1 DEF VersionIsNat, Row
  <2>7. sqlCall' \in Call
        BY <1>2, <2>6 DEF SqlTypes, Call
  <2>8. sqlCache' \in [Operation \X Modes -> Nat]
        BY <1>0, <1>2, <2>6 DEF SqlTypes
  <2>9. sqlHistory' \in History
    <3>1. sqlHistory.writes \in [Operation \X Modes -> Nat]
          BY DEF SqlTypes, History
    <3>2. [sqlHistory.writes EXCEPT ![key] = @ + 1] \in [Operation \X Modes -> Nat]
          BY <1>0, <3>1
    <3> QED BY <1>2, <3>2 DEF SqlTypes, History
  <2> QED BY <1>2, <2>5, <2>7, <2>8, <2>9 DEF SqlTypes
<1> QED BY <1>1, <1>2 DEF Apply

LEMMA OutcomeTyped ==
    ASSUME SqlTypes, NEW o \in Operation, NEW status \in OpStatuses, NEW version \in Nat,
           Outcome(o, status, version)
    PROVE  SqlTypes'
<1>1. pending' \in Ledger
  <2>1. [pending.status EXCEPT ![o] = status] \in [Operation -> OpStatuses]
        BY DEF SqlTypes, Ledger
  <2> QED BY <2>1 DEF SqlTypes, Ledger, Outcome
<1>2. sqlCall' \in Call
      BY OperationsAreFinite DEF SqlTypes, Outcome, Call
<1> QED BY <1>1, <1>2 DEF SqlTypes, Outcome

LEMMA CheckpointTyped ==
    ASSUME SqlTypes, NEW o \in Operation, NEW status \in Checkpoints, NEW version \in Nat,
           Checkpoint(o, status, version)
    PROVE  SqlTypes'
<1>1. compensated' \in Compensation
  <2>1. [compensated.checkpoint EXCEPT ![o] = status] \in [Operation -> Checkpoints]
        BY DEF SqlTypes, Compensation
  <2> QED BY <2>1 DEF SqlTypes, Compensation, Checkpoint
<1>2. ledger' \in Ledger /\ pending' \in Ledger
      BY DEF SqlTypes, Ledger, Checkpoint
<1> QED BY <1>1, <1>2, IdleTyped DEF SqlTypes, Checkpoint

\* Restores go through the plan backwards: the next is the last one open.
LEMMA OpenIsNext ==
    ASSUME NEW open, open \subseteq Operation, open # {}
    PROVE  Max(open) \in open
<1>1. IsFiniteSet(open) /\ open \subseteq Int
      BY OperationsAreFinite, FS_Subset
<1> QED BY <1>1, MaxOfFinite

LEMMA GovernanceTyped ==
    ASSUME SqlTypes, Begin \/ SkipOrBlock \/ Observe \/ Recover \/ Write \/ Record \/ Commit
    PROVE  SqlTypes'
<1>0. sqlCall.seen \in Nat /\ sqlCall.out \in Nat /\ pending.version \in Nat
      BY DEF SqlTypes, Call, Ledger
<1>1. CASE Begin
  <2>1. sqlHistory' \in History
    <3>1. sqlHistory' = [sqlHistory EXCEPT !.calls = @ + 1]
          BY <1>1 DEF Begin
    <3> QED BY <3>1 DEF SqlTypes, History
  <2>2. sqlCall' \in Call
    <3>1. sqlCall' = [Idle EXCEPT !.mode = "governance", !.at = 1]
          BY <1>1 DEF Begin
    <3>2. 1 \in 0..(PlanLength + 1)
          BY OperationsAreFinite
    <3> QED BY <3>1, <3>2 DEF Call, Idle
  <2> QED BY <1>1, <2>1, <2>2 DEF Begin, SqlTypes
<1>2. CASE SkipOrBlock
  <2>1. sqlCall.at \in Operation
        BY <1>2 DEF SkipOrBlock, Working
  <2>2. ASSUME sqlCall' = [sqlCall EXCEPT !.at = sqlCall.at + 1],
               UNCHANGED <<row, ledger, pending, sqlCache, compensated, sqlHistory>>
        PROVE  SqlTypes'
    <3>1. sqlCall' \in Call
          BY <2>1, <2>2, OperationsAreFinite DEF SqlTypes, Call
    <3> QED BY <2>2, <3>1 DEF SqlTypes
  <2>3. ASSUME Outcome(sqlCall.at, "blocked", pending.version)
        PROVE  SqlTypes'
        BY <1>0, <2>1, <2>3, OutcomeTyped DEF OpStatuses
  <2> QED BY <1>2, <2>2, <2>3 DEF SkipOrBlock
<1>3. CASE Observe
      BY <1>3, ReadsTyped DEF Observe
<1>4. CASE Recover
  <2>1. sqlCall.at \in Operation
        BY <1>4 DEF Recover, Working
  <2> QED BY <1>0, <1>4, <2>1, OutcomeTyped, RaiseTyped DEF Recover, OpStatuses
<1>5. CASE Write
  <2>1. sqlCall.at \in Operation /\ "governance" \in Modes
        BY <1>5 DEF Write, Working, Modes
  <2> QED BY <1>5, <2>1, ApplyTyped, RaiseTyped DEF Write
<1>6. CASE Record
  <2>1. sqlCall.at \in Operation
        BY <1>6 DEF Record, Working
  <2> QED BY <1>0, <1>6, <2>1, OutcomeTyped DEF Record, OpStatuses
<1>7. CASE Commit
      BY <1>7, IdleTyped DEF Commit, SqlTypes
<1> QED BY <1>1, <1>2, <1>3, <1>4, <1>5, <1>6, <1>7

LEMMA RollbackTyped ==
    ASSUME SqlTypes,
           PlanRollback \/ BeginRestore \/ ObserveRestore \/ Compare \/ Restore \/ RecordRestore
    PROVE  SqlTypes'
<1>0. /\ sqlCall.seen \in Nat /\ sqlCall.out \in Nat /\ ledger.version \in Nat
      /\ "rollback" \in Modes /\ Settled \subseteq Checkpoints
      /\ {"blocked", "conflict_skipped", "verification_failed"} \subseteq Checkpoints
      BY DEF SqlTypes, Call, Ledger, Modes, Settled, Checkpoints
<1>1. CASE PlanRollback
  <2>1. [o \in Mutations |-> row[o].value] \in [Operation -> RowValues]
        BY <1>1 DEF PlanRollback, SqlTypes, Row
  <2>2. compensated' \in Compensation
        BY <1>1, <2>1 DEF PlanRollback, SqlTypes, Compensation
  <2> QED BY <1>1, <2>2 DEF PlanRollback, SqlTypes
<1>2. CASE BeginRestore
  <2> DEFINE open == {o \in Mutations : compensated.checkpoint[o] = "none"}
  <2>1. Max(open) \in Operation
    <3>1. open # {} /\ open \subseteq Operation
          BY <1>2 DEF BeginRestore, Mutations
    <3>2. Max(open) \in open
          BY <3>1, OpenIsNext
    <3> QED BY <3>1, <3>2
  <2>2. sqlCall' \in Call
    <3>1. sqlCall' = [Idle EXCEPT !.mode = "rollback", !.at = Max(open)]
          BY <1>2 DEF BeginRestore
    <3>2. Max(open) \in 0..(PlanLength + 1)
          BY <2>1, OperationsAreFinite DEF Operation
    <3> HIDE DEF open
    <3> QED BY <3>1, <3>2 DEF Call, Idle
  <2> QED BY <1>2, <2>2 DEF BeginRestore, SqlTypes
<1>3. CASE ObserveRestore
  <2>1. sqlCall.at \in Operation
        BY <1>3 DEF ObserveRestore, Working
  <2> QED BY <1>0, <1>3, <2>1, CheckpointTyped, ReadsTyped DEF ObserveRestore
<1>4. CASE Compare
  <2>1. sqlCall.at \in Operation
        BY <1>4 DEF Compare, Working
  <2>2. CASE \E status \in {"already_restored", "conflict_skipped"}, version \in Nat :
               Checkpoint(sqlCall.at, status, version)
        BY <1>0, <2>1, <2>2, CheckpointTyped DEF Settled
  <2>3. CASE /\ sqlCall' = [sqlCall EXCEPT !.step = "compared"]
             /\ UNCHANGED <<row, ledger, pending, sqlCache, compensated, sqlHistory>>
    <3>1. sqlCall' \in Call
          BY <2>3 DEF SqlTypes, Call
    <3> QED BY <2>3, <3>1 DEF SqlTypes
  <2> QED BY <1>0, <1>4, <2>2, <2>3 DEF Compare
<1>5. CASE Restore
  <2>1. sqlCall.at \in Operation
        BY <1>5 DEF Restore, Working
  <2>2. CASE /\ compensated' = [compensated EXCEPT !.stopped = TRUE]
             /\ sqlCall' = Idle
             /\ UNCHANGED <<row, ledger, pending, sqlCache, sqlHistory>>
    <3>1. compensated' \in Compensation
          BY <2>2 DEF SqlTypes, Compensation
    <3> QED BY <2>2, <3>1, IdleTyped DEF SqlTypes
  <2> QED BY <1>0, <1>5, <2>1, <2>2, ApplyTyped, RaiseTyped DEF Restore
<1>6. CASE RecordRestore
  <2>1. sqlCall.at \in Operation
        BY <1>6 DEF RecordRestore, Working
  <2> QED BY <1>0, <1>6, <2>1, CheckpointTyped DEF RecordRestore, Settled
<1> QED BY <1>1, <1>2, <1>3, <1>4, <1>5, <1>6

LEMMA SqlTypeStep == SqlTypeOK /\ [SqlNext]_sqlVars => SqlTypeOK'
<1> SUFFICES ASSUME SqlTypes, [SqlNext]_sqlVars PROVE SqlTypes'
  <2>1. SqlTypeOK' <=> SqlTypes'
        BY DEF SqlTypeOK, SqlTypes, Row, Ledger, Call, Compensation, History
  <2> QED BY <2>1, SqlTyped
<1>1. CASE UNCHANGED sqlVars
      BY <1>1 DEF SqlTypes, sqlVars
<1>2. CASE Edit
  <2>1. TargetVersion \in Nat
        BY VersionIsNat DEF SqlTypes
  <2>2. PICK o \in Operation,
             edited \in {Absent, [value |-> "other", version |-> TargetVersion + 1]} :
          /\ row' = [row EXCEPT ![o] = edited]
          /\ sqlHistory' = [sqlHistory EXCEPT !.edits = @ + 1, !.touched = @ \cup {o}]
        BY <1>2 DEF Edit
  <2>3. edited \in Row
        BY <2>1, <2>2, IdleTyped DEF Row, RowValues
  <2>4. row' \in [Operation -> Row]
        BY <2>2, <2>3 DEF SqlTypes
  <2>5. sqlHistory' \in History
    <3>1. sqlHistory.touched \cup {o} \in SUBSET Operation /\ sqlHistory.edits + 1 \in Nat
          BY DEF SqlTypes, History
    <3> QED BY <2>2, <3>1 DEF SqlTypes, History
  <2> QED BY <1>2, <2>4, <2>5 DEF Edit, SqlTypes
<1>3. CASE CrashSql
  <2>1. sqlHistory' \in History
        BY <1>3 DEF CrashSql, SqlTypes, History
  <2>2. sqlCache' \in [Operation \X Modes -> Nat]
        BY <1>3 DEF CrashSql, SqlTypes
  <2> QED BY <1>3, <2>1, <2>2, IdleTyped DEF CrashSql, SqlTypes
<1> QED BY <1>1, <1>2, <1>3, GovernanceTyped, RollbackTyped DEF SqlNext

-----------------------------------------------------------------------------
(* The invariant *)

Writes(o, mode) == sqlHistory.writes[StepKey(o, mode)]
Untouched(o) == o \notin sqlHistory.touched

\* Governance comes before the plan of the rollback, the rollback after it.
GovernanceComesFirst ==
    /\ sqlCall.mode = "governance" => compensated.planned = <<>>
    /\ sqlCall.mode = "rollback" => compensated.planned # <<>>
    /\ compensated.planned = <<>> =>
         \A o \in Operation : Writes(o, "rollback") = 0 /\ compensated.checkpoint[o] = "none"

\* What the program wrote is there, until it is taken back or the owner edits it.
WritesHold ==
    \A o \in Operation : Untouched(o) =>
        /\ Writes(o, "governance") <= 1 /\ Writes(o, "rollback") <= 1
        /\ Writes(o, "governance") >= 1 /\ Writes(o, "rollback") = 0 =>
             row[o].value = To(o, "governance")
        /\ Writes(o, "rollback") >= 1 => row[o].value = To(o, "rollback")

\* A result comes from a write, of this call or of an earlier one.
ResultsComeFromWrites ==
    /\ \A o \in Operation, mode \in Modes :
         sqlCache[StepKey(o, mode)] # 0 => Writes(o, mode) >= 1
    /\ sqlCall.step = "written" /\ sqlCall.at \in Operation /\ sqlCall.mode \in Modes =>
         Writes(sqlCall.at, sqlCall.mode) >= 1

Real(status) ==
    \A o \in Operation : Untouched(o) /\ status[o] = "succeeded" /\ Writes(o, "rollback") = 0
        => row[o].value = To(o, "governance")

RestoredIsReal ==
    \A o \in Operation : Untouched(o) /\ compensated.checkpoint[o] \in Settled
        => row[o].value = To(o, "rollback")

EarlierAreDone ==
    sqlCall.mode = "governance" =>
        \A m \in Operation : m < sqlCall.at => pending.status[m] # "pending"

Unspoilt(status) ==
    \A n \in Operation : status[n] \in {"blocked", "verification_failed"}
        => sqlHistory.touched \cap (1..n) # {}

\* A restore under way is open, and past its first step those it waits for are done.
RestoreIsDue ==
    sqlCall.mode = "rollback" /\ sqlCall.at \in Operation =>
        /\ compensated.checkpoint[sqlCall.at] = "none"
        /\ sqlCall.step # "start" =>
             \A p \in Dependants(sqlCall.at) : compensated.checkpoint[p] \in Settled

SqlInv ==
    /\ GovernanceComesFirst /\ WritesHold /\ ResultsComeFromWrites
    /\ Real(ledger.status) /\ Real(pending.status) /\ RestoredIsReal
    /\ EarlierAreDone /\ Unspoilt(ledger.status) /\ Unspoilt(pending.status)
    /\ RestoreIsDue /\ InversesRespectDependencies

LEMMA ToIsNotFrom == \A o, mode : From(o, mode) # To(o, mode)
BY DEF From, To

LEMMA KeysDiffer ==
    \A o, p, mode, other : StepKey(o, mode) = StepKey(p, other) <=> o = p /\ mode = other
BY DEF StepKey

LEMMA SqlInvInit == SqlInit => SqlInv
<1> SUFFICES ASSUME SqlInit PROVE SqlInv
    OBVIOUS
<1>1. /\ \A o \in Operation, mode \in Modes : Writes(o, mode) = 0 /\ sqlCache[StepKey(o, mode)] = 0
      /\ \A o \in Operation : compensated.checkpoint[o] = "none"
                              /\ ledger.status[o] = "pending" /\ pending.status[o] = "pending"
      /\ compensated.planned = <<>>
      BY DEF SqlInit, Writes, StepKey
<1>2. {"governance", "rollback"} \subseteq Modes /\ sqlCall.mode = "idle" /\ sqlCall.step = "start"
      BY DEF SqlInit, Idle, Modes
<1> QED BY <1>1, <1>2
        DEF SqlInv, GovernanceComesFirst, WritesHold, ResultsComeFromWrites, Real, RestoredIsReal,
            EarlierAreDone, Unspoilt, RestoreIsDue, InversesRespectDependencies, Settled, Writes

\* Nothing but the call moves: an operation goes on, or starts over.
LEMMA CallMoves ==
    ASSUME SqlTypes, SqlInv,
           UNCHANGED <<row, ledger, compensated, sqlHistory.writes, sqlHistory.touched>>,
           pending' \in {ledger, pending},
           \A o \in Operation, mode \in Modes :
               sqlCache'[StepKey(o, mode)] \in {0, sqlCache[StepKey(o, mode)]},
           GovernanceComesFirst', ResultsComeFromWrites', EarlierAreDone', RestoreIsDue'
    PROVE  SqlInv'
<1>1. \A o, mode : Writes(o, mode)' = Writes(o, mode)
      BY DEF Writes
<1>2. \A o : Untouched(o)' <=> Untouched(o)
      BY DEF Untouched
<1>3. WritesHold' /\ RestoredIsReal' /\ Real(ledger.status)' /\ Unspoilt(ledger.status)'
      BY <1>1, <1>2 DEF SqlInv, WritesHold, RestoredIsReal, Real, Unspoilt
<1>4. Real(pending.status)' /\ Unspoilt(pending.status)'
      BY <1>1, <1>2 DEF SqlInv, Real, Unspoilt
<1>5. InversesRespectDependencies'
      BY <1>1 DEF SqlInv, InversesRespectDependencies, Dependants, Mutations, Writes
<1> QED BY <1>3, <1>4, <1>5 DEF SqlInv

LEMMA RaiseKeeps ==
    ASSUME SqlTypes, SqlInv, Raise PROVE SqlInv'
<1>1. /\ UNCHANGED <<row, ledger, compensated, sqlHistory.writes, sqlHistory.touched, sqlCache>>
      /\ pending' = ledger /\ sqlCall'.mode = "idle" /\ sqlCall'.step = "start"
      BY DEF Raise, SqlTypes, History, Idle
<1>2. GovernanceComesFirst' /\ ResultsComeFromWrites' /\ EarlierAreDone' /\ RestoreIsDue'
      BY <1>1 DEF SqlInv, GovernanceComesFirst, ResultsComeFromWrites, EarlierAreDone, RestoreIsDue,
                  Writes
<1> QED BY <1>1, <1>2, CallMoves

LEMMA ReadsKeep ==
    ASSUME SqlTypes, SqlInv, ReadVersion,
           sqlCall.mode = "rollback" =>
               \A p \in Dependants(sqlCall.at) : compensated.checkpoint[p] \in Settled
    PROVE  SqlInv'
<1>1. /\ UNCHANGED <<row, ledger, pending, compensated, sqlHistory, sqlCache>>
      /\ sqlCall'.mode = sqlCall.mode /\ sqlCall'.at = sqlCall.at /\ sqlCall'.step = "read"
      BY DEF ReadVersion, SqlTypes, Call
<1>2. GovernanceComesFirst' /\ ResultsComeFromWrites' /\ EarlierAreDone' /\ RestoreIsDue'
      BY <1>1 DEF SqlInv, GovernanceComesFirst, ResultsComeFromWrites, EarlierAreDone, RestoreIsDue,
                  Writes, Dependants, Mutations
<1> QED BY <1>1, <1>2, CallMoves

LEMMA ApplyKeeps ==
    ASSUME SqlTypes, SqlInv, NEW o \in Operation, NEW mode \in Modes,
           sqlCall.at = o, sqlCall.mode = mode, sqlCall.step # "start",
           Apply(o, mode), ~Raise
    PROVE  SqlInv'
<1> DEFINE key == StepKey(o, mode)
<1>0. key \in Operation \X Modes
      BY DEF StepKey
<1>1. CASE /\ sqlCache[key] # 0
           /\ sqlCall' = [sqlCall EXCEPT !.step = "written", !.out = sqlCache[key] - 1]
           /\ UNCHANGED <<row, ledger, pending, sqlCache, compensated, sqlHistory>>
  <2>1. sqlCall'.mode = mode /\ sqlCall'.at = o /\ sqlCall'.step = "written"
        BY <1>1 DEF SqlTypes, Call
  <2>2. Writes(o, mode) >= 1
        BY <1>1 DEF SqlInv, ResultsComeFromWrites
  <2>3. GovernanceComesFirst' /\ ResultsComeFromWrites' /\ EarlierAreDone' /\ RestoreIsDue'
        BY <1>1, <2>1, <2>2
           DEF SqlInv, GovernanceComesFirst, ResultsComeFromWrites, EarlierAreDone, RestoreIsDue,
               Writes, Dependants, Mutations
  <2> QED BY <1>1, <2>3, CallMoves
<1>2. CASE /\ Mutable(o, mode, sqlCall.seen)
           /\ Mutate(o, mode)
           /\ sqlCall' = [sqlCall EXCEPT !.step = "written", !.out = TargetVersion']
           /\ sqlCache' = [sqlCache EXCEPT ![key] = TargetVersion' + 1]
           /\ sqlHistory' = [sqlHistory EXCEPT !.writes[key] = @ + 1]
           /\ UNCHANGED <<ledger, pending, compensated>>
  <2>1. sqlCall'.mode = mode /\ sqlCall'.at = o /\ sqlCall'.step = "written"
        BY <1>2 DEF SqlTypes, Call
  <2>2. /\ \A p \in Operation : p # o => row'[p] = row[p]
        /\ row[o].value = From(o, mode)
        /\ row'[o].value = To(o, mode)
        BY <1>2 DEF Mutable, Mutate, SqlTypes, Absent
  <2>3. /\ sqlHistory'.touched = sqlHistory.touched
        /\ sqlHistory'.writes = [sqlHistory.writes EXCEPT ![key] = sqlHistory.writes[key] + 1]
        /\ sqlHistory.writes \in [Operation \X Modes -> Nat]
        BY <1>2 DEF SqlTypes, History
  <2>4. /\ Writes(o, mode)' = Writes(o, mode) + 1
        /\ \A p \in Operation, other \in Modes : Writes(p, other) \in Nat
        /\ \A p \in Operation, other \in Modes :
             p # o \/ other # mode => Writes(p, other)' = Writes(p, other)
    <3>1. \A p \in Operation, other \in Modes : StepKey(p, other) \in Operation \X Modes
          BY DEF StepKey
    <3> QED BY <1>0, <2>1, <2>3, <3>1, KeysDiffer DEF Writes
  <2>5. {"governance", "rollback"} = Modes /\ From(o, mode) # To(o, mode)
        BY ToIsNotFrom DEF Modes
  \* Before the step the operation was not written, or its owner changed the row.
  <2>6. Untouched(o) => Writes(o, mode) = 0
        BY <2>2, <2>4, <2>5 DEF SqlInv, WritesHold, GovernanceComesFirst
  <2>7. GovernanceComesFirst' /\ EarlierAreDone'
        BY <1>2, <2>1, <2>4, <2>5 DEF SqlInv, GovernanceComesFirst, EarlierAreDone
  <2>8. WritesHold'
    <3> SUFFICES ASSUME NEW p \in Operation, Untouched(p)
                 PROVE  /\ Writes(p, "governance")' <= 1 /\ Writes(p, "rollback")' <= 1
                        /\ Writes(p, "governance")' >= 1 /\ Writes(p, "rollback")' = 0 =>
                             row'[p].value = To(p, "governance")
                        /\ Writes(p, "rollback")' >= 1 => row'[p].value = To(p, "rollback")
        BY <2>3 DEF WritesHold, Untouched
    <3>1. CASE p # o
          BY <2>2, <2>4, <2>5, <3>1 DEF SqlInv, WritesHold
    <3>2. CASE p = o /\ mode = "governance"
          BY <2>2, <2>4, <2>5, <2>6, <3>2 DEF SqlInv, GovernanceComesFirst
    <3>3. CASE p = o /\ mode = "rollback"
          BY <2>2, <2>4, <2>5, <2>6, <3>3 DEF SqlInv, WritesHold
    <3> QED BY <2>5, <3>1, <3>2, <3>3
  <2>9. ResultsComeFromWrites'
    <3>1. \A p \in Operation, other \in Modes : p # o \/ other # mode =>
             sqlCache'[StepKey(p, other)] = sqlCache[StepKey(p, other)]
          BY <1>2, KeysDiffer DEF SqlTypes, StepKey
    <3>2. Writes(o, mode)' >= 1
          BY <2>4
    <3> QED BY <2>1, <2>4, <3>1, <3>2 DEF SqlInv, ResultsComeFromWrites
  <2>10. Real(ledger.status)' /\ Real(pending.status)'
    <3> SUFFICES ASSUME NEW p \in Operation, Untouched(p), Writes(p, "rollback")' = 0,
                        ledger.status[p] = "succeeded" \/ pending.status[p] = "succeeded"
                 PROVE  row'[p].value = To(p, "governance")
        BY <1>2, <2>3 DEF Real, Untouched
    <3>1. CASE p # o
          BY <2>2, <2>4, <2>5, <3>1 DEF SqlInv, Real
    <3>2. CASE p = o
          BY <2>2, <2>4, <2>5, <3>2
    <3> QED BY <3>1, <3>2
  <2>11. RestoredIsReal'
    <3> SUFFICES ASSUME NEW p \in Operation, Untouched(p), compensated.checkpoint[p] \in Settled
                 PROVE  row'[p].value = To(p, "rollback")
        BY <1>2, <2>3 DEF RestoredIsReal, Untouched
    <3>1. p # o
      <4>1. compensated.checkpoint[o] = "none"
            BY <2>5 DEF SqlInv, GovernanceComesFirst, RestoreIsDue
      <4> QED BY <4>1 DEF Settled
    <3> QED BY <2>2, <3>1 DEF SqlInv, RestoredIsReal
  <2>12. Unspoilt(ledger.status)' /\ Unspoilt(pending.status)'
         BY <1>2, <2>3 DEF SqlInv, Unspoilt
  <2>13. RestoreIsDue'
         BY <1>2, <2>1 DEF SqlInv, RestoreIsDue, Dependants, Mutations
  <2>14. InversesRespectDependencies'
    <3> SUFFICES ASSUME NEW n \in Operation, Writes(n, "rollback")' > 0, NEW p \in Dependants(n)
                 PROVE  compensated.checkpoint[p] \in Settled
        BY <1>2 DEF InversesRespectDependencies, Dependants, Mutations, Writes
    <3>1. CASE n # o \/ mode # "rollback"
          BY <2>4, <2>5, <3>1 DEF SqlInv, InversesRespectDependencies, Writes
    <3>2. CASE n = o /\ mode = "rollback"
          BY <3>2 DEF SqlInv, RestoreIsDue
    <3> QED BY <3>1, <3>2
  <2> QED BY <2>7, <2>8, <2>9, <2>10, <2>11, <2>12, <2>13, <2>14 DEF SqlInv
<1> QED BY <1>1, <1>2 DEF Apply

\* An outcome is recorded inside the action's transaction.
LEMMA OutcomeKeeps ==
    ASSUME SqlTypes, SqlInv, NEW o \in Operation, NEW status \in Terminal, NEW version,
           sqlCall.mode = "governance", sqlCall.at = o, Outcome(o, status, version),
           Untouched(o) /\ status = "succeeded" /\ Writes(o, "rollback") = 0 =>
               row[o].value = To(o, "governance"),
           status # "succeeded" => sqlHistory.touched \cap (1..o) # {}
    PROVE  SqlInv'
<1>1. /\ UNCHANGED <<row, ledger, sqlCache, compensated, sqlHistory>>
      /\ sqlCall'.mode = "governance" /\ sqlCall'.at = o + 1 /\ sqlCall'.step = "start"
      BY DEF Outcome, SqlTypes, Call
<1>2. /\ pending'.status[o] = status /\ status # "pending"
      /\ \A p \in Operation : p # o => pending'.status[p] = pending.status[p]
      BY DEF Outcome, SqlTypes, Ledger, Terminal
<1>3. \A p, mode : (Writes(p, mode)' = Writes(p, mode)) /\ (Untouched(p)' <=> Untouched(p))
      BY <1>1 DEF Writes, Untouched
<1>4. GovernanceComesFirst' /\ ResultsComeFromWrites' /\ RestoreIsDue'
      BY <1>1, <1>3 DEF SqlInv, GovernanceComesFirst, ResultsComeFromWrites, RestoreIsDue
<1>5. EarlierAreDone'
  <2>1. \A m \in Operation : m < o + 1 => m < o \/ m = o
        BY OperationsAreFinite
  <2> QED BY <1>1, <1>2, <2>1 DEF SqlInv, EarlierAreDone
<1>6. WritesHold' /\ RestoredIsReal' /\ Real(ledger.status)' /\ Unspoilt(ledger.status)'
      BY <1>1, <1>3 DEF SqlInv, WritesHold, RestoredIsReal, Real, Unspoilt
<1>7. Real(pending.status)'
      BY <1>1, <1>2, <1>3 DEF SqlInv, Real
<1>8. Unspoilt(pending.status)'
      BY <1>1, <1>2 DEF SqlInv, Unspoilt
<1>9. InversesRespectDependencies'
      BY <1>1 DEF SqlInv, InversesRespectDependencies, Dependants, Mutations
<1> QED BY <1>4, <1>5, <1>6, <1>7, <1>8, <1>9 DEF SqlInv

LEMMA CheckpointKeeps ==
    ASSUME SqlTypes, SqlInv, NEW o \in Operation, NEW status, NEW version,
           sqlCall.mode = "rollback", sqlCall.at = o, Checkpoint(o, status, version),
           Untouched(o) /\ status \in Settled => row[o].value = To(o, "rollback")
    PROVE  SqlInv'
<1>1. /\ UNCHANGED <<row, sqlCache, sqlHistory>>
      /\ sqlCall'.mode = "idle" /\ sqlCall'.step = "start"
      /\ ledger'.status = ledger.status /\ pending'.status = ledger.status
      /\ compensated'.planned = compensated.planned
      BY DEF Checkpoint, Idle, SqlTypes, Ledger, Compensation
<1>2. /\ compensated'.checkpoint[o] = status
      /\ \A p \in Operation : p # o => compensated'.checkpoint[p] = compensated.checkpoint[p]
      BY DEF Checkpoint, SqlTypes, Compensation
<1>3. \A p, mode : (Writes(p, mode)' = Writes(p, mode)) /\ (Untouched(p)' <=> Untouched(p))
      BY <1>1 DEF Writes, Untouched
<1>4. compensated.planned # <<>> /\ compensated.checkpoint[o] = "none" /\ "none" \notin Settled
      BY DEF SqlInv, GovernanceComesFirst, RestoreIsDue, Settled
<1>5. GovernanceComesFirst' /\ ResultsComeFromWrites' /\ RestoreIsDue' /\ EarlierAreDone'
      BY <1>1, <1>3, <1>4
         DEF SqlInv, GovernanceComesFirst, ResultsComeFromWrites, RestoreIsDue, EarlierAreDone, Modes
<1>6. /\ WritesHold' /\ Real(ledger.status)' /\ Unspoilt(ledger.status)'
      /\ Real(pending.status)' /\ Unspoilt(pending.status)'
      BY <1>1, <1>3 DEF SqlInv, WritesHold, Real, Unspoilt
<1>7. RestoredIsReal'
      BY <1>1, <1>2, <1>3 DEF SqlInv, RestoredIsReal
<1>8. InversesRespectDependencies'
  <2> SUFFICES ASSUME NEW n \in Operation, Writes(n, "rollback") > 0, NEW p \in Operation,
                      p \in Dependants(n)
               PROVE  compensated'.checkpoint[p] \in Settled
      BY <1>1 DEF InversesRespectDependencies, Dependants, Mutations, Writes
  <2>1. compensated.checkpoint[p] \in Settled
        BY DEF SqlInv, InversesRespectDependencies, Writes
  <2> QED BY <1>2, <1>4, <2>1
<1> QED BY <1>5, <1>6, <1>7, <1>8 DEF SqlInv

\* An operation is blocked by one before it that was not done.
LEMMA BlockingIsTheOwners ==
    ASSUME SqlTypes, SqlInv, NEW o \in Operation, sqlCall.mode = "governance", sqlCall.at = o,
           ~DependenciesSucceeded(o)
    PROVE  sqlHistory.touched \cap (1..o) # {}
<1>1. PICK n \in Needs[o] : pending.status[n] # "succeeded"
      BY DEF DependenciesSucceeded
<1>2. n \in Operation /\ n < o
      BY SqlAssumption, <1>1
<1>3. pending.status[n] \in {"blocked", "verification_failed"}
  <2>1. pending.status[n] \in OpStatuses /\ pending.status[n] # "pending"
        BY <1>2 DEF SqlInv, EarlierAreDone, SqlTypes, Ledger
  <2> QED BY <1>1, <2>1 DEF OpStatuses
<1>4. PICK t \in sqlHistory.touched : t \in 1..n
      BY <1>2, <1>3 DEF SqlInv, Unspoilt
<1>5. t \in 1..o
      BY <1>2, <1>4, OperationsAreFinite
<1> QED BY <1>4, <1>5

LEMMA GovernanceKeeps ==
    ASSUME SqlTypes, SqlInv,
           Begin \/ SkipOrBlock \/ Observe \/ Recover \/ Write \/ Record \/ Commit
    PROVE  SqlInv'
<1> DEFINE o == sqlCall.at
<1>0. {"blocked", "verification_failed", "succeeded"} = Terminal
      BY DEF Terminal, OpStatuses
<1>1. CASE Begin
  <2>1. /\ UNCHANGED <<row, ledger, compensated, sqlHistory.writes, sqlHistory.touched, sqlCache>>
        /\ pending' = ledger /\ sqlCall'.mode = "governance" /\ sqlCall'.step = "start"
        /\ sqlCall'.at = 1 /\ compensated.planned = <<>>
        BY <1>1 DEF Begin, SqlTypes, History, Idle
  <2>2. GovernanceComesFirst' /\ ResultsComeFromWrites' /\ RestoreIsDue'
        BY <2>1 DEF SqlInv, GovernanceComesFirst, ResultsComeFromWrites, RestoreIsDue, Writes
  <2>3. EarlierAreDone'
        BY <2>1, OperationsAreFinite DEF EarlierAreDone
  <2> QED BY <2>1, <2>2, <2>3, CallMoves
<1>2. CASE SkipOrBlock
  <2>1. o \in Operation /\ sqlCall.mode = "governance" /\ sqlCall.step = "start"
        BY <1>2 DEF SkipOrBlock, Working
  <2>2. CASE /\ pending.status[o] \in Terminal
             /\ sqlCall' = [sqlCall EXCEPT !.at = o + 1]
             /\ UNCHANGED <<row, ledger, pending, sqlCache, compensated, sqlHistory>>
    <3>1. sqlCall'.mode = "governance" /\ sqlCall'.step = "start" /\ sqlCall'.at = o + 1
          BY <2>1, <2>2 DEF SqlTypes, Call
    <3>2. \A m \in Operation : m < o + 1 => m < o \/ m = o
          BY <2>1, OperationsAreFinite
    <3>3. GovernanceComesFirst' /\ ResultsComeFromWrites' /\ RestoreIsDue'
          BY <2>1, <2>2, <3>1
             DEF SqlInv, GovernanceComesFirst, ResultsComeFromWrites, RestoreIsDue, Writes
    <3>4. EarlierAreDone'
          BY <2>1, <2>2, <3>1, <3>2 DEF SqlInv, EarlierAreDone, Terminal
    <3> QED BY <2>2, <3>3, <3>4, CallMoves
  <2>3. CASE ~DependenciesSucceeded(o) /\ Outcome(o, "blocked", pending.version)
        BY <1>0, <2>1, <2>3, BlockingIsTheOwners, OutcomeKeeps
  <2> QED BY <1>2, <2>2, <2>3 DEF SkipOrBlock
<1>3. CASE Observe
      BY <1>3, ReadsKeep DEF Observe, Working
<1>4. CASE Recover
  <2>1. o \in Operation /\ sqlCall.mode = "governance"
        BY <1>4 DEF Recover, Working
  <2>2. CASE Verified(o, "governance") /\ Outcome(o, "succeeded", sqlCall.seen)
        BY <1>0, <2>1, <2>2, OutcomeKeeps DEF Verified
  <2> QED BY <1>4, <2>2, RaiseKeeps DEF Recover
<1>5. CASE Write
  <2>1. o \in Operation /\ sqlCall.mode = "governance" /\ sqlCall.step = "read"
        BY <1>5 DEF Write, Working
  <2>2. CASE Apply(o, "governance") /\ ~Raise
        BY <2>1, <2>2, ApplyKeeps DEF Modes
  <2> QED BY <1>5, <2>2, RaiseKeeps DEF Write
<1>6. CASE Record
  <2> DEFINE status == IF Verified(o, "governance") THEN "succeeded" ELSE "verification_failed"
  <2>1. /\ o \in Operation /\ sqlCall.mode = "governance" /\ sqlCall.step = "written"
        /\ Outcome(o, status, sqlCall.out)
        BY <1>6 DEF Record, Working
  <2>2. Untouched(o) => row[o].value = To(o, "governance")
    <3>1. Writes(o, "governance") >= 1 /\ Writes(o, "rollback") = 0
          BY <2>1 DEF SqlInv, ResultsComeFromWrites, GovernanceComesFirst, Modes
    <3> QED BY <2>1, <3>1 DEF SqlInv, WritesHold
  <2>3. o \in 1..o
        BY <2>1, OperationsAreFinite
  <2>4. status \in Terminal /\ (status # "succeeded" => ~Untouched(o))
        BY <1>0, <2>2 DEF Verified
  <2>5. status # "succeeded" => sqlHistory.touched \cap (1..o) # {}
        BY <2>3, <2>4 DEF Untouched
  <2> HIDE DEF status
  <2> QED BY <2>1, <2>2, <2>4, <2>5, OutcomeKeeps
<1>7. CASE Commit
  <2>1. /\ UNCHANGED <<row, pending, sqlCache, compensated, sqlHistory>>
        /\ ledger' = pending /\ sqlCall'.mode = "idle" /\ sqlCall'.step = "start"
        /\ compensated.planned = <<>>
        BY <1>7 DEF Commit, Idle, SqlInv, GovernanceComesFirst
  <2>2. \A p, mode : (Writes(p, mode)' = Writes(p, mode)) /\ (Untouched(p)' <=> Untouched(p))
        BY <2>1 DEF Writes, Untouched
  <2>3. /\ GovernanceComesFirst' /\ ResultsComeFromWrites' /\ RestoreIsDue' /\ EarlierAreDone'
        /\ InversesRespectDependencies'
        BY <2>1, <2>2
           DEF SqlInv, GovernanceComesFirst, ResultsComeFromWrites, RestoreIsDue, EarlierAreDone,
               InversesRespectDependencies, Modes, Writes
  <2>4. /\ WritesHold' /\ RestoredIsReal' /\ Real(ledger.status)' /\ Unspoilt(ledger.status)'
        /\ Real(pending.status)' /\ Unspoilt(pending.status)'
        BY <2>1, <2>2 DEF SqlInv, WritesHold, RestoredIsReal, Real, Unspoilt
  <2> QED BY <2>3, <2>4 DEF SqlInv
<1> QED BY <1>1, <1>2, <1>3, <1>4, <1>5, <1>6, <1>7

LEMMA RollbackKeeps ==
    ASSUME SqlTypes, SqlInv,
           PlanRollback \/ BeginRestore \/ ObserveRestore \/ Compare \/ Restore \/ RecordRestore
    PROVE  SqlInv'
<1> DEFINE o == sqlCall.at
<1>1. CASE PlanRollback
  <2>1. /\ UNCHANGED <<row, ledger, pending, sqlCall, sqlCache, sqlHistory>>
        /\ compensated'.checkpoint = compensated.checkpoint
        /\ sqlCall.mode = "idle"
        BY <1>1 DEF PlanRollback, SqlTypes, Compensation
  <2>2. \A p, mode : (Writes(p, mode)' = Writes(p, mode)) /\ (Untouched(p)' <=> Untouched(p))
        BY <2>1 DEF Writes, Untouched
  <2>3. compensated'.planned # <<>>
    <3>1. compensated'.planned = [p \in Operation |-> row[p].value]
          BY <1>1 DEF PlanRollback, SqlTypes, Compensation
    <3>2. 1 \in DOMAIN compensated'.planned
          BY <3>1, OperationsAreFinite
    <3>3. DOMAIN <<>> = {}
          OBVIOUS
    <3> QED BY <3>2, <3>3
  <2>4. GovernanceComesFirst' /\ ResultsComeFromWrites' /\ RestoreIsDue' /\ EarlierAreDone'
        BY <2>1, <2>2, <2>3
           DEF SqlInv, GovernanceComesFirst, ResultsComeFromWrites, RestoreIsDue, EarlierAreDone
  <2>5. /\ WritesHold' /\ RestoredIsReal' /\ Real(ledger.status)' /\ Unspoilt(ledger.status)'
        /\ Real(pending.status)' /\ Unspoilt(pending.status)'
        BY <2>1, <2>2 DEF SqlInv, WritesHold, RestoredIsReal, Real, Unspoilt
  <2>6. InversesRespectDependencies'
        BY <2>1 DEF SqlInv, InversesRespectDependencies, Dependants, Mutations
  <2> QED BY <2>4, <2>5, <2>6 DEF SqlInv
<1>2. CASE BeginRestore
  <2> DEFINE open == {p \in Mutations : compensated.checkpoint[p] = "none"}
  <2>1. /\ UNCHANGED <<row, ledger, pending, sqlCache, compensated, sqlHistory>>
        /\ sqlCall' = [Idle EXCEPT !.mode = "rollback", !.at = Max(open)]
        /\ open # {} /\ open \subseteq Operation /\ compensated.planned # <<>>
        BY <1>2 DEF BeginRestore, Mutations
  <2>2. Max(open) \in open
        BY <2>1, OpenIsNext
  <2>3. sqlCall'.mode = "rollback" /\ sqlCall'.step = "start" /\ sqlCall'.at = Max(open)
        BY <2>1 DEF Idle
  <2>4. GovernanceComesFirst' /\ ResultsComeFromWrites' /\ EarlierAreDone'
        BY <2>1, <2>3 DEF SqlInv, GovernanceComesFirst, ResultsComeFromWrites, EarlierAreDone, Writes
  <2>5. RestoreIsDue'
        BY <2>1, <2>2, <2>3 DEF RestoreIsDue
  <2> HIDE DEF open
  <2> QED BY <2>1, <2>4, <2>5, CallMoves
<1>3. CASE ObserveRestore
  <2>1. o \in Operation /\ sqlCall.mode = "rollback"
        BY <1>3 DEF ObserveRestore, Working
  <2>2. CASE Checkpoint(o, "blocked", ledger.version)
        BY <2>1, <2>2, CheckpointKeeps DEF Settled
  <2>3. CASE ~RollbackBlocked(o) /\ ReadVersion
        BY <2>1, <2>3, ReadsKeep DEF RollbackBlocked
  <2> QED BY <1>3, <2>2, <2>3 DEF ObserveRestore
<1>4. CASE Compare
  <2>1. o \in Operation /\ sqlCall.mode = "rollback" /\ sqlCall.step = "read"
        BY <1>4 DEF Compare, Working
  <2>2. CASE /\ row[o].value = To(o, "rollback")
             /\ Checkpoint(o, "already_restored", sqlCall.seen)
        BY <2>1, <2>2, CheckpointKeeps
  <2>3. CASE Checkpoint(o, "conflict_skipped", ledger.version)
        BY <2>1, <2>3, CheckpointKeeps DEF Settled
  <2>4. CASE /\ sqlCall' = [sqlCall EXCEPT !.step = "compared"]
             /\ UNCHANGED <<row, ledger, pending, sqlCache, compensated, sqlHistory>>
    <3>1. sqlCall'.mode = "rollback" /\ sqlCall'.step = "compared" /\ sqlCall'.at = o
          BY <2>1, <2>4 DEF SqlTypes, Call
    <3>2. GovernanceComesFirst' /\ ResultsComeFromWrites' /\ EarlierAreDone' /\ RestoreIsDue'
          BY <2>1, <2>4, <3>1
             DEF SqlInv, GovernanceComesFirst, ResultsComeFromWrites, EarlierAreDone, RestoreIsDue,
                 Writes, Dependants, Mutations
    <3> QED BY <2>4, <3>2, CallMoves
  <2>5. Disposition(o, row[o].value) = "already_restored" => row[o].value = To(o, "rollback")
        BY DEF Disposition
  <2> QED BY <1>4, <2>2, <2>3, <2>4, <2>5 DEF Compare
<1>5. CASE Restore
  <2>1. o \in Operation /\ sqlCall.mode = "rollback" /\ sqlCall.step = "compared"
        BY <1>5 DEF Restore, Working
  <2>2. CASE /\ compensated' = [compensated EXCEPT !.stopped = TRUE]
             /\ sqlCall' = Idle
             /\ UNCHANGED <<row, ledger, pending, sqlCache, sqlHistory>>
    <3>1. /\ compensated'.planned = compensated.planned
          /\ compensated'.checkpoint = compensated.checkpoint
          /\ sqlCall'.mode = "idle" /\ sqlCall'.step = "start"
          BY <2>2 DEF SqlTypes, Compensation, Idle
    <3>2. \A p, mode : (Writes(p, mode)' = Writes(p, mode)) /\ (Untouched(p)' <=> Untouched(p))
          BY <2>2 DEF Writes, Untouched
    <3>3. GovernanceComesFirst' /\ ResultsComeFromWrites' /\ RestoreIsDue' /\ EarlierAreDone'
          BY <2>2, <3>1, <3>2
             DEF SqlInv, GovernanceComesFirst, ResultsComeFromWrites, RestoreIsDue, EarlierAreDone
    <3>4. /\ WritesHold' /\ RestoredIsReal' /\ Real(ledger.status)' /\ Unspoilt(ledger.status)'
          /\ Real(pending.status)' /\ Unspoilt(pending.status)'
          BY <2>2, <3>1, <3>2 DEF SqlInv, WritesHold, RestoredIsReal, Real, Unspoilt
    <3>5. InversesRespectDependencies'
          BY <2>2, <3>1 DEF SqlInv, InversesRespectDependencies, Dependants, Mutations
    <3> QED BY <3>3, <3>4, <3>5 DEF SqlInv
  <2>3. CASE Apply(o, "rollback") /\ ~Raise
        BY <2>1, <2>3, ApplyKeeps DEF Modes
  <2> QED BY <1>5, <2>2, <2>3, RaiseKeeps DEF Restore
<1>6. CASE RecordRestore
  <2> DEFINE status == IF Verified(o, "rollback") THEN "succeeded" ELSE "verification_failed"
  <2>1. /\ o \in Operation /\ sqlCall.mode = "rollback"
        /\ Checkpoint(o, status, sqlCall.out)
        BY <1>6 DEF RecordRestore, Working
  <2>2. status \in Settled => row[o].value = To(o, "rollback")
        BY DEF Settled, Verified
  <2> HIDE DEF status
  <2> QED BY <2>1, <2>2, CheckpointKeeps
<1> QED BY <1>1, <1>2, <1>3, <1>4, <1>5, <1>6

LEMMA EditKeeps == ASSUME SqlTypes, SqlInv, Edit PROVE SqlInv'
<1>1. PICK o \in Operation :
        /\ \A p \in Operation : p # o => row'[p] = row[p]
        /\ sqlHistory' = [sqlHistory EXCEPT !.edits = @ + 1, !.touched = @ \cup {o}]
      BY DEF Edit, SqlTypes
<1>2. /\ sqlHistory'.writes = sqlHistory.writes
      /\ sqlHistory'.touched = sqlHistory.touched \cup {o}
      /\ UNCHANGED <<ledger, pending, sqlCall, sqlCache, compensated>>
      BY <1>1 DEF Edit, SqlTypes, History
<1>3. /\ \A p, mode : Writes(p, mode)' = Writes(p, mode)
      /\ \A p \in Operation : Untouched(p)' => Untouched(p) /\ row'[p] = row[p]
      BY <1>1, <1>2 DEF Writes, Untouched
<1>4. GovernanceComesFirst' /\ ResultsComeFromWrites' /\ RestoreIsDue' /\ EarlierAreDone'
      BY <1>2, <1>3 DEF SqlInv, GovernanceComesFirst, ResultsComeFromWrites, RestoreIsDue,
                        EarlierAreDone, Dependants, Mutations, Writes
<1>5. WritesHold' /\ RestoredIsReal' /\ Real(ledger.status)' /\ Real(pending.status)'
      BY <1>2, <1>3 DEF SqlInv, WritesHold, RestoredIsReal, Real
<1>6. Unspoilt(ledger.status)' /\ Unspoilt(pending.status)'
      BY <1>2 DEF SqlInv, Unspoilt
<1>7. InversesRespectDependencies'
      BY <1>2 DEF SqlInv, InversesRespectDependencies, Dependants, Mutations
<1> QED BY <1>4, <1>5, <1>6, <1>7 DEF SqlInv

LEMMA CrashKeeps == ASSUME SqlTypes, SqlInv, CrashSql PROVE SqlInv'
<1>1. /\ UNCHANGED <<row, ledger, compensated, sqlHistory.writes, sqlHistory.touched>>
      /\ pending' = ledger /\ sqlCall'.mode = "idle" /\ sqlCall'.step = "start"
      /\ \A k \in Operation \X Modes : sqlCache'[k] = 0
      BY DEF CrashSql, SqlTypes, History, Idle
<1>2. \A o \in Operation, mode \in Modes : sqlCache'[StepKey(o, mode)] = 0
      BY <1>1 DEF StepKey
<1>3. GovernanceComesFirst' /\ ResultsComeFromWrites' /\ EarlierAreDone' /\ RestoreIsDue'
      BY <1>1, <1>2 DEF SqlInv, GovernanceComesFirst, ResultsComeFromWrites, EarlierAreDone,
                        RestoreIsDue, Writes
<1> QED BY <1>1, <1>2, <1>3, CallMoves

LEMMA SqlInvStep == SqlTypeOK /\ SqlInv /\ [SqlNext]_sqlVars => SqlInv'
<1> SUFFICES ASSUME SqlTypes, SqlInv, [SqlNext]_sqlVars PROVE SqlInv'
    BY SqlTyped
<1>1. CASE UNCHANGED sqlVars
  <2>1. GovernanceComesFirst' /\ ResultsComeFromWrites' /\ EarlierAreDone' /\ RestoreIsDue'
        BY <1>1 DEF sqlVars, SqlInv, GovernanceComesFirst, ResultsComeFromWrites, EarlierAreDone,
                    RestoreIsDue, Writes, Dependants, Mutations
  <2> QED BY <1>1, <2>1, CallMoves DEF sqlVars
<1> QED BY <1>1, GovernanceKeeps, RollbackKeeps, EditKeeps, CrashKeeps DEF SqlNext

-----------------------------------------------------------------------------
(* The CSV target. *)

Restored == {"succeeded", "already_restored"}
Live(step) == publisher.step = step

Refusals == SUBSET (CsvModes \cup {"plan"})
CsvHistory == [edits : Nat, crashes : Nat, attempts : Nat, refused : Refusals,
               raced : BOOLEAN, current : BOOLEAN]

\* The types of everything but the ledger, whose outcomes are defined by recursion.
CsvTypes ==
    /\ live \in File /\ managed \in Seq(File)
    /\ published \in [CsvModes -> Published \cup {"none"}]
    /\ publisher \in [mode : CsvModes \cup {"none"},
                      step : {"none", "checked", "replaced", "current", "copied"}]
    /\ inverse \in [file : File \cup {Missing}, baseline : Nat, planned : File \cup {Missing},
                    checkpoint : [CsvOperation -> InverseStatuses]]
    /\ csvHistory \in CsvHistory

\* The published content is settled before a rollback begins, and a publisher at
\* work has not been settled.
PublicationsInOrder ==
    /\ inverse.baseline # 0 \/ publisher.step \in {"current", "copied"} =>
         Succeeded = CsvOperation /\ published["governance"] \in Published
    /\ publisher.step \in {"current", "copied"} => inverse.baseline = 0
    /\ publisher.step \in {"checked", "replaced"} =>
         /\ publisher.mode \in CsvModes /\ published[publisher.mode] = "none"
         /\ ReadyToPublish(publisher.mode)
    /\ \A mode \in CsvModes : published[mode] \in Published => ReadyToPublish(mode)
    /\ Live("copied") => inverse.file \in File

\* The chain of versions: it begins with the file of the task, and an inverse only
\* touches rows that have the operation's result.
VersionsGrow ==
    /\ managed # <<>> /\ managed[1] = Initial /\ inverse.baseline \in 0..Len(managed)
    /\ inverse.baseline = 0 => \A o \in CsvOperation : inverse.checkpoint[o] = "none"
    /\ inverse.baseline # 0 =>
         /\ \A o \in CsvOperation : managed[inverse.baseline][o] = "other" => CurrentVersion(managed)[o] = "other"
         /\ \A o \in CsvOperation : inverse.checkpoint[o] \in Restored => CurrentVersion(managed)[o] = Initial[o]
         /\ HasOutput("rollback") \/ Len(managed) = inverse.baseline

\* What a publisher has compared is there, unless the owner was faster.
CheckedIsExpected == Live("checked") /\ ~csvHistory.raced => live = Expected(publisher.mode)

\* As long as nobody edits the file after a rollback was planned, it is the
\* rollback's baseline or its output.
CurrentIsKnown ==
    /\ csvHistory.current /\ Live("current") => live = CurrentVersion(managed)
    /\ csvHistory.current /\ Live("copied") => live = inverse.file
    /\ csvHistory.current /\ inverse.baseline # 0 =>
         \/ live = managed[inverse.baseline]
         \/ ReadyToPublish("rollback") /\ live = CurrentVersion(managed)
    /\ csvHistory.current /\ inverse.baseline # 0
       /\ (published["rollback"] \in Published \/ Live("replaced")) => live = CurrentVersion(managed)
    /\ "rollback" \in csvHistory.refused => inverse.baseline # 0 /\ ~csvHistory.current

\* As long as nobody edits it at all, it is the task's file or its output.
UneditedIsKnown ==
    csvHistory.edits = 0 =>
        /\ csvHistory.current /\ csvHistory.refused = {}
        /\ inverse.baseline = 0 =>
             \/ live = Initial /\ published["governance"] = "none"
             \/ live = Initial /\ Succeeded = {}
             \/ ReadyToPublish("governance") /\ live = CurrentVersion(managed)
        /\ inverse.baseline = 0 /\ Live("replaced") => live = CurrentVersion(managed)

CsvInv ==
    /\ CsvTypes /\ PublicationsInOrder /\ VersionsGrow /\ CheckedIsExpected /\ CurrentIsKnown
    /\ UneditedIsKnown

-----------------------------------------------------------------------------
(* The chain of versions *)

LEMMA ValuesAreTyped ==
    /\ Initial \in File
    /\ \A o \in CsvOperation : /\ Executed(o) \in CsvValues /\ Executed(o) # "other"
                               /\ Initial[o] # "other"
BY DEF Initial, File, Executed, CsvValues

LEMMA LastOfChain ==
    ASSUME NEW chain \in Seq(File), chain # <<>>
    PROVE  /\ Len(chain) \in Nat \ {0}
           /\ \A i \in 1..Len(chain) : chain[i] \in File
           /\ CurrentVersion(chain) \in File /\ CurrentVersion(chain) = chain[Len(chain)]
BY DEF CurrentVersion

LEMMA ChainGrows ==
    ASSUME NEW chain \in Seq(File), NEW file \in File
    PROVE  /\ Append(chain, file) \in Seq(File) /\ Append(chain, file) # <<>>
           /\ CurrentVersion(Append(chain, file)) = file
           /\ Len(Append(chain, file)) = Len(chain) + 1
           /\ \A i \in 1..Len(chain) : Append(chain, file)[i] = chain[i]
BY DEF CurrentVersion

LEMMA HistoryStarts ==
    [edits |-> 0, crashes |-> 0, attempts |-> 0, refused |-> {},
     raced |-> FALSE, current |-> TRUE] \in CsvHistory
<1>1. {} \in Refusals
      BY DEF Refusals
<1> QED BY <1>1 DEF CsvHistory

LEMMA HistoryGrows ==
    ASSUME NEW h \in CsvHistory, NEW raced \in BOOLEAN, NEW refused \in Refusals
    PROVE  /\ [h EXCEPT !.attempts = h.attempts + 1, !.raced = FALSE] \in CsvHistory
           /\ [h EXCEPT !.attempts = h.attempts + 1, !.refused = refused] \in CsvHistory
           /\ [h EXCEPT !.attempts = h.attempts + 1, !.current = TRUE] \in CsvHistory
           /\ [h EXCEPT !.edits = h.edits + 1, !.current = FALSE, !.raced = raced] \in CsvHistory
           /\ [h EXCEPT !.crashes = h.crashes + 1] \in CsvHistory
<1>1. h.attempts + 1 \in Nat /\ h.edits + 1 \in Nat /\ h.crashes + 1 \in Nat
      BY DEF CsvHistory
<1>2. \A n \in Nat : [h EXCEPT !.attempts = n, !.raced = FALSE] \in CsvHistory
      BY DEF CsvHistory
<1>3. \A n \in Nat : [h EXCEPT !.attempts = n, !.refused = refused] \in CsvHistory
      BY DEF CsvHistory
<1>4. \A n \in Nat : [h EXCEPT !.attempts = n, !.current = TRUE] \in CsvHistory
      BY DEF CsvHistory
<1>5. \A n \in Nat : [h EXCEPT !.edits = n, !.current = FALSE, !.raced = raced] \in CsvHistory
      BY DEF CsvHistory
<1>6. \A n \in Nat : [h EXCEPT !.crashes = n] \in CsvHistory
      BY DEF CsvHistory
<1> QED BY <1>1, <1>2, <1>3, <1>4, <1>5, <1>6

LEMMA CsvInvInit == CsvInit => CsvInv
<1> SUFFICES ASSUME CsvInit PROVE CsvInv
    OBVIOUS
<1>1. /\ managed = <<Initial>> /\ managed \in Seq(File) /\ Len(managed) = 1
      /\ managed[1] = Initial /\ CurrentVersion(managed) = Initial
      BY ValuesAreTyped DEF CsvInit, CurrentVersion
<1>2. CsvTypes
  <2>1. inverse \in [file : File \cup {Missing}, baseline : Nat, planned : File \cup {Missing},
                     checkpoint : [CsvOperation -> InverseStatuses]]
        BY DEF CsvInit, Missing, InverseStatuses
  <2>2. publisher \in [mode : CsvModes \cup {"none"},
                       step : {"none", "checked", "replaced", "current", "copied"}]
        BY DEF CsvInit, Resting
  <2>3. csvHistory \in CsvHistory
        BY HistoryStarts DEF CsvInit
  <2> QED BY <1>1, <2>1, <2>2, <2>3, ValuesAreTyped DEF CsvInit, CsvTypes
<1>3. /\ publisher.step = "none" /\ inverse.baseline = 0 /\ live = Initial
      /\ \A o \in CsvOperation : inverse.checkpoint[o] = "none"
      /\ \A mode \in CsvModes : published[mode] = "none"
      /\ csvHistory.refused = {} /\ csvHistory.current /\ "governance" \in CsvModes
      BY DEF CsvInit, Resting, CsvModes
<1>4. "none" \notin Published
      BY DEF Published
<1> QED BY <1>1, <1>2, <1>3, <1>4
        DEF CsvInv, PublicationsInOrder, VersionsGrow, CheckedIsExpected, CurrentIsKnown,
            UneditedIsKnown, Live

-----------------------------------------------------------------------------
(* The steps *)

LEMMA ExecuteKeeps == ASSUME CsvInv, Execute PROVE CsvInv'
<1>1. /\ UNCHANGED <<live, published, publisher, inverse, csvHistory>>
      /\ \A o \in CsvOperation : csvStatus[o] = "pending"
      /\ CsvOperation # {}
      BY CsvAssumption DEF Execute
<1>2. PICK done : managed' = IF done = {} THEN managed
                             ELSE Append(managed, [o \in CsvOperation |->
                                    IF o \in done THEN Executed(o) ELSE CurrentVersion(managed)[o]])
      BY DEF Execute
<1>3. /\ managed \in Seq(File) /\ managed # <<>> /\ CurrentVersion(managed) \in File
      BY LastOfChain DEF CsvInv, CsvTypes, VersionsGrow
<1>4. [o \in CsvOperation |-> IF o \in done THEN Executed(o) ELSE CurrentVersion(managed)[o]] \in File
      BY <1>3, ValuesAreTyped DEF File
<1>5. /\ managed' \in Seq(File) /\ managed' # <<>> /\ managed'[1] = managed[1]
      /\ 0 \in 0..Len(managed')
      BY <1>2, <1>3, <1>4, ChainGrows, LastOfChain
<1>6. ~ReadyToPublish("governance") /\ Succeeded = {}
      BY <1>1 DEF ReadyToPublish, Succeeded
<1>7. /\ inverse.baseline = 0 /\ "governance" \in CsvModes
      /\ ~ReadyToPublish("rollback")
      BY <1>1, <1>6 DEF CsvInv, PublicationsInOrder, ReadyToPublish, CsvModes
<1>8. /\ publisher.step \notin {"current", "copied", "checked", "replaced"}
      /\ \A mode \in CsvModes : published[mode] \notin Published
      BY <1>1, <1>6, <1>7 DEF CsvInv, PublicationsInOrder, CsvModes
<1>9. published["governance"] = "none"
      BY <1>7, <1>8 DEF CsvInv, CsvTypes
<1>10. CsvTypes'
       BY <1>1, <1>5 DEF CsvInv, CsvTypes
<1>11. PublicationsInOrder' /\ CheckedIsExpected'
       BY <1>1, <1>7, <1>8 DEF PublicationsInOrder, CheckedIsExpected, Live
<1>12. VersionsGrow'
       BY <1>1, <1>5, <1>7 DEF CsvInv, VersionsGrow
<1>13. CurrentIsKnown'
       BY <1>1, <1>7, <1>8 DEF CsvInv, CurrentIsKnown, Live
<1>14. UneditedIsKnown'
       BY <1>1, <1>6, <1>7, <1>8, <1>9 DEF CsvInv, UneditedIsKnown, Live
<1> QED BY <1>10, <1>11, <1>12, <1>13, <1>14 DEF CsvInv

\* What a publication may do while the versions and the rollback stay.
LEMMA ChainStays ==
    ASSUME CsvInv, UNCHANGED <<managed, csvStatus, inverse>>
    PROVE  /\ VersionsGrow'
           /\ \A mode : (ReadyToPublish(mode)' <=> ReadyToPublish(mode))
                        /\ (HasOutput(mode)' <=> HasOutput(mode))
           /\ Succeeded' = Succeeded
BY DEF CsvInv, VersionsGrow, ReadyToPublish, HasOutput, Succeeded

LEMMA SettleKeeps ==
    ASSUME CsvInv, NEW mode \in CsvModes, NEW status \in Published,
           Settle(mode, status), UNCHANGED <<live, managed, csvStatus, inverse, csvHistory>>,
           ReadyToPublish(mode),
           live = CurrentVersion(managed) \/ ~HasOutput(mode)
    PROVE  CsvInv'
<1>1. /\ publisher' = Resting /\ publisher'.step = "none"
      /\ published'[mode] = status
      /\ \A other \in CsvModes : other # mode => published'[other] = published[other]
      BY DEF Settle, Resting, CsvInv, CsvTypes
<1>2. CsvTypes'
      BY <1>1 DEF Settle, CsvInv, CsvTypes, Resting
<1>3. CsvModes = {"governance", "rollback"} /\ "none" \notin Published
      BY DEF CsvModes, Published
<1>4. PublicationsInOrder' /\ CheckedIsExpected'
      BY <1>1, <1>3, ChainStays DEF CsvInv, PublicationsInOrder, CheckedIsExpected, Live
<1>5. CurrentIsKnown'
  <2>1. mode = "rollback" /\ csvHistory.current => live = CurrentVersion(managed)
        BY DEF ReadyToPublish, CsvInv, CurrentIsKnown, VersionsGrow, CurrentVersion
  <2> QED BY <1>1, <1>3, <2>1, ChainStays DEF CsvInv, CurrentIsKnown, Live
<1>6. UneditedIsKnown'
  <2>1. mode = "governance" => live = CurrentVersion(managed) \/ Succeeded = {}
        BY DEF HasOutput
  <2>2. mode = "rollback" => inverse.baseline # 0
        BY DEF ReadyToPublish
  <2> QED BY <1>1, <1>3, <2>1, <2>2, ChainStays DEF CsvInv, UneditedIsKnown, Live
<1> QED BY <1>2, <1>4, <1>5, <1>6, ChainStays DEF CsvInv

LEMMA RefuseKeeps ==
    ASSUME CsvInv, NEW mode \in CsvModes \cup {"plan"}, Refuse(mode),
           UNCHANGED <<live, managed, csvStatus, inverse>>,
           csvHistory.edits # 0,
           mode = "rollback" => inverse.baseline # 0 /\ ~csvHistory.current
    PROVE  CsvInv'
<1>1. /\ publisher' = Resting /\ publisher'.step = "none" /\ published' = published
      /\ csvHistory'.edits = csvHistory.edits /\ csvHistory'.current = csvHistory.current
      /\ csvHistory'.refused = csvHistory.refused \cup {mode}
      BY DEF Refuse, Resting, CsvInv, CsvTypes, CsvHistory
<1>2. CsvTypes'
  <2>1. csvHistory \in CsvHistory
        BY DEF CsvInv, CsvTypes
  <2>2. csvHistory.refused \cup {mode} \in Refusals
        BY <2>1 DEF CsvHistory, Refusals
  <2>4. csvHistory' \in CsvHistory
        BY <2>1, <2>2, HistoryGrows DEF Refuse
  <2>3. publisher' \in [mode : CsvModes \cup {"none"},
                       step : {"none", "checked", "replaced", "current", "copied"}]
        BY <1>1 DEF Resting
  <2> QED BY <1>1, <2>3, <2>4 DEF CsvInv, CsvTypes
<1>3. PublicationsInOrder' /\ CheckedIsExpected'
      BY <1>1, ChainStays DEF CsvInv, PublicationsInOrder, CheckedIsExpected, Live
<1>4. CurrentIsKnown'
      BY <1>1, ChainStays DEF CsvInv, CurrentIsKnown, Live
<1>5. UneditedIsKnown'
      BY <1>1 DEF UneditedIsKnown
<1> QED BY <1>2, <1>3, <1>4, <1>5, ChainStays DEF CsvInv

\* Without an edit of the owner, the live file is expected or it is there already.
LEMMA OnlyEditsSurprise ==
    ASSUME CsvInv, NEW mode \in CsvModes, ReadyToPublish(mode), published[mode] = "none",
           live # CurrentVersion(managed), live # Expected(mode)
    PROVE  /\ csvHistory.edits # 0
           /\ mode = "rollback" => inverse.baseline # 0 /\ ~csvHistory.current
<1>1. CASE mode = "governance"
  <2>1. inverse.baseline = 0
        BY <1>1 DEF CsvInv, PublicationsInOrder, Published
  <2>2. live # Initial
        BY <1>1 DEF Expected, CsvInv, VersionsGrow
  <2> QED BY <1>1, <2>1, <2>2 DEF CsvInv, UneditedIsKnown
<1>2. CASE mode = "rollback"
  <2>1. inverse.baseline # 0
        BY <1>2 DEF ReadyToPublish
  <2>2. ~csvHistory.current
        BY <1>2, <2>1 DEF CsvInv, CurrentIsKnown, Expected
  <2> QED BY <2>1, <2>2 DEF CsvInv, UneditedIsKnown
<1> QED BY <1>1, <1>2 DEF CsvModes

LEMMA CheckKeeps == ASSUME CsvInv, CheckDestination PROVE CsvInv'
<1>1. PICK mode \in CsvModes :
        /\ publisher = Resting /\ published[mode] = "none" /\ ReadyToPublish(mode)
        /\ CASE ~HasOutput(mode) -> Settle(mode, "no_changes") /\ UNCHANGED csvHistory
             [] HasOutput(mode) /\ live = Output ->
                  Settle(mode, "already_published") /\ UNCHANGED csvHistory
             [] HasOutput(mode) /\ live # Output /\ live # Expected(mode) -> Refuse(mode)
             [] OTHER -> /\ publisher' = [mode |-> mode, step |-> "checked"]
                         /\ Attempt /\ UNCHANGED published
        /\ UNCHANGED <<live, managed, csvStatus, inverse>>
      BY DEF CheckDestination
<1>2. CASE ~HasOutput(mode)
      BY <1>1, <1>2, SettleKeeps DEF Published
<1>3. CASE HasOutput(mode) /\ live = Output
      BY <1>1, <1>3, SettleKeeps DEF Published, Output
<1>4. CASE HasOutput(mode) /\ live # Output /\ live # Expected(mode)
  <2>1. Refuse(mode)
        BY <1>1, <1>4
  <2> QED BY <1>1, <1>4, <2>1, OnlyEditsSurprise, RefuseKeeps DEF Output
<1>5. CASE HasOutput(mode) /\ live # Output /\ live = Expected(mode)
  <2>1. /\ publisher' = [mode |-> mode, step |-> "checked"] /\ published' = published
        /\ Attempt
        BY <1>1, <1>5
  <2>2. /\ csvHistory'.edits = csvHistory.edits /\ csvHistory'.current = csvHistory.current
        /\ csvHistory'.refused = csvHistory.refused
        BY <2>1 DEF Attempt, CsvInv, CsvTypes, CsvHistory
  <2>3. CsvTypes'
    <3>0. csvHistory \in CsvHistory
          BY DEF CsvInv, CsvTypes
    <3>2. csvHistory.refused \in Refusals
          BY <3>0 DEF CsvHistory
    <3>1. csvHistory' \in CsvHistory
          BY <2>1, <3>0, <3>2, HistoryGrows DEF Attempt
    <3> QED BY <1>1, <2>1, <3>1 DEF CsvInv, CsvTypes
  <2>4. PublicationsInOrder'
        BY <1>1, <2>1, ChainStays DEF CsvInv, PublicationsInOrder, Live
  <2>5. CheckedIsExpected'
        BY <1>1, <1>5, <2>1 DEF CheckedIsExpected, Expected
  <2>6. CurrentIsKnown' /\ UneditedIsKnown'
        BY <1>1, <2>1, <2>2, ChainStays DEF CsvInv, CurrentIsKnown, UneditedIsKnown, Live
  <2> QED BY <1>1, <2>3, <2>4, <2>5, <2>6, ChainStays DEF CsvInv
<1> QED BY <1>2, <1>3, <1>4, <1>5

LEMMA ReplaceKeeps == ASSUME CsvInv, Replace PROVE CsvInv'
<1>1. /\ UNCHANGED <<managed, csvStatus, published, inverse, csvHistory>>
      /\ publisher.step = "checked" /\ publisher'.step = "replaced"
      /\ publisher'.mode = publisher.mode /\ live' = CurrentVersion(managed)
      BY DEF Replace, CsvInv, CsvTypes, Output
<1>2. /\ publisher.mode \in CsvModes /\ published[publisher.mode] = "none"
      /\ ReadyToPublish(publisher.mode)
      BY <1>1 DEF CsvInv, PublicationsInOrder
<1>3. CsvTypes'
  <2>1. CurrentVersion(managed) \in File
        BY LastOfChain DEF CsvInv, CsvTypes, VersionsGrow
  <2> QED BY <1>1, <2>1 DEF Replace, CsvInv, CsvTypes
<1>4. PublicationsInOrder' /\ CheckedIsExpected'
      BY <1>1, <1>2, ChainStays DEF CsvInv, PublicationsInOrder, CheckedIsExpected, Live
<1>5. \/ publisher.mode = "governance" /\ inverse.baseline = 0 /\ ReadyToPublish("governance")
      \/ publisher.mode = "rollback" /\ inverse.baseline # 0 /\ ReadyToPublish("rollback")
      BY <1>2 DEF CsvInv, PublicationsInOrder, CsvModes, ReadyToPublish, Published
<1>6. CurrentIsKnown'
      BY <1>1, <1>5, ChainStays DEF CsvInv, CurrentIsKnown, Live
<1>7. UneditedIsKnown'
      BY <1>1, <1>5, ChainStays DEF CsvInv, UneditedIsKnown, Live
<1> QED BY <1>1, <1>3, <1>4, <1>6, <1>7, ChainStays DEF CsvInv

LEMMA ConfirmPublicationKeeps == ASSUME CsvInv, ConfirmPublication PROVE CsvInv'
<1>1. /\ UNCHANGED <<live, managed, csvStatus, inverse>>
      /\ publisher.step = "replaced" /\ publisher.mode \in CsvModes
      /\ published[publisher.mode] = "none" /\ ReadyToPublish(publisher.mode)
      BY DEF ConfirmPublication, CsvInv, PublicationsInOrder
<1>2. CASE live = Output /\ Settle(publisher.mode, "published") /\ UNCHANGED csvHistory
      BY <1>1, <1>2, SettleKeeps DEF Published, Output
<1>3. CASE live # CurrentVersion(managed) /\ Refuse(publisher.mode)
  <2>1. inverse.baseline # 0 => ~csvHistory.current
        BY <1>1, <1>3 DEF CsvInv, CurrentIsKnown, Live
  <2>2. csvHistory.edits # 0
        BY <1>1, <1>3, <2>1 DEF CsvInv, UneditedIsKnown, Live
  <2>3. publisher.mode = "rollback" => inverse.baseline # 0
        BY <1>1 DEF ReadyToPublish
  <2> QED BY <1>1, <1>3, <2>1, <2>2, <2>3, RefuseKeeps
<1> QED BY <1>2, <1>3 DEF ConfirmPublication, Output

LEMMA CopyKeeps == ASSUME CsvInv, CopyBaseline PROVE CsvInv'
<1>1. /\ UNCHANGED <<live, managed, csvStatus>> /\ inverse.baseline = 0
      /\ publisher = Resting /\ publisher.step = "none"
      /\ Succeeded = CsvOperation /\ published["governance"] \in Published
      /\ Succeeded # {}
      BY CsvAssumption DEF CopyBaseline, Resting
<1>2. CASE live # CurrentVersion(managed) /\ Refuse("plan") /\ UNCHANGED inverse
  <2>1. csvHistory.edits # 0
        BY <1>1, <1>2 DEF CsvInv, UneditedIsKnown, Published
  <2> QED BY <1>1, <1>2, <2>1, RefuseKeeps
<1>3. CASE /\ inverse' = [inverse EXCEPT !.file = IF live = CurrentVersion(managed) THEN @ ELSE live]
           /\ publisher' = [mode |-> "rollback",
                            step |-> IF live = CurrentVersion(managed) THEN "current" ELSE "copied"]
           /\ csvHistory' = [csvHistory EXCEPT !.attempts = @ + 1, !.current = TRUE]
           /\ UNCHANGED published
  <2>1. /\ csvHistory' \in CsvHistory /\ csvHistory'.current
        /\ csvHistory'.edits = csvHistory.edits /\ csvHistory'.refused = csvHistory.refused
    <3>1. csvHistory \in CsvHistory /\ csvHistory.refused \in Refusals
          BY DEF CsvInv, CsvTypes, CsvHistory
    <3>2. csvHistory' \in CsvHistory
          BY <1>3, <3>1, HistoryGrows
    <3> QED BY <1>3, <3>1, <3>2 DEF CsvHistory
  <2>2. /\ inverse'.baseline = 0 /\ inverse'.checkpoint = inverse.checkpoint
        /\ live # CurrentVersion(managed) => inverse'.file = live
        /\ inverse' \in [file : File \cup {Missing}, baseline : Nat, planned : File \cup {Missing},
                         checkpoint : [CsvOperation -> InverseStatuses]]
        BY <1>1, <1>3 DEF CsvInv, CsvTypes
  <2>3. /\ publisher'.step = IF live = CurrentVersion(managed) THEN "current" ELSE "copied"
        /\ publisher' \in [mode : CsvModes \cup {"none"},
                           step : {"none", "checked", "replaced", "current", "copied"}]
        BY <1>3 DEF CsvModes
  <2>4. CsvTypes'
        BY <1>1, <1>3, <2>1, <2>2, <2>3 DEF CsvInv, CsvTypes
  <2>5. \A mode \in CsvModes : published[mode] \in Published => ReadyToPublish(mode)'
    <3>1. "rollback" \in CsvModes /\ ~ReadyToPublish("rollback")
          BY <1>1 DEF CsvModes, ReadyToPublish
    <3>2. ReadyToPublish("governance")' <=> ReadyToPublish("governance")
          BY <1>1 DEF ReadyToPublish
    <3> QED BY <3>1, <3>2 DEF CsvInv, PublicationsInOrder, CsvModes
  <2>6. PublicationsInOrder' /\ CheckedIsExpected'
    <3>1. Succeeded' = Succeeded /\ live \in File
          BY <1>1 DEF Succeeded, CsvInv, CsvTypes
    <3> QED BY <1>1, <1>3, <2>2, <2>3, <2>5, <3>1 DEF PublicationsInOrder, CheckedIsExpected, Live
  <2>7. VersionsGrow'
        BY <1>1, <2>2 DEF CsvInv, VersionsGrow
  <2>8. CurrentIsKnown'
        BY <1>1, <2>1, <2>2, <2>3 DEF CsvInv, CurrentIsKnown, Live
  <2>9. UneditedIsKnown'
        BY <1>1, <1>3, <2>1, <2>2, <2>3
           DEF CsvInv, UneditedIsKnown, Live, ReadyToPublish, Succeeded
  <2> QED BY <2>4, <2>6, <2>7, <2>8, <2>9 DEF CsvInv
<1> QED BY <1>2, <1>3 DEF CopyBaseline

LEMMA PlanKeeps == ASSUME CsvInv, PlanInverse PROVE CsvInv'
<1>1. /\ UNCHANGED <<live, csvStatus, published, csvHistory>>
      /\ publisher.step \in {"current", "copied"} /\ publisher' = Resting
      /\ publisher'.step = "none" /\ inverse.baseline = 0
      /\ Succeeded = CsvOperation /\ published["governance"] \in Published
      BY DEF PlanInverse, Resting, CsvInv, PublicationsInOrder
<1>2. /\ managed' = IF publisher.step = "current" THEN managed ELSE Append(managed, inverse.file)
      /\ managed \in Seq(File) /\ managed # <<>>
      /\ publisher.step = "copied" => inverse.file \in File
      BY <1>1 DEF PlanInverse, CsvInv, CsvTypes, VersionsGrow, PublicationsInOrder, Live
<1>3. /\ managed' \in Seq(File) /\ managed' # <<>> /\ managed'[1] = managed[1]
      /\ publisher.step = "current" => CurrentVersion(managed') = CurrentVersion(managed)
      /\ publisher.step = "copied" => CurrentVersion(managed') = inverse.file
      BY <1>1, <1>2, ChainGrows, LastOfChain
<1>4. Len(managed') \in Nat \ {0} /\ CurrentVersion(managed') = managed'[Len(managed')] /\ CurrentVersion(managed') \in File
      BY <1>3, LastOfChain
<1>5. /\ inverse'.baseline = Len(managed') /\ inverse'.checkpoint = inverse.checkpoint
      /\ inverse' \in [file : File \cup {Missing}, baseline : Nat, planned : File \cup {Missing},
                       checkpoint : [CsvOperation -> InverseStatuses]]
  <2>1. [o \in Succeeded |-> CurrentVersion(managed')[o]] \in File
        BY <1>1, <1>4 DEF File
  <2>2. inverse' = [inverse EXCEPT !.baseline = Len(managed'),
                                   !.planned = [o \in Succeeded |-> CurrentVersion(managed')[o]]]
        BY DEF PlanInverse
  <2> QED BY <1>4, <2>1, <2>2 DEF CsvInv, CsvTypes
<1>6. CsvTypes'
      BY <1>1, <1>3, <1>5 DEF CsvInv, CsvTypes, Resting
<1>7. /\ ~ReadyToPublish("rollback") /\ "rollback" \in CsvModes
      /\ published["rollback"] \notin Published
      /\ "rollback" \notin csvHistory.refused
      BY <1>1 DEF ReadyToPublish, CsvModes, CsvInv, PublicationsInOrder, CurrentIsKnown
<1>8. PublicationsInOrder' /\ CheckedIsExpected'
  <2>1. ReadyToPublish("governance")' <=> ReadyToPublish("governance")
        BY <1>1 DEF ReadyToPublish
  <2>2. Succeeded' = Succeeded
        BY <1>1 DEF Succeeded
  <2> QED BY <1>1, <1>7, <2>1, <2>2
          DEF CsvInv, PublicationsInOrder, CheckedIsExpected, Live, CsvModes
<1>9. VersionsGrow'
  <2>1. \A o \in CsvOperation : inverse.checkpoint[o] = "none"
        BY <1>1 DEF CsvInv, VersionsGrow
  <2>2. managed'[1] = Initial
        BY <1>3 DEF CsvInv, VersionsGrow
  <2> QED BY <1>3, <1>4, <1>5, <2>1, <2>2 DEF VersionsGrow, Restored
<1>10. CurrentIsKnown'
  <2>1. csvHistory.current => live = CurrentVersion(managed')
        BY <1>1, <1>3 DEF CsvInv, CurrentIsKnown, Live
  <2> QED BY <1>1, <1>4, <1>5, <1>7, <2>1 DEF CurrentIsKnown, Live
<1>11. UneditedIsKnown'
       BY <1>1, <1>4, <1>5 DEF CsvInv, UneditedIsKnown
<1> QED BY <1>6, <1>8, <1>9, <1>10, <1>11 DEF CsvInv

LEMMA RestoreOperationKeeps == ASSUME CsvInv, RestoreOperation PROVE CsvInv'
<1> DEFINE open == {p \in Succeeded : inverse.checkpoint[p] = "none"}
<1>1. /\ UNCHANGED <<live, csvStatus, published, publisher, csvHistory>>
      /\ inverse.baseline # 0 /\ open # {}
      BY DEF RestoreOperation
<1>2. Max(open) \in open
  <2>1. open \subseteq CsvOperation
        BY DEF Succeeded
  <2>2. IsFiniteSet(open) /\ open \subseteq Int
    <3>1. open \in SUBSET CsvOperation /\ IsFiniteSet(CsvOperation) /\ CsvOperation \subseteq Int
          BY <2>1, CsvAssumption
    <3> HIDE DEF open
    <3> QED BY <3>1, FS_Subset
  <2> QED BY <1>1, <2>2, MaxOfFinite
<1>3. PICK o \in open, status \in InverseStatuses \ {"none"} :
        /\ inverse' = [inverse EXCEPT !.checkpoint[o] = status]
        /\ managed' = IF status = "succeeded"
                        THEN Append(managed, [CurrentVersion(managed) EXCEPT ![o] = Initial[o]])
                        ELSE managed
        /\ status = "succeeded" => CurrentVersion(managed)[o] = Executed(o)
        /\ status = "already_restored" => CurrentVersion(managed)[o] = Initial[o]
      BY <1>2 DEF RestoreOperation, InverseOutcome, CsvDisposition, InverseStatuses
<1>4. /\ o \in CsvOperation /\ inverse.checkpoint[o] = "none" /\ csvStatus[o] = "succeeded"
      BY <1>3 DEF Succeeded
<1>5. /\ managed \in Seq(File) /\ managed # <<>> /\ CurrentVersion(managed) \in File
      /\ inverse.baseline \in 1..Len(managed)
      BY <1>1, LastOfChain DEF CsvInv, CsvTypes, VersionsGrow
<1>6. /\ inverse'.baseline = inverse.baseline /\ inverse'.checkpoint[o] = status
      /\ \A p \in CsvOperation : p # o => inverse'.checkpoint[p] = inverse.checkpoint[p]
      /\ inverse' \in [file : File \cup {Missing}, baseline : Nat, planned : File \cup {Missing},
                       checkpoint : [CsvOperation -> InverseStatuses]]
      /\ inverse'.file = inverse.file
  <2>1. [inverse.checkpoint EXCEPT ![o] = status] \in [CsvOperation -> InverseStatuses]
        BY <1>4 DEF CsvInv, CsvTypes
  <2> QED BY <1>3, <1>4, <2>1 DEF CsvInv, CsvTypes
<1>7. [CurrentVersion(managed) EXCEPT ![o] = Initial[o]] \in File
      BY <1>4, <1>5, ValuesAreTyped DEF File
<1>8. /\ managed' \in Seq(File) /\ managed' # <<>> /\ managed'[1] = managed[1]
      /\ managed'[inverse.baseline] = managed[inverse.baseline]
      /\ inverse.baseline \in 0..Len(managed')
      /\ status = "succeeded" => CurrentVersion(managed') = [CurrentVersion(managed) EXCEPT ![o] = Initial[o]]
  <2>1. Len(managed) \in Nat \ {0}
        BY <1>5, LastOfChain
  <2>2. CASE status = "succeeded"
        BY <1>3, <1>5, <1>7, <2>1, <2>2, ChainGrows
  <2>3. CASE status # "succeeded"
        BY <1>3, <1>5, <2>1, <2>3
  <2> QED BY <2>2, <2>3
<1>9. ~ReadyToPublish("rollback") /\ "rollback" \in CsvModes /\ "governance" \in CsvModes
      BY <1>1 DEF ReadyToPublish, CsvModes
<1>10. /\ publisher.step \notin {"current", "copied", "checked", "replaced"}
       /\ published["rollback"] \notin Published
  <2>1. published["governance"] # "none"
        BY <1>1 DEF CsvInv, PublicationsInOrder, Published
  <2> QED BY <1>1, <1>9, <2>1 DEF CsvInv, PublicationsInOrder, CsvModes
<1>11. CsvTypes'
       BY <1>1, <1>6, <1>8 DEF CsvInv, CsvTypes
<1>12. PublicationsInOrder' /\ CheckedIsExpected'
  <2>1. ReadyToPublish("governance")' <=> ReadyToPublish("governance")
        BY <1>1 DEF ReadyToPublish
  <2>2. Succeeded' = Succeeded
        BY <1>1 DEF Succeeded
  <2> QED BY <1>1, <1>6, <1>9, <1>10, <2>1, <2>2
          DEF CsvInv, PublicationsInOrder, CheckedIsExpected, Live, CsvModes
<1>13. VersionsGrow'
  <2>1. \A p \in CsvOperation : p # o => CurrentVersion(managed')[p] = CurrentVersion(managed)[p]
        BY <1>3, <1>4, <1>5, <1>8 DEF File
  <2>2. status \in Restored => CurrentVersion(managed')[o] = Initial[o]
        BY <1>3, <1>4, <1>5, <1>8 DEF File, Restored
  <2>3. \A p \in CsvOperation :
           managed'[inverse.baseline][p] = "other" => CurrentVersion(managed')[p] = "other"
    <3>1. \A p \in CsvOperation :
             managed[inverse.baseline][p] = "other" => CurrentVersion(managed)[p] = "other"
          BY <1>1 DEF CsvInv, VersionsGrow
    <3>2. CASE status = "succeeded"
          BY <1>3, <1>4, <1>8, <2>1, <3>1, <3>2, ValuesAreTyped
    <3>3. CASE status # "succeeded"
          BY <1>3, <1>8, <3>1, <3>3
    <3> QED BY <3>2, <3>3
  <2>4. HasOutput("rollback")' \/ Len(managed') = inverse.baseline
    <3>1. CASE status = "succeeded"
          BY <1>4, <1>6, <3>1 DEF HasOutput
    <3>2. CASE status # "succeeded" /\ HasOutput("rollback")
      <4>1. PICK p \in CsvOperation : inverse.checkpoint[p] = "succeeded"
            BY <3>2 DEF HasOutput
      <4> QED BY <1>4, <1>6, <4>1 DEF HasOutput
    <3>3. CASE status # "succeeded" /\ Len(managed) = inverse.baseline
          BY <1>3, <3>3
    <3> QED BY <1>1, <3>1, <3>2, <3>3 DEF CsvInv, VersionsGrow
  <2>5. \A p \in CsvOperation : inverse'.checkpoint[p] \in Restored => CurrentVersion(managed')[p] = Initial[p]
        BY <1>1, <1>6, <2>1, <2>2 DEF CsvInv, VersionsGrow
  <2>6. managed'[1] = Initial
        BY <1>8 DEF CsvInv, VersionsGrow
  <2> QED BY <1>1, <1>6, <1>8, <2>3, <2>4, <2>5, <2>6 DEF VersionsGrow
<1>14. CurrentIsKnown'
       BY <1>1, <1>6, <1>8, <1>9, <1>10 DEF CsvInv, CurrentIsKnown, Live
<1>15. UneditedIsKnown'
       BY <1>1, <1>6 DEF CsvInv, UneditedIsKnown
<1> QED BY <1>11, <1>12, <1>13, <1>14, <1>15 DEF CsvInv

LEMMA EnvironmentKeeps == ASSUME CsvInv, EditLive \/ CrashCsv PROVE CsvInv'
<1>1. CASE EditLive
  <2>1. /\ UNCHANGED <<managed, csvStatus, published, publisher, inverse>>
        /\ csvHistory' = [csvHistory EXCEPT
             !.edits = @ + 1, !.current = FALSE,
             !.raced = @ \/ publisher.step = "checked"]
        BY <1>1 DEF EditLive
  <2>2. live' \in File
        BY <1>1 DEF EditLive, CsvInv, CsvTypes, File, CsvValues
  <2>3. /\ csvHistory' \in CsvHistory /\ csvHistory'.edits = csvHistory.edits + 1
        /\ ~csvHistory'.current /\ csvHistory'.refused = csvHistory.refused
        /\ publisher.step = "checked" => csvHistory'.raced
        /\ csvHistory.edits \in Nat
    <3>1. csvHistory \in CsvHistory /\ csvHistory.refused \in Refusals
          BY DEF CsvInv, CsvTypes, CsvHistory
    <3>2. (csvHistory.raced \/ publisher.step = "checked") \in BOOLEAN
          OBVIOUS
    <3>3. csvHistory' = [csvHistory EXCEPT
             !.edits = csvHistory.edits + 1, !.current = FALSE,
             !.raced = (csvHistory.raced \/ publisher.step = "checked")]
          BY <2>1
    <3>4. csvHistory' \in CsvHistory
          BY <3>1, <3>2, <3>3, HistoryGrows
    <3> QED BY <3>1, <3>3, <3>4 DEF CsvHistory
  <2>4. CsvTypes'
        BY <2>1, <2>2, <2>3 DEF CsvInv, CsvTypes
  <2>5. PublicationsInOrder' /\ CheckedIsExpected'
        BY <2>1, <2>3, ChainStays DEF CsvInv, PublicationsInOrder, CheckedIsExpected, Live
  <2>6. CurrentIsKnown' /\ UneditedIsKnown'
        BY <2>1, <2>3 DEF CsvInv, CurrentIsKnown, UneditedIsKnown
  <2> QED BY <2>1, <2>4, <2>5, <2>6, ChainStays DEF CsvInv
<1>2. CASE CrashCsv
  <2>1. /\ UNCHANGED <<live, managed, csvStatus, published, inverse>>
        /\ publisher' = Resting /\ publisher'.step = "none"
        /\ csvHistory' = [csvHistory EXCEPT !.crashes = @ + 1]
        BY <1>2 DEF CrashCsv, Resting
  <2>2. /\ csvHistory' \in CsvHistory /\ csvHistory'.edits = csvHistory.edits
        /\ csvHistory'.current = csvHistory.current /\ csvHistory'.refused = csvHistory.refused
    <3>1. csvHistory \in CsvHistory /\ csvHistory.refused \in Refusals
          BY DEF CsvInv, CsvTypes, CsvHistory
    <3>2. csvHistory' \in CsvHistory
          BY <2>1, <3>1, HistoryGrows
    <3> QED BY <2>1, <3>1, <3>2 DEF CsvHistory
  <2>3. CsvTypes'
        BY <2>1, <2>2 DEF CsvInv, CsvTypes, Resting
  <2>4. PublicationsInOrder' /\ CheckedIsExpected'
        BY <2>1, ChainStays DEF CsvInv, PublicationsInOrder, CheckedIsExpected, Live
  <2>5. CurrentIsKnown' /\ UneditedIsKnown'
        BY <2>1, <2>2, ChainStays DEF CsvInv, CurrentIsKnown, UneditedIsKnown, Live
  <2> QED BY <2>1, <2>3, <2>4, <2>5, ChainStays DEF CsvInv
<1> QED BY <1>1, <1>2

LEMMA CsvInvStep == CsvInv /\ [CsvNext]_csvVars => CsvInv'
<1> SUFFICES ASSUME CsvInv, [CsvNext]_csvVars PROVE CsvInv'
    OBVIOUS
<1>1. CASE UNCHANGED csvVars
  <2>1. UNCHANGED <<live, managed, csvStatus, published, publisher, inverse, csvHistory>>
        BY <1>1 DEF csvVars
  <2>2. CsvTypes' /\ PublicationsInOrder' /\ CheckedIsExpected'
        BY <2>1, ChainStays DEF CsvInv, CsvTypes, PublicationsInOrder, CheckedIsExpected, Live, Expected
  <2>3. CurrentIsKnown' /\ UneditedIsKnown'
        BY <2>1, ChainStays DEF CsvInv, CurrentIsKnown, UneditedIsKnown, Live
  <2> QED BY <2>1, <2>2, <2>3, ChainStays DEF CsvInv
<1> QED BY <1>1, ExecuteKeeps, CheckKeeps, ReplaceKeeps, ConfirmPublicationKeeps, CopyKeeps,
           PlanKeeps, RestoreOperationKeeps, EnvironmentKeeps DEF CsvNext

-----------------------------------------------------------------------------
(* The edits of the owners *)

\* A write of the program finds the value it is to replace, which is never one
\* the owner wrote.
LEMMA TableEditsStep ==
    ASSUME SqlTypeOK, [SqlNext]_sqlVars
    PROVE  \A o \in Operation : row[o].value = "other" /\ row'[o] # row[o]
                                 => sqlHistory'.edits # sqlHistory.edits
<1> SUFFICES ASSUME NEW o \in Operation, row[o].value = "other", row'[o] # row[o]
             PROVE  sqlHistory'.edits # sqlHistory.edits
    OBVIOUS
<1>0. row \in [Operation -> Row] /\ sqlHistory.edits \in Nat
      BY DEF SqlTypeOK, Row
<1>1. CASE Edit
  <2>1. sqlHistory'.edits = sqlHistory.edits + 1
        BY <1>1 DEF Edit, SqlTypeOK
  <2> QED BY <1>0, <2>1
<1>2. ASSUME NEW p \in Operation, NEW mode \in Modes, Apply(p, mode) PROVE FALSE
  <2>1. row' # row /\ From(p, mode) # "other"
        BY DEF From
  <2>2. Mutable(p, mode, sqlCall.seen) /\ Mutate(p, mode)
        BY <1>2, <2>1 DEF Apply, Raise
  <2>3. p # o
        BY <2>1, <2>2 DEF Mutable
  <2>4. row'[o] = row[o]
        BY <1>0, <2>2, <2>3 DEF Mutate
  <2> QED BY <2>4
<1>3. CASE Write \/ Restore
  <2>1. sqlCall.at \in Operation /\ {"governance", "rollback"} \subseteq Modes /\ row' # row
        BY <1>3 DEF Write, Restore, Working, Modes
  <2>2. Apply(sqlCall.at, "governance") \/ Apply(sqlCall.at, "rollback")
        BY <1>3, <2>1 DEF Write, Restore, Raise
  <2> QED BY <1>2, <2>1, <2>2
<1>4. CASE UNCHANGED row
      BY <1>4
<1>5. CASE Begin \/ SkipOrBlock \/ Observe \/ Recover \/ Record \/ Commit
      BY <1>4, <1>5 DEF Begin, SkipOrBlock, Observe, Recover, Record, Commit, Outcome, Raise,
                        ReadVersion
<1>6. CASE PlanRollback \/ BeginRestore \/ ObserveRestore \/ Compare \/ RecordRestore \/ CrashSql
      BY <1>4, <1>6 DEF PlanRollback, BeginRestore, ObserveRestore, Compare, RecordRestore,
                        CrashSql, Checkpoint, ReadVersion
<1> QED BY <1>1, <1>3, <1>4, <1>5, <1>6 DEF SqlNext, sqlVars

\* A replacement nobody raced finds the content the publisher expected, and the
\* new content holds on to every value of the owner that was in it.
LEMMA LiveEditsStep ==
    ASSUME CsvInv, [CsvNext]_csvVars
    PROVE  \A o \in CsvOperation : live[o] = "other" /\ live'[o] # "other"
                                    => csvHistory'.edits # csvHistory.edits \/ csvHistory.raced
<1> SUFFICES ASSUME NEW o \in CsvOperation, live[o] = "other", live'[o] # "other"
             PROVE  csvHistory'.edits # csvHistory.edits \/ csvHistory.raced
    OBVIOUS
<1>1. CASE EditLive
  <2>1. csvHistory'.edits = csvHistory.edits + 1 /\ csvHistory.edits \in Nat
        BY <1>1 DEF EditLive, CsvInv, CsvTypes, CsvHistory
  <2> QED BY <2>1
<1>2. CASE Replace /\ ~csvHistory.raced
  <2>1. /\ publisher.step = "checked" /\ live' = CurrentVersion(managed)
        /\ live = Expected(publisher.mode)
        BY <1>2 DEF Replace, Output, CsvInv, CheckedIsExpected, Live
  <2>2. publisher.mode \in CsvModes /\ ReadyToPublish(publisher.mode)
        BY <2>1 DEF CsvInv, PublicationsInOrder
  <2>3. CASE publisher.mode = "governance"
    <3>1. live[o] = Initial[o]
          BY <2>1, <2>3 DEF Expected, CsvInv, VersionsGrow
    <3> QED BY <3>1, ValuesAreTyped
  <2>4. CASE publisher.mode = "rollback"
    <3>1. live = managed[inverse.baseline] /\ inverse.baseline # 0
          BY <2>1, <2>2, <2>4 DEF Expected, ReadyToPublish
    <3>2. CurrentVersion(managed)[o] = "other"
          BY <3>1 DEF CsvInv, VersionsGrow
    <3> QED BY <2>1, <3>2
  <2> QED BY <2>2, <2>3, <2>4 DEF CsvModes
<1>3. CASE UNCHANGED live
      BY <1>3
<1>4. CASE Execute \/ CheckDestination \/ ConfirmPublication \/ CopyBaseline \/ PlanInverse
           \/ RestoreOperation \/ CrashCsv
      BY <1>3, <1>4 DEF Execute, CheckDestination, ConfirmPublication, CopyBaseline, PlanInverse,
                        RestoreOperation, CrashCsv
<1> QED BY <1>1, <1>2, <1>3, <1>4 DEF CsvNext, csvVars

-----------------------------------------------------------------------------
(* The theorems *)

\* The rows, the ledger and its transaction, the call under way and the
\* connector's memory of a SQL task keep their types.
THEOREM SqlTargetTyped == SqlSpec => []SqlTypeOK
BY SqlInitTyped, SqlTypeStep, PTL DEF SqlSpec

LEMMA SqlInvariant == SqlSpec => []SqlInv
BY SqlTargetTyped, SqlInvInit, SqlInvStep, PTL DEF SqlSpec

LEMMA CsvInvariant == CsvSpec => []CsvInv
BY CsvInvInit, CsvInvStep, PTL DEF CsvSpec

\* What is recorded as reached is what the table holds, as long as its owner
\* leaves the row alone: also after an attempt whose transaction was lost, and
\* for an outcome a later attempt adopted.
THEOREM OutcomesAreReal == TargetWritesSpec => []RecordedOutcomesAreReal
<1>1. SqlInv => RecordedOutcomesAreReal
      BY DEF SqlInv, Real, RestoredIsReal, Writes, Untouched, Verified, RecordedOutcomesAreReal
<1> QED BY <1>1, SqlInvariant, PTL DEF TargetWritesSpec

\* However often an action is replayed, its writes reach a row nobody else
\* touches once, it is stopped by the owner's edits only, and no inverse comes
\* before those of the operations that depend on it.
THEOREM ReplaysAddNothing == TargetWritesSpec => []ReplaysWriteOnce
<1>1. SqlInv => ReplaysWriteOnce
  <2> SUFFICES ASSUME SqlInv PROVE ReplaysWriteOnce
      OBVIOUS
  <2>1. NothingIsWrittenTwice
        BY DEF SqlInv, WritesHold, Writes, Untouched, NothingIsWrittenTwice, Modes
  <2>2. OnlyEditsBlock
        BY DEF SqlInv, Unspoilt, OnlyEditsBlock
  <2> QED BY <2>1, <2>2 DEF SqlInv, ReplaysWriteOnce
<1> QED BY <1>1, SqlInvariant, PTL DEF TargetWritesSpec

\* A published rollback of a CSV task leaves the rows as they were before it,
\* and a publication or a rollback plan is only ever refused because of an edit
\* of the live file.
THEOREM PublishedRollbacksAreExact == TargetWritesSpec => []CsvRollbacksAreExact
<1>1. CsvInv => CsvRollbacksAreExact
  <2> SUFFICES ASSUME CsvInv PROVE CsvRollbacksAreExact
      OBVIOUS
  <2>1. ASSUME published["rollback"] \in Published, csvHistory.current,
               \A o \in Succeeded : inverse.checkpoint[o] \in {"succeeded", "already_restored"}
        PROVE  \A o \in Succeeded : live[o] = Initial[o]
    <3>1. inverse.baseline # 0
          BY <2>1 DEF CsvInv, PublicationsInOrder, ReadyToPublish, CsvModes
    <3>2. live = CurrentVersion(managed)
          BY <2>1, <3>1 DEF CsvInv, CurrentIsKnown
    <3> QED BY <2>1, <3>1, <3>2 DEF CsvInv, VersionsGrow, Restored, Succeeded
  <2>2. PublishedRollbackRestores
        BY <2>1 DEF PublishedRollbackRestores
  <2>3. csvHistory.refused # {} => csvHistory.edits > 0
        BY DEF CsvInv, CsvTypes, CsvHistory, UneditedIsKnown
  <2>4. inverse.baseline # 0 /\ csvHistory.current => "rollback" \notin csvHistory.refused
        BY DEF CsvInv, CurrentIsKnown
  <2> QED BY <2>2, <2>3, <2>4 DEF RefusalsHaveACause, CsvRollbacksAreExact
<1> QED BY <1>1, CsvInvariant, PTL DEF TargetWritesSpec

\* No step of the program overwrites or deletes what the owner of a table wrote
\* into a row, or the owner of a file into its live content, unless the file was
\* edited between the last comparison of hashes and the replacement.
THEOREM EditsOfOwnersAreKept == TargetWritesSpec => OwnersEditsAreKept
<1>1. SqlTypeOK /\ [SqlNext]_sqlVars =>
        [\A o \in Operation : row[o].value = "other" /\ row'[o] # row[o]
                              => sqlHistory'.edits # sqlHistory.edits]_sqlVars
      BY TableEditsStep
<1>2. CsvInv /\ [CsvNext]_csvVars =>
        [\A o \in CsvOperation : live[o] = "other" /\ live'[o] # "other"
              => csvHistory'.edits # csvHistory.edits \/ csvHistory.raced]_csvVars
      BY LiveEditsStep
<1>3. SqlSpec => TableEditsAreKept
      BY <1>1, SqlTargetTyped, PTL DEF SqlSpec, TableEditsAreKept
<1>4. CsvSpec => LiveEditsAreKept
      BY <1>2, CsvInvariant, PTL DEF CsvSpec, LiveEditsAreKept
<1> QED BY <1>3, <1>4, PTL DEF TargetWritesSpec, OwnersEditsAreKept

-----------------------------------------------------------------------------
(* The rollbacks of a school.  For any number of tasks on a data source, a  *)
(* rollback runs over the latest writes, once, and on a valid preview.      *)
(* Neither of a rollback's two reads protects it alone: the read of the     *)
(* latest sync is stale when the cycle is locked, and the generation says   *)
(* nothing of a sync that was deleted or that began between the reads of    *)
(* the preview.  AskedIsLatest puts them together: whoever has read that    *)
(* its source is the latest is right as long as the generation stays.       *)
(* OlderSkipped says what repeated rollbacks of one sync look like: all but *)
(* the newest have skipped.                                                 *)

Task == [kind : {"none", "sync", "rollback"}, source : {0} \cup Slot, generation : Nat,
         phase : Phases, blocked : BOOLEAN, wrote : BOOLEAN, report : Reports]

IsRollback(t) == tasks[t].kind = "rollback"

\* The slots that were not used yet are blank, the others have a kind, and only
\* rollbacks are previewed or completed.
UnusedIsBlank ==
    \A t \in Slot : /\ tasks[t].phase = "absent" => tasks[t] = Unused
                    /\ tasks[t].kind = "none" => tasks[t].phase = "absent"
                    /\ tasks[t].phase = "preview" => IsRollback(t)
                    /\ tasks[t].report = "completed" => IsRollback(t)

OneUnderway == \A t \in Slot : Underway(t) => school = t

\* A cycle begins with a full sync, and generations grow.
PreviewsAreOlder == \A r \in Slot : IsRollback(r) => tasks[r].generation \in 1..cycle.generation

FullHasCycle ==
    \A s \in Slot : tasks[s].report = "full" \/ <<"preview", s>> \in asked => cycle.generation > 0

\* No sync after the rollback's source is left.
SourceIsLatest(r) == \A s \in Slot : IsSync(s) /\ Exists(s) => s <= tasks[r].source

AskedIsLatest ==
    \A r \in Slot : <<"confirm", r>> \in asked =>
        /\ IsRollback(r)
        /\ tasks[r].generation = cycle.generation => SourceIsLatest(r)

UnderwayIsLatest == \A r \in Slot : IsRollback(r) /\ Underway(r) => SourceIsLatest(r)

\* A task that wrote is not deleted, unless it is a rollback whose report is missing
\* or does not say that it took everything back.
WritesStay ==
    \A t \in Slot : tasks[t].phase = "deleted" /\ tasks[t].wrote =>
        ~IsSync(t) /\ tasks[t].report \in {"none", "other"}

OlderSkipped ==
    \A r, q \in Slot :
        /\ r < q /\ IsRollback(r) /\ IsRollback(q)
        /\ tasks[r].source = tasks[q].source /\ Exists(r) /\ Exists(q)
        => tasks[r].phase = "ended" /\ tasks[r].report = "skipped"

CycleInv ==
    /\ UnusedIsBlank /\ OneUnderway /\ PreviewsAreOlder /\ FullHasCycle
    /\ AskedIsLatest /\ UnderwayIsLatest /\ WritesStay /\ OlderSkipped
    /\ PreviewStaysValid

-----------------------------------------------------------------------------
(* Types *)

LEMMA SlotsAreNumbers == Slot \subseteq Nat /\ 0 \notin Slot
BY CyclesAssumption DEF Slot

LEMMA TasksTyped == CyclesTypeOK => (\A t \in Slot : tasks[t] \in Task)
BY DEF CyclesTypeOK, Task

LEMMA CyclesInitTyped == CyclesInit => CyclesTypeOK
BY DEF CyclesInit, CyclesTypeOK, Unused, Phases, Reports

\* What becomes of a task that is neither created nor confirmed.
Moved(t) ==
    LET old == tasks[t]
        new == tasks'[t]
    IN
    /\ new \in Task
    /\ tasks' = [tasks EXCEPT ![t] = new]
    /\ new.kind = old.kind /\ new.source = old.source /\ new.generation = old.generation
    /\ old.phase # "absent" /\ new.phase \notin {"absent", "preview"}
    /\ old.phase = "deleted" => new.phase = "deleted"
    /\ Underway(t)' => Underway(t)
    /\ old.phase = "ended" => new.phase = "deleted"
    /\ new.report = "none" => old.report = "none"
    /\ new.report = "completed" => ~IsSync(t) \/ old.report = "completed"
    /\ new.report = "full" => cycle'.generation > 0 \/ old.report = "full"
    /\ new.phase = "deleted" /\ new.wrote =>
           ~IsSync(t) /\ new.report \in {"none", "other"}
    /\ school' \in {0} \cup Slot
    /\ school' # school => school = t /\ ~Underway(t)'
    /\ cycle' \in [generation : Nat, completed : {0} \cup Slot]
    /\ cycle.generation > 0 => cycle'.generation = cycle.generation
    /\ \/ cycle' = cycle
       \/ Underway(t) /\ new.report # "none"
       \/ cycle.completed # 0 /\ cycle'.generation = cycle.generation
    /\ asked' = asked

LEMMA PhaseMoves ==
    ASSUME CyclesTypeOK, NEW t \in Slot,
           Advance(t) \/ WriteTarget(t) \/ Block(t) \/ Terminate(t) \/ RejectRollback(t)
    PROVE  Moved(t)
<1>0. tasks[t] \in Task /\ tasks \in [Slot -> Task]
      BY TasksTyped DEF CyclesTypeOK, Task
<1>1. CASE Advance(t)
      BY <1>0, <1>1 DEF Advance, Moved, Task, Underway, Phases, CyclesTypeOK
<1>2. CASE WriteTarget(t)
      BY <1>0, <1>2 DEF WriteTarget, Moved, Task, Underway, Phases, CyclesTypeOK
<1>3. CASE Block(t)
      BY <1>0, <1>3 DEF Block, Moved, Task, Underway, Phases, CyclesTypeOK
<1>4. CASE Terminate(t)
      BY <1>0, <1>4 DEF Terminate, Moved, Task, Underway, Phases, Reports, CyclesTypeOK
<1>5. CASE RejectRollback(t)
      BY <1>0, <1>5 DEF RejectRollback, Moved, Task, Underway, Phases, Reports, CyclesTypeOK
<1> QED BY <1>1, <1>2, <1>3, <1>4, <1>5

LEMMA EndMoves ==
    ASSUME CyclesTypeOK, NEW t \in Slot, Report(t) \/ End(t) \/ Delete(t)
    PROVE  Moved(t)
<1>0. /\ tasks[t] \in Task /\ tasks \in [Slot -> Task] /\ t # 0
      /\ cycle \in [generation : Nat, completed : {0} \cup Slot]
      BY TasksTyped, SlotsAreNumbers DEF CyclesTypeOK, Task
<1>1. CASE Report(t)
  <2>1. PICK report \in Reports \ {"none"} :
          /\ MayReport(t, report)
          /\ tasks' = [tasks EXCEPT ![t].report = report]
          /\ cycle' = Recorded(t, report)
        BY <1>1 DEF Report
  <2>2. /\ tasks'[t] = [tasks[t] EXCEPT !.report = report]
        /\ tasks' = [tasks EXCEPT ![t] = tasks'[t]]
        BY <1>0, <2>1
  <2>3. tasks'[t] \in Task
        BY <1>0, <2>2 DEF Task, Reports
  <2>4. /\ cycle' \in [generation : Nat, completed : {0} \cup Slot]
        /\ cycle.generation > 0 => cycle'.generation = cycle.generation
        /\ report = "full" => cycle'.generation > 0
        BY <1>0, <2>1 DEF Recorded
  <2>5. /\ tasks'[t].kind = tasks[t].kind /\ tasks'[t].source = tasks[t].source
        /\ tasks'[t].generation = tasks[t].generation /\ tasks'[t].phase = tasks[t].phase
        /\ tasks'[t].wrote = tasks[t].wrote /\ tasks'[t].report = report
        BY <1>0, <2>2 DEF Task
  <2>6. /\ tasks[t].phase = "reporting" /\ school' = school /\ asked' = asked
        /\ report # "none" /\ (report = "completed" => ~IsSync(t))
        BY <1>1, <2>1 DEF Report, MayReport
  <2> QED BY <2>2, <2>3, <2>4, <2>5, <2>6 DEF Moved, Underway, CyclesTypeOK
<1>2. CASE End(t)
      BY <1>0, <1>2 DEF End, Moved, Task, Underway, Phases, CyclesTypeOK
<1>3. CASE Delete(t)
  <2>1. /\ tasks'[t] = [tasks[t] EXCEPT !.phase = "deleted"]
        /\ tasks' = [tasks EXCEPT ![t] = tasks'[t]]
        BY <1>0, <1>3 DEF Delete
  <2>2. tasks'[t] \in Task
        BY <1>0, <2>1 DEF Task, Phases
  <2>3. /\ cycle' \in [generation : Nat, completed : {0} \cup Slot]
        /\ cycle'.generation = cycle.generation
        /\ cycle' = cycle \/ cycle.completed # 0
        BY <1>0, <1>3 DEF Delete
  <2> QED BY <1>0, <1>3, <2>1, <2>2, <2>3
          DEF Delete, Deletable, Exists, IsSync, Moved, Task, Underway, CyclesTypeOK
<1> QED BY <1>1, <1>2, <1>3

\* Every other step is one of a request or creates a task.
LEMMA StepKinds ==
    ASSUME CyclesTypeOK, CyclesNext
    PROVE  \/ \E t \in Slot : Moved(t)
           \/ \E t \in Slot : CreateSync(t) \/ Preview(t) \/ ConfirmRollback(t)
           \/ \E t \in Slot : AskPreview(t) \/ AskConfirm(t)
BY PhaseMoves, EndMoves DEF CyclesNext

Blank(n) == tasks[n].phase = "absent"

\* A task that is created is the newest.
LEMMA NewestIsNext ==
    ASSUME CyclesTypeOK, NEW n \in Slot, IsNext(n)
    PROVE  Blank(n) /\ \A t \in Slot : ~Blank(t) => t < n
BY SlotsAreNumbers DEF IsNext, Blank

LEMMA CyclesTypeStep == CyclesTypeOK /\ [CyclesNext]_cycleVars => CyclesTypeOK'
<1> SUFFICES ASSUME CyclesTypeOK, [CyclesNext]_cycleVars PROVE CyclesTypeOK'
    OBVIOUS
<1>0. /\ tasks \in [Slot -> Task] /\ \A t \in Slot : tasks[t] \in Task
      /\ cycle \in [generation : Nat, completed : {0} \cup Slot]
      BY TasksTyped DEF CyclesTypeOK, Task
<1>1. CASE UNCHANGED cycleVars
      BY <1>1 DEF CyclesTypeOK, cycleVars
<1>2. ASSUME NEW t \in Slot, Moved(t) PROVE CyclesTypeOK'
  <2>1. tasks' \in [Slot -> Task]
        BY <1>0, <1>2 DEF Moved
  <2> QED BY <1>2, <2>1 DEF Moved, CyclesTypeOK, Task
<1>3. ASSUME NEW t \in Slot, CreateSync(t) PROVE CyclesTypeOK'
  <2>1. [Unused EXCEPT !.kind = "sync", !.phase = "analysing"] \in Task
        BY DEF Unused, Task, Phases, Reports
  <2>2. tasks' \in [Slot -> Task]
        BY <1>0, <1>3, <2>1 DEF CreateSync
  <2>3. cycle' \in [generation : Nat, completed : {0} \cup Slot]
        BY <1>0, <1>3 DEF CreateSync
  <2> QED BY <1>3, <2>2, <2>3 DEF CreateSync, CyclesTypeOK, Task
<1>4. ASSUME NEW t \in Slot, Preview(t) PROVE CyclesTypeOK'
  <2>1. [Unused EXCEPT !.kind = "rollback", !.source = t, !.phase = "preview",
                       !.generation = cycle.generation] \in Task
        BY <1>0 DEF Unused, Task, Phases, Reports
  <2>2. tasks' \in [Slot -> Task]
        BY <1>0, <1>4, <2>1 DEF Preview
  <2> QED BY <1>4, <2>2 DEF Preview, CyclesTypeOK, Task
<1>5. ASSUME NEW t \in Slot, ConfirmRollback(t) PROVE CyclesTypeOK'
  <2>1. [tasks[t] EXCEPT !.phase = "analysing"] \in Task
        BY <1>0 DEF Task, Phases
  <2>2. tasks' \in [Slot -> Task]
    <3>1. \/ tasks' = tasks
          \/ tasks' = [tasks EXCEPT ![t] = [tasks[t] EXCEPT !.phase = "analysing"]]
          BY <1>0, <1>5 DEF ConfirmRollback
    <3> QED BY <1>0, <2>1, <3>1
  <2> QED BY <1>5, <2>2 DEF ConfirmRollback, CyclesTypeOK, Task
<1>6. ASSUME NEW t \in Slot, AskPreview(t) \/ AskConfirm(t) PROVE CyclesTypeOK'
      BY <1>6 DEF AskPreview, AskConfirm, CyclesTypeOK
<1> QED BY <1>1, <1>2, <1>3, <1>4, <1>5, <1>6, StepKinds

-----------------------------------------------------------------------------
(* The invariant *)

LEMMA CycleInvInit == CyclesInit => CycleInv
BY DEF CyclesInit, CycleInv, UnusedIsBlank, OneUnderway, PreviewsAreOlder, FullHasCycle,
       AskedIsLatest, UnderwayIsLatest, WritesStay, OlderSkipped, PreviewStaysValid,
       Unused, Underway, IsRollback, Exists

LEMMA MovedKeeps ==
    ASSUME CyclesTypeOK, CycleInv, NEW t \in Slot, Moved(t)
    PROVE  CycleInv'
<1>0. /\ tasks \in [Slot -> Task] /\ \A u \in Slot : tasks[u] \in Task
      /\ cycle \in [generation : Nat, completed : {0} \cup Slot]
      /\ \A u \in Slot : u # t => tasks'[u] = tasks[u]
      BY TasksTyped DEF CyclesTypeOK, Task, Moved
<1>1. \A u \in Slot : /\ (IsRollback(u)' <=> IsRollback(u)) /\ (IsSync(u)' <=> IsSync(u))
                      /\ tasks'[u].source = tasks[u].source
                      /\ tasks'[u].generation = tasks[u].generation
                      /\ Exists(u)' => Exists(u)
                      /\ Underway(u)' => Underway(u)
      BY <1>0 DEF Moved, IsRollback, IsSync, Exists, Underway
<1>2. UnusedIsBlank'
  <2>1. /\ tasks'[t].phase \notin {"absent", "preview"} /\ tasks'[t].kind = tasks[t].kind
        /\ tasks'[t].report = "completed" => ~IsSync(t) \/ tasks[t].report = "completed"
        /\ tasks[t].phase # "absent"
        BY DEF Moved
  <2>2. tasks[t].kind \in {"sync", "rollback"}
        BY <1>0, <2>1 DEF CycleInv, UnusedIsBlank, Task
  <2>3. tasks'[t].report = "completed" => IsRollback(t)
        BY <2>1, <2>2 DEF CycleInv, UnusedIsBlank, IsRollback, IsSync
  <2> QED BY <1>0, <1>1, <2>1, <2>2, <2>3 DEF CycleInv, UnusedIsBlank
<1>3. OneUnderway'
      BY <1>0, <1>1 DEF CycleInv, OneUnderway, Moved
<1>4. PreviewsAreOlder' /\ FullHasCycle'
      BY <1>0, <1>1 DEF CycleInv, PreviewsAreOlder, FullHasCycle, Moved
<1>5. \A r \in Slot : SourceIsLatest(r) => SourceIsLatest(r)'
      BY <1>1 DEF SourceIsLatest
<1>6. AskedIsLatest'
  <2> SUFFICES ASSUME NEW r \in Slot, <<"confirm", r>> \in asked'
               PROVE  /\ IsRollback(r)'
                      /\ tasks'[r].generation = cycle'.generation => SourceIsLatest(r)'
      BY DEF AskedIsLatest
  <2>1. IsRollback(r) /\ (tasks[r].generation = cycle.generation => SourceIsLatest(r))
        BY DEF CycleInv, AskedIsLatest, Moved
  <2>2. cycle.generation > 0
        BY <1>0, <2>1 DEF CycleInv, PreviewsAreOlder
  <2> QED BY <1>1, <1>5, <2>1, <2>2 DEF Moved
<1>7. UnderwayIsLatest'
      BY <1>1, <1>5 DEF CycleInv, UnderwayIsLatest
<1>8. WritesStay'
      BY <1>0, <1>1 DEF CycleInv, WritesStay, Moved
<1>9. OlderSkipped'
      BY <1>0, <1>1 DEF CycleInv, OlderSkipped, Moved, Exists
<1>10. PreviewStaysValid'
  <2> SUFFICES ASSUME NEW r \in Slot, IsRollback(r)', Underway(r)'
               PROVE  /\ school' = r
                      /\ tasks'[r].report = "none" => (cycle'.generation = tasks'[r].generation /\ cycle'.completed = 0)
      BY DEF PreviewStaysValid, IsRollback, Available
  <2>1. /\ IsRollback(r) /\ Underway(r) /\ school = r
        /\ tasks[r].report = "none" => Available(tasks[r].generation)
        BY <1>1 DEF CycleInv, PreviewStaysValid, IsRollback
  <2>2. school' = r
        BY <1>3 DEF OneUnderway
  <2>3. ASSUME tasks'[r].report = "none" PROVE (cycle'.generation = tasks'[r].generation /\ cycle'.completed = 0)
    <3>1. tasks[r].report = "none"
          BY <1>0, <2>3 DEF Moved
    <3>2. CASE cycle' = cycle
          BY <1>1, <2>1, <3>1, <3>2 DEF Available
    <3>3. CASE Underway(t) /\ tasks'[t].report # "none"
          BY <2>1, <2>3, <3>3 DEF CycleInv, OneUnderway
    <3>4. CASE cycle.completed # 0
          BY <2>1, <3>1, <3>4 DEF Available
    <3> QED BY <3>2, <3>3, <3>4 DEF Moved
  <2> QED BY <2>2, <2>3
<1> QED BY <1>2, <1>3, <1>4, <1>6, <1>7, <1>8, <1>9, <1>10 DEF CycleInv

LEMMA CreateKeeps ==
    ASSUME CyclesTypeOK, CycleInv, NEW n \in Slot, CreateSync(n)
    PROVE  CycleInv'
<1>0. /\ tasks \in [Slot -> Task] /\ \A u \in Slot : tasks[u] \in Task
      /\ cycle \in [generation : Nat, completed : {0} \cup Slot]
      BY TasksTyped DEF CyclesTypeOK, Task
<1>1. /\ \A u \in Slot : u # n => tasks'[u] = tasks[u]
      /\ tasks'[n] = [Unused EXCEPT !.kind = "sync", !.phase = "analysing"]
      /\ tasks[n] = Unused /\ \A u \in Slot : ~Underway(u)
      /\ school' = n /\ asked' = asked
      /\ cycle.generation > 0 => cycle'.generation = cycle.generation + 1
      /\ cycle.generation = 0 => cycle' = cycle
  <2>1. Blank(n)
        BY NewestIsNext DEF CreateSync
  <2>2. school = 0
        BY DEF CreateSync
  <2> QED BY <1>0, <2>1, <2>2, SlotsAreNumbers
          DEF CreateSync, CycleInv, UnusedIsBlank, OneUnderway, Blank
<1>9. /\ tasks'[n].kind = "sync" /\ tasks'[n].phase = "analysing"
      /\ ~tasks'[n].wrote /\ tasks'[n].report = "none"
      /\ tasks[n].kind = "none"
      BY <1>1 DEF Unused
<1>2. \A u \in Slot : /\ (IsRollback(u)' <=> IsRollback(u))
                      /\ u # n => (Exists(u)' <=> Exists(u))
                      /\ u # n => (Underway(u)' <=> Underway(u))
      BY <1>1, <1>9 DEF IsRollback, Exists, Underway
<1>3. UnusedIsBlank' /\ OneUnderway'
      BY <1>1, <1>9, <1>2 DEF CycleInv, UnusedIsBlank, OneUnderway
<1>4. PreviewsAreOlder' /\ FullHasCycle'
  <2>1. \A u \in Slot : IsRollback(u)' => tasks'[u] = tasks[u] /\ IsRollback(u)
        BY <1>1, <1>9, <1>2 DEF IsRollback
  <2>2. cycle'.generation \in Nat /\ cycle.generation \in Nat
        BY <1>0, <1>1
  <2>3. cycle'.generation >= cycle.generation
        BY <1>1, <2>2
  <2>4. \A s \in Slot : tasks'[s].report = "full" => tasks[s].report = "full"
        BY <1>1, <1>9
  <2> QED BY <1>1, <2>1, <2>2, <2>3, <2>4 DEF CycleInv, PreviewsAreOlder, FullHasCycle
<1>5. AskedIsLatest'
  <2> SUFFICES ASSUME NEW r \in Slot, <<"confirm", r>> \in asked'
               PROVE  IsRollback(r)' /\ tasks'[r].generation # cycle'.generation
      BY DEF AskedIsLatest
  <2>1. IsRollback(r) /\ tasks[r].generation \in 1..cycle.generation
        BY <1>1 DEF CycleInv, AskedIsLatest, PreviewsAreOlder
  <2>2. r # n
        BY <1>1, <2>1 DEF IsRollback, Unused
  <2> QED BY <1>0, <1>1, <1>2, <2>1, <2>2
<1>6. UnderwayIsLatest' /\ PreviewStaysValid'
      BY <1>1, <1>9, <1>2 DEF UnderwayIsLatest, PreviewStaysValid, IsRollback
<1>7. WritesStay'
      BY <1>1, <1>9 DEF CycleInv, WritesStay, IsSync
<1>8. OlderSkipped'
      BY <1>1, <1>9, <1>2 DEF CycleInv, OlderSkipped, IsRollback
<1> QED BY <1>3, <1>4, <1>5, <1>6, <1>7, <1>8 DEF CycleInv

LEMMA PreviewKeeps ==
    ASSUME CyclesTypeOK, CycleInv, NEW s \in Slot, Preview(s)
    PROVE  CycleInv'
<1>0. /\ tasks \in [Slot -> Task] /\ \A u \in Slot : tasks[u] \in Task
      /\ cycle \in [generation : Nat, completed : {0} \cup Slot]
      BY TasksTyped DEF CyclesTypeOK, Task
<1>1. /\ asked' \subseteq asked /\ UNCHANGED <<cycle, school>>
      /\ cycle.generation > 0
      BY DEF Preview, CycleInv, FullHasCycle
<1>2. CASE UNCHANGED tasks
  <2>1. \A r \in Slot : /\ (Underway(r)' <=> Underway(r)) /\ (IsRollback(r)' <=> IsRollback(r))
                        /\ (SourceIsLatest(r)' <=> SourceIsLatest(r))
        BY <1>2 DEF Underway, IsRollback, SourceIsLatest, IsSync, Exists
  <2> QED BY <1>1, <1>2, <2>1
          DEF CycleInv, UnusedIsBlank, OneUnderway, PreviewsAreOlder, FullHasCycle,
              AskedIsLatest, UnderwayIsLatest, WritesStay, OlderSkipped, PreviewStaysValid,
              Available, IsSync, Exists, IsRollback
<1>3. ASSUME NEW n \in Slot, IsNext(n), school = 0,
             \A r \in Slot : IsNewestRollback(r, s) => Retryable(r),
             tasks' = [tasks EXCEPT ![n] =
                 [Unused EXCEPT !.kind = "rollback", !.source = s, !.phase = "preview",
                                !.generation = cycle.generation]]
      PROVE  CycleInv'
  <2>1. /\ \A u \in Slot : u # n => tasks'[u] = tasks[u]
        /\ tasks'[n].kind = "rollback" /\ tasks'[n].source = s /\ tasks'[n].phase = "preview"
        /\ tasks'[n].generation = cycle.generation /\ ~tasks'[n].wrote
        /\ tasks'[n].report = "none"
        BY <1>0, <1>3 DEF Unused
  <2>2. /\ tasks[n] = Unused
        /\ \A u \in Slot : Exists(u) => u < n
        BY <1>3, NewestIsNext DEF CycleInv, UnusedIsBlank, Blank, Exists
  <2>3. \A u \in Slot : /\ u # n => (Exists(u)' <=> Exists(u)) /\ (IsRollback(u)' <=> IsRollback(u))
                        /\ (Underway(u)' <=> Underway(u))
                        /\ (IsSync(u)' <=> IsSync(u))
        BY <2>1, <2>2 DEF IsRollback, Exists, Underway, IsSync, Unused
  <2>4. UnusedIsBlank' /\ OneUnderway' /\ WritesStay'
        BY <1>1, <2>1, <2>3 DEF CycleInv, UnusedIsBlank, OneUnderway, WritesStay, IsRollback
  <2>5. PreviewsAreOlder' /\ FullHasCycle'
        BY <1>0, <1>1, <2>1, <2>3 DEF CycleInv, PreviewsAreOlder, FullHasCycle
  <2>6. \A r \in Slot : r # n /\ SourceIsLatest(r) => SourceIsLatest(r)'
        BY <2>1, <2>3 DEF SourceIsLatest, IsSync
  <2>7. <<"confirm", n>> \notin asked
        BY <2>2 DEF CycleInv, AskedIsLatest, IsRollback, Unused
  <2>8. AskedIsLatest' /\ UnderwayIsLatest'
        BY <1>1, <2>1, <2>2, <2>3, <2>6, <2>7
           DEF CycleInv, AskedIsLatest, UnderwayIsLatest, Underway, Unused
  <2>9. PreviewStaysValid'
        BY <1>1, <2>1, <2>2, <2>3 DEF CycleInv, PreviewStaysValid, Available, Underway, Unused
  \* A rollback of the same sync: the newest, which may be repeated, or older.
  <2>10. ASSUME NEW r \in Slot, IsRollback(r), tasks[r].source = s, Exists(r)
         PROVE  tasks[r].phase = "ended" /\ tasks[r].report = "skipped"
    <3>1. CASE IsNewestRollback(r, s)
          BY <1>3, <3>1 DEF Retryable
    <3>2. CASE ~IsNewestRollback(r, s)
      <4>1. PICK q \in Slot : IsRollback(q) /\ tasks[q].source = s /\ Exists(q) /\ ~(q <= r)
            BY <2>10, <3>2 DEF IsNewestRollback, IsRollback
      <4>2. r < q
            BY <4>1, SlotsAreNumbers
      <4> QED BY <2>10, <4>1, <4>2 DEF CycleInv, OlderSkipped
    <3> QED BY <3>1, <3>2
  <2>11. OlderSkipped'
    <3> SUFFICES ASSUME NEW r \in Slot, NEW q \in Slot, r < q, IsRollback(r)', IsRollback(q)',
                        tasks'[r].source = tasks'[q].source, Exists(r)', Exists(q)'
                 PROVE  tasks'[r].phase = "ended" /\ tasks'[r].report = "skipped"
        BY DEF OlderSkipped
    <3>1. r # n
      <4>1. CASE q = n
            BY <4>1, SlotsAreNumbers
      <4>2. CASE q # n
        <5>1. q < n
              BY <2>2, <2>3, <4>2
        <5> QED BY <5>1, SlotsAreNumbers
      <4> QED BY <4>1, <4>2
    <3>2. CASE q = n
          BY <2>1, <2>3, <2>10, <3>1, <3>2
    <3>3. CASE q # n
          BY <2>1, <2>3, <3>1, <3>3 DEF CycleInv, OlderSkipped
    <3> QED BY <3>2, <3>3
  <2> QED BY <2>4, <2>5, <2>8, <2>9, <2>11 DEF CycleInv
<1> QED BY <1>2, <1>3 DEF Preview

LEMMA RequestKeeps ==
    ASSUME CyclesTypeOK, CycleInv, NEW t \in Slot, AskPreview(t) \/ AskConfirm(t)
    PROVE  CycleInv'
<1>1. UNCHANGED <<tasks, cycle, school>>
      BY DEF AskPreview, AskConfirm
<1>2. \A r \in Slot : /\ (Underway(r)' <=> Underway(r)) /\ (IsRollback(r)' <=> IsRollback(r))
                      /\ (SourceIsLatest(r)' <=> SourceIsLatest(r))
      BY <1>1 DEF Underway, IsRollback, SourceIsLatest, IsSync, Exists
<1>3. /\ UnusedIsBlank' /\ OneUnderway' /\ PreviewsAreOlder' /\ UnderwayIsLatest'
      /\ WritesStay' /\ OlderSkipped' /\ PreviewStaysValid'
      BY <1>1, <1>2 DEF CycleInv, UnusedIsBlank, OneUnderway, PreviewsAreOlder, UnderwayIsLatest,
             WritesStay, OlderSkipped, PreviewStaysValid, Available, IsSync, Exists, IsRollback
<1>4. CASE AskPreview(t)
      BY <1>1, <1>2, <1>3, <1>4 DEF CycleInv, FullHasCycle, AskedIsLatest, AskPreview
<1>5. CASE AskConfirm(t)
  <2>1. IsRollback(t) /\ SourceIsLatest(t)
    <3>1. tasks[t].phase = "preview" /\ IsLatest(tasks[t].source)
          BY <1>5 DEF AskConfirm
    <3>2. SourceIsLatest(t)
          BY <3>1 DEF IsLatest, SourceIsLatest
    <3> QED BY <3>1, <3>2 DEF CycleInv, UnusedIsBlank
  <2> QED BY <1>1, <1>2, <1>3, <1>5, <2>1 DEF CycleInv, FullHasCycle, AskedIsLatest, AskConfirm
<1> QED BY <1>4, <1>5

LEMMA ConfirmKeeps ==
    ASSUME CyclesTypeOK, CycleInv, NEW r \in Slot, ConfirmRollback(r)
    PROVE  CycleInv'
<1>0. /\ tasks \in [Slot -> Task] /\ \A u \in Slot : tasks[u] \in Task
      BY TasksTyped DEF CyclesTypeOK, Task
<1>1. asked' \subseteq asked /\ cycle' = cycle
      BY DEF ConfirmRollback
<1>2. CASE UNCHANGED <<tasks, school>>
  <2>1. \A u \in Slot : /\ (Underway(u)' <=> Underway(u)) /\ (IsRollback(u)' <=> IsRollback(u))
                        /\ (SourceIsLatest(u)' <=> SourceIsLatest(u))
        BY <1>2 DEF Underway, IsRollback, SourceIsLatest, IsSync, Exists
  <2> QED BY <1>1, <1>2, <2>1
          DEF CycleInv, UnusedIsBlank, OneUnderway, PreviewsAreOlder, FullHasCycle,
              AskedIsLatest, UnderwayIsLatest, WritesStay, OlderSkipped, PreviewStaysValid,
              Available, IsSync, Exists, IsRollback
<1>3. CASE /\ tasks[r].phase = "preview" /\ Available(tasks[r].generation) /\ school = 0
           /\ tasks' = [tasks EXCEPT ![r].phase = "analysing"]
           /\ school' = r
  <2>1. /\ \A u \in Slot : u # r => tasks'[u] = tasks[u]
        /\ tasks'[r] = [tasks[r] EXCEPT !.phase = "analysing"]
        BY <1>0, <1>3
  <2>2. \A u \in Slot : /\ tasks'[u].kind = tasks[u].kind /\ tasks'[u].source = tasks[u].source
                        /\ tasks'[u].generation = tasks[u].generation
                        /\ tasks'[u].report = tasks[u].report /\ tasks'[u].wrote = tasks[u].wrote
                        /\ u # r => tasks'[u].phase = tasks[u].phase
        BY <1>0, <2>1 DEF Task
  <2>3. tasks'[r].phase = "analysing"
        BY <1>0, <2>1 DEF Task
  <2>4. \A u \in Slot : /\ (IsRollback(u)' <=> IsRollback(u)) /\ (Exists(u)' <=> Exists(u))
                        /\ (IsSync(u)' <=> IsSync(u)) /\ ~Underway(u)
                        /\ u # r => ~Underway(u)'
        BY <1>3, <2>2, <2>3, SlotsAreNumbers
           DEF IsRollback, Exists, IsSync, Underway, CycleInv, OneUnderway
  <2>5. \A u \in Slot : SourceIsLatest(u) => SourceIsLatest(u)'
        BY <2>2, <2>4 DEF SourceIsLatest
  <2>6. IsRollback(r) /\ SourceIsLatest(r)
        BY <1>3 DEF CycleInv, AskedIsLatest, ConfirmRollback, Available
  <2>7. UnusedIsBlank' /\ OneUnderway'
        BY <1>3, <2>1, <2>2, <2>3, <2>4, <2>6
           DEF CycleInv, UnusedIsBlank, OneUnderway, IsRollback
  <2>8. PreviewsAreOlder' /\ FullHasCycle' /\ WritesStay'
        BY <1>1, <2>2, <2>3, <2>4 DEF CycleInv, PreviewsAreOlder, FullHasCycle, WritesStay
  <2>9. AskedIsLatest'
        BY <1>1, <2>2, <2>4, <2>5 DEF CycleInv, AskedIsLatest
  <2>10. UnderwayIsLatest'
         BY <2>4, <2>5, <2>6 DEF UnderwayIsLatest
  <2>11. OlderSkipped'
         BY <1>3, <2>2, <2>4 DEF CycleInv, OlderSkipped, Exists
  <2>12. PreviewStaysValid'
         BY <1>1, <1>3, <2>2, <2>4 DEF PreviewStaysValid, Available
  <2> QED BY <2>7, <2>8, <2>9, <2>10, <2>11, <2>12 DEF CycleInv
<1> QED BY <1>2, <1>3 DEF ConfirmRollback

LEMMA CycleInvStep == CyclesTypeOK /\ CycleInv /\ [CyclesNext]_cycleVars => CycleInv'
<1> SUFFICES ASSUME CyclesTypeOK, CycleInv, [CyclesNext]_cycleVars PROVE CycleInv'
    OBVIOUS
<1>1. CASE UNCHANGED cycleVars
  <2>1. \A u \in Slot : /\ (Underway(u)' <=> Underway(u)) /\ (IsRollback(u)' <=> IsRollback(u))
                        /\ (SourceIsLatest(u)' <=> SourceIsLatest(u))
        BY <1>1 DEF Underway, IsRollback, SourceIsLatest, IsSync, Exists, cycleVars
  <2> QED BY <1>1, <2>1
          DEF CycleInv, UnusedIsBlank, OneUnderway, PreviewsAreOlder, FullHasCycle,
              AskedIsLatest, UnderwayIsLatest, WritesStay, OlderSkipped, PreviewStaysValid,
              Available, IsSync, Exists, IsRollback, cycleVars
<1>2. CASE CyclesNext
      BY <1>2, StepKinds, MovedKeeps, CreateKeeps, PreviewKeeps, RequestKeeps, ConfirmKeeps
<1> QED BY <1>1, <1>2

-----------------------------------------------------------------------------
(* The theorems *)

LEMMA CyclesAreTyped == CyclesSpec => []CyclesTypeOK
BY CyclesInitTyped, CyclesTypeStep, PTL DEF CyclesSpec

LEMMA CyclesAreSafe == CyclesSpec => []CycleInv
BY CycleInvInit, CycleInvStep, CyclesAreTyped, PTL DEF CyclesSpec

\* A rollback runs over the latest writes of its data source, and the writes of
\* a sync are taken back by one completed rollback at most, in every order of
\* previews, confirmations, repetitions, terminations and deletions.
THEOREM RollbacksAreExact == CyclesSpec => []RollbacksUndoTheLatestSync
<1>1. CyclesTypeOK /\ CycleInv => RollbackTargetsLatestSync
  <2> SUFFICES ASSUME CyclesTypeOK, CycleInv, NEW r \in Slot, NEW s \in Slot, IsRollback(r),
                      Underway(r), IsSync(s), s > tasks[r].source, tasks[s].wrote
               PROVE  FALSE
      BY DEF RollbackTargetsLatestSync, IsRollback
  <2>1. tasks[r].source \in Nat /\ s \in Nat
    <3>1. tasks[r] \in Task
          BY TasksTyped
    <3>2. tasks[r].source \in {0} \cup Slot
          BY <3>1 DEF Task
    <3>3. \A t \in Slot : t \in Nat
          BY SlotsAreNumbers
    <3> QED BY <3>2, <3>3
  <2>2. ~Exists(s)
        BY <2>1 DEF CycleInv, UnderwayIsLatest, SourceIsLatest
  <2> QED BY <2>2 DEF Exists, CycleInv, WritesStay, UnusedIsBlank, Unused
<1>2. CyclesTypeOK /\ CycleInv => OneRollbackPerSync
  <2> SUFFICES ASSUME CyclesTypeOK, CycleInv, NEW r \in Slot, NEW q \in Slot,
                      tasks[r].report = "completed", tasks[q].report = "completed",
                      tasks[r].wrote, tasks[q].wrote, tasks[r].source = tasks[q].source
               PROVE  r = q
      BY DEF OneRollbackPerSync
  <2>1. /\ IsRollback(r) /\ IsRollback(q) /\ Exists(r) /\ Exists(q)
        /\ ~(r < q) /\ ~(q < r)
        BY DEF CycleInv, UnusedIsBlank, WritesStay, OlderSkipped, Exists, Unused
  <2> QED BY <2>1, SlotsAreNumbers
<1> QED BY <1>1, <1>2, CyclesAreTyped, CyclesAreSafe, PTL DEF RollbacksUndoTheLatestSync

\* One task of a school is under way, and a rollback's preview stays valid while
\* it is.
THEOREM PreviewsStayValid == CyclesSpec => []PreviewStaysValid
<1>1. CycleInv => PreviewStaysValid
      BY DEF CycleInv
<1> QED BY <1>1, CyclesAreSafe, PTL
=============================================================================
