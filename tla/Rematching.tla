----------------------------- MODULE Rematching -----------------------------
(***************************************************************************)
(* Entity rematch jobs: focal entities without an accepted mapping, each a *)
(* leased work item with an outcome that is immutable once recorded.       *)
(*                                                                         *)
(* The worker is outside of src/backend/app: the module models what the    *)
(* repository offers it.  A worker's calls lock the item and then the job, *)
(* each is one step.  A cancellation selects and locks the open items long *)
(* before it has the job; a retry reads the job without a lock, and holds  *)
(* its row while it requeues items: all that others may do in between is a *)
(* step of theirs.                                                         *)
(***************************************************************************)
EXTENDS Naturals, FiniteSets

CONSTANTS
    Focal,            \* focal entities without an accepted mapping
    Rematcher,        \* workers
    Operator,         \* operator requests
    MaxFocalAttempts, \* entity_rematch_work_items.max_attempts
    MaxLapses,        \* leases that expire under their worker
    MaxRequests       \* operators' commands

ASSUME RematchAssumption ==
    /\ IsFiniteSet(Focal) /\ "none" \notin Focal /\ "none" \notin Rematcher
    /\ MaxFocalAttempts \in Nat \ {0} /\ MaxLapses \in Nat /\ MaxRequests \in Nat

VARIABLES
    rematch,     \* entity_rematch_jobs
    focal,       \* entity_rematch_work_items of the job
    reusable,    \* focal entities an earlier job has an outcome for
    rematcher,   \* the item each worker believes to hold
    retry,       \* the columns each operator's retry request has read
    canceling,   \* the items each operator's cancel request has selected
    overtaken,   \* (history) items last requeued while a cancel was in flight
    lapses, given

requestVars == <<retry, canceling, overtaken>>
rematchVars == <<rematch, focal, reusable, rematcher, requestVars, lapses, given>>

RematchOutcome == {"ai_recovered", "no_match", "manual_review", "conflict", "failed"}
FocalStatus    == {"queued", "retry_wait", "running", "canceled"} \cup RematchOutcome
RematchStatus  == {"absent", "queued", "running", "completed", "completed_with_failures",
                   "canceled"}

NoRetry  == [pc |-> "idle", status |-> "absent", cancel |-> FALSE]
NoCancel == [pc |-> "idle", items |-> {}]

RematchTypeOK ==
    /\ rematch \in [status : RematchStatus, cancel : BOOLEAN, processed : Nat, failed : Nat]
    /\ focal \in [Focal -> [status : FocalStatus, owner : Rematcher \cup {"none"},
                            live : BOOLEAN, attempts : Nat]]
    /\ reusable \subseteq Focal
    /\ rematcher \in [Rematcher -> Focal \cup {"none"}]
    /\ retry \in [Operator -> [pc : {"idle", "read"}, status : RematchStatus, cancel : BOOLEAN]]
    /\ canceling \in [Operator -> [pc : {"idle", "selected"}, items : SUBSET Focal]]
    /\ overtaken \subseteq Focal
    /\ lapses \in Nat /\ given \in Nat

RematchInit ==
    /\ rematch = [status |-> "absent", cancel |-> FALSE, processed |-> 0, failed |-> 0]
    /\ focal = [f \in Focal |-> [status |-> "queued", owner |-> "none", live |-> FALSE,
                                 attempts |-> 0]]
    /\ reusable = {}
    /\ rematcher = [w \in Rematcher |-> "none"]
    /\ retry = [o \in Operator |-> NoRetry]
    /\ canceling = [o \in Operator |-> NoCancel]
    /\ overtaken = {}
    /\ lapses = 0
    /\ given = 0

OpenItem(f) == focal[f].status \in {"queued", "retry_wait", "running"}

\* The rows a cancel request has selected FOR UPDATE and not committed yet.
Locked(f) == \E o \in Operator : f \in canceling[o].items

\* Mutant of HoldsFocal: an outcome is accepted from anybody.
HoldsFocalUnchecked(w, f) == TRUE

HoldsFocal(w, f) == focal[f].status = "running" /\ focal[f].owner = w /\ focal[f].live

\* create_or_get; another job of the tenant may have outcomes for the same
\* focal entities, candidates and policy.
CreateRematch ==
    /\ rematch.status = "absent"
    /\ rematch' = [rematch EXCEPT !.status = "queued"]
    /\ \E known \in SUBSET Focal : reusable' = known
    /\ UNCHANGED <<focal, rematcher, requestVars, lapses, given>>

\* claim_next skips locked items.
ClaimFocal(w) ==
    \E f \in Focal :
        /\ rematcher[w] = "none"
        /\ ~Locked(f)
        /\ rematch.status # "absent"
        /\ \/ focal[f].status \in {"queued", "retry_wait"}
           \/ focal[f].status = "running" /\ ~focal[f].live
        /\ ~rematch.cancel
        /\ focal' = [focal EXCEPT ![f] = [status |-> "running", owner |-> w, live |-> TRUE,
                                          attempts |-> @.attempts + 1]]
        /\ rematch' = IF rematch.status = "queued" THEN [rematch EXCEPT !.status = "running"]
                      ELSE rematch
        /\ rematcher' = [rematcher EXCEPT ![w] = f]
        /\ UNCHANGED <<reusable, requestVars, lapses, given>>

\* _finish_locked and reconcile_counters, with the outcomes of all items, which
\* it locks.
FinishFocal(f, outcome) ==
    LET after == [focal EXCEPT ![f].status = outcome, ![f].owner = "none", ![f].live = FALSE]
        processed == Cardinality({g \in Focal : after[g].status \in RematchOutcome})
        failed == Cardinality({g \in Focal : after[g].status = "failed"})
    IN
    /\ \A g \in Focal : ~Locked(g)
    /\ focal' = after
    /\ rematch' = [rematch EXCEPT
          !.processed = processed,
          !.failed = failed,
          !.status = IF processed < Cardinality(Focal) \/ rematch.cancel THEN @
                     ELSE IF failed > 0 THEN "completed_with_failures" ELSE "completed"]

\* complete_item: refused without the lease; the same outcome again is a
\* replay that changes nothing.
CompleteFocal(w) ==
    LET f == rematcher[w] IN
    /\ f # "none"
    /\ ~Locked(f)
    /\ IF HoldsFocal(w, f) THEN \E outcome \in RematchOutcome : FinishFocal(f, outcome)
       ELSE UNCHANGED <<focal, rematch>>
    /\ rematcher' = [rematcher EXCEPT ![w] = "none"]
    /\ UNCHANGED <<reusable, requestVars, lapses, given>>

\* schedule_retry: the last attempt's failure is the item's outcome.
ScheduleFocalRetry(w) ==
    LET f == rematcher[w] IN
    /\ f # "none"
    /\ ~Locked(f)
    /\ HoldsFocal(w, f)
    /\ IF focal[f].attempts >= MaxFocalAttempts THEN FinishFocal(f, "failed")
       ELSE /\ focal' = [focal EXCEPT ![f].status = "retry_wait", ![f].owner = "none",
                                      ![f].live = FALSE]
            /\ UNCHANGED rematch
    /\ rematcher' = [rematcher EXCEPT ![w] = "none"]
    /\ UNCHANGED <<reusable, requestVars, lapses, given>>

\* reuse_outcome: only of a queued item, whatever its job is doing.
ReuseOutcome(f) ==
    /\ rematch.status # "absent"
    /\ f \in reusable
    /\ focal[f].status = "queued"
    /\ \E outcome \in RematchOutcome : FinishFocal(f, outcome)
    /\ UNCHANGED <<reusable, rematcher, requestVars, lapses, given>>

LapseFocal(f) ==
    /\ lapses < MaxLapses
    /\ lapses' = lapses + 1
    /\ focal[f].live
    /\ focal' = [focal EXCEPT ![f].live = FALSE]
    /\ UNCHANGED <<rematch, reusable, rematcher, requestVars, given>>

\* recover_expired_leases skips locked items.
RecoverFocal ==
    LET dead == {f \in Focal : focal[f].status = "running" /\ ~focal[f].live /\ ~Locked(f)} IN
    /\ dead # {}
    /\ focal' = [f \in Focal |-> IF f \in dead
                    THEN [focal[f] EXCEPT !.status = "queued", !.owner = "none"] ELSE focal[f]]
    /\ UNCHANGED <<rematch, reusable, rematcher, requestVars, lapses, given>>

\* Mutant of ReadForCancel: items that are being worked on are left alone.
ReadForCancelWaiting(o) ==
    /\ rematch.status # "absent"
    /\ given < MaxRequests
    /\ given' = given + 1
    /\ canceling[o].pc = "idle"
    /\ \A f \in Focal : OpenItem(f) => ~Locked(f)
    /\ canceling' = [canceling EXCEPT ![o] = [pc |-> "selected",
           items |-> {f \in Focal : focal[f].status \in {"queued", "retry_wait"}}]]
    /\ UNCHANGED <<rematch, focal, reusable, rematcher, retry, overtaken, lapses>>

\* cancel, first statement: the open items, FOR UPDATE.
ReadForCancel(o) ==
    /\ rematch.status # "absent"
    /\ given < MaxRequests
    /\ given' = given + 1
    /\ canceling[o].pc = "idle"
    /\ \A f \in Focal : OpenItem(f) => ~Locked(f)
    /\ canceling' = [canceling EXCEPT ![o] =
                       [pc |-> "selected", items |-> {f \in Focal : OpenItem(f)}]]
    /\ UNCHANGED <<rematch, focal, reusable, rematcher, retry, overtaken, lapses>>

\* cancel, the rest: the job's lock, then the items selected before and the job.
CancelRematch(o) ==
    /\ canceling[o].pc = "selected"
    /\ focal' = [f \in Focal |-> IF f \notin canceling[o].items THEN focal[f]
                    ELSE [focal[f] EXCEPT !.status = "canceled", !.owner = "none",
                                          !.live = FALSE]]
    /\ rematch' = [rematch EXCEPT !.status = "canceled", !.cancel = TRUE]
    /\ canceling' = [canceling EXCEPT ![o] = NoCancel]
    /\ UNCHANGED <<reusable, rematcher, retry, overtaken, lapses, given>>

ReadForRetry(o) ==
    /\ given < MaxRequests
    /\ given' = given + 1
    /\ retry[o].pc = "idle"
    /\ rematch.status \in {"completed_with_failures", "canceled"}
    /\ retry' = [retry EXCEPT ![o] = [pc |-> "read", status |-> rematch.status,
                                      cancel |-> rematch.cancel]]
    /\ UNCHANGED <<rematch, focal, reusable, rematcher, canceling, overtaken, lapses>>

\* Only columns that differ from those read are written: a cancellation in
\* between keeps its cancel_requested.
RetryRematch(o) ==
    LET requeued == {f \in Focal : focal[f].status \in
                        {"failed", "manual_review", "no_match", "conflict", "canceled"}}
    IN
    /\ retry[o].pc = "read"
    /\ rematch' = [rematch EXCEPT !.status = "queued",
                                  !.cancel = IF retry[o].cancel THEN FALSE ELSE @]
    /\ focal' = [f \in Focal |-> IF f \in requeued THEN [focal[f] EXCEPT !.status = "queued"]
                                 ELSE focal[f]]
    /\ retry' = [retry EXCEPT ![o] = NoRetry]
    /\ overtaken' = IF \E p \in Operator : canceling[p].pc = "selected"
                    THEN overtaken \cup requeued ELSE overtaken \ requeued
    /\ UNCHANGED <<reusable, rematcher, canceling, lapses, given>>

RematchNext ==
    \/ CreateRematch \/ RecoverFocal
    \/ \E w \in Rematcher : ClaimFocal(w) \/ CompleteFocal(w) \/ ScheduleFocalRetry(w)
    \/ \E f \in Focal : ReuseOutcome(f) \/ LapseFocal(f)
    \/ \E o \in Operator : \/ ReadForCancel(o) \/ CancelRematch(o)
                           \/ ReadForRetry(o) \/ RetryRematch(o)

RematchSpec == RematchInit /\ [][RematchNext]_rematchVars

-----------------------------------------------------------------------------
(* Properties.                                                             *)

\* A cancelled job takes no more items, and has none left that a worker could
\* take or finish (cancel, claim_next, _owns_active_lease), in every order of the
\* operators' commands and the workers' steps: only what a retry requeued while
\* the cancellation was in flight can be missed by it.
CanceledJobIsQuiet ==
    rematch.status = "canceled" =>
        /\ rematch.cancel
        /\ \A f \in Focal : OpenItem(f) => f \in overtaken

\* A job that says it is completed has an outcome for every item, and its
\* counters are theirs (reconcile_counters, retry_rematching_job).
CompletedMeansProcessed ==
    rematch.status \in {"completed", "completed_with_failures"} =>
        /\ rematch.processed = Cardinality(Focal)
        /\ \A f \in Focal : focal[f].status \in RematchOutcome
        /\ rematch.failed = Cardinality({f \in Focal : focal[f].status = "failed"})
        /\ rematch.status = "completed" => rematch.failed = 0

\* What was recovered stays recovered: no late worker, cancellation or retry
\* takes an ai_recovered outcome back (complete_item's immutability).
RecoveredStays ==
    [][\A f \in Focal : focal[f].status = "ai_recovered" =>
          focal'[f].status = "ai_recovered"]_rematchVars

\* Both: a rematch job's status tells the truth about its items, in every
\* order of workers, expiring leases, cancellations and retries.
RematchStatusIsTrue == CanceledJobIsQuiet /\ CompletedMeansProcessed
=============================================================================
