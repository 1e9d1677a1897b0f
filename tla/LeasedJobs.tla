----------------------------- MODULE LeasedJobs -----------------------------
(***************************************************************************)
(* The two kinds of leased jobs, the analysis job of a legacy task and the *)
(* rematch job of a school.  They have tables and workers of their own, so *)
(* that their composition is the conjunction of their specifications.      *)
(***************************************************************************)
EXTENDS AnalysisJobs, Rematching

LeasedJobsSpec == JobsSpec /\ RematchSpec

\* Both components' variables keep their types.
TypeOK == JobsTypeOK /\ RematchTypeOK

\* What was reached stays: outcomes of analysis items, stages that succeeded,
\* recovered entities, whatever a late worker or command does.
OutcomesStay == OutcomesAreFinal /\ SucceededStagesStay /\ RecoveredStays
=============================================================================
