---------------------------- MODULE TargetWrites ----------------------------
(***************************************************************************)
(* The two kinds of targets a task can write to, an external SQL table and *)
(* a local CSV file.  A task has one target and handlers of its own for    *)
(* it, so that the composition of the two is the conjunction of their      *)
(* specifications.                                                         *)
(***************************************************************************)
EXTENDS SqlTargetWrites, CsvTargetWrites

TargetWritesSpec == SqlSpec /\ CsvSpec

\* What the owner of a target wrote is not overwritten: rows of a table
\* (mutate's predicates), the live file (the publisher's hashes).
OwnersEditsAreKept == TableEditsAreKept /\ LiveEditsAreKept
=============================================================================
