------------------------------- MODULE Restores -------------------------------
(***************************************************************************)
(* Historical restores of the versions that batches have made: a restore   *)
(* is planned along the chain of versions, confirmed as a compensation     *)
(* batch, and counts only if its output says what the selected version     *)
(* says.                                                                   *)
(***************************************************************************)
EXTENDS ExecutionBatches

\* Mutant of Semantic: a restored version stands for itself.
SemanticIsItself(v) == v

\* resolve_semantic_version: a restored version stands for what it restored.
Semantic(v) ==
    LET sem[u \in DOMAIN version] ==
          IF version[u].restores = 0 THEN u ELSE sem[version[u].restores]
    IN  sem[v]

\* VersionPathResolver: v and its ancestors, and the nearest one shared.
Ancestors(v) ==
    LET up[u \in 0..Len(version)] == IF u = 0 THEN {} ELSE {u} \cup up[version[u].parent]
    IN  up[v]

CommonVersion(u, v) ==
    CHOOSE c \in Ancestors(u) \cap Ancestors(v) :
        \A a \in Ancestors(u) \cap Ancestors(v) : a <= c

\* _inverse of an operation.
Inverse(op) ==
    CASE op.kind = "create" -> [op EXCEPT !.kind = "remove", !.before = op.after]
      [] op.kind = "remove" -> [op EXCEPT !.kind = "update", !.before = op.after,
                                          !.after = op.before]
      [] OTHER -> [op EXCEPT !.before = op.after, !.after = op.before]

\* _edge: the operations that made version v, undone in the reverse order or
\* done again; they are certain if each was verified in that version.
Operations(v) == batch[version[v].batch].ops

Certain(v) ==
    /\ version[v].batch # "none"
    /\ \A i \in DOMAIN Operations(v) :
          attempt[version[v].batch][i] = [status |-> "succeeded", version |-> v]

Edge(v, inverse) ==
    LET n == Len(Operations(v)) IN
    [i \in 1..n |-> IF inverse THEN Inverse(Operations(v)[n + 1 - i]) ELSE Operations(v)[i]]

\* Edges from v up to, and without, the common version; newest first.
Backward(v, common) ==
    LET path[u \in common..Len(version)] ==
          IF u = common THEN <<>> ELSE Edge(u, TRUE) \o path[version[u].parent]
    IN  path[v]

Forward(v, common) ==
    LET path[u \in common..Len(version)] ==
          IF u = common THEN <<>> ELSE path[version[u].parent] \o Edge(u, FALSE)
    IN  path[v]

Path(v, common) == {u \in Ancestors(v) : u > common}

Chained(ops) == [i \in DOMAIN ops |-> [ops[i] EXCEPT !.needs = {i - 1} \ {0}]]

\* HistoricalRestorePlanner.plan between two semantic versions.
RestorePlan(source, target) ==
    LET common == CommonVersion(source, target)
    IN  Chained(Backward(source, common) \o Forward(target, common))

Allowed(source, target) ==
    LET common == CommonVersion(source, target) IN
    /\ \A v \in Path(source, common) \cup Path(target, common) : Certain(v)
    /\ RestorePlan(source, target) # <<>>

\* preview; a restore with conflicts is recorded too, and never confirmed.
PreviewRestore(target) ==
    LET from == Semantic(Current)
        to == Semantic(target)
    IN
    /\ MayPreview
    /\ Allowed(from, to)
    /\ restore' = restore \cup {[source |-> Current, target |-> target,
                                 ops |-> RestorePlan(from, to)]}
    /\ UNCHANGED <<proposal, upload, version, plans, batch, attempt, execution>>

BatchOf(r) == [kind |-> "restore", hash |-> <<>>, ops |-> r.ops,
               input |-> r.source, target |-> r.target]

\* confirm, under the lock of the request: once, and only while it is fresh.
ConfirmRestore(key) ==
    \E r \in restore :
        /\ ~\E k \in Key : batch[k] = BatchOf(r)
        /\ Current = r.source
        /\ CreateBatch(key, BatchOf(r))
        /\ UNCHANGED <<proposal, upload, version, plans, restore, execution>>

RestoreTypeOK ==
    /\ BatchTypeOK
    /\ \A r \in restore : /\ {r.source, r.target} \subseteq DOMAIN version
                          /\ \A i \in DOMAIN r.ops : r.ops[i] \in Operation

RestoreNext ==
    \/ BatchNext
    \/ \E v \in DOMAIN version : PreviewRestore(v)
    \/ \E k \in Key : ConfirmRestore(k)

-----------------------------------------------------------------------------
(* Properties.                                                             *)

\* A plan computed along the semantic path leads to the selected version: if
\* its operations succeed on the version it starts from, the result has the
\* selected content; and they do succeed if every earlier value can be read
\* back, unless one of the two was derived from a restored version: the path
\* may then undo the removal of a row, and _inverse makes of that an update of
\* the missing row (split, _inverse, _replay, resolve_semantic_version).
RestorePlansReachTheirTarget ==
    \A r \in restore :
        LET result == Executed(r.ops, [i \in DOMAIN r.ops |-> "none"], version[r.source].content)
            below == (Ancestors(r.source) \ {r.source}) \cup (Ancestors(r.target) \ {r.target})
        IN  /\ AllSucceeded(result) => result.content = version[r.target].content
            /\ upload.nullBefore = {} /\ (\A v \in below : ~IsRestore(v)) => AllSucceeded(result)
=============================================================================
