--------------------------- MODULE EntityResolution ---------------------------
(***************************************************************************)
(* Entity resolution and difference detection for one entity type: the     *)
(* waves of an organization hierarchy (matching/service.py), the exact and *)
(* scored decisions, the one-to-one resolver with its Hungarian assignment *)
(* (matching/conflict_resolver.py) and the drafts derived from the latest  *)
(* decisions (differences/detector.py).                                    *)
(*                                                                         *)
(* Sources and targets are numbered in the order of their identifiers.     *)
(* A record's fields are abstracted to the decision they lead to: any one  *)
(* of RawDecisions.  Confidences are percentages, exact rationals instead  *)
(* of floats.  No production code confirms a mapping, so no decision is    *)
(* historical.                                                             *)
(***************************************************************************)
EXTENDS Integers, FiniteSets, FiniteSetsExt

CONSTANTS Sources,      \* number of records of the authoritative snapshot
          Targets,      \* number of records of the governance target
          ParentOf,     \* [Source -> Source \cup {0}]: parent_source_id
          Scores        \* the confidences a scored candidate can have

Source == 1..Sources
Target == 1..Targets
None == 0

ASSUME ResolutionAssumption ==
  /\ Sources \in Nat \ {0} /\ Targets \in Nat \ {0}
  /\ ParentOf \in [Source -> Source \cup {None}]
  /\ \A s \in Source : ParentOf[s] < s          \* the hierarchy has no cycle
  /\ Scores \subseteq 1..100

VARIABLES resolving,    \* [phase, vectors, mode, inner]: the call in progress
          decision,     \* [Source -> MatchDecision], the type_decisions
          solver,       \* the local variables of _hungarian
          drafts,       \* what the detector proposes
          claims        \* history: targets a source was ever accepted for

resolutionVars == <<resolving, decision, solver, drafts, claims>>

-----------------------------------------------------------------------------
(* Decisions.                                                              *)

Undecided ==
  [status |-> "undecided", target |-> None, confidence |-> 0,
   runnerUp |-> None, candidates |-> {}]

Unmatched == [Undecided EXCEPT !.status = "unmatched"]

Threshold == 86
Margin == 8

DecisionStatus(first, second) ==
  IF first < Threshold \/ (second # 0 /\ first - second < Margin)
  THEN "manual_review" ELSE "accepted"

\* A runner-up is only ever read from a decision under review.
Scored(first, second, t, r) ==
  LET status == DecisionStatus(first, second)
  IN  [status |-> status, target |-> t, confidence |-> first,
       runnerUp |-> IF status = "manual_review" THEN r ELSE None,
       candidates |-> {}]

\* CandidateScorer.decide over candidates taken from `among`.
ScoredDecisions(among) ==
  { Scored(first, 0, t, None) : first \in Scores, t \in among }
  \cup { Scored(p[1], p[2], p[3], p[4]) :
           p \in { q \in Scores \X Scores \X among \X among :
                     /\ q[3] # q[4]
                     /\ q[2] < q[1] \/ (q[2] = q[1] /\ q[3] < q[4]) } }

\* ExactMatcher.match: the key groups agree on one target, or they conflict.
ExactDecisions ==
  { [Undecided EXCEPT !.status = "accepted", !.target = t, !.confidence = 100] :
      t \in Target }
  \cup { [Undecided EXCEPT !.status = "conflict", !.candidates = c] :
           c \in { d \in SUBSET Target : Cardinality(d) > 1 } }

RawDecisions == ExactDecisions \cup ScoredDecisions(Target) \cup {Unmatched}

Has(s, status) == decision[s].status = status

Decided == { s \in Source : ~Has(s, "undecided") }

\* _source_batches: the records whose parent is resolved already.
Wave ==
  { s \in Source \ Decided : ParentOf[s] = None \/ ParentOf[s] \in Decided }

-----------------------------------------------------------------------------
(* ConflictResolver.resolve over the sources of `scope`.  A source has one *)
(* decision, so it never has an alternative edge.                          *)

AcceptedFor(scope, t) ==
  { s \in scope : Has(s, "accepted") /\ decision[s].target = t }

ReviewedFor(scope, t) ==
  { s \in scope : Has(s, "manual_review") /\ decision[s].target = t }

TopIsTied(group) ==
  \E s, r \in group :
    /\ s # r
    /\ decision[s].confidence = decision[r].confidence
    /\ \A o \in group : decision[o].confidence <= decision[s].confidence

BlockedTargets(scope) ==
  { t \in Target :
      \/ \E s \in scope : Has(s, "conflict") /\ decision[s].target = t
      \/ Cardinality(ReviewedFor(scope, t)) > 1
      \/ TopIsTied(AcceptedFor(scope, t)) }

Assignable(scope) ==
  { s \in scope : Has(s, "accepted") /\ decision[s].target \notin BlockedTargets(scope) }

\* The cost matrix: a missing edge costs 2, staying unassigned costs 1, an
\* edge 1 - confidence, with ties broken by row and then by column.
Unit == 1000
Infinity == 1000000
Ranked(set, x) == Cardinality({ y \in set : y <= x })
AtRank(set, k) == CHOOSE x \in set : Ranked(set, x) = k

\* Mutant of Matrix: confidence is minimised.
MatrixOfConfidence(rows) ==
  LET columns == { decision[s].target : s \in rows }
      n == Cardinality(columns)
      Edge(s, t) == decision[s].confidence * Unit
                      + 20 * (Ranked(rows, s) - 1) + Ranked(columns, t) - 1
  IN  [i \in 1..Cardinality(rows) |->
        [j \in 1..(n + Cardinality(rows)) |->
           IF j > n THEN 100 * Unit
           ELSE IF decision[AtRank(rows, i)].target = AtRank(columns, j)
           THEN Edge(AtRank(rows, i), AtRank(columns, j)) ELSE 200 * Unit]]

Matrix(rows) ==
  LET columns == { decision[s].target : s \in rows }
      n == Cardinality(columns)
      Edge(s, t) == (100 - decision[s].confidence) * Unit
                      + 20 * (Ranked(rows, s) - 1) + Ranked(columns, t) - 1
  IN  [i \in 1..Cardinality(rows) |->
        [j \in 1..(n + Cardinality(rows)) |->
           IF j > n THEN 100 * Unit
           ELSE IF decision[AtRank(rows, i)].target = AtRank(columns, j)
           THEN Edge(AtRank(rows, i), AtRank(columns, j)) ELSE 200 * Unit]]

NoSolver ==
  [rows |-> {}, cost |-> <<>>, width |-> 0, row |-> 0, u |-> <<>>, v |-> <<>>,
   matched |-> <<>>, previous |-> <<>>, minimum |-> <<>>, used |-> {},
   column |-> 0]

\* `for row in ...`: the next row enters at the artificial column 0.
Enter(s) ==
  [s EXCEPT !.row = @ + 1, !.matched[0] = s.row + 1, !.column = 0, !.used = {},
            !.minimum = [j \in 0..s.width |-> Infinity]]

Matching(rows) ==
  LET cost == Matrix(rows)
      width == Cardinality({ decision[s].target : s \in rows }) + Cardinality(rows)
      zero == [j \in 0..width |-> 0]
  IN  IF rows = {} THEN NoSolver
      ELSE Enter([NoSolver EXCEPT !.rows = rows, !.cost = cost, !.width = width,
                    !.u = [i \in 0..Cardinality(rows) |-> 0], !.v = zero,
                    !.matched = zero, !.previous = zero])

-----------------------------------------------------------------------------
ResolutionInit ==
  /\ resolving = [phase |-> "idle", vectors |-> FALSE, mode |-> "full",
                  inner |-> {}]
  /\ decision = [s \in Source |-> Undecided]
  /\ solver = NoSolver
  /\ drafts = {}
  /\ claims = [s \in Source |-> {}]

\* resolve(): with a vector index or without one, on a full or partial task.
Start ==
  /\ resolving.phase = "idle"
  /\ \E vectors \in BOOLEAN, mode \in {"full", "incremental"} :
       resolving' = [phase |-> "match", vectors |-> vectors, mode |-> mode,
                     inner |-> {}]
  /\ UNCHANGED <<decision, solver, drafts, claims>>

SaveDecisions(new) ==
  /\ decision' = new
  /\ claims' = [s \in Source |->
                  claims[s] \cup (IF new[s].status = "accepted"
                                  THEN {new[s].target} ELSE {})]

\* _resolve_type up to the scorer, for the records of one wave.
Match ==
  /\ resolving.phase = "match" /\ Wave # {}
  /\ \E raw \in [Wave -> RawDecisions] :
       SaveDecisions([s \in Source |-> IF s \in Wave THEN raw[s] ELSE decision[s]])
  /\ resolving' = [resolving EXCEPT
                     !.phase = IF resolving.vectors THEN "rescore" ELSE "resolve",
                     !.inner = IF resolving.vectors THEN Wave ELSE {}]
  /\ UNCHANGED <<solver, drafts>>

\* The second half of _resolve_type: reverse candidates among the targets the
\* wave has not consumed rescore its open sources.  The wave is then resolved
\* by itself, unless nothing is left to improve.
Rescore ==
  LET wave == resolving.inner
      open == { s \in wave : ~Has(s, "accepted") }
      unconsumed == Target \ { decision[s].target : s \in wave \ open }
  IN  /\ resolving.phase = "rescore"
      /\ \E rescored \in SUBSET open :
           \E new \in [rescored -> ScoredDecisions(unconsumed)] :
             SaveDecisions([s \in Source |-> IF s \in rescored THEN new[s] ELSE decision[s]])
      /\ resolving' = [resolving EXCEPT
                         !.phase = "resolve",
                         !.inner = IF open = {} /\ unconsumed = {} THEN {} ELSE @]
      /\ UNCHANGED <<solver, drafts>>

\* The decisions the current call of the resolver is given.
Scope == IF resolving.inner # {} THEN resolving.inner ELSE Decided

Resolve ==
  /\ resolving.phase = "resolve"
  /\ solver' = Matching(Assignable(Scope))
  /\ resolving' = [resolving EXCEPT
                     !.phase = IF Assignable(Scope) = {} THEN "settle" ELSE "assign"]
  /\ UNCHANGED <<decision, drafts, claims>>

\* One turn of the search for a free column: the cheapest unused column is
\* reached and the potentials move by its distance.
Grow ==
  LET used == solver.used \cup {solver.column}
      row == solver.matched[solver.column]
      free == (1..solver.width) \ used
      Reduced(j) == solver.cost[row][j] - solver.u[row] - solver.v[j]
      closer == { j \in free : Reduced(j) < solver.minimum[j] }
      minimum == [j \in 0..solver.width |->
                    IF j \in closer THEN Reduced(j) ELSE solver.minimum[j]]
      delta == Min({ minimum[j] : j \in free })
      next == Min({ j \in free : minimum[j] = delta })
      reached == { solver.matched[j] : j \in used }
  IN  /\ resolving.phase = "assign"
      /\ solver.column = 0 \/ solver.matched[solver.column] # 0
      /\ solver' = [solver EXCEPT
           !.used = used,
           !.column = next,
           !.previous = [j \in 0..solver.width |->
                           IF j \in closer THEN solver.column ELSE @[j]],
           !.minimum = [j \in 0..solver.width |->
                           IF j \in used THEN minimum[j] ELSE minimum[j] - delta],
           !.u = [i \in DOMAIN @ |-> IF i \in reached THEN @[i] + delta ELSE @[i]],
           !.v = [j \in DOMAIN @ |-> IF j \in used THEN @[j] - delta ELSE @[j]]]
      /\ UNCHANGED <<resolving, decision, drafts, claims>>

\* The columns of the alternating path that ends in column c.
PathTo(c) ==
  LET back[k \in 0..solver.width] ==
        IF k = 0 THEN c
        ELSE IF back[k - 1] = 0 THEN 0 ELSE solver.previous[back[k - 1]]
  IN  { back[k] : k \in 0..solver.width } \ {0}

\* A free column is reached: the path is flipped and the next row enters.
Augment ==
  LET path == PathTo(solver.column)
      flipped == [solver EXCEPT
                    !.matched = [j \in 0..solver.width |->
                                   IF j \in path THEN @[solver.previous[j]] ELSE @[j]]]
  IN  /\ resolving.phase = "assign"
      /\ solver.column # 0 /\ solver.matched[solver.column] = 0
      /\ IF solver.row < Cardinality(solver.rows)
         THEN solver' = Enter(flipped) /\ UNCHANGED resolving
         ELSE solver' = flipped /\ resolving' = [resolving EXCEPT !.phase = "settle"]
      /\ UNCHANGED <<decision, drafts, claims>>

\* The sources whose row got the column of their own edge.
Winners ==
  { s \in solver.rows :
      \E j \in 1..Cardinality({ decision[r].target : r \in solver.rows }) :
        /\ solver.matched[j] = Ranked(solver.rows, s)
        /\ decision[s].target
             = AtRank({ decision[r].target : r \in solver.rows }, j) }

\* Mutant of RejectLosers: the losers of an assignment stay accepted.
RejectBlockedOnly ==
  LET Loses(s) == s \in Scope \ Winners /\ decision[s].target \in BlockedTargets(Scope)
  IN  /\ resolving.phase = "settle"
      /\ SaveDecisions([s \in Source |->
                   IF Loses(s) THEN [decision[s] EXCEPT !.status = "conflict"]
                   ELSE decision[s]])
      /\ resolving' = [resolving EXCEPT
                         !.inner = {},
                         !.phase = IF resolving.inner # {} THEN "resolve"
                                   ELSE IF Wave # {} THEN "match" ELSE "saved"]
      /\ solver' = NoSolver
      /\ UNCHANGED drafts

\* The rest of resolve(): a loser that was accepted, or whose target is
\* blocked, becomes a conflict that keeps its target.
RejectLosers ==
  LET Loses(s) == /\ s \in Scope \ Winners
                  /\ \/ Has(s, "accepted")
                     \/ decision[s].target \in BlockedTargets(Scope)
  IN  /\ resolving.phase = "settle"
      /\ SaveDecisions([s \in Source |->
                   IF Loses(s) THEN [decision[s] EXCEPT !.status = "conflict"]
                   ELSE decision[s]])
      /\ resolving' = [resolving EXCEPT
                         !.inner = {},
                         !.phase = IF resolving.inner # {} THEN "resolve"
                                   ELSE IF Wave # {} THEN "match" ELSE "saved"]
      /\ solver' = NoSolver
      /\ UNCHANGED drafts

\* The targets the detector will not call redundant.  It looks for evidence
\* named "duplicate:...", which no matcher writes, so the candidates of an
\* exact-key conflict are not among them.
Reserved ==
  { decision[s].target : s \in { r \in Source :
      decision[r].status \in {"accepted", "manual_review", "conflict"} } }
  \cup { decision[s].runnerUp : s \in { r \in Source : Has(r, "manual_review") } }

DraftOf(s) ==
  CASE Has(s, "unmatched")     -> {[kind |-> "create", source |-> s, target |-> None]}
    [] Has(s, "manual_review") -> {}
    [] Has(s, "conflict")      ->
         {[kind |-> "conflict", source |-> s, target |-> decision[s].target]}
    [] Has(s, "accepted")      ->
         {[kind |-> "compare", source |-> s, target |-> decision[s].target]}

Detect ==
  /\ resolving.phase = "saved"
  /\ drafts' = (UNION { DraftOf(s) : s \in Source })
       \cup { [kind |-> "disable", source |-> None, target |-> t] :
                t \in IF resolving.mode = "full" THEN Target \ Reserved ELSE {} }
  /\ resolving' = [resolving EXCEPT !.phase = "detected"]
  /\ UNCHANGED <<decision, solver, claims>>

ResolutionNext ==
  \/ Start \/ Match \/ Rescore \/ Resolve \/ Grow \/ Augment \/ RejectLosers \/ Detect

ResolutionSpec == ResolutionInit /\ [][ResolutionNext]_resolutionVars

-----------------------------------------------------------------------------
ResolutionTypeOK ==
  /\ resolving \in [phase : {"idle", "match", "rescore", "resolve", "assign",
                             "settle", "saved", "detected"},
                    vectors : BOOLEAN, mode : {"full", "incremental"},
                    inner : SUBSET Source]
  /\ \A s \in Source : decision[s] \in
       [status : {"undecided", "unmatched", "accepted", "manual_review", "conflict"},
        target : Target \cup {None}, confidence : 0..100,
        runnerUp : Target \cup {None}, candidates : SUBSET Target]
  /\ claims \in [Source -> SUBSET Target]
  /\ \A d \in drafts : d.kind \in {"create", "conflict", "compare", "disable"}

Disabled == { d.target : d \in { e \in drafts : e.kind = "disable" } }

\* The decisions that are saved give no target to two sources, whichever waves
\* and passes of the resolver they came from (service.resolve).
AcceptedIsOneToOne ==
  resolving.phase \in {"saved", "detected"} =>
    \A s, r \in Source :
      (Has(s, "accepted") /\ Has(r, "accepted") /\ s # r)
        => decision[s].target # decision[r].target

\* _maximum_weight_assignment: no one-to-one choice among the edges it is given
\* has more confidence in total than the one the solver ends with.
AssignmentIsOptimal ==
  LET OneToOne(set) == \A s, r \in set : s # r => decision[s].target # decision[r].target
      Total(set) == FoldSet(LAMBDA s, sum : sum + decision[s].confidence, 0, set)
  IN  resolving.phase = "settle" =>
        /\ OneToOne(Winners)
        /\ \A set \in SUBSET solver.rows : OneToOne(set) => Total(set) <= Total(Winners)

\* Nobody is proposed for deactivation on the strength of a mapping that was
\* withdrawn: a target that a source was accepted for in any wave or pass is
\* compared or reported as a conflict, never called redundant (detector.detect).
WithdrawnClaimsAreKept ==
  resolving.phase = "detected" => \A s \in Source : Disabled \cap claims[s] = {}

\* What the resolver leaves behind, over all waves and passes: its mappings are
\* one to one, and the claims of withdrawn ones stay reserved.
MappingsStayOneToOne == AcceptedIsOneToOne /\ WithdrawnClaimsAreKept

\* A source whose exact keys lead to several targets reserves them all: none
\* of the candidates is proposed for deactivation.
ExactConflictReservesCandidates ==
  \A s \in Source : Has(s, "conflict") => decision[s].candidates \cap Disabled = {}
=============================================================================
