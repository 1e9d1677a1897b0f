------------------------ MODULE EntityResolution_proofs ------------------------
(***************************************************************************)
(* The mappings that entity resolution leaves behind are one to one and    *)
(* the claims of withdrawn ones stay reserved, for any number of records,  *)
(* any hierarchy and any scores.  The invariant says what each record was  *)
(* ever accepted for, and that a pass of the resolver over all records     *)
(* leaves the winners of its assignment; that two winners never share a    *)
(* candidate is a fact about ranks in finite sets of numbers.              *)
(***************************************************************************)
EXTENDS EntityResolution, FiniteSetTheorems, WellFoundedInduction, TLAPS

-----------------------------------------------------------------------------
(* The inductive invariant *)

AcceptedHaveTargets == \A s \in Source : Has(s, "accepted") => decision[s].target \in Target

\* A record is accepted for one target ever, and keeps it when it is withdrawn.
ClaimsFollowDecisions ==
    \A s \in Source : claims[s] # {} =>
        /\ decision[s].status \in {"accepted", "conflict"}
        /\ claims[s] = {decision[s].target}

\* What the second half of a wave rescores was never accepted.
OpenAreUnclaimed ==
    resolving.phase = "rescore" =>
        \A s \in resolving.inner : ~Has(s, "accepted") => claims[s] = {}

SolverIsFormed ==
    /\ "rows" \in DOMAIN solver
    /\ solver.rows \subseteq Source

AllAreDecided == resolving.phase \in {"saved", "detected"} => Decided = Source

ResolutionInv ==
    /\ ResolutionTypeOK
    /\ AcceptedHaveTargets
    /\ ClaimsFollowDecisions
    /\ OpenAreUnclaimed
    /\ SolverIsFormed
    /\ AllAreDecided
    /\ MappingsStayOneToOne


-----------------------------------------------------------------------------
(* Ranks in finite sets of numbers *)

LEMMA RanksAreDistinct ==
    ASSUME NEW S \in SUBSET Int, IsFiniteSet(S)
    PROVE  /\ \A x \in S : Ranked(S, x) \in 1..Cardinality(S)
           /\ \A x, y \in S : Ranked(S, x) = Ranked(S, y) => x = y
<1> DEFINE Below(x) == {y \in S : y <= x}
<1>1. \A x \in S : IsFiniteSet(Below(x)) /\ Cardinality(Below(x)) <= Cardinality(S)
      BY FS_Subset
<1>2. \A x \in S : Cardinality(Below(x)) \in Nat /\ Cardinality(S) \in Nat
      BY <1>1, FS_CardinalityType
<1>3. \A x \in S : Cardinality(Below(x)) # 0
  <2> SUFFICES ASSUME NEW x \in S, Cardinality(Below(x)) = 0 PROVE FALSE
      OBVIOUS
  <2>1. Below(x) = {}
        BY <1>1, FS_EmptySet
  <2> QED BY <2>1
<1>4. \A x, y \in S : x < y => Cardinality(Below(x)) # Cardinality(Below(y))
  <2> SUFFICES ASSUME NEW x \in S, NEW y \in S, x < y,
                      Cardinality(Below(x)) = Cardinality(Below(y))
               PROVE  FALSE
      OBVIOUS
  <2>1. Below(x) \subseteq Below(y)
    <3> SUFFICES ASSUME NEW z \in S, z <= x PROVE z <= y
        OBVIOUS
    <3>1. x \in Int /\ y \in Int /\ z \in Int
          OBVIOUS
    <3> QED BY <3>1
  <2>2. Below(y) = Below(x)
        BY <2>1, <1>1, FS_Subset
  <2>3. y \in Below(y) /\ y \notin Below(x)
        OBVIOUS
  <2> QED BY <2>2, <2>3
<1>5. \A x \in S : Ranked(S, x) = Cardinality(Below(x))
      BY DEF Ranked
<1> HIDE DEF Below
<1>6. \A x \in S : Ranked(S, x) \in 1..Cardinality(S)
      BY <1>1, <1>2, <1>3, <1>5
<1>7. \A x, y \in S : Ranked(S, x) = Ranked(S, y) => x = y
      BY <1>4, <1>5
<1> QED BY <1>6, <1>7

LEMMA EveryRankIsTaken ==
    ASSUME NEW S \in SUBSET Int, IsFiniteSet(S), NEW j \in 1..Cardinality(S)
    PROVE  AtRank(S, j) \in S /\ Ranked(S, AtRank(S, j)) = j
<1> DEFINE n == Cardinality(S)
           rank == [x \in S |-> Ranked(S, x)]
<1>1. n \in Nat
      BY FS_CardinalityType
<1>2. IsFiniteSet(1..n) /\ Cardinality(1..n) = n
      BY <1>1, FS_Interval
<1>3. rank \in Injection(S, 1..n)
      BY RanksAreDistinct DEF Injection, IsInjective
<1>4. rank \in Surjection(S, 1..n)
      BY <1>2, <1>3, FS_Injection
<1>5. \E x \in S : Ranked(S, x) = j
      BY <1>4 DEF Surjection
<1> QED BY <1>5 DEF AtRank

LEMMA WinnersShareNothing ==
    ASSUME ResolutionInv, NEW s \in Winners, NEW r \in Winners,
           decision[s].target = decision[r].target
    PROVE  s = r
<1> DEFINE rows == solver.rows
           columns == {decision[o].target : o \in rows}
<1>1. rows \in SUBSET Int /\ IsFiniteSet(rows)
  <2>1. rows \subseteq Source
        BY DEF ResolutionInv, SolverIsFormed
  <2>2. IsFiniteSet(Source) /\ Source \subseteq Int
        BY ResolutionAssumption, FS_Interval DEF Source
  <2> QED BY <2>1, <2>2, FS_Subset
<1>2. columns \in SUBSET Int
  <2>1. \A o \in Source : decision[o].target \in Target \cup {None}
        BY DEF ResolutionInv, ResolutionTypeOK
  <2>2. Target \cup {None} \subseteq Int
        BY ResolutionAssumption DEF Target, None
  <2> QED BY <2>1, <2>2 DEF ResolutionInv, SolverIsFormed
<1>3. IsFiniteSet(columns)
  <2> DEFINE f == [o \in rows |-> decision[o].target]
  <2>1. f \in Surjection(rows, columns)
        BY DEF Surjection
  <2> QED BY <1>1, <2>1, FS_Surjection
<1>4. PICK j \in 1..Cardinality(columns) :
        solver.matched[j] = Ranked(rows, s) /\ decision[s].target = AtRank(columns, j)
      BY DEF Winners
<1>5. PICK k \in 1..Cardinality(columns) :
        solver.matched[k] = Ranked(rows, r) /\ decision[r].target = AtRank(columns, k)
      BY DEF Winners
<1>6. s \in rows /\ r \in rows
      BY DEF Winners
<1> HIDE DEF rows, columns
<1>7. j = k
      BY <1>2, <1>3, <1>4, <1>5, EveryRankIsTaken
<1> QED BY <1>1, <1>4, <1>5, <1>6, <1>7, RanksAreDistinct

-----------------------------------------------------------------------------
(* The steps of the solver move no decision *)

Resolving == [phase : {"idle", "match", "rescore", "resolve", "assign", "settle", "saved",
                       "detected"},
              vectors : BOOLEAN, mode : {"full", "incremental"}, inner : SUBSET Source]

Decision == [status : {"undecided", "unmatched", "accepted", "manual_review", "conflict"},
             target : Target \cup {None}, confidence : 0..100,
             runnerUp : Target \cup {None}, candidates : SUBSET Target]

LEMMA SolverStepsKeep ==
    ASSUME ResolutionInv, UNCHANGED <<decision, drafts, claims>>, resolving' \in Resolving,
           resolving'.phase \notin {"rescore", "saved", "detected"}, SolverIsFormed'
    PROVE  ResolutionInv'
BY DEF ResolutionInv, ResolutionTypeOK, Resolving, AcceptedHaveTargets, ClaimsFollowDecisions,
   OpenAreUnclaimed, AllAreDecided, Decided, Has, MappingsStayOneToOne, AcceptedIsOneToOne,
   WithdrawnClaimsAreKept, Disabled

LEMMA ResolvingTyped ==
    ResolutionInv => resolving \in Resolving /\ \A s \in Source : decision[s] \in Decision
BY DEF ResolutionInv, ResolutionTypeOK, Resolving, Decision

LEMMA EnterKeepsRows ==
    ASSUME NEW s, "rows" \in DOMAIN s
    PROVE  "rows" \in DOMAIN Enter(s) /\ Enter(s).rows = s.rows
BY DEF Enter

LEMMA MatchingTakesRows ==
    ASSUME NEW rows \in SUBSET Source
    PROVE  "rows" \in DOMAIN Matching(rows) /\ Matching(rows).rows = rows
<1> DEFINE cost == Matrix(rows)
           width == Cardinality({decision[s].target : s \in rows}) + Cardinality(rows)
           zero == [j \in 0..width |-> 0]
           fresh == [NoSolver EXCEPT !.rows = rows, !.cost = cost, !.width = width,
                       !.u = [i \in 0..Cardinality(rows) |-> 0], !.v = zero,
                       !.matched = zero, !.previous = zero]
<1>1. "rows" \in DOMAIN NoSolver /\ NoSolver.rows = {}
      BY DEF NoSolver
<1>2. "rows" \in DOMAIN fresh /\ fresh.rows = rows
      BY <1>1
<1>3. Matching(rows) = IF rows = {} THEN NoSolver ELSE Enter(fresh)
      BY DEF Matching
<1> HIDE DEF fresh
<1> QED BY <1>1, <1>2, <1>3, EnterKeepsRows

LEMMA StartKeeps == ASSUME ResolutionInv, Start PROVE ResolutionInv'
<1>1. resolving' \in Resolving /\ resolving'.phase = "match"
      BY DEF Start, Resolving
<1>2. SolverIsFormed'
      BY DEF Start, ResolutionInv, SolverIsFormed
<1> QED BY <1>1, <1>2, SolverStepsKeep DEF Start

LEMMA ResolveKeeps == ASSUME ResolutionInv, Resolve PROVE ResolutionInv'
<1>1. resolving' \in Resolving /\ resolving'.phase \in {"settle", "assign"}
      BY ResolvingTyped DEF Resolve, Resolving
<1>2. Assignable(Scope) \in SUBSET Source
      BY ResolvingTyped DEF Assignable, Scope, Decided, Resolving
<1>3. SolverIsFormed'
      BY <1>2, MatchingTakesRows DEF Resolve, SolverIsFormed
<1> QED BY <1>1, <1>3, SolverStepsKeep DEF Resolve

LEMMA GrowKeeps == ASSUME ResolutionInv, Grow PROVE ResolutionInv'
<1>1. "rows" \in DOMAIN solver /\ solver.rows \subseteq Source
      BY DEF ResolutionInv, SolverIsFormed
<1>2. SolverIsFormed'
      BY <1>1 DEF Grow, SolverIsFormed
<1>3. UNCHANGED <<resolving, decision, drafts, claims>> /\ resolving.phase = "assign"
      BY DEF Grow
<1> QED BY <1>2, <1>3, ResolvingTyped, SolverStepsKeep

LEMMA AugmentKeeps == ASSUME ResolutionInv, Augment PROVE ResolutionInv'
<1> DEFINE path == PathTo(solver.column)
           flipped == [solver EXCEPT
                         !.matched = [j \in 0..solver.width |->
                                        IF j \in path THEN @[solver.previous[j]] ELSE @[j]]]
<1>1. "rows" \in DOMAIN flipped /\ flipped.rows \subseteq Source
      BY DEF ResolutionInv, SolverIsFormed
<1>2. /\ solver' = flipped \/ solver' = Enter(flipped)
      /\ resolving' = resolving \/ resolving' = [resolving EXCEPT !.phase = "settle"]
      /\ resolving.phase = "assign"
      /\ UNCHANGED <<decision, drafts, claims>>
      BY DEF Augment
<1> HIDE DEF flipped
<1>3. SolverIsFormed'
      BY <1>1, <1>2, EnterKeepsRows DEF SolverIsFormed
<1>4. resolving' \in Resolving /\ resolving'.phase \in {"assign", "settle"}
      BY <1>2, ResolvingTyped DEF Resolving
<1> QED BY <1>2, <1>3, <1>4, SolverStepsKeep

-----------------------------------------------------------------------------
(* The steps that save decisions *)

Accepts(d) == d.status = "accepted" => d.target \in Target

LEMMA ScoredAreDecisions ==
    ASSUME NEW among \in SUBSET Target, NEW d \in ScoredDecisions(among)
    PROVE  d \in Decision /\ d.status # "undecided" /\ Accepts(d)
<1>1. \A first \in Scores, second \in Scores \cup {0}, t \in among, r \in among \cup {None} :
        LET e == Scored(first, second, t, r)
        IN  e \in Decision /\ e.status # "undecided" /\ Accepts(e)
      BY ResolutionAssumption DEF Scored, DecisionStatus, Decision, Accepts
<1>2. \E first \in Scores, second \in Scores \cup {0}, t \in among, r \in among \cup {None} :
        d = Scored(first, second, t, r)
      BY DEF ScoredDecisions
<1> QED BY <1>1, <1>2

LEMMA RawAreDecisions ==
    ASSUME NEW d \in RawDecisions
    PROVE  d \in Decision /\ d.status # "undecided" /\ Accepts(d)
<1>1. CASE d \in ExactDecisions
  <2>1. CASE \E t \in Target :
          d = [Undecided EXCEPT !.status = "accepted", !.target = t, !.confidence = 100]
    <3>1. PICK t \in Target :
            d = [status |-> "accepted", target |-> t, confidence |-> 100,
                 runnerUp |-> None, candidates |-> {}]
          BY <2>1 DEF Undecided
    <3> QED BY <3>1 DEF Decision, Accepts
  <2>2. CASE \E c \in SUBSET Target :
          d = [Undecided EXCEPT !.status = "conflict", !.candidates = c]
    <3>1. PICK c \in SUBSET Target :
            d = [status |-> "conflict", target |-> None, confidence |-> 0,
                 runnerUp |-> None, candidates |-> c]
          BY <2>2 DEF Undecided
    <3> QED BY <3>1 DEF Decision, Accepts
  <2> QED BY <1>1, <2>1, <2>2 DEF ExactDecisions
<1>2. CASE d \in ScoredDecisions(Target)
      BY <1>2, ScoredAreDecisions
<1>3. CASE d = Unmatched
      BY <1>3 DEF Unmatched, Undecided, Decision, Accepts, None
<1> QED BY <1>1, <1>2, <1>3 DEF RawDecisions

LEMMA SavedTyped ==
    ASSUME ResolutionInv, NEW new, SaveDecisions(new), UNCHANGED drafts,
           \A s \in Source : new[s] \in Decision /\ Accepts(new[s]),
           resolving' \in Resolving
    PROVE  ResolutionTypeOK' /\ AcceptedHaveTargets'
<1>1. \A s \in Source : decision'[s] \in Decision /\ Accepts(decision'[s])
      BY DEF SaveDecisions
<1>2. claims' \in [Source -> SUBSET Target]
  <2>1. claims \in [Source -> SUBSET Target]
        BY DEF ResolutionInv, ResolutionTypeOK
  <2> QED BY <2>1 DEF SaveDecisions, Accepts
<1>3. \A d \in drafts' : d.kind \in {"create", "conflict", "compare", "disable"}
      BY DEF ResolutionInv, ResolutionTypeOK
<1>4. AcceptedHaveTargets'
      BY <1>1 DEF AcceptedHaveTargets, Accepts, Has
<1> QED BY <1>1, <1>2, <1>3, <1>4 DEF ResolutionTypeOK, Resolving, Decision

LEMMA ClaimsKeep ==
    ASSUME ResolutionInv, NEW new, SaveDecisions(new),
           \A s \in Source : claims[s] # {} =>
               new[s].status \in {"accepted", "conflict"} /\ new[s].target = decision[s].target
    PROVE  ClaimsFollowDecisions'
BY DEF ResolutionInv, ClaimsFollowDecisions, SaveDecisions

LEMMA MatchKeeps == ASSUME ResolutionInv, Match PROVE ResolutionInv'
<1>1. PICK raw \in [Wave -> RawDecisions] :
        SaveDecisions([s \in Source |-> IF s \in Wave THEN raw[s] ELSE decision[s]])
      BY DEF Match
<1> DEFINE new == [s \in Source |-> IF s \in Wave THEN raw[s] ELSE decision[s]]
<1>2. \A s \in Source : new[s] \in Decision /\ Accepts(new[s])
      BY RawAreDecisions, ResolvingTyped DEF ResolutionInv, AcceptedHaveTargets, Accepts, Has
<1>3. \A s \in Wave : s \in Source /\ claims[s] = {}
      BY DEF Wave, Decided, Has, ResolutionInv, ClaimsFollowDecisions
<1>4. \A s \in Source : claims[s] # {} =>
        new[s].status \in {"accepted", "conflict"} /\ new[s].target = decision[s].target
      BY <1>3 DEF ResolutionInv, ClaimsFollowDecisions
<1>5. resolving' \in Resolving /\ resolving'.phase \in {"rescore", "resolve"}
      /\ resolving'.inner \subseteq Wave
      BY ResolvingTyped DEF Match, Resolving, Wave
<1> HIDE DEF new
<1>6. ResolutionTypeOK' /\ AcceptedHaveTargets'
      BY <1>1, <1>2, <1>5, SavedTyped DEF new, Match
<1>7. ClaimsFollowDecisions'
      BY <1>1, <1>4, ClaimsKeep DEF new
<1>8. OpenAreUnclaimed'
  <2>1. \A s \in Wave : decision'[s].status # "accepted" => claims'[s] = {}
        BY <1>1, <1>3 DEF SaveDecisions
  <2> QED BY <2>1, <1>5 DEF OpenAreUnclaimed, Has
<1>9. SolverIsFormed'
      BY DEF Match, ResolutionInv, SolverIsFormed
<1> QED BY <1>5, <1>6, <1>7, <1>8, <1>9
    DEF ResolutionInv, AllAreDecided, MappingsStayOneToOne, AcceptedIsOneToOne,
        WithdrawnClaimsAreKept

LEMMA RescoreKeeps == ASSUME ResolutionInv, Rescore PROVE ResolutionInv'
<1> DEFINE wave == resolving.inner
           open == {s \in wave : ~Has(s, "accepted")}
           unconsumed == Target \ {decision[s].target : s \in wave \ open}
<1>1. PICK rescored \in SUBSET open : \E new \in [rescored -> ScoredDecisions(unconsumed)] :
        SaveDecisions([s \in Source |-> IF s \in rescored THEN new[s] ELSE decision[s]])
      BY DEF Rescore
<1>2. PICK scored \in [rescored -> ScoredDecisions(unconsumed)] :
        SaveDecisions([s \in Source |-> IF s \in rescored THEN scored[s] ELSE decision[s]])
      BY <1>1
<1> DEFINE new == [s \in Source |-> IF s \in rescored THEN scored[s] ELSE decision[s]]
<1>3. \A s \in Source : new[s] \in Decision /\ Accepts(new[s])
      BY ScoredAreDecisions, ResolvingTyped
      DEF ResolutionInv, AcceptedHaveTargets, Accepts, Has
<1>4. resolving.phase = "rescore" /\ resolving' \in Resolving /\ resolving'.phase = "resolve"
      /\ UNCHANGED <<solver, drafts>>
      BY ResolvingTyped DEF Rescore, Resolving
<1>5. \A s \in rescored : claims[s] = {}
      BY <1>4 DEF ResolutionInv, OpenAreUnclaimed
<1>6. \A s \in Source : claims[s] # {} =>
        new[s].status \in {"accepted", "conflict"} /\ new[s].target = decision[s].target
      BY <1>5 DEF ResolutionInv, ClaimsFollowDecisions
<1>7. SaveDecisions(new)
      BY <1>2
<1> HIDE DEF new
<1>8. ResolutionTypeOK' /\ AcceptedHaveTargets' /\ ClaimsFollowDecisions'
      BY <1>3, <1>4, <1>6, <1>7, SavedTyped, ClaimsKeep
<1>9. SolverIsFormed'
      BY <1>4 DEF ResolutionInv, SolverIsFormed
<1> QED BY <1>4, <1>8, <1>9
    DEF ResolutionInv, OpenAreUnclaimed, AllAreDecided, MappingsStayOneToOne,
        AcceptedIsOneToOne, WithdrawnClaimsAreKept

-----------------------------------------------------------------------------
(* The passes of the resolver and what the detector proposes *)

\* The hierarchy has no cycle, so that a wave is empty only when all is decided.
LEMMA WavesReachAll == Wave = {} => Decided = Source
<1> SUFFICES ASSUME Wave = {}, Decided # Source
             PROVE  FALSE
    OBVIOUS
<1> DEFINE Open == Source \ Decided
<1>1. Open # {} /\ Open \in SUBSET Nat
      BY ResolutionAssumption DEF Decided, Source
<1>2. PICK s \in Open : \A r \in Open : ~(<<r, s>> \in OpToRel(<, Nat))
      BY <1>1, WFMin, NatLessThanWellFounded
<1>3. \A r \in Open : ~(r < s)
      BY <1>1, <1>2 DEF OpToRel
<1>4. ParentOf[s] < s /\ ParentOf[s] \in Source \cup {None}
      BY ResolutionAssumption
<1>5. ParentOf[s] = None \/ ParentOf[s] \in Decided
      BY <1>3, <1>4
<1> QED BY <1>5 DEF Wave

LEMMA RejectLosersKeeps == ASSUME ResolutionInv, RejectLosers PROVE ResolutionInv'
<1> DEFINE Loses(s) == /\ s \in Scope \ Winners
                       /\ \/ Has(s, "accepted")
                          \/ decision[s].target \in BlockedTargets(Scope)
           new == [s \in Source |->
                     IF Loses(s) THEN [decision[s] EXCEPT !.status = "conflict"]
                     ELSE decision[s]]
<1>1. /\ SaveDecisions(new)
      /\ resolving' = [resolving EXCEPT
                         !.inner = {},
                         !.phase = IF resolving.inner # {} THEN "resolve"
                                   ELSE IF Wave # {} THEN "match" ELSE "saved"]
      /\ solver' = NoSolver
      /\ UNCHANGED drafts
      BY DEF RejectLosers
<1>2. \A s \in Source :
        /\ new[s] \in Decision /\ Accepts(new[s])
        /\ new[s].target = decision[s].target
        /\ new[s].status = IF Loses(s) THEN "conflict" ELSE decision[s].status
  <2>1. \A d \in Decision :
          LET e == [d EXCEPT !.status = "conflict"]
          IN  e \in Decision /\ e.status = "conflict" /\ e.target = d.target
        BY DEF Decision
  <2>2. \A s \in Source : decision[s] \in Decision /\ Accepts(decision[s])
        BY ResolvingTyped DEF ResolutionInv, AcceptedHaveTargets, Accepts, Has
  <2> HIDE DEF Loses
  <2> QED BY <2>1, <2>2 DEF Accepts
<1>3. resolving' \in Resolving
      /\ resolving'.phase = IF resolving.inner # {} THEN "resolve"
                            ELSE IF Wave # {} THEN "match" ELSE "saved"
      BY <1>1, ResolvingTyped DEF Resolving
<1>4. \A s \in Source : decision'[s] = new[s]
      BY <1>1 DEF SaveDecisions
<1>5. \A s \in Source : claims[s] # {} =>
        new[s].status \in {"accepted", "conflict"} /\ new[s].target = decision[s].target
      BY <1>2 DEF ResolutionInv, ClaimsFollowDecisions
<1> HIDE DEF new
<1>6. ResolutionTypeOK' /\ AcceptedHaveTargets' /\ ClaimsFollowDecisions'
      BY <1>1, <1>2, <1>3, <1>5, SavedTyped, ClaimsKeep
<1>7. SolverIsFormed'
      BY <1>1 DEF SolverIsFormed, NoSolver
<1>8. OpenAreUnclaimed' /\ WithdrawnClaimsAreKept'
      BY <1>3 DEF OpenAreUnclaimed, WithdrawnClaimsAreKept
<1>9. CASE resolving.inner = {} /\ Wave = {}
  <2>1. Decided = Source /\ Scope = Source
        BY <1>9, WavesReachAll DEF Scope
  <2>2. AllAreDecided'
        BY <1>2, <1>4, <2>1 DEF AllAreDecided, Decided, Has
  <2>3. \A s \in Source : decision'[s].status = "accepted" => s \in Winners
        BY <1>2, <1>4, <2>1 DEF Has
  <2>4. AcceptedIsOneToOne'
        BY <1>2, <1>4, <2>3, WinnersShareNothing DEF AcceptedIsOneToOne, Has
  <2> QED BY <1>6, <1>7, <1>8, <2>2, <2>4 DEF ResolutionInv, MappingsStayOneToOne
<1>10. CASE ~(resolving.inner = {} /\ Wave = {})
  <2>1. resolving'.phase \in {"resolve", "match"}
        BY <1>3, <1>10
  <2> QED BY <1>6, <1>7, <1>8, <2>1
      DEF ResolutionInv, AllAreDecided, AcceptedIsOneToOne, MappingsStayOneToOne
<1> QED BY <1>9, <1>10

LEMMA DetectKeeps == ASSUME ResolutionInv, Detect PROVE ResolutionInv'
<1> DEFINE disabled == IF resolving.mode = "full" THEN Target \ Reserved ELSE {}
           settled == UNION {DraftOf(s) : s \in Source}
           redundant == {[kind |-> "disable", source |-> None, target |-> t] : t \in disabled}
<1>1. /\ resolving.phase = "saved"
      /\ drafts' = settled \cup redundant
      /\ resolving' = [resolving EXCEPT !.phase = "detected"]
      /\ UNCHANGED <<decision, solver, claims>>
      BY DEF Detect
<1>2. \A s \in Source :
        decision[s].status \in {"unmatched", "accepted", "manual_review", "conflict"}
      BY <1>1, ResolvingTyped DEF ResolutionInv, AllAreDecided, Decided, Has, Decision
<1>3. \A s \in Source : \A d \in DraftOf(s) : d.kind \in {"create", "conflict", "compare"}
      BY <1>2 DEF DraftOf, Has
<1>4. resolving' \in Resolving /\ resolving'.phase = "detected"
      BY <1>1, ResolvingTyped DEF Resolving
<1>5. \A d \in drafts' : /\ d.kind \in {"create", "conflict", "compare", "disable"}
                         /\ d.kind = "disable" => d.target \in disabled
  <2> SUFFICES ASSUME NEW d \in drafts'
               PROVE  /\ d.kind \in {"create", "conflict", "compare", "disable"}
                      /\ d.kind = "disable" => d.target \in disabled
      OBVIOUS
  <2>1. CASE d \in settled
        BY <2>1, <1>3
  <2>2. CASE d \in redundant
        BY <2>2
  <2> QED BY <1>1, <2>1, <2>2
<1>6. \A s \in Source : claims[s] \subseteq Reserved
      BY DEF ResolutionInv, ClaimsFollowDecisions, Reserved
<1>7. WithdrawnClaimsAreKept'
      BY <1>1, <1>5, <1>6 DEF WithdrawnClaimsAreKept, Disabled
<1>8. AcceptedIsOneToOne' /\ AllAreDecided'
      BY <1>1 DEF ResolutionInv, AcceptedIsOneToOne, AllAreDecided, MappingsStayOneToOne,
         Decided, Has
<1>9. ResolutionTypeOK'
      BY <1>1, <1>4, <1>5 DEF ResolutionInv, ResolutionTypeOK, Resolving
<1> QED BY <1>1, <1>4, <1>7, <1>8, <1>9
    DEF ResolutionInv, AcceptedHaveTargets, ClaimsFollowDecisions, OpenAreUnclaimed,
        SolverIsFormed, MappingsStayOneToOne, Has

-----------------------------------------------------------------------------
(* The theorems *)

LEMMA ResolutionStarts == ResolutionInit => ResolutionInv
BY DEF ResolutionInit, ResolutionInv, ResolutionTypeOK, AcceptedHaveTargets,
   ClaimsFollowDecisions, OpenAreUnclaimed, SolverIsFormed, AllAreDecided,
   MappingsStayOneToOne, AcceptedIsOneToOne, WithdrawnClaimsAreKept, Undecided, NoSolver, Has,
   None

LEMMA ResolutionStepsKeep == ResolutionInv /\ [ResolutionNext]_resolutionVars => ResolutionInv'
<1> SUFFICES ASSUME ResolutionInv, [ResolutionNext]_resolutionVars
             PROVE  ResolutionInv'
    OBVIOUS
<1>1. CASE UNCHANGED resolutionVars
      BY <1>1 DEF resolutionVars, ResolutionInv, ResolutionTypeOK, AcceptedHaveTargets,
         ClaimsFollowDecisions, OpenAreUnclaimed, SolverIsFormed, AllAreDecided, Decided,
         MappingsStayOneToOne, AcceptedIsOneToOne, WithdrawnClaimsAreKept, Disabled, Has
<1> QED BY <1>1, StartKeeps, MatchKeeps, RescoreKeeps, ResolveKeeps, GrowKeeps, AugmentKeeps,
           RejectLosersKeeps, DetectKeeps DEF ResolutionNext

LEMMA ResolutionInvariance == ResolutionSpec => []ResolutionInv
BY ResolutionStarts, ResolutionStepsKeep, PTL DEF ResolutionSpec

\* Whatever waves, rescorings and passes of the resolver the decisions come from,
\* no two records keep one candidate, and no candidate of a withdrawn mapping is
\* called redundant (ConflictResolver.resolve, DifferenceDetector.detect).
THEOREM Resolution_MappingsStayOneToOne == ResolutionSpec => []MappingsStayOneToOne
<1>1. ResolutionInv => MappingsStayOneToOne
      BY DEF ResolutionInv
<1> QED BY <1>1, ResolutionInvariance, PTL

\* Every accepted decision names a candidate, and drafts are of the four kinds.
THEOREM Resolution_TypeOK == ResolutionSpec => []ResolutionTypeOK
<1>1. ResolutionInv => ResolutionTypeOK
      BY DEF ResolutionInv
<1> QED BY <1>1, ResolutionInvariance, PTL
=============================================================================
