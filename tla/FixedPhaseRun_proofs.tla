------------------------ MODULE FixedPhaseRun_proofs ------------------------
(***************************************************************************)
(* A fixed-phase run analyses everything once and plans only what reviews  *)
(* allow, for any finite number of findings, batches and workers, any      *)
(* groups of risk and any dependencies.  The invariant says what a phase,  *)
(* a handler's result and the memory of a worker, however old its claim,   *)
(* imply of the batches and the reviews.                                   *)
(***************************************************************************)
EXTENDS FixedPhaseRun, FiniteSetTheorems, TLAPS

-----------------------------------------------------------------------------
(* The inductive invariant *)

LatePhase == {"clarify", "aggregate", "compile", "execute", "report", "terminal"}
PlanPhase == {"compile", "execute", "report", "terminal"}

AllAnswered ==
    /\ \A b \in Batch : batches[b].status = "completed"
    /\ \A f \in Finding : answer[f] # "none"

AllReviewed ==
    /\ AllAnswered
    /\ \A g \in ReviewGroups(Finding) : reviews[g] \in {"approved", "rejected"}
    /\ \A g \in Groups : reviews[g] # "pending"

\* A batch and the answers to its work items are written together.
AnswersComeInBatches ==
    \A f \in Finding : answer[f] # "none" <=> batches[BatchFor[f]].status = "completed"

\* A handler that returned a late phase found everything answered, and what a
\* worker no longer lists is completed, however old its claim.
HandsAreFounded ==
    \A w \in RunWorker :
        /\ hand[w].next \in LatePhase => AllAnswered
        /\ hand[w].next \in PlanPhase => AllReviewed
        /\ hand[w].pc \in {"claim", "model"} =>
              \A b \in Batch \ hand[w].todo : batches[b].status = "completed"
        /\ hand[w].pc = "model" => hand[w].batch \in Batch

RunIsFounded ==
    /\ phased.phase \in LatePhase => AllAnswered
    /\ phased.phase \in PlanPhase => AllReviewed

PlanIsFounded ==
    /\ compiled.made => AllReviewed
    /\ ~compiled.made => compiled.findings = {}

DecisionsArePending == \A g \in Groups : judging[g] # "none" => reviews[g] = "pending"

\* A batch in somebody's hands has an attempt left.
ClaimsHaveAttempts ==
    \A b \in Batch : batches[b].status = "claimed" => batches[b].attempts < MaxModelAttempts

FixedPhaseInv ==
    /\ FixedPhaseTypeOK
    /\ ClaimsHaveAttempts
    /\ AnswersComeInBatches
    /\ HandsAreFounded
    /\ RunIsFounded
    /\ PlanIsFounded
    /\ DecisionsArePending
    /\ PlanRespectsReviews

-----------------------------------------------------------------------------
(* What the plan leaves out *)

LEMMA LeastNat ==
    ASSUME NEW T \in SUBSET Nat, T # {}
    PROVE  \E x \in T : \A y \in T : x <= y
<1>1. PICK x \in T : \A y \in T : ~(<<y, x>> \in OpToRel(<, Nat))
      BY WFMin, NatLessThanWellFounded
<1>2. \A y \in T : ~(y < x)
      BY <1>1 DEF OpToRel
<1> QED BY <1>2

Dependants(S) == {f \in Finding : DependsOn[f] \cap S # {}}
Iterates(g, n) == g = [i \in 0..n |-> IF i = 0 THEN Rejected ELSE g[i - 1] \cup Dependants(g[i - 1])]

LEMMA IteratesExist ==
    ASSUME NEW n \in Nat
    PROVE  \E g : Iterates(g, n)
<1> DEFINE T == {m \in Nat : ~ \E g : Iterates(g, m)}
<1>1. SUFFICES ASSUME T # {} PROVE FALSE
      OBVIOUS
<1>2. PICK m \in T : \A k \in T : m <= k
      BY <1>1, LeastNat
<1>3. CASE m = 0
  <2> DEFINE g == [i \in 0..0 |-> Rejected]
  <2>1. g = [i \in 0..0 |-> IF i = 0 THEN Rejected ELSE g[i - 1] \cup Dependants(g[i - 1])]
        OBVIOUS
  <2> QED BY <1>3, <2>1 DEF Iterates
<1>4. CASE m # 0
  <2>1. m - 1 \in Nat /\ m - 1 \notin T
        BY <1>2, <1>4
  <2>2. PICK h : Iterates(h, m - 1)
        BY <2>1
  <2> DEFINE g == [i \in 0..m |-> IF i = 0 THEN Rejected ELSE h[i - 1] \cup Dependants(h[i - 1])]
  <2>3. \A k \in 0..(m - 1) :
            h[k] = IF k = 0 THEN Rejected ELSE h[k - 1] \cup Dependants(h[k - 1])
        BY <2>2 DEF Iterates
  <2>4. ASSUME NEW k \in 0..(m - 1) PROVE g[k] = h[k]
    <3>1. k \in 0..m
          BY <1>2
    <3>2. g[k] = IF k = 0 THEN Rejected ELSE h[k - 1] \cup Dependants(h[k - 1])
          BY <3>1
    <3> HIDE DEF g
    <3> QED BY <2>3, <3>2
  <2>5. \A i \in 0..m : i # 0 => i - 1 \in 0..(m - 1)
        BY <1>2
  <2>6. g = [i \in 0..m |-> IF i = 0 THEN Rejected ELSE g[i - 1] \cup Dependants(g[i - 1])]
        BY <2>4, <2>5
  <2> QED BY <1>2, <2>6 DEF Iterates
<1> QED BY <1>3, <1>4

LEMMA BlockedAfterEach ==
    LET n == Cardinality(Finding) IN
    /\ n \in Nat
    /\ BlockedAfter[0] = Rejected
    /\ \A i \in 1..n : BlockedAfter[i] = BlockedAfter[i - 1] \cup Dependants(BlockedAfter[i - 1])
<1> DEFINE n == Cardinality(Finding)
<1>1. n \in Nat
      BY FixedPhaseAssumption, FS_CardinalityType
<1>2. BlockedAfter = CHOOSE g : Iterates(g, n)
      BY DEF BlockedAfter, Iterates, Dependants
<1>3. Iterates(BlockedAfter, n)
      BY <1>1, <1>2, IteratesExist
<1>4. ASSUME NEW i \in 0..n
      PROVE  BlockedAfter[i] = IF i = 0 THEN Rejected
                               ELSE BlockedAfter[i - 1] \cup Dependants(BlockedAfter[i - 1])
  <2>1. BlockedAfter = [j \in 0..n |-> IF j = 0 THEN Rejected
                               ELSE BlockedAfter[j - 1] \cup Dependants(BlockedAfter[j - 1])]
        BY <1>3 DEF Iterates
  <2> HIDE DEF n
  <2> QED BY <2>1
<1> HIDE DEF n
<1>5. 0 \in 0..n /\ \A i \in 1..n : i \in 0..n /\ i # 0
      BY <1>1
<1> QED BY <1>1, <1>4, <1>5 DEF n

ClosedUnder(S) == Dependants(S) \subseteq S

LEMMA BlockedIsClosed == Rejected \subseteq Blocked /\ Blocked \subseteq Finding /\ ClosedUnder(Blocked)
<1> DEFINE n == Cardinality(Finding)
<1>1. /\ n \in Nat /\ IsFiniteSet(Finding)
      /\ BlockedAfter[0] = Rejected
      /\ \A i \in 1..n : BlockedAfter[i] = BlockedAfter[i - 1] \cup Dependants(BlockedAfter[i - 1])
      BY BlockedAfterEach, FixedPhaseAssumption
<1>2. Blocked = BlockedAfter[n]
      BY DEF Blocked
<1> HIDE DEF n
<1>3. \A i \in 0..n : BlockedAfter[i] \subseteq Finding /\ Rejected \subseteq BlockedAfter[i]
  <2> DEFINE T == {i \in 0..n : ~(BlockedAfter[i] \subseteq Finding /\ Rejected \subseteq BlockedAfter[i])}
  <2>1. SUFFICES ASSUME T # {} PROVE FALSE
        OBVIOUS
  <2>2. PICK i \in T : \A j \in T : i <= j
    <3>1. T \in SUBSET Nat
          BY <1>1
    <3> QED BY <2>1, <3>1, LeastNat
  <2>3. Rejected \subseteq Finding
        BY DEF Rejected, Groups
  <2>4. i # 0
        BY <1>1, <2>2, <2>3
  <2>5. i \in 1..n /\ i - 1 \in 0..n /\ i - 1 \notin T
        BY <1>1, <2>2, <2>4
  <2>6. BlockedAfter[i - 1] \subseteq Finding /\ Rejected \subseteq BlockedAfter[i - 1]
        BY <2>5
  <2>7. BlockedAfter[i] \subseteq Finding /\ Rejected \subseteq BlockedAfter[i]
        BY <1>1, <2>5, <2>6 DEF Dependants
  <2> QED BY <2>2, <2>7
<1>4. \E i \in 0..n : ClosedUnder(BlockedAfter[i])
  <2>1. SUFFICES ASSUME \A i \in 0..n : ~ClosedUnder(BlockedAfter[i]) PROVE FALSE
        OBVIOUS
  <2>2. \A i \in 0..n : IsFiniteSet(BlockedAfter[i]) /\ Cardinality(BlockedAfter[i]) \in Nat
        BY <1>1, <1>3, FS_Subset, FS_CardinalityType
  <2> DEFINE T == {i \in 0..n : Cardinality(BlockedAfter[i]) < i}
  <2>3. CASE T = {}
    <3>1. n \in 0..n /\ Cardinality(BlockedAfter[n]) >= n /\ BlockedAfter[n] \in SUBSET Finding
          BY <1>1, <1>3, <2>2, <2>3
    <3>2. Cardinality(BlockedAfter[n]) <= n /\ (n = Cardinality(BlockedAfter[n]) => Finding = BlockedAfter[n])
          BY <1>1, <3>1, FS_Subset DEF n
    <3>3. Finding = BlockedAfter[n]
          BY <1>1, <2>2, <3>1, <3>2
    <3>4. ClosedUnder(Finding)
          BY DEF ClosedUnder, Dependants
    <3> QED BY <2>1, <3>1, <3>3, <3>4
  <2>4. CASE T # {}
    <3>1. PICK i \in T : \A j \in T : i <= j
      <4>1. T \in SUBSET Nat
            BY <1>1
      <4> QED BY <2>4, <4>1, LeastNat
    <3>2. i \in 1..n /\ i - 1 \in 0..n /\ i - 1 \notin T
          BY <1>1, <2>2, <3>1
    <3>3. Cardinality(BlockedAfter[i - 1]) >= i - 1
          BY <2>2, <3>2
    <3>4. BlockedAfter[i - 1] \in SUBSET BlockedAfter[i] /\ BlockedAfter[i] # BlockedAfter[i - 1]
          BY <1>1, <2>1, <3>2 DEF ClosedUnder
    <3>5. i \in 0..n
          BY <3>1
    <3>6. /\ Cardinality(BlockedAfter[i - 1]) <= Cardinality(BlockedAfter[i])
          /\ Cardinality(BlockedAfter[i]) # Cardinality(BlockedAfter[i - 1])
          BY <2>2, <3>4, <3>5, FS_Subset
    <3> QED BY <1>1, <2>2, <3>1, <3>2, <3>3, <3>5, <3>6
  <2> QED BY <2>3, <2>4
<1>5. ClosedUnder(BlockedAfter[n])
  <2> DEFINE T == {k \in 0..n : ClosedUnder(BlockedAfter[n - k])}
  <2>1. T # {} /\ T \in SUBSET Nat
    <3>1. PICK i \in 0..n : ClosedUnder(BlockedAfter[i])
          BY <1>4
    <3>2. n - i \in 0..n /\ n - (n - i) = i
          BY <1>1
    <3>3. n - i \in T
          BY <3>1, <3>2
    <3>4. T \in SUBSET Nat
          BY <1>1
    <3> QED BY <3>3, <3>4
  <2>2. PICK k \in T : \A j \in T : k <= j
        BY <2>1, LeastNat
  <2>3. CASE k = 0
        BY <1>1, <2>2, <2>3
  <2>4. CASE k # 0
    <3>1. k - 1 \in 0..n /\ n - (k - 1) \in 1..n /\ (n - (k - 1)) - 1 = n - k /\ k - 1 < k
          BY <1>1, <2>2, <2>4
    <3>2. ClosedUnder(BlockedAfter[n - k])
          BY <2>2
    <3>3. BlockedAfter[n - (k - 1)] = BlockedAfter[n - k] \cup Dependants(BlockedAfter[n - k])
          BY <1>1, <3>1
    <3>4. BlockedAfter[n - (k - 1)] = BlockedAfter[n - k]
          BY <3>2, <3>3 DEF ClosedUnder
    <3>5. k - 1 \in T
          BY <3>1, <3>2, <3>4
    <3> QED BY <1>1, <2>2, <3>1, <3>5
  <2> QED BY <2>3, <2>4
<1> QED BY <1>1, <1>2, <1>3, <1>5

\* Nothing the plan keeps is rejected, or rests on something rejected.
LEMMA EligibleIsClean ==
    \A f \in Eligible : \A g \in Upstream(f) \cup {f} : \A r \in Groups :
        g \in r => reviews[r] # "rejected"
<1> SUFFICES ASSUME NEW f \in Eligible, NEW g \in Upstream(f) \cup {f}, NEW r \in Groups,
                    g \in r, reviews[r] = "rejected"
             PROVE  FALSE
    OBVIOUS
<1>1. f \in Finding /\ f \notin Blocked
      BY DEF Eligible
<1>2. \A h \in Finding \ Blocked : DependsOn[h] \subseteq Finding \ Blocked
  <2> SUFFICES ASSUME NEW h \in Finding \ Blocked PROVE DependsOn[h] \subseteq Finding \ Blocked
      OBVIOUS
  <2>1. DependsOn[h] \subseteq Finding
        BY FixedPhaseAssumption
  <2>2. h \notin Dependants(Blocked)
        BY BlockedIsClosed DEF ClosedUnder
  <2> QED BY <2>1, <2>2 DEF Dependants
<1>3. g \in Finding \ Blocked
  <2>1. CASE g = f
        BY <1>1, <2>1
  <2>2. CASE g \in Upstream(f)
        BY <1>1, <1>2, <2>2 DEF Upstream
  <2> QED BY <2>1, <2>2
<1>4. g \in Rejected
      BY DEF Rejected
<1> QED BY <1>3, <1>4, BlockedIsClosed

-----------------------------------------------------------------------------
(* Types *)

LEMMA Phases == ToSet(Phase) = {"build", "analyze", "clarify", "aggregate", "compile", "execute",
                                "report", "terminal"}
BY DEF ToSet, Phase

PhasedRow == [phase : ToSet(Phase), status : {"running", "waiting", "blocked"} \cup Ended,
              owner : RunWorker \cup {"none"}, live : BOOLEAN]
BatchRow == [status : {"absent", "pending", "claimed", "completed", "blocked"},
             owner : RunWorker \cup {"none"}, live : BOOLEAN, attempts : 0..MaxModelAttempts]
HandRow == [pc : {"idle", "start", "claim", "model", "complete"},
            todo : SUBSET Batch, batch : Batch \cup {"none"},
            next : ToSet(Phase) \cup {"none", "waiting", "blocked"}]

LEMMA FreedTyped == FixedPhaseTypeOK => \A w : Freed(w) \in PhasedRow
                                              /\ Freed(w).phase = phased.phase
                                              /\ Freed(w).status = phased.status
<1> SUFFICES ASSUME FixedPhaseTypeOK, NEW w PROVE Freed(w) \in PhasedRow
             /\ Freed(w).phase = phased.phase /\ Freed(w).status = phased.status
    OBVIOUS
<1>1. phased \in PhasedRow
      BY DEF FixedPhaseTypeOK, PhasedRow
<1>2. \A p \in PhasedRow : [p EXCEPT !.owner = "none", !.live = FALSE] \in PhasedRow
                          /\ [p EXCEPT !.owner = "none", !.live = FALSE].phase = p.phase
                          /\ [p EXCEPT !.owner = "none", !.live = FALSE].status = p.status
      BY DEF PhasedRow
<1> QED BY <1>1, <1>2 DEF Freed

-----------------------------------------------------------------------------
(* What is settled stays *)

LEMMA NonEmptyGroups == \A g \in SUBSET Finding : g # {} => g \in Groups
BY DEF Groups

LEMMA GroupsOfReviews == \A S \in SUBSET Finding : ReviewGroups(S) \subseteq Groups
<1> SUFFICES ASSUME NEW S \in SUBSET Finding, NEW g \in ReviewGroups(S) PROVE g \in Groups
    OBVIOUS
<1>1. PICK k : g = {f \in S : answer[f] = "high" /\ KeyOf[f] = k}
      BY DEF ReviewGroups
<1>2. g # {}
      BY DEF ReviewGroups
<1>3. g \subseteq Finding
      BY <1>1
<1>4. g \in SUBSET Finding
      BY <1>3
<1> QED BY <1>2, <1>4, NonEmptyGroups

LEMMA SettledStays ==
    ASSUME FixedPhaseTypeOK, FixedPhaseTypeOK',
           \A b \in Batch : batches[b].status = "completed" => batches'[b].status = "completed",
           \A f \in Finding : answer[f] # "none" => answer'[f] = answer[f],
           AllReviewed => reviews' = reviews
    PROVE  /\ AllAnswered => AllAnswered' /\ answer' = answer
           /\ AllReviewed => AllReviewed' /\ answer' = answer /\ reviews' = reviews
<1>1. AllAnswered => AllAnswered'
      BY DEF AllAnswered
<1>2. AllAnswered => answer' = answer
      BY DEF AllAnswered, FixedPhaseTypeOK
<1>3. AllReviewed => AllAnswered
      BY DEF AllReviewed
<1>4. answer' = answer => ReviewGroups(Finding)' = ReviewGroups(Finding)
      BY DEF ReviewGroups
<1> QED BY <1>1, <1>2, <1>3, <1>4 DEF AllReviewed

\* A step keeps the invariant if it leaves what is settled, and what it returns
\* is founded.
LEMMA FoundedStepsKeep ==
    ASSUME FixedPhaseInv, FixedPhaseTypeOK',
           \A b \in Batch : batches[b].status = "completed" => batches'[b].status = "completed",
           \A f \in Finding : answer[f] # "none" => answer'[f] = answer[f],
           AnswersComeInBatches', DecisionsArePending', ClaimsHaveAttempts',
           AllReviewed => reviews' = reviews,
           \A w \in RunWorker :
              \/ hand'[w] = hand[w]
              \/ /\ hand'[w].next \in LatePhase => AllAnswered'
                 /\ hand'[w].next \in PlanPhase => AllReviewed'
                 /\ hand'[w].pc \in {"claim", "model"} =>
                      \A b \in Batch \ hand'[w].todo : batches'[b].status = "completed"
                 /\ hand'[w].pc = "model" => hand'[w].batch \in Batch,
           \/ phased'.phase = phased.phase
           \/ /\ phased'.phase \in LatePhase => AllAnswered'
              /\ phased'.phase \in PlanPhase => AllReviewed',
           compiled' = compiled \/ (compiled'.made /\ AllReviewed' /\ PlanRespectsReviews')
    PROVE  FixedPhaseInv'
<1> USE DEF FixedPhaseInv
<1>1. /\ AllAnswered => AllAnswered' /\ answer' = answer
      /\ AllReviewed => AllReviewed' /\ answer' = answer /\ reviews' = reviews
      BY SettledStays
<1>2. HandsAreFounded'
  <2> SUFFICES ASSUME NEW w \in RunWorker
               PROVE  /\ hand'[w].next \in LatePhase => AllAnswered'
                      /\ hand'[w].next \in PlanPhase => AllReviewed'
                      /\ hand'[w].pc \in {"claim", "model"} =>
                           \A b \in Batch \ hand'[w].todo : batches'[b].status = "completed"
                      /\ hand'[w].pc = "model" => hand'[w].batch \in Batch
      BY DEF HandsAreFounded, LatePhase, PlanPhase
  <2>1. CASE hand'[w] = hand[w]
        BY <1>1, <2>1 DEF HandsAreFounded
  <2> QED BY <2>1
<1>3. RunIsFounded'
  <2>1. RunIsFounded' <=> /\ phased'.phase \in LatePhase => AllAnswered'
                          /\ phased'.phase \in PlanPhase => AllReviewed'
        BY DEF RunIsFounded, LatePhase, PlanPhase
  <2> QED BY <1>1, <2>1 DEF RunIsFounded
<1>4. PlanIsFounded' /\ PlanRespectsReviews'
  <2>1. CASE compiled' # compiled
        BY <2>1 DEF PlanIsFounded
  <2>2. CASE compiled' = compiled /\ compiled.made
    <3>1. AllReviewed' /\ answer' = answer /\ reviews' = reviews
          BY <1>1, <2>2 DEF PlanIsFounded
    <3> QED BY <2>2, <3>1 DEF PlanIsFounded, PlanRespectsReviews
  <2>3. CASE compiled' = compiled /\ ~compiled.made
        BY <2>3 DEF PlanIsFounded, PlanRespectsReviews
  <2> QED BY <2>1, <2>2, <2>3
<1> QED BY <1>2, <1>3, <1>4

\* The same for a step that touches neither answers nor reviews nor the plan.
LEMMA HandStepsKeep ==
    ASSUME FixedPhaseInv, UNCHANGED <<workVars, reviewVars, planVars>>,
           stalls' \in 0..MaxFaults,
           phased' \in PhasedRow, hand' \in [RunWorker -> HandRow],
           \A w \in RunWorker :
              \/ hand'[w] = hand[w]
              \/ /\ hand'[w].next \in LatePhase => AllAnswered
                 /\ hand'[w].next \in PlanPhase => AllReviewed
                 /\ hand'[w].pc \in {"claim", "model"} =>
                      \A b \in Batch \ hand'[w].todo : batches[b].status = "completed"
                 /\ hand'[w].pc = "model" => hand'[w].batch \in Batch,
           \/ phased'.phase = phased.phase
           \/ /\ phased'.phase \in LatePhase => AllAnswered
              /\ phased'.phase \in PlanPhase => AllReviewed
    PROVE  FixedPhaseInv'
<1>1. FixedPhaseTypeOK'
      BY DEF FixedPhaseInv, FixedPhaseTypeOK, workVars, reviewVars, planVars, PhasedRow, HandRow
<1>2. (AllAnswered' <=> AllAnswered) /\ (AllReviewed' <=> AllReviewed)
      BY DEF AllAnswered, AllReviewed, ReviewGroups, workVars, reviewVars
<1>3. AnswersComeInBatches' /\ DecisionsArePending' /\ ClaimsHaveAttempts'
      BY DEF FixedPhaseInv, AnswersComeInBatches, DecisionsArePending, ClaimsHaveAttempts,
             workVars, reviewVars
<1>4. UNCHANGED <<batches, answer, reviews, compiled>>
      BY DEF workVars, reviewVars, planVars
<1> QED BY <1>1, <1>2, <1>3, <1>4, FoundedStepsKeep

LEMMA HandsReturn ==
    ASSUME FixedPhaseTypeOK, NEW w \in RunWorker,
           NEW next \in ToSet(Phase) \cup {"none", "waiting", "blocked"}, Returns(w, next)
    PROVE  /\ hand' \in [RunWorker -> HandRow]
           /\ hand'[w].next = next /\ hand'[w].pc = "complete"
           /\ \A v \in RunWorker \ {w} : hand'[v] = hand[v]
<1> DEFINE returned == [IdleHand EXCEPT !.pc = "complete", !.next = next]
<1>1. IdleHand \in HandRow
      BY DEF HandRow, IdleHand
<1>2. returned \in HandRow /\ returned.next = next /\ returned.pc = "complete"
      BY <1>1 DEF HandRow
<1>3. hand' = [hand EXCEPT ![w] = returned]
      BY DEF Returns
<1> HIDE DEF returned
<1> QED BY <1>2, <1>3 DEF FixedPhaseTypeOK, HandRow

LEMMA HandsAbandon ==
    ASSUME FixedPhaseTypeOK, NEW w \in RunWorker, hand' = [hand EXCEPT ![w] = IdleHand]
    PROVE  /\ hand' \in [RunWorker -> HandRow]
           /\ hand'[w].next = "none" /\ hand'[w].pc = "idle"
           /\ \A v \in RunWorker \ {w} : hand'[v] = hand[v]
<1>1. IdleHand \in HandRow
      BY DEF HandRow, IdleHand
<1> QED BY <1>1 DEF IdleHand, FixedPhaseTypeOK, HandRow

-----------------------------------------------------------------------------
(* Claims and completions *)

LEMMA TypedRows ==
    FixedPhaseTypeOK => /\ phased \in PhasedRow
                        /\ batches \in [Batch -> BatchRow]
                        /\ hand \in [RunWorker -> HandRow]
                        /\ stalls \in 0..MaxFaults
BY DEF FixedPhaseTypeOK, PhasedRow, BatchRow, HandRow

LEMMA ClaimRunKeeps ==
    ASSUME FixedPhaseInv, NEW w \in RunWorker, ClaimRun(w)
    PROVE  FixedPhaseInv'
<1> DEFINE claimed == [phased EXCEPT !.owner = w, !.live = TRUE]
           begun == [IdleHand EXCEPT !.pc = "start", !.next = phased.phase]
<1>1. FixedPhaseTypeOK /\ phased \in PhasedRow /\ hand \in [RunWorker -> HandRow] /\ stalls \in 0..MaxFaults
      BY TypedRows DEF FixedPhaseInv
<1>2. phased' = claimed /\ hand' = [hand EXCEPT ![w] = begun]
      /\ UNCHANGED <<workVars, reviewVars, planVars, stalls>>
      BY DEF ClaimRun
<1>3. claimed \in PhasedRow /\ claimed.phase = phased.phase
      BY <1>1 DEF PhasedRow
<1>4. begun \in HandRow /\ begun.next = phased.phase /\ begun.pc = "start"
  <2>1. IdleHand \in HandRow
        BY DEF HandRow, IdleHand
  <2>2. phased.phase \in ToSet(Phase)
        BY <1>1 DEF PhasedRow
  <2> QED BY <2>1, <2>2 DEF HandRow
<1> HIDE DEF claimed, begun
<1>5. /\ hand' \in [RunWorker -> HandRow] /\ hand'[w] = begun
      /\ \A v \in RunWorker \ {w} : hand'[v] = hand[v]
      BY <1>1, <1>2, <1>4
<1>6. /\ begun.next \in LatePhase => AllAnswered
      /\ begun.next \in PlanPhase => AllReviewed
      BY <1>4 DEF FixedPhaseInv, RunIsFounded
<1>7. \A v \in RunWorker :
         \/ hand'[v] = hand[v]
         \/ /\ hand'[v].next \in LatePhase => AllAnswered
            /\ hand'[v].next \in PlanPhase => AllReviewed
            /\ hand'[v].pc \in {"claim", "model"} =>
                 \A b \in Batch \ hand'[v].todo : batches[b].status = "completed"
            /\ hand'[v].pc = "model" => hand'[v].batch \in Batch
      BY <1>4, <1>5, <1>6
<1> QED BY <1>1, <1>2, <1>3, <1>5, <1>7, HandStepsKeep

LEMMA RenewKeeps ==
    ASSUME FixedPhaseInv, NEW w \in RunWorker, Renew(w)
    PROVE  FixedPhaseInv'
<1>1. FixedPhaseTypeOK /\ phased \in PhasedRow /\ hand \in [RunWorker -> HandRow] /\ stalls \in 0..MaxFaults
      BY TypedRows DEF FixedPhaseInv
<1>2. /\ phased' = [phased EXCEPT !.live = TRUE]
      /\ UNCHANGED <<workVars, reviewVars, planVars, hand, stalls>>
      BY DEF Renew
<1>3. phased' \in PhasedRow /\ phased'.phase = phased.phase
      BY <1>1, <1>2 DEF PhasedRow
<1> QED BY <1>1, <1>2, <1>3, HandStepsKeep

LEMMA IdleStepsKeep ==
    ASSUME FixedPhaseInv, NEW w \in RunWorker, hand' = [hand EXCEPT ![w] = IdleHand],
           phased' \in PhasedRow,
           \/ phased'.phase = phased.phase
           \/ /\ phased'.phase \in LatePhase => AllAnswered
              /\ phased'.phase \in PlanPhase => AllReviewed,
           UNCHANGED <<workVars, reviewVars, planVars>>, stalls' \in 0..MaxFaults
    PROVE  FixedPhaseInv'
<1>1. FixedPhaseTypeOK
      BY DEF FixedPhaseInv
<1>2. /\ hand' \in [RunWorker -> HandRow]
      /\ hand'[w].next = "none" /\ hand'[w].pc = "idle"
      /\ \A v \in RunWorker \ {w} : hand'[v] = hand[v]
      BY <1>1, HandsAbandon
<1>3. "none" \notin LatePhase /\ "none" \notin PlanPhase
      BY DEF LatePhase, PlanPhase
<1>4. \A v \in RunWorker :
         \/ hand'[v] = hand[v]
         \/ /\ hand'[v].next \in LatePhase => AllAnswered
            /\ hand'[v].next \in PlanPhase => AllReviewed
            /\ hand'[v].pc \in {"claim", "model"} =>
                 \A b \in Batch \ hand'[v].todo : batches[b].status = "completed"
            /\ hand'[v].pc = "model" => hand'[v].batch \in Batch
      BY <1>2, <1>3
<1> QED BY <1>2, <1>4, HandStepsKeep

LEMMA CompleteKeeps ==
    ASSUME FixedPhaseInv, NEW w \in RunWorker, Complete(w)
    PROVE  FixedPhaseInv'
<1>1. FixedPhaseTypeOK /\ phased \in PhasedRow /\ hand \in [RunWorker -> HandRow] /\ stalls \in 0..MaxFaults
      BY TypedRows DEF FixedPhaseInv
<1>2. /\ hand' = [hand EXCEPT ![w] = IdleHand]
      /\ UNCHANGED <<workVars, reviewVars, planVars, stalls>>
      BY DEF Complete
<1>3. /\ Freed(w) \in PhasedRow /\ Freed(w).phase = phased.phase /\ Freed(w).status = phased.status
      BY <1>1, FreedTyped
<1> DEFINE phase == IF hand[w].next \in ToSet(Phase) THEN hand[w].next ELSE Freed(w).phase
           status == CASE hand[w].next = "terminal" -> "completed"
                       [] hand[w].next \in {"waiting", "blocked"} -> hand[w].next
                       [] OTHER -> Freed(w).status
<1>4. phased' = Freed(w) \/ phased' = [Freed(w) EXCEPT !.phase = phase, !.status = status]
      BY DEF Complete
<1>5. phase \in ToSet(Phase) /\ status \in {"running", "waiting", "blocked"} \cup Ended
      BY <1>1, <1>3 DEF PhasedRow, Ended
<1>6. /\ phase \in LatePhase => AllAnswered
      /\ phase \in PlanPhase => AllReviewed
  <2>1. CASE hand[w].next \in ToSet(Phase)
        BY <2>1 DEF FixedPhaseInv, HandsAreFounded
  <2>2. CASE hand[w].next \notin ToSet(Phase)
        BY <1>3, <2>2 DEF FixedPhaseInv, RunIsFounded
  <2> QED BY <2>1, <2>2
<1> HIDE DEF phase, status
<1>7. \A p \in PhasedRow : [p EXCEPT !.phase = phase, !.status = status] \in PhasedRow
                          /\ [p EXCEPT !.phase = phase, !.status = status].phase = phase
      BY <1>5 DEF PhasedRow
<1>8. phased' \in PhasedRow /\ (phased'.phase = phased.phase \/ phased'.phase = phase)
      BY <1>3, <1>4, <1>7
<1> QED BY <1>1, <1>2, <1>6, <1>8, IdleStepsKeep

LEMMA LeaseLostKeeps ==
    ASSUME FixedPhaseInv, NEW w \in RunWorker, LeaseLost(w)
    PROVE  FixedPhaseInv'
<1>1. FixedPhaseTypeOK /\ stalls \in 0..MaxFaults
      BY TypedRows DEF FixedPhaseInv
<1>2. /\ hand' = [hand EXCEPT ![w] = IdleHand] /\ phased' = Freed(w)
      /\ UNCHANGED <<workVars, reviewVars, planVars, stalls>>
      BY DEF LeaseLost, Abandon
<1>3. phased' \in PhasedRow /\ phased'.phase = phased.phase
      BY <1>1, <1>2, FreedTyped
<1> QED BY <1>1, <1>2, <1>3, IdleStepsKeep

LEMMA CrashKeeps ==
    ASSUME FixedPhaseInv, NEW w \in RunWorker, Crash(w)
    PROVE  FixedPhaseInv'
<1>1. phased \in PhasedRow /\ stalls \in 0..MaxFaults /\ MaxFaults \in Nat
      BY TypedRows, FixedPhaseAssumption DEF FixedPhaseInv
<1>2. /\ hand' = [hand EXCEPT ![w] = IdleHand]
      /\ stalls < MaxFaults /\ stalls' = stalls + 1
      /\ UNCHANGED <<phased, workVars, reviewVars, planVars>>
      BY DEF Crash
<1>3. stalls' \in 0..MaxFaults
      BY <1>1, <1>2
<1> QED BY <1>1, <1>2, <1>3, IdleStepsKeep

LEMMA LapseRunKeeps == ASSUME FixedPhaseInv, LapseRun PROVE FixedPhaseInv'
<1>1. FixedPhaseTypeOK /\ phased \in PhasedRow /\ hand \in [RunWorker -> HandRow]
      /\ stalls \in 0..MaxFaults /\ MaxFaults \in Nat
      BY TypedRows, FixedPhaseAssumption DEF FixedPhaseInv
<1>2. /\ phased' = [phased EXCEPT !.live = FALSE]
      /\ UNCHANGED <<workVars, reviewVars, planVars, hand>>
      BY DEF LapseRun
<1>3. stalls' \in 0..MaxFaults
      BY <1>1 DEF LapseRun
<1>4. phased' \in PhasedRow /\ phased'.phase = phased.phase
      BY <1>1, <1>2 DEF PhasedRow
<1> QED BY <1>1, <1>2, <1>3, <1>4, HandStepsKeep

LEMMA TerminationKeeps == ASSUME FixedPhaseInv, TerminateRun PROVE FixedPhaseInv'
<1>1. FixedPhaseTypeOK /\ phased \in PhasedRow /\ hand \in [RunWorker -> HandRow] /\ stalls \in 0..MaxFaults
      BY TypedRows DEF FixedPhaseInv
<1>2. /\ phased' = [phased EXCEPT !.status = "terminated"]
      /\ UNCHANGED <<workVars, reviewVars, planVars, hand, stalls>>
      BY DEF TerminateRun
<1>3. phased' \in PhasedRow /\ phased'.phase = phased.phase
      BY <1>1, <1>2 DEF PhasedRow, Ended
<1> QED BY <1>1, <1>2, <1>3, HandStepsKeep

-----------------------------------------------------------------------------
(* Handlers that only return *)

\* A handler that changes nothing else returns a phase it may return.
LEMMA ReturnsKeep ==
    ASSUME FixedPhaseInv, NEW w \in RunWorker,
           NEW next \in ToSet(Phase) \cup {"none", "waiting", "blocked"}, Returns(w, next),
           next \in LatePhase => AllAnswered,
           next \in PlanPhase => AllReviewed,
           UNCHANGED <<phased, workVars, reviewVars, planVars, stalls>>
    PROVE  FixedPhaseInv'
<1>1. FixedPhaseTypeOK /\ phased \in PhasedRow /\ stalls \in 0..MaxFaults
      BY TypedRows DEF FixedPhaseInv
<1>2. /\ hand' \in [RunWorker -> HandRow]
      /\ hand'[w].next = next /\ hand'[w].pc = "complete"
      /\ \A v \in RunWorker \ {w} : hand'[v] = hand[v]
      BY <1>1, HandsReturn
<1>3. \A v \in RunWorker :
         \/ hand'[v] = hand[v]
         \/ /\ hand'[v].next \in LatePhase => AllAnswered
            /\ hand'[v].next \in PlanPhase => AllReviewed
            /\ hand'[v].pc \in {"claim", "model"} =>
                 \A b \in Batch \ hand'[v].todo : batches[b].status = "completed"
            /\ hand'[v].pc = "model" => hand'[v].batch \in Batch
      BY <1>2
<1> QED BY <1>1, <1>2, <1>3, HandStepsKeep

LEMMA AnalysisDoneKeeps ==
    ASSUME FixedPhaseInv, NEW w \in RunWorker, AnalysisDone(w)
    PROVE  FixedPhaseInv'
<1>1. /\ hand[w].pc = "claim" /\ hand[w].todo = {}
      /\ Returns(w, "clarify") /\ UNCHANGED <<phased, workVars, reviewVars, planVars, stalls>>
      BY DEF AnalysisDone, At
<1>2. \A b \in Batch : batches[b].status = "completed"
      BY <1>1 DEF FixedPhaseInv, HandsAreFounded
<1>3. AllAnswered
      BY <1>2, FixedPhaseAssumption DEF AllAnswered, FixedPhaseInv, AnswersComeInBatches
<1>4. "clarify" \in ToSet(Phase) /\ "clarify" \notin PlanPhase
      BY Phases DEF PlanPhase
<1> QED BY <1>1, <1>3, <1>4, ReturnsKeep

LEMMA ClarifyKeeps ==
    ASSUME FixedPhaseInv, NEW w \in RunWorker, Clarify(w)
    PROVE  FixedPhaseInv'
<1>1. PICK next \in {"waiting", "aggregate"} :
        Returns(w, next) /\ UNCHANGED <<phased, workVars, reviewVars, planVars, stalls>>
      BY DEF Clarify
<1>2. AllAnswered
      BY DEF Clarify, Starts, FixedPhaseInv, HandsAreFounded, LatePhase
<1>3. next \in ToSet(Phase) \cup {"none", "waiting", "blocked"} /\ next \notin PlanPhase
      BY Phases DEF PlanPhase
<1> QED BY <1>1, <1>2, <1>3, ReturnsKeep

LEMMA WriteReportKeeps ==
    ASSUME FixedPhaseInv, NEW w \in RunWorker, WriteReport(w)
    PROVE  FixedPhaseInv'
<1>1. Returns(w, "terminal") /\ UNCHANGED <<phased, workVars, reviewVars, planVars, stalls>>
      BY DEF WriteReport
<1>2. AllAnswered /\ AllReviewed
      BY DEF WriteReport, Starts, FixedPhaseInv, HandsAreFounded, LatePhase, PlanPhase
<1>3. "terminal" \in ToSet(Phase)
      BY Phases
<1> QED BY <1>1, <1>2, <1>3, ReturnsKeep

-----------------------------------------------------------------------------
(* Handlers of the analysis *)

\* A step on the batches that completes none and uncompletes none.
LEMMA BatchStepsKeep ==
    ASSUME FixedPhaseInv, UNCHANGED <<answer, reviewVars, planVars>>,
           stalls' \in 0..MaxFaults,
           phased' \in PhasedRow, phased'.phase = phased.phase,
           hand' \in [RunWorker -> HandRow], batches' \in [Batch -> BatchRow],
           \A b \in Batch : batches'[b].status = "completed" <=> batches[b].status = "completed",
           ClaimsHaveAttempts',
           \A w \in RunWorker :
              \/ hand'[w] = hand[w]
              \/ /\ hand'[w].next \notin LatePhase
                 /\ hand'[w].pc \in {"claim", "model"} =>
                      \A b \in Batch \ hand'[w].todo : batches[b].status = "completed"
                 /\ hand'[w].pc = "model" => hand'[w].batch \in Batch
    PROVE  FixedPhaseInv'
<1>1. UNCHANGED <<question, reviews, judging, compiled, output>>
      BY DEF reviewVars, planVars
<1>2. FixedPhaseTypeOK'
      BY <1>1 DEF FixedPhaseInv, FixedPhaseTypeOK, PhasedRow, HandRow, BatchRow
<1>3. AnswersComeInBatches'
      BY FixedPhaseAssumption DEF FixedPhaseInv, AnswersComeInBatches
<1>4. DecisionsArePending'
      BY <1>1 DEF FixedPhaseInv, DecisionsArePending
<1>5. PlanPhase \subseteq LatePhase
      BY DEF PlanPhase, LatePhase
<1>6. \A w \in RunWorker :
         \/ hand'[w] = hand[w]
         \/ /\ hand'[w].next \in LatePhase => AllAnswered'
            /\ hand'[w].next \in PlanPhase => AllReviewed'
            /\ hand'[w].pc \in {"claim", "model"} =>
                 \A b \in Batch \ hand'[w].todo : batches'[b].status = "completed"
            /\ hand'[w].pc = "model" => hand'[w].batch \in Batch
      BY <1>5
<1>7. \A b \in Batch : batches[b].status = "completed" => batches'[b].status = "completed"
      OBVIOUS
<1> QED BY <1>1, <1>2, <1>3, <1>4, <1>6, <1>7, FoundedStepsKeep

LEMMA BuildKeeps ==
    ASSUME FixedPhaseInv, NEW w \in RunWorker, Build(w)
    PROVE  FixedPhaseInv'
<1>1. FixedPhaseTypeOK /\ phased \in PhasedRow /\ batches \in [Batch -> BatchRow] /\ stalls \in 0..MaxFaults
      BY TypedRows DEF FixedPhaseInv
<1>2. /\ batches' = [b \in Batch |-> IF batches[b].status = "absent"
                       THEN [batches[b] EXCEPT !.status = "pending"] ELSE batches[b]]
      /\ Returns(w, "analyze")
      /\ UNCHANGED <<phased, answer, reviews, judging, planVars, stalls>>
      BY DEF Build
<1>3. \A row \in BatchRow : [row EXCEPT !.status = "pending"] \in BatchRow
                            /\ [row EXCEPT !.status = "pending"].status = "pending"
      BY DEF BatchRow
<1>4. \A b \in Batch : batches[b] \in BatchRow
      BY <1>1
<1>5. /\ batches' \in [Batch -> BatchRow]
      /\ \A b \in Batch : batches'[b].status = "completed" <=> batches[b].status = "completed"
      /\ \A b \in Batch : batches'[b].status = "claimed" => batches'[b] = batches[b]
      BY <1>2, <1>3, <1>4
<1>6. /\ hand' \in [RunWorker -> HandRow]
      /\ hand'[w].next = "analyze" /\ hand'[w].pc = "complete"
      /\ \A v \in RunWorker \ {w} : hand'[v] = hand[v]
      BY <1>1, <1>2, HandsReturn, Phases
<1>7. question' \in {"none", "pending", "interpreted", "settled"}
      BY <1>1 DEF Build, FixedPhaseTypeOK
<1>8. UNCHANGED <<answer, reviews, judging, compiled, output>>
      BY <1>2 DEF planVars
<1>9. FixedPhaseTypeOK'
      BY <1>1, <1>2, <1>5, <1>6, <1>7, <1>8 DEF FixedPhaseTypeOK, PhasedRow, HandRow, BatchRow
<1>10. AnswersComeInBatches'
      BY <1>5, <1>8, FixedPhaseAssumption DEF FixedPhaseInv, AnswersComeInBatches
<1>11. DecisionsArePending' /\ ClaimsHaveAttempts'
      BY <1>5, <1>8 DEF FixedPhaseInv, DecisionsArePending, ClaimsHaveAttempts
<1>12. "analyze" \notin LatePhase /\ "analyze" \notin PlanPhase
      BY DEF LatePhase, PlanPhase
<1>13. \A v \in RunWorker :
         \/ hand'[v] = hand[v]
         \/ /\ hand'[v].next \in LatePhase => AllAnswered'
            /\ hand'[v].next \in PlanPhase => AllReviewed'
            /\ hand'[v].pc \in {"claim", "model"} =>
                 \A b \in Batch \ hand'[v].todo : batches'[b].status = "completed"
            /\ hand'[v].pc = "model" => hand'[v].batch \in Batch
      BY <1>6, <1>12
<1>14. /\ phased'.phase = phased.phase
       /\ \A b \in Batch : batches[b].status = "completed" => batches'[b].status = "completed"
      BY <1>2, <1>5
<1> QED BY <1>8, <1>9, <1>10, <1>11, <1>13, <1>14, FoundedStepsKeep

LEMMA ListBatchesKeeps ==
    ASSUME FixedPhaseInv, NEW w \in RunWorker, ListBatches(w)
    PROVE  FixedPhaseInv'
<1> DEFINE open == {b \in Batch : batches[b].status # "completed"}
           listing == [IdleHand EXCEPT !.pc = "claim", !.todo = open]
<1>1. FixedPhaseTypeOK /\ phased \in PhasedRow /\ stalls \in 0..MaxFaults
      /\ hand \in [RunWorker -> HandRow] /\ batches \in [Batch -> BatchRow]
      BY TypedRows DEF FixedPhaseInv
<1>2. /\ hand' = [hand EXCEPT ![w] = listing]
      /\ UNCHANGED <<phased, workVars, reviewVars, planVars, stalls>>
      BY DEF ListBatches
<1>3. listing \in HandRow /\ listing.next = "none" /\ listing.pc = "claim" /\ listing.todo = open
  <2>1. IdleHand \in HandRow /\ IdleHand.next = "none"
        BY DEF HandRow, IdleHand
  <2>2. open \in SUBSET Batch
        OBVIOUS
  <2> HIDE DEF open
  <2> QED BY <2>1, <2>2 DEF HandRow
<1> HIDE DEF listing
<1>4. /\ hand' \in [RunWorker -> HandRow] /\ hand'[w] = listing
      /\ \A v \in RunWorker \ {w} : hand'[v] = hand[v]
      BY <1>1, <1>2, <1>3
<1>5. "none" \notin LatePhase
      BY DEF LatePhase
<1>6. \A v \in RunWorker :
         \/ hand'[v] = hand[v]
         \/ /\ hand'[v].next \notin LatePhase
            /\ hand'[v].pc \in {"claim", "model"} =>
                 \A b \in Batch \ hand'[v].todo : batches[b].status = "completed"
            /\ hand'[v].pc = "model" => hand'[v].batch \in Batch
      BY <1>3, <1>4, <1>5
<1>7. UNCHANGED <<batches, answer>> /\ ClaimsHaveAttempts'
      BY <1>2 DEF workVars, FixedPhaseInv, ClaimsHaveAttempts
<1> QED BY <1>1, <1>2, <1>4, <1>6, <1>7, BatchStepsKeep

LEMMA ClaimBatchKeeps ==
    ASSUME FixedPhaseInv, NEW w \in RunWorker, ClaimBatch(w)
    PROVE  FixedPhaseInv'
<1>1. FixedPhaseTypeOK /\ phased \in PhasedRow /\ stalls \in 0..MaxFaults
      /\ hand \in [RunWorker -> HandRow] /\ batches \in [Batch -> BatchRow]
      BY TypedRows DEF FixedPhaseInv
<1>2. UNCHANGED <<answer, reviewVars, planVars, stalls>> /\ hand[w].pc = "claim"
      BY DEF ClaimBatch, At
<1>3. CASE Returns(w, "blocked") /\ UNCHANGED <<phased, batches>>
  <2>1. "blocked" \notin LatePhase /\ "blocked" \notin PlanPhase
        BY DEF LatePhase, PlanPhase
  <2> QED BY <1>2, <1>3, <2>1, ReturnsKeep DEF workVars
<1>4. CASE Abandon(w) /\ UNCHANGED batches
  <2>1. phased' = Freed(w) /\ hand' = [hand EXCEPT ![w] = IdleHand]
        BY <1>4 DEF Abandon
  <2>2. phased' \in PhasedRow /\ phased'.phase = phased.phase
        BY <1>1, <2>1, FreedTyped
  <2> QED BY <1>1, <1>2, <1>4, <2>1, <2>2, IdleStepsKeep DEF workVars
<1>5. ASSUME NEW b \in hand[w].todo, batches[b].status # "completed",
             batches[b].attempts < MaxModelAttempts,
             batches' = [batches EXCEPT ![b].status = "claimed", ![b].owner = w, ![b].live = TRUE],
             hand' = [hand EXCEPT ![w].pc = "model", ![w].batch = b], UNCHANGED phased
      PROVE  FixedPhaseInv'
  <2> DEFINE claimed == [batches[b] EXCEPT !.status = "claimed", !.owner = w, !.live = TRUE]
             asking == [hand[w] EXCEPT !.pc = "model", !.batch = b]
  <2>0. hand[w] \in HandRow
        BY <1>1
  <2>1. b \in Batch
        BY <2>0 DEF HandRow
  <2>2. batches[b] \in BatchRow
        BY <1>1, <2>1
  <2>3. /\ claimed \in BatchRow /\ claimed.status = "claimed"
        /\ claimed.attempts < MaxModelAttempts
        BY <1>5, <2>2 DEF BatchRow
  <2>4. /\ asking \in HandRow /\ asking.next = hand[w].next /\ asking.pc = "model"
        /\ asking.todo = hand[w].todo /\ asking.batch = b
        BY <2>0, <2>1 DEF HandRow
  <2>5. batches' = [batches EXCEPT ![b] = claimed] /\ hand' = [hand EXCEPT ![w] = asking]
        BY <1>5
  <2> HIDE DEF claimed, asking
  <2>61. batches' \in [Batch -> BatchRow] /\ hand' \in [RunWorker -> HandRow]
        BY <1>1, <2>3, <2>4, <2>5
  <2>62. batches'[b] = claimed /\ \A c \in Batch \ {b} : batches'[c] = batches[c]
        BY <1>1, <2>1, <2>5
  <2>63. hand'[w] = asking /\ \A v \in RunWorker \ {w} : hand'[v] = hand[v]
        BY <1>1, <2>5
  <2>6. /\ \A c \in Batch : batches'[c].status = "completed" <=> batches[c].status = "completed"
        /\ ClaimsHaveAttempts'
        BY <1>5, <2>3, <2>62 DEF FixedPhaseInv, ClaimsHaveAttempts
  <2>7. \A c \in Batch \ hand[w].todo : batches[c].status = "completed"
        BY <1>2 DEF FixedPhaseInv, HandsAreFounded
  <2>8. hand[w].next \notin LatePhase
    <3>1. ~AllAnswered
          BY <1>5, <2>1 DEF AllAnswered
    <3> QED BY <3>1 DEF FixedPhaseInv, HandsAreFounded
  <2>9. \A v \in RunWorker :
           \/ hand'[v] = hand[v]
           \/ /\ hand'[v].next \notin LatePhase
              /\ hand'[v].pc \in {"claim", "model"} =>
                   \A c \in Batch \ hand'[v].todo : batches[c].status = "completed"
              /\ hand'[v].pc = "model" => hand'[v].batch \in Batch
        BY <2>1, <2>4, <2>63, <2>7, <2>8
  <2> QED BY <1>1, <1>2, <1>5, <2>61, <2>6, <2>9, BatchStepsKeep
<1> QED BY <1>3, <1>4, <1>5 DEF ClaimBatch

LEMMA UnclaimedTyped ==
    ASSUME FixedPhaseTypeOK, NEW b \in Batch, NEW status \in {"pending", "completed", "blocked"}
    PROVE  Unclaimed(b, status) \in BatchRow /\ Unclaimed(b, status).status = status
           /\ Unclaimed(b, status).attempts = batches[b].attempts
<1>1. batches[b] \in BatchRow
      BY TypedRows
<1> QED BY <1>1 DEF Unclaimed, BatchRow

LEMMA DropKeeps ==
    ASSUME FixedPhaseInv, NEW w \in RunWorker, hand[w].pc = "model", DropBatch(w),
           UNCHANGED <<answer, reviewVars, planVars, stalls>>
    PROVE  FixedPhaseInv'
<1> DEFINE b == hand[w].batch
<1>1. FixedPhaseTypeOK /\ phased \in PhasedRow /\ stalls \in 0..MaxFaults
      /\ hand \in [RunWorker -> HandRow] /\ batches \in [Batch -> BatchRow]
      BY TypedRows DEF FixedPhaseInv
<1>2. b \in Batch
      BY DEF FixedPhaseInv, HandsAreFounded
<1>3. /\ phased' = Freed(w) /\ hand' = [hand EXCEPT ![w] = IdleHand]
      /\ batches' = IF batches[b].status = "claimed" /\ batches[b].owner = w
                      THEN [batches EXCEPT ![b] = Unclaimed(b, "pending")] ELSE batches
      BY DEF DropBatch, Abandon
<1>4. phased' \in PhasedRow /\ phased'.phase = phased.phase
      BY <1>1, <1>3, FreedTyped
<1>5. /\ hand' \in [RunWorker -> HandRow]
      /\ hand'[w].next = "none" /\ hand'[w].pc = "idle"
      /\ \A v \in RunWorker \ {w} : hand'[v] = hand[v]
      BY <1>1, <1>3, HandsAbandon
<1>6. Unclaimed(b, "pending") \in BatchRow /\ Unclaimed(b, "pending").status = "pending"
      BY <1>1, <1>2, UnclaimedTyped
<1>7. /\ batches' \in [Batch -> BatchRow]
      /\ \A c \in Batch : batches'[c].status = "completed" <=> batches[c].status = "completed"
      /\ \A c \in Batch : batches'[c].status = "claimed" => batches'[c] = batches[c]
      BY <1>1, <1>2, <1>3, <1>6
<1>71. ClaimsHaveAttempts'
      BY <1>7 DEF FixedPhaseInv, ClaimsHaveAttempts
<1>8. \A v \in RunWorker :
         \/ hand'[v] = hand[v]
         \/ /\ hand'[v].next \notin LatePhase
            /\ hand'[v].pc \in {"claim", "model"} =>
                 \A c \in Batch \ hand'[v].todo : batches[c].status = "completed"
            /\ hand'[v].pc = "model" => hand'[v].batch \in Batch
      BY <1>5 DEF LatePhase
<1> QED BY <1>1, <1>4, <1>5, <1>7, <1>71, <1>8, BatchStepsKeep

LEMMA ModelBreaksKeeps ==
    ASSUME FixedPhaseInv, NEW w \in RunWorker, ModelBreaks(w)
    PROVE  FixedPhaseInv'
BY DropKeeps DEF ModelBreaks, At

LEMMA ModelFailsKeeps ==
    ASSUME FixedPhaseInv, NEW w \in RunWorker, ModelFails(w)
    PROVE  FixedPhaseInv'
<1> DEFINE b == hand[w].batch
           spent == batches[b].attempts + 1 = MaxModelAttempts
           status == IF spent THEN "blocked" ELSE "pending"
           failed == [Unclaimed(b, status) EXCEPT !.attempts = @ + 1]
<1>1. FixedPhaseTypeOK /\ phased \in PhasedRow /\ stalls \in 0..MaxFaults
      /\ hand \in [RunWorker -> HandRow] /\ batches \in [Batch -> BatchRow]
      BY TypedRows DEF FixedPhaseInv
<1>2. hand[w].pc = "model" /\ UNCHANGED <<answer, reviewVars, planVars, stalls>>
      BY DEF ModelFails, At
<1>3. b \in Batch
      BY <1>2 DEF FixedPhaseInv, HandsAreFounded
<1>4. CASE Fenced(w, b)
  <2>1. /\ batches' = [batches EXCEPT ![b] = failed] /\ UNCHANGED phased
        /\ spent => Returns(w, "blocked")
        /\ ~spent => hand' = [hand EXCEPT ![w].pc = "claim"]
        BY <1>4 DEF ModelFails
  <2>2. batches[b] \in BatchRow /\ batches[b].status = "claimed"
        BY <1>1, <1>3, <1>4 DEF Fenced
  <2>3. /\ status \in {"pending", "blocked"} /\ batches[b].attempts < MaxModelAttempts
        /\ batches[b].attempts \in Nat /\ MaxModelAttempts \in Nat
        BY <1>3, <2>2, FixedPhaseAssumption DEF FixedPhaseInv, ClaimsHaveAttempts, BatchRow
  <2> HIDE DEF status
  <2>4. /\ Unclaimed(b, status) \in BatchRow /\ Unclaimed(b, status).status = status
        /\ Unclaimed(b, status).attempts = batches[b].attempts
        BY <1>1, <1>3, <2>3, UnclaimedTyped
  <2>5. \A row \in BatchRow : row.attempts < MaxModelAttempts =>
            /\ [row EXCEPT !.attempts = @ + 1] \in BatchRow
            /\ [row EXCEPT !.attempts = @ + 1].status = row.status
        BY <2>3 DEF BatchRow
  <2>6. failed \in BatchRow /\ failed.status \in {"pending", "blocked"}
        BY <2>3, <2>4, <2>5
  <2> HIDE DEF failed
  <2>7. /\ batches' \in [Batch -> BatchRow]
        /\ \A c \in Batch : batches'[c].status = "completed" <=> batches[c].status = "completed"
        /\ \A c \in Batch : batches'[c].status = "claimed" => batches'[c] = batches[c]
        BY <1>1, <1>3, <2>1, <2>2, <2>6
  <2>8. ClaimsHaveAttempts'
        BY <2>7 DEF FixedPhaseInv, ClaimsHaveAttempts
  <2>9. /\ hand' \in [RunWorker -> HandRow]
        /\ \A v \in RunWorker \ {w} : hand'[v] = hand[v]
        /\ hand'[w].next \notin LatePhase
        /\ hand'[w].pc \in {"complete", "claim"}
        /\ hand'[w].pc = "claim" => hand'[w].todo = hand[w].todo
    <3>1. CASE spent
      <4>1. "blocked" \in ToSet(Phase) \cup {"none", "waiting", "blocked"} /\ "blocked" \notin LatePhase
            BY DEF LatePhase
      <4> QED BY <1>1, <2>1, <3>1, <4>1, HandsReturn
    <3>2. CASE ~spent
      <4> DEFINE again == [hand[w] EXCEPT !.pc = "claim"]
      <4>1. hand[w] \in HandRow /\ hand' = [hand EXCEPT ![w] = again]
            BY <1>1, <2>1, <3>2
      <4>2. /\ again \in HandRow /\ again.pc = "claim" /\ again.todo = hand[w].todo
            /\ again.next = hand[w].next
            BY <4>1 DEF HandRow
      <4>3. hand[w].next \notin LatePhase
        <5>1. ~AllAnswered
              BY <1>3, <2>2 DEF AllAnswered
        <5> QED BY <5>1 DEF FixedPhaseInv, HandsAreFounded
      <4> HIDE DEF again
      <4> QED BY <1>1, <4>1, <4>2, <4>3
    <3> QED BY <3>1, <3>2
  <2>10. \A c \in Batch \ hand[w].todo : batches[c].status = "completed"
        BY <1>2 DEF FixedPhaseInv, HandsAreFounded
  <2>11. \A v \in RunWorker :
         \/ hand'[v] = hand[v]
         \/ /\ hand'[v].next \notin LatePhase
            /\ hand'[v].pc \in {"claim", "model"} =>
                 \A c \in Batch \ hand'[v].todo : batches[c].status = "completed"
            /\ hand'[v].pc = "model" => hand'[v].batch \in Batch
        BY <2>9, <2>10
  <2>12. phased' \in PhasedRow /\ phased'.phase = phased.phase
        BY <1>1, <2>1
  <2> QED BY <1>1, <1>2, <2>7, <2>8, <2>9, <2>11, <2>12, BatchStepsKeep
<1>5. CASE ~Fenced(w, b)
  <2>1. DropBatch(w)
        BY <1>5 DEF ModelFails
  <2> QED BY <1>2, <2>1, DropKeeps
<1> QED BY <1>4, <1>5

LEMMA LapseBatchKeeps ==
    ASSUME FixedPhaseInv, NEW b \in Batch, LapseBatch(b)
    PROVE  FixedPhaseInv'
<1> DEFINE lapsed == [batches[b] EXCEPT !.live = FALSE]
<1>1. FixedPhaseTypeOK /\ phased \in PhasedRow /\ stalls \in 0..MaxFaults
      /\ hand \in [RunWorker -> HandRow] /\ batches \in [Batch -> BatchRow]
      BY TypedRows DEF FixedPhaseInv
<1>2. /\ batches' = [batches EXCEPT ![b] = lapsed]
      /\ UNCHANGED <<phased, answer, reviewVars, planVars, hand, stalls>>
      BY DEF LapseBatch
<1>3. batches[b] \in BatchRow
      BY <1>1
<1>4. lapsed \in BatchRow /\ lapsed.status = batches[b].status /\ lapsed.attempts = batches[b].attempts
      BY <1>3 DEF BatchRow
<1> HIDE DEF lapsed
<1>5. batches' \in [Batch -> BatchRow]
      BY <1>1, <1>2, <1>4
<1>6. batches'[b] = lapsed /\ \A c \in Batch \ {b} : batches'[c] = batches[c]
      BY <1>1, <1>2
<1>7. /\ \A c \in Batch : batches'[c].status = "completed" <=> batches[c].status = "completed"
      /\ ClaimsHaveAttempts'
      BY <1>4, <1>6 DEF FixedPhaseInv, ClaimsHaveAttempts
<1>8. phased' \in PhasedRow /\ phased'.phase = phased.phase /\ hand' = hand
      BY <1>1, <1>2
<1> QED BY <1>1, <1>2, <1>5, <1>7, <1>8, BatchStepsKeep

\* Recording a batch answers exactly its work items.
LEMMA FinalizeKeeps ==
    ASSUME FixedPhaseInv, NEW w \in RunWorker, Finalize(w)
    PROVE  FixedPhaseInv'
<1> DEFINE b == hand[w].batch
           goOn == [hand[w] EXCEPT !.pc = "claim", !.todo = hand[w].todo \ {b}, !.batch = "none"]
           saved(risk) == [f \in Finding |-> IF f \in Members(b) THEN risk[f] ELSE answer[f]]
           recorded == [Unclaimed(b, "completed") EXCEPT !.attempts = @ + 1]
<1>1. FixedPhaseTypeOK /\ phased \in PhasedRow /\ stalls \in 0..MaxFaults
      /\ hand \in [RunWorker -> HandRow] /\ batches \in [Batch -> BatchRow]
      BY TypedRows DEF FixedPhaseInv
<1>2. hand[w].pc = "model" /\ UNCHANGED <<reviewVars, planVars, stalls>>
      BY DEF Finalize, At
<1>3. b \in Batch /\ hand[w] \in HandRow
      BY <1>1, <1>2 DEF FixedPhaseInv, HandsAreFounded
<1>40. [hand EXCEPT ![w].pc = "claim", ![w].todo = @ \ {b}, ![w].batch = "none"]
         = [hand EXCEPT ![w] = goOn]
      BY <1>1
<1>4. PICK risk \in [Members(b) -> {"low", "high"}] :
         \/ /\ batches[b].status = "completed" /\ saved(risk) = answer
            /\ hand' = [hand EXCEPT ![w] = goOn]
            /\ UNCHANGED <<phased, workVars>>
         \/ /\ Fenced(w, b)
            /\ answer' = saved(risk)
            /\ batches' = [batches EXCEPT ![b] = recorded]
            /\ hand' = [hand EXCEPT ![w] = goOn]
            /\ UNCHANGED phased
         \/ /\ DropBatch(w)
            /\ UNCHANGED answer
      BY <1>40, Zenon DEF Finalize
<1>5. /\ goOn \in HandRow /\ goOn.pc = "claim" /\ goOn.todo = hand[w].todo \ {b}
      /\ goOn.next = hand[w].next
      BY <1>3 DEF HandRow
<1> HIDE DEF goOn
<1>6. hand' = [hand EXCEPT ![w] = goOn] =>
        /\ hand' \in [RunWorker -> HandRow] /\ hand'[w] = goOn
        /\ \A v \in RunWorker \ {w} : hand'[v] = hand[v]
      BY <1>1, <1>5
<1>7. \A c \in Batch \ hand[w].todo : batches[c].status = "completed"
      BY <1>2 DEF FixedPhaseInv, HandsAreFounded
<1>8. CASE /\ batches[b].status = "completed"
           /\ hand' = [hand EXCEPT ![w] = goOn]
           /\ UNCHANGED <<phased, workVars>>
  <2>1. \A v \in RunWorker :
           \/ hand'[v] = hand[v]
           \/ /\ hand'[v].next \in LatePhase => AllAnswered
              /\ hand'[v].next \in PlanPhase => AllReviewed
              /\ hand'[v].pc \in {"claim", "model"} =>
                   \A c \in Batch \ hand'[v].todo : batches[c].status = "completed"
              /\ hand'[v].pc = "model" => hand'[v].batch \in Batch
        BY <1>5, <1>6, <1>7, <1>8 DEF FixedPhaseInv, HandsAreFounded
  <2> QED BY <1>1, <1>2, <1>6, <1>8, <2>1, HandStepsKeep
<1>9. CASE DropBatch(w) /\ UNCHANGED answer
      BY <1>2, <1>9, DropKeeps
<1>10. CASE /\ Fenced(w, b)
            /\ answer' = saved(risk)
            /\ batches' = [batches EXCEPT ![b] = recorded]
            /\ hand' = [hand EXCEPT ![w] = goOn]
            /\ UNCHANGED phased
  <2>1. batches[b] \in BatchRow /\ batches[b].status = "claimed"
        /\ batches[b].attempts < MaxModelAttempts /\ MaxModelAttempts \in Nat
        BY <1>1, <1>3, <1>10, FixedPhaseAssumption DEF Fenced, FixedPhaseInv, ClaimsHaveAttempts
  <2>2. /\ Unclaimed(b, "completed") \in BatchRow /\ Unclaimed(b, "completed").status = "completed"
        /\ Unclaimed(b, "completed").attempts = batches[b].attempts
        BY <1>1, <1>3, UnclaimedTyped
  <2>3. \A row \in BatchRow : row.attempts < MaxModelAttempts =>
            /\ [row EXCEPT !.attempts = @ + 1] \in BatchRow
            /\ [row EXCEPT !.attempts = @ + 1].status = row.status
        BY <2>1 DEF BatchRow
  <2>4. recorded \in BatchRow /\ recorded.status = "completed"
        BY <2>1, <2>2, <2>3
  <2> HIDE DEF recorded
  <2>5. batches' \in [Batch -> BatchRow]
        BY <1>1, <1>10, <2>4
  <2>6. batches'[b] = recorded /\ \A c \in Batch \ {b} : batches'[c] = batches[c]
        BY <1>1, <1>3, <1>10
  <2>7. \A f \in Finding : answer'[f] = IF BatchFor[f] = b THEN risk[f] ELSE answer[f]
        BY <1>10 DEF Members
  <2>8. \A f \in Finding : BatchFor[f] = b => risk[f] \in {"low", "high"}
    <3>1. \A f \in Finding : BatchFor[f] = b => f \in Members(b)
          BY DEF Members
    <3> HIDE DEF b
    <3> QED BY <1>4, <3>1
  <2>9. answer' \in [Finding -> {"none", "low", "high"}]
    <3>1. answer \in [Finding -> {"none", "low", "high"}]
          BY <1>1 DEF FixedPhaseTypeOK
    <3>2. \A f \in Finding : (IF BatchFor[f] = b THEN risk[f] ELSE answer[f]) \in {"none", "low", "high"}
          BY <2>8, <3>1
    <3>3. answer' = [f \in Finding |-> IF f \in Members(b) THEN risk[f] ELSE answer[f]]
          BY <1>10
    <3>4. \A f \in Finding : f \in Members(b) <=> BatchFor[f] = b
          BY DEF Members
    <3> HIDE DEF b
    <3> QED BY <3>2, <3>3, <3>4
  <2>10. \A f \in Finding : BatchFor[f] \in Batch
        BY FixedPhaseAssumption
  <2>11. \A f \in Finding : BatchFor[f] = b => answer[f] = "none"
        BY <1>3, <2>1 DEF FixedPhaseInv, AnswersComeInBatches
  <2>12. UNCHANGED <<question, reviews, judging, compiled, output>>
        BY <1>2 DEF reviewVars, planVars
  <2>13. FixedPhaseTypeOK'
        BY <1>1, <1>2, <1>6, <1>10, <2>5, <2>9, <2>12 DEF FixedPhaseTypeOK, PhasedRow, HandRow, BatchRow
  <2>14. AnswersComeInBatches'
    <3> SUFFICES ASSUME NEW f \in Finding
                 PROVE  answer'[f] # "none" <=> batches'[BatchFor[f]].status = "completed"
        BY DEF AnswersComeInBatches
    <3>1. CASE BatchFor[f] = b
          BY <2>4, <2>6, <2>7, <2>8, <3>1
    <3>2. CASE BatchFor[f] # b
          BY <2>6, <2>7, <2>10, <3>2 DEF FixedPhaseInv, AnswersComeInBatches
    <3> QED BY <3>1, <3>2
  <2>15. DecisionsArePending'
        BY <2>12 DEF FixedPhaseInv, DecisionsArePending
  <2>16. ClaimsHaveAttempts'
        BY <2>4, <2>6 DEF FixedPhaseInv, ClaimsHaveAttempts
  <2>17. \A c \in Batch : batches[c].status = "completed" => batches'[c].status = "completed"
        BY <2>4, <2>6
  <2>18. \A f \in Finding : answer[f] # "none" => answer'[f] = answer[f]
        BY <2>7, <2>11
  <2>19. goOn.next \notin LatePhase /\ goOn.next \notin PlanPhase
    <3>1. ~AllAnswered
          BY <1>3, <2>1 DEF AllAnswered
    <3> QED BY <1>5, <3>1 DEF FixedPhaseInv, HandsAreFounded, LatePhase, PlanPhase
  <2>20. \A c \in Batch \ goOn.todo : batches'[c].status = "completed"
        BY <1>5, <1>7, <2>4, <2>6
  <2>21. \A v \in RunWorker :
           \/ hand'[v] = hand[v]
           \/ /\ hand'[v].next \in LatePhase => AllAnswered'
              /\ hand'[v].next \in PlanPhase => AllReviewed'
              /\ hand'[v].pc \in {"claim", "model"} =>
                   \A c \in Batch \ hand'[v].todo : batches'[c].status = "completed"
              /\ hand'[v].pc = "model" => hand'[v].batch \in Batch
    <3>1. \A v \in RunWorker \ {w} : hand'[v] = hand[v]
          BY <1>6, <1>10
    <3>2. hand'[w] = goOn
          BY <1>6, <1>10
    <3>3. /\ hand'[w].next \notin LatePhase /\ hand'[w].next \notin PlanPhase
          /\ hand'[w].pc = "claim"
          /\ \A c \in Batch \ hand'[w].todo : batches'[c].status = "completed"
          BY <1>5, <2>19, <2>20, <3>2
    <3> QED BY <3>1, <3>3
  <2>22. phased'.phase = phased.phase
        BY <1>10
  <2> QED BY <2>12, <2>13, <2>14, <2>15, <2>16, <2>17, <2>18, <2>21, <2>22, FoundedStepsKeep
<1> QED BY <1>4, <1>8, <1>9, <1>10

-----------------------------------------------------------------------------
(* The reviews *)

\* The steps that leave everything but the reviews, the plan and a return.
LEMMA ReviewStepsKeep ==
    ASSUME FixedPhaseInv, FixedPhaseTypeOK', UNCHANGED workVars, compiled' = compiled,
           DecisionsArePending', AllReviewed => reviews' = reviews,
           phased'.phase = phased.phase,
           \A w \in RunWorker :
              \/ hand'[w] = hand[w]
              \/ /\ hand'[w].next \in LatePhase => AllAnswered'
                 /\ hand'[w].next \in PlanPhase => AllReviewed'
                 /\ hand'[w].pc \notin {"claim", "model"}
    PROVE  FixedPhaseInv'
<1>1. UNCHANGED <<batches, answer>>
      BY DEF workVars
<1>2. AnswersComeInBatches' /\ ClaimsHaveAttempts'
      BY <1>1 DEF FixedPhaseInv, AnswersComeInBatches, ClaimsHaveAttempts
<1>3. \A w \in RunWorker :
         \/ hand'[w] = hand[w]
         \/ /\ hand'[w].next \in LatePhase => AllAnswered'
            /\ hand'[w].next \in PlanPhase => AllReviewed'
            /\ hand'[w].pc \in {"claim", "model"} =>
                 \A b \in Batch \ hand'[w].todo : batches'[b].status = "completed"
            /\ hand'[w].pc = "model" => hand'[w].batch \in Batch
      OBVIOUS
<1>4. /\ \A b \in Batch : batches[b].status = "completed" => batches'[b].status = "completed"
      /\ \A f \in Finding : answer[f] # "none" => answer'[f] = answer[f]
      BY <1>1
<1> QED BY <1>2, <1>3, <1>4, FoundedStepsKeep

\* The risks are aggregated once all are known, so that no group appears later.
LEMMA AggregateKeeps ==
    ASSUME FixedPhaseInv, NEW w \in RunWorker, Aggregate(w)
    PROVE  FixedPhaseInv'
<1> DEFINE next == IF \E g \in Groups : reviews'[g] = "pending" THEN "waiting" ELSE "compile"
<1>1. FixedPhaseTypeOK
      BY DEF FixedPhaseInv
<1>2. /\ hand[w].next = "aggregate"
      /\ reviews' = [g \in Groups |-> IF g \in ReviewGroups(Finding) /\ reviews[g] = "absent"
                                        THEN "pending" ELSE reviews[g]]
      /\ Returns(w, next)
      /\ UNCHANGED <<phased, workVars, question, judging, planVars, stalls>>
      BY DEF Aggregate, Starts
<1>3. AllAnswered
      BY <1>2 DEF FixedPhaseInv, HandsAreFounded, LatePhase
<1>4. UNCHANGED <<batches, answer, compiled, output>>
      BY <1>2 DEF workVars, planVars
<1>5. reviews \in [Groups -> {"absent", "pending", "approved", "rejected"}]
      BY <1>1 DEF FixedPhaseTypeOK
<1>6. reviews' \in [Groups -> {"absent", "pending", "approved", "rejected"}]
      BY <1>2, <1>5
<1>7. ReviewGroups(Finding) \subseteq Groups /\ ReviewGroups(Finding)' = ReviewGroups(Finding)
      BY <1>4, GroupsOfReviews DEF ReviewGroups
<1>8. next \in ToSet(Phase) \cup {"none", "waiting", "blocked"}
      BY Phases
<1> HIDE DEF next
<1>9. /\ hand' \in [RunWorker -> HandRow]
      /\ hand'[w].next = next /\ hand'[w].pc = "complete"
      /\ \A v \in RunWorker \ {w} : hand'[v] = hand[v]
      BY <1>1, <1>2, <1>8, HandsReturn
<1>10. FixedPhaseTypeOK'
      BY <1>1, <1>2, <1>4, <1>6, <1>9 DEF FixedPhaseTypeOK, HandRow
<1>11. AllReviewed => reviews' = reviews
  <2> SUFFICES ASSUME AllReviewed PROVE reviews' = reviews
      OBVIOUS
  <2>1. \A g \in Groups : reviews'[g] = reviews[g]
        BY <1>2 DEF AllReviewed
  <2> QED BY <1>5, <1>6, <2>1
<1>12. next \in PlanPhase => AllReviewed'
  <2> SUFFICES ASSUME next \in PlanPhase PROVE AllReviewed'
      OBVIOUS
  <2>1. \A g \in Groups : reviews'[g] # "pending"
        BY DEF next, PlanPhase
  <2>2. \A g \in ReviewGroups(Finding) : reviews'[g] \in {"approved", "rejected"}
        BY <1>2, <1>5, <1>6, <1>7, <2>1
  <2>3. AllAnswered'
        BY <1>3, <1>4 DEF AllAnswered
  <2> QED BY <1>7, <2>1, <2>2, <2>3 DEF AllReviewed
<1>13. AllAnswered'
      BY <1>3, <1>4 DEF AllAnswered
<1>14. DecisionsArePending'
      BY <1>2 DEF FixedPhaseInv, DecisionsArePending
<1>15. \A v \in RunWorker :
         \/ hand'[v] = hand[v]
         \/ /\ hand'[v].next \in LatePhase => AllAnswered'
            /\ hand'[v].next \in PlanPhase => AllReviewed'
            /\ hand'[v].pc \notin {"claim", "model"}
      BY <1>9, <1>12, <1>13
<1>16. phased'.phase = phased.phase
      BY <1>2
<1> QED BY <1>2, <1>4, <1>10, <1>11, <1>14, <1>15, <1>16, ReviewStepsKeep

LEMMA ResumedTyped ==
    ASSUME FixedPhaseTypeOK, NEW phase
    PROVE  Resumed(phase) \in PhasedRow /\ Resumed(phase).phase = phased.phase
<1>1. phased \in PhasedRow
      BY TypedRows
<1>2. \A p \in PhasedRow : [p EXCEPT !.status = "running"] \in PhasedRow
                          /\ [p EXCEPT !.status = "running"].phase = p.phase
      BY DEF PhasedRow
<1> QED BY <1>1, <1>2 DEF Resumed

LEMMA QuestionKeeps ==
    ASSUME FixedPhaseInv, Interpret \/ ConfirmQuestion
    PROVE  FixedPhaseInv'
<1>1. FixedPhaseTypeOK
      BY DEF FixedPhaseInv
<1>2. /\ question' \in {"none", "pending", "interpreted", "settled"}
      /\ UNCHANGED <<workVars, reviews, judging, planVars, hand, stalls>>
      /\ phased' = phased \/ phased' = Resumed("clarify")
      BY DEF Interpret, ConfirmQuestion
<1>3. phased' \in PhasedRow /\ phased'.phase = phased.phase
      BY <1>1, <1>2, ResumedTyped, TypedRows
<1>4. FixedPhaseTypeOK'
      BY <1>1, <1>2, <1>3 DEF FixedPhaseTypeOK, workVars, planVars, PhasedRow
<1>5. DecisionsArePending' /\ compiled' = compiled
      BY <1>2 DEF FixedPhaseInv, DecisionsArePending, planVars
<1> QED BY <1>2, <1>3, <1>4, <1>5, ReviewStepsKeep

LEMMA OpenDecisionKeeps ==
    ASSUME FixedPhaseInv, NEW g \in Groups, OpenDecision(g)
    PROVE  FixedPhaseInv'
<1> DEFINE saw == IF \E h \in Groups \ {g} : reviews[h] = "pending" THEN "other" ELSE "last"
<1>1. FixedPhaseTypeOK
      BY DEF FixedPhaseInv
<1>2. /\ reviews[g] = "pending" /\ judging' = [judging EXCEPT ![g] = saw]
      /\ UNCHANGED <<phased, workVars, question, reviews, planVars, hand, stalls>>
      BY DEF OpenDecision
<1>3. saw \in {"none", "last", "other"}
      OBVIOUS
<1> HIDE DEF saw
<1>4. judging \in [Groups -> {"none", "last", "other"}]
      BY <1>1 DEF FixedPhaseTypeOK
<1>5. judging' \in [Groups -> {"none", "last", "other"}]
      /\ \A h \in Groups \ {g} : judging'[h] = judging[h]
      BY <1>2, <1>3, <1>4
<1>6. FixedPhaseTypeOK'
      BY <1>1, <1>2, <1>5 DEF FixedPhaseTypeOK, workVars, planVars
<1>7. DecisionsArePending' /\ compiled' = compiled
      BY <1>2, <1>5 DEF FixedPhaseInv, DecisionsArePending, planVars
<1> QED BY <1>2, <1>6, <1>7, ReviewStepsKeep

\* Once all is reviewed no decision is open.
LEMMA DecideKeeps ==
    ASSUME FixedPhaseInv, NEW g \in Groups, Decide(g)
    PROVE  FixedPhaseInv'
<1>1. FixedPhaseTypeOK
      BY DEF FixedPhaseInv
<1>2. PICK verdict \in {"approved", "rejected"} :
        /\ reviews' = [reviews EXCEPT ![g] = verdict]
        /\ judging[g] # "none" /\ judging' = [judging EXCEPT ![g] = "none"]
        /\ UNCHANGED <<workVars, question, planVars, hand, stalls>>
        /\ phased' = phased \/ phased' = Resumed("aggregate")
      BY DEF Decide
<1>3. /\ judging \in [Groups -> {"none", "last", "other"}]
      /\ reviews \in [Groups -> {"absent", "pending", "approved", "rejected"}]
      BY <1>1 DEF FixedPhaseTypeOK
<1>4. judging' \in [Groups -> {"none", "last", "other"}] /\ judging'[g] = "none"
      /\ \A h \in Groups \ {g} : judging'[h] = judging[h]
      BY <1>2, <1>3
<1>5. reviews' \in [Groups -> {"absent", "pending", "approved", "rejected"}]
      /\ \A h \in Groups \ {g} : reviews'[h] = reviews[h]
      BY <1>2, <1>3
<1>6. phased' \in PhasedRow /\ phased'.phase = phased.phase
      BY <1>1, <1>2, ResumedTyped, TypedRows
<1>7. FixedPhaseTypeOK'
      BY <1>1, <1>2, <1>4, <1>5, <1>6 DEF FixedPhaseTypeOK, workVars, planVars, PhasedRow
<1>8. DecisionsArePending' /\ compiled' = compiled
      BY <1>2, <1>4, <1>5 DEF FixedPhaseInv, DecisionsArePending, planVars
<1>9. ~AllReviewed
      BY <1>2 DEF AllReviewed, FixedPhaseInv, DecisionsArePending
<1> QED BY <1>2, <1>6, <1>7, <1>8, <1>9, ReviewStepsKeep

-----------------------------------------------------------------------------
(* The plan *)

\* A plan that is compiled respects the reviews.
LEMMA CompiledRespectsReviews ==
    ASSUME FixedPhaseTypeOK, \A g \in ReviewGroups(Eligible) : reviews[g] = "approved",
           NEW f \in Eligible
    PROVE  /\ \A g \in Upstream(f) \cup {f} : \A r \in Groups : g \in r => reviews[r] # "rejected"
           /\ answer[f] = "high" => \E r \in Groups : f \in r /\ reviews[r] = "approved"
<1>1. Eligible \subseteq Finding
      BY DEF Eligible
<1>2. ASSUME answer[f] = "high"
      PROVE  \E r \in Groups : f \in r /\ reviews[r] = "approved"
  <2> DEFINE r == {h \in Eligible : answer[h] = "high" /\ KeyOf[h] = KeyOf[f]}
  <2>1. f \in r
        BY <1>2
  <2>2. r \in ReviewGroups(Eligible)
        BY <1>1, <2>1 DEF ReviewGroups
  <2>3. r \in Groups
        BY <1>1, <2>2, GroupsOfReviews
  <2> QED BY <2>1, <2>2, <2>3
<1> QED BY <1>2, EligibleIsClean

LEMMA CompileKeeps ==
    ASSUME FixedPhaseInv, NEW w \in RunWorker, Compile(w)
    PROVE  FixedPhaseInv'
<1> DEFINE plan == [made |-> TRUE, findings |-> Eligible, version |-> output]
<1>1. FixedPhaseTypeOK /\ phased \in PhasedRow /\ stalls \in 0..MaxFaults
      BY TypedRows DEF FixedPhaseInv
<1>2. hand[w].next = "compile" /\ UNCHANGED <<workVars, reviewVars, output, stalls>>
      BY DEF Compile, Starts
<1>3. AllAnswered /\ AllReviewed
      BY <1>2 DEF FixedPhaseInv, HandsAreFounded, LatePhase, PlanPhase
<1>4. "execute" \in ToSet(Phase) \cup {"none", "waiting", "blocked"}
      BY Phases
<1>5. CASE Returns(w, "execute") /\ UNCHANGED <<phased, compiled>>
      BY <1>2, <1>3, <1>4, <1>5, ReturnsKeep DEF planVars
<1>6. CASE Abandon(w) /\ UNCHANGED compiled
  <2>1. phased' = Freed(w) /\ hand' = [hand EXCEPT ![w] = IdleHand]
        BY <1>6 DEF Abandon
  <2>2. phased' \in PhasedRow /\ phased'.phase = phased.phase
        BY <1>1, <2>1, FreedTyped
  <2> QED BY <1>1, <1>2, <1>6, <2>1, <2>2, IdleStepsKeep DEF planVars
<1>7. CASE /\ \A g \in ReviewGroups(Eligible) : reviews[g] = "approved"
           /\ compiled' = plan /\ Returns(w, "execute") /\ UNCHANGED phased
  <2>1. /\ hand' \in [RunWorker -> HandRow]
        /\ hand'[w].next = "execute" /\ hand'[w].pc = "complete"
        /\ \A v \in RunWorker \ {w} : hand'[v] = hand[v]
        BY <1>1, <1>4, <1>7, HandsReturn
  <2>2. UNCHANGED <<batches, answer, question, reviews, judging>>
        BY <1>2 DEF workVars, reviewVars
  <2>3. output \in Nat /\ Eligible \in SUBSET Finding
        BY <1>1 DEF FixedPhaseTypeOK, Eligible
  <2>4. compiled' \in [made : BOOLEAN, findings : SUBSET Finding, version : Nat]
        /\ compiled'.made /\ compiled'.findings = Eligible
        BY <1>7, <2>3
  <2>5. FixedPhaseTypeOK'
        BY <1>1, <1>2, <1>7, <2>1, <2>2, <2>4 DEF FixedPhaseTypeOK, HandRow
  <2>6. AnswersComeInBatches' /\ DecisionsArePending' /\ ClaimsHaveAttempts'
        BY <2>2 DEF FixedPhaseInv, AnswersComeInBatches, DecisionsArePending, ClaimsHaveAttempts
  <2>7. AllAnswered' /\ AllReviewed'
        BY <1>3, <2>2 DEF AllAnswered, AllReviewed, ReviewGroups
  <2>8. PlanRespectsReviews'
    <3>1. \A f \in Eligible :
            /\ \A g \in Upstream(f) \cup {f} : \A r \in Groups : g \in r => reviews[r] # "rejected"
            /\ answer[f] = "high" => \E r \in Groups : f \in r /\ reviews[r] = "approved"
          BY <1>1, <1>7, CompiledRespectsReviews
    <3> QED BY <2>2, <2>4, <3>1 DEF PlanRespectsReviews
  <2>9. \A v \in RunWorker :
           \/ hand'[v] = hand[v]
           \/ /\ hand'[v].next \in LatePhase => AllAnswered'
              /\ hand'[v].next \in PlanPhase => AllReviewed'
              /\ hand'[v].pc \in {"claim", "model"} =>
                   \A b \in Batch \ hand'[v].todo : batches'[b].status = "completed"
              /\ hand'[v].pc = "model" => hand'[v].batch \in Batch
        BY <2>1, <2>7
  <2> QED BY <1>7, <2>2, <2>4, <2>5, <2>6, <2>7, <2>8, <2>9, FoundedStepsKeep
<1>8. \/ Returns(w, "execute") /\ UNCHANGED <<phased, compiled>>
      \/ Abandon(w) /\ UNCHANGED compiled
      \/ /\ \A g \in ReviewGroups(Eligible) : reviews[g] = "approved"
         /\ compiled' = plan /\ Returns(w, "execute") /\ UNCHANGED phased
      BY DEF Compile
<1> QED BY <1>5, <1>6, <1>7, <1>8

LEMMA ExecutePlanKeeps ==
    ASSUME FixedPhaseInv, NEW w \in RunWorker, ExecutePlan(w)
    PROVE  FixedPhaseInv'
<1>1. FixedPhaseTypeOK /\ phased \in PhasedRow /\ stalls \in 0..MaxFaults
      BY TypedRows DEF FixedPhaseInv
<1>2. /\ hand[w].next = "execute" /\ UNCHANGED <<workVars, reviewVars, compiled, stalls>>
      /\ \/ output' \in {output, output + 1} /\ Returns(w, "report") /\ UNCHANGED phased
         \/ Abandon(w) /\ UNCHANGED output
      BY DEF ExecutePlan, Starts
<1>3. AllAnswered /\ AllReviewed
      BY <1>2 DEF FixedPhaseInv, HandsAreFounded, LatePhase, PlanPhase
<1>4. UNCHANGED <<batches, answer, question, reviews, judging>>
      BY <1>2 DEF workVars, reviewVars
<1>5. "report" \in ToSet(Phase) \cup {"none", "waiting", "blocked"}
      BY Phases
<1>6. CASE output' \in {output, output + 1} /\ Returns(w, "report") /\ UNCHANGED phased
  <2>1. /\ hand' \in [RunWorker -> HandRow]
        /\ hand'[w].next = "report" /\ hand'[w].pc = "complete"
        /\ \A v \in RunWorker \ {w} : hand'[v] = hand[v]
        BY <1>1, <1>5, <1>6, HandsReturn
  <2>2. output' \in Nat
        BY <1>1, <1>6 DEF FixedPhaseTypeOK
  <2>3. FixedPhaseTypeOK'
        BY <1>1, <1>2, <1>4, <1>6, <2>1, <2>2 DEF FixedPhaseTypeOK, HandRow
  <2>4. DecisionsArePending' /\ AllAnswered' /\ AllReviewed'
        BY <1>3, <1>4 DEF FixedPhaseInv, DecisionsArePending, AllAnswered, AllReviewed, ReviewGroups
  <2>5. \A v \in RunWorker :
           \/ hand'[v] = hand[v]
           \/ /\ hand'[v].next \in LatePhase => AllAnswered'
              /\ hand'[v].next \in PlanPhase => AllReviewed'
              /\ hand'[v].pc \notin {"claim", "model"}
        BY <2>1, <2>4
  <2> QED BY <1>2, <1>4, <1>6, <2>3, <2>4, <2>5, ReviewStepsKeep
<1>7. CASE Abandon(w) /\ UNCHANGED output
  <2>1. phased' = Freed(w) /\ hand' = [hand EXCEPT ![w] = IdleHand]
        BY <1>7 DEF Abandon
  <2>2. phased' \in PhasedRow /\ phased'.phase = phased.phase
        BY <1>1, <2>1, FreedTyped
  <2> QED BY <1>1, <1>2, <1>7, <2>1, <2>2, IdleStepsKeep DEF planVars
<1> QED BY <1>2, <1>6, <1>7

-----------------------------------------------------------------------------
(* The theorems *)

LEMMA FixedPhaseInitially == FixedPhaseInit => FixedPhaseInv
<1> SUFFICES ASSUME FixedPhaseInit PROVE FixedPhaseInv
    OBVIOUS
<1>1. "build" \in ToSet(Phase)
      BY Phases
<1>2. MaxModelAttempts \in Nat \ {0} /\ MaxFaults \in Nat
      BY FixedPhaseAssumption
<1>3. FixedPhaseTypeOK
  <2>1. phased \in PhasedRow /\ stalls \in 0..MaxFaults
        BY <1>1, <1>2 DEF FixedPhaseInit, PhasedRow
  <2>2. IdleHand \in HandRow
        BY DEF IdleHand, HandRow
  <2>3. hand \in [RunWorker -> HandRow]
        BY <2>2 DEF FixedPhaseInit
  <2>4. [status |-> "absent", owner |-> "none", live |-> FALSE, attempts |-> 0] \in BatchRow
        BY <1>2 DEF BatchRow
  <2>5. batches \in [Batch -> BatchRow]
        BY <2>4 DEF FixedPhaseInit
  <2> QED BY <2>1, <2>3, <2>5 DEF FixedPhaseInit, FixedPhaseTypeOK, PhasedRow, HandRow, BatchRow
<1>4. AnswersComeInBatches /\ DecisionsArePending /\ ClaimsHaveAttempts
      BY FixedPhaseAssumption
      DEF FixedPhaseInit, AnswersComeInBatches, DecisionsArePending, ClaimsHaveAttempts
<1>5. HandsAreFounded /\ RunIsFounded
      BY DEF FixedPhaseInit, HandsAreFounded, RunIsFounded, IdleHand, LatePhase, PlanPhase
<1>6. PlanIsFounded /\ PlanRespectsReviews
      BY DEF FixedPhaseInit, PlanIsFounded, PlanRespectsReviews
<1> QED BY <1>3, <1>4, <1>5, <1>6 DEF FixedPhaseInv

LEMMA HandlerStepsKeep ==
    ASSUME FixedPhaseInv, NEW w \in RunWorker, HandlerStep(w)
    PROVE  FixedPhaseInv'
BY BuildKeeps, ListBatchesKeeps, AnalysisDoneKeeps, ClaimBatchKeeps, FinalizeKeeps,
   ModelFailsKeeps, ModelBreaksKeeps, ClarifyKeeps, AggregateKeeps, CompileKeeps,
   ExecutePlanKeeps, WriteReportKeeps
   DEF HandlerStep

LEMMA FixedPhaseStepsKeep == FixedPhaseInv /\ [FixedPhaseNext]_phaseVars => FixedPhaseInv'
<1> SUFFICES ASSUME FixedPhaseInv, [FixedPhaseNext]_phaseVars PROVE FixedPhaseInv'
    OBVIOUS
<1>1. CASE UNCHANGED phaseVars
  <2>1. UNCHANGED <<workVars, reviewVars, planVars, phased, hand, stalls>>
        BY <1>1 DEF phaseVars, workVars, reviewVars, planVars
  <2>2. phased \in PhasedRow /\ hand \in [RunWorker -> HandRow] /\ stalls \in 0..MaxFaults
        BY TypedRows DEF FixedPhaseInv
  <2> QED BY <2>1, <2>2, HandStepsKeep
<1>2. ASSUME NEW w \in RunWorker,
             ClaimRun(w) \/ Renew(w) \/ LeaseLost(w) \/ Complete(w) \/ HandlerStep(w) \/ Crash(w)
      PROVE  FixedPhaseInv'
      BY <1>2, ClaimRunKeeps, RenewKeeps, LeaseLostKeeps, CompleteKeeps, HandlerStepsKeep, CrashKeeps
<1>3. CASE Interpret \/ ConfirmQuestion \/ TerminateRun \/ LapseRun
      BY <1>3, QuestionKeeps, TerminationKeeps, LapseRunKeeps
<1>4. ASSUME NEW g \in Groups, OpenDecision(g) \/ Decide(g)
      PROVE  FixedPhaseInv'
      BY <1>4, OpenDecisionKeeps, DecideKeeps
<1>5. ASSUME NEW b \in Batch, LapseBatch(b)
      PROVE  FixedPhaseInv'
      BY <1>5, LapseBatchKeeps
<1> QED BY <1>1, <1>2, <1>3, <1>4, <1>5 DEF FixedPhaseNext

LEMMA FixedPhaseInvariance == FixedPhaseSpec => []FixedPhaseInv
BY FixedPhaseInitially, FixedPhaseStepsKeep, PTL DEF FixedPhaseSpec

\* The variables of a fixed-phase run keep their types.
THEOREM FixedPhase_TypeOK == FixedPhaseSpec => []FixedPhaseTypeOK
<1>1. FixedPhaseInv => FixedPhaseTypeOK
      BY DEF FixedPhaseInv
<1> QED BY <1>1, FixedPhaseInvariance, PTL

\* Whatever workers lose, repeat or race for, a run that has left the analysis
\* has every batch completed and every work item answered.
THEOREM FixedPhase_AnalysisIsComplete == FixedPhaseSpec => []AnalysisIsComplete
<1>1. FixedPhaseInv => AnalysisIsComplete
  <2> SUFFICES ASSUME FixedPhaseInv, phased.phase \notin {"build", "analyze"} PROVE AllAnswered
      BY DEF AnalysisIsComplete, AllAnswered
  <2>1. phased.phase \in ToSet(Phase)
        BY DEF FixedPhaseInv, FixedPhaseTypeOK
  <2> QED BY <2>1, Phases DEF FixedPhaseInv, RunIsFounded, LatePhase
<1> QED BY <1>1, FixedPhaseInvariance, PTL

\* For every set of findings and every dependency among them, the plan keeps
\* out what was rejected and what rests on it, and each high risk it keeps was
\* approved.
THEOREM FixedPhase_PlanRespectsReviews == FixedPhaseSpec => []PlanRespectsReviews
<1>1. FixedPhaseInv => PlanRespectsReviews
      BY DEF FixedPhaseInv
<1> QED BY <1>1, FixedPhaseInvariance, PTL

LEMMA AnswersAreFenced ==
    FixedPhaseInv /\ [FixedPhaseNext]_phaseVars =>
        \A f \in Finding : answer'[f] # answer[f] => answer[f] = "none" /\ phased.status = "running"
<1> SUFFICES ASSUME FixedPhaseInv, [FixedPhaseNext]_phaseVars, NEW f \in Finding,
                    answer'[f] # answer[f]
             PROVE  answer[f] = "none" /\ phased.status = "running"
    OBVIOUS
<1>1. PICK w \in RunWorker : Finalize(w)
  <2>1. ~UNCHANGED phaseVars
        BY DEF phaseVars
  <2> QED BY <2>1
      DEF FixedPhaseNext, HandlerStep, ClaimRun, Renew, LeaseLost, Complete, Crash, Build,
          ListBatches, AnalysisDone, ClaimBatch, ModelFails, ModelBreaks, Clarify, Aggregate,
          Compile, ExecutePlan, WriteReport, Interpret, ConfirmQuestion, TerminateRun, LapseRun,
          OpenDecision, Decide, LapseBatch, workVars
<1> DEFINE b == hand[w].batch
<1>2. PICK risk \in [Members(b) -> {"low", "high"}] :
        /\ Fenced(w, b)
        /\ answer' = [g \in Finding |-> IF g \in Members(b) THEN risk[g] ELSE answer[g]]
      BY <1>1, Zenon DEF Finalize, workVars
<1>3. f \in Members(b)
      BY <1>2
<1>4. BatchFor[f] = b /\ batches[b].status = "claimed" /\ phased.status = "running"
      BY <1>2, <1>3 DEF Members, Fenced, Analysing
<1> QED BY <1>4 DEF FixedPhaseInv, AnswersComeInBatches

\* No late worker, second claim or termination changes a recorded answer, and none
\* is recorded for a run that does not run.
THEOREM FixedPhase_AnswersAreFinal == FixedPhaseSpec => AnswersAreFinal
BY AnswersAreFenced, FixedPhaseInvariance, PTL DEF FixedPhaseSpec, AnswersAreFinal
=============================================================================
