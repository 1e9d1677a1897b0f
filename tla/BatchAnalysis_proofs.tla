------------------------- MODULE BatchAnalysis_proofs -------------------------
(***************************************************************************)
(* Every work item of a graph run is analysed in one batch before risk is  *)
(* aggregated, for any number of items and workers, any batch size and any *)
(* pattern of lost claims, repeated planning and failed invocations.  The  *)
(* invariant says what the frozen action implies of the batches, and what  *)
(* an iteration, however old, may still rely on.                           *)
(***************************************************************************)
EXTENDS BatchAnalysis, FiniteSetTheorems, SequenceTheorems, WellFoundedInduction, TLAPS

-----------------------------------------------------------------------------
(* The inductive invariant *)

BatchPc == {"resume", "record", "replay", "model", "store", "finalize", "release", "block"}
ActingPc == {"act", "commit"} \cup BatchPc

Claimed(b) == modelBatches[b].status = "claimed"
Completed(b) == modelBatches[b].status = "completed"
Unanswered(b) == \A i \in MembersOf(b) : findings[i] = NoAnswer
NothingClaimed == \A b \in DOMAIN modelBatches : ~Claimed(b)
Covered == agenda.items \subseteq UNION {MembersOf(b) : b \in InUse}

\* The answer of a template of profile p.
AnswersFor(a, p) ==
    /\ a.part = "template"
    /\ a.batch \in DOMAIN modelBatches
    /\ TemplateItems(MembersOf(a.batch)) # {}
    /\ ProfileIn(MembersOf(a.batch)) = p

\* No batch is empty, and a finding was given for one.
BatchesAreFounded ==
    /\ \A b \in DOMAIN modelBatches : MembersOf(b) # {}
    /\ \A i \in Item : findings[i] # NoAnswer => findings[i].batch \in DOMAIN modelBatches

TemplatesAreFounded ==
    \A p \in Profiles : templates[p] # NoAnswer => AnswersFor(templates[p], p)

KindsAt(node) ==
    CASE node = "construct" -> {"construct"}
      [] node = "analyze" -> {"clarify", "batch", "aggregate"}
      [] node = "resolve" -> {"resume"}
      [] OTHER -> {}

GraphIsFounded ==
    /\ graph.frozen # Nothing => graph.frozen.kind \in KindsAt(graph.node)
    /\ graph.node = "construct" => agenda.question = "pending"
    /\ graph.node = "analyze" => agenda.question \in {"pending", "resolved"}
    /\ graph.node = "resolve" => graph.status = "waiting" \/ agenda.question # "pending"
    /\ graph.status = "blocked" <=> graph.node = "blocked"
    /\ graph.status = "waiting" => graph.node = "resolve"

\* A batch is claimed only while it is the frozen action.
ClaimsAreFrozen ==
    \A b \in DOMAIN modelBatches : Claimed(b) =>
        graph.frozen = [kind |-> "batch", members |-> MembersOf(b)]

\* A worker that holds the run is at its cursor; who is behind it stays behind.
CursorsAreOld(w) ==
    analyst[w].pc # "idle" =>
        /\ analyst[w].cursor <= graph.cursor
        /\ Holds(w) => Current(w)
        /\ Current(w) => graph.node \notin {"aggregate", "blocked"}

ActionsAreFrozen(w) ==
    analyst[w].pc \in ActingPc =>
        /\ analyst[w].action.kind # "none"
        /\ Current(w) => graph.frozen = analyst[w].action

\* What is offered was planned first, and aggregation is offered only when all
\* is answered or another action is frozen.
OffersAreFounded(w) ==
    /\ analyst[w].pc \in {"offer", "freeze"} /\ Current(w) /\ graph.node = "analyze" => Covered
    /\ analyst[w].pc = "freeze" =>
          /\ analyst[w].action.kind # "none"
          /\ Current(w) =>
                /\ analyst[w].action.kind \in KindsAt(graph.node)
                /\ analyst[w].action.kind = "aggregate" /\ graph.frozen \in {Nothing, Act("aggregate")} =>
                      /\ agenda.question = "resolved"
                      /\ \A i \in agenda.items : findings[i] # NoAnswer

BatchWorkIsFounded(w) ==
    analyst[w].pc \in BatchPc =>
        LET b == analyst[w].batch IN
        /\ b \in DOMAIN modelBatches
        /\ analyst[w].action = [kind |-> "batch", members |-> MembersOf(b)]
        /\ analyst[w].part \in Answerable
        /\ analyst[w].pc = "store" => analyst[w].part = "template"
        /\ analyst[w].pc = "finalize" => analyst[w].part = "rest"
        /\ analyst[w].part = "template" => TemplateItems(MembersOf(b)) # {}
        /\ analyst[w].part = "rest" /\ TemplateItems(MembersOf(b)) # {} =>
              AnswersFor(analyst[w].template, ProfileIn(MembersOf(b)))
        /\ Holds(w) => Unanswered(b)
        /\ Holds(w) /\ analyst[w].pc = "block" => NothingClaimed

CommitsAreFounded(w) ==
    analyst[w].pc = "commit" =>
        /\ analyst[w].action.kind = "batch" =>
              \E b \in DOMAIN modelBatches :
                  Completed(b) /\ MembersOf(b) = analyst[w].action.members
        /\ analyst[w].action.kind = "resume" => agenda.question = "resolved"

IterationIsFounded(w) ==
    /\ CursorsAreOld(w)
    /\ ActionsAreFrozen(w)
    /\ OffersAreFounded(w)
    /\ BatchWorkIsFounded(w)
    /\ CommitsAreFounded(w)

AnalysisInv ==
    /\ BatchAnalysisTypeOK
    /\ BatchesAreFounded
    /\ TemplatesAreFounded
    /\ GraphIsFounded
    /\ ClaimsAreFrozen
    /\ EveryItemIsAnalysed
    /\ \A w \in Analyst : IterationIsFounded(w)

-----------------------------------------------------------------------------
(* Batches cut from a set of items *)

LEMMA LeastNat ==
    ASSUME NEW T \in SUBSET Nat, T # {}
    PROVE  \E x \in T : \A y \in T : x <= y
<1>1. PICK x \in T : \A y \in T : ~(<<y, x>> \in OpToRel(<, Nat))
      BY WFMin, NatLessThanWellFounded
<1>2. \A y \in T : ~(y < x)
      BY <1>1 DEF OpToRel
<1> QED BY <1>2

LEMMA GreatestNat ==
    ASSUME NEW n \in Nat, NEW T \in SUBSET (0..n), T # {}
    PROVE  \E x \in T : \A y \in T : y <= x
<1> DEFINE R == {m \in Nat : \E x \in T : m + x = n}
<1>1. R # {} /\ R \in SUBSET Nat
  <2>1. PICK x \in T : TRUE
        OBVIOUS
  <2>2. n - x \in R
        BY <2>1
  <2> QED BY <2>2
<1>2. PICK m \in R : \A k \in R : m <= k
      BY <1>1, LeastNat
<1>3. PICK x \in T : m + x = n
      BY <1>2
<1>4. \A y \in T : y <= x
  <2> SUFFICES ASSUME NEW y \in T PROVE y <= x
      OBVIOUS
  <2>1. n - y \in R
        OBVIOUS
  <2>2. m <= n - y
        BY <1>2, <2>1
  <2> QED BY <1>2, <1>3, <2>2
<1> QED BY <1>4

\* A finite set listed as a sequence: each element once.
LEMMA Enumerated ==
    ASSUME NEW S, IsFiniteSet(S)
    PROVE  /\ SetToSeq(S) \in [1..Cardinality(S) -> S]
           /\ \A j, k \in 1..Cardinality(S) : SetToSeq(S)[j] = SetToSeq(S)[k] => j = k
           /\ \A x \in S : \E k \in 1..Cardinality(S) : SetToSeq(S)[k] = x
           /\ Cardinality(S) \in Nat
<1> DEFINE n == Cardinality(S)
           f == SetToSeq(S)
<1>1. n \in Nat /\ ExistsBijection(1..n, S)
      BY FS_CardinalityType
<1>2. PICK g \in Bijection(1..n, S) : TRUE
      BY <1>1 DEF ExistsBijection
<1>3. g \in [1..n -> S] /\ IsInjective(g)
      BY <1>2 DEF Bijection, Injection
<1>4. f \in [1..n -> S] /\ IsInjective(f)
      BY <1>3 DEF SetToSeq
<1>5. \A j, k \in 1..n : f[j] = f[k] => j = k
      BY <1>4 DEF IsInjective
<1>6. f \in Surjection(1..n, S)
  <2>1. f \in Injection(1..n, S)
        BY <1>4 DEF Injection
  <2>2. Cardinality(1..n) = n
        BY <1>1, FS_Interval
  <2> QED BY <2>1, <2>2, FS_Injection
<1>7. \A x \in S : \E k \in 1..n : f[k] = x
      BY <1>6 DEF Surjection
<1> QED BY <1>1, <1>4, <1>5, <1>7

\* The pieces of a set of items are a partition of it.
LEMMA PiecesPartition ==
    ASSUME NEW items \in SUBSET Item
    PROVE  /\ IsFiniteSet(Pieces(items))
           /\ \A P \in Pieces(items) : P # {} /\ P \subseteq items
           /\ \A P, Q \in Pieces(items) : P # Q => P \cap Q = {}
           /\ UNION Pieces(items) = items
<1> DEFINE block(i) == Place(items, i) \div agenda.size
           piece(i) == {j \in items : KindOfItem[j] = KindOfItem[i] /\ block(j) = block(i)}
           f == [i \in items |-> piece(i)]
<1>1. Pieces(items) = {piece(i) : i \in items}
      BY DEF Pieces
<1> HIDE DEF block
<1>2. \A i \in items : i \in piece(i) /\ piece(i) \subseteq items
      OBVIOUS
<1>3. \A i, j \in items : piece(i) \cap piece(j) # {} => piece(i) = piece(j)
      OBVIOUS
<1>4. IsFiniteSet(Pieces(items))
  <2>1. IsFiniteSet(items)
        BY FS_Subset, BatchAnalysisAssumption
  <2>2. f \in Surjection(items, Pieces(items))
        BY <1>1 DEF Surjection
  <2> QED BY <2>1, <2>2, FS_Surjection
<1> HIDE DEF piece
<1>5. \A P, Q \in Pieces(items) : P # Q => P \cap Q = {}
      BY <1>1, <1>3
<1>6. UNION Pieces(items) = items
      BY <1>1, <1>2
<1> QED BY <1>1, <1>2, <1>4, <1>5, <1>6

\* The items a template answers have one profile, and are some of the members.
LEMMA TemplateFacts ==
    ASSUME NEW M \in SUBSET Item
    PROVE  /\ TemplateItems(M) \subseteq M
           /\ TemplateItems(M) # {} =>
                /\ ProfileIn(M) \in Profiles
                /\ \A i \in TemplateItems(M) : ProfileOf[i] = ProfileIn(M)
<1> DEFINE group(p) == {i \in M : ProfileOf[i] = p}
           found == {p \in Profiles : group(p) # {}}
           larger(p) == \A q \in found : Cardinality(group(q)) <= Cardinality(group(p))
           chosen == CHOOSE p \in found : larger(p)
<1>1. TemplateItems(M) = IF found = {} THEN {} ELSE group(chosen)
      BY DEF TemplateItems
<1>2. SUFFICES ASSUME found # {}
               PROVE  /\ TemplateItems(M) \subseteq M
                      /\ TemplateItems(M) # {} =>
                           /\ ProfileIn(M) \in Profiles
                           /\ \A i \in TemplateItems(M) : ProfileOf[i] = ProfileIn(M)
      BY <1>1
<1>3. chosen \in found
  <2> DEFINE T == {Cardinality(group(q)) : q \in found}
  <2>1. IsFiniteSet(M) /\ Cardinality(M) \in Nat
        BY FS_Subset, FS_CardinalityType, BatchAnalysisAssumption
  <2>2. \A q \in found : Cardinality(group(q)) \in 0..Cardinality(M)
    <3> SUFFICES ASSUME NEW q \in found PROVE Cardinality(group(q)) \in 0..Cardinality(M)
        OBVIOUS
    <3>1. group(q) \in SUBSET M
          OBVIOUS
    <3> HIDE DEF group
    <3>2. IsFiniteSet(group(q)) /\ Cardinality(group(q)) <= Cardinality(M)
          BY <2>1, <3>1, FS_Subset
    <3>3. Cardinality(group(q)) \in Nat
          BY <3>2, FS_CardinalityType
    <3> QED BY <2>1, <3>2, <3>3
  <2> HIDE DEF group, found
  <2>3. T \in SUBSET (0..Cardinality(M)) /\ T # {}
        BY <1>2, <2>2
  <2>4. PICK x \in T : \A y \in T : y <= x
        BY <2>1, <2>3, GreatestNat
  <2>5. \E p \in found : larger(p)
        BY <2>4
  <2> HIDE DEF larger
  <2> QED BY <2>5
<1>4. TemplateItems(M) = {i \in M : ProfileOf[i] = chosen}
      BY <1>1, <1>2
<1> HIDE DEF chosen
<1>5. ASSUME TemplateItems(M) # {} PROVE ProfileIn(M) = chosen
      BY <1>4, <1>5 DEF ProfileIn
<1> QED BY <1>3, <1>4, <1>5

-----------------------------------------------------------------------------
(* Planning *)

\* What is requested and in no batch in use.
Missing(requested, gone) == requested \ (UNION {MembersOf(b) : b \in InUse \ gone})
Added == (DOMAIN modelBatches') \ DOMAIN modelBatches

\* The planner supersedes what is gone and adds a partition of what is missing.
LEMMA Planned ==
    ASSUME modelBatches \in Seq(Batches), NEW requested \in SUBSET Item,
           NEW gone \in SUBSET DOMAIN modelBatches, PlanBatches(requested, gone)
    PROVE  /\ modelBatches' \in Seq(Batches)
           /\ DOMAIN modelBatches \subseteq DOMAIN modelBatches'
           /\ \A b \in DOMAIN modelBatches :
                 modelBatches'[b] = IF b \in gone THEN Unleased(modelBatches[b], "superseded")
                                    ELSE modelBatches[b]
           /\ \A b \in Added :
                 /\ modelBatches'[b].status = "pending"
                 /\ modelBatches'[b].members # {}
                 /\ modelBatches'[b].members \subseteq Missing(requested, gone)
           /\ \A b, c \in Added :
                 b # c => modelBatches'[b].members \cap modelBatches'[c].members = {}
           /\ \A i \in Missing(requested, gone) : \E b \in Added : i \in modelBatches'[b].members
<1> DEFINE rest == Missing(requested, gone)
           new == SetToSeq(Pieces(rest))
           n == Cardinality(Pieces(rest))
           kept == [b \in DOMAIN modelBatches |->
                      IF b \in gone THEN Unleased(modelBatches[b], "superseded") ELSE modelBatches[b]]
           cut == [k \in DOMAIN new |-> [members |-> new[k], status |-> "pending", owner |-> "none"]]
           N == Len(modelBatches)
<1>1. Manifests(requested, gone) = new
      BY DEF Manifests, Missing
<1>2. modelBatches' = kept \o cut
      BY <1>1 DEF PlanBatches
<1>3. rest \in SUBSET Item
      BY DEF Missing
<1> HIDE DEF rest
<1>4. /\ IsFiniteSet(Pieces(rest))
      /\ \A P \in Pieces(rest) : P # {} /\ P \subseteq rest
      /\ \A P, Q \in Pieces(rest) : P # Q => P \cap Q = {}
      /\ UNION Pieces(rest) = rest
      BY <1>3, PiecesPartition
<1>5. /\ new \in [1..n -> Pieces(rest)]
      /\ \A j, k \in 1..n : new[j] = new[k] => j = k
      /\ \A P \in Pieces(rest) : \E k \in 1..n : new[k] = P
      /\ n \in Nat
      BY <1>4, Enumerated
<1> HIDE DEF new, n
<1>6. N \in Nat /\ DOMAIN modelBatches = 1..N /\ \A b \in 1..N : modelBatches[b] \in Batches
      OBVIOUS
<1>7. kept \in Seq(Batches) /\ Len(kept) = N /\ \A b \in 1..N : kept[b] =
          IF b \in gone THEN Unleased(modelBatches[b], "superseded") ELSE modelBatches[b]
  <2>1. \A b \in 1..N : Unleased(modelBatches[b], "superseded") \in Batches
    <3> SUFFICES ASSUME NEW b \in 1..N PROVE Unleased(modelBatches[b], "superseded") \in Batches
        OBVIOUS
    <3>1. modelBatches[b] \in Batches
          BY <1>6
    <3> QED BY <3>1 DEF Unleased, Batches
  <2>2. kept \in [1..N -> Batches]
        BY <1>6, <2>1
  <2> QED BY <1>6, <2>2
<1>8. cut \in Seq(Batches) /\ Len(cut) = n /\ \A k \in 1..n : cut[k] =
          [members |-> new[k], status |-> "pending", owner |-> "none"]
  <2>1. \A k \in 1..n : [members |-> new[k], status |-> "pending", owner |-> "none"] \in Batches
        BY <1>3, <1>4, <1>5 DEF Batches
  <2>2. cut \in [1..n -> Batches]
        BY <1>5, <2>1
  <2> QED BY <1>5, <2>2
<1> HIDE DEF kept, cut
<1>9. /\ modelBatches' \in Seq(Batches)
      /\ DOMAIN modelBatches' = 1..(N + n)
      /\ \A i \in 1..(N + n) : modelBatches'[i] = IF i <= N THEN kept[i] ELSE cut[i - N]
  <2>1. /\ kept \o cut \in Seq(Batches)
        /\ Len(kept \o cut) = Len(kept) + Len(cut)
        /\ \A i \in 1..(Len(kept) + Len(cut)) :
               (kept \o cut)[i] = IF i <= Len(kept) THEN kept[i] ELSE cut[i - Len(kept)]
        BY <1>7, <1>8, ConcatProperties
  <2>2. Len(kept) = N /\ Len(cut) = n
        BY <1>7, <1>8
  <2>3. modelBatches' \in Seq(Batches) /\ Len(modelBatches') = N + n
        BY <1>2, <2>1, <2>2
  <2> QED BY <1>2, <2>1, <2>2, <2>3
<1>10. Added = (N + 1)..(N + n)
       BY <1>5, <1>6, <1>9 DEF Added
<1>11. \A b \in Added : b - N \in 1..n /\ modelBatches'[b] =
           [members |-> new[b - N], status |-> "pending", owner |-> "none"]
       BY <1>5, <1>6, <1>8, <1>9, <1>10
<1>12. \A b \in Added : /\ modelBatches'[b].members = new[b - N]
                        /\ modelBatches'[b].status = "pending" /\ new[b - N] \in Pieces(rest)
   <2> SUFFICES ASSUME NEW b \in Added
               PROVE  /\ modelBatches'[b].members = new[b - N]
                      /\ modelBatches'[b].status = "pending" /\ new[b - N] \in Pieces(rest)
      OBVIOUS
  <2>1. b - N \in 1..n
        BY <1>11
  <2>2. modelBatches'[b] = [members |-> new[b - N], status |-> "pending", owner |-> "none"]
        BY <1>11
  <2>3. new[b - N] \in Pieces(rest)
        BY <1>5, <2>1
  <2> QED BY <2>2, <2>3
<1>13. \A b \in DOMAIN modelBatches : modelBatches'[b] =
           IF b \in gone THEN Unleased(modelBatches[b], "superseded") ELSE modelBatches[b]
       BY <1>5, <1>6, <1>7, <1>9
<1>14. \A b, c \in Added :
           b # c => modelBatches'[b].members \cap modelBatches'[c].members = {}
  <2> SUFFICES ASSUME NEW b \in Added, NEW c \in Added, b # c
               PROVE  modelBatches'[b].members \cap modelBatches'[c].members = {}
      OBVIOUS
  <2>1. b - N \in 1..n /\ c - N \in 1..n /\ b - N # c - N
        BY <1>5, <1>6, <1>10
  <2>2. new[b - N] # new[c - N]
        BY <1>5, <2>1
  <2> QED BY <1>4, <1>12, <2>2
<1>15. \A i \in rest : \E b \in Added : i \in modelBatches'[b].members
  <2> SUFFICES ASSUME NEW i \in rest PROVE \E b \in Added : i \in modelBatches'[b].members
      OBVIOUS
  <2>1. PICK P \in Pieces(rest) : i \in P
        BY <1>4
  <2>2. PICK k \in 1..n : new[k] = P
        BY <1>5
  <2>3. N + k \in Added /\ (N + k) - N = k
        BY <1>5, <1>6, <1>10
  <2>4. modelBatches'[N + k].members = new[k]
        BY <1>12, <2>3
  <2> QED BY <2>1, <2>2, <2>3, <2>4
<1>16. DOMAIN modelBatches \subseteq DOMAIN modelBatches'
       BY <1>5, <1>6, <1>9
<1> QED BY <1>4, <1>9, <1>12, <1>13, <1>14, <1>15, <1>16 DEF rest

-----------------------------------------------------------------------------
(* Types *)

Typed(w) == /\ analyst' \in [Analyst -> Iterations]
            /\ \A v \in Analyst \ {w} : analyst'[v] = analyst[v]

\* The worker lets the graph and its iteration go.
LetsGo(w) ==
    /\ graph' \in Graphs
    /\ graph'.node = graph.node /\ graph'.cursor = graph.cursor /\ graph'.frozen = graph.frozen
    /\ \A v \in Analyst : graph'.owner = v => graph.owner = v
    /\ Typed(w) /\ analyst'[w] = NoIteration

LEMMA NoIterationTyped == NoIteration \in Iterations
<1>1. NoAnswer \in Answers
      BY DEF NoAnswer, Answer, Answers
<1>2. Nothing \in Acts
      BY DEF Nothing, Acts
<1>3. 0 \in 0..MaxTries /\ 0 \in Nat /\ {} \in SUBSET Nat
      BY BatchAnalysisAssumption
<1>4. "idle" \in AnalysisPcs /\ "none" \in Answerable \cup {"none"}
      BY DEF AnalysisPcs
<1> QED BY <1>1, <1>2, <1>3, <1>4 DEF NoIteration, Iterations

LEMMA DropsLetsGo ==
    ASSUME BatchAnalysisTypeOK, NEW w \in Analyst, Drops(w)
    PROVE  LetsGo(w) /\ graph'.status = graph.status
<1>1. graph \in Graphs /\ analyst \in [Analyst -> Iterations]
      BY DEF BatchAnalysisTypeOK
<1>2. Typed(w) /\ analyst'[w] = NoIteration
      BY <1>1, NoIterationTyped DEF Drops, Typed
<1>3. graph' = GraphFreed(w)
      BY DEF Drops
<1>4. GraphFreed(w) \in Graphs /\ GraphFreed(w).node = graph.node
      /\ GraphFreed(w).cursor = graph.cursor /\ GraphFreed(w).frozen = graph.frozen
      /\ GraphFreed(w).status = graph.status
      /\ \A v \in Analyst : GraphFreed(w).owner = v => graph.owner = v
  <2>1. [graph EXCEPT !.owner = "none", !.live = FALSE] \in Graphs
        BY <1>1 DEF Graphs
  <2> QED BY <1>1, <2>1, BatchAnalysisAssumption DEF GraphFreed, Graphs
<1> QED BY <1>2, <1>3, <1>4 DEF LetsGo

LEMMA FailsLetsGo ==
    ASSUME BatchAnalysisTypeOK, NEW w \in Analyst, Fails(w)
    PROVE  LetsGo(w) /\ (graph'.status = graph.status \/ (Holds(w) /\ graph'.status = "failed"))
<1>1. graph \in Graphs /\ analyst \in [Analyst -> Iterations]
      BY DEF BatchAnalysisTypeOK
<1>2. Typed(w) /\ analyst'[w] = NoIteration
      BY <1>1, NoIterationTyped DEF Fails, Typed
<1>3. CASE ~Holds(w)
      BY <1>1, <1>2, <1>3 DEF Fails, LetsGo
<1>4. CASE Holds(w)
  <2>1. graph' = [[graph EXCEPT !.owner = "none", !.live = FALSE] EXCEPT !.status = "failed"]
        BY <1>4 DEF Fails, GraphFreed
  <2>2. graph' \in Graphs
        BY <1>1, <2>1 DEF Graphs
  <2> QED BY <1>1, <1>2, <1>4, <2>1, <2>2, BatchAnalysisAssumption DEF LetsGo, Graphs
<1> QED BY <1>3, <1>4

LEMMA GoesTyped ==
    ASSUME BatchAnalysisTypeOK, NEW w \in Analyst, NEW pc \in AnalysisPcs, Goes(w, pc)
    PROVE  Typed(w) /\ analyst'[w] = [analyst[w] EXCEPT !.pc = pc]
<1>1. analyst \in [Analyst -> Iterations]
      BY DEF BatchAnalysisTypeOK
<1>2. [analyst[w] EXCEPT !.pc = pc] \in Iterations
      BY <1>1 DEF Iterations
<1>3. analyst' = [analyst EXCEPT ![w] = [analyst[w] EXCEPT !.pc = pc]]
      BY DEF Goes
<1> QED BY <1>1, <1>2, <1>3 DEF Typed

LEMMA PartDoneTyped ==
    ASSUME BatchAnalysisTypeOK, NEW w \in Analyst, NEW templated \in Answers,
           PartDone(w, templated)
    PROVE  /\ Typed(w)
           /\ \E pc \in {"resume", "finalize"} :
                 analyst'[w] = [analyst[w] EXCEPT !.pc = pc, !.part = "rest", !.template = templated]
<1>1. analyst \in [Analyst -> Iterations]
      BY DEF BatchAnalysisTypeOK
<1>2. PICK pc \in {"resume", "finalize"} :
          analyst' = [analyst EXCEPT ![w] =
              [analyst[w] EXCEPT !.pc = pc, !.part = "rest", !.template = templated]]
      BY DEF PartDone
<1>3. pc \in AnalysisPcs /\ "rest" \in Answerable
      BY DEF AnalysisPcs, Answerable
<1>4. [analyst[w] EXCEPT !.pc = pc, !.part = "rest", !.template = templated] \in Iterations
      BY <1>1, <1>3 DEF Iterations
<1> QED BY <1>1, <1>2, <1>4 DEF Typed

-----------------------------------------------------------------------------
(* What a step of somebody else leaves to an iteration *)

MembersStay ==
    /\ DOMAIN modelBatches \subseteq DOMAIN modelBatches'
    /\ \A b \in DOMAIN modelBatches :
          /\ modelBatches'[b].members = modelBatches[b].members
          /\ Completed(b) => modelBatches'[b].status = "completed"

CursorMovesOn ==
    /\ graph.cursor <= graph'.cursor
    /\ graph'.cursor = graph.cursor =>
          /\ graph'.node = graph.node
          /\ graph'.frozen = graph.frozen \/ graph.frozen = Nothing

QuestionMovesOn ==
    /\ graph.node = "analyze" => agenda'.items = agenda.items
    /\ agenda.question = "resolved" => agenda'.question = "resolved"

FindingsStay == \A i \in Item : findings[i] # NoAnswer => findings'[i] # NoAnswer

HolderIsAlone(v) ==
    graph'.owner = v =>
        /\ graph.owner = v /\ graph'.cursor = graph.cursor
        /\ findings' = findings
        /\ \A b \in DOMAIN modelBatches' :
              modelBatches'[b].status = "claimed" =>
                  b \in DOMAIN modelBatches /\ Claimed(b)

LEMMA AnswersForStays ==
    ASSUME BatchAnalysisTypeOK, MembersStay, NEW a, NEW p, AnswersFor(a, p)
    PROVE  AnswersFor(a, p)'
<1>1. a.batch \in DOMAIN modelBatches' /\ modelBatches'[a.batch].members = modelBatches[a.batch].members
      BY DEF MembersStay, AnswersFor
<1> QED BY <1>1 DEF AnswersFor, MembersOf

LEMMA IterationStays ==
    ASSUME BatchAnalysisTypeOK, BatchAnalysisTypeOK', NEW v \in Analyst, IterationIsFounded(v),
           analyst'[v] = analyst[v],
           MembersStay, CursorMovesOn, QuestionMovesOn, FindingsStay, HolderIsAlone(v),
           graph.node = "analyze" /\ Covered => Covered'
    PROVE  IterationIsFounded(v)'
<1>1. graph \in Graphs /\ graph' \in Graphs /\ analyst[v] \in Iterations
      BY DEF BatchAnalysisTypeOK
<1>2. graph.cursor \in Nat /\ graph'.cursor \in Nat /\ analyst[v].cursor \in Nat
      BY <1>1 DEF Graphs, Iterations
<1>3. ASSUME analyst[v].pc # "idle", Current(v)'
      PROVE  /\ Current(v) /\ graph'.cursor = graph.cursor /\ graph'.node = graph.node
             /\ graph'.frozen = graph.frozen \/ graph.frozen = Nothing
  <2>1. analyst[v].cursor = graph'.cursor /\ analyst[v].cursor <= graph.cursor
        BY <1>3 DEF Current, IterationIsFounded, CursorsAreOld
  <2>2. graph'.cursor = graph.cursor
        BY <1>2, <2>1 DEF CursorMovesOn
  <2> QED BY <2>1, <2>2 DEF Current, CursorMovesOn
<1>4. Holds(v)' => Holds(v) /\ graph'.cursor = graph.cursor
      BY DEF Holds, HolderIsAlone
<1>5. CursorsAreOld(v)'
  <2> SUFFICES ASSUME analyst[v].pc # "idle"
               PROVE  /\ analyst[v].cursor <= graph'.cursor
                      /\ Holds(v)' => Current(v)'
                      /\ Current(v)' => graph'.node \notin {"aggregate", "blocked"}
      BY DEF CursorsAreOld
  <2>1. /\ analyst[v].cursor <= graph.cursor
        /\ Holds(v) => Current(v)
        /\ Current(v) => graph.node \notin {"aggregate", "blocked"}
        BY DEF IterationIsFounded, CursorsAreOld
  <2>2. analyst[v].cursor <= graph'.cursor
        BY <1>2, <2>1 DEF CursorMovesOn
  <2>3. Holds(v)' => Current(v)'
        BY <1>4, <2>1 DEF Current
  <2> QED BY <1>3, <2>1, <2>2, <2>3
<1>6. ActionsAreFrozen(v)'
  <2> SUFFICES ASSUME analyst[v].pc \in ActingPc
               PROVE  /\ analyst[v].action.kind # "none"
                      /\ Current(v)' => graph'.frozen = analyst[v].action
      BY DEF ActionsAreFrozen
  <2>1. analyst[v].pc # "idle"
        BY DEF ActingPc, BatchPc
  <2>2. analyst[v].action.kind # "none" /\ (Current(v) => graph.frozen = analyst[v].action)
        BY DEF IterationIsFounded, ActionsAreFrozen
  <2>3. Current(v)' => graph.frozen # Nothing
        BY <1>3, <2>1, <2>2 DEF Nothing
  <2> QED BY <1>3, <2>1, <2>2, <2>3
<1>7. OffersAreFounded(v)'
  <2>1. CASE analyst[v].pc \notin {"offer", "freeze"}
        BY <2>1 DEF OffersAreFounded
  <2>2. CASE analyst[v].pc \in {"offer", "freeze"}
    <3>1. analyst[v].pc # "idle"
          BY <2>2
    <3>2. Current(v)' /\ graph'.node = "analyze" => Covered'
      <4> SUFFICES ASSUME Current(v)', graph'.node = "analyze" PROVE Covered'
          OBVIOUS
      <4>1. Current(v) /\ graph.node = "analyze"
            BY <1>3, <3>1
      <4> QED BY <2>2, <4>1 DEF IterationIsFounded, OffersAreFounded
    <3>3. analyst[v].pc = "freeze" => analyst[v].action.kind # "none"
          BY DEF IterationIsFounded, OffersAreFounded
    <3>4. ASSUME analyst[v].pc = "freeze", Current(v)'
          PROVE  analyst[v].action.kind \in KindsAt(graph'.node)
      <4>1. analyst[v].action.kind \in KindsAt(graph.node)
            BY <1>3, <3>1, <3>4 DEF IterationIsFounded, OffersAreFounded
      <4> QED BY <1>3, <3>1, <3>4, <4>1
    <3>5. ASSUME analyst[v].pc = "freeze", Current(v)', analyst[v].action.kind = "aggregate",
                 graph'.frozen \in {Nothing, Act("aggregate")}
          PROVE  agenda'.question = "resolved" /\ \A i \in agenda'.items : findings'[i] # NoAnswer
      <4>1. Current(v) /\ graph.frozen \in {Nothing, Act("aggregate")}
            BY <1>3, <3>1, <3>5
      <4>2. "aggregate" \in KindsAt(graph.node) /\ agenda.question = "resolved"
            /\ \A i \in agenda.items : findings[i] # NoAnswer
            BY <3>5, <4>1 DEF IterationIsFounded, OffersAreFounded
      <4>3. graph.node = "analyze"
            BY <4>2 DEF KindsAt
      <4>4. agenda.items \subseteq Item
            BY DEF BatchAnalysisTypeOK, Agendas
      <4> QED BY <4>2, <4>3, <4>4 DEF QuestionMovesOn, FindingsStay
    <3> QED BY <3>2, <3>3, <3>4, <3>5 DEF OffersAreFounded
  <2> QED BY <2>1, <2>2
<1>8. BatchWorkIsFounded(v)'
  <2> DEFINE b == analyst[v].batch
             h == analyst[v]
  <2>1. SUFFICES ASSUME h.pc \in BatchPc
        PROVE  /\ b \in DOMAIN modelBatches'
               /\ h.action = [kind |-> "batch", members |-> MembersOf(b)']
               /\ h.part \in Answerable
               /\ h.pc = "store" => h.part = "template"
               /\ h.pc = "finalize" => h.part = "rest"
               /\ h.part = "template" => TemplateItems(MembersOf(b)') # {}
               /\ h.part = "rest" /\ TemplateItems(MembersOf(b)') # {} =>
                     AnswersFor(h.template, ProfileIn(MembersOf(b)))'
               /\ Holds(v)' => Unanswered(b)'
               /\ Holds(v)' /\ h.pc = "block" => NothingClaimed'
        BY DEF BatchWorkIsFounded
  <2>2. /\ b \in DOMAIN modelBatches
        /\ h.action = [kind |-> "batch", members |-> MembersOf(b)]
        /\ h.part \in Answerable
        /\ h.pc = "store" => h.part = "template"
        /\ h.pc = "finalize" => h.part = "rest"
        /\ h.part = "template" => TemplateItems(MembersOf(b)) # {}
        /\ h.part = "rest" /\ TemplateItems(MembersOf(b)) # {} =>
              AnswersFor(h.template, ProfileIn(MembersOf(b)))
        /\ Holds(v) => Unanswered(b)
        /\ Holds(v) /\ h.pc = "block" => NothingClaimed
        BY <2>1 DEF IterationIsFounded, BatchWorkIsFounded
  <2>3. b \in DOMAIN modelBatches' /\ MembersOf(b)' = MembersOf(b)
        BY <2>2 DEF MembersStay, MembersOf
  <2>4. Holds(v)' => Unanswered(b)'
        BY <1>4, <2>2, <2>3 DEF Unanswered, HolderIsAlone, Holds
  <2>5. Holds(v)' /\ h.pc = "block" => NothingClaimed'
        BY <1>4, <2>2 DEF NothingClaimed, HolderIsAlone, Holds, Claimed
  <2>6. ASSUME h.part = "rest", TemplateItems(MembersOf(b)) # {}
        PROVE  AnswersFor(h.template, ProfileIn(MembersOf(b)))'
    <3> DEFINE a == h.template
               p == ProfileIn(MembersOf(b))
    <3>1. AnswersFor(a, p)
          BY <2>2, <2>6
    <3>2. a.batch \in DOMAIN modelBatches' /\ modelBatches'[a.batch].members = modelBatches[a.batch].members
          BY <3>1 DEF MembersStay, AnswersFor
    <3>3. a' = a /\ p' = p
          BY <2>3
    <3> QED BY <3>1, <3>2, <3>3 DEF AnswersFor, MembersOf
  <2> HIDE DEF b, h
  <2> QED BY <2>2, <2>3, <2>4, <2>5, <2>6
<1>9. CommitsAreFounded(v)'
  <2> SUFFICES ASSUME analyst[v].pc = "commit"
               PROVE  /\ analyst[v].action.kind = "batch" =>
                           \E b \in DOMAIN modelBatches' :
                               Completed(b)' /\ MembersOf(b)' = analyst[v].action.members
                      /\ analyst[v].action.kind = "resume" => agenda'.question = "resolved"
      BY DEF CommitsAreFounded
  <2>1. /\ analyst[v].action.kind = "batch" =>
              \E b \in DOMAIN modelBatches :
                  Completed(b) /\ MembersOf(b) = analyst[v].action.members
        /\ analyst[v].action.kind = "resume" => agenda.question = "resolved"
        BY DEF IterationIsFounded, CommitsAreFounded
  <2>2. analyst[v].action.kind = "batch" =>
              \E b \in DOMAIN modelBatches' :
                  Completed(b)' /\ MembersOf(b)' = analyst[v].action.members
        BY <2>1 DEF MembersStay, Completed, MembersOf
  <2> QED BY <2>1, <2>2 DEF QuestionMovesOn
<1> QED BY <1>5, <1>6, <1>7, <1>8, <1>9 DEF IterationIsFounded

LEMMA IdleIsFounded ==
    ASSUME NEW w \in Analyst, analyst'[w] = NoIteration
    PROVE  IterationIsFounded(w)'
<1>1. analyst'[w].pc = "idle"
      BY DEF NoIteration
<1> QED BY <1>1 DEF IterationIsFounded, CursorsAreOld, ActionsAreFrozen, OffersAreFounded,
                    BatchWorkIsFounded, CommitsAreFounded, ActingPc, BatchPc

\* A step that leaves the work and its findings alone, and moves the graph at
\* most by giving the claim back or failing the run.
LEMMA Loosened ==
    ASSUME AnalysisInv, BatchAnalysisTypeOK', TemplatesAreFounded',
           UNCHANGED <<agenda, modelBatches, findings>>,
           graph'.node = graph.node, graph'.cursor = graph.cursor, graph'.frozen = graph.frozen,
           \A v \in Analyst : graph'.owner = v => graph.owner = v,
           graph'.status = graph.status \/ (graph'.status = "failed" /\ graph.node = "analyze"),
           \A v \in Analyst : analyst'[v] = analyst[v] \/ IterationIsFounded(v)'
    PROVE  AnalysisInv'
<1>1. BatchesAreFounded'
      BY DEF AnalysisInv, BatchesAreFounded, MembersOf
<1>2. GraphIsFounded'
      BY DEF AnalysisInv, GraphIsFounded, KindsAt
<1>3. ClaimsAreFrozen'
      BY DEF AnalysisInv, ClaimsAreFrozen, Claimed, MembersOf
<1>4. EveryItemIsAnalysed'
  <2>1. FindingsComeFromTheirBatch'
        BY DEF AnalysisInv, EveryItemIsAnalysed, FindingsComeFromTheirBatch, InUse, MembersOf
  <2>2. AggregationIsComplete'
        BY DEF AnalysisInv, EveryItemIsAnalysed, AggregationIsComplete
  <2>3. BlockedMeansUnanswered'
        BY DEF AnalysisInv, EveryItemIsAnalysed, BlockedMeansUnanswered
  <2> QED BY <2>1, <2>2, <2>3 DEF EveryItemIsAnalysed
<1>5. \A v \in Analyst : IterationIsFounded(v)'
  <2> SUFFICES ASSUME NEW v \in Analyst, analyst'[v] = analyst[v] PROVE IterationIsFounded(v)'
      OBVIOUS
  <2>1. MembersStay /\ QuestionMovesOn /\ FindingsStay /\ (Covered => Covered')
        BY DEF MembersStay, QuestionMovesOn, FindingsStay, Covered, Completed, MembersOf, InUse
  <2>2. BatchAnalysisTypeOK /\ IterationIsFounded(v)
        BY DEF AnalysisInv
  <2>3. CursorMovesOn
    <3>1. graph.cursor \in Nat
          BY <2>2 DEF BatchAnalysisTypeOK, Graphs
    <3> QED BY <3>1 DEF CursorMovesOn
  <2>4. HolderIsAlone(v)
        BY DEF HolderIsAlone, Claimed
  <2> QED BY <2>1, <2>2, <2>3, <2>4, IterationStays
<1> QED BY <1>1, <1>2, <1>3, <1>4, <1>5 DEF AnalysisInv

LEMMA TemplatesUntouched ==
    ASSUME AnalysisInv, UNCHANGED templates, MembersStay
    PROVE  TemplatesAreFounded'
<1>1. TemplatesAreFounded /\ BatchAnalysisTypeOK
      BY DEF AnalysisInv
<1>2. ASSUME NEW p \in Profiles, templates[p] # NoAnswer
      PROVE  AnswersFor(templates[p], p)'
  <2> DEFINE a == templates[p]
  <2>1. AnswersFor(a, p)
        BY <1>1, <1>2 DEF TemplatesAreFounded
  <2>2. a.batch \in DOMAIN modelBatches' /\ modelBatches'[a.batch].members = modelBatches[a.batch].members
        BY <2>1 DEF MembersStay, AnswersFor
  <2> QED BY <2>1, <2>2 DEF AnswersFor, MembersOf
<1> QED BY <1>2 DEF TemplatesAreFounded

LEMMA NothingMoves ==
    ASSUME UNCHANGED modelBatches
    PROVE  MembersStay
BY DEF MembersStay, Completed

\* An iteration that goes on with its batch.
WorkGoesOn(w) ==
    LET h == analyst[w]
        m == analyst'[w]
    IN  /\ h.pc \in BatchPc /\ m.pc \in BatchPc \ {"block"}
        /\ m.cursor = h.cursor /\ m.action = h.action /\ m.batch = h.batch
        /\ m.part \in Answerable
        /\ m.pc = "store" => m.part = "template"
        /\ m.pc = "finalize" => m.part = "rest"
        /\ m.part = "template" => h.part = "template"
        /\ \/ m.part = h.part /\ m.template = h.template
           \/ m.part = "rest" /\ AnswersFor(m.template, ProfileIn(MembersOf(h.batch)))
        /\ \A v \in Analyst \ {w} : analyst'[v] = analyst[v]

LEMMA WorkStaysFounded ==
    ASSUME AnalysisInv, BatchAnalysisTypeOK', TemplatesAreFounded',
           UNCHANGED <<graph, agenda, modelBatches, findings>>,
           NEW w \in Analyst, WorkGoesOn(w)
    PROVE  AnalysisInv'
<1> DEFINE h == analyst[w]
           m == analyst'[w]
           b == h.batch
<1>1. IterationIsFounded(w)
      BY DEF AnalysisInv
<1>2. /\ h.pc \in BatchPc
      /\ h.pc # "idle" /\ h.pc \in ActingPc /\ m.pc \in ActingPc /\ m.pc \in BatchPc
      /\ m.pc \notin {"offer", "freeze", "commit", "block"}
      BY DEF WorkGoesOn, BatchPc, ActingPc
<1>3. m.cursor = h.cursor /\ m.action = h.action /\ m.batch = b
      BY DEF WorkGoesOn
<1>4. CursorsAreOld(w)'
      BY <1>1, <1>2, <1>3 DEF IterationIsFounded, CursorsAreOld, Holds, Current
<1>5. ActionsAreFrozen(w)'
      BY <1>1, <1>2, <1>3 DEF IterationIsFounded, ActionsAreFrozen, Current
<1>6. OffersAreFounded(w)' /\ CommitsAreFounded(w)'
      BY <1>2 DEF OffersAreFounded, CommitsAreFounded
<1>7. BatchWorkIsFounded(w)'
  <2>1. /\ b \in DOMAIN modelBatches
        /\ h.action = [kind |-> "batch", members |-> MembersOf(b)]
        /\ h.part = "template" => TemplateItems(MembersOf(b)) # {}
        /\ h.part = "rest" /\ TemplateItems(MembersOf(b)) # {} =>
              AnswersFor(h.template, ProfileIn(MembersOf(b)))
        /\ Holds(w) => Unanswered(b)
        BY <1>1, <1>2 DEF IterationIsFounded, BatchWorkIsFounded
  <2>2. MembersOf(b)' = MembersOf(b)
        BY DEF MembersOf, WorkGoesOn
  <2>3. m.part = "rest" /\ TemplateItems(MembersOf(b)) # {} =>
              AnswersFor(m.template, ProfileIn(MembersOf(b)))
        BY <2>1 DEF WorkGoesOn
  <2>4. /\ m.part \in Answerable
        /\ m.pc = "store" => m.part = "template"
        /\ m.pc = "finalize" => m.part = "rest"
        /\ m.part = "template" => TemplateItems(MembersOf(b)) # {}
        BY <2>1 DEF WorkGoesOn
  <2> QED BY <1>2, <1>3, <2>1, <2>3, <2>4 DEF BatchWorkIsFounded, AnswersFor, Unanswered, MembersOf, Holds
<1>8. IterationIsFounded(w)'
      BY <1>4, <1>5, <1>6, <1>7 DEF IterationIsFounded
<1>9. \A v \in Analyst : analyst'[v] = analyst[v] \/ IterationIsFounded(v)'
      BY <1>8 DEF WorkGoesOn
<1> QED BY <1>9, Loosened

-----------------------------------------------------------------------------
(* Steps in the memory of one worker *)

TriesTyped ==
    /\ tries \in [Answerable -> [rows : Seq(Attempts), calls : Nat]]
    /\ \A p \in Answerable : Len(tries[p].rows) <= MaxTries

LEMMA MemoryTyped ==
    ASSUME BatchAnalysisTypeOK, UNCHANGED <<agenda, modelBatches, noted, findings>>,
           graph' \in Graphs, analyst' \in [Analyst -> Iterations],
           templates' \in [Profiles -> Answers], TriesTyped', mishaps' \in 0..MaxMishaps
    PROVE  BatchAnalysisTypeOK'
BY DEF BatchAnalysisTypeOK, TriesTyped

LEMMA TriesUntouched ==
    ASSUME BatchAnalysisTypeOK, UNCHANGED tries
    PROVE  TriesTyped'
BY DEF BatchAnalysisTypeOK, TriesTyped

\* What the work of a batch is about.
LEMMA WorkFacts ==
    ASSUME AnalysisInv, NEW w \in Analyst, analyst[w].pc \in BatchPc
    PROVE  /\ analyst \in [Analyst -> Iterations] /\ analyst[w] \in Iterations
           /\ analyst[w].batch \in DOMAIN modelBatches
           /\ MembersOf(analyst[w].batch) \in SUBSET Item
           /\ MembersOf(analyst[w].batch) # {}
           /\ analyst[w].part \in Answerable
           /\ analyst[w].part = "template" =>
                 ProfileIn(MembersOf(analyst[w].batch)) \in Profiles
           /\ analyst[w].part = "template" => TemplateItems(MembersOf(analyst[w].batch)) # {}
           /\ Answer(analyst[w].batch, "template") \in Answers
<1> DEFINE b == analyst[w].batch
<1>1. BatchAnalysisTypeOK /\ IterationIsFounded(w) /\ BatchesAreFounded
      BY DEF AnalysisInv
<1>2. b \in DOMAIN modelBatches /\ analyst[w].part \in Answerable
      /\ (analyst[w].part = "template" => TemplateItems(MembersOf(b)) # {})
      BY <1>1 DEF IterationIsFounded, BatchWorkIsFounded
<1>3. analyst \in [Analyst -> Iterations] /\ analyst[w] \in Iterations /\ b \in Nat
      BY <1>1 DEF BatchAnalysisTypeOK, Iterations
<1>4. modelBatches[b] \in Batches
      BY <1>1, <1>2 DEF BatchAnalysisTypeOK
<1>5. MembersOf(b) \in SUBSET Item /\ MembersOf(b) # {}
      BY <1>1, <1>2, <1>4 DEF Batches, MembersOf, BatchesAreFounded
<1>6. TemplateItems(MembersOf(b)) # {} => ProfileIn(MembersOf(b)) \in Profiles
      BY <1>5, TemplateFacts
<1>7. Answer(b, "template") \in Answers
      BY <1>3 DEF Answer, Answers, Answerable
<1> QED BY <1>2, <1>3, <1>5, <1>6, <1>7

LEMMA ReuseTemplateStep ==
    ASSUME AnalysisInv, NEW w \in Analyst, ReuseTemplate(w)
    PROVE  AnalysisInv'
<1> DEFINE b == analyst[w].batch
           p == ProfileIn(MembersOf(b))
<1>1. BatchAnalysisTypeOK /\ TemplatesAreFounded
      BY DEF AnalysisInv
<1>2. analyst[w].pc = "resume" /\ analyst[w].part = "template" /\ templates[p] # NoAnswer
      BY DEF ReuseTemplate, IsAt, NeedsModel
<1>3. analyst[w].pc \in BatchPc
      BY <1>2 DEF BatchPc
<1>4. p \in Profiles
      BY <1>2, <1>3, WorkFacts
<1>5. templates[p] \in Answers /\ AnswersFor(templates[p], p)
      BY <1>1, <1>2, <1>4 DEF BatchAnalysisTypeOK, TemplatesAreFounded
<1>6. PartDone(w, templates[p])
      BY DEF ReuseTemplate
<1>7. Typed(w) /\ \E pc \in {"resume", "finalize"} : analyst'[w] =
          [analyst[w] EXCEPT !.pc = pc, !.part = "rest", !.template = templates[p]]
      BY <1>1, <1>5, <1>6, PartDoneTyped
<1>8. UNCHANGED <<graph, agenda, modelBatches, tries, noted, templates, findings, mishaps>>
      BY DEF ReuseTemplate, runVars
<1>9. BatchAnalysisTypeOK'
  <2>1. TriesTyped'
        BY <1>1, <1>8, TriesUntouched
  <2> QED BY <1>1, <1>7, <1>8, <2>1, MemoryTyped DEF Typed, BatchAnalysisTypeOK
<1>10. TemplatesAreFounded'
       BY <1>8, NothingMoves, TemplatesUntouched
<1>11. WorkGoesOn(w)
  <2>1. analyst[w] \in Iterations
        BY <1>1 DEF BatchAnalysisTypeOK
  <2>2. PICK pc \in {"resume", "finalize"} : analyst'[w] =
            [analyst[w] EXCEPT !.pc = pc, !.part = "rest", !.template = templates[p]]
        BY <1>7
  <2>3. /\ analyst'[w].pc = pc /\ analyst'[w].part = "rest" /\ analyst'[w].template = templates[p]
        /\ analyst'[w].cursor = analyst[w].cursor /\ analyst'[w].action = analyst[w].action
        /\ analyst'[w].batch = b
        BY <2>1, <2>2 DEF Iterations
  <2>4. pc \in BatchPc \ {"block"} /\ "rest" \in Answerable
        BY DEF BatchPc, Answerable
  <2> QED BY <1>3, <1>5, <1>7, <2>3, <2>4 DEF WorkGoesOn, Typed
<1> QED BY <1>8, <1>9, <1>10, <1>11, WorkStaysFounded

LEMMA StoreTemplateStep ==
    ASSUME AnalysisInv, NEW w \in Analyst, StoreTemplate(w)
    PROVE  AnalysisInv'
<1> DEFINE b == analyst[w].batch
           p == ProfileIn(MembersOf(b))
           own == Answer(b, "template")
<1>1. BatchAnalysisTypeOK /\ TemplatesAreFounded /\ IterationIsFounded(w)
      BY DEF AnalysisInv
<1>2. analyst[w].pc = "store" /\ analyst[w].pc \in BatchPc
      BY DEF StoreTemplate, IsAt, BatchPc
<1>3. analyst[w].part = "template"
      BY <1>1, <1>2 DEF IterationIsFounded, BatchWorkIsFounded
<1>4. p \in Profiles /\ b \in DOMAIN modelBatches /\ TemplateItems(MembersOf(b)) # {} /\ own \in Answers
      BY <1>2, <1>3, WorkFacts
<1>5. AnswersFor(own, p)
      BY <1>4 DEF AnswersFor, Answer
<1>6. PartDone(w, own) /\ templates' = [templates EXCEPT ![p] = IF templates[p] = NoAnswer THEN own ELSE templates[p]]
      BY DEF StoreTemplate
<1>7. Typed(w) /\ \E pc \in {"resume", "finalize"} : analyst'[w] =
          [analyst[w] EXCEPT !.pc = pc, !.part = "rest", !.template = own]
      BY <1>1, <1>4, <1>6, PartDoneTyped
<1>8. UNCHANGED <<graph, agenda, modelBatches, tries, noted, findings, mishaps>>
      BY DEF StoreTemplate, runVars
<1> HIDE DEF own
<1>9. BatchAnalysisTypeOK'
  <2>1. TriesTyped'
        BY <1>1, <1>8, TriesUntouched
  <2>2. templates' \in [Profiles -> Answers]
        BY <1>1, <1>4, <1>6 DEF BatchAnalysisTypeOK
  <2> QED BY <1>1, <1>7, <1>8, <2>1, <2>2, MemoryTyped DEF Typed, BatchAnalysisTypeOK
<1>10. TemplatesAreFounded'
  <2>1. templates \in [Profiles -> Answers]
        BY <1>1 DEF BatchAnalysisTypeOK
  <2>2. ASSUME NEW q \in Profiles, templates'[q] # NoAnswer
        PROVE  AnswersFor(templates'[q], q)
        BY <1>1, <1>5, <1>6, <2>1, <2>2 DEF TemplatesAreFounded
  <2> QED BY <1>8, <2>2 DEF TemplatesAreFounded, AnswersFor, MembersOf
<1>11. WorkGoesOn(w)
  <2>1. analyst[w] \in Iterations
        BY <1>1 DEF BatchAnalysisTypeOK
  <2>2. PICK pc \in {"resume", "finalize"} : analyst'[w] =
            [analyst[w] EXCEPT !.pc = pc, !.part = "rest", !.template = own]
        BY <1>7
  <2>3. /\ analyst'[w].pc = pc /\ analyst'[w].part = "rest" /\ analyst'[w].template = own
        /\ analyst'[w].cursor = analyst[w].cursor /\ analyst'[w].action = analyst[w].action
        /\ analyst'[w].batch = b
        BY <2>1, <2>2 DEF Iterations
  <2>4. pc \in BatchPc \ {"block"} /\ "rest" \in Answerable
        BY DEF BatchPc, Answerable
  <2> QED BY <1>2, <1>5, <1>7, <2>3, <2>4 DEF WorkGoesOn, Typed
<1> QED BY <1>8, <1>9, <1>10, <1>11, WorkStaysFounded

-----------------------------------------------------------------------------
(* Invocations *)

InvocationGoesOn(w) ==
    LET h == analyst[w]
        m == analyst'[w]
    IN  /\ m.pc \in BatchPc \ {"block"}
        /\ m.cursor = h.cursor /\ m.action = h.action /\ m.batch = h.batch
        /\ m.part = h.part /\ m.template = h.template
        /\ m.pc = "store" => m.part = "template"
        /\ m.pc = "finalize" => m.part = "rest"

LEMMA InvocationStays ==
    ASSUME AnalysisInv, NEW w \in Analyst, analyst[w].pc \in BatchPc,
           UNCHANGED <<graph, agenda, modelBatches, noted, templates, findings, mishaps>>,
           TriesTyped', Typed(w), InvocationGoesOn(w)
    PROVE  AnalysisInv'
<1>1. BatchAnalysisTypeOK
      BY DEF AnalysisInv
<1>2. BatchAnalysisTypeOK'
      BY <1>1, MemoryTyped DEF Typed, BatchAnalysisTypeOK
<1>3. TemplatesAreFounded'
      BY NothingMoves, TemplatesUntouched
<1>4. analyst[w].part \in Answerable
      BY WorkFacts
<1>5. WorkGoesOn(w)
      BY <1>4 DEF WorkGoesOn, InvocationGoesOn, Typed
<1> QED BY <1>2, <1>3, <1>5, WorkStaysFounded

\* Any change of the part, the cursor and the batch of an iteration is none of
\* an invocation's.
LEMMA GoesOn ==
    ASSUME BatchAnalysisTypeOK, NEW w \in Analyst, NEW pc \in BatchPc \ {"block", "store", "finalize"},
           Goes(w, pc)
    PROVE  Typed(w) /\ InvocationGoesOn(w)
<1>1. pc \in AnalysisPcs
      BY DEF BatchPc, AnalysisPcs
<1>2. Typed(w) /\ analyst'[w] = [analyst[w] EXCEPT !.pc = pc]
      BY <1>1, GoesTyped
<1>3. analyst[w] \in Iterations
      BY DEF BatchAnalysisTypeOK
<1> QED BY <1>2, <1>3 DEF InvocationGoesOn, Iterations

LEMMA AnsweredGoesOn ==
    ASSUME BatchAnalysisTypeOK, NEW w \in Analyst, analyst[w].part \in Answerable, Answered(w)
    PROVE  Typed(w) /\ InvocationGoesOn(w)
<1> DEFINE pc == IF analyst[w].part = "template" THEN "store" ELSE "finalize"
<1>1. pc \in AnalysisPcs /\ pc \in BatchPc \ {"block"}
      BY DEF BatchPc, AnalysisPcs
<1>2. Goes(w, pc)
      BY DEF Answered
<1>3. pc = "store" => analyst[w].part = "template"
      OBVIOUS
<1>4. pc = "finalize" => analyst[w].part = "rest"
      BY DEF Answerable
<1> HIDE DEF pc
<1>5. Typed(w) /\ analyst'[w] = [analyst[w] EXCEPT !.pc = pc]
      BY <1>1, <1>2, GoesTyped
<1>6. analyst[w] \in Iterations
      BY DEF BatchAnalysisTypeOK
<1> QED BY <1>1, <1>3, <1>4, <1>5, <1>6 DEF InvocationGoesOn, Iterations

\* A row of an attempt may be replaced.
LEMMA RowTyped ==
    ASSUME NEW rows \in Seq(Attempts), NEW n, NEW r \in Attempts
    PROVE  [rows EXCEPT ![n] = r] \in Seq(Attempts) /\ Len([rows EXCEPT ![n] = r]) = Len(rows)
<1> DEFINE m == Len(rows)
           new == [rows EXCEPT ![n] = r]
<1>1. m \in Nat /\ rows \in [1..m -> Attempts]
      OBVIOUS
<1>2. new \in [1..m -> Attempts]
      BY <1>1
<1> HIDE DEF m, new
<1>3. new \in Seq(Attempts) /\ Len(new) = m
      BY <1>1, <1>2
<1> QED BY <1>3 DEF m, new

LEMMA ClosedTyped ==
    ASSUME BatchAnalysisTypeOK, NEW w \in Analyst, analyst[w].part \in Answerable,
           NEW status \in {"completed", "failed"}, NEW told \in 0..MaxTries,
           Closed(w, status, told)
    PROVE  TriesTyped'
<1> DEFINE p == analyst[w].part
           r == AttemptRow(status, told)
           rows == tries[p].rows
           n == analyst[w].try
<1>1. TriesTyped
      BY DEF BatchAnalysisTypeOK, TriesTyped
<1>2. CASE ~Current(w)
      BY <1>1, <1>2 DEF Closed, TriesTyped
<1>3. CASE Current(w)
  <2>1. r \in Attempts
        BY DEF AttemptRow, Attempts
  <2>2. rows \in Seq(Attempts) /\ Len(rows) <= MaxTries /\ tries[p].calls \in Nat
        BY <1>1 DEF TriesTyped
  <2>3. [rows EXCEPT ![n] = r] \in Seq(Attempts) /\ Len([rows EXCEPT ![n] = r]) = Len(rows)
        BY <2>1, <2>2, RowTyped
  <2>4. tries' = [tries EXCEPT ![p] = [tries[p] EXCEPT !.rows = [rows EXCEPT ![n] = r]]]
        BY <1>3 DEF Closed
  <2> DEFINE new == [rows EXCEPT ![n] = r]
  <2> HIDE DEF new
  <2>5. [tries[p] EXCEPT !.rows = new] \in [rows : Seq(Attempts), calls : Nat]
        /\ [tries[p] EXCEPT !.rows = new].rows = new
        BY <1>1, <2>3 DEF TriesTyped, new
  <2>6. \A q \in Answerable : tries'[q] = IF q = p THEN [tries[p] EXCEPT !.rows = new] ELSE tries[q]
        BY <1>1, <2>4 DEF TriesTyped, new
  <2>7. tries' \in [Answerable -> [rows : Seq(Attempts), calls : Nat]]
        BY <1>1, <2>4, <2>5 DEF TriesTyped, new
  <2>8. \A q \in Answerable : Len(tries'[q].rows) <= MaxTries
        BY <1>1, <2>2, <2>3, <2>5, <2>6 DEF TriesTyped, new
  <2> QED BY <2>7, <2>8 DEF TriesTyped
<1> QED BY <1>2, <1>3

LEMMA ModelAnswersStep ==
    ASSUME AnalysisInv, NEW w \in Analyst, ModelAnswers(w)
    PROVE  AnalysisInv'
<1>1. BatchAnalysisTypeOK /\ analyst[w].pc \in BatchPc
      BY DEF AnalysisInv, ModelAnswers, IsAt, BatchPc
<1>2. analyst[w].part \in Answerable
      BY <1>1, WorkFacts
<1>3. 0 \in 0..MaxTries
      BY BatchAnalysisAssumption
<1>4. TriesTyped'
      BY <1>1, <1>2, <1>3, ClosedTyped DEF ModelAnswers
<1>5. Typed(w) /\ InvocationGoesOn(w)
      BY <1>1, <1>2, AnsweredGoesOn DEF ModelAnswers
<1>6. UNCHANGED <<graph, agenda, modelBatches, noted, templates, findings, mishaps>>
      BY DEF ModelAnswers, runVars
<1> QED BY <1>1, <1>4, <1>5, <1>6, InvocationStays

LEMMA ReplayCallsStep ==
    ASSUME AnalysisInv, NEW w \in Analyst, ReplayCalls(w)
    PROVE  AnalysisInv'
<1>1. BatchAnalysisTypeOK /\ analyst[w].pc \in BatchPc
      BY DEF AnalysisInv, ReplayCalls, IsAt, BatchPc
<1>2. "model" \in BatchPc \ {"block", "store", "finalize"}
      BY DEF BatchPc
<1>3. Typed(w) /\ InvocationGoesOn(w)
      BY <1>1, <1>2, GoesOn DEF ReplayCalls
<1>4. UNCHANGED <<graph, agenda, modelBatches, tries, noted, templates, findings, mishaps>>
      BY DEF ReplayCalls, runVars
<1> QED BY <1>1, <1>3, <1>4, TriesUntouched, InvocationStays

LEMMA ToolIsRefusedStep ==
    ASSUME AnalysisInv, NEW w \in Analyst, ToolIsRefused(w)
    PROVE  AnalysisInv'
<1>1. BatchAnalysisTypeOK /\ analyst[w].pc \in BatchPc
      BY DEF AnalysisInv, ToolIsRefused, IsAt, BatchPc
<1>2. analyst[w].part \in Answerable /\ 0 \in 0..MaxTries
      BY <1>1, WorkFacts, BatchAnalysisAssumption
<1>3. TriesTyped'
      BY <1>1, <1>2, ClosedTyped DEF ToolIsRefused
<1>4. "release" \in BatchPc \ {"block", "store", "finalize"}
      BY DEF BatchPc
<1>5. Typed(w) /\ InvocationGoesOn(w)
      BY <1>1, <1>4, GoesOn DEF ToolIsRefused
<1>6. UNCHANGED <<graph, agenda, modelBatches, noted, templates, findings, mishaps>>
      BY DEF ToolIsRefused, runVars
<1> QED BY <1>1, <1>3, <1>5, <1>6, InvocationStays

LEMMA AttemptFailsStep ==
    ASSUME AnalysisInv, NEW w \in Analyst, AttemptFails(w)
    PROVE  AnalysisInv'
<1> DEFINE h == analyst[w]
<1>1. BatchAnalysisTypeOK /\ h.pc \in {"model", "replay"} /\ h.pc \in BatchPc
      BY DEF AnalysisInv, AttemptFails, IsAt, BatchPc
<1>2. /\ analyst \in [Analyst -> Iterations] /\ h \in Iterations /\ h.part \in Answerable
      /\ 0 \in 0..MaxTries /\ h.try \in 0..MaxTries
      BY <1>1, WorkFacts, BatchAnalysisAssumption DEF Iterations
<1>3. PICK told \in {0, h.try} : Closed(w, "failed", told) /\ Again(w, told)
      BY DEF AttemptFails
<1>4. told \in 0..MaxTries
      BY <1>2
<1>5. TriesTyped'
      BY <1>1, <1>2, <1>3, <1>4, ClosedTyped
<1>6. Typed(w) /\ InvocationGoesOn(w)
  <2>1. CASE h.try = MaxTries
    <3>1. analyst' = [analyst EXCEPT ![w] = [h EXCEPT !.pc = "release"]]
          BY <1>3, <2>1 DEF Again
    <3>2. [h EXCEPT !.pc = "release"] \in Iterations
          BY <1>2 DEF Iterations, AnalysisPcs
    <3> QED BY <1>2, <3>1, <3>2 DEF Typed, InvocationGoesOn, Iterations, BatchPc
  <2>2. CASE h.try # MaxTries
    <3> DEFINE m == [h EXCEPT !.pc = "record", !.try = h.try + 1, !.told = told, !.open = {}]
    <3>1. analyst' = [analyst EXCEPT ![w] = m]
          BY <1>3, <2>2 DEF Again
    <3>2. h.try + 1 \in 0..MaxTries
          BY <1>2, <2>2, BatchAnalysisAssumption
    <3>3. m \in Iterations
          BY <1>2, <1>4, <3>2 DEF Iterations, AnalysisPcs
    <3>4. m.pc = "record" /\ m.cursor = h.cursor /\ m.action = h.action /\ m.batch = h.batch
          /\ m.part = h.part /\ m.template = h.template
          BY <1>2 DEF Iterations
    <3> HIDE DEF m
    <3> QED BY <1>2, <3>1, <3>3, <3>4 DEF Typed, InvocationGoesOn, BatchPc
  <2> QED BY <2>1, <2>2
<1>7. UNCHANGED <<graph, agenda, modelBatches, noted, templates, findings, mishaps>>
      BY DEF AttemptFails, runVars
<1> QED BY <1>1, <1>5, <1>6, <1>7, InvocationStays

LEMMA CallToolStep ==
    ASSUME AnalysisInv, NEW w \in Analyst, CallTool(w)
    PROVE  AnalysisInv'
<1> DEFINE h == analyst[w]
           p == h.part
           r == [tries[p] EXCEPT !.calls = tries[p].calls + 1]
<1>1. BatchAnalysisTypeOK /\ h.pc = "model" /\ h.pc \in BatchPc
      BY DEF AnalysisInv, CallTool, IsAt, BatchPc
<1>2. analyst \in [Analyst -> Iterations] /\ h \in Iterations /\ p \in Answerable
      BY <1>1, WorkFacts
<1>3. TriesTyped'
  <2>1. TriesTyped
        BY <1>1 DEF BatchAnalysisTypeOK, TriesTyped
  <2>2. tries' = [tries EXCEPT ![p] = r]
        BY DEF CallTool
  <2>3. r \in [rows : Seq(Attempts), calls : Nat] /\ r.rows = tries[p].rows
        BY <1>2, <2>1 DEF TriesTyped
  <2> HIDE DEF r
  <2> QED BY <1>2, <2>1, <2>2, <2>3 DEF TriesTyped
<1>4. Typed(w) /\ InvocationGoesOn(w)
  <2> DEFINE m == [h EXCEPT !.used = h.used + 1]
  <2>1. analyst' = [analyst EXCEPT ![w] = m]
        BY DEF CallTool
  <2>2. m \in Iterations
        BY <1>2 DEF Iterations
  <2>3. m.pc = "model" /\ m.cursor = h.cursor /\ m.action = h.action /\ m.batch = h.batch
        /\ m.part = h.part /\ m.template = h.template
        BY <1>1, <1>2 DEF Iterations
  <2> HIDE DEF m
  <2> QED BY <1>2, <2>1, <2>2, <2>3 DEF Typed, InvocationGoesOn, BatchPc
<1>5. UNCHANGED <<graph, agenda, modelBatches, noted, templates, findings, mishaps>>
      BY DEF CallTool, runVars
<1> QED BY <1>1, <1>3, <1>4, <1>5, InvocationStays

\* A worker that gives up its iteration, and the graph with it.
LEMMA Leaves ==
    ASSUME AnalysisInv, NEW w \in Analyst, LetsGo(w),
           graph'.status = graph.status \/ (graph'.status = "failed" /\ graph.node = "analyze"),
           UNCHANGED <<agenda, modelBatches, noted, templates, findings>>,
           TriesTyped', mishaps' \in 0..MaxMishaps
    PROVE  AnalysisInv'
<1>1. BatchAnalysisTypeOK
      BY DEF AnalysisInv
<1>2. BatchAnalysisTypeOK'
      BY <1>1, MemoryTyped DEF LetsGo, Typed, BatchAnalysisTypeOK
<1>3. TemplatesAreFounded'
      BY NothingMoves, TemplatesUntouched
<1>4. \A v \in Analyst : analyst'[v] = analyst[v] \/ IterationIsFounded(v)'
      BY IdleIsFounded DEF LetsGo, Typed
<1>5. /\ graph'.node = graph.node /\ graph'.cursor = graph.cursor /\ graph'.frozen = graph.frozen
      /\ \A v \in Analyst : graph'.owner = v => graph.owner = v
      BY DEF LetsGo
<1> QED BY <1>2, <1>3, <1>4, <1>5, Loosened

LEMMA DropsStep ==
    ASSUME AnalysisInv, NEW w \in Analyst, Drops(w),
           UNCHANGED <<agenda, modelBatches, noted, templates, findings, tries>>,
           mishaps' \in 0..MaxMishaps
    PROVE  AnalysisInv'
<1>1. BatchAnalysisTypeOK
      BY DEF AnalysisInv
<1> QED BY <1>1, DropsLetsGo, TriesUntouched, Leaves

\* Only a worker whose action is frozen at analyze fails the run.
LEMMA FailsStep ==
    ASSUME AnalysisInv, NEW w \in Analyst, Fails(w), analyst[w].pc \in ActingPc,
           analyst[w].action.kind \in {"batch", "clarify"},
           UNCHANGED <<agenda, modelBatches, noted, templates, findings, tries, mishaps>>
    PROVE  AnalysisInv'
<1>1. BatchAnalysisTypeOK /\ GraphIsFounded /\ IterationIsFounded(w)
      BY DEF AnalysisInv
<1>2. ASSUME Holds(w) PROVE graph.node = "analyze"
  <2>1. Current(w) /\ graph.frozen = analyst[w].action
        BY <1>1, <1>2 DEF IterationIsFounded, CursorsAreOld, ActionsAreFrozen, ActingPc, BatchPc
  <2>2. graph.frozen.kind \in KindsAt(graph.node)
        BY <1>1, <2>1 DEF GraphIsFounded, Nothing
  <2> QED BY <2>1, <2>2 DEF KindsAt
<1>3. mishaps' \in 0..MaxMishaps
      BY <1>1 DEF BatchAnalysisTypeOK
<1> QED BY <1>1, <1>2, <1>3, FailsLetsGo, TriesUntouched, Leaves

LEMMA ResumeInvocationStep ==
    ASSUME AnalysisInv, NEW w \in Analyst, ResumeInvocation(w)
    PROVE  AnalysisInv'
<1> DEFINE h == analyst[w]
           rows == Mine(w)
           with(status) == {n \in DOMAIN rows : rows[n].status = status}
           told == {rows[n].told : n \in DOMAIN rows} \cup {0}
           latest == CHOOSE n \in told : \A m \in told : m <= n
<1>1. BatchAnalysisTypeOK /\ h.pc = "resume" /\ h.pc \in BatchPc
      BY DEF AnalysisInv, ResumeInvocation, IsAt, BatchPc
<1>2. analyst \in [Analyst -> Iterations] /\ h \in Iterations /\ h.part \in Answerable
      BY <1>1, WorkFacts
<1>3. UNCHANGED <<graph, agenda, modelBatches, tries, noted, templates, findings, mishaps>>
      BY DEF ResumeInvocation, runVars
<1>4. rows \in Seq(Attempts) /\ Len(rows) <= MaxTries /\ Len(rows) \in Nat
      BY <1>1, <1>2 DEF BatchAnalysisTypeOK, Mine
<1>5. latest \in 0..MaxTries
  <2>1. \A n \in DOMAIN rows : rows[n].told \in 0..MaxTries
    <3> SUFFICES ASSUME NEW n \in DOMAIN rows PROVE rows[n].told \in 0..MaxTries
        OBVIOUS
    <3>1. rows[n] \in Attempts
          BY <1>4
    <3> QED BY <3>1 DEF Attempts
  <2>2. told \in SUBSET (0..MaxTries) /\ told # {} /\ MaxTries \in Nat
        BY <2>1, BatchAnalysisAssumption
  <2> HIDE DEF told
  <2>3. \E n \in told : \A m \in told : m <= n
        BY <2>2, GreatestNat
  <2> QED BY <2>2, <2>3
<1>6. with("running") \in SUBSET Nat
      BY <1>4
<1> DEFINE m == [h EXCEPT !.pc = "record", !.try = Len(rows) + 1, !.told = latest,
                          !.open = with("running")]
<1>7. \/ Answered(w)
      \/ Goes(w, "release")
      \/ Len(rows) # MaxTries /\ analyst' = [analyst EXCEPT ![w] = m]
  <2> HIDE DEF m, latest, told
  <2>1. CASE with("completed") # {}
        BY <2>1 DEF ResumeInvocation
  <2>2. CASE with("completed") = {} /\ Len(rows) = MaxTries
        BY <2>2 DEF ResumeInvocation
  <2>3. CASE with("completed") = {} /\ Len(rows) # MaxTries
    <3>1. analyst' = [analyst EXCEPT ![w] = m]
          BY <2>3 DEF ResumeInvocation, m, latest, told
    <3> QED BY <2>3, <3>1
  <2> QED BY <2>1, <2>2, <2>3
<1>8. Typed(w) /\ InvocationGoesOn(w)
  <2>1. CASE Answered(w)
        BY <1>1, <1>2, <2>1, AnsweredGoesOn
  <2>2. CASE Goes(w, "release")
    <3>1. "release" \in BatchPc \ {"block", "store", "finalize"}
          BY DEF BatchPc
    <3> QED BY <1>1, <2>2, <3>1, GoesOn
  <2>3. CASE Len(rows) # MaxTries /\ analyst' = [analyst EXCEPT ![w] = m]
    <3> HIDE DEF latest, rows
    <3>1. Len(rows) + 1 \in 0..MaxTries
          BY <1>4, <2>3, BatchAnalysisAssumption
    <3>2. m \in Iterations
          BY <1>2, <1>5, <1>6, <3>1 DEF Iterations, AnalysisPcs
    <3>3. m.pc = "record" /\ m.cursor = h.cursor /\ m.action = h.action /\ m.batch = h.batch
          /\ m.part = h.part /\ m.template = h.template
          BY <1>2 DEF Iterations
    <3> HIDE DEF m
    <3> QED BY <1>2, <2>3, <3>2, <3>3 DEF Typed, InvocationGoesOn, BatchPc
  <2> QED BY <1>7, <2>1, <2>2, <2>3
<1> QED BY <1>1, <1>3, <1>8, TriesUntouched, InvocationStays

LEMMA RecordInvocationStep ==
    ASSUME AnalysisInv, NEW w \in Analyst, RecordInvocation(w)
    PROVE  AnalysisInv'
<1> DEFINE h == analyst[w]
           p == h.part
           rows == Interrupted(Mine(w), h.open)
           there == h.try <= Len(rows)
           calls == tries[p].calls
           next == IF there THEN rows ELSE Append(rows, AttemptRow("running", h.told))
           pc == IF calls > 0 THEN "replay" ELSE "model"
           m == [h EXCEPT !.pc = pc, !.used = calls]
<1>1. BatchAnalysisTypeOK /\ h.pc = "record" /\ h.pc \in BatchPc
      BY DEF AnalysisInv, RecordInvocation, IsAt, BatchPc
<1>2. analyst \in [Analyst -> Iterations] /\ h \in Iterations /\ p \in Answerable
      BY <1>1, WorkFacts
<1>3. UNCHANGED <<agenda, modelBatches, noted, templates, findings, mishaps>>
      BY DEF RecordInvocation
<1>4. Mine(w) \in Seq(Attempts) /\ Len(Mine(w)) <= MaxTries /\ calls \in Nat
      BY <1>1, <1>2 DEF BatchAnalysisTypeOK, Mine
<1>5. rows \in Seq(Attempts) /\ Len(rows) = Len(Mine(w))
  <2> DEFINE old == Mine(w)
             n == Len(old)
  <2>1. n \in Nat /\ DOMAIN old = 1..n /\ \A k \in 1..n : old[k] \in Attempts
        BY <1>4
  <2> HIDE DEF old, n
  <2>2. \A k \in 1..n : AttemptRow("failed", old[k].told) \in Attempts
        BY <2>1 DEF AttemptRow, Attempts
  <2>3. Interrupted(old, h.open) \in [1..n -> Attempts]
        BY <2>1, <2>2 DEF Interrupted
  <2>4. Interrupted(old, h.open) \in Seq(Attempts) /\ Len(Interrupted(old, h.open)) = n
        BY <2>1, <2>3
  <2> QED BY <2>4 DEF old, n
<1>6. \/ Drops(w) /\ UNCHANGED tries
      \/ /\ tries' = [tries EXCEPT ![p].rows = next]
         /\ analyst' = [analyst EXCEPT ![w] = m] /\ UNCHANGED graph
      BY DEF RecordInvocation
<1>7. CASE Drops(w) /\ UNCHANGED tries
  <2>1. mishaps' \in 0..MaxMishaps
        BY <1>1, <1>3 DEF BatchAnalysisTypeOK
  <2> QED BY <1>3, <1>7, <2>1, DropsStep
<1>8. CASE /\ tries' = [tries EXCEPT ![p].rows = next]
           /\ analyst' = [analyst EXCEPT ![w] = m] /\ UNCHANGED graph
  <2> HIDE DEF rows
  <2>1. next \in Seq(Attempts) /\ Len(next) <= MaxTries
    <3>1. h.told \in 0..MaxTries /\ h.try \in 0..MaxTries /\ MaxTries \in Nat /\ Len(rows) \in Nat
          BY <1>2, <1>5, BatchAnalysisAssumption DEF Iterations
    <3>2. AttemptRow("running", h.told) \in Attempts
          BY <3>1 DEF AttemptRow, Attempts
    <3>3. CASE there
          BY <1>4, <1>5, <3>3
    <3>4. CASE ~there
      <4>1. next = Append(rows, AttemptRow("running", h.told))
            BY <3>4
      <4>2. next \in Seq(Attempts) /\ Len(next) = Len(rows) + 1
            BY <1>5, <3>2, <4>1
      <4> HIDE DEF next
      <4> QED BY <3>1, <3>4, <4>2
    <3> QED BY <3>3, <3>4
  <2> HIDE DEF next
  <2>2. TriesTyped'
    <3> DEFINE r == [tries[p] EXCEPT !.rows = next]
    <3>1. TriesTyped
          BY <1>1 DEF BatchAnalysisTypeOK, TriesTyped
    <3>2. r \in [rows : Seq(Attempts), calls : Nat] /\ r.rows = next
          BY <1>2, <2>1, <3>1 DEF TriesTyped
    <3>3. tries' = [tries EXCEPT ![p] = r]
          BY <1>8
    <3> HIDE DEF r
    <3> QED BY <1>2, <2>1, <3>1, <3>2, <3>3 DEF TriesTyped
  <2>3. pc \in {"replay", "model"}
        OBVIOUS
  <2> HIDE DEF pc, calls
  <2>4. m \in Iterations
        BY <1>2, <1>4, <2>3 DEF Iterations, AnalysisPcs
  <2>5. m.pc = pc /\ m.cursor = h.cursor /\ m.action = h.action /\ m.batch = h.batch
        /\ m.part = h.part /\ m.template = h.template
        BY <1>2 DEF Iterations
  <2> HIDE DEF m
  <2>6. Typed(w) /\ InvocationGoesOn(w)
        BY <1>2, <1>8, <2>3, <2>4, <2>5 DEF Typed, InvocationGoesOn, BatchPc
  <2> QED BY <1>1, <1>3, <1>8, <2>2, <2>6, InvocationStays
<1> QED BY <1>6, <1>7, <1>8

-----------------------------------------------------------------------------
(* Claims, offers and what goes wrong *)

LEMMA StraysTyped ==
    ASSUME BatchAnalysisTypeOK, Strays
    PROVE  mishaps' \in 0..MaxMishaps
BY BatchAnalysisAssumption DEF BatchAnalysisTypeOK, Strays

LEMMA AnalystCrashesStep ==
    ASSUME AnalysisInv, NEW w \in Analyst, AnalystCrashes(w)
    PROVE  AnalysisInv'
<1>1. BatchAnalysisTypeOK
      BY DEF AnalysisInv
<1>2. Typed(w) /\ analyst'[w] = NoIteration
      BY <1>1, NoIterationTyped DEF AnalystCrashes, Typed, BatchAnalysisTypeOK
<1>3. UNCHANGED <<graph, agenda, noted, modelBatches, tries, templates, findings>>
      BY DEF AnalystCrashes, runVars
<1>4. LetsGo(w)
      BY <1>1, <1>2, <1>3 DEF LetsGo, BatchAnalysisTypeOK
<1>5. mishaps' \in 0..MaxMishaps
      BY <1>1, StraysTyped DEF AnalystCrashes
<1> QED BY <1>1, <1>3, <1>4, <1>5, TriesUntouched, Leaves

LEMMA AbandonAnalysisStep ==
    ASSUME AnalysisInv, NEW w \in Analyst, AbandonAnalysis(w)
    PROVE  AnalysisInv'
<1>1. BatchAnalysisTypeOK
      BY DEF AnalysisInv
<1>2. mishaps' \in 0..MaxMishaps
  <2>1. Strays \/ UNCHANGED mishaps
        BY DEF AbandonAnalysis
  <2> QED BY <1>1, <2>1, StraysTyped DEF BatchAnalysisTypeOK
<1> QED BY <1>2, DropsStep DEF AbandonAnalysis

LEMMA LeaseStep ==
    ASSUME AnalysisInv, LapseGraph \/ \E w \in Analyst : RenewGraph(w)
    PROVE  AnalysisInv'
<1>1. BatchAnalysisTypeOK
      BY DEF AnalysisInv
<1>2. PICK live \in BOOLEAN : graph' = [graph EXCEPT !.live = live]
      BY DEF LapseGraph, RenewGraph
<1>3. mishaps' \in 0..MaxMishaps
  <2>1. Strays \/ UNCHANGED mishaps
        BY DEF LapseGraph, RenewGraph
  <2> QED BY <1>1, <2>1, StraysTyped DEF BatchAnalysisTypeOK
<1>4. UNCHANGED <<agenda, modelBatches, tries, noted, templates, findings, analyst>>
      BY DEF LapseGraph, RenewGraph
<1>5. graph \in Graphs
      BY <1>1 DEF BatchAnalysisTypeOK
<1>6. /\ graph' \in Graphs /\ graph'.node = graph.node /\ graph'.cursor = graph.cursor
      /\ graph'.frozen = graph.frozen /\ graph'.status = graph.status /\ graph'.owner = graph.owner
      BY <1>2, <1>5 DEF Graphs
<1>7. BatchAnalysisTypeOK'
  <2>1. TriesTyped'
        BY <1>1, <1>4, TriesUntouched
  <2> QED BY <1>1, <1>3, <1>4, <1>6, <2>1, MemoryTyped DEF BatchAnalysisTypeOK
<1>8. TemplatesAreFounded'
      BY <1>4, NothingMoves, TemplatesUntouched
<1> QED BY <1>4, <1>6, <1>7, <1>8, Loosened

\* An iteration that keeps its cursor and its frozen action.
LEMMA ActsOn ==
    ASSUME NEW w \in Analyst, IterationIsFounded(w), UNCHANGED graph,
           analyst[w].pc \in ActingPc, analyst'[w].pc \in ActingPc,
           analyst'[w].cursor = analyst[w].cursor, analyst'[w].action = analyst[w].action

    PROVE  CursorsAreOld(w)' /\ ActionsAreFrozen(w)' /\ OffersAreFounded(w)'
<1>1. analyst[w].pc # "idle" /\ analyst'[w].pc \notin {"offer", "freeze"}
      BY DEF ActingPc, BatchPc
<1>2. CursorsAreOld(w)'
      BY <1>1 DEF IterationIsFounded, CursorsAreOld, Holds, Current
<1>3. ActionsAreFrozen(w)'
      BY DEF IterationIsFounded, ActionsAreFrozen, Current
<1>4. OffersAreFounded(w)'
      BY <1>1 DEF OffersAreFounded
<1> QED BY <1>2, <1>3, <1>4

LEMMA CommitsAtOnce ==
    ASSUME AnalysisInv, NEW w \in Analyst, IsAt(w, "act"),
           analyst[w].action.kind \in {"clarify", "aggregate"}, Goes(w, "commit"),
           UNCHANGED <<graph, agenda, modelBatches, tries, noted, templates, findings, mishaps>>
    PROVE  AnalysisInv'
<1>1. BatchAnalysisTypeOK /\ IterationIsFounded(w)
      BY DEF AnalysisInv
<1>2. Typed(w) /\ analyst'[w] = [analyst[w] EXCEPT !.pc = "commit"]
      BY <1>1, GoesTyped DEF AnalysisPcs
<1>3. analyst'[w].pc = "commit" /\ analyst'[w].cursor = analyst[w].cursor
      /\ analyst'[w].action = analyst[w].action
      BY <1>1, <1>2 DEF BatchAnalysisTypeOK, Iterations
<1>4. analyst[w].pc \in ActingPc /\ analyst'[w].pc \in ActingPc /\ analyst'[w].pc \notin BatchPc
      BY <1>3 DEF ActingPc, BatchPc, IsAt
<1>5. CursorsAreOld(w)' /\ ActionsAreFrozen(w)' /\ OffersAreFounded(w)'
      BY <1>1, <1>3, <1>4, ActsOn
<1>6. BatchWorkIsFounded(w)' /\ CommitsAreFounded(w)'
      BY <1>3, <1>4 DEF BatchWorkIsFounded, CommitsAreFounded
<1>7. \A v \in Analyst : analyst'[v] = analyst[v] \/ IterationIsFounded(v)'
      BY <1>2, <1>5, <1>6 DEF Typed, IterationIsFounded
<1>8. BatchAnalysisTypeOK' /\ TemplatesAreFounded'
      BY <1>1, <1>2, TriesUntouched, MemoryTyped, NothingMoves, TemplatesUntouched
      DEF Typed, BatchAnalysisTypeOK
<1> QED BY <1>7, <1>8, Loosened

LEMMA EnterAggregateRiskStep ==
    ASSUME AnalysisInv, NEW w \in Analyst, EnterAggregateRisk(w)
    PROVE  AnalysisInv'
BY CommitsAtOnce DEF EnterAggregateRisk, runVars

LEMMA OpenConflictGateStep ==
    ASSUME AnalysisInv, NEW w \in Analyst, OpenConflictGate(w)
    PROVE  AnalysisInv'
<1>1. /\ IsAt(w, "act") /\ analyst[w].action.kind = "clarify"
      /\ UNCHANGED <<agenda, modelBatches, tries, noted, templates, findings, mishaps>>
      BY DEF OpenConflictGate
<1>2. Fails(w) \/ Drops(w) \/ (Goes(w, "commit") /\ UNCHANGED graph)
      BY DEF OpenConflictGate
<1>3. CASE Fails(w)
      BY <1>1, <1>3, FailsStep DEF IsAt, ActingPc
<1>4. CASE Drops(w)
  <2>1. mishaps' \in 0..MaxMishaps
        BY <1>1 DEF AnalysisInv, BatchAnalysisTypeOK
  <2> QED BY <1>1, <1>4, <2>1, DropsStep
<1>5. CASE Goes(w, "commit") /\ UNCHANGED graph
      BY <1>1, <1>5, CommitsAtOnce
<1> QED BY <1>2, <1>3, <1>4, <1>5

\* What an offer names exists, and aggregation is offered when all is answered.
LEMMA OfferedAction ==
    ASSUME AnalysisInv, NEW w \in Analyst, IsAt(w, "offer")
    PROVE  /\ AnalysisAction \in Acts /\ AnalysisAction.kind \in KindsAt("analyze")
           /\ (Current(w) /\ graph.node = "analyze" /\ AnalysisAction.kind = "aggregate"
                 /\ graph.frozen \in {Nothing, Act("aggregate")}) =>
                /\ agenda.question = "resolved"
                /\ \A i \in agenda.items : findings[i] # NoAnswer
<1> DEFINE open == {b \in DOMAIN modelBatches : modelBatches[b].status = "pending"}
           first == CHOOSE b \in open : \A c \in open : b <= c
           named == [kind |-> "batch", members |-> modelBatches[first].members]
<1>1. BatchAnalysisTypeOK
      BY DEF AnalysisInv
<1>2. modelBatches \in Seq(Batches)
      BY <1>1 DEF BatchAnalysisTypeOK
<1>3. open # {} => named \in Acts
  <2> SUFFICES ASSUME open # {} PROVE named \in Acts
      OBVIOUS
  <2>1. open \in SUBSET Nat
        BY <1>2
  <2>2. \E b \in open : \A c \in open : b <= c
        BY <2>1, LeastNat
  <2>3. first \in open
    <3> HIDE DEF open
    <3> QED BY <2>2
  <2> HIDE DEF first
  <2>4. modelBatches[first] \in Batches
        BY <1>2, <2>3
  <2> QED BY <2>4 DEF Batches, Acts
<1>4. AnalysisAction = IF agenda.question = "pending" THEN Act("clarify")
                       ELSE IF open # {} THEN named ELSE Act("aggregate")
      BY DEF AnalysisAction
<1>5. /\ Act("clarify") \in Acts /\ Act("clarify").kind = "clarify"
      /\ Act("aggregate") \in Acts /\ Act("aggregate").kind = "aggregate"
      BY DEF Act, Acts
<1>6. KindsAt("analyze") = {"clarify", "batch", "aggregate"}
      BY DEF KindsAt
<1>7. named.kind = "batch"
      OBVIOUS
<1> HIDE DEF named
<1>8. ASSUME Current(w), graph.node = "analyze", AnalysisAction.kind = "aggregate",
             graph.frozen \in {Nothing, Act("aggregate")}
      PROVE  agenda.question = "resolved" /\ \A i \in agenda.items : findings[i] # NoAnswer
  <2>1. open = {} /\ agenda.question # "pending"
        BY <1>4, <1>5, <1>7, <1>8
  <2>2. agenda.question = "resolved"
        BY <1>8, <2>1 DEF AnalysisInv, GraphIsFounded
  <2>3. Covered
        BY <1>8 DEF AnalysisInv, IterationIsFounded, OffersAreFounded, IsAt
  <2>4. \A b \in DOMAIN modelBatches : ~Claimed(b)
    <3>1. graph.frozen.kind # "batch"
          BY <1>8 DEF Nothing, Act
    <3>2. ClaimsAreFrozen
          BY DEF AnalysisInv
    <3>3. \A b \in DOMAIN modelBatches :
              Claimed(b) => graph.frozen.kind = "batch"
      <4> SUFFICES ASSUME NEW b \in DOMAIN modelBatches, Claimed(b)
                   PROVE  graph.frozen.kind = "batch"
          OBVIOUS
      <4> DEFINE M == MembersOf(b)
      <4>1. graph.frozen = [kind |-> "batch", members |-> M]
            BY <3>2 DEF ClaimsAreFrozen
      <4> HIDE DEF M
      <4> QED BY <4>1
    <3> QED BY <3>1, <3>3
  <2>5. \A b \in InUse : Completed(b)
    <3> SUFFICES ASSUME NEW b \in InUse PROVE Completed(b)
        OBVIOUS
    <3>1. b \in DOMAIN modelBatches /\ modelBatches[b].status # "superseded"
          BY DEF InUse
    <3>2. modelBatches[b] \in Batches
          BY <1>2, <3>1
    <3> QED BY <2>1, <2>4, <3>1, <3>2 DEF Batches, Claimed, Completed
  <2>6. \A i \in agenda.items : findings[i] # NoAnswer
    <3> SUFFICES ASSUME NEW i \in agenda.items PROVE findings[i] # NoAnswer
        OBVIOUS
    <3>1. i \in Item
          BY <1>1 DEF BatchAnalysisTypeOK, Agendas
    <3>2. PICK b \in InUse : i \in MembersOf(b)
          BY <2>3 DEF Covered
    <3> QED BY <2>5, <3>1, <3>2 DEF AnalysisInv, EveryItemIsAnalysed, FindingsComeFromTheirBatch,
                                    InUse, Completed
  <2> QED BY <2>2, <2>6
<1> QED BY <1>3, <1>4, <1>5, <1>6, <1>7, <1>8

LEMMA OfferStep ==
    ASSUME AnalysisInv, NEW w \in Analyst, Offer(w)
    PROVE  AnalysisInv'
<1> DEFINE h == analyst[w]
           x == CASE graph.node = "construct" -> Act("construct")
                  [] graph.node = "resolve" -> Act("resume")
                  [] OTHER -> AnalysisAction
           m == [h EXCEPT !.pc = "freeze", !.action = x]
<1>1. BatchAnalysisTypeOK /\ IterationIsFounded(w)
      BY DEF AnalysisInv
<1>2. h.pc = "offer" /\ IsAt(w, "offer")
      /\ UNCHANGED <<graph, agenda, modelBatches, tries, noted, templates, findings, mishaps>>
      BY DEF Offer, runVars, IsAt
<1>3. analyst' = [analyst EXCEPT ![w] = m]
      BY DEF Offer
<1>4. analyst \in [Analyst -> Iterations] /\ h \in Iterations /\ graph \in Graphs
      BY <1>1 DEF BatchAnalysisTypeOK
<1>5. /\ AnalysisAction \in Acts /\ AnalysisAction.kind \in KindsAt("analyze")
      /\ (Current(w) /\ graph.node = "analyze" /\ AnalysisAction.kind = "aggregate"
            /\ graph.frozen \in {Nothing, Act("aggregate")}) =>
           /\ agenda.question = "resolved"
           /\ \A i \in agenda.items : findings[i] # NoAnswer
      BY <1>2, OfferedAction
<1>6. /\ Act("construct") \in Acts /\ Act("construct").kind = "construct"
      /\ Act("resume") \in Acts /\ Act("resume").kind = "resume"
      BY DEF Act, Acts
<1>7. x \in Acts /\ x.kind # "none"
      BY <1>5, <1>6 DEF KindsAt
<1>8. Current(w) => graph.node \in {"construct", "resolve", "analyze"}
      BY <1>1, <1>2, <1>4 DEF IterationIsFounded, CursorsAreOld, Graphs
<1>9. Current(w) => x.kind \in KindsAt(graph.node)
      BY <1>5, <1>6, <1>8 DEF KindsAt
<1>10. Current(w) /\ x.kind = "aggregate" => graph.node = "analyze" /\ x = AnalysisAction
       BY <1>6, <1>8
<1> HIDE DEF x
<1>11. m \in Iterations /\ m.pc = "freeze" /\ m.cursor = h.cursor /\ m.action = x
       BY <1>4, <1>7 DEF Iterations, AnalysisPcs
<1> HIDE DEF m
<1>12. Typed(w) /\ analyst'[w] = m
       BY <1>3, <1>4, <1>11 DEF Typed
<1>13. CursorsAreOld(w)'
       BY <1>1, <1>2, <1>11, <1>12 DEF IterationIsFounded, CursorsAreOld, Holds, Current
<1>14. ActionsAreFrozen(w)' /\ BatchWorkIsFounded(w)' /\ CommitsAreFounded(w)'
       BY <1>11, <1>12 DEF ActionsAreFrozen, BatchWorkIsFounded, CommitsAreFounded, ActingPc, BatchPc
<1>15. OffersAreFounded(w)'
  <2>1. Current(w)' <=> Current(w)
        BY <1>2, <1>11, <1>12 DEF Current
  <2>2. Current(w)' /\ graph'.node = "analyze" => Covered'
        BY <1>1, <1>2, <2>1 DEF IterationIsFounded, OffersAreFounded, Covered, InUse, MembersOf
  <2>3. ASSUME Current(w)', x.kind = "aggregate", graph'.frozen \in {Nothing, Act("aggregate")}
        PROVE  agenda'.question = "resolved" /\ \A i \in agenda'.items : findings'[i] # NoAnswer
        BY <1>2, <1>5, <1>10, <2>1, <2>3
  <2> QED BY <1>2, <1>7, <1>9, <1>11, <1>12, <2>1, <2>2, <2>3 DEF OffersAreFounded
<1>16. \A v \in Analyst : analyst'[v] = analyst[v] \/ IterationIsFounded(v)'
       BY <1>12, <1>13, <1>14, <1>15 DEF Typed, IterationIsFounded
<1>17. BatchAnalysisTypeOK' /\ TemplatesAreFounded'
       BY <1>1, <1>2, <1>12, TriesUntouched, MemoryTyped, NothingMoves, TemplatesUntouched
       DEF Typed, BatchAnalysisTypeOK
<1> QED BY <1>2, <1>16, <1>17, Loosened

LEMMA ClaimGraphStep ==
    ASSUME AnalysisInv, NEW w \in Analyst, ClaimGraph(w)
    PROVE  AnalysisInv'
<1> DEFINE pc == CASE graph.frozen # Nothing -> "act"
                   [] graph.node = "analyze" -> "plan"
                   [] OTHER -> "offer"
           m == [NoIteration EXCEPT !.pc = pc, !.cursor = graph.cursor, !.action = graph.frozen]
<1>1. BatchAnalysisTypeOK /\ GraphIsFounded /\ graph \in Graphs
      BY DEF AnalysisInv, BatchAnalysisTypeOK
<1>2. /\ graph.status = "running" /\ graph.node # "aggregate"
      /\ graph' = [graph EXCEPT !.owner = w, !.live = TRUE]
      /\ analyst' = [analyst EXCEPT ![w] = m]
      /\ UNCHANGED <<agenda, modelBatches, tries, noted, templates, findings, mishaps>>
      BY DEF ClaimGraph
<1>3. graph.node # "blocked"
      BY <1>1, <1>2 DEF GraphIsFounded
<1>4. /\ graph' \in Graphs /\ graph'.node = graph.node /\ graph'.cursor = graph.cursor
      /\ graph'.frozen = graph.frozen /\ graph'.status = graph.status /\ graph'.owner = w
      BY <1>1, <1>2 DEF Graphs
<1>5. pc \in {"act", "plan", "offer"} /\ (pc = "act" => graph.frozen # Nothing)
      /\ (pc = "offer" => graph.node # "analyze")
      BY DEF Nothing
<1> HIDE DEF pc
<1>6. m \in Iterations /\ m.pc = pc /\ m.cursor = graph.cursor /\ m.action = graph.frozen
  <2>1. graph.cursor \in Nat /\ graph.frozen \in Acts
        BY <1>1 DEF Graphs
  <2> QED BY <1>5, <2>1, NoIterationTyped DEF Iterations, AnalysisPcs
<1> HIDE DEF m
<1>7. Typed(w) /\ analyst'[w] = m
      BY <1>1, <1>2, <1>6 DEF Typed, BatchAnalysisTypeOK
<1>8. BatchAnalysisTypeOK' /\ TemplatesAreFounded'
      BY <1>1, <1>2, <1>4, <1>7, TriesUntouched, MemoryTyped, NothingMoves, TemplatesUntouched
      DEF Typed, BatchAnalysisTypeOK
<1>9. IterationIsFounded(w)'
  <2>1. CursorsAreOld(w)'
        BY <1>1, <1>2, <1>3, <1>4, <1>6, <1>7 DEF CursorsAreOld, Holds, Current, Graphs
  <2>2. ActionsAreFrozen(w)'
    <3>1. graph.frozen # Nothing => graph.frozen.kind # "none"
          BY <1>1 DEF GraphIsFounded, KindsAt
    <3> QED BY <1>4, <1>5, <1>6, <1>7, <3>1 DEF ActionsAreFrozen, ActingPc, BatchPc
  <2>3. OffersAreFounded(w)' /\ BatchWorkIsFounded(w)' /\ CommitsAreFounded(w)'
        BY <1>4, <1>5, <1>6, <1>7 DEF OffersAreFounded, BatchWorkIsFounded, CommitsAreFounded, BatchPc
  <2> QED BY <2>1, <2>2, <2>3 DEF IterationIsFounded
<1>10. ASSUME NEW v \in Analyst, v # w PROVE IterationIsFounded(v)'
  <2>1. analyst'[v] = analyst[v]
        BY <1>7, <1>10 DEF Typed
  <2>2. MembersStay /\ QuestionMovesOn /\ FindingsStay /\ (Covered => Covered')
        BY <1>2 DEF MembersStay, QuestionMovesOn, FindingsStay, Covered, Completed, MembersOf, InUse
  <2>3. CursorMovesOn
        BY <1>1, <1>4 DEF CursorMovesOn, Graphs
  <2>4. HolderIsAlone(v)
        BY <1>4, <1>10 DEF HolderIsAlone
  <2>5. IterationIsFounded(v)
        BY DEF AnalysisInv
  <2> QED BY <1>1, <1>8, <2>1, <2>2, <2>3, <2>4, <2>5, IterationStays
<1>11. BatchesAreFounded' /\ ClaimsAreFrozen'
  <2>1. BatchesAreFounded /\ ClaimsAreFrozen
        BY DEF AnalysisInv
  <2> QED BY <1>2, <1>4, <2>1 DEF BatchesAreFounded, ClaimsAreFrozen, Claimed, MembersOf
<1>12. GraphIsFounded'
       BY <1>1, <1>2, <1>4 DEF GraphIsFounded
<1>13. EveryItemIsAnalysed'
  <2>1. EveryItemIsAnalysed
        BY DEF AnalysisInv
  <2>2. FindingsComeFromTheirBatch'
        BY <1>2, <2>1 DEF EveryItemIsAnalysed, FindingsComeFromTheirBatch, InUse, MembersOf
  <2>3. AggregationIsComplete' /\ BlockedMeansUnanswered'
        BY <1>2, <1>4, <2>1 DEF EveryItemIsAnalysed, AggregationIsComplete, BlockedMeansUnanswered
  <2> QED BY <2>2, <2>3 DEF EveryItemIsAnalysed
<1> QED BY <1>8, <1>9, <1>10, <1>11, <1>12, <1>13 DEF AnalysisInv

-----------------------------------------------------------------------------
(* The graph moves, the work does not *)

LEMMA WorkUntouched ==
    ASSUME AnalysisInv, UNCHANGED <<modelBatches, findings>>
    PROVE  BatchesAreFounded' /\ FindingsComeFromTheirBatch' /\ MembersStay /\ FindingsStay
<1>1. BatchesAreFounded /\ FindingsComeFromTheirBatch
      BY DEF AnalysisInv, EveryItemIsAnalysed
<1> QED BY <1>1 DEF BatchesAreFounded, FindingsComeFromTheirBatch, InUse, MembersOf,
                    MembersStay, FindingsStay, Completed

LEMMA FreezeStep ==
    ASSUME AnalysisInv, NEW w \in Analyst, Freeze(w)
    PROVE  AnalysisInv'
<1> DEFINE h == analyst[w]
<1>1. BatchAnalysisTypeOK /\ GraphIsFounded /\ graph \in Graphs /\ h \in Iterations /\ IterationIsFounded(w)
      BY DEF AnalysisInv, BatchAnalysisTypeOK
<1>2. /\ h.pc = "freeze"
      /\ UNCHANGED <<agenda, modelBatches, tries, noted, templates, findings, mishaps>>
      BY DEF Freeze, IsAt
<1>3. CASE Drops(w)
  <2>1. mishaps' \in 0..MaxMishaps
        BY <1>1, <1>2 DEF BatchAnalysisTypeOK
  <2> QED BY <1>2, <1>3, <2>1, DropsStep
<1>4. CASE /\ Current(w) /\ graph.frozen \in {Nothing, h.action}
           /\ graph' = [graph EXCEPT !.frozen = h.action] /\ Goes(w, "act")
  <2>1. /\ graph' \in Graphs /\ graph'.node = graph.node /\ graph'.cursor = graph.cursor
        /\ graph'.frozen = h.action /\ graph'.status = graph.status /\ graph'.owner = graph.owner
        BY <1>1, <1>4 DEF Graphs, Iterations
  <2>2. Typed(w) /\ analyst'[w] = [h EXCEPT !.pc = "act"]
        BY <1>1, <1>4, GoesTyped DEF AnalysisPcs
  <2>3. /\ analyst'[w].pc = "act" /\ analyst'[w].cursor = h.cursor /\ analyst'[w].action = h.action
        BY <1>1, <2>2 DEF Iterations
  <2>4. /\ h.action.kind # "none" /\ h.action.kind \in KindsAt(graph.node)
        /\ h.action.kind = "aggregate" /\ graph.frozen \in {Nothing, Act("aggregate")} =>
              /\ agenda.question = "resolved"
              /\ \A i \in agenda.items : findings[i] # NoAnswer
        BY <1>1, <1>2, <1>4 DEF IterationIsFounded, OffersAreFounded
  <2>5. BatchAnalysisTypeOK' /\ TemplatesAreFounded'
        BY <1>1, <1>2, <2>1, <2>2, TriesUntouched, MemoryTyped, NothingMoves, TemplatesUntouched
        DEF Typed, BatchAnalysisTypeOK
  <2>6. BatchesAreFounded' /\ FindingsComeFromTheirBatch' /\ MembersStay /\ FindingsStay
        BY <1>2, WorkUntouched
  <2>7. GraphIsFounded'
        BY <1>1, <1>2, <2>1, <2>4 DEF GraphIsFounded
  <2>8. ClaimsAreFrozen'
    <3>1. ClaimsAreFrozen
          BY DEF AnalysisInv
    <3>2. ASSUME NEW b \in DOMAIN modelBatches, Claimed(b)
          PROVE  graph'.frozen = [kind |-> "batch", members |-> MembersOf(b)]
      <4> DEFINE M == MembersOf(b)
      <4>1. graph.frozen = [kind |-> "batch", members |-> M]
            BY <3>1, <3>2 DEF ClaimsAreFrozen
      <4> HIDE DEF M
      <4>2. graph.frozen # Nothing
            BY <4>1 DEF Nothing
      <4> QED BY <1>4, <2>1, <4>1, <4>2 DEF M
    <3> QED BY <1>2, <3>2 DEF ClaimsAreFrozen, Claimed, MembersOf
  <2>9. EveryItemIsAnalysed'
    <3>1. AggregationIsComplete /\ BlockedMeansUnanswered
          BY DEF AnalysisInv, EveryItemIsAnalysed
    <3>2. AggregationIsComplete'
      <4>1. CASE graph.frozen = Nothing
            BY <1>2, <2>1, <2>4, <3>1, <4>1 DEF AggregationIsComplete
      <4>2. CASE graph.frozen = h.action
            BY <1>2, <2>1, <3>1, <4>2 DEF AggregationIsComplete
      <4> QED BY <1>4, <4>1, <4>2
    <3>3. BlockedMeansUnanswered'
          BY <1>2, <2>1, <3>1 DEF BlockedMeansUnanswered
    <3> QED BY <2>6, <3>2, <3>3 DEF EveryItemIsAnalysed
  <2>10. IterationIsFounded(w)'
    <3>1. CursorsAreOld(w)'
          BY <1>1, <1>2, <2>1, <2>3 DEF IterationIsFounded, CursorsAreOld, Holds, Current
    <3>2. ActionsAreFrozen(w)'
          BY <2>1, <2>3, <2>4 DEF ActionsAreFrozen
    <3>3. OffersAreFounded(w)' /\ BatchWorkIsFounded(w)' /\ CommitsAreFounded(w)'
          BY <2>3 DEF OffersAreFounded, BatchWorkIsFounded, CommitsAreFounded, BatchPc
    <3> QED BY <3>1, <3>2, <3>3 DEF IterationIsFounded
  <2>11. ASSUME NEW v \in Analyst, v # w PROVE IterationIsFounded(v)'
    <3>1. analyst'[v] = analyst[v] /\ IterationIsFounded(v)
          BY <2>2, <2>11 DEF Typed, AnalysisInv
    <3>2. CursorMovesOn
          BY <1>1, <1>4, <2>1 DEF CursorMovesOn, Graphs
    <3>3. QuestionMovesOn /\ HolderIsAlone(v) /\ (Covered => Covered')
          BY <1>2, <2>1 DEF QuestionMovesOn, HolderIsAlone, Covered, InUse, MembersOf, Claimed
    <3> QED BY <1>1, <2>5, <2>6, <3>1, <3>2, <3>3, IterationStays
  <2> QED BY <2>5, <2>6, <2>7, <2>8, <2>9, <2>10, <2>11 DEF AnalysisInv
<1> QED BY <1>3, <1>4 DEF Freeze

LEMMA AnswerQuestionStep ==
    ASSUME AnalysisInv, AnswerQuestion
    PROVE  AnalysisInv'
<1>1. BatchAnalysisTypeOK /\ GraphIsFounded /\ graph \in Graphs /\ agenda \in Agendas
      BY DEF AnalysisInv, BatchAnalysisTypeOK
<1>2. /\ graph.status = "waiting" /\ agenda.question = "pending"
      /\ agenda' = [agenda EXCEPT !.question = "confirmed"]
      /\ graph' = [graph EXCEPT !.status = "running"]
      /\ UNCHANGED <<modelBatches, tries, noted, templates, findings, analyst, mishaps>>
      BY DEF AnswerQuestion
<1>3. /\ graph' \in Graphs /\ graph'.node = graph.node /\ graph'.cursor = graph.cursor
      /\ graph'.frozen = graph.frozen /\ graph'.status = "running" /\ graph'.owner = graph.owner
      BY <1>1, <1>2 DEF Graphs
<1>4. agenda' \in Agendas /\ agenda'.items = agenda.items /\ agenda'.question = "confirmed"
      BY <1>1, <1>2 DEF Agendas
<1>5. graph.node = "resolve"
      BY <1>1, <1>2 DEF GraphIsFounded
<1>6. BatchAnalysisTypeOK'
      BY <1>1, <1>2, <1>3, <1>4 DEF BatchAnalysisTypeOK
<1>7. BatchesAreFounded' /\ FindingsComeFromTheirBatch' /\ MembersStay /\ FindingsStay
      BY <1>2, WorkUntouched
<1>8. TemplatesAreFounded'
      BY <1>2, <1>7, TemplatesUntouched
<1>9. GraphIsFounded'
      BY <1>1, <1>3, <1>4, <1>5 DEF GraphIsFounded
<1>10. ClaimsAreFrozen'
  <2>1. ClaimsAreFrozen
        BY DEF AnalysisInv
  <2> QED BY <1>2, <1>3, <2>1 DEF ClaimsAreFrozen, Claimed, MembersOf
<1>11. EveryItemIsAnalysed'
  <2>1. AggregationIsComplete
        BY DEF AnalysisInv, EveryItemIsAnalysed
  <2>2. AggregationIsComplete' /\ BlockedMeansUnanswered'
        BY <1>2, <1>3, <2>1 DEF AggregationIsComplete, BlockedMeansUnanswered
  <2> QED BY <1>7, <2>2 DEF EveryItemIsAnalysed
<1>12. ASSUME NEW v \in Analyst PROVE IterationIsFounded(v)'
  <2>1. analyst'[v] = analyst[v] /\ IterationIsFounded(v)
        BY <1>2 DEF AnalysisInv
  <2>2. CursorMovesOn
        BY <1>1, <1>3 DEF CursorMovesOn, Graphs
  <2>3. QuestionMovesOn /\ HolderIsAlone(v)
        BY <1>2, <1>3, <1>4 DEF QuestionMovesOn, HolderIsAlone, Claimed
  <2> QED BY <1>1, <1>5, <1>6, <1>7, <2>1, <2>2, <2>3, IterationStays
<1> QED BY <1>6, <1>7, <1>8, <1>9, <1>10, <1>11, <1>12 DEF AnalysisInv

LEMMA ShrinkBatchesStep ==
    ASSUME AnalysisInv, ShrinkBatches
    PROVE  AnalysisInv'
<1>1. BatchAnalysisTypeOK /\ graph \in Graphs /\ agenda \in Agendas
      BY DEF AnalysisInv, BatchAnalysisTypeOK
<1>2. /\ agenda' = [agenda EXCEPT !.size = 1] /\ Strays
      /\ UNCHANGED <<graph, modelBatches, tries, noted, templates, findings, analyst>>
      BY DEF ShrinkBatches
<1>3. agenda' \in Agendas /\ agenda'.items = agenda.items /\ agenda'.question = agenda.question
      BY <1>1, <1>2, BatchAnalysisAssumption DEF Agendas
<1>4. BatchAnalysisTypeOK'
      BY <1>1, <1>2, <1>3, StraysTyped DEF BatchAnalysisTypeOK
<1>5. BatchesAreFounded' /\ FindingsComeFromTheirBatch' /\ MembersStay /\ FindingsStay
      BY <1>2, WorkUntouched
<1>6. TemplatesAreFounded'
      BY <1>2, <1>5, TemplatesUntouched
<1>7. GraphIsFounded' /\ ClaimsAreFrozen'
  <2>1. GraphIsFounded /\ ClaimsAreFrozen
        BY DEF AnalysisInv
  <2> QED BY <1>2, <1>3, <2>1 DEF GraphIsFounded, ClaimsAreFrozen, Claimed, MembersOf
<1>8. EveryItemIsAnalysed'
  <2>1. AggregationIsComplete /\ BlockedMeansUnanswered
        BY DEF AnalysisInv, EveryItemIsAnalysed
  <2>2. AggregationIsComplete' /\ BlockedMeansUnanswered'
        BY <1>2, <1>3, <2>1 DEF AggregationIsComplete, BlockedMeansUnanswered
  <2> QED BY <1>5, <2>2 DEF EveryItemIsAnalysed
<1>9. ASSUME NEW v \in Analyst PROVE IterationIsFounded(v)'
  <2>1. analyst'[v] = analyst[v] /\ IterationIsFounded(v)
        BY <1>2 DEF AnalysisInv
  <2>2. CursorMovesOn
        BY <1>1, <1>2 DEF CursorMovesOn, Graphs
  <2>3. QuestionMovesOn /\ HolderIsAlone(v) /\ (Covered => Covered')
        BY <1>2, <1>3 DEF QuestionMovesOn, HolderIsAlone, Claimed, Covered, InUse, MembersOf
  <2> QED BY <1>1, <1>4, <1>5, <2>1, <2>2, <2>3, IterationStays
<1> QED BY <1>4, <1>5, <1>6, <1>7, <1>8, <1>9 DEF AnalysisInv

\* Two batches in use that have an item in common are one.
LEMMA OneBatch ==
    ASSUME AnalysisInv, NEW b \in InUse, NEW c \in InUse, MembersOf(b) = MembersOf(c)
    PROVE  b = c
<1>1. MembersOf(b) # {}
      BY DEF AnalysisInv, BatchesAreFounded, InUse
<1> QED BY <1>1 DEF AnalysisInv, EveryItemIsAnalysed, FindingsComeFromTheirBatch

\* A batch in use that is not completed has no findings.
LEMMA OpenMeansUnanswered ==
    ASSUME AnalysisInv, NEW b \in InUse, ~Completed(b)
    PROVE  Unanswered(b)
<1>1. FindingsComeFromTheirBatch /\ BatchAnalysisTypeOK
      BY DEF AnalysisInv, EveryItemIsAnalysed
<1>2. ASSUME NEW i \in MembersOf(b), findings[i] # NoAnswer PROVE FALSE
  <2>1. i \in Item
    <3>1. modelBatches[b] \in Batches
          BY <1>1 DEF BatchAnalysisTypeOK, InUse
    <3> QED BY <3>1 DEF Batches, MembersOf
  <2>2. PICK c \in DOMAIN modelBatches : modelBatches[c].status = "completed" /\ i \in MembersOf(c)
        BY <1>1, <1>2, <2>1 DEF FindingsComeFromTheirBatch
  <2>3. c \in InUse /\ c # b
        BY <2>2 DEF InUse, Completed
  <2> QED BY <1>1, <2>2, <2>3 DEF FindingsComeFromTheirBatch
<1> QED BY <1>2 DEF Unanswered

\* When the graph moves on, nobody who was at its cursor is at the next.
LEMMA LeftBehind ==
    ASSUME AnalysisInv, BatchAnalysisTypeOK', NEW v \in Analyst, analyst'[v] = analyst[v],
           graph'.cursor = graph.cursor + 1, graph'.owner = "none",
           UNCHANGED <<agenda, modelBatches, findings>>
    PROVE  IterationIsFounded(v)'
<1>1. BatchAnalysisTypeOK /\ IterationIsFounded(v) /\ graph.cursor \in Nat
      BY DEF AnalysisInv, BatchAnalysisTypeOK, Graphs
<1>2. CursorMovesOn
      BY <1>1 DEF CursorMovesOn
<1>3. MembersStay /\ FindingsStay
      BY WorkUntouched
<1>4. QuestionMovesOn /\ HolderIsAlone(v) /\ (Covered => Covered')
      BY BatchAnalysisAssumption DEF QuestionMovesOn, HolderIsAlone, Covered, InUse, MembersOf
<1> QED BY <1>1, <1>2, <1>3, <1>4, IterationStays

LEMMA CommitTransitionStep ==
    ASSUME AnalysisInv, NEW w \in Analyst, CommitTransition(w)
    PROVE  AnalysisInv'
<1> DEFINE h == analyst[w]
           k == h.action.kind
<1>1. /\ BatchAnalysisTypeOK /\ GraphIsFounded /\ graph \in Graphs
      /\ analyst \in [Analyst -> Iterations] /\ h \in Iterations /\ IterationIsFounded(w)
      BY DEF AnalysisInv, BatchAnalysisTypeOK
<1>2. /\ h.pc = "commit"
      /\ UNCHANGED <<agenda, modelBatches, noted, templates, findings, mishaps>>
      BY DEF CommitTransition, IsAt
<1>3. CASE Drops(w) /\ UNCHANGED tries
  <2>1. mishaps' \in 0..MaxMishaps
        BY <1>1, <1>2 DEF BatchAnalysisTypeOK
  <2> QED BY <1>2, <1>3, <2>1, DropsStep
<1>4. CASE /\ Holds(w) /\ Current(w) /\ graph.status = "running"
           /\ graph' = [GraphFreed(w) EXCEPT !.node = Successor(k), !.cursor = @ + 1,
                         !.frozen = Nothing,
                         !.status = IF k = "clarify" THEN "waiting" ELSE "running"]
           /\ analyst' = [analyst EXCEPT ![w] = NoIteration] /\ tries' = NoTries
  <2>1. graph.frozen = h.action /\ k # "none"
        BY <1>1, <1>2, <1>4 DEF IterationIsFounded, ActionsAreFrozen, ActingPc
  <2>2. k \in KindsAt(graph.node)
        BY <1>1, <2>1 DEF GraphIsFounded, Nothing
  <2>3. /\ graph' \in Graphs /\ graph'.node = Successor(k) /\ graph'.cursor = graph.cursor + 1
        /\ graph'.frozen = Nothing /\ graph'.owner = "none"
        /\ graph'.status = (IF k = "clarify" THEN "waiting" ELSE "running")
    <3>1. Successor(k) \in {"resolve", "aggregate", "analyze"} /\ Nothing \in Acts
          BY DEF Successor, Nothing, Acts
    <3>2. GraphFreed(w) = [graph EXCEPT !.owner = "none", !.live = FALSE]
          BY <1>4 DEF GraphFreed
    <3>3. GraphFreed(w) \in Graphs /\ GraphFreed(w).owner = "none" /\ GraphFreed(w).cursor = graph.cursor
          BY <1>1, <3>2 DEF Graphs
    <3> DEFINE G == GraphFreed(w)
               node == Successor(k)
               cursor == G.cursor + 1
               status == IF k = "clarify" THEN "waiting" ELSE "running"
    <3>4. graph' = [G EXCEPT !.node = node, !.cursor = cursor, !.frozen = Nothing,
                             !.status = status]
          BY <1>4
    <3>5. status \in {"waiting", "running"}
          OBVIOUS
    <3>6. G \in Graphs /\ node \in {"resolve", "aggregate", "analyze"} /\ cursor \in Nat
          BY <1>1, <3>1, <3>3 DEF Graphs
    <3> HIDE DEF k, G, node, cursor, status
    <3> DEFINE none == Nothing
    <3>7. none \in Acts /\ graph' = [G EXCEPT !.node = node, !.cursor = cursor, !.frozen = none,
                                             !.status = status]
          BY <3>1, <3>4
    <3> HIDE DEF none
    <3>8. graph' \in Graphs /\ graph'.node = node /\ graph'.cursor = cursor
          /\ graph'.frozen = none /\ graph'.owner = G.owner /\ graph'.status = status
          BY <3>5, <3>6, <3>7 DEF Graphs
    <3> QED BY <3>3, <3>8 DEF G, node, cursor, status, none
  <2>4. BatchAnalysisTypeOK'
    <3>1. TriesTyped'
      <4>1. <<>> \in Seq(Attempts) /\ Len(<<>>) = 0 /\ 0 <= MaxTries
            BY BatchAnalysisAssumption
      <4> QED BY <1>4, <4>1 DEF TriesTyped, NoTries
    <3>2. analyst' \in [Analyst -> Iterations]
          BY <1>1, <1>4, NoIterationTyped
    <3> QED BY <1>1, <1>2, <2>3, <3>1, <3>2, MemoryTyped DEF BatchAnalysisTypeOK
  <2>5. BatchesAreFounded' /\ FindingsComeFromTheirBatch' /\ MembersStay /\ FindingsStay
        BY <1>2, WorkUntouched
  <2>6. TemplatesAreFounded'
        BY <1>2, <2>5, TemplatesUntouched
  <2>7. GraphIsFounded'
    <3>1. k = "resume" => agenda.question = "resolved"
          BY <1>1, <1>2 DEF IterationIsFounded, CommitsAreFounded
    <3>2. k = "construct" => agenda.question = "pending"
          BY <1>1, <2>2 DEF KindsAt, GraphIsFounded
    <3>3. k \in {"clarify", "batch", "aggregate"} => agenda.question \in {"pending", "resolved"}
          BY <1>1, <2>2 DEF KindsAt, GraphIsFounded
    <3>4. k \in {"construct", "clarify", "batch", "aggregate", "resume"}
          BY <2>2 DEF KindsAt
    <3> HIDE DEF k
    <3> QED BY <1>2, <2>3, <3>1, <3>2, <3>3, <3>4 DEF GraphIsFounded, Successor
  <2>8. NothingClaimed
    <3> SUFFICES ASSUME NEW b \in DOMAIN modelBatches, Claimed(b) PROVE FALSE
        BY DEF NothingClaimed
    <3> DEFINE M == MembersOf(b)
    <3>1. graph.frozen = [kind |-> "batch", members |-> M]
          BY DEF AnalysisInv, ClaimsAreFrozen
    <3> HIDE DEF M
    <3>2. k = "batch" /\ h.action.members = M
          BY <2>1, <3>1
    <3>3. PICK c \in DOMAIN modelBatches : Completed(c) /\ MembersOf(c) = h.action.members
          BY <1>1, <1>2, <3>2 DEF IterationIsFounded, CommitsAreFounded
    <3>4. b \in InUse /\ c \in InUse /\ b # c
          BY <3>3 DEF InUse, Claimed, Completed
    <3>5. MembersOf(b) = MembersOf(c)
          BY <3>2, <3>3 DEF M
    <3> QED BY <3>4, <3>5, OneBatch
  <2>9. ClaimsAreFrozen'
        BY <1>2, <2>8 DEF ClaimsAreFrozen, NothingClaimed, Claimed
  <2>10. EveryItemIsAnalysed'
    <3>1. AggregationIsComplete
          BY DEF AnalysisInv, EveryItemIsAnalysed
    <3>2. AggregationIsComplete'
      <4> SUFFICES ASSUME graph'.node = "aggregate" \/ graph'.frozen.kind = "aggregate"
                   PROVE  AggregationIsComplete'
          BY DEF AggregationIsComplete
      <4>1. k = "aggregate"
            BY <2>3 DEF Successor, Nothing
      <4> QED BY <1>2, <2>1, <3>1, <4>1 DEF AggregationIsComplete
    <3>3. BlockedMeansUnanswered'
          BY <2>3 DEF BlockedMeansUnanswered
    <3> QED BY <2>5, <3>2, <3>3 DEF EveryItemIsAnalysed
  <2>11. ASSUME NEW v \in Analyst PROVE IterationIsFounded(v)'
    <3>1. CASE v = w
          BY <1>1, <1>4, <3>1, IdleIsFounded
    <3>2. CASE v # w
      <4>1. analyst'[v] = analyst[v]
            BY <1>1, <1>4, <3>2
      <4> QED BY <1>2, <2>3, <2>4, <4>1, LeftBehind
    <3> QED BY <3>1, <3>2
  <2> QED BY <2>4, <2>5, <2>6, <2>7, <2>9, <2>10, <2>11 DEF AnalysisInv
<1> QED BY <1>3, <1>4 DEF CommitTransition

LEMMA BlockModelFailureStep ==
    ASSUME AnalysisInv, NEW w \in Analyst, BlockModelFailure(w)
    PROVE  AnalysisInv'
<1> DEFINE h == analyst[w]
           b == h.batch
<1>1. /\ BatchAnalysisTypeOK /\ GraphIsFounded /\ graph \in Graphs
      /\ analyst \in [Analyst -> Iterations] /\ h \in Iterations /\ IterationIsFounded(w)
      BY DEF AnalysisInv, BatchAnalysisTypeOK
<1>2. /\ h.pc = "block" /\ h.pc \in BatchPc
      /\ analyst' = [analyst EXCEPT ![w] = NoIteration]
      /\ UNCHANGED <<agenda, modelBatches, noted, templates, findings, mishaps>>
      BY DEF BlockModelFailure, IsAt, BatchPc
<1>3. Typed(w) /\ analyst'[w] = NoIteration
      BY <1>1, <1>2, NoIterationTyped DEF Typed
<1>4. CASE UNCHANGED <<graph, tries>>
  <2>1. LetsGo(w)
        BY <1>1, <1>3, <1>4 DEF LetsGo
  <2>2. mishaps' \in 0..MaxMishaps
        BY <1>1, <1>2 DEF BatchAnalysisTypeOK
  <2> QED BY <1>1, <1>2, <1>4, <2>1, <2>2, TriesUntouched, Leaves
<1>5. CASE /\ Holds(w) /\ Current(w) /\ tries' = NoTries
           /\ graph' = [GraphFreed(w) EXCEPT !.node = "blocked", !.cursor = @ + 1,
                                             !.status = "blocked", !.frozen = Nothing]
  <2>1. /\ graph' \in Graphs /\ graph'.node = "blocked" /\ graph'.cursor = graph.cursor + 1
        /\ graph'.frozen = Nothing /\ graph'.owner = "none" /\ graph'.status = "blocked"
    <3> DEFINE G == GraphFreed(w)
               cursor == G.cursor + 1
               none == Nothing
    <3>1. G = [graph EXCEPT !.owner = "none", !.live = FALSE]
          BY <1>5 DEF GraphFreed
    <3>2. G \in Graphs /\ G.owner = "none" /\ G.cursor = graph.cursor
          BY <1>1, <3>1 DEF Graphs
    <3>3. cursor \in Nat /\ none \in Acts
          BY <1>1, <3>2 DEF Graphs, Nothing, Acts
    <3>4. graph' = [G EXCEPT !.node = "blocked", !.cursor = cursor, !.status = "blocked", !.frozen = none]
          BY <1>5
    <3> HIDE DEF G, cursor, none
    <3>5. graph' \in Graphs /\ graph'.node = "blocked" /\ graph'.cursor = cursor
          /\ graph'.frozen = none /\ graph'.owner = G.owner /\ graph'.status = "blocked"
          BY <3>2, <3>3, <3>4 DEF Graphs
    <3> QED BY <3>2, <3>5 DEF cursor, none
  <2>2. BatchAnalysisTypeOK'
    <3>1. TriesTyped'
      <4>1. <<>> \in Seq(Attempts) /\ Len(<<>>) = 0 /\ 0 <= MaxTries
            BY BatchAnalysisAssumption
      <4> QED BY <1>5, <4>1 DEF TriesTyped, NoTries
    <3> QED BY <1>1, <1>2, <1>3, <2>1, <3>1, MemoryTyped DEF BatchAnalysisTypeOK, Typed
  <2>3. BatchesAreFounded' /\ FindingsComeFromTheirBatch' /\ MembersStay /\ FindingsStay
        BY <1>2, WorkUntouched
  <2>4. TemplatesAreFounded'
        BY <1>2, <2>3, TemplatesUntouched
  <2>5. NothingClaimed /\ Unanswered(b) /\ b \in DOMAIN modelBatches
        BY <1>1, <1>2, <1>5 DEF IterationIsFounded, BatchWorkIsFounded
  <2>6. GraphIsFounded' /\ ClaimsAreFrozen'
        BY <1>2, <2>1, <2>5 DEF GraphIsFounded, ClaimsAreFrozen, NothingClaimed, Claimed
  <2>7. EveryItemIsAnalysed'
    <3>1. \E i \in agenda.items : findings[i] = NoAnswer
      <4>1. PICK i \in MembersOf(b) : TRUE
            BY <2>5 DEF AnalysisInv, BatchesAreFounded
      <4>2. i \in agenda.items
            BY <1>1, <2>5, <4>1 DEF BatchAnalysisTypeOK, MembersOf
      <4> QED BY <2>5, <4>1, <4>2 DEF Unanswered
    <3>2. BlockedMeansUnanswered'
          BY <1>2, <2>5, <3>1 DEF BlockedMeansUnanswered, NothingClaimed, Claimed
    <3>3. AggregationIsComplete'
          BY <2>1 DEF AggregationIsComplete, Nothing
    <3> QED BY <2>3, <3>2, <3>3 DEF EveryItemIsAnalysed
  <2>8. ASSUME NEW v \in Analyst PROVE IterationIsFounded(v)'
    <3>1. CASE v = w
          BY <1>3, <3>1, IdleIsFounded
    <3>2. CASE v # w
      <4>1. analyst'[v] = analyst[v]
            BY <1>3, <3>2 DEF Typed
      <4> QED BY <1>2, <2>1, <2>2, <4>1, LeftBehind
    <3> QED BY <3>1, <3>2
  <2> QED BY <2>2, <2>3, <2>4, <2>6, <2>7, <2>8 DEF AnalysisInv
<1> QED BY <1>4, <1>5 DEF BlockModelFailure

-----------------------------------------------------------------------------
(* The life of a batch *)

\* A batch that changes its status and its owner.
Moves(b, status, owner) ==
    /\ modelBatches' = [modelBatches EXCEPT ![b] = [modelBatches[b] EXCEPT !.status = status, !.owner = owner]]
    /\ b \in InUse
    /\ Completed(b) => status = "completed"

LEMMA BatchMoves ==
    ASSUME AnalysisInv, NEW b, NEW status \in {"pending", "claimed", "completed"},
           NEW owner \in Analyst \cup {"none"}, Moves(b, status, owner)
    PROVE  /\ modelBatches' \in Seq(Batches) /\ DOMAIN modelBatches' = DOMAIN modelBatches
           /\ b \in DOMAIN modelBatches
           /\ modelBatches'[b].status = status /\ modelBatches'[b].members = modelBatches[b].members
           /\ \A c \in DOMAIN modelBatches : c # b => modelBatches'[c] = modelBatches[c]
           /\ \A c \in DOMAIN modelBatches : MembersOf(c)' = MembersOf(c)
           /\ InUse' = InUse /\ MembersStay
           /\ \A c \in DOMAIN modelBatches' : MembersOf(c)' # {}
           /\ (Covered /\ UNCHANGED agenda) => Covered'
<1> DEFINE r == [modelBatches[b] EXCEPT !.status = status, !.owner = owner]
           N == Len(modelBatches)
<1>1. modelBatches \in Seq(Batches)
      BY DEF AnalysisInv, BatchAnalysisTypeOK
<1>2. b \in DOMAIN modelBatches /\ modelBatches[b].status # "superseded"
      BY DEF Moves, InUse
<1>3. modelBatches[b] \in Batches
      BY <1>1, <1>2
<1>4. r \in Batches /\ r.status = status /\ r.members = modelBatches[b].members
      BY <1>3 DEF Batches
<1>5. modelBatches' = [modelBatches EXCEPT ![b] = r]
      BY DEF Moves
<1> HIDE DEF r
<1>6. N \in Nat /\ DOMAIN modelBatches = 1..N /\ modelBatches \in [1..N -> Batches]
      BY <1>1
<1>7. modelBatches' \in [1..N -> Batches]
      BY <1>4, <1>5, <1>6
<1>8. modelBatches' \in Seq(Batches) /\ DOMAIN modelBatches' = DOMAIN modelBatches
      BY <1>6, <1>7
<1>9. /\ modelBatches'[b] = r
      /\ \A c \in DOMAIN modelBatches : c # b => modelBatches'[c] = modelBatches[c]
      BY <1>2, <1>5, <1>6
<1>10. \A c \in DOMAIN modelBatches : modelBatches'[c].members = modelBatches[c].members
       BY <1>4, <1>9
<1>11. \A c \in DOMAIN modelBatches : MembersOf(c)' = MembersOf(c)
       BY <1>10 DEF MembersOf
<1>12. InUse' = InUse
       BY <1>2, <1>4, <1>8, <1>9 DEF InUse
<1>13. MembersStay
       BY <1>4, <1>8, <1>9, <1>10 DEF MembersStay, Completed, Moves
<1>14. \A c \in DOMAIN modelBatches' : MembersOf(c)' # {}
  <2>1. BatchesAreFounded
        BY DEF AnalysisInv
  <2> QED BY <1>8, <1>11, <2>1 DEF BatchesAreFounded
<1>15. (Covered /\ UNCHANGED agenda) => Covered'
  <2>1. \A c \in InUse : MembersOf(c)' = MembersOf(c)
        BY <1>11 DEF InUse
  <2>2. UNION {MembersOf(c)' : c \in InUse'} = UNION {MembersOf(c) : c \in InUse}
        BY <1>12, <2>1
  <2> QED BY <2>2 DEF Covered
<1> QED BY <1>2, <1>4, <1>8, <1>9, <1>10, <1>11, <1>12, <1>13, <1>14, <1>15

\* A batch that is claimed or given back keeps the findings as they were.
LEMMA OpenBatchMoves ==
    ASSUME AnalysisInv, NEW b, NEW status \in {"pending", "claimed"},
           NEW owner \in Analyst \cup {"none"}, Moves(b, status, owner), UNCHANGED findings
    PROVE  BatchesAreFounded' /\ FindingsComeFromTheirBatch' /\ FindingsStay
<1>1. BatchesAreFounded /\ FindingsComeFromTheirBatch
      BY DEF AnalysisInv, EveryItemIsAnalysed
<1>2. /\ DOMAIN modelBatches' = DOMAIN modelBatches /\ b \in DOMAIN modelBatches
      /\ modelBatches'[b].status = status
      /\ \A c \in DOMAIN modelBatches : c # b => modelBatches'[c] = modelBatches[c]
      /\ \A c \in DOMAIN modelBatches : MembersOf(c)' = MembersOf(c)
      /\ InUse' = InUse
      /\ \A c \in DOMAIN modelBatches' : MembersOf(c)' # {}
      BY BatchMoves
<1>3. modelBatches[b].status # "completed"
      BY DEF Moves, Completed
<1>4. \A c \in DOMAIN modelBatches :
          modelBatches'[c].status = "completed" <=> modelBatches[c].status = "completed"
      BY <1>2, <1>3
<1>5. \A i \in Item : findings[i] # NoAnswer => findings[i].batch \in DOMAIN modelBatches
      BY <1>1 DEF BatchesAreFounded
<1>6. BatchesAreFounded'
      BY <1>2, <1>5 DEF BatchesAreFounded
<1>7. \A c, d \in InUse' : c # d => MembersOf(c)' \cap MembersOf(d)' = {}
  <2>1. \A c \in InUse : MembersOf(c)' = MembersOf(c)
        BY <1>2 DEF InUse
  <2> QED BY <1>1, <1>2, <2>1 DEF FindingsComeFromTheirBatch
<1>8. \A i \in Item : findings'[i] # NoAnswer <=>
          \E c \in DOMAIN modelBatches' : modelBatches'[c].status = "completed" /\ i \in MembersOf(c)'
      BY <1>1, <1>2, <1>4 DEF FindingsComeFromTheirBatch
<1>9. ASSUME NEW c \in DOMAIN modelBatches', modelBatches'[c].status = "completed",
             NEW i \in MembersOf(c)'
      PROVE  IF i \in TemplateItems(MembersOf(c)')
             THEN /\ findings'[i].part = "template"
                  /\ ProfileIn(MembersOf(findings[i].batch)') = ProfileOf[i]
             ELSE findings'[i].part = "rest" /\ findings'[i].batch = c
  <2>1. c \in DOMAIN modelBatches /\ modelBatches[c].status = "completed" /\ i \in MembersOf(c)
        /\ MembersOf(c)' = MembersOf(c)
        BY <1>2, <1>4, <1>9
  <2>2. IF i \in TemplateItems(MembersOf(c))
        THEN /\ findings[i].part = "template"
             /\ ProfileIn(MembersOf(findings[i].batch)) = ProfileOf[i]
        ELSE findings[i].part = "rest" /\ findings[i].batch = c
        BY <1>1, <2>1 DEF FindingsComeFromTheirBatch
  <2>3. findings[i].batch \in DOMAIN modelBatches
    <3>1. modelBatches[c] \in Batches
          BY <2>1 DEF AnalysisInv, BatchAnalysisTypeOK
    <3>2. i \in Item
          BY <2>1, <3>1 DEF Batches, MembersOf
    <3> QED BY <1>1, <1>5, <2>1, <3>2 DEF FindingsComeFromTheirBatch
  <2>4. MembersOf(findings[i].batch)' = MembersOf(findings[i].batch)
        BY <1>2, <2>3
  <2> QED BY <2>1, <2>2, <2>4
<1>10. FindingsComeFromTheirBatch'
       BY <1>7, <1>8, <1>9 DEF FindingsComeFromTheirBatch
<1>11. FindingsStay
       BY DEF FindingsStay
<1> QED BY <1>6, <1>10, <1>11

\* A batch is claimed by the worker that holds the run, for the frozen action,
\* and given back by anybody.
LEMMA OpenBatchStep ==
    ASSUME AnalysisInv, NEW w \in Analyst, NEW b, NEW status \in {"pending", "claimed"},
           NEW owner \in Analyst \cup {"none"}, Moves(b, status, owner),
           UNCHANGED <<graph, agenda, tries, noted, templates, findings, mishaps>>,
           status = "claimed" =>
              /\ Holds(w) /\ graph.status = "running"
              /\ graph.frozen = [kind |-> "batch", members |-> MembersOf(b)],
           Typed(w), IterationIsFounded(w)'
    PROVE  AnalysisInv'
<1>1. BatchAnalysisTypeOK /\ GraphIsFounded /\ ClaimsAreFrozen /\ AggregationIsComplete
      /\ BlockedMeansUnanswered /\ graph \in Graphs
      BY DEF AnalysisInv, EveryItemIsAnalysed, BatchAnalysisTypeOK
<1>2. /\ modelBatches' \in Seq(Batches) /\ DOMAIN modelBatches' = DOMAIN modelBatches
      /\ b \in DOMAIN modelBatches
      /\ modelBatches'[b].status = status
      /\ \A c \in DOMAIN modelBatches : c # b => modelBatches'[c] = modelBatches[c]
      /\ \A c \in DOMAIN modelBatches : MembersOf(c)' = MembersOf(c)
      /\ MembersStay
      /\ Covered => Covered'
      BY BatchMoves
<1>3. BatchesAreFounded' /\ FindingsComeFromTheirBatch' /\ FindingsStay
      BY OpenBatchMoves
<1>4. BatchAnalysisTypeOK'
  <2>1. \A c \in DOMAIN modelBatches' : modelBatches'[c].members \subseteq agenda'.items
        BY <1>1, <1>2 DEF BatchAnalysisTypeOK, MembersOf
  <2> QED BY <1>1, <1>2, <2>1 DEF BatchAnalysisTypeOK, Typed
<1>5. TemplatesAreFounded'
      BY <1>2, TemplatesUntouched
<1>6. GraphIsFounded'
      BY <1>1 DEF GraphIsFounded
<1>7. \A c \in DOMAIN modelBatches' : Claimed(c)' => Claimed(c) \/ (c = b /\ status = "claimed")
      BY <1>2 DEF Claimed
<1>8. ClaimsAreFrozen'
  <2> SUFFICES ASSUME NEW c \in DOMAIN modelBatches', Claimed(c)'
               PROVE  graph'.frozen = [kind |-> "batch", members |-> MembersOf(c)']
      BY DEF ClaimsAreFrozen
  <2>1. MembersOf(c)' = MembersOf(c) /\ c \in DOMAIN modelBatches
        BY <1>2
  <2> DEFINE M == MembersOf(c)
  <2>2. graph.frozen = [kind |-> "batch", members |-> M]
    <3>1. CASE Claimed(c)
          BY <1>1, <2>1, <3>1 DEF ClaimsAreFrozen
    <3>2. CASE c = b /\ status = "claimed"
          BY <3>2
    <3> QED BY <1>7, <3>1, <3>2
  <2> HIDE DEF M
  <2>3. graph'.frozen = [kind |-> "batch", members |-> M]
        BY <2>2
  <2> QED BY <2>1, <2>3 DEF M
<1>9. EveryItemIsAnalysed'
  <2>1. AggregationIsComplete'
        BY <1>1 DEF AggregationIsComplete
  <2>2. BlockedMeansUnanswered'
        BY <1>1, <1>2, <1>7 DEF BlockedMeansUnanswered, Claimed
  <2> QED BY <1>3, <2>1, <2>2 DEF EveryItemIsAnalysed
<1>10. ASSUME NEW v \in Analyst, v # w PROVE IterationIsFounded(v)'
  <2>1. analyst'[v] = analyst[v] /\ IterationIsFounded(v)
        BY <1>10 DEF Typed, AnalysisInv
  <2>2. CursorMovesOn /\ QuestionMovesOn
        BY <1>1 DEF CursorMovesOn, QuestionMovesOn, Graphs
  <2>3. HolderIsAlone(v)
        BY <1>2, <1>7, <1>10 DEF HolderIsAlone, Holds, Claimed
  <2> QED BY <1>1, <1>2, <1>3, <1>4, <2>1, <2>2, <2>3, IterationStays
<1> QED BY <1>3, <1>4, <1>5, <1>6, <1>8, <1>9, <1>10 DEF AnalysisInv

LEMMA ClaimModelBatchStep ==
    ASSUME AnalysisInv, NEW w \in Analyst, ClaimModelBatch(w)
    PROVE  AnalysisInv'
<1> DEFINE h == analyst[w]
           exact == ExactBatch(h.action.members)
           part(c) == IF TemplateItems(MembersOf(c)) # {} THEN "template" ELSE "rest"
<1>1. /\ BatchAnalysisTypeOK /\ GraphIsFounded /\ graph \in Graphs
      /\ analyst \in [Analyst -> Iterations] /\ h \in Iterations /\ IterationIsFounded(w)
      BY DEF AnalysisInv, BatchAnalysisTypeOK
<1>2. /\ h.pc = "act" /\ h.pc \in ActingPc /\ h.action.kind = "batch"
      /\ UNCHANGED <<agenda, tries, noted, templates, findings, mishaps>>
      BY DEF ClaimModelBatch, IsAt, ActingPc
<1>3. CASE Fails(w) /\ UNCHANGED modelBatches
      BY <1>2, <1>3, FailsStep
<1>4. CASE Drops(w) /\ UNCHANGED modelBatches
  <2>1. mishaps' \in 0..MaxMishaps
        BY <1>1, <1>2 DEF BatchAnalysisTypeOK
  <2> QED BY <1>2, <1>4, <2>1, DropsStep
<1>5. ASSUME NEW b \in exact, modelBatches[b].status # "completed", Active(w),
             modelBatches' = [modelBatches EXCEPT ![b].status = "claimed", ![b].owner = w],
             analyst' = [analyst EXCEPT ![w].pc = "resume", ![w].batch = b, ![w].part = part(b)],
             UNCHANGED graph
      PROVE  AnalysisInv'
  <2> DEFINE M == MembersOf(b)
  <2>2. b \in DOMAIN modelBatches /\ M = h.action.members /\ b \in InUse /\ ~Completed(b)
        BY <1>5 DEF ExactBatch, MembersOf, InUse, Completed
  <2>3. Moves(b, "claimed", w)
    <3>1. modelBatches' = [modelBatches EXCEPT ![b] =
              [modelBatches[b] EXCEPT !.status = "claimed", !.owner = w]]
          BY <1>5, <2>2
    <3> QED BY <2>2, <3>1 DEF Moves
  <2>4. Holds(w) /\ Current(w) /\ graph.status = "running" /\ graph.frozen = h.action
        BY <1>1, <1>2, <1>5 DEF Active, IterationIsFounded, CursorsAreOld, ActionsAreFrozen
  <2>5. h.action = [kind |-> "batch", members |-> M]
    <3>1. h.action \in Acts
          BY <1>1 DEF Iterations
    <3> QED BY <1>2, <2>2, <3>1 DEF Acts
  <2>6. Unanswered(b)
        BY <2>2, OpenMeansUnanswered
  <2>7. PICK p \in Answerable : /\ p = part(b)
                                /\ p = "template" => TemplateItems(M) # {}
                                /\ p = "rest" => TemplateItems(M) = {}
        BY DEF Answerable
  <2>8. b \in Nat
        BY <1>1, <2>2 DEF BatchAnalysisTypeOK
  <2>9. /\ Typed(w) /\ analyst'[w].pc = "resume" /\ analyst'[w].batch = b
        /\ analyst'[w].part = p /\ analyst'[w].cursor = h.cursor /\ analyst'[w].action = h.action
    <3>1. analyst' = [analyst EXCEPT ![w] =
              [h EXCEPT !.pc = "resume", !.batch = b, !.part = p]]
          BY <1>1, <1>5, <2>7
    <3>2. [h EXCEPT !.pc = "resume", !.batch = b, !.part = p] \in Iterations
          BY <1>1, <2>7, <2>8 DEF Iterations, AnalysisPcs
    <3> QED BY <1>1, <3>1, <3>2 DEF Typed, Iterations
  <2>10. DOMAIN modelBatches' = DOMAIN modelBatches /\ MembersOf(b)' = M
         BY <2>2, <2>3, BatchMoves
  <2>11. IterationIsFounded(w)'
    <3>1. CursorsAreOld(w)' /\ ActionsAreFrozen(w)' /\ OffersAreFounded(w)'
          BY <1>1, <1>2, <1>5, <2>9, ActsOn DEF ActingPc, BatchPc
    <3>2. Unanswered(b)'
          BY <1>2, <2>6, <2>10 DEF Unanswered
    <3>3. BatchWorkIsFounded(w)'
          BY <2>2, <2>5, <2>7, <2>9, <2>10, <3>2 DEF BatchWorkIsFounded
    <3>4. CommitsAreFounded(w)'
          BY <2>9 DEF CommitsAreFounded
    <3> QED BY <3>1, <3>3, <3>4 DEF IterationIsFounded
  <2> QED BY <1>2, <1>5, <2>3, <2>4, <2>5, <2>9, <2>11, OpenBatchStep
<1>6. ASSUME exact # {} PROVE (CHOOSE c \in exact : TRUE) \in exact
      BY <1>6
<1> HIDE DEF exact
<1> QED BY <1>3, <1>4, <1>5, <1>6 DEF ClaimModelBatch, exact

\* The findings of a batch that is completed, from its template and its rest.
LEMMA CompletedBatch ==
    ASSUME AnalysisInv, NEW b \in InUse, ~Completed(b), Moves(b, "completed", "none"),
           NEW a \in Answers,
           TemplateItems(MembersOf(b)) # {} => AnswersFor(a, ProfileIn(MembersOf(b))),
           findings' = [i \in Item |->
               IF i \in MembersOf(b)
               THEN IF i \in TemplateItems(MembersOf(b)) THEN a ELSE Answer(b, "rest")
               ELSE findings[i]]
    PROVE  /\ findings' \in [Item -> Answers] /\ FindingsStay
           /\ BatchesAreFounded' /\ FindingsComeFromTheirBatch'
<1> DEFINE M == MembersOf(b)
           T == TemplateItems(M)
           rest == Answer(b, "rest")
<1>1. BatchAnalysisTypeOK /\ BatchesAreFounded /\ FindingsComeFromTheirBatch
      BY DEF AnalysisInv, EveryItemIsAnalysed
<1>2. /\ DOMAIN modelBatches' = DOMAIN modelBatches /\ b \in DOMAIN modelBatches
      /\ modelBatches'[b].status = "completed"
      /\ \A c \in DOMAIN modelBatches : c # b => modelBatches'[c] = modelBatches[c]
      /\ \A c \in DOMAIN modelBatches : MembersOf(c)' = MembersOf(c)
      /\ InUse' = InUse
      /\ \A c \in DOMAIN modelBatches' : MembersOf(c)' # {}
      BY BatchMoves
<1>3. modelBatches[b] \in Batches /\ b \in Nat
      BY <1>1, <1>2 DEF BatchAnalysisTypeOK
<1>4. M \in SUBSET Item
      BY <1>3 DEF Batches, MembersOf
<1>5. T \subseteq M /\ (T # {} => \A i \in T : ProfileOf[i] = ProfileIn(M))
      BY <1>4, TemplateFacts
<1>6. rest \in Answers /\ rest # NoAnswer /\ rest.batch = b /\ rest.part = "rest"
      BY <1>3 DEF Answer, Answers, Answerable, NoAnswer
<1>7. ASSUME T # {}
      PROVE  /\ a.part = "template" /\ a # NoAnswer /\ a.batch \in DOMAIN modelBatches
             /\ ProfileIn(MembersOf(a.batch)) = ProfileIn(M)
      BY <1>7 DEF AnswersFor, NoAnswer, Answer
<1>8. Unanswered(b)
      BY OpenMeansUnanswered
<1> HIDE DEF rest, T, M
<1>9. /\ \A i \in Item : i \notin M => findings'[i] = findings[i]
      /\ \A i \in T : findings'[i] = a
      /\ \A i \in M \ T : findings'[i] = rest
      BY <1>4, <1>5 DEF M, T, rest
<1>10. findings' \in [Item -> Answers]
  <2>1. findings \in [Item -> Answers]
        BY <1>1 DEF BatchAnalysisTypeOK
  <2> QED BY <1>6, <2>1 DEF M, T, rest
<1>11. FindingsStay
       BY <1>4, <1>8, <1>9 DEF FindingsStay, Unanswered, M
<1>12. BatchesAreFounded'
  <2>1. \A i \in Item : findings'[i] # NoAnswer => findings'[i].batch \in DOMAIN modelBatches'
        BY <1>1, <1>2, <1>6, <1>7, <1>9 DEF BatchesAreFounded
  <2> QED BY <1>2, <2>1 DEF BatchesAreFounded
<1>13. \A c, d \in InUse' : c # d => MembersOf(c)' \cap MembersOf(d)' = {}
  <2>1. \A c \in InUse : MembersOf(c)' = MembersOf(c)
        BY <1>2 DEF InUse
  <2> QED BY <1>1, <1>2, <2>1 DEF FindingsComeFromTheirBatch
<1>14. \A c \in DOMAIN modelBatches :
           modelBatches'[c].status = "completed" <=> Completed(c) \/ c = b
       BY <1>2 DEF Completed
<1>15. ASSUME NEW i \in Item
       PROVE  findings'[i] # NoAnswer <=>
          \E c \in DOMAIN modelBatches' : modelBatches'[c].status = "completed" /\ i \in MembersOf(c)'
  <2>1. (\E c \in DOMAIN modelBatches' : modelBatches'[c].status = "completed" /\ i \in MembersOf(c)')
        <=> (i \in M \/ \E c \in DOMAIN modelBatches : Completed(c) /\ i \in MembersOf(c))
        BY <1>2, <1>14 DEF M
  <2>2. findings[i] # NoAnswer <=> \E c \in DOMAIN modelBatches : Completed(c) /\ i \in MembersOf(c)
        BY <1>1 DEF FindingsComeFromTheirBatch, Completed
  <2>3. i \in M => findings'[i] # NoAnswer
        BY <1>6, <1>7, <1>9
  <2>4. i \notin M => findings'[i] = findings[i]
        BY <1>9
  <2> QED BY <2>1, <2>2, <2>3, <2>4
<1>16. ASSUME NEW c \in DOMAIN modelBatches', modelBatches'[c].status = "completed",
              NEW i \in MembersOf(c)'
       PROVE  IF i \in TemplateItems(MembersOf(c)')
              THEN /\ findings'[i].part = "template"
                   /\ ProfileIn(modelBatches'[findings'[i].batch].members) = ProfileOf[i]
              ELSE findings'[i].part = "rest" /\ findings'[i].batch = c
  <2>1. c \in DOMAIN modelBatches /\ i \in MembersOf(c) /\ MembersOf(c)' = MembersOf(c)
        BY <1>2, <1>16
  <2>2. CASE c = b
    <3>1. CASE i \in T
      <4>1. findings'[i] = a /\ a.part = "template" /\ a.batch \in DOMAIN modelBatches
            /\ ProfileIn(MembersOf(a.batch)) = ProfileOf[i]
            BY <1>5, <1>7, <1>9, <3>1
      <4>2. modelBatches'[a.batch].members = MembersOf(a.batch)
            BY <1>2, <4>1 DEF MembersOf
      <4> QED BY <2>1, <2>2, <3>1, <4>1, <4>2 DEF T, M
    <3>2. CASE i \notin T
      <4>1. findings'[i] = rest
            BY <1>9, <2>1, <2>2, <3>2 DEF M
      <4> QED BY <1>6, <2>1, <2>2, <3>2, <4>1 DEF T, M
    <3> QED BY <3>1, <3>2
  <2>3. CASE c # b
    <3>1. Completed(c) /\ c \in InUse
          BY <1>14, <1>16, <2>1, <2>3 DEF InUse, Completed
    <3>2. i \notin M
          BY <1>1, <2>1, <2>3, <3>1 DEF FindingsComeFromTheirBatch, M
    <3>3. i \in Item
      <4>1. modelBatches[c] \in Batches
            BY <1>1, <2>1 DEF BatchAnalysisTypeOK
      <4> QED BY <2>1, <4>1 DEF Batches, MembersOf
    <3>4. findings'[i] = findings[i] /\ findings[i] # NoAnswer
          BY <1>1, <1>9, <2>1, <3>1, <3>2, <3>3 DEF FindingsComeFromTheirBatch, Completed
    <3>5. IF i \in TemplateItems(MembersOf(c))
          THEN /\ findings[i].part = "template"
               /\ ProfileIn(MembersOf(findings[i].batch)) = ProfileOf[i]
          ELSE findings[i].part = "rest" /\ findings[i].batch = c
          BY <1>1, <2>1, <3>1 DEF FindingsComeFromTheirBatch, Completed
    <3>6. modelBatches'[findings[i].batch].members = MembersOf(findings[i].batch)
      <4>1. findings[i].batch \in DOMAIN modelBatches
            BY <1>1, <3>3, <3>4 DEF BatchesAreFounded
      <4> QED BY <1>2, <4>1 DEF MembersOf
    <3> QED BY <2>1, <3>4, <3>5, <3>6
  <2> QED BY <2>2, <2>3
<1>17. FindingsComeFromTheirBatch'
       BY <1>13, <1>15, <1>16 DEF FindingsComeFromTheirBatch, MembersOf
<1> QED BY <1>10, <1>11, <1>12, <1>17

LEMMA FinalizeBatchStep ==
    ASSUME AnalysisInv, NEW w \in Analyst, FinalizeBatch(w)
    PROVE  AnalysisInv'
<1> DEFINE h == analyst[w]
<1>1. /\ BatchAnalysisTypeOK /\ GraphIsFounded /\ graph \in Graphs
      /\ analyst \in [Analyst -> Iterations] /\ h \in Iterations /\ IterationIsFounded(w)
      BY DEF AnalysisInv, BatchAnalysisTypeOK
<1>2. /\ h.pc = "finalize" /\ h.pc \in BatchPc /\ h.pc \in ActingPc
      /\ UNCHANGED <<agenda, tries, noted, templates, mishaps>>
      BY DEF FinalizeBatch, IsAt, BatchPc, ActingPc
<1>3. PICK b \in DOMAIN modelBatches :
          /\ b = h.batch
          /\ h.action = [kind |-> "batch", members |-> MembersOf(b)]
          /\ TemplateItems(MembersOf(b)) # {} => AnswersFor(h.template, ProfileIn(MembersOf(b)))
          /\ Holds(w) => Unanswered(b)
      BY <1>1, <1>2 DEF IterationIsFounded, BatchWorkIsFounded
<1>4. h.action.kind = "batch" /\ h.action.members = MembersOf(b)
      BY <1>3
<1>5. ASSUME Goes(w, "commit")
      PROVE  /\ Typed(w) /\ analyst'[w].pc = "commit" /\ analyst'[w].cursor = h.cursor
             /\ analyst'[w].action = h.action
  <2>1. Typed(w) /\ analyst'[w] = [h EXCEPT !.pc = "commit"]
        BY <1>1, <1>5, GoesTyped DEF AnalysisPcs
  <2> QED BY <1>1, <2>1 DEF Iterations
<1>6. ASSUME Goes(w, "commit"), UNCHANGED graph, b \in DOMAIN modelBatches',
             Completed(b)', MembersOf(b)' = MembersOf(b)
      PROVE  IterationIsFounded(w)'
  <2>1. CursorsAreOld(w)' /\ ActionsAreFrozen(w)' /\ OffersAreFounded(w)'
        BY <1>1, <1>2, <1>5, <1>6, ActsOn DEF ActingPc, BatchPc
  <2>2. BatchWorkIsFounded(w)' /\ CommitsAreFounded(w)'
        BY <1>4, <1>5, <1>6 DEF BatchWorkIsFounded, CommitsAreFounded, BatchPc
  <2> QED BY <2>1, <2>2 DEF IterationIsFounded
<1>7. CASE Fails(w) /\ UNCHANGED <<modelBatches, findings>>
      BY <1>2, <1>4, <1>7, FailsStep
<1>8. CASE Completed(b) /\ Goes(w, "commit") /\ UNCHANGED <<graph, modelBatches, findings>>
  <2>1. IterationIsFounded(w)'
        BY <1>6, <1>8 DEF Completed, MembersOf
  <2>2. \A v \in Analyst : analyst'[v] = analyst[v] \/ IterationIsFounded(v)'
        BY <1>5, <1>8, <2>1 DEF Typed
  <2>3. BatchAnalysisTypeOK' /\ TemplatesAreFounded'
        BY <1>1, <1>2, <1>5, <1>8, TriesUntouched, MemoryTyped, NothingMoves, TemplatesUntouched
        DEF Typed, BatchAnalysisTypeOK
  <2> QED BY <1>2, <1>8, <2>2, <2>3, Loosened
<1>9. CASE /\ MayFinalize(w) /\ Goes(w, "commit") /\ UNCHANGED graph
           /\ modelBatches' = [modelBatches EXCEPT ![b] = Unleased(modelBatches[b], "completed")]
           /\ findings' = [i \in Item |->
                 IF i \in MembersOf(b)
                 THEN IF i \in TemplateItems(MembersOf(b)) THEN h.template ELSE Answer(b, "rest")
                 ELSE findings[i]]
  <2>1. Holds(w) /\ graph.status = "running" /\ graph.node = "analyze" /\ Claimed(b)
        BY <1>3, <1>9 DEF MayFinalize, Active, Claimed
  <2>2. b \in InUse /\ ~Completed(b) /\ Moves(b, "completed", "none")
        BY <1>9, <2>1 DEF InUse, Completed, Claimed, Moves, Unleased
  <2>3. h.template \in Answers
        BY <1>1 DEF Iterations
  <2>4. /\ findings' \in [Item -> Answers] /\ FindingsStay
        /\ BatchesAreFounded' /\ FindingsComeFromTheirBatch'
        BY <1>3, <1>9, <2>2, <2>3, CompletedBatch
  <2>5. /\ modelBatches' \in Seq(Batches) /\ DOMAIN modelBatches' = DOMAIN modelBatches
        /\ modelBatches'[b].status = "completed"
        /\ \A c \in DOMAIN modelBatches : c # b => modelBatches'[c] = modelBatches[c]
        /\ \A c \in DOMAIN modelBatches : MembersOf(c)' = MembersOf(c)
        /\ MembersStay
        /\ Covered => Covered'
        BY <1>2, <2>2, BatchMoves
  <2>6. BatchAnalysisTypeOK'
    <3>1. \A c \in DOMAIN modelBatches' : modelBatches'[c].members \subseteq agenda'.items
          BY <1>1, <1>2, <2>5 DEF BatchAnalysisTypeOK, MembersOf
    <3> QED BY <1>1, <1>2, <1>5, <1>9, <2>4, <2>5, <3>1 DEF BatchAnalysisTypeOK, Typed
  <2>7. TemplatesAreFounded'
        BY <1>2, <2>5, TemplatesUntouched
  <2>8. GraphIsFounded'
        BY <1>1, <1>2, <1>9 DEF GraphIsFounded
  <2>9. \A c \in DOMAIN modelBatches' : Claimed(c)' => Claimed(c)
        BY <2>1, <2>5 DEF Claimed
  <2>10. ClaimsAreFrozen'
    <3> SUFFICES ASSUME NEW c \in DOMAIN modelBatches', Claimed(c)'
                 PROVE  graph'.frozen = [kind |-> "batch", members |-> MembersOf(c)']
        BY DEF ClaimsAreFrozen
    <3> DEFINE M == MembersOf(c)
    <3>1. graph.frozen = [kind |-> "batch", members |-> M] /\ MembersOf(c)' = M
          BY <2>5, <2>9 DEF AnalysisInv, ClaimsAreFrozen
    <3> HIDE DEF M
    <3> QED BY <1>9, <3>1
  <2>11. EveryItemIsAnalysed'
    <3>1. graph.frozen = h.action
          BY <1>1, <1>2, <2>1 DEF IterationIsFounded, CursorsAreOld, ActionsAreFrozen, BatchPc
    <3>2. AggregationIsComplete' /\ BlockedMeansUnanswered'
          BY <1>4, <1>9, <2>1, <3>1 DEF AggregationIsComplete, BlockedMeansUnanswered
    <3> QED BY <2>4, <3>2 DEF EveryItemIsAnalysed
  <2>12. IterationIsFounded(w)'
    <3>1. b \in DOMAIN modelBatches' /\ Completed(b)' /\ MembersOf(b)' = MembersOf(b)
          BY <2>5 DEF Completed
    <3> QED BY <1>6, <1>9, <3>1
  <2>13. ASSUME NEW v \in Analyst, v # w PROVE IterationIsFounded(v)'
    <3>1. analyst'[v] = analyst[v] /\ IterationIsFounded(v)
          BY <1>5, <1>9, <2>13 DEF Typed, AnalysisInv
    <3>2. CursorMovesOn /\ QuestionMovesOn
          BY <1>1, <1>2, <1>9 DEF CursorMovesOn, QuestionMovesOn, Graphs
    <3>3. HolderIsAlone(v)
          BY <1>9, <2>1, <2>13 DEF HolderIsAlone, Holds
    <3> QED BY <1>1, <2>4, <2>5, <2>6, <3>1, <3>2, <3>3, IterationStays
  <2> QED BY <2>4, <2>6, <2>7, <2>8, <2>10, <2>11, <2>12, <2>13 DEF AnalysisInv
<1>10. \/ Fails(w) /\ UNCHANGED <<modelBatches, findings>>
       \/ Completed(b) /\ Goes(w, "commit") /\ UNCHANGED <<graph, modelBatches, findings>>
       \/ /\ MayFinalize(w) /\ Goes(w, "commit") /\ UNCHANGED graph
          /\ modelBatches' = [modelBatches EXCEPT ![b] = Unleased(modelBatches[b], "completed")]
          /\ findings' = [i \in Item |->
                 IF i \in MembersOf(b)
                 THEN IF i \in TemplateItems(MembersOf(b)) THEN h.template ELSE Answer(b, "rest")
                 ELSE findings[i]]
  <2> DEFINE said == [i \in Item |-> IF i \in TemplateItems(MembersOf(b)) THEN h.template
                                     ELSE Answer(b, "rest")]
             found == [i \in Item |-> IF i \in MembersOf(b) THEN said[i] ELSE findings[i]]
  <2>1. found = [i \in Item |->
                 IF i \in MembersOf(b)
                 THEN IF i \in TemplateItems(MembersOf(b)) THEN h.template ELSE Answer(b, "rest")
                 ELSE findings[i]]
        OBVIOUS
  <2>2. \/ Fails(w) /\ UNCHANGED <<modelBatches, findings>>
        \/ modelBatches[b].status = "completed" /\ Goes(w, "commit")
           /\ UNCHANGED <<graph, modelBatches, findings>>
        \/ /\ MayFinalize(w) /\ Goes(w, "commit") /\ UNCHANGED graph
           /\ modelBatches' = [modelBatches EXCEPT ![b] = Unleased(modelBatches[b], "completed")]
           /\ findings' = found
        BY <1>3 DEF FinalizeBatch
  <2> QED BY <2>1, <2>2 DEF Completed
<1> QED BY <1>7, <1>8, <1>9, <1>10

\* A worker that blocks the run no longer finds a claim: its batch was the only
\* one, or the run is no longer its own.
LEMMA ReleasedFounded ==
    ASSUME AnalysisInv, NEW w \in Analyst, analyst[w].pc = "release", Goes(w, "block"),
           UNCHANGED <<graph, agenda, findings>>, MembersStay,
           Holds(w) => Unanswered(analyst[w].batch) /\ NothingClaimed'
    PROVE  Typed(w) /\ IterationIsFounded(w)'
<1> DEFINE h == analyst[w]
<1>1. BatchAnalysisTypeOK /\ h \in Iterations /\ IterationIsFounded(w)
      BY DEF AnalysisInv, BatchAnalysisTypeOK
<1>2. h.pc \in BatchPc /\ h.pc \in ActingPc
      BY DEF BatchPc, ActingPc
<1>3. Typed(w) /\ analyst'[w] = [h EXCEPT !.pc = "block"]
      BY <1>1, GoesTyped DEF AnalysisPcs
<1>4. /\ analyst'[w].pc = "block" /\ analyst'[w].cursor = h.cursor /\ analyst'[w].action = h.action
      /\ analyst'[w].batch = h.batch /\ analyst'[w].part = h.part /\ analyst'[w].template = h.template
      BY <1>1, <1>3 DEF Iterations
<1>5. CursorsAreOld(w)' /\ ActionsAreFrozen(w)' /\ OffersAreFounded(w)'
      BY <1>1, <1>2, <1>4, ActsOn DEF ActingPc, BatchPc
<1>6. PICK b \in DOMAIN modelBatches :
          /\ b = h.batch
          /\ h.action = [kind |-> "batch", members |-> MembersOf(b)]
          /\ h.part \in Answerable
          /\ h.part = "template" => TemplateItems(MembersOf(b)) # {}
          /\ h.part = "rest" /\ TemplateItems(MembersOf(b)) # {} =>
                AnswersFor(h.template, ProfileIn(MembersOf(b)))
      BY <1>1, <1>2 DEF IterationIsFounded, BatchWorkIsFounded
<1>7. b \in DOMAIN modelBatches' /\ MembersOf(b)' = MembersOf(b)
      BY DEF MembersStay, MembersOf
<1>8. ASSUME h.part = "rest", TemplateItems(MembersOf(b)) # {}
      PROVE  AnswersFor(analyst[w].template, ProfileIn(MembersOf(b)))'
  <2>1. PICK a \in Answers : a = h.template
        BY <1>1 DEF Iterations
  <2>2. AnswersFor(a, ProfileIn(MembersOf(b)))
        BY <1>6, <1>8, <2>1
  <2>3. a.batch \in DOMAIN modelBatches' /\ modelBatches'[a.batch].members = modelBatches[a.batch].members
        BY <2>2 DEF MembersStay, AnswersFor
  <2>4. analyst'[w].template = a
        BY <1>4, <2>1
  <2> QED BY <1>7, <2>2, <2>3, <2>4 DEF AnswersFor, MembersOf
<1>9. h.part = "rest" /\ TemplateItems(MembersOf(b)') # {} =>
          AnswersFor(analyst[w].template, ProfileIn(MembersOf(b)))'
      BY <1>7, <1>8
<1>10. Holds(w)' => Unanswered(b)' /\ NothingClaimed'
       BY <1>6, <1>7 DEF Holds, Unanswered
<1>11. BatchWorkIsFounded(w)'
       BY <1>4, <1>6, <1>7, <1>9, <1>10 DEF BatchWorkIsFounded
<1>12. CommitsAreFounded(w)'
       BY <1>4 DEF CommitsAreFounded
<1> QED BY <1>3, <1>5, <1>11, <1>12 DEF IterationIsFounded

LEMMA ReleaseBatchStep ==
    ASSUME AnalysisInv, NEW w \in Analyst, ReleaseBatch(w)
    PROVE  AnalysisInv'
<1> DEFINE h == analyst[w]
<1>1. /\ BatchAnalysisTypeOK /\ graph \in Graphs /\ ClaimsAreFrozen
      /\ analyst \in [Analyst -> Iterations] /\ h \in Iterations /\ IterationIsFounded(w)
      BY DEF AnalysisInv, BatchAnalysisTypeOK
<1>2. /\ h.pc = "release" /\ h.pc \in BatchPc /\ h.pc \in ActingPc
      /\ UNCHANGED <<agenda, tries, noted, templates, findings, mishaps>>
      BY DEF ReleaseBatch, IsAt, BatchPc, ActingPc
<1>3. PICK b \in DOMAIN modelBatches :
          /\ b = h.batch
          /\ h.action = [kind |-> "batch", members |-> MembersOf(b)]
          /\ Holds(w) => Unanswered(b)
      BY <1>1, <1>2 DEF IterationIsFounded, BatchWorkIsFounded
<1>4. \/ Fails(w) /\ UNCHANGED modelBatches
      \/ Completed(b) /\ Goes(w, "block") /\ UNCHANGED <<graph, modelBatches>>
      \/ /\ Claimed(b) /\ Goes(w, "block") /\ UNCHANGED graph
         /\ modelBatches' = [modelBatches EXCEPT ![b] = Unleased(modelBatches[b], "pending")]
      BY <1>3 DEF ReleaseBatch, Completed, Claimed
<1>5. CASE Fails(w) /\ UNCHANGED modelBatches
  <2>1. h.action.kind = "batch"
        BY <1>3
  <2> QED BY <1>2, <1>5, <2>1, FailsStep
<1>6. CASE Completed(b) /\ Goes(w, "block") /\ UNCHANGED <<graph, modelBatches>>
  <2>1. ~Holds(w)
    <3>1. PICK i \in MembersOf(b) : i \in Item
      <4>1. MembersOf(b) # {} /\ modelBatches[b] \in Batches
            BY <1>1, <1>3 DEF AnalysisInv, BatchesAreFounded, BatchAnalysisTypeOK
      <4> QED BY <4>1 DEF Batches, MembersOf
    <3>2. findings[i] # NoAnswer
          BY <1>6, <3>1 DEF AnalysisInv, EveryItemIsAnalysed, FindingsComeFromTheirBatch, Completed
    <3> QED BY <1>3, <3>1, <3>2 DEF Unanswered
  <2>2. MembersStay
        BY <1>6, NothingMoves
  <2>3. Typed(w) /\ IterationIsFounded(w)'
        BY <1>2, <1>6, <2>1, <2>2, ReleasedFounded
  <2>4. \A v \in Analyst : analyst'[v] = analyst[v] \/ IterationIsFounded(v)'
        BY <2>3 DEF Typed
  <2>5. BatchAnalysisTypeOK' /\ TemplatesAreFounded'
        BY <1>1, <1>2, <1>6, <2>3, TriesUntouched, MemoryTyped, NothingMoves, TemplatesUntouched
        DEF Typed, BatchAnalysisTypeOK
  <2> QED BY <1>2, <1>6, <2>4, <2>5, Loosened
<1>7. CASE /\ Claimed(b) /\ Goes(w, "block") /\ UNCHANGED graph
           /\ modelBatches' = [modelBatches EXCEPT ![b] = Unleased(modelBatches[b], "pending")]
  <2>1. b \in InUse /\ ~Completed(b) /\ Moves(b, "pending", "none")
        BY <1>7 DEF InUse, Completed, Claimed, Moves, Unleased
  <2>2. /\ DOMAIN modelBatches' = DOMAIN modelBatches
        /\ modelBatches'[b].status = "pending"
        /\ \A c \in DOMAIN modelBatches : c # b => modelBatches'[c] = modelBatches[c]
        /\ MembersStay
        BY <2>1, BatchMoves
  <2>3. ASSUME Holds(w), NEW c \in DOMAIN modelBatches', Claimed(c)' PROVE FALSE
    <3>1. c \in DOMAIN modelBatches /\ c # b /\ Claimed(c) /\ c \in InUse
          BY <2>2, <2>3 DEF Claimed, InUse
    <3> DEFINE M == MembersOf(c)
               B == MembersOf(b)
    <3>2. graph.frozen = [kind |-> "batch", members |-> M]
          BY <1>1, <3>1 DEF ClaimsAreFrozen
    <3>3. graph.frozen = [kind |-> "batch", members |-> B]
          BY <1>1, <1>2, <1>3, <2>3 DEF IterationIsFounded, CursorsAreOld, ActionsAreFrozen, ActingPc, BatchPc
    <3> HIDE DEF M, B
    <3>4. M = B
          BY <3>2, <3>3
    <3> QED BY <2>1, <3>1, <3>4, OneBatch DEF M, B
  <2>4. Holds(w) => Unanswered(b) /\ NothingClaimed'
        BY <1>3, <2>3 DEF NothingClaimed
  <2>5. Typed(w) /\ IterationIsFounded(w)'
        BY <1>2, <1>3, <1>7, <2>2, <2>4, ReleasedFounded
  <2> QED BY <1>2, <1>7, <2>1, <2>5, OpenBatchStep
<1> QED BY <1>4, <1>5, <1>6, <1>7

-----------------------------------------------------------------------------
(* Planning while others work *)

\* Planning again supersedes no completed batch, claims none, and covers what is
\* requested with items that no other batch in use has.
LEMMA Replanned ==
    ASSUME AnalysisInv, NEW requested \in SUBSET Item,
           NEW gone \in SUBSET DOMAIN modelBatches, PlanBatches(requested, gone),
           \A b \in gone : modelBatches[b].status \in {"pending", "claimed"},
           UNCHANGED findings
    PROVE  /\ modelBatches' \in Seq(Batches) /\ MembersStay /\ FindingsStay
           /\ \A b \in DOMAIN modelBatches' :
                 (b \in DOMAIN modelBatches /\ MembersOf(b)' = MembersOf(b))
                 \/ MembersOf(b)' \subseteq requested
           /\ BatchesAreFounded' /\ FindingsComeFromTheirBatch'
           /\ \A b \in DOMAIN modelBatches' :
                 modelBatches'[b].status = "claimed" => b \in DOMAIN modelBatches /\ Claimed(b)
           /\ \A i \in requested : \E b \in InUse' : i \in MembersOf(b)'
<1> DEFINE rest == Missing(requested, gone)
<1>1. BatchAnalysisTypeOK /\ BatchesAreFounded /\ FindingsComeFromTheirBatch
      /\ modelBatches \in Seq(Batches)
      BY DEF AnalysisInv, EveryItemIsAnalysed, BatchAnalysisTypeOK
<1>2. /\ modelBatches' \in Seq(Batches)
      /\ DOMAIN modelBatches \subseteq DOMAIN modelBatches'
      /\ \A b \in DOMAIN modelBatches :
            modelBatches'[b] = IF b \in gone THEN Unleased(modelBatches[b], "superseded")
                               ELSE modelBatches[b]
      /\ \A b \in Added :
            /\ modelBatches'[b].status = "pending"
            /\ modelBatches'[b].members # {}
            /\ modelBatches'[b].members \subseteq rest
      /\ \A b, c \in Added :
            b # c => modelBatches'[b].members \cap modelBatches'[c].members = {}
      /\ \A i \in rest : \E b \in Added : i \in modelBatches'[b].members
      BY <1>1, Planned
<1>3. /\ rest \subseteq requested
      /\ \A b \in InUse : b \notin gone => rest \cap MembersOf(b) = {}
      /\ \A i \in requested : i \in rest \/ \E b \in InUse : b \notin gone /\ i \in MembersOf(b)
      BY DEF Missing
<1> HIDE DEF rest
<1>4. ASSUME NEW b \in DOMAIN modelBatches
      PROVE  /\ modelBatches'[b].members = modelBatches[b].members
             /\ b \in gone => modelBatches'[b].status = "superseded"
             /\ b \notin gone => modelBatches'[b] = modelBatches[b]
  <2>1. PICK r \in Batches : r = modelBatches[b]
        BY <1>1
  <2>2. Unleased(r, "superseded").members = r.members
        /\ Unleased(r, "superseded").status = "superseded"
        BY DEF Unleased, Batches
  <2>3. modelBatches'[b] = IF b \in gone THEN Unleased(r, "superseded") ELSE r
        BY <1>2, <2>1
  <2> QED BY <2>1, <2>2, <2>3
<1>5. \A b \in DOMAIN modelBatches' : b \in DOMAIN modelBatches \/ b \in Added
      BY DEF Added
<1>6. \A b \in InUse' : (b \in InUse /\ b \notin gone) \/ b \in Added
      BY <1>4, <1>5 DEF InUse
<1>7. \A b \in InUse : b \notin gone => b \in InUse'
      BY <1>2, <1>4 DEF InUse
<1>8. \A b \in Added : b \in InUse' /\ b \in DOMAIN modelBatches'
      BY <1>2 DEF InUse, Added
<1>9. \A b \in InUse : MembersOf(b)' = MembersOf(b)
      BY <1>4 DEF InUse, MembersOf
<1>10. \A b \in Added : MembersOf(b)' \subseteq rest /\ MembersOf(b)' # {}
       BY <1>2 DEF MembersOf
<1>11. MembersStay /\ FindingsStay
       BY <1>2, <1>4 DEF MembersStay, FindingsStay, Completed
<1>12. \A b \in DOMAIN modelBatches' :
          (b \in DOMAIN modelBatches /\ MembersOf(b)' = MembersOf(b)) \/ MembersOf(b)' \subseteq requested
       BY <1>3, <1>4, <1>5, <1>10 DEF MembersOf
<1>13. BatchesAreFounded'
  <2>1. \A b \in DOMAIN modelBatches' : MembersOf(b)' # {}
        BY <1>1, <1>4, <1>5, <1>10 DEF BatchesAreFounded, MembersOf
  <2> QED BY <1>1, <1>2, <2>1 DEF BatchesAreFounded
<1>14. \A b \in DOMAIN modelBatches' : modelBatches'[b].status = "completed"
           <=> (b \in DOMAIN modelBatches /\ modelBatches[b].status = "completed")
       BY <1>2, <1>4, <1>5
<1>15. \A b \in DOMAIN modelBatches' :
           modelBatches'[b].status = "claimed" => b \in DOMAIN modelBatches /\ Claimed(b)
       BY <1>2, <1>4, <1>5 DEF Claimed
<1>16. \A i \in requested : \E b \in InUse' : i \in MembersOf(b)'
  <2> SUFFICES ASSUME NEW i \in requested PROVE \E b \in InUse' : i \in MembersOf(b)'
      OBVIOUS
  <2>1. CASE i \in rest
        BY <1>2, <1>8, <2>1 DEF MembersOf
  <2>2. CASE \E b \in InUse : b \notin gone /\ i \in MembersOf(b)
        BY <1>7, <1>9, <2>2
  <2> QED BY <1>3, <2>1, <2>2
<1>17. ASSUME NEW b \in InUse', NEW c \in InUse', b # c
       PROVE  MembersOf(b)' \cap MembersOf(c)' = {}
  <2>1. CASE b \in Added /\ c \in Added
        BY <1>2, <1>17, <2>1 DEF MembersOf
  <2>2. CASE b \in Added /\ c \in InUse /\ c \notin gone
        BY <1>3, <1>9, <1>10, <2>2
  <2>3. CASE c \in Added /\ b \in InUse /\ b \notin gone
        BY <1>3, <1>9, <1>10, <2>3
  <2>4. CASE b \in InUse /\ c \in InUse
        BY <1>1, <1>9, <1>17, <2>4 DEF FindingsComeFromTheirBatch
  <2> QED BY <1>6, <2>1, <2>2, <2>3, <2>4
<1>18. ASSUME NEW b \in DOMAIN modelBatches', modelBatches'[b].status = "completed",
              NEW i \in MembersOf(b)'
       PROVE  IF i \in TemplateItems(MembersOf(b)')
              THEN /\ findings'[i].part = "template"
                   /\ ProfileIn(modelBatches'[findings'[i].batch].members) = ProfileOf[i]
              ELSE findings'[i].part = "rest" /\ findings'[i].batch = b
  <2>1. b \in DOMAIN modelBatches /\ modelBatches[b].status = "completed" /\ MembersOf(b)' = MembersOf(b)
        BY <1>4, <1>14, <1>18 DEF MembersOf
  <2>2. IF i \in TemplateItems(MembersOf(b))
        THEN /\ findings[i].part = "template"
             /\ ProfileIn(MembersOf(findings[i].batch)) = ProfileOf[i]
        ELSE findings[i].part = "rest" /\ findings[i].batch = b
        BY <1>1, <1>18, <2>1 DEF FindingsComeFromTheirBatch
  <2>3. modelBatches'[findings[i].batch].members = MembersOf(findings[i].batch)
    <3>1. modelBatches[b] \in Batches
          BY <1>1, <2>1
    <3>2. i \in Item /\ i \in MembersOf(b)
          BY <1>18, <2>1, <3>1 DEF Batches, MembersOf
    <3>3. findings[i].batch \in DOMAIN modelBatches
          BY <1>1, <2>1, <3>2 DEF FindingsComeFromTheirBatch, BatchesAreFounded
    <3> QED BY <1>4, <3>3 DEF MembersOf
  <2> QED BY <2>1, <2>2, <2>3
<1>19. \A i \in Item : findings'[i] # NoAnswer <=>
           \E b \in DOMAIN modelBatches' : modelBatches'[b].status = "completed" /\ i \in MembersOf(b)'
  <2>1. \A b \in DOMAIN modelBatches : MembersOf(b)' = MembersOf(b)
        BY <1>4 DEF MembersOf
  <2> QED BY <1>1, <1>2, <1>14, <2>1 DEF FindingsComeFromTheirBatch
<1>20. FindingsComeFromTheirBatch'
       BY <1>17, <1>18, <1>19 DEF FindingsComeFromTheirBatch, MembersOf
<1> QED BY <1>2, <1>11, <1>12, <1>13, <1>15, <1>16, <1>20

LEMMA OversizedFacts ==
    ASSUME NEW lapsed \in BOOLEAN
    PROVE  /\ Oversized(lapsed) \in SUBSET DOMAIN modelBatches
           /\ \A b \in Oversized(lapsed) : modelBatches[b].status \in {"pending", "claimed"}
BY DEF Oversized

\* Every item that is planned is in a batch in use.
LEMMA RecoverPlanStep ==
    ASSUME AnalysisInv, NEW w \in Analyst, RecoverPlan(w)
    PROVE  AnalysisInv'
<1> DEFINE h == analyst[w]
<1>1. /\ BatchAnalysisTypeOK /\ GraphIsFounded /\ ClaimsAreFrozen /\ graph \in Graphs
      /\ agenda \in Agendas /\ h \in Iterations /\ IterationIsFounded(w)
      BY DEF AnalysisInv, BatchAnalysisTypeOK
<1>2. /\ h.pc = "plan" /\ Goes(w, "offer")
      /\ UNCHANGED <<graph, agenda, tries, noted, templates, findings, mishaps>>
      BY DEF RecoverPlan, IsAt, runVars
<1>3. PICK lapsed \in BOOLEAN : PlanBatches(agenda.items, Oversized(lapsed))
      BY DEF RecoverPlan
<1>4. agenda.items \in SUBSET Item
      BY <1>1 DEF Agendas
<1>5. /\ modelBatches' \in Seq(Batches) /\ MembersStay /\ FindingsStay
      /\ \A b \in DOMAIN modelBatches' :
            (b \in DOMAIN modelBatches /\ MembersOf(b)' = MembersOf(b))
            \/ MembersOf(b)' \subseteq agenda.items
      /\ BatchesAreFounded' /\ FindingsComeFromTheirBatch'
      /\ \A b \in DOMAIN modelBatches' :
            modelBatches'[b].status = "claimed" => b \in DOMAIN modelBatches /\ Claimed(b)
      /\ \A i \in agenda.items : \E b \in InUse' : i \in MembersOf(b)'
      BY <1>2, <1>3, <1>4, OversizedFacts, Replanned
<1>6. Typed(w) /\ analyst'[w] = [h EXCEPT !.pc = "offer"]
      BY <1>1, <1>2, GoesTyped DEF AnalysisPcs
<1>7. analyst'[w].pc = "offer" /\ analyst'[w].cursor = h.cursor
      BY <1>1, <1>6 DEF Iterations
<1>8. BatchAnalysisTypeOK'
  <2>1. \A b \in DOMAIN modelBatches' : modelBatches'[b].members \subseteq agenda'.items
        BY <1>1, <1>2, <1>5 DEF BatchAnalysisTypeOK, MembersOf
  <2> QED BY <1>1, <1>2, <1>5, <1>6, <2>1 DEF BatchAnalysisTypeOK, Typed
<1>9. TemplatesAreFounded' /\ GraphIsFounded'
      BY <1>1, <1>2, <1>5, TemplatesUntouched DEF GraphIsFounded
<1>10. ClaimsAreFrozen'
  <2> SUFFICES ASSUME NEW c \in DOMAIN modelBatches', Claimed(c)'
               PROVE  graph'.frozen = [kind |-> "batch", members |-> MembersOf(c)']
      BY DEF ClaimsAreFrozen
  <2>1. c \in DOMAIN modelBatches /\ Claimed(c) /\ MembersOf(c)' = MembersOf(c)
        BY <1>5 DEF Claimed, MembersStay, MembersOf
  <2> DEFINE M == MembersOf(c)
  <2>2. graph.frozen = [kind |-> "batch", members |-> M] /\ MembersOf(c)' = M
        BY <1>1, <2>1 DEF ClaimsAreFrozen
  <2> HIDE DEF M
  <2> QED BY <1>2, <2>2
<1>11. Covered'
       BY <1>2, <1>5 DEF Covered
<1>12. EveryItemIsAnalysed'
  <2>1. AggregationIsComplete /\ BlockedMeansUnanswered
        BY DEF AnalysisInv, EveryItemIsAnalysed
  <2>2. AggregationIsComplete'
        BY <1>2, <2>1 DEF AggregationIsComplete
  <2>3. BlockedMeansUnanswered'
        BY <1>2, <1>5, <2>1 DEF BlockedMeansUnanswered, Claimed
  <2> QED BY <1>5, <2>2, <2>3 DEF EveryItemIsAnalysed
<1>13. IterationIsFounded(w)'
  <2>1. CursorsAreOld(w)'
        BY <1>1, <1>2, <1>7 DEF IterationIsFounded, CursorsAreOld, Holds, Current
  <2>2. ActionsAreFrozen(w)' /\ OffersAreFounded(w)' /\ BatchWorkIsFounded(w)' /\ CommitsAreFounded(w)'
        BY <1>7, <1>11 DEF ActionsAreFrozen, OffersAreFounded, BatchWorkIsFounded,
                           CommitsAreFounded, ActingPc, BatchPc
  <2> QED BY <2>1, <2>2 DEF IterationIsFounded
<1>14. ASSUME NEW v \in Analyst, v # w PROVE IterationIsFounded(v)'
  <2>1. analyst'[v] = analyst[v] /\ IterationIsFounded(v)
        BY <1>6, <1>14 DEF Typed, AnalysisInv
  <2>2. CursorMovesOn /\ QuestionMovesOn
        BY <1>1, <1>2 DEF CursorMovesOn, QuestionMovesOn, Graphs
  <2>3. HolderIsAlone(v)
        BY <1>2, <1>5 DEF HolderIsAlone
  <2> QED BY <1>1, <1>5, <1>8, <1>11, <2>1, <2>2, <2>3, IterationStays
<1> QED BY <1>5, <1>8, <1>9, <1>10, <1>12, <1>13, <1>14 DEF AnalysisInv

LEMMA ReturnedTyped ==
    ASSUME BatchAnalysisTypeOK, NEW requested \in SUBSET Item,
           NEW gone \in SUBSET DOMAIN modelBatches
    PROVE  Returned(requested, gone) \subseteq Nat
<1> DEFINE rest == requested \ (UNION {MembersOf(b) : b \in InUse \ gone})
           new == Manifests(requested, gone)
<1>1. modelBatches \in Seq(Batches)
      BY DEF BatchAnalysisTypeOK
<1>2. InUse \subseteq Nat /\ Len(modelBatches) \in Nat
      BY <1>1 DEF InUse
<1>3. rest \in SUBSET Item
      OBVIOUS
<1> HIDE DEF rest
<1>4. IsFiniteSet(Pieces(rest))
      BY <1>3, PiecesPartition
<1>5. new = SetToSeq(Pieces(rest))
      BY DEF Manifests, rest
<1>6. DOMAIN new = 1..Cardinality(Pieces(rest)) /\ Cardinality(Pieces(rest)) \in Nat
      BY <1>4, <1>5, Enumerated
<1>7. \A k \in DOMAIN new : Len(modelBatches) + k \in Nat
      BY <1>2, <1>6
<1> QED BY <1>2, <1>7 DEF Returned

\* A plan that is noted: only at the node of the action, at its cursor.
LEMMA PlanAndNoteStep ==
    ASSUME AnalysisInv, NEW w \in Analyst, NEW k \in {"construct", "resume"},
           IsAt(w, "act"), analyst[w].action.kind = k,
           NEW items \in SUBSET Item, NEW requested \in SUBSET items,
           NEW question \in {"pending", "confirmed", "resolved"},
           agenda.items \subseteq items,
           question = agenda.question \/ (k = "resume" /\ question = "resolved"),
           k = "resume" => question = "resolved",
           PlanAndNote(w, k, items, question, requested),
           UNCHANGED <<tries, templates, findings, mishaps>>
    PROVE  AnalysisInv'
<1> DEFINE h == analyst[w]
<1>1. /\ BatchAnalysisTypeOK /\ GraphIsFounded /\ ClaimsAreFrozen /\ graph \in Graphs
      /\ agenda \in Agendas /\ h \in Iterations /\ IterationIsFounded(w)
      BY DEF AnalysisInv, BatchAnalysisTypeOK
<1>2. h.pc = "act" /\ h.pc \in ActingPc /\ h.action.kind = k
      BY DEF IsAt, ActingPc
<1>3. PICK lapsed \in BOOLEAN :
          LET gone == IF requested = {} THEN {} ELSE Oversized(lapsed)
              returned == Returned(requested, gone)
          IN  IF ~Current(w) \/ ~(noted[k] \subseteq {returned})
              THEN Drops(w) /\ UNCHANGED <<agenda, modelBatches, noted>>
              ELSE /\ PlanBatches(requested, gone)
                   /\ noted' = [noted EXCEPT ![k] = {returned}]
                   /\ agenda' = [agenda EXCEPT !.items = items, !.question = question]
                   /\ Goes(w, "commit")
                   /\ UNCHANGED graph
      BY DEF PlanAndNote
<1>4. PICK gone \in SUBSET DOMAIN modelBatches :
          /\ gone = IF requested = {} THEN {} ELSE Oversized(lapsed)
          /\ \A b \in gone : modelBatches[b].status \in {"pending", "claimed"}
      BY OversizedFacts
<1> DEFINE returned == Returned(requested, gone)
<1>5. CASE Drops(w) /\ UNCHANGED <<agenda, modelBatches, noted>>
  <2>1. mishaps' \in 0..MaxMishaps
        BY <1>1 DEF BatchAnalysisTypeOK
  <2> QED BY <1>5, <2>1, DropsStep
<1>6. CASE /\ Current(w) /\ PlanBatches(requested, gone)
           /\ noted' = [noted EXCEPT ![k] = {returned}]
           /\ agenda' = [agenda EXCEPT !.items = items, !.question = question]
           /\ Goes(w, "commit") /\ UNCHANGED graph
  <2>1. requested \in SUBSET Item
        OBVIOUS
  <2>2. graph.frozen = h.action /\ k \in KindsAt(graph.node)
    <3>1. graph.frozen = h.action
          BY <1>1, <1>2, <1>6 DEF IterationIsFounded, ActionsAreFrozen
    <3>2. graph.frozen # Nothing
          BY <1>2, <3>1 DEF Nothing
    <3> QED BY <1>1, <1>2, <3>1, <3>2 DEF GraphIsFounded
  <2>3. graph.node \notin {"analyze", "aggregate", "blocked"} /\ graph.frozen.kind = k
        /\ (graph.node = "construct" => k = "construct")
        BY <1>2, <2>2 DEF KindsAt
  <2>4. /\ modelBatches' \in Seq(Batches) /\ MembersStay /\ FindingsStay
        /\ \A b \in DOMAIN modelBatches' :
              (b \in DOMAIN modelBatches /\ MembersOf(b)' = MembersOf(b))
              \/ MembersOf(b)' \subseteq requested
        /\ BatchesAreFounded' /\ FindingsComeFromTheirBatch'
        /\ \A b \in DOMAIN modelBatches' :
              modelBatches'[b].status = "claimed" => b \in DOMAIN modelBatches /\ Claimed(b)
        BY <1>4, <1>6, <2>1, Replanned
  <2>5. agenda' \in Agendas /\ agenda'.items = items /\ agenda'.question = question
        BY <1>1, <1>6 DEF Agendas
  <2>6. Typed(w) /\ analyst'[w] = [h EXCEPT !.pc = "commit"]
        BY <1>1, <1>6, GoesTyped DEF AnalysisPcs
  <2>7. analyst'[w].pc = "commit" /\ analyst'[w].cursor = h.cursor /\ analyst'[w].action = h.action
        BY <1>1, <2>6 DEF Iterations
  <2>8. BatchAnalysisTypeOK'
    <3>1. \A b \in DOMAIN modelBatches' : modelBatches'[b].members \subseteq agenda'.items
          BY <1>1, <2>4, <2>5 DEF BatchAnalysisTypeOK, MembersOf
    <3>2. noted' \in [{"construct", "resume"} -> SUBSET SUBSET Nat]
      <4>1. returned \in SUBSET Nat
            BY <1>1, <2>1, ReturnedTyped
      <4> HIDE DEF returned
      <4> QED BY <1>1, <1>6, <4>1 DEF BatchAnalysisTypeOK
    <3> QED BY <1>1, <1>6, <2>4, <2>5, <2>6, <3>1, <3>2 DEF BatchAnalysisTypeOK, Typed
  <2>9. TemplatesAreFounded'
        BY <2>4, TemplatesUntouched
  <2>10. GraphIsFounded'
         BY <1>1, <1>6, <2>3, <2>5 DEF GraphIsFounded
  <2>11. ClaimsAreFrozen'
    <3> SUFFICES ASSUME NEW c \in DOMAIN modelBatches', Claimed(c)'
                 PROVE  graph'.frozen = [kind |-> "batch", members |-> MembersOf(c)']
        BY DEF ClaimsAreFrozen
    <3>1. c \in DOMAIN modelBatches /\ Claimed(c)
          BY <2>4 DEF Claimed
    <3> DEFINE M == MembersOf(c)
    <3>2. graph.frozen = [kind |-> "batch", members |-> M] /\ MembersOf(c)' = M
          BY <1>1, <2>4, <3>1 DEF ClaimsAreFrozen, MembersStay, MembersOf
    <3> HIDE DEF M
    <3> QED BY <1>6, <3>2
  <2>12. EveryItemIsAnalysed'
    <3>1. graph.status # "blocked"
          BY <1>1, <2>3 DEF GraphIsFounded
    <3>2. AggregationIsComplete' /\ BlockedMeansUnanswered'
          BY <1>6, <2>3, <3>1 DEF AggregationIsComplete, BlockedMeansUnanswered
    <3> QED BY <2>4, <3>2 DEF EveryItemIsAnalysed
  <2>13. IterationIsFounded(w)'
    <3>1. CursorsAreOld(w)' /\ ActionsAreFrozen(w)' /\ OffersAreFounded(w)'
          BY <1>1, <1>2, <1>6, <2>7, ActsOn DEF ActingPc
    <3>2. BatchWorkIsFounded(w)' /\ CommitsAreFounded(w)'
          BY <1>2, <2>5, <2>7 DEF BatchWorkIsFounded, CommitsAreFounded, BatchPc
    <3> QED BY <3>1, <3>2 DEF IterationIsFounded
  <2>14. ASSUME NEW v \in Analyst, v # w PROVE IterationIsFounded(v)'
    <3>1. analyst'[v] = analyst[v] /\ IterationIsFounded(v)
          BY <2>6, <2>14 DEF Typed, AnalysisInv
    <3>2. CursorMovesOn /\ QuestionMovesOn
          BY <1>1, <1>6, <2>3, <2>5 DEF CursorMovesOn, QuestionMovesOn, Graphs
    <3>3. HolderIsAlone(v)
          BY <1>6, <2>4 DEF HolderIsAlone
    <3> QED BY <1>1, <2>3, <2>4, <2>8, <3>1, <3>2, <3>3, IterationStays
  <2> QED BY <2>4, <2>8, <2>9, <2>10, <2>11, <2>12, <2>13, <2>14 DEF AnalysisInv
<1> QED BY <1>3, <1>4, <1>5, <1>6

LEMMA ConstructIdentityWorkStep ==
    ASSUME AnalysisInv, NEW w \in Analyst, ConstructIdentityWork(w)
    PROVE  AnalysisInv'
<1>1. agenda.items \in SUBSET Item /\ agenda.question \in {"pending", "confirmed", "resolved"}
      BY DEF AnalysisInv, BatchAnalysisTypeOK, Agendas
<1> QED BY <1>1, PlanAndNoteStep DEF ConstructIdentityWork

LEMMA ResumeAnalysisStep ==
    ASSUME AnalysisInv, NEW w \in Analyst, ResumeAnalysis(w)
    PROVE  AnalysisInv'
<1> DEFINE items == agenda.items \cup LateItems
<1>1. items \in SUBSET Item /\ LateItems \in SUBSET items /\ agenda.items \subseteq items
      BY DEF AnalysisInv, BatchAnalysisTypeOK, Agendas, Item
<1>2. /\ IsAt(w, "act") /\ analyst[w].action.kind = "resume"
      /\ PlanAndNote(w, "resume", items, "resolved", LateItems)
      /\ UNCHANGED <<tries, templates, findings, mishaps>>
      BY DEF ResumeAnalysis
<1> HIDE DEF items
<1> QED BY <1>1, <1>2, PlanAndNoteStep

-----------------------------------------------------------------------------
(* The theorems *)

LEMMA InitialAnalysis == BatchAnalysisInit => AnalysisInv
<1> SUFFICES ASSUME BatchAnalysisInit PROVE AnalysisInv
    OBVIOUS
<1>1. NoAnswer \in Answers /\ Nothing \in Acts
      BY DEF NoAnswer, Answer, Answers, Nothing, Acts
<1>2. BatchAnalysisTypeOK
  <2>1. graph \in Graphs
        BY <1>1 DEF BatchAnalysisInit, Graphs
  <2>2. agenda \in Agendas
        BY BatchAnalysisAssumption DEF BatchAnalysisInit, Agendas, Item
  <2>3. /\ modelBatches \in Seq(Batches)
        /\ \A b \in DOMAIN modelBatches : modelBatches[b].members \subseteq agenda.items
        BY DEF BatchAnalysisInit
  <2>4. /\ tries \in [Answerable -> [rows : Seq(Attempts), calls : Nat]]
        /\ \A p \in Answerable : Len(tries[p].rows) <= MaxTries
    <3>1. <<>> \in Seq(Attempts) /\ Len(<<>>) = 0 /\ 0 <= MaxTries
          BY BatchAnalysisAssumption
    <3> QED BY <3>1 DEF BatchAnalysisInit, NoTries
  <2>5. /\ noted \in [{"construct", "resume"} -> SUBSET SUBSET Nat]
        /\ templates \in [Profiles -> Answers] /\ findings \in [Item -> Answers]
        /\ mishaps \in 0..MaxMishaps
        BY <1>1, BatchAnalysisAssumption DEF BatchAnalysisInit
  <2>6. analyst \in [Analyst -> Iterations]
        BY NoIterationTyped DEF BatchAnalysisInit
  <2> QED BY <2>1, <2>2, <2>3, <2>4, <2>5, <2>6 DEF BatchAnalysisTypeOK
<1>3. modelBatches = <<>> /\ DOMAIN modelBatches = {}
      BY DEF BatchAnalysisInit
<1>4. \A i \in Item : findings[i] = NoAnswer
      BY DEF BatchAnalysisInit
<1>5. BatchesAreFounded /\ ClaimsAreFrozen
      BY <1>3, <1>4 DEF BatchesAreFounded, ClaimsAreFrozen
<1>6. TemplatesAreFounded
      BY DEF BatchAnalysisInit, TemplatesAreFounded
<1>7. GraphIsFounded
      BY DEF BatchAnalysisInit, GraphIsFounded
<1>8. EveryItemIsAnalysed
  <2>1. FindingsComeFromTheirBatch
        BY <1>3, <1>4 DEF FindingsComeFromTheirBatch, InUse
  <2>2. AggregationIsComplete /\ BlockedMeansUnanswered
        BY DEF AggregationIsComplete, BlockedMeansUnanswered, BatchAnalysisInit, Nothing
  <2> QED BY <2>1, <2>2 DEF EveryItemIsAnalysed
<1>9. ASSUME NEW w \in Analyst PROVE IterationIsFounded(w)
  <2>1. analyst[w].pc = "idle"
        BY DEF BatchAnalysisInit, NoIteration
  <2> QED BY <2>1 DEF IterationIsFounded, CursorsAreOld, ActionsAreFrozen, OffersAreFounded,
                      BatchWorkIsFounded, CommitsAreFounded, ActingPc, BatchPc
<1> QED BY <1>2, <1>5, <1>6, <1>7, <1>8, <1>9 DEF AnalysisInv

LEMMA AnalystStepKeeps ==
    ASSUME AnalysisInv, NEW w \in Analyst, AnalystStep(w)
    PROVE  AnalysisInv'
<1>1. CASE ClaimGraph(w)             BY <1>1, ClaimGraphStep
<1>2. CASE RecoverPlan(w)            BY <1>2, RecoverPlanStep
<1>3. CASE Offer(w)                  BY <1>3, OfferStep
<1>4. CASE Freeze(w)                 BY <1>4, FreezeStep
<1>5. CASE ConstructIdentityWork(w)  BY <1>5, ConstructIdentityWorkStep
<1>6. CASE OpenConflictGate(w)       BY <1>6, OpenConflictGateStep
<1>7. CASE ResumeAnalysis(w)         BY <1>7, ResumeAnalysisStep
<1>8. CASE EnterAggregateRisk(w)     BY <1>8, EnterAggregateRiskStep
<1>9. CASE CommitTransition(w)       BY <1>9, CommitTransitionStep
<1>10. CASE ClaimModelBatch(w)       BY <1>10, ClaimModelBatchStep
<1>11. CASE ReuseTemplate(w)         BY <1>11, ReuseTemplateStep
<1>12. CASE StoreTemplate(w)         BY <1>12, StoreTemplateStep
<1>13. CASE FinalizeBatch(w)         BY <1>13, FinalizeBatchStep
<1>14. CASE ReleaseBatch(w)          BY <1>14, ReleaseBatchStep
<1>15. CASE BlockModelFailure(w)     BY <1>15, BlockModelFailureStep
<1>16. CASE ResumeInvocation(w)      BY <1>16, ResumeInvocationStep
<1>17. CASE RecordInvocation(w)      BY <1>17, RecordInvocationStep
<1>18. CASE ModelAnswers(w)          BY <1>18, ModelAnswersStep
<1>19. CASE AttemptFails(w)          BY <1>19, AttemptFailsStep
<1>20. CASE CallTool(w)              BY <1>20, CallToolStep
<1>21. CASE ReplayCalls(w)           BY <1>21, ReplayCallsStep
<1>22. CASE ToolIsRefused(w)         BY <1>22, ToolIsRefusedStep
<1>23. CASE AnalystCrashes(w)        BY <1>23, AnalystCrashesStep
<1>24. CASE AbandonAnalysis(w)       BY <1>24, AbandonAnalysisStep
<1>25. CASE RenewGraph(w)            BY <1>25, LeaseStep
<1> QED BY <1>1, <1>2, <1>3, <1>4, <1>5, <1>6, <1>7, <1>8, <1>9, <1>10, <1>11, <1>12, <1>13,
           <1>14, <1>15, <1>16, <1>17, <1>18, <1>19, <1>20, <1>21, <1>22, <1>23, <1>24, <1>25
        DEF AnalystStep

LEMMA AnalysisStep == AnalysisInv /\ [BatchAnalysisNext]_analysisVars => AnalysisInv'
<1> SUFFICES ASSUME AnalysisInv, [BatchAnalysisNext]_analysisVars PROVE AnalysisInv'
    OBVIOUS
<1>1. CASE \E w \in Analyst : AnalystStep(w)
      BY <1>1, AnalystStepKeeps
<1>2. CASE AnswerQuestion
      BY <1>2, AnswerQuestionStep
<1>3. CASE LapseGraph
      BY <1>3, LeaseStep
<1>4. CASE ShrinkBatches
      BY <1>4, ShrinkBatchesStep
<1>5. CASE UNCHANGED analysisVars
  <2>1. BatchAnalysisTypeOK'
        BY <1>5 DEF AnalysisInv, BatchAnalysisTypeOK, analysisVars
  <2>2. TemplatesAreFounded'
        BY <1>5, NothingMoves, TemplatesUntouched DEF analysisVars
  <2> QED BY <1>5, <2>1, <2>2, Loosened DEF analysisVars
<1> QED BY <1>1, <1>2, <1>3, <1>4, <1>5 DEF BatchAnalysisNext

LEMMA AnalysisInvariant == BatchAnalysisSpec => []AnalysisInv
BY InitialAnalysis, AnalysisStep, PTL DEF BatchAnalysisSpec

\* The rows of the analysis hold what they may hold.
THEOREM Analysis_TypeOK == BatchAnalysisSpec => []BatchAnalysisTypeOK
<1>1. AnalysisInv => BatchAnalysisTypeOK
      BY DEF AnalysisInv
<1> QED BY <1>1, AnalysisInvariant, PTL

\* Every work item is in one batch and gets its finding from it, aggregation waits
\* for all of them, and a run is blocked only with an item unanswered and no batch
\* claimed (create_for_run, finalize_batch, _analysis_actions, release_batch_claim).
THEOREM Analysis_EveryItemIsAnalysed == BatchAnalysisSpec => []EveryItemIsAnalysed
<1>1. AnalysisInv => EveryItemIsAnalysed
      BY DEF AnalysisInv
<1> QED BY <1>1, AnalysisInvariant, PTL

\* A step that leaves each finding, template and ended batch as it is.
FinalStep ==
    /\ \A i \in Item : findings[i] # NoAnswer => findings'[i] = findings[i]
    /\ \A p \in Profiles : templates[p] # NoAnswer => templates'[p] = templates[p]
    /\ \A b \in DOMAIN modelBatches :
         modelBatches[b].status \in {"completed", "superseded"} =>
             modelBatches'[b] = modelBatches[b]

\* Planning supersedes what is pending or claimed, no more.
LEMMA PlanIsFinal ==
    ASSUME BatchAnalysisTypeOK, NEW requested \in SUBSET Item, NEW lapsed \in BOOLEAN,
           NEW gone, gone = {} \/ gone = Oversized(lapsed),
           PlanBatches(requested, gone), UNCHANGED <<findings, templates>>
    PROVE  FinalStep
<1>1. modelBatches \in Seq(Batches)
      BY DEF BatchAnalysisTypeOK
<1>2. gone \in SUBSET DOMAIN modelBatches
      /\ \A b \in gone : modelBatches[b].status \in {"pending", "claimed"}
      BY OversizedFacts
<1>3. \A b \in DOMAIN modelBatches : b \notin gone => modelBatches'[b] = modelBatches[b]
      BY <1>1, <1>2, Planned
<1> QED BY <1>2, <1>3 DEF FinalStep

LEMMA NotedPlanIsFinal ==
    ASSUME BatchAnalysisTypeOK, NEW w \in Analyst, NEW k, NEW items, NEW question,
           NEW requested \in SUBSET Item, PlanAndNote(w, k, items, question, requested),
           UNCHANGED <<findings, templates>>
    PROVE  FinalStep
<1>1. PICK lapsed \in BOOLEAN :
          \/ UNCHANGED modelBatches
          \/ PlanBatches(requested, IF requested = {} THEN {} ELSE Oversized(lapsed))
      BY DEF PlanAndNote
<1>2. CASE UNCHANGED modelBatches
      BY <1>2 DEF FinalStep
<1>3. PICK gone : gone = IF requested = {} THEN {} ELSE Oversized(lapsed)
      OBVIOUS
<1>4. gone = {} \/ gone = Oversized(lapsed)
      BY <1>3
<1> QED BY <1>1, <1>2, <1>3, <1>4, PlanIsFinal

LEMMA FindingsStayFinal == BatchAnalysisTypeOK /\ [BatchAnalysisNext]_analysisVars => FinalStep
<1> SUFFICES ASSUME BatchAnalysisTypeOK, [BatchAnalysisNext]_analysisVars PROVE FinalStep
    OBVIOUS
<1>1. /\ modelBatches \in Seq(Batches) /\ templates \in [Profiles -> Answers]
      /\ findings \in [Item -> Answers] /\ agenda.items \in SUBSET Item /\ LateItems \in SUBSET Item
      BY DEF BatchAnalysisTypeOK, Agendas, Item
<1>2. CASE UNCHANGED <<modelBatches, templates, findings>>
      BY <1>2 DEF FinalStep
<1>3. ASSUME NEW w \in Analyst, RecoverPlan(w) PROVE FinalStep
      BY <1>1, <1>3, PlanIsFinal DEF RecoverPlan
<1>4. ASSUME NEW w \in Analyst, ConstructIdentityWork(w) PROVE FinalStep
      BY <1>1, <1>4, NotedPlanIsFinal DEF ConstructIdentityWork
<1>5. ASSUME NEW w \in Analyst, ResumeAnalysis(w) PROVE FinalStep
      BY <1>1, <1>5, NotedPlanIsFinal DEF ResumeAnalysis
<1>6. ASSUME NEW w \in Analyst, ClaimModelBatch(w) PROVE FinalStep
  <2>1. CASE UNCHANGED modelBatches
        BY <1>2, <1>6, <2>1 DEF ClaimModelBatch
  <2>2. ASSUME NEW b, modelBatches[b].status \notin {"completed", "superseded"},
               modelBatches' = [modelBatches EXCEPT ![b].status = "claimed", ![b].owner = w]
        PROVE  FinalStep
    <3>1. \A c \in DOMAIN modelBatches : c # b => modelBatches'[c] = modelBatches[c]
          BY <2>2
    <3> QED BY <1>6, <2>2, <3>1 DEF FinalStep, ClaimModelBatch
  <2> DEFINE exact == ExactBatch(analyst[w].action.members)
             b == CHOOSE c \in exact : TRUE
  <2>3. ASSUME exact # {} PROVE modelBatches[b].status # "superseded"
    <3>1. b \in exact
          BY <2>3
    <3> QED BY <3>1 DEF ExactBatch
  <2>4. UNCHANGED modelBatches
        \/ /\ exact # {} /\ modelBatches[b].status # "completed"
           /\ modelBatches' = [modelBatches EXCEPT ![b].status = "claimed", ![b].owner = w]
        BY <1>6 DEF ClaimModelBatch
  <2> HIDE DEF exact, b
  <2> QED BY <2>1, <2>2, <2>3, <2>4
<1>7. ASSUME NEW w \in Analyst, StoreTemplate(w) PROVE FinalStep
  <2>1. PICK p, own : templates' = [templates EXCEPT ![p] = IF templates[p] = NoAnswer THEN own ELSE templates[p]]
        BY <1>7 DEF StoreTemplate
  <2>2. \A q \in Profiles : templates[q] # NoAnswer => templates'[q] = templates[q]
        BY <1>1, <2>1
  <2> QED BY <1>7, <2>2 DEF FinalStep, StoreTemplate, runVars
<1>8. ASSUME NEW w \in Analyst, FinalizeBatch(w) PROVE FinalStep
  <2> DEFINE b == analyst[w].batch
  <2>1. CASE UNCHANGED <<modelBatches, findings>>
        BY <1>2, <1>8, <2>1 DEF FinalizeBatch
  <2>2. PICK said : UNCHANGED <<modelBatches, findings>>
        \/ /\ MayFinalize(w)
           /\ modelBatches' = [modelBatches EXCEPT ![b] = Unleased(modelBatches[b], "completed")]
           /\ findings' = [i \in Item |-> IF i \in MembersOf(b) THEN said[i] ELSE findings[i]]
        BY <1>8 DEF FinalizeBatch
  <2>3. MayFinalize(w) => modelBatches[b].status = "claimed" /\ \A i \in MembersOf(b) : findings[i] = NoAnswer
        BY DEF MayFinalize
  <2> HIDE DEF b
  <2> QED BY <1>8, <2>1, <2>2, <2>3 DEF FinalStep, FinalizeBatch
<1>9. ASSUME NEW w \in Analyst, ReleaseBatch(w) PROVE FinalStep
  <2> DEFINE b == analyst[w].batch
  <2>1. CASE UNCHANGED modelBatches
        BY <1>2, <1>9, <2>1 DEF ReleaseBatch
  <2>2. UNCHANGED modelBatches
        \/ /\ modelBatches[b].status = "claimed"
           /\ modelBatches' = [modelBatches EXCEPT ![b] = Unleased(modelBatches[b], "pending")]
        BY <1>9 DEF ReleaseBatch
  <2> HIDE DEF b
  <2> QED BY <1>9, <2>1, <2>2 DEF FinalStep, ReleaseBatch
<1>10. ASSUME NEW w \in Analyst, AnalystStep(w) PROVE FinalStep \/ UNCHANGED <<modelBatches, templates, findings>>
  <2> USE <1>3, <1>4, <1>5, <1>6, <1>7, <1>8, <1>9, <1>10 DEF runVars
  <2>1. CASE ClaimGraph(w) \/ Offer(w) \/ Freeze(w) \/ OpenConflictGate(w)
             \/ EnterAggregateRisk(w) \/ CommitTransition(w)
        BY <2>1 DEF ClaimGraph, Offer, Freeze, OpenConflictGate, EnterAggregateRisk, CommitTransition
  <2>2. CASE ReuseTemplate(w) \/ BlockModelFailure(w) \/ ResumeInvocation(w) \/ RecordInvocation(w)
        BY <2>2 DEF ReuseTemplate, BlockModelFailure, ResumeInvocation, RecordInvocation
  <2>3. CASE ModelAnswers(w) \/ AttemptFails(w) \/ CallTool(w) \/ ReplayCalls(w) \/ ToolIsRefused(w)
        BY <2>3 DEF ModelAnswers, AttemptFails, CallTool, ReplayCalls, ToolIsRefused
  <2>4. CASE AnalystCrashes(w) \/ AbandonAnalysis(w) \/ RenewGraph(w)
        BY <2>4 DEF AnalystCrashes, AbandonAnalysis, RenewGraph
  <2> QED BY <2>1, <2>2, <2>3, <2>4 DEF AnalystStep
<1>11. AnswerQuestion \/ LapseGraph \/ ShrinkBatches => UNCHANGED <<modelBatches, templates, findings>>
       BY DEF AnswerQuestion, LapseGraph, ShrinkBatches
<1>12. UNCHANGED analysisVars => UNCHANGED <<modelBatches, templates, findings>>
       BY DEF analysisVars
<1> QED BY <1>2, <1>10, <1>11, <1>12 DEF BatchAnalysisNext

\* A finding, a completed batch and a template stay what they are
\* (finalize_batch, save_checkpoint, supersede_oversized_batches).
THEOREM Analysis_FindingsAreFinal == BatchAnalysisSpec => FindingsAreFinal
<1>1. BatchAnalysisTypeOK /\ [BatchAnalysisNext]_analysisVars => [FinalStep]_analysisVars
      BY FindingsStayFinal
<1>2. FindingsAreFinal <=> [][FinalStep]_analysisVars
      BY DEF FindingsAreFinal, FinalStep
<1> QED BY <1>1, <1>2, Analysis_TypeOK, PTL DEF BatchAnalysisSpec
=============================================================================
