---------------------------- MODULE IdentityIndex ----------------------------
(***************************************************************************)
(* The identity index of one Agent run (reconciliation/agent_identity.py), *)
(* the external bindings it starts from (agent_runtime/                    *)
(* external_identity_service.py) and the facts it persists                 *)
(* (repositories/agent_analysis.py): marks, work items, claims and the     *)
(* clarifications that operators answer before the analysis resumes.       *)
(*                                                                         *)
(* Records are numbered in their stable order.  A record is the set of its *)
(* identity keys (number, phone, email); whether two records differ in     *)
(* another governed field is a constant.  A work item is known by what its *)
(* hash covers: subject, kind and evidence.                                *)
(*                                                                         *)
(* The state graph runs the build twice, at validate_input_contract and at *)
(* build_identity_index, since the executor dispatches on the kind of the  *)
(* action (production_executor.py __call__); a replayed action repeats it. *)
(***************************************************************************)
EXTENDS Naturals, Sequences, FiniteSets
LOCAL INSTANCE SequencesExt

CONSTANTS Authorities, Targets,  \* numbers of records of the two snapshots
          IdentityKey,           \* values of number, phone and email
          Differing,             \* pairs that differ in another governed field
          MaxBuilds,             \* bound: builds, replays included
          MaxBindingChanges      \* bound: bindings confirmed or revoked during the run

Authority == 1..Authorities
Target == 1..Targets
None == 0

IdentityAssumption ==
  /\ Authorities \in Nat \ {0} /\ Targets \in Nat \ {0}
  /\ Differing \subseteq Authority \X Target
  /\ MaxBuilds \in Nat /\ MaxBindingChanges \in Nat

VARIABLES inputs,   \* what ingestion persisted, see Ingest
          bound,    \* the active external bindings: [Authority -> Target \cup {None}]
          facts,    \* the rows of the run: works, claims, marks, questions
          progress  \* builds, changes of bindings, resumed, failed

identityVars == <<inputs, bound, facts, progress>>

-----------------------------------------------------------------------------
(* Rows.                                                                   *)

NoInputs == [authority |-> <<>>, target |-> <<>>, excluded |-> {}, external |-> FALSE]

Kind == {"correct", "field_difference", "target_extra", "target_duplicate",
         "target_missing", "authority_invalid", "identity_conflict"}

Work(side, of, kind, by, with) ==
  [side |-> side, of |-> of, kind |-> kind, by |-> by, with |-> with]

Claim(a, t, work) == [authority |-> a, target |-> t, work |-> work]

Question(t, candidates) ==
  [target |-> t, candidates |-> candidates, status |-> "pending", choice |-> None,
   resolved |-> FALSE]

NoFacts == [works |-> {}, claims |-> {}, marked |-> {}, questions |-> {}]

IdentityInit ==
  /\ inputs = NoInputs
  /\ bound = [a \in Authority |-> None]
  /\ facts = NoFacts
  /\ progress = [builds |-> 0, changes |-> 0, rebound |-> FALSE, resumed |-> FALSE,
                 failed |-> FALSE]

Matchings == {b \in [Authority -> Target \cup {None}] :
                \A a, c \in Authority : a # c /\ b[a] # None => b[a] # b[c]}

\* The inputs of the run: every record of a snapshot that is still there, the
\* authoritative ones that normalization excluded, and the bindings operators
\* confirmed in earlier runs.  Only a v3 run from an API to a database has
\* bindings in its scope.
Ingest ==
  /\ inputs = NoInputs
  /\ \E present \in SUBSET Authority, found \in SUBSET Target, external \in BOOLEAN :
       /\ present # {}
       /\ \E authority \in [present -> SUBSET IdentityKey],
             target \in [found -> SUBSET IdentityKey],
             excluded \in {{}} \cup {{a} : a \in present} :
            inputs' = [authority |-> authority, target |-> target,
                       excluded |-> excluded, external |-> external]
       /\ bound' \in IF external THEN Matchings ELSE {bound}
  /\ UNCHANGED <<facts, progress>>

-----------------------------------------------------------------------------
(* The build.  A builder is the rows written so far and the sets of ids    *)
(* it decides from.                                                        *)

Valid == DOMAIN inputs.authority \ (inputs.excluded \cup facts.marked)

Matched(a, t) == IF <<a, t>> \in Differing THEN "field_difference" ELSE "correct"

Builder ==
  [facts |-> facts, claimed |-> {}, taken |-> {}, conflicted |-> {}, reserved |-> {},
   invalid |-> {}, broken |-> FALSE]

Persist(b, work) == [b EXCEPT !.facts.works = @ \cup {work}]

\* The unique constraints and the replay check: one claim per authority, per
\* target and per work item.
PersistClaim(b, a, t, work) ==
  LET claim == Claim(a, t, work)
      rivals == {c \in b.facts.claims : /\ c # claim
                                        /\ c.authority = a \/ c.target = t \/ c.work = work}
  IN  [Persist(b, work) EXCEPT !.facts.claims = @ \cup {claim},
                               !.claimed = @ \cup {a}, !.taken = @ \cup {t},
                               !.broken = @ \/ rivals # {}]

MarkException(b, a) == [b EXCEPT !.facts.marked = @ \cup {a}]

\* The postings of two records meet in an identity key.
Meet(a, t) == inputs.authority[a] \cap inputs.target[t] # {}

\* The target that an active binding of the run's scope gives to the record.
BoundTo(a) == IF inputs.external THEN bound[a] ELSE None

ApplyBinding(b, a) ==
  LET t == BoundTo(a)
      contradictory == {u \in DOMAIN inputs.target : u # t /\ Meet(a, u)}
  IN  IF t = None \/ a \notin Valid
      THEN b                                       \* at most an event: binding_stale
      ELSE IF t \notin DOMAIN inputs.target
      THEN [MarkException(Persist(b, Work("authority", a, "authority_invalid", "stale", {})), a)
              EXCEPT !.invalid = @ \cup {a}]
      ELSE IF contradictory # {} \/ a \in b.claimed \/ t \in b.taken
      THEN [MarkException(Persist(b, Work("target", t, "identity_conflict", "binding",
                                          contradictory)), a)
              EXCEPT !.conflicted = @ \cup {a}, !.reserved = @ \cup {t} \cup contradictory]
      ELSE PersistClaim(b, a, t, Work("target", t, Matched(a, t), "binding", {}))


\* Several candidates: they are reserved, and an operator is asked once.
Ask(b, t, candidates) ==
  LET known == \E q \in b.facts.questions : q.target = t /\ q.candidates = candidates
  IN  [Persist(b, Work("target", t, "identity_conflict", "candidates", candidates))
         EXCEPT !.conflicted = @ \cup candidates,
                !.facts.questions = IF known THEN @ ELSE @ \cup {Question(t, candidates)}]

\* One target of the ordinary index over the authorities that the bindings
\* left open.  The index is not reduced as candidates are claimed or asked about.
MatchTarget(b, t, open) ==
  LET candidates == {a \in open : Meet(a, t)}
      only == CHOOSE a \in candidates : TRUE
  IN  IF t \in b.taken \cup b.reserved
      THEN b
      ELSE IF candidates = {}
      THEN Persist(b, Work("target", t, "target_extra", "no match", {}))
      ELSE IF Cardinality(candidates) # 1
      THEN Ask(b, t, candidates)
      ELSE IF only \in b.claimed
      THEN Persist(b, Work("target", t, "target_duplicate", "claimed", {only}))
      ELSE PersistClaim(b, only, t, Work("target", t, Matched(only, t), "keys", {}))

\* An authority that nothing claims is missing in the target, or in an
\* external scope invalid when it has no key to be found by.
LeaveAuthority(b, a) ==
  IF a \in b.claimed \cup b.conflicted \cup b.invalid
  THEN b
  ELSE IF inputs.external /\ inputs.authority[a] = {}
  THEN MarkException(Persist(b, Work("authority", a, "authority_invalid", "no identity", {})), a)
  ELSE Persist(b, Work("authority", a, "target_missing", "unclaimed", {}))

InOrder(S) == SetToSortSeq(S, <)

Built ==
  LET bindings == FoldLeft(ApplyBinding, Builder, InOrder(Authority))
      open == Valid \ (bindings.claimed \cup bindings.conflicted \cup bindings.invalid)
      targets == FoldLeft(LAMBDA b, t : MatchTarget(b, t, open), bindings,
                          InOrder(DOMAIN inputs.target))
      left == FoldLeft(LeaveAuthority, targets, InOrder(Valid))
      excluded == DOMAIN inputs.authority \cap (inputs.excluded \cup facts.marked)
  IN  [left EXCEPT !.facts.works =
         @ \cup {Work("authority", a, "authority_invalid", "excluded", {}) : a \in excluded}]

\* A conflict with a persisted claim rolls the transaction back and fails the
\* run: the constraint's error is not retried (_is_non_retryable_database_error).
Record(b) ==
  IF b.broken
  THEN facts' = facts /\ progress' = [progress EXCEPT !.failed = TRUE]
  ELSE facts' = b.facts

BuildIdentityIndex ==
  /\ inputs # NoInputs /\ ~progress.failed /\ progress.builds < MaxBuilds
  /\ facts.questions = {} \/ \A q \in facts.questions : q.status = "pending"
  /\ ~progress.resumed
  /\ Record(Built)
  /\ ~Built.broken => progress' = [progress EXCEPT !.builds = @ + 1]
  /\ UNCHANGED <<inputs, bound>>

-----------------------------------------------------------------------------
(* Bindings while the run builds.                                          *)

Changed ==
  progress' = [progress EXCEPT !.changes = @ + 1, !.rebound = @ \/ progress.builds > 0]

\* An active binding that owns one of the locators is a conflict; the same
\* binding is returned as it is.
Unbound(a, t) == bound[a] = None /\ \A c \in Authority : bound[c] # t

\* An operator binds two records of this run.
ConfirmBinding(a, t) ==
  /\ progress.changes < MaxBindingChanges /\ inputs.external /\ ~progress.resumed
  /\ a \in DOMAIN inputs.authority /\ t \in DOMAIN inputs.target
  /\ Unbound(a, t)
  /\ bound' = [bound EXCEPT ![a] = t]
  /\ Changed
  /\ UNCHANGED <<inputs, facts>>

RevokeBinding(a) ==
  /\ progress.changes < MaxBindingChanges /\ inputs # NoInputs /\ ~progress.resumed
  /\ bound[a] # None
  /\ bound' = [bound EXCEPT ![a] = None]
  /\ Changed
  /\ UNCHANGED <<inputs, facts>>

-----------------------------------------------------------------------------
(* Answers, and the resolution behind the gate.                            *)

ConfirmClarification(q, choice) ==
  /\ progress.builds >= 2 /\ ~progress.failed
  /\ q.status = "pending" /\ choice \in q.candidates \cup {None}
  /\ facts' = [facts EXCEPT !.questions =
                 (@ \ {q}) \cup {[q EXCEPT !.status = "confirmed", !.choice = choice]}]
  /\ UNCHANGED <<inputs, bound, progress>>

Claimed(rows) == {c.authority : c \in rows.claims}

\* The item of the answer, and the claim that comes with a candidate nobody
\* holds yet.
Primary(b, q) ==
  IF q.choice = None
  THEN Persist(b, Work("target", q.target, "target_extra", "answer", {}))
  ELSE IF q.choice \in Claimed(b.facts)
  THEN Persist(b, Work("target", q.target, "target_duplicate", "answer", {q.choice}))
  ELSE PersistClaim(b, q.choice, q.target,
                    Work("target", q.target, Matched(q.choice, q.target), "answer", {q.choice}))

\* One confirmed clarification: its candidates that nobody claims by now are
\* missing in the target.  A resolved one is only read again.
ResolveOne(b, q) ==
  LET answered == Primary(b, q)
      missing == {Work("authority", a, "target_missing", "unclaimed after resolution", {}) :
                    a \in q.candidates \ Claimed(answered.facts)}
  IN  IF q.resolved
      THEN b
      ELSE [answered EXCEPT !.facts.works = @ \cup missing,
                            !.facts.questions = (@ \ {q}) \cup {[q EXCEPT !.resolved = TRUE]}]

\* Clarifications created together have equal timestamps as often as not, and
\* random ids break the tie: any order.
ResolveConfirmedConflicts ==
  /\ ~progress.failed /\ facts.questions # {}
  /\ \A q \in facts.questions : q.status = "confirmed"
  /\ \E order \in SetToSeqs(facts.questions) :
       LET resolved == FoldLeft(ResolveOne, Builder, order)
       IN  /\ Record(resolved)
           /\ ~resolved.broken => progress' = [progress EXCEPT !.resumed = TRUE]
  /\ UNCHANGED <<inputs, bound>>

IdentityNext ==
  \/ Ingest
  \/ BuildIdentityIndex
  \/ \E a \in Authority, t \in Target : ConfirmBinding(a, t)
  \/ \E a \in Authority : RevokeBinding(a)
  \/ \E q \in facts.questions, choice \in Authority \cup {None} : ConfirmClarification(q, choice)
  \/ ResolveConfirmedConflicts

-----------------------------------------------------------------------------
(* Properties.                                                             *)

IdentityTypeOK ==
  /\ DOMAIN inputs.authority \subseteq Authority /\ DOMAIN inputs.target \subseteq Target
  /\ bound \in [Authority -> Target \cup {None}]
  /\ \A w \in facts.works : w.kind \in Kind
  /\ facts.marked \subseteq Authority
  /\ progress.builds \in 0..MaxBuilds

Subject(side, n, kinds) ==
  \E w \in facts.works : w.side = side /\ w.of = n /\ w.kind \in kinds

\* A binding disturbed the index: it was stale or in conflict, which excludes
\* its authority from the next build, or it came or went between two builds.
Disturbed ==
  \/ progress.rebound
  \/ \E w \in facts.works : w.by \in {"stale", "no identity"}
  \/ \E w \in facts.works : w.by = "binding" /\ w.kind = "identity_conflict"

\* After a build no record is forgotten: every target has a work item unless a
\* binding conflict withholds it, every authority is claimed, asked about,
\* marked or has an item of its own (build).
EveryRecordIsAccountedFor ==
  progress.builds > 0 /\ ~progress.failed =>
    /\ \A t \in DOMAIN inputs.target :
         \/ Subject("target", t, Kind)
         \/ \E w \in facts.works : w.by = "binding" /\ t \in w.with
    /\ \A a \in DOMAIN inputs.authority :
         \/ a \in Claimed(facts) \cup facts.marked
         \/ Subject("authority", a, {"target_missing", "authority_invalid"})
         \/ \E q \in facts.questions : a \in q.candidates

OfferedTwice(a) ==
  \E q, r \in facts.questions : q # r /\ a \in q.candidates \cap r.candidates

\* A matched pair is not changed twice: its target is neither removed nor a
\* duplicate, its authority not created again, unless two clarifications
\* offered it (build, resolve_confirmed_conflicts).
MatchedRecordsAreLeftAlone ==
  ~Disturbed =>
    \A c \in facts.claims :
      /\ ~Subject("target", c.target, {"target_extra", "target_duplicate"})
      /\ Subject("authority", c.authority, {"target_missing", "authority_invalid"})
           => OfferedTwice(c.authority)

\* Once the analysis resumes every answer has its work item: the candidate is
\* claimed for the target or known as somebody else's, and no candidate is left
\* without a claim or an item (resolve_confirmed_conflicts).
AnswersAreApplied ==
  progress.resumed =>
    \A q \in facts.questions :
      /\ q.choice = None => Subject("target", q.target, {"target_extra"})
      /\ q.choice # None =>
           \/ \E c \in facts.claims : c.authority = q.choice /\ c.target = q.target
           \/ q.choice \in Claimed(facts) /\ Subject("target", q.target, {"target_duplicate"})
      /\ \A a \in q.candidates : a \in Claimed(facts) \/ Subject("authority", a, {"target_missing"})

\* Only a binding can make the index contradict the claims it persisted before
\* (the unique constraints of agent_identity_claims).
OnlyBindingsBreakTheIndex == progress.failed => Disturbed


\* The second build of every run, and a replayed one, adds nothing to the first
\* unless a binding disturbed it (persist_work_item, persist_identity_claim,
\* create_clarification).
RebuildsChangeNothing ==
  [][progress'.builds > progress.builds /\ progress.builds > 0 /\ ~Disturbed'
       => facts' = facts]_identityVars
=============================================================================
