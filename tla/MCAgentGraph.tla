---------------------------- MODULE MCAgentGraph ----------------------------
(***************************************************************************)
(* Small instances of the controlled Agent runtime for TLC.                *)
(***************************************************************************)
EXTENDS AgentGraphProperties, TLC

CONSTANTS school, version

\* Every run belongs to one school and uses one graph version.
MCTenantOf == [r \in Run |-> school]
MCVersionOf == [r \in Run |-> version]

\* Workers are interchangeable, and so are conflicts: no definition names one.
Symmetry == Permutations(Worker) \cup Permutations(Clarification)

\* A request is too late to change anything once the run has left the cursor its
\* gate is decided at, or has left its conflicts behind with none of them open.
\* Two states that differ in such requests only have the same future.
TooLate(r, q) ==
    cursor[r] # (IF q.gate.kind = "termination_confirmation" THEN q.gate.at ELSE q.gate.at + 1)

ConflictsAreBehind(r) ==
    /\ node[r] # "resolve_identity_conflicts"
    /\ \A k \in Clarification : clar[r][k] \in {"none", "settled"}

TimelyRequests ==
    <<[r \in Run |-> {q \in loaded[r] : ~TooLate(r, q)}],
      [r \in Run |-> IF ConflictsAreBehind(r) THEN {} ELSE confirming[r]],
      deciding>>

View == <<rowVars, leaseVars, stepVars, gates, groups, clar, TimelyRequests,
          workVars, boundVars, ctx>>
=============================================================================
