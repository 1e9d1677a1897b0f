----------------------------- MODULE SchoolRuns -----------------------------
(***************************************************************************)
(* What the controlled runtime promises a school, without workers, leases, *)
(* candidates or gates: one run at a time works for it, walks its graph    *)
(* one transition after the other while it does, ends once, and gives the  *)
(* school back when it ends.  AgentGraph implements it.                    *)
(***************************************************************************)
EXTENDS Naturals

CONSTANTS
    Run,        \* runs of all schools
    School,
    SchoolOf,   \* the school of a run
    None        \* nobody works for the school

VARIABLES
    phase,      \* of a run: new, active or its outcome
    holder,     \* the run that works for a school
    place       \* how many transitions of its graph a run has made

schoolVars == <<phase, holder, place>>

Ended == {"completed", "terminated", "failed"}

SchoolInit ==
    /\ phase = [r \in Run |-> "new"]
    /\ holder = [s \in School |-> None]
    /\ place = [r \in Run |-> 0]

\* A run begins behind the two transitions that confirm it and take the school.
Begin(r) ==
    /\ phase[r] = "new"
    /\ holder[SchoolOf[r]] = None
    /\ phase' = [phase EXCEPT ![r] = "active"]
    /\ holder' = [holder EXCEPT ![SchoolOf[r]] = r]
    /\ place' = [place EXCEPT ![r] = 2]

Walk(r) ==
    /\ phase[r] = "active"
    /\ holder[SchoolOf[r]] = r
    /\ place' = [place EXCEPT ![r] = @ + 1]
    /\ UNCHANGED <<phase, holder>>

\* The end is the last transition, or a failure where the run stands.
End(r) ==
    /\ phase[r] = "active"
    /\ holder[SchoolOf[r]] = r
    /\ \E outcome \in Ended : phase' = [phase EXCEPT ![r] = outcome]
    /\ holder' = [holder EXCEPT ![SchoolOf[r]] = None]
    /\ \/ place' = [place EXCEPT ![r] = @ + 1]
       \/ phase'[r] = "failed" /\ UNCHANGED place

SchoolNext == \E r \in Run : Begin(r) \/ Walk(r) \/ End(r)

SchoolSpec == SchoolInit /\ [][SchoolNext]_schoolVars
=============================================================================
