------------------------------- MODULE MCJobs -------------------------------
(***************************************************************************)
(* Small instances for TLC of the two kinds of leased jobs, the analysis   *)
(* job of a task and the rematch job of a school.  They share no state, so *)
(* that one run checks both: `part` says what moves, the rest keeps its    *)
(* initial state.                                                          *)
(***************************************************************************)
EXTENDS LeasedJobs, TLC

CONSTANT MaxTroubles    \* faults and commands of analysis jobs together

VARIABLE part

\* Differences are detected for nothing or for everything.
MCDetection == {{}, Item}

-----------------------------------------------------------------------------

Part == {"jobs", "rematching"}

Init == part \in Part /\ JobsInit /\ RematchInit

\* A fault and a command, or two commands (a job can be cancelled and retried).
JobsStep ==
    /\ part = "jobs"
    /\ JobsNext
    /\ faults' + commands' <= MaxTroubles
    /\ UNCHANGED <<part, rematchVars>>

RematchStep ==
    /\ part = "rematching"
    /\ RematchNext
    /\ UNCHANGED <<part, vars>>

Next == JobsStep \/ RematchStep

\* Fairness is needed of analysis jobs alone; it asks nothing of the other part.
Spec == Init /\ [][Next]_<<part, vars, rematchVars>> /\ JobsFairness
=============================================================================
