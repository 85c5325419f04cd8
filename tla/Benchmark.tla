------------------------------ MODULE Benchmark ------------------------------
(***************************************************************************)
(* What a run promises: it either fails, with no report, or reports the    *)
(* sum of what every thread completed, nothing more being completed after  *)
(* the report, and finishes.                                               *)
(***************************************************************************)
EXTENDS Integers, FiniteSets

CONSTANT Threads

VARIABLES
    stage,       \* preparing, running, reported, finished or failed
    completed,   \* the responses each thread has completed
    report       \* the reported number, -1 before the report

vars == <<stage, completed, report>>

Init ==
    /\ stage = "preparing"
    /\ completed = [t \in Threads |-> 0]
    /\ report = -1

Start ==
    /\ stage = "preparing"
    /\ stage' = "running"
    /\ UNCHANGED <<completed, report>>

Complete(t) ==
    /\ stage = "running"
    /\ completed' = [completed EXCEPT ![t] = @ + 1]
    /\ UNCHANGED <<stage, report>>

\* The responses of all threads, told apart.
Responses == UNION {{t} \X (1 .. completed[t]) : t \in Threads}

Report ==
    /\ stage = "running"
    /\ report' = Cardinality(Responses)
    /\ stage' = "reported"
    /\ UNCHANGED completed

Finish ==
    /\ stage = "reported"
    /\ stage' = "finished"
    /\ UNCHANGED <<completed, report>>

\* A thread may fail the run as it completes a response.
Fail ==
    /\ stage \in {"preparing", "running"}
    /\ stage' = "failed"
    /\ \/ UNCHANGED completed
       \/ \E t \in Threads : completed' = [completed EXCEPT ![t] = @ + 1]
    /\ UNCHANGED report

Next == Start \/ Report \/ Finish \/ Fail \/ \E t \in Threads : Complete(t)

Spec == Init /\ [][Next]_vars
==============================================================================
