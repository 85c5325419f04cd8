----------------------------- MODULE MCHistograms -----------------------------
(***************************************************************************)
(* Histogram and Statistics on small instances: words of four bits stand   *)
(* for u64 and i64, and the buckets are wide enough for a value to be      *)
(* mirrored twice.  The threads move only while nothing was read and the   *)
(* readers only while no thread has recorded, so that the run has the      *)
(* states of each machine and not their product.                           *)
(***************************************************************************)
EXTENDS Histogram, Statistics

MCIntervals == -1 .. 3

\* No error, errors of one kind, also so many that the legacy report wraps, and of all.
MCErrors ==
    {[k \in Kinds |-> IF k \in some THEN n ELSE 0] :
        n \in {3, 16}, some \in {{}, Kinds} \union {{k} : k \in Kinds}}

MCInit == ThreadsInit /\ Init

ThreadsRest == ThreadsInit
ReadersRest == Init

MCNext ==
    \/ ReadersRest /\ ThreadsNext /\ UNCHANGED vars
    \/ ThreadsRest /\ Next /\ UNCHANGED threadVars

MCSpec == MCInit /\ [][MCNext]_<<threadVars, vars>> /\ ThreadsFairness

(***************************************************************************)
(* The compare-exchange loops end: every failure shows the thread a        *)
(* strictly better bound, so record returns however the others run.        *)
(***************************************************************************)
RecordReturns == \A t \in Threads : pc[t] # "idle" ~> pc[t] = "idle"
==============================================================================
