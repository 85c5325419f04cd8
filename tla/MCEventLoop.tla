----------------------------- MODULE MCEventLoop -----------------------------
(***************************************************************************)
(* EventLoop on small instances, with the fairness of a live system.       *)
(***************************************************************************)
EXTENDS EventLoop

(***************************************************************************)
(* The thread keeps running and time passes, so the tick and the delays    *)
(* come due; the network delivers and the server answers what it has got.  *)
(***************************************************************************)
Fairness ==
    /\ WF_vars(Turn)
    /\ SF_vars(Tick)
    /\ \A s \in Slots :
         /\ SF_vars(FireDelay(s, "own"))
         /\ WF_vars(AcceptConnect(s))
         /\ WF_vars(Receive(s))
         /\ WF_vars(\E token \in Answers : Answer(s, token))
         /\ WF_vars(EndBody(s))

FairSpec == Spec /\ Fairness

\* Of the loop alone: the server may answer, or send a body, for ever.
LoopFairness == WF_vars(Turn) /\ SF_vars(Tick)

LoopSpec == Spec /\ LoopFairness

Halted == ~Running

(***************************************************************************)
(* The benchmark never stalls: a connection that is up and drained sends   *)
(* its next burst, and a burst that is out gets all its answers, until the *)
(* loop ends.                                                              *)
(***************************************************************************)
BurstsKeepComing ==
    \A s \in Slots :
        /\ conn[s].pending = 0 ~> conn[s].pending > 0 \/ Halted
        /\ conn[s].pending > 0 ~> conn[s].pending = 0 \/ Halted

(***************************************************************************)
(* Either flag ends the loop, whatever the connections are doing, if no    *)
(* connection is read for ever.  readable() goes on while the reads fill   *)
(* its buffer, and a server that keeps it filled keeps the loop from its   *)
(* tick: without the hypothesis the body of one response refutes this.     *)
(***************************************************************************)
LoopStops ==
    (\A s \in Slots : []<>(cur # s)) => ((stopFlag \/ stopped) ~> Halted)

(***************************************************************************)
(* The loop implements the closed loop: what a connection is owed is       *)
(* counted where the requests really are, in its own buffer, the network,  *)
(* the server and the unread responses, and not in its pending counter.    *)
(***************************************************************************)
Loop == INSTANCE ClosedLoop WITH
    owed <- [s \in Slots |-> IF conn[s].at = "up" THEN Owed(s) ELSE 0]

ImplementsClosedLoop == Loop!Spec
==============================================================================
