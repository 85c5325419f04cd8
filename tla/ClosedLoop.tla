------------------------------ MODULE ClosedLoop ------------------------------
(***************************************************************************)
(* What the benchmark promises of each connection: a closed loop.  A whole *)
(* burst of requests goes out, only when nothing is owed to the            *)
(* connection; answers come back some requests at a time; a lost           *)
(* connection starts over with nothing owed.                               *)
(***************************************************************************)
EXTENDS Integers

CONSTANTS Slots, Burst, RequestUnits

VARIABLE owed   \* units of requests sent and not answered

Init == owed = [s \in Slots |-> 0]

SendBurst(s) ==
    /\ owed[s] = 0
    /\ owed' = [owed EXCEPT ![s] = Burst]

TakeAnswers(s) ==
    \E n \in 1 .. owed[s] \div RequestUnits :
        owed' = [owed EXCEPT ![s] = @ - n * RequestUnits]

StartOver(s) == owed' = [owed EXCEPT ![s] = 0]

Next == \E s \in Slots : SendBurst(s) \/ TakeAnswers(s) \/ StartOver(s)

Spec == Init /\ [][Next]_owed
===============================================================================
