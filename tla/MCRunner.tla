------------------------------- MODULE MCRunner -------------------------------
(***************************************************************************)
(* Runner with two threads and three connections, one of which is never    *)
(* opened, two addresses and one or two inputs for each kind of engine.    *)
(***************************************************************************)
EXTENDS Runner

MCCandidates == <<"first", "second">>

NoLimit == [requests |-> Unset, bytes |-> Unset]

MCInputs ==
    {[kind |-> "stub", script |-> {}, limit |-> NoLimit],
     [kind |-> "config", script |-> {}, limit |-> [requests |-> 2, bytes |-> Unset]],
     [kind |-> "config", script |-> {}, limit |-> [requests |-> Unset, bytes |-> 1]],
     [kind |-> "quickjs", script |-> {"setup"}, limit |-> NoLimit],
     [kind |-> "lua", script |-> {"init", "request", "done"}, limit |-> NoLimit],
     [kind |-> "lua", script |-> {"setup", "response", "delay"}, limit |-> NoLimit]}

MCGiven ==
    [lua |-> {[type |-> "bytes", of |-> "none"], [type |-> "function", of |-> "none"]},
     quickjs |-> {[type |-> "array", of |-> "undefined"], [type |-> "object", of |-> "symbol"]},
     config |-> {}, stub |-> {}]
==============================================================================
