----------------------------- MODULE ScriptEngine -----------------------------
(***************************************************************************)
(* The scripting environments behind the ScriptEngine trait: Lua           *)
(* (engines/lua), QuickJS (engines/quickjs), the benchmark file            *)
(* (engines/config) and the stub (engines/stub.rs).  What a script's       *)
(* callbacks do is the caller's choice; what the engine adds is here.      *)
(***************************************************************************)
EXTENDS Integers, Sequences, FiniteSetsExt

Kinds == {"lua", "quickjs", "config", "stub"}
Scripted == {"lua", "quickjs"}

\* The global functions an engine looks for.
Callbacks == {"setup", "init", "request", "response", "delay", "done"}

\* A limit that a benchmark file does not set; it may not set zero (validate).
Unset == 0

-----------------------------------------------------------------------------
(* One environment.                                                        *)

\* The factory runs the script; a failure to load it only prints, and the
\* environment keeps what was defined until then.  A benchmark file that
\* does not load is an error of the factory, which is its caller's choice.
NewEngine(kind, script) ==
    [defines |-> IF kind \in Scripted THEN script ELSE {}, completed |-> 0, received |-> 0]

IsSet(limit) == limit.requests # Unset \/ limit.bytes # Unset

\* StopSpec::reached
Reached(limit, completed, received) ==
    \/ limit.requests # Unset /\ completed >= limit.requests
    \/ limit.bytes # Unset /\ received >= limit.bytes

Capabilities(kind, engine, limit) ==
    [isStatic |-> "request" \notin engine.defines,
     wantsResponse |-> IF kind = "config" THEN IsSet(limit) ELSE "response" \in engine.defines,
     hasDelay |-> "delay" \in engine.defines,
     hasDone |-> "done" \in engine.defines]

\* resolve: the addresses that accept a probe, in resolver order.
Resolve(candidates, accepting) == SelectSeq(candidates, LAMBDA a : a \in accepting)

\* The probe that was refused last: wrk.lua probes from the back to remove in place.
LastRefused(kind, candidates, accepting) ==
    LET refused == {i \in 1 .. Len(candidates) : candidates[i] \notin accepting}
    IN  IF refused = {} THEN "Success"
        ELSE candidates[IF kind = "lua" THEN Min(refused) ELSE Max(refused)]

\* setup, before the script's own: the scripted engines point the thread at
\* the first address of the main environment, the others leave it alone.
SetupAddress(kind, addresses, unset) == IF kind \in Scripted THEN addresses[1] ELSE unset

\* Slip: the response that meets a limit is not counted itself.
CountBefore(kind, limit, engine, bytes) ==
    [engine |-> [engine EXCEPT !.completed = @ + 1, !.received = @ + bytes],
     stop |-> kind = "config" /\ Reached(limit, engine.completed, engine.received)]

\* response of the engines that have no script: the benchmark file counts.
CountResponse(kind, limit, engine, bytes) ==
    IF kind = "config"
    THEN LET e == [engine EXCEPT !.completed = @ + 1, !.received = @ + bytes]
         IN  [engine |-> e, stop |-> Reached(limit, e.completed, e.received)]
    ELSE [engine |-> engine, stop |-> FALSE]

-----------------------------------------------------------------------------
(* Values that cross between environments (thread:set, thread:get).  A     *)
(* value is its type; a table also has the type of its entries.            *)

Scalars(kind) ==
    IF kind = "lua" THEN {"nil", "boolean", "integer", "number", "string", "bytes"}
    ELSE IF kind = "quickjs" THEN {"undefined", "null", "boolean", "integer", "number", "string"}
    ELSE {"Null", "Bool", "Int", "Float", "Str"}

\* What the transfer refuses.
Opaque(kind) ==
    IF kind = "lua" THEN {"function", "userdata", "thread"}
    ELSE IF kind = "quickjs" THEN {"function", "symbol"}
    ELSE {}

Tables(kind) == IF kind = "quickjs" THEN {"array", "object"} ELSE {"table"}

Refused == [type |-> "refused", of |-> "none"]

Values(kind) ==
    [type : Scalars(kind) \union Opaque(kind), of : {"none"}]
        \union [type : Tables(kind), of : (Scalars(kind) \ {"nil"}) \union Opaque(kind)]

\* lua_to_value and js_to_value of a scalar: a Lua string that is not UTF-8
\* gets replacement characters.
ScalarToValue(type) ==
    IF type \in {"nil", "undefined", "null"} THEN "Null"
    ELSE IF type = "boolean" THEN "Bool"
    ELSE IF type = "integer" THEN "Int"
    ELSE IF type = "number" THEN "Float"
    ELSE IF type \in {"string", "bytes"} THEN "Str"
    ELSE type

\* value_to_lua and value_to_js of a scalar.
ValueToScalar(kind, type) ==
    IF kind \notin Scripted THEN type
    ELSE IF type = "Null" THEN IF kind = "lua" THEN "nil" ELSE "null"
    ELSE IF type = "Bool" THEN "boolean"
    ELSE IF type = "Int" THEN "integer"
    ELSE IF type = "Float" THEN "number"
    ELSE IF type = "Str" THEN "string"
    ELSE type

ToValue(kind, v) ==
    IF v.type \in Opaque(kind) \/ v.of \in Opaque(kind) THEN Refused
    ELSE IF v.type \in Tables(kind) THEN [type |-> "Table", of |-> ScalarToValue(v.of)]
    ELSE [type |-> ScalarToValue(v.type), of |-> "none"]

\* A table of QuickJS comes back as an object, its keys as strings.
FromValue(kind, v) ==
    IF v = Refused THEN Refused
    ELSE IF v.type = "Table"
    THEN [type |-> IF kind = "quickjs" THEN "object" ELSE "table", of |-> ValueToScalar(kind, v.of)]
    ELSE [type |-> ValueToScalar(kind, v.type), of |-> "none"]

\* What one environment finds after another, of the same kind, stored v.
Transfer(kind, v) == FromValue(kind, ToValue(kind, v))
==============================================================================
