------------------------------ MODULE RunnerProofs ------------------------------
(***************************************************************************)
(* The life of the engines in a run, the limits of a benchmark file and    *)
(* the values scripts exchange, for any number of threads: Runner with     *)
(* every bound.                                                            *)
(***************************************************************************)
EXTENDS Runner, FiniteSetTheorems, NaturalsInduction, WellFoundedInduction, TLAPS

Out == {"start", "poll", "turn", "leave"}

\* Where the engines are while main is at each of its points.
Placed ==
    /\ at \in {"start", "resolve"} => index = 1 /\ \A t \in Threads : place[t] = "none"
    /\ at = "create" => \A t \in Threads : place[t] = IF t < index THEN "parked" ELSE "none"
    /\ at \in {"setup", "init"} =>
         \A t \in Threads : place[t] = IF t <= index THEN "parked" ELSE "none"
    /\ at = "probe" =>
         index = 1 /\ \A t \in Threads : place[t] = IF t = 1 THEN "main" ELSE "none"
    /\ at \in Preparing => \A t \in Threads : worker[t] = "none"
    /\ at = "spawn" =>
         \A t \in Threads : IF t < index THEN worker[t] # "none"
                            ELSE place[t] = "parked" /\ worker[t] = "none"
    /\ at = "wait" => index = 1 /\ \A t \in Threads : worker[t] # "none"
    /\ at = "join" =>
         \A t \in Threads : worker[t] # "none" /\ (t < index => worker[t] = "finished")
    /\ at \in {"correct", "report", "done"} => \A t \in Threads : worker[t] = "finished"
    /\ \A t \in Threads :
         /\ worker[t] \in Out <=> place[t] = "worker"
         /\ worker[t] = "finished" => place[t] = "parked"
         /\ place[t] = "main" =>
              t = index /\ (at = "probe" \/ (at = "exited" /\ reason \in {"init", "request", "killed"}))

PlaceTypes ==
    /\ at \in Preparing \union {"spawn", "wait", "join", "correct", "report", "done", "exited"}
    /\ index \in Threads
    /\ place \in [Threads -> {"none", "parked", "main", "worker"}]
    /\ worker \in [Threads -> {"none", "start", "poll", "turn", "leave", "finished"}]

PlaceInv == PlaceTypes /\ Placed

LEMMA PlacesBegin == Init => PlaceInv
BY RunnerOK DEF Init, PlaceInv, PlaceTypes, Placed, Preparing, Threads, Out

USE DEF Threads

\* main's own steps.
LEMMA MainPlaces ==
    ASSUME PlaceInv, MainStep
    PROVE  PlaceInv'
<1> USE RunnerOK DEF PlaceInv, PlaceTypes, Placed, Preparing, Out, Go, Exit
<1>1. CASE CreateMain
  BY <1>1 DEF CreateMain, thread
<1>2. CASE ResolveTarget
  BY <1>2 DEF ResolveTarget, thread
<1>3. CASE CreateThread
  BY <1>3 DEF CreateThread, thread
<1>4. CASE Setup
  BY <1>4 DEF Setup, SetupCallback, thread
<1>5. CASE InitThread
  BY <1>5 DEF InitThread, NextThread, thread
<1>6. CASE Probe
  BY <1>6 DEF Probe, NextThread, thread
<1>7. CASE Spawn
  BY <1>7 DEF Spawn
<1>8. CASE StopWorkers
  BY <1>8 DEF StopWorkers, thread
<1>9. CASE Join
  BY <1>9 DEF Join, thread
<1>10. CASE Correct \/ Report \/ Done
  BY <1>10 DEF Correct, Report, Done, thread
<1> QED
  BY <1>1, <1>2, <1>3, <1>4, <1>5, <1>6, <1>7, <1>8, <1>9, <1>10 DEF MainStep

\* The steps of a worker, and time and signals.
LEMMA WorkerPlaces ==
    ASSUME PlaceInv, NEW t \in Threads, WorkerStep(t)
    PROVE  PlaceInv'
<1> USE RunnerOK DEF PlaceInv, PlaceTypes, Placed, Preparing, Out, Exit
<1>1. CASE StartWorker(t)
  BY <1>1 DEF StartWorker, thread
<1>2. CASE Poll(t)
  BY <1>2 DEF Poll
<1>3. CASE Respond(t)
  <2>1. UNCHANGED <<index, place, worker>> /\ (at' = "exited" \/ UNCHANGED <<at, reason>>) /\ at # "exited"
    BY <1>3 DEF Respond, ResponseCallback
  <2>2. at \notin Preparing
    BY <1>3 DEF Respond
  <2> QED
    BY <2>1, <2>2
<1>4. CASE WorkerFails(t)
  BY <1>4 DEF WorkerFails, thread
<1>5. CASE Leave(t)
  BY <1>5 DEF Leave
<1>6. CASE \E tick \in BOOLEAN : EndTurn(t, tick)
  BY <1>6 DEF EndTurn
<1> QED
  BY <1>1, <1>2, <1>3, <1>4, <1>5, <1>6 DEF WorkerStep

LEMMA PlacesStay == PlaceInv /\ [Next]_vars => PlaceInv'
<1> SUFFICES ASSUME PlaceInv, [Next]_vars PROVE PlaceInv'
  OBVIOUS
<1>1. CASE MainStep
  BY <1>1, MainPlaces
<1>2. CASE \E t \in Threads : WorkerStep(t)
  BY <1>2, WorkerPlaces
<1>3. CASE Deadline
  BY <1>3 DEF Deadline, PlaceInv, PlaceTypes, Placed, thread
<1>4. CASE Interrupt
  BY <1>4, RunnerOK DEF Interrupt, PlaceInv, PlaceTypes, Placed, Preparing, Running, Exit, Out, thread
<1>5. CASE UNCHANGED vars
  BY <1>5 DEF vars, PlaceInv, PlaceTypes, Placed, thread
<1> QED
  BY <1>1, <1>2, <1>3, <1>4, <1>5 DEF Next

(***************************************************************************)
(* Every engine is where its next user looks for it: take() never finds a  *)
(* handle empty, whatever the threads and the script do.                   *)
(***************************************************************************)
THEOREM PlacesHold == Spec => []EnginesPlaced
<1>1. PlaceInv => EnginesPlaced
  BY RunnerOK DEF PlaceInv, PlaceTypes, Placed, EnginesPlaced, Preparing, Out
<1> QED
  BY PlacesBegin, PlacesStay, <1>1, PTL DEF Spec

-----------------------------------------------------------------------------
(* Values.                                                                 *)

\* A scalar that crosses to another environment of its kind is one there.
LEMMA ScalarSettles ==
    ASSUME NEW kind \in Kinds, NEW type \in Scalars(kind)
    PROVE  LET read == ValueToScalar(kind, ScalarToValue(type))
           IN  /\ read \in Scalars(kind)
               /\ ValueToScalar(kind, ScalarToValue(read)) = read
               /\ read = "nil" => type = "nil"
               /\ ScalarToValue(type) \notin {"Table", "refused"}
BY DEF Kinds, Scripted, Scalars, ScalarToValue, ValueToScalar

\* A value that crosses and is not refused has no function in it, and crosses
\* again unchanged.
LEMMA TransferSettles ==
    ASSUME NEW kind \in Kinds, NEW v \in Values(kind), Transfer(kind, v) # Refused
    PROVE  LET read == Transfer(kind, v)
           IN  /\ read \in Values(kind)
               /\ read.type \notin Opaque(kind) /\ read.of \notin Opaque(kind)
               /\ Transfer(kind, read) = read
<1> DEFINE read == Transfer(kind, v)
<1>1. v.type \notin Opaque(kind) /\ v.of \notin Opaque(kind)
  BY DEF Transfer, FromValue, ToValue
<1>2. CASE v.type \in Tables(kind)
  <2> DEFINE of == ValueToScalar(kind, ScalarToValue(v.of))
  <2>1. v.of \in Scalars(kind) \ {"nil"}
    BY <1>1, <1>2 DEF Values, Tables, Scalars, Kinds, Opaque
  <2>2. of \in Scalars(kind) \ {"nil"} /\ ValueToScalar(kind, ScalarToValue(of)) = of
    BY <2>1, ScalarSettles
  <2>3. read = [type |-> IF kind = "quickjs" THEN "object" ELSE "table", of |-> of]
    BY <1>1, <1>2 DEF Transfer, FromValue, ToValue, Refused
  <2> HIDE DEF of
  <2>4. read \in Values(kind) /\ read.type \in Tables(kind) /\ read.of = of
    BY <2>2, <2>3 DEF Values, Tables
  <2>5. read.type \notin Opaque(kind) /\ read.of \notin Opaque(kind)
    BY <2>2, <2>3 DEF Opaque, Scalars, Kinds
  <2>6. ToValue(kind, read) = [type |-> "Table", of |-> ScalarToValue(of)]
    BY <2>4, <2>5 DEF ToValue
  <2>7. Transfer(kind, read) = read
    BY <2>2, <2>3, <2>6 DEF Transfer, FromValue, Refused
  <2> QED
    BY <2>4, <2>5, <2>7
<1>3. CASE v.type \notin Tables(kind)
  <2> DEFINE type == ValueToScalar(kind, ScalarToValue(v.type))
  <2>1. v.type \in Scalars(kind)
    BY <1>1, <1>3 DEF Values
  <2>2. /\ type \in Scalars(kind) /\ ValueToScalar(kind, ScalarToValue(type)) = type
        /\ ScalarToValue(v.type) # "Table" /\ ScalarToValue(type) \notin {"Table", "refused"}
    BY <2>1, ScalarSettles
  <2>3. read = [type |-> type, of |-> "none"]
    BY <1>1, <1>3, <2>2 DEF Transfer, FromValue, ToValue, Refused
  <2> HIDE DEF type
  <2>4. read \in Values(kind) /\ read.type = type /\ read.of = "none"
    BY <2>2, <2>3 DEF Values
  <2>5. type \notin Opaque(kind) /\ "none" \notin Opaque(kind) /\ type \notin Tables(kind)
    BY <2>2 DEF Opaque, Scalars, Tables, Kinds
  <2>6. ToValue(kind, read) = [type |-> ScalarToValue(type), of |-> "none"]
    BY <2>4, <2>5 DEF ToValue
  <2>7. ToValue(kind, read) # Refused
    BY <2>2, <2>6 DEF Refused
  <2>8. Transfer(kind, read) = read
    BY <2>2, <2>3, <2>6, <2>7 DEF Transfer, FromValue
  <2> QED
    BY <2>4, <2>5, <2>8
<1> QED
  BY <1>2, <1>3

-----------------------------------------------------------------------------
(* Types.                                                                  *)

LEMMA PerThreadType == PerThread \in Nat
BY RunnerOK DEF PerThread

LEMMA KindType == input \in Inputs => Kind \in Kinds /\ input.script \in SUBSET Callbacks
BY RunnerOK DEF Kind

LEMMA CallbackSet == {"request", "response", "delay", "done"} \subseteq Callbacks
BY DEF Callbacks

\* What a fresh environment holds.
LEMMA FreshEngine ==
    ASSUME NEW kind, NEW script \in SUBSET Callbacks
    PROVE  NewEngine(kind, script) \in [defines : SUBSET Callbacks, completed : Nat, received : Nat]
BY DEF NewEngine

\* What passes through a handle is a value of that kind.
LEMMA SetValue ==
    ASSUME input \in Inputs, NEW v \in Given[Kind], ToValue(Kind, v) # Refused
    PROVE  Transfer(Kind, v) \in Values(Kind)
<1>1. v \in Values(Kind) /\ Kind \in Kinds
  BY RunnerOK DEF Kind
<1>2. Transfer(Kind, v) # Refused
  <2>1. v.type \notin Opaque(Kind) /\ v.of \notin Opaque(Kind)
    BY DEF ToValue
  <2>2. \A type : ValueToScalar(Kind, type) = "refused" => type = "refused"
    BY DEF ValueToScalar
  <2>3. CASE v.type \in Tables(Kind)
    BY <2>1, <2>3 DEF Transfer, FromValue, ToValue, Refused
  <2>4. CASE v.type \notin Tables(Kind)
    <3>1. v.type \in Scalars(Kind)
      BY <1>1, <2>1, <2>4 DEF Values
    <3>2. ScalarToValue(v.type) \notin {"Table", "refused"}
      BY <1>1, <3>1, ScalarSettles
    <3> QED
      BY <2>1, <2>2, <2>4, <3>2 DEF Transfer, FromValue, ToValue, Refused
  <2> QED
    BY <2>3, <2>4
<1> QED
  BY <1>1, <1>2, TransferSettles

(***************************************************************************)
(* TypeOK by the parts of the state that change together.                  *)
(***************************************************************************)
EngineRecord == [defines : SUBSET Callbacks, completed : Nat, received : Nat]
CapsRecord == [isStatic : BOOLEAN, wantsResponse : BOOLEAN, hasDelay : BOOLEAN, hasDone : BOOLEAN]

ControlTypes ==
    /\ input \in Inputs
    /\ at \in Preparing \union {"spawn", "wait", "join", "correct", "report", "done", "exited"}
    /\ index \in Threads
    /\ stop \in BOOLEAN /\ interrupted \in BOOLEAN /\ elapsed \in {"before", "over"}

EngineTypes ==
    /\ engine \in [Threads -> EngineRecord]
    /\ global \in [Threads -> Values(Kind) \union {Nothing}]
    /\ stopped \in [Threads -> BOOLEAN]

ThreadTypes ==
    /\ place \in [Threads -> {"none", "parked", "main", "worker"}]
    /\ worker \in [Threads -> {"none", "start", "poll", "turn", "leave", "finished"}]

CountTypes ==
    /\ live \in [Threads -> 0 .. PerThread] /\ failed \in [Threads -> 0 .. PerThread]
    /\ complete \in [Threads -> 0 .. MaxResponses]

SumTypes == joined \in [complete : Nat, failed : Nat] /\ interval \in Nat

Types ==
    ControlTypes /\ EngineTypes /\ ThreadTypes /\ CountTypes /\ SumTypes /\ caps \in CapsRecord

LEMMA TypesInParts == TypeOK <=> Types
BY DEF TypeOK, Types, ControlTypes, EngineTypes, ThreadTypes, CountTypes, SumTypes, CapsRecord,
       EngineRecord

LEMMA TypesBegin == Init => Types
<1> SUFFICES ASSUME Init PROVE Types
  OBVIOUS
<1>1. ControlTypes
  <2>1. input \in Inputs /\ at \in Preparing /\ index \in Threads
    BY RunnerOK DEF Init, Preparing
  <2>2. stop \in BOOLEAN /\ interrupted \in BOOLEAN /\ elapsed \in {"before", "over"}
    BY DEF Init
  <2> QED
    BY <2>1, <2>2 DEF ControlTypes
<1>2. EngineTypes
  <2>1. NewEngine(input.kind, {}) \in EngineRecord
    BY FreshEngine DEF EngineRecord
  <2> QED
    BY <2>1 DEF Init, EngineTypes
<1>3. ThreadTypes
  BY DEF Init, ThreadTypes
<1>4. CountTypes
  BY PerThreadType, RunnerOK DEF Init, CountTypes
<1>5. SumTypes
  BY DEF Init, SumTypes
<1>6. caps \in CapsRecord
  BY DEF Init, NoCaps, CapsRecord
<1> QED
  BY <1>1, <1>2, <1>3, <1>4, <1>5, <1>6 DEF Types

\* The parts a step leaves alone keep their types.
LEMMA TypesKept ==
    ASSUME Types
    PROVE  /\ UNCHANGED <<input, engine, global, stopped>> => EngineTypes'
           /\ UNCHANGED <<place, worker>> => ThreadTypes'
           /\ UNCHANGED <<live, failed, complete>> => CountTypes'
           /\ UNCHANGED <<joined, interval>> => SumTypes'
           /\ UNCHANGED caps => (caps \in CapsRecord)'
BY DEF Types, EngineTypes, ThreadTypes, CountTypes, SumTypes, Kind

LEMMA PrepareTypes ==
    ASSUME Types, CreateMain \/ ResolveTarget \/ CreateThread \/ Setup \/ InitThread \/ Probe
    PROVE  Types'
<1> USE DEF Go, Exit, thread, prepared, handle
<1>1. ControlTypes' /\ ThreadTypes'
  BY RunnerOK DEF Types, ControlTypes, ThreadTypes, Preparing, CreateMain, ResolveTarget, CreateThread,
                  Setup, SetupCallback, InitThread, NextThread, Probe
<1>2. CountTypes' /\ SumTypes'
  BY TypesKept DEF CreateMain, ResolveTarget, CreateThread, Setup, InitThread, Probe
<1>3. EngineTypes'
  <2>1. CASE CreateMain \/ ResolveTarget \/ Probe
    BY <2>1, TypesKept DEF CreateMain, ResolveTarget, Probe
  <2>2. CASE CreateThread
    <3>1. NewEngine(Kind, input.script) \in EngineRecord
      BY KindType, FreshEngine DEF Types, ControlTypes, EngineRecord
    <3> QED
      BY <2>2, <3>1 DEF CreateThread, Types, ControlTypes, EngineTypes, Kind
  <2>3. CASE Setup
    <3>1. UNCHANGED <<engine, input>>
      BY <2>3 DEF Setup
    <3>2. stopped' \in [Threads -> BOOLEAN]
      BY <2>3 DEF Setup, SetupCallback, Types, ControlTypes, EngineTypes
    <3>3. global' \in [Threads -> Values(Kind) \union {Nothing}]
      <4>1. \A s \in Threads, v \in Given[Kind] :
              CanSet(s, v) => Transfer(Kind, v) \in Values(Kind)
        BY SetValue DEF CanSet, Types, ControlTypes
      <4>2. \/ UNCHANGED global
            \/ \E s \in 1 .. index, v \in Given[Kind] : CanSet(s, v) /\ SetGlobal(s, v)
        BY <2>3 DEF Setup, SetupCallback
      <4> QED
        BY <4>1, <4>2 DEF SetGlobal, Types, ControlTypes, EngineTypes
    <3> QED
      BY <3>1, <3>2, <3>3 DEF Types, EngineTypes, Kind
  <2>4. CASE InitThread
    <3>1. CASE UNCHANGED <<input, engine, global, stopped>>
      BY <3>1, TypesKept
    <3>2. CASE InitCallback /\ UNCHANGED input
      <4>1. Given[Kind] \subseteq Values(Kind)
        BY RunnerOK DEF Types, ControlTypes, Kind
      <4>2. engine' \in [Threads -> EngineRecord]
        BY <3>2, CallbackSet DEF InitCallback, Types, ControlTypes, EngineTypes, EngineRecord
      <4>3. global' \in [Threads -> Values(Kind) \union {Nothing}]
        BY <3>2, <4>1 DEF InitCallback, Types, ControlTypes, EngineTypes
      <4>4. stopped' \in [Threads -> BOOLEAN]
        BY <3>2 DEF InitCallback, Types, ControlTypes, EngineTypes
      <4> QED
        BY <3>2, <4>2, <4>3, <4>4 DEF EngineTypes, Kind
    <3> QED
      BY <2>4, <3>1, <3>2 DEF InitThread
  <2> QED
    BY <2>1, <2>2, <2>3, <2>4
<1>4. caps' \in CapsRecord
  <2>1. Capabilities(Kind, engine[1], input.limit) \in CapsRecord
    <3>1. IsSet(input.limit) \in BOOLEAN
      BY DEF IsSet
    <3>2. (IF Kind = "config" THEN IsSet(input.limit) ELSE "response" \in engine[1].defines) \in BOOLEAN
      <4>1. CASE Kind = "config"
        BY <3>1, <4>1, Zenon
      <4>2. CASE Kind # "config"
        <5>1. ("response" \in engine[1].defines) \in BOOLEAN
          OBVIOUS
        <5> QED
          BY <4>2, <5>1, SMT
      <4> QED
        BY <4>1, <4>2
    <3>3. \A callback : (callback \in engine[1].defines) \in BOOLEAN
                          /\ (callback \notin engine[1].defines) \in BOOLEAN
      OBVIOUS
    <3>4. \A a, b, c, e \in BOOLEAN :
            [isStatic |-> a, wantsResponse |-> b, hasDelay |-> c, hasDone |-> e] \in CapsRecord
      BY DEF CapsRecord
    <3> QED
      <4> DEFINE wants == IF Kind = "config" THEN IsSet(input.limit) ELSE "response" \in engine[1].defines
      <4>1. Capabilities(Kind, engine[1], input.limit) =
              [isStatic |-> "request" \notin engine[1].defines, wantsResponse |-> wants,
               hasDelay |-> "delay" \in engine[1].defines, hasDone |-> "done" \in engine[1].defines]
        BY Zenon DEF Capabilities
      <4> HIDE DEF wants
      <4> QED
        BY <3>2, <3>3, <3>4, <4>1, Zenon DEF wants
  <2> QED
    BY <2>1, TypesKept DEF CreateMain, ResolveTarget, CreateThread, Setup, InitThread, Probe
<1> QED
  BY <1>1, <1>2, <1>3, <1>4 DEF Types

LEMMA ExecuteTypes ==
    ASSUME Types, Spawn \/ StopWorkers \/ Join \/ Correct \/ Report \/ Done
    PROVE  Types'
<1> USE DEF Go, Exit, thread, prepared, handle
<1>1. ControlTypes' /\ ThreadTypes'
  <2>1. CASE Spawn
    BY <2>1, RunnerOK DEF Types, ControlTypes, ThreadTypes, Spawn
  <2>2. CASE Join
    BY <2>2, RunnerOK DEF Types, ControlTypes, ThreadTypes, Join
  <2>3. CASE StopWorkers \/ Correct \/ Report \/ Done
    BY <2>3 DEF Types, ControlTypes, ThreadTypes, StopWorkers, Correct, Report, Done
  <2> QED
    BY <2>1, <2>2, <2>3
<1>2. EngineTypes' /\ CountTypes' /\ (caps \in CapsRecord)'
  BY TypesKept DEF Spawn, StopWorkers, Join, Correct, Report, Done
<1>3. SumTypes'
  <2>1. CASE Spawn \/ StopWorkers \/ Report \/ Done
    BY <2>1, TypesKept DEF Spawn, StopWorkers, Report, Done
  <2>2. CASE Join
    BY <2>2 DEF Join, Types, ControlTypes, CountTypes, SumTypes
  <2>3. CASE Correct
    <3>1. RunTime \in Nat
      BY RunnerOK DEF RunTime
    <3>2. \A each \in Nat : each > 0 => RunTime \div each \in Nat
      BY <3>1
    <3>3. joined.complete \div Connections \in Nat
      BY RunnerOK DEF Types, SumTypes
    <3> QED
      BY <2>3, <3>2, <3>3 DEF Correct, Types, SumTypes
  <2> QED
    BY <2>1, <2>2, <2>3
<1> QED
  BY <1>1, <1>2, <1>3 DEF Types

LEMMA WorkerTypes ==
    ASSUME Types, NEW t \in Threads, WorkerStep(t)
    PROVE  Types'
<1> USE DEF Exit, thread, prepared, handle
<1>1. ControlTypes' /\ ThreadTypes'
  BY DEF Types, ControlTypes, ThreadTypes, Preparing, WorkerStep, StartWorker, Poll, Respond,
         ResponseCallback, WorkerFails, Leave, EndTurn
<1>2. SumTypes' /\ (caps \in CapsRecord)'
  BY TypesKept DEF WorkerStep, StartWorker, Poll, Respond, WorkerFails, Leave, EndTurn
<1>3. CountTypes'
  <2>1. CASE StartWorker(t)
    BY <2>1, PerThreadType DEF Types, CountTypes, StartWorker
  <2>2. CASE Respond(t)
    <3>1. MaxResponses \in Nat
      BY RunnerOK
    <3> QED
      BY <2>2, <3>1 DEF Types, CountTypes, Respond
  <2> QED
    BY <2>1, <2>2, TypesKept DEF WorkerStep, Poll, WorkerFails, Leave, EndTurn
<1>4. EngineTypes'
  <2>1. CASE Respond(t)
    <3>1. UNCHANGED <<input, global>>
      BY <2>1 DEF Respond
    <3>2. engine' \in [Threads -> EngineRecord]
      <4>1. \A bytes \in 0 .. 1 : CountResponse(Kind, input.limit, engine[t], bytes).engine \in EngineRecord
        <5> SUFFICES ASSUME NEW bytes \in 0 .. 1
                     PROVE  CountResponse(Kind, input.limit, engine[t], bytes).engine \in EngineRecord
          OBVIOUS
        <5>1. engine[t] \in EngineRecord
          BY DEF Types, EngineTypes
        <5> DEFINE e == [engine[t] EXCEPT !.completed = @ + 1, !.received = @ + bytes]
        <5>2. e \in EngineRecord
          <6>1. bytes \in Nat /\ engine[t].completed \in Nat /\ engine[t].received \in Nat
            BY <5>1 DEF EngineRecord
          <6>2. \A m, n \in Nat : [engine[t] EXCEPT !.completed = m, !.received = n] \in EngineRecord
            BY <5>1 DEF EngineRecord
          <6>3. engine[t].completed + 1 \in Nat /\ engine[t].received + bytes \in Nat
            BY <6>1
          <6> QED
            BY <6>2, <6>3, Zenon
        <5>3. \A f, stops : [engine |-> f, stop |-> stops].engine = f
          OBVIOUS
        <5>4. CASE Kind = "config"
          BY <5>2, <5>3, <5>4, Zenon DEF CountResponse
        <5>5. CASE Kind # "config"
          BY <5>1, <5>3, <5>5, Zenon DEF CountResponse
        <5> QED
          BY <5>4, <5>5
      <4> QED
        BY <2>1, <4>1 DEF Respond, ResponseCallback, Types, EngineTypes
    <3>3. stopped' \in [Threads -> BOOLEAN]
      <4>1. \A bytes \in 0 .. 1 : CountResponse(Kind, input.limit, engine[t], bytes).stop \in BOOLEAN
        BY DEF CountResponse, Reached
      <4> QED
        BY <2>1, <4>1 DEF Respond, ResponseCallback, Types, EngineTypes
    <3> QED
      BY <3>1, <3>2, <3>3 DEF Types, EngineTypes, Kind
  <2> QED
    BY <2>1, TypesKept DEF WorkerStep, StartWorker, Poll, WorkerFails, Leave, EndTurn
<1> QED
  BY <1>1, <1>2, <1>3, <1>4 DEF Types

LEMMA TypesStay == Types /\ [Next]_vars => Types'
<1> SUFFICES ASSUME Types, [Next]_vars PROVE Types'
  OBVIOUS
<1>1. CASE MainStep
  BY <1>1, PrepareTypes, ExecuteTypes DEF MainStep
<1>2. CASE \E t \in Threads : WorkerStep(t)
  BY <1>2, WorkerTypes
<1>3. CASE Deadline \/ Interrupt \/ UNCHANGED vars
  <2>1. ControlTypes'
    BY <1>3 DEF Deadline, Interrupt, Exit, vars, Types, ControlTypes
  <2>2. EngineTypes' /\ ThreadTypes' /\ CountTypes' /\ SumTypes' /\ (caps \in CapsRecord)'
    BY <1>3, TypesKept DEF Deadline, Interrupt, vars, thread, prepared, handle
  <2> QED
    BY <2>1, <2>2 DEF Types
<1> QED
  BY <1>1, <1>2, <1>3 DEF Next

(***************************************************************************)
(* Every variable of a run stays in its type, a thread's connections       *)
(* within its share of them (runner.rs, execute).                          *)
(***************************************************************************)
THEOREM RunnerTypeCorrect == Spec => []TypeOK
<1>1. Spec => []Types
  BY TypesBegin, TypesStay, PTL DEF Spec
<1> QED
  BY <1>1, TypesInParts, PTL

(***************************************************************************)
(* What a script of any kind stores for another is the same for it however *)
(* often it is passed on.                                                  *)
(***************************************************************************)
THEOREM ReadsHold == Spec => []ReadsSettle
<1>1. TypeOK => ReadsSettle
  <2> SUFFICES ASSUME TypeOK PROVE ReadsSettle
    OBVIOUS
  <2>1. Kind \in Kinds /\ \A t \in Threads : global[t] # Nothing => global[t] \in Values(Kind)
    BY KindType DEF TypeOK
  <2> QED
    BY <2>1, TransferSettles DEF ReadsSettle
<1> QED
  BY <1>1, RunnerTypeCorrect, PTL

-----------------------------------------------------------------------------
(* The limits of a benchmark file.                                         *)

Met(t) == Kind = "config" /\ Reached(input.limit, engine[t].completed, engine[t].received)

LimitInv ==
    \A t \in Threads :
        /\ worker[t] \in {"none", "start"} => complete[t] = 0
        /\ Met(t) => stopped[t]
        /\ stopped[t] /\ worker[t] = "poll" => complete[t] = 0

\* A fresh environment has met no limit: a limit that is set is not zero.
LEMMA FreshUnmet ==
    ASSUME NEW kind, NEW script, NEW limit \in [requests : Nat, bytes : Nat]
    PROVE  LET fresh == NewEngine(kind, script)
           IN  ~Reached(limit, fresh.completed, fresh.received)
BY DEF NewEngine, Reached, Unset

LEMMA LimitsBegin == Init => LimitInv
<1> SUFFICES ASSUME Init PROVE LimitInv
  OBVIOUS
<1>1. input.limit \in [requests : Nat, bytes : Nat]
  BY RunnerOK DEF Init
<1>2. \A t \in Threads : engine[t] = NewEngine(input.kind, {})
  BY DEF Init
<1>3. \A t \in Threads : ~Met(t)
  BY <1>1, <1>2, FreshUnmet DEF Met
<1> QED
  BY <1>3 DEF Init, LimitInv

\* What a step leaves alone that the limits are about.
LEMMA LimitsKept ==
    ASSUME LimitInv, UNCHANGED <<input, engine>>, UNCHANGED <<stopped, worker, complete>>
    PROVE  LimitInv'
BY DEF LimitInv, Met, Kind

LEMMA PrepareLimits ==
    ASSUME Types, PlaceInv, LimitInv, MainStep
    PROVE  LimitInv'
<1> USE DEF thread, prepared, handle
<1>1. CASE CreateThread
  <2>1. input.limit \in [requests : Nat, bytes : Nat]
    BY RunnerOK DEF Types, ControlTypes
  <2>2. \A t \in Threads : engine'[t] = engine[t] \/ engine'[t] = NewEngine(Kind, input.script)
    BY <1>1 DEF CreateThread, Types, EngineTypes
  <2>3. \A t \in Threads : Met(t)' => Met(t)
    BY <1>1, <2>1, <2>2, FreshUnmet DEF CreateThread, Met, Kind
  <2> QED
    BY <1>1, <2>3 DEF CreateThread, LimitInv
<1>2. CASE Setup \/ InitThread
  <2>1. UNCHANGED <<input, worker, complete>> /\ at \in Preparing
    BY <1>2 DEF Setup, InitThread, Preparing
  <2>2. \A t \in Threads : stopped[t] => stopped'[t]
    BY <1>2 DEF Setup, SetupCallback, InitThread, InitCallback, Types, EngineTypes
  <2>3. \A t \in Threads : engine'[t].completed = engine[t].completed /\ engine'[t].received = engine[t].received
    <3>1. CASE UNCHANGED engine
      BY <3>1
    <3>2. CASE engine' = [engine EXCEPT ![index].defines = @ \union {"response"}]
      BY <3>2 DEF Types, EngineTypes, EngineRecord, ControlTypes
    <3> QED
      BY <1>2, <3>1, <3>2 DEF Setup, InitThread, InitCallback
  <2>4. \A t \in Threads : Met(t)' => Met(t)
    BY <2>1, <2>3 DEF Met, Kind
  <2>5. \A t \in Threads : worker[t] = "none"
    BY <2>1 DEF PlaceInv, Placed
  <2> QED
    BY <2>1, <2>2, <2>4, <2>5 DEF LimitInv
<1>3. CASE Spawn
  <2>1. \A t \in Threads : worker'[t] = worker[t] \/ (worker'[t] = "start" /\ worker[t] = "none")
    BY <1>3 DEF Spawn, PlaceInv, Placed, PlaceTypes
  <2>2. \A t \in Threads : Met(t)' = Met(t)
    BY <1>3 DEF Spawn, Met, Kind
  <2> QED
    BY <1>3, <2>1, <2>2 DEF Spawn, LimitInv
<1>4. CASE CreateMain \/ ResolveTarget \/ Probe \/ StopWorkers \/ Join \/ Correct \/ Report \/ Done
  BY <1>4, LimitsKept DEF CreateMain, ResolveTarget, Probe, StopWorkers, Join, Correct, Report, Done
<1> QED
  BY <1>1, <1>2, <1>3, <1>4 DEF MainStep

LEMMA WorkerLimits ==
    ASSUME Types, LimitInv, NEW t \in Threads, WorkerStep(t)
    PROVE  LimitInv'
<1> USE DEF thread, prepared, handle
<1>1. CASE Respond(t)
  <2>1. worker[t] = "turn" /\ UNCHANGED <<input, worker>>
    BY <1>1 DEF Respond
  <2>2. \A s \in Threads : s # t => complete'[s] = complete[s] /\ engine'[s] = engine[s] /\ stopped'[s] = stopped[s]
    BY <1>1 DEF Respond, ResponseCallback, Types, CountTypes, EngineTypes
  <2>3. Met(t)' => stopped'[t]
    <3>1. CASE UNCHANGED engine
      <4>1. stopped[t] => stopped'[t]
        BY <1>1 DEF Respond, ResponseCallback, Types, EngineTypes
      <4> QED
        BY <2>1, <3>1, <4>1 DEF LimitInv, Met, Kind
    <3>2. CASE Kind # "config"
      BY <2>1, <3>2 DEF Met, Kind
    <3>3. CASE Kind = "config" /\ caps.wantsResponse
      <4>1. PICK bytes \in 0 .. 1 :
              /\ engine' = [engine EXCEPT ![t] = CountResponse(Kind, input.limit, engine[t], bytes).engine]
              /\ stopped' = [stopped EXCEPT ![t] = @ \/ CountResponse(Kind, input.limit, engine[t], bytes).stop]
        BY <1>1, <3>3 DEF Respond, ResponseCallback, Scripted
      <4> DEFINE e == [engine[t] EXCEPT !.completed = @ + 1, !.received = @ + bytes]
      <4>2. /\ CountResponse(Kind, input.limit, engine[t], bytes).engine = e
            /\ CountResponse(Kind, input.limit, engine[t], bytes).stop = Reached(input.limit, e.completed, e.received)
        BY <3>3, Zenon DEF CountResponse
      <4>3. engine'[t] = e /\ stopped'[t] = (stopped[t] \/ Reached(input.limit, e.completed, e.received))
        BY <4>1, <4>2, Zenon DEF Types, EngineTypes
      <4> QED
        BY <2>1, <4>3, Zenon DEF Met, Kind
    <3> QED
      BY <1>1, <3>1, <3>2, <3>3 DEF Respond
  <2>4. \A s \in Threads : s # t => (Met(s)' <=> Met(s))
    BY <2>1, <2>2 DEF Met, Kind
  <2> QED
    BY <2>1, <2>2, <2>3, <2>4 DEF LimitInv
<1>2. CASE StartWorker(t)
  <2>1. /\ UNCHANGED <<input, engine, stopped, complete>>
        /\ \/ UNCHANGED worker
           \/ worker' = [worker EXCEPT ![t] = "poll"] /\ worker[t] = "start"
    BY <1>2 DEF StartWorker
  <2>2. \A s \in Threads : worker'[s] = worker[s] \/ (worker'[s] = "poll" /\ worker[s] = "start")
    BY <2>1 DEF Types, ThreadTypes
  <2> QED
    BY <2>1, <2>2 DEF LimitInv, Met, Kind
<1>3. CASE Poll(t) \/ Leave(t) \/ \E tick \in BOOLEAN : EndTurn(t, tick)
  <2>1. /\ UNCHANGED <<input, engine, stopped, complete>>
        /\ \E to \in {"turn", "leave", "poll", "finished"} :
              worker' = [worker EXCEPT ![t] = to] /\ (to = "poll" => ~stopped[t])
    BY <1>3 DEF Poll, Leave, EndTurn
  <2>2. \A s \in Threads :
          \/ worker'[s] = worker[s]
          \/ worker'[s] \notin {"none", "start"} /\ (worker'[s] = "poll" => ~stopped[s])
    BY <2>1 DEF Types, ThreadTypes
  <2> QED
    BY <2>1, <2>2 DEF LimitInv, Met, Kind
<1>4. CASE WorkerFails(t)
  BY <1>4, LimitsKept DEF WorkerFails
<1> QED
  BY <1>1, <1>2, <1>3, <1>4 DEF WorkerStep

(***************************************************************************)
(* The thread that meets a limit of the benchmark file ends with the turn  *)
(* it meets it in, whatever the limits and the number of threads (config   *)
(* engine, response; eventloop.rs, loop_once).                             *)
(***************************************************************************)
THEOREM LimitsHold == Spec => []StopsAtLimit
<1>1. Types /\ PlaceInv /\ LimitInv /\ [Next]_vars => LimitInv'
  <2> SUFFICES ASSUME Types, PlaceInv, LimitInv, [Next]_vars PROVE LimitInv'
    OBVIOUS
  <2>1. CASE MainStep
    BY <2>1, PrepareLimits
  <2>2. CASE \E t \in Threads : WorkerStep(t)
    BY <2>2, WorkerLimits
  <2>3. CASE Deadline \/ Interrupt \/ UNCHANGED vars
    BY <2>3, LimitsKept DEF Deadline, Interrupt, vars, thread, handle
  <2> QED
    BY <2>1, <2>2, <2>3 DEF Next
<1>2. LimitInv => StopsAtLimit
  BY DEF LimitInv, Met, StopsAtLimit
<1>3. Spec => [](Types /\ PlaceInv /\ LimitInv)
  BY TypesBegin, TypesStay, PlacesBegin, PlacesStay, LimitsBegin, <1>1, PTL DEF Spec
<1> QED
  BY <1>2, <1>3, PTL

-----------------------------------------------------------------------------
(* The interval of the correction.                                         *)

\* Dividing by the responses of one connection out of all of them is dividing by
\* no more than the share of the connections that were opened.
LEMMA ShareOfInterval ==
    ASSUME NEW time \in Nat, NEW opened \in Nat, NEW all \in Nat \ {0}, opened <= all,
           NEW responses \in Nat, responses \div all > 0
    PROVE  time \div (responses \div all) >= (time * opened) \div responses
<1> DEFINE each == responses \div all
           q == time \div each
<1>1. each \in Nat /\ each > 0 /\ each * all <= responses
  OBVIOUS
<1>2. responses > 0
  BY <1>1
<1> HIDE DEF each
<1>3. q \in Nat /\ time < (q + 1) * each
  BY <1>1
<1> HIDE DEF q
<1>4. time * opened <= time * all
  OBVIOUS
<1>5. time * all <= (q + 1) * each * all
  BY <1>1, <1>3
<1>6. (q + 1) * each * all <= (q + 1) * responses
  BY <1>1, <1>3
<1> QED
  BY <1>1, <1>2, <1>3, <1>4, <1>5, <1>6

Corrected == {"report", "done"}

\* The run time is settled once the workers are told to stop.
IntervalInv ==
    /\ at \in {"join", "correct"} \union Corrected => stop
    /\ at \in Corrected =>
         LET each == joined.complete \div Connections
         IN  interval = IF each > 0 THEN RunTime \div each ELSE 0

LEMMA IntervalSettled ==
    ASSUME Types, IntervalInv, at \in Corrected
    PROVE  IntervalNotShort
<1> SUFFICES ASSUME interval > 0
             PROVE  interval >= (RunTime * N * PerThread) \div joined.complete
  BY DEF IntervalNotShort
<1>1. RunTime \in Nat /\ joined.complete \in Nat /\ PerThread \in Nat /\ Connections \in Nat \ {0}
  BY RunnerOK, PerThreadType DEF RunTime, Types, SumTypes
<1>2. N * PerThread \in Nat /\ N * PerThread <= Connections
  <2>1. PerThread = Connections \div N
    BY DEF PerThread
  <2> QED
    BY <1>1, <2>1, RunnerOK
<1>3. /\ joined.complete \div Connections > 0
      /\ interval = RunTime \div (joined.complete \div Connections)
  BY DEF IntervalInv
<1>4. RunTime * N * PerThread = RunTime * (N * PerThread)
  BY <1>1, RunnerOK
<1> QED
  BY <1>1, <1>2, <1>3, <1>4, ShareOfInterval

LEMMA IntervalsStay == IntervalInv /\ [Next]_vars => IntervalInv'
<1> SUFFICES ASSUME IntervalInv, [Next]_vars PROVE IntervalInv'
  OBVIOUS
<1> USE DEF IntervalInv, Corrected, Go, Exit, thread, prepared, handle
<1>1. CASE CreateMain \/ ResolveTarget \/ CreateThread \/ Setup \/ InitThread \/ Probe
  <2>1. at' \in Preparing \union {"spawn", "exited"}
    BY <1>1 DEF CreateMain, ResolveTarget, CreateThread, Setup, SetupCallback, InitThread, Probe,
                NextThread, Preparing
  <2> QED
    BY <2>1 DEF Preparing
<1>2. CASE Spawn \/ StopWorkers \/ Join
  BY <1>2 DEF Spawn, StopWorkers, Join
<1>3. CASE Correct
  BY <1>3 DEF Correct, RunTime
<1>4. CASE Report \/ Done
  BY <1>4 DEF Report, Done, RunTime
<1>5. CASE \E t \in Threads : WorkerStep(t)
  <2>1. at' \in {at, "exited"} /\ UNCHANGED <<stop, elapsed, joined, interval>>
    BY <1>5 DEF WorkerStep, StartWorker, Poll, Respond, ResponseCallback, WorkerFails, Leave, EndTurn
  <2> QED
    BY <2>1 DEF RunTime
<1>6. CASE Deadline \/ Interrupt \/ UNCHANGED vars
  BY <1>6 DEF Deadline, Interrupt, vars, RunTime
<1> QED
  BY <1>1, <1>2, <1>3, <1>4, <1>5, <1>6 DEF Next, MainStep

(***************************************************************************)
(* Whatever the threads and the connections are, those that are left over  *)
(* do not make the correction add more samples (runner.rs, execute).       *)
(***************************************************************************)
THEOREM IntervalsHold == Spec => []IntervalNotShort
<1>1. Types /\ IntervalInv => IntervalNotShort
  BY IntervalSettled DEF IntervalNotShort, Corrected
<1>2. Init => IntervalInv
  BY DEF Init, IntervalInv, Corrected
<1>3. Spec => [](Types /\ IntervalInv)
  BY TypesBegin, TypesStay, <1>2, IntervalsStay, PTL DEF Spec
<1> QED
  BY <1>1, <1>3, PTL

-----------------------------------------------------------------------------
(* A run implements Benchmark.                                             *)

\* The responses that these threads completed, told apart.
ResponsesOf(S) == UNION {{t} \X (1 .. complete[t]) : t \in S}

\* The threads whose counters main has added up.
Joined ==
    IF at \in {"correct", "report", "done"} THEN Threads
    ELSE IF at = "join" THEN 1 .. index - 1
    ELSE {}

\* main adds up whole counters, each once; the process ends for a reason.
SumInv ==
    /\ at # "exited" => joined.complete = Cardinality(ResponsesOf(Joined))
    /\ at # "exited" => reason = "none"

LEMMA ThreadsFinite == IsFiniteSet(Threads)
BY RunnerOK, FS_Interval

LEMMA Numbered ==
    ASSUME NEW t, NEW n \in Nat
    PROVE  IsFiniteSet({t} \X (1 .. n)) /\ Cardinality({t} \X (1 .. n)) = n
<1>1. IsFiniteSet({t}) /\ Cardinality({t}) = 1
  BY FS_Singleton
<1>2. IsFiniteSet(1 .. n) /\ Cardinality(1 .. n) = n
  BY FS_Interval
<1> DEFINE one == {t}
           many == 1 .. n
<1> HIDE DEF one, many
<1>3. IsFiniteSet(one \X many) /\ Cardinality(one \X many) = Cardinality(one) * Cardinality(many)
  <2>1. IsFiniteSet(one) /\ IsFiniteSet(many)
    BY <1>1, <1>2 DEF one, many
  <2> QED
    BY <2>1, FS_Product
<1>4. Cardinality(one) * Cardinality(many) = n
  BY <1>1, <1>2 DEF one, many
<1> QED
  BY <1>3, <1>4 DEF one, many

LEMMA ResponsesFinite ==
    ASSUME NEW S, IsFiniteSet(S), \A t \in S : complete[t] \in Nat
    PROVE  IsFiniteSet(ResponsesOf(S)) /\ Cardinality(ResponsesOf(S)) \in Nat
<1> DEFINE piece(t) == {t} \X (1 .. complete[t])
           pieces == {piece(t) : t \in S}
           f == [t \in S |-> piece(t)]
<1>1. f \in Surjection(S, pieces)
  BY DEF Surjection
<1>2. IsFiniteSet(pieces)
  <2> HIDE DEF f, pieces
  <2> QED
    BY <1>1, FS_Surjection
<1>3. ASSUME NEW t \in S PROVE IsFiniteSet(piece(t))
  BY Numbered
<1>4. IsFiniteSet(UNION pieces)
  BY <1>2, <1>3, FS_UNION
<1> QED
  BY <1>4, FS_CardinalityType DEF ResponsesOf

\* One more thread adds what it completed.
LEMMA ResponsesAdd ==
    ASSUME NEW S, IsFiniteSet(S), NEW t, t \notin S, \A u \in S \union {t} : complete[u] \in Nat
    PROVE  Cardinality(ResponsesOf(S \union {t})) = Cardinality(ResponsesOf(S)) + complete[t]
<1> DEFINE own == {t} \X (1 .. complete[t])
<1>1. IsFiniteSet(ResponsesOf(S)) /\ Cardinality(ResponsesOf(S)) \in Nat
  BY ResponsesFinite
<1>2. IsFiniteSet(own) /\ Cardinality(own) = complete[t]
  BY Numbered
<1>3. ResponsesOf(S \union {t}) = ResponsesOf(S) \union own
  BY DEF ResponsesOf
<1>4. ResponsesOf(S) \intersect own = {}
  <2> SUFFICES ASSUME NEW u, u \in ResponsesOf(S), u \in own PROVE FALSE
    OBVIOUS
  <2>1. u[1] \in S /\ u[1] = t
    BY DEF ResponsesOf
  <2> QED
    BY <2>1
<1> HIDE DEF own
<1>5. Cardinality(ResponsesOf(S) \intersect own) = 0
  BY <1>4, FS_EmptySet
<1>6. Cardinality(ResponsesOf(S) \union own)
        = Cardinality(ResponsesOf(S)) + Cardinality(own) - Cardinality(ResponsesOf(S) \intersect own)
  BY <1>1, <1>2, FS_Union, Zenon
<1>7. complete[t] \in Nat
  OBVIOUS
<1>8. \A a, b, c, d \in Nat : c = 0 /\ b = d => a + b - c = a + d
  OBVIOUS
<1>9. Cardinality(ResponsesOf(S) \union own) = Cardinality(ResponsesOf(S)) + complete[t]
  BY <1>1, <1>2, <1>5, <1>6, <1>7, <1>8
<1> QED
  BY <1>3, <1>9, Zenon

LEMMA NoResponses == Cardinality(ResponsesOf({})) = 0
<1>1. ResponsesOf({}) = {}
  BY DEF ResponsesOf
<1> QED
  BY <1>1, FS_EmptySet

LEMMA SumBegins == Init => SumInv
<1> SUFFICES ASSUME Init PROVE SumInv
  OBVIOUS
<1>1. Joined = {} /\ joined.complete = 0 /\ reason = "none"
  BY DEF Init, Joined
<1> QED
  BY <1>1, NoResponses DEF SumInv

\* The threads that are joined are joined with what they will ever have completed.
LEMMA SumKept ==
    ASSUME SumInv, at # "exited", at' # "exited" => reason' = "none", UNCHANGED joined,
           at' # "exited" => Joined' = Joined,
           \A t \in Joined : complete'[t] = complete[t]
    PROVE  SumInv'
<1>1. ASSUME at' # "exited" PROVE ResponsesOf(Joined)' = ResponsesOf(Joined)
  BY <1>1 DEF ResponsesOf
<1> QED
  BY <1>1 DEF SumInv

LEMMA JoinSums ==
    ASSUME Types, SumInv, Join
    PROVE  SumInv'
<1>1. /\ at = "join" /\ at' \in {"join", "correct"} /\ reason' = reason
      /\ joined'.complete = joined.complete + complete[index]
      /\ complete' = complete
      /\ IF index < N THEN at' = "join" /\ index' = index + 1 ELSE at' = "correct"
  BY DEF Join, Go, thread
<1>2. index \in 1 .. N /\ N \in Nat /\ \A t \in Threads : complete[t] \in Nat
  BY RunnerOK DEF Types, ControlTypes, CountTypes
<1>3. Joined = 1 .. index - 1 /\ Joined' = (1 .. index - 1) \union {index}
  BY <1>1, <1>2 DEF Joined
<1>4. /\ IsFiniteSet(1 .. index - 1) /\ index \notin 1 .. index - 1
      /\ \A u \in (1 .. index - 1) \union {index} : complete[u] \in Nat
  BY <1>2, FS_Interval
<1>5. Cardinality(ResponsesOf((1 .. index - 1) \union {index}))
        = Cardinality(ResponsesOf(1 .. index - 1)) + complete[index]
  BY <1>4, ResponsesAdd
<1>6. ResponsesOf(Joined)' = ResponsesOf((1 .. index - 1) \union {index})
  BY <1>1, <1>3 DEF ResponsesOf
<1> QED
  BY <1>1, <1>3, <1>5, <1>6 DEF SumInv

\* What main does but for adding up.
LEMMA MainSums ==
    ASSUME PlaceInv, Types, SumInv, MainStep
    PROVE  SumInv'
<1> USE DEF Go, Exit, thread
<1>1. CASE Join
  BY <1>1, JoinSums
<1>2. CASE CreateMain \/ ResolveTarget \/ CreateThread \/ Setup \/ InitThread \/ Probe
  <2>1. at \in Preparing /\ UNCHANGED <<joined, complete>>
    BY <1>2 DEF CreateMain, ResolveTarget, CreateThread, Setup, InitThread, Probe, Preparing
  <2>2. at' # "exited" => at' \in Preparing \union {"spawn"} /\ reason' = reason
    BY <1>2 DEF CreateMain, ResolveTarget, CreateThread, Setup, SetupCallback, InitThread, Probe,
                NextThread, Preparing
  <2>3. Joined = {} /\ (at' # "exited" => Joined' = {})
    BY <2>1, <2>2 DEF Joined, Preparing
  <2> QED
    BY <2>1, <2>2, <2>3, SumKept DEF SumInv, Preparing
<1>3. CASE Spawn \/ StopWorkers
  <2>1. /\ at \in {"spawn", "wait"} /\ UNCHANGED <<joined, complete, reason>>
        /\ at' \in {"spawn", "wait"} \/ (at' = "join" /\ index' = index /\ at = "wait")
    BY <1>3 DEF Spawn, StopWorkers
  <2>2. at = "wait" => index = 1
    BY DEF PlaceInv, Placed
  <2>3. Joined = {} /\ Joined' = {}
    BY <2>1, <2>2 DEF Joined
  <2> QED
    BY <2>1, <2>3, SumKept DEF SumInv
<1>4. CASE Correct \/ Report \/ Done
  <2>1. /\ at \in {"correct", "report", "done"} /\ UNCHANGED <<joined, complete>>
        /\ at' # "exited" => at' \in {"correct", "report", "done"} /\ reason' = reason
    BY <1>4 DEF Correct, Report, Done
  <2> QED
    BY <2>1, SumKept DEF SumInv, Joined
<1> QED
  BY <1>1, <1>2, <1>3, <1>4 DEF MainStep

LEMMA SumStays == PlaceInv /\ Types /\ SumInv /\ [Next]_vars => SumInv'
<1> SUFFICES ASSUME PlaceInv, Types, SumInv, [Next]_vars PROVE SumInv'
  OBVIOUS
<1>1. CASE MainStep
  BY <1>1, MainSums
<1>2. ASSUME NEW t \in Threads, WorkerStep(t) PROVE SumInv'
  <2>1. /\ at # "exited" /\ UNCHANGED <<joined, index>>
        /\ at' # "exited" => UNCHANGED <<at, reason>>
        /\ \A s \in Threads : worker[s] = "finished" => complete'[s] = complete[s]
    BY <1>2 DEF WorkerStep, StartWorker, Poll, Respond, ResponseCallback, WorkerFails, Leave, EndTurn,
                Exit, thread, Types, CountTypes
  <2>2. Joined \subseteq Threads /\ \A s \in Joined : worker[s] = "finished"
    BY RunnerOK DEF Joined, PlaceInv, Placed, PlaceTypes
  <2> QED
    BY <2>1, <2>2, SumKept DEF SumInv, Joined
<1>3. CASE Deadline \/ Interrupt
  <2>1. /\ at # "exited" /\ UNCHANGED <<joined, index, complete>>
        /\ at' # "exited" => UNCHANGED <<at, reason>>
    BY <1>3 DEF Deadline, Interrupt, Running, Exit, thread
  <2> QED
    BY <2>1, SumKept DEF SumInv, Joined
<1>4. CASE UNCHANGED vars
  BY <1>4 DEF vars, thread, SumInv, Joined, ResponsesOf
<1> QED
  BY <1>1, <1>2, <1>3, <1>4 DEF Next

Told == IF at = "done" \/ reason = "finished" THEN joined.complete ELSE -1

\* How a step looks to Benchmark.
LEMMA BenchSteps ==
    /\ UNCHANGED <<Stage, complete, Told>> => UNCHANGED Bench!vars
    /\ Stage = "preparing" /\ Stage' = "running" /\ UNCHANGED <<complete, Told>> => Bench!Next
    /\ Stage = "running" /\ Stage' = "reported" /\ Told' = Cardinality(ResponsesOf(Threads))
         /\ UNCHANGED complete => Bench!Next
    /\ Stage = "reported" /\ Stage' = "finished" /\ UNCHANGED <<complete, Told>> => Bench!Next
    /\ \A t \in Threads :
         /\ Stage = "running" /\ UNCHANGED <<Stage, Told>> /\ complete' = [complete EXCEPT ![t] = @ + 1]
              => Bench!Next
         /\ Stage = "running" /\ Stage' = "failed" /\ UNCHANGED Told
              /\ complete' = [complete EXCEPT ![t] = @ + 1] => Bench!Next
    /\ Stage \in {"preparing", "running"} /\ Stage' = "failed" /\ UNCHANGED <<complete, Told>>
         => Bench!Next
<1>1. UNCHANGED <<Stage, complete, Told>> => UNCHANGED Bench!vars
  BY DEF Bench!vars, Told
<1>2. Stage = "preparing" /\ Stage' = "running" /\ UNCHANGED <<complete, Told>> => Bench!Next
  BY DEF Bench!Next, Bench!Start, Told
<1>3. Stage = "running" /\ Stage' = "reported" /\ Told' = Cardinality(ResponsesOf(Threads))
        /\ UNCHANGED complete => Bench!Next
  <2>1. Bench!Responses = ResponsesOf(Threads)
    BY DEF Bench!Responses, ResponsesOf
  <2>2. Bench!Cardinality(Bench!Responses) = Cardinality(Bench!Responses)
    BY DEF Cardinality, Bench!Cardinality
  <2> QED
    BY <2>1, <2>2 DEF Bench!Next, Bench!Report, Told
<1>4. Stage = "reported" /\ Stage' = "finished" /\ UNCHANGED <<complete, Told>> => Bench!Next
  BY DEF Bench!Next, Bench!Finish, Told
<1>5. ASSUME NEW t \in Threads
      PROVE  /\ Stage = "running" /\ UNCHANGED <<Stage, Told>> /\ complete' = [complete EXCEPT ![t] = @ + 1]
                  => Bench!Next
             /\ Stage = "running" /\ Stage' = "failed" /\ UNCHANGED Told
                  /\ complete' = [complete EXCEPT ![t] = @ + 1] => Bench!Next
  BY DEF Bench!Next, Bench!Complete, Bench!Fail, Told
<1>6. Stage \in {"preparing", "running"} /\ Stage' = "failed" /\ UNCHANGED <<complete, Told>> => Bench!Next
  BY DEF Bench!Next, Bench!Fail, Told
<1> QED
  BY <1>1, <1>2, <1>3, <1>4, <1>5, <1>6

\* The stages by where main is.
LEMMA Stages ==
    /\ at \in Preparing => Stage = "preparing"
    /\ at \in {"spawn", "wait", "join", "correct", "report"} => Stage = "running"
    /\ at = "done" => Stage = "reported"
    /\ at = "exited" => Stage = IF reason = "finished" THEN "finished" ELSE "failed"
BY DEF Stage, Preparing

LEMMA StagesNext ==
    /\ at' \in Preparing => Stage' = "preparing"
    /\ at' \in {"spawn", "wait", "join", "correct", "report"} => Stage' = "running"
    /\ at' = "done" => Stage' = "reported"
    /\ at' = "exited" => Stage' = IF reason' = "finished" THEN "finished" ELSE "failed"
BY DEF Stage, Preparing

BenchStep == Bench!Next \/ UNCHANGED Bench!vars

\* Before the report, a step that leaves the counters alone stays in its stage or fails.
LEMMA QuietStep ==
    ASSUME at \in Preparing \union {"spawn", "wait", "join", "correct", "report"}, reason = "none",
           UNCHANGED complete,
           \/ at' = "exited" /\ reason' \notin {"none", "finished"}
           \/ Stage' = Stage /\ at' # "done" /\ reason' = "none"
    PROVE  BenchStep
<1>1. Stage \in {"preparing", "running"} /\ Told = -1 /\ Told' = -1
  BY Stages DEF Told, Preparing
<1>2. Stage' = Stage \/ Stage' = "failed"
  BY StagesNext
<1> QED
  BY <1>1, <1>2, BenchSteps DEF BenchStep

\* A set of numbers has a least one, and a greatest if it is bounded.
LEMMA LeastIn ==
    ASSUME NEW S \in SUBSET Nat, S # {}
    PROVE  \E m \in S : \A k \in S : m <= k
<1> DEFINE L == OpToRel(<, Nat)
<1>1. L = {ss \in Nat \X Nat : ss[1] < ss[2]}
  BY DEF OpToRel
<1>2. IsWellFoundedOn(L, Nat)
  BY NatLessThanWellFounded
<1>3. PICK m \in S : \A k \in S : ~(<<k, m>> \in L)
  <2> HIDE DEF L
  <2> QED
    BY <1>2, WFMin
<1>4. ASSUME NEW k \in S PROVE m <= k
  <2>1. ~(<<k, m>> \in L) /\ k \in Nat /\ m \in Nat
    BY <1>3
  <2>2. <<k, m>> \in Nat \X Nat /\ <<k, m>>[1] = k /\ <<k, m>>[2] = m
    BY <2>1
  <2>3. ~(k < m)
    BY <1>1, <2>1, <2>2
  <2> HIDE DEF L
  <2> QED
    BY <2>1, <2>3
<1> HIDE DEF L
<1> QED
  BY <1>4

LEMMA EndsOf ==
    ASSUME NEW n \in Nat, NEW S \in SUBSET (1 .. n), S # {}
    PROVE  Min(S) \in S /\ Max(S) \in S
<1>1. \E m \in S : \A k \in S : m <= k
  <2>1. S \in SUBSET Nat
    OBVIOUS
  <2> QED
    BY <2>1, LeastIn
<1>2. \E m \in S : \A k \in S : m >= k
  <2> DEFINE T == {n - k : k \in S}
  <2>1. T \in SUBSET Nat /\ T # {}
    <3>1. \A k \in S : n - k \in Nat
      OBVIOUS
    <3> QED
      BY <3>1, Zenon
  <2>2. PICK l \in T : \A k \in T : l <= k
    <3> HIDE DEF T
    <3> QED
      BY <2>1, LeastIn
  <2>3. PICK m \in S : l = n - m
    OBVIOUS
  <2>4. ASSUME NEW k \in S PROVE m >= k
    <3>1. l <= n - k
      BY <2>2
    <3> HIDE DEF T
    <3> QED
      BY <2>3, <3>1
  <2> QED
    BY <2>4
<1> QED
  BY <1>1, <1>2 DEF Min, Max

\* Whatever addresses refused, the error names one of them.
LEMMA RefusedReason ==
    ASSUME NEW kind, NEW accepting
    PROVE  LastRefused(kind, Candidates, accepting) \notin {"none", "finished"}
<1> DEFINE refused == {i \in 1 .. Len(Candidates) : Candidates[i] \notin accepting}
           i == IF kind = "lua" THEN Min(refused) ELSE Max(refused)
<1>1. CASE refused = {}
  BY <1>1 DEF LastRefused
<1>2. CASE refused # {}
  <2>1. refused \in SUBSET (1 .. Len(Candidates)) /\ Len(Candidates) \in Nat
    BY RunnerOK
  <2>2. Min(refused) \in refused /\ Max(refused) \in refused
    <3> HIDE DEF refused
    <3> QED
      BY <1>2, <2>1, EndsOf
  <2>3. i \in 1 .. Len(Candidates)
    BY <2>2
  <2>4. LastRefused(kind, Candidates, accepting) = Candidates[i]
    BY <1>2 DEF LastRefused
  <2> HIDE DEF i
  <2> QED
    BY <2>3, <2>4, RunnerOK
<1> QED
  BY <1>1, <1>2

LEMMA PrepareBench ==
    ASSUME SumInv, CreateMain \/ ResolveTarget \/ CreateThread \/ Setup \/ InitThread \/ Probe
    PROVE  BenchStep
<1> USE DEF Go, Exit, thread
<1>1. at \in Preparing /\ reason = "none" /\ UNCHANGED complete
  BY DEF CreateMain, ResolveTarget, CreateThread, Setup, InitThread, Probe, Preparing, SumInv
<1>2. \/ at' = "exited" /\ reason' \notin {"none", "finished"}
      \/ at' \in Preparing \union {"spawn"} /\ reason' = reason
  <2>1. CASE ResolveTarget
    BY <2>1, RefusedReason DEF ResolveTarget, Preparing
  <2>2. CASE CreateMain \/ CreateThread \/ Setup \/ InitThread \/ Probe
    BY <2>2 DEF CreateMain, CreateThread, Setup, SetupCallback, InitThread, Probe, NextThread, Preparing
  <2> QED
    BY <2>1, <2>2
<1>3. CASE at' = "spawn"
  <2>1. Stage = "preparing" /\ Stage' = "running" /\ Told = -1 /\ Told' = -1
    BY <1>1, <1>2, <1>3, Stages, StagesNext DEF Told, Preparing
  <2> QED
    BY <1>1, <2>1, BenchSteps DEF BenchStep
<1>4. CASE at' # "spawn"
  <2>1. at' \in Preparing => Stage' = Stage /\ at' # "done"
    BY <1>1, Stages, StagesNext DEF Preparing
  <2> QED
    BY <1>1, <1>2, <1>4, <2>1, QuietStep
<1> QED
  BY <1>3, <1>4

LEMMA ExecuteBench ==
    ASSUME SumInv, Spawn \/ StopWorkers \/ Join \/ Correct \/ Report \/ Done
    PROVE  BenchStep
<1> USE DEF Go, Exit, thread
<1>1. CASE Spawn \/ StopWorkers \/ Join \/ Correct
  <2>1. /\ at \in {"spawn", "wait", "join", "correct"} /\ reason = "none" /\ UNCHANGED <<complete, reason>>
        /\ at' \in {"spawn", "wait", "join", "correct", "report"}
    BY <1>1 DEF Spawn, StopWorkers, Join, Correct, SumInv
  <2>2. Stage' = Stage /\ at' # "done"
    BY <2>1, Stages, StagesNext
  <2> QED
    BY <2>1, <2>2, QuietStep
<1>2. CASE Report
  <2>1. at = "report" /\ reason = "none" /\ UNCHANGED <<complete, joined>>
    BY <1>2 DEF Report, SumInv
  <2>2. CASE at' = "done" /\ reason' = reason
    <3>1. Stage = "running" /\ Stage' = "reported"
      BY <2>1, <2>2, Stages, StagesNext
    <3>2. Told' = joined.complete /\ joined.complete = Cardinality(ResponsesOf(Threads))
      BY <2>1, <2>2 DEF Told, SumInv, Joined
    <3> QED
      BY <2>1, <3>1, <3>2, BenchSteps DEF BenchStep
  <2>3. CASE at' = "exited" /\ reason' = "output"
    BY <2>1, <2>3, QuietStep
  <2> QED
    BY <1>2, <2>2, <2>3 DEF Report
<1>3. CASE Done
  <2>1. at = "done" /\ at' = "exited" /\ reason' = "finished" /\ UNCHANGED <<complete, joined>>
    BY <1>3 DEF Done
  <2>2. Stage = "reported" /\ Stage' = "finished" /\ Told' = Told
    BY <2>1, Stages, StagesNext DEF Told
  <2> QED
    BY <2>1, <2>2, BenchSteps DEF BenchStep
<1> QED
  BY <1>1, <1>2, <1>3

\* A worker runs only between the spawn and the join, and may fail the run.
LEMMA WorkerBench ==
    ASSUME PlaceInv, SumInv, NEW t \in Threads, WorkerStep(t)
    PROVE  BenchStep
<1>1. /\ at \in {"spawn", "wait", "join"} /\ reason = "none"
      /\ \/ at' = "exited" /\ reason' = "worker"
         \/ at' = at /\ reason' = reason
      /\ UNCHANGED complete \/ complete' = [complete EXCEPT ![t] = @ + 1]
  <2>1. at # "exited" /\ worker[t] \notin {"none", "finished"}
    BY DEF WorkerStep, StartWorker, Poll, Respond, WorkerFails, Leave, EndTurn
  <2>2. at \in {"spawn", "wait", "join"} /\ reason = "none"
    BY <2>1 DEF PlaceInv, Placed, PlaceTypes, SumInv
  <2>3. \/ at' = "exited" /\ reason' = "worker"
        \/ at' = at /\ reason' = reason
    BY DEF WorkerStep, StartWorker, Poll, Respond, ResponseCallback, WorkerFails, Leave, EndTurn, Exit
  <2>4. UNCHANGED complete \/ complete' = [complete EXCEPT ![t] = @ + 1]
    BY DEF WorkerStep, StartWorker, Poll, Respond, WorkerFails, Leave, EndTurn, thread
  <2> QED
    BY <2>2, <2>3, <2>4
<1>2. Stage = "running" /\ Told = -1 /\ Told' = -1 /\ Stage' \in {"running", "failed"}
  BY <1>1, Stages, StagesNext DEF Told
<1> QED
  BY <1>1, <1>2, BenchSteps DEF BenchStep

LEMMA StepBench ==
    ASSUME PlaceInv, SumInv, [Next]_vars
    PROVE  BenchStep
<1>1. CASE MainStep
  BY <1>1, PrepareBench, ExecuteBench DEF MainStep
<1>2. CASE \E t \in Threads : WorkerStep(t)
  BY <1>2, WorkerBench
<1>3. CASE Deadline
  <2>1. UNCHANGED <<Stage, complete, Told>>
    BY <1>3 DEF Deadline, thread, Stage, Told
  <2> QED
    BY <2>1, BenchSteps DEF BenchStep
<1>4. CASE Interrupt
  <2>1. UNCHANGED <<complete, joined>> /\ at # "exited" /\ reason = "none"
    BY <1>4 DEF Interrupt, thread, SumInv
  <2>2. CASE UNCHANGED <<at, reason>>
    <3>1. UNCHANGED <<Stage, complete, Told>>
      BY <2>1, <2>2 DEF Stage, Told
    <3> QED
      BY <3>1, BenchSteps DEF BenchStep
  <2>3. CASE at' = "exited" /\ reason' \in {"killed", "worker"}
    <3>1. at \in Preparing \union {"spawn", "wait", "join", "correct", "report"}
      <4>1. at # "done"
        BY <1>4, <2>3 DEF Interrupt, Preparing, PlaceInv, Placed
      <4> QED
        BY <2>1, <4>1 DEF PlaceInv, PlaceTypes
    <3> QED
      BY <2>1, <2>3, <3>1, QuietStep
  <2> QED
    BY <1>4, <2>2, <2>3 DEF Interrupt, Exit
<1>5. CASE UNCHANGED vars
  <2>1. UNCHANGED <<Stage, complete, Told>>
    BY <1>5 DEF vars, thread, Stage, Told
  <2> QED
    BY <2>1, BenchSteps DEF BenchStep
<1> QED
  BY <1>1, <1>2, <1>3, <1>4, <1>5 DEF Next

(***************************************************************************)
(* Whatever the threads, the engine and its script do, and whenever a      *)
(* signal comes: a run fails without a report, or what it reports is the   *)
(* sum of what every thread completed, and nothing completes after that    *)
(* (runner.rs, execute; main.rs).                                          *)
(***************************************************************************)
THEOREM RunIsBenchmark == Spec => ImplementsBenchmark
<1>1. Init => Bench!Init
  <2> SUFFICES ASSUME Init PROVE Bench!Init
    OBVIOUS
  <2>1. Stage = "preparing" /\ at = "start" /\ reason = "none" /\ complete = [t \in Threads |-> 0]
    BY DEF Init, Stage, Preparing
  <2> QED
    BY <2>1 DEF Bench!Init
<1>2. PlaceInv /\ Types /\ SumInv /\ [Next]_vars => [Bench!Next]_Bench!vars
  BY StepBench DEF BenchStep
<1>3. Spec => [](PlaceInv /\ Types /\ SumInv)
  BY PlacesBegin, PlacesStay, TypesBegin, TypesStay, SumBegins, SumStays, PTL DEF Spec
<1>4. Spec => Bench!Spec
  BY <1>1, <1>2, <1>3, PTL DEF Spec, Bench!Spec
<1> QED
  BY <1>4 DEF ImplementsBenchmark
=================================================================================
