-------------------------------- MODULE Runner --------------------------------
(***************************************************************************)
(* One run of the program after its command line is read: main.rs,         *)
(* runner.rs, signals.rs, the start and the end of each worker in          *)
(* eventloop.rs, and the script engines as far as they stop, fail, count   *)
(* or pass on values (ScriptEngine).                                       *)
(*                                                                         *)
(* main prepares one engine per thread, spawns the workers, waits for the  *)
(* deadline or for SIGINT, joins the workers in order, corrects, reports   *)
(* and calls done.  The workers run beside it from the moment they are     *)
(* spawned; one turn of their loop is Poll, any number of Respond and      *)
(* EndTurn (EventLoop has the connections in detail).  A script's          *)
(* callback does one of the things it can do, or raises an error.          *)
(***************************************************************************)
EXTENDS ScriptEngine, SequencesExt

CONSTANTS
    N,             \* Config::threads
    Connections,   \* Config::connections
    Duration,      \* the microseconds of a run that reaches its deadline
    Candidates,    \* the addresses the lookup returns, in resolver order
    Inputs,        \* [kind, script, limit]: the engine, its callbacks, the file's limits
    Given,         \* the values a script may store, by engine
    MaxResponses   \* bound: responses completed by one worker

ASSUME RunnerOK ==
    /\ N \in Nat \ {0}
    /\ Connections \in Nat /\ N <= Connections
    /\ Duration \in Nat \ {0}
    /\ Len(Candidates) \in Nat
    \* an address is none of the reasons below
    /\ \A i \in 1 .. Len(Candidates) : Candidates[i] \notin {"none", "finished"}
    /\ Inputs \subseteq [kind : Kinds, script : SUBSET Callbacks,
                         limit : [requests : Nat, bytes : Nat]]
    /\ \A i \in Inputs : Given[i.kind] \subseteq Values(i.kind)
    /\ MaxResponses \in Nat

Threads == 1 .. N
NoAddress == "none"
Nothing == [type |-> "nothing", of |-> "none"]

VARIABLES
    input,         \* the engine entry, the script and the benchmark file
    at,            \* where main is
    index,         \* the thread it is at
    addresses,     \* Prepared::addresses
    caps,          \* Prepared::capabilities, thread one's
    place,         \* where each thread's engine is: none, parked, main, worker
    engine,        \* the engines
    global,        \* one global of each thread's environment
    addr,          \* HostThread::addr
    stopped,       \* HostThread::stopped
    worker,        \* what each worker is doing
    address,       \* the address it connects to
    live,          \* the connections it opened
    complete,      \* its Counters::complete
    failed,        \* its Counters::errors::connect
    stop,          \* the StopFlag
    elapsed,       \* the run's time so far: "before" or "over" the deadline
    interrupted,   \* SIGINT arrived
    joined,        \* the sum of the counters joined so far
    interval,      \* the interval the correction used, 0 for none
    reason         \* why the process ended

prepared == <<addresses, caps>>
handle == <<addr, stopped>>
thread == <<worker, address, live, complete, failed>>
vars == <<input, at, index, prepared, place, engine, global, handle, thread, stop, elapsed,
          interrupted, joined, interval, reason>>

Kind == input.kind
Main == NewEngine(Kind, input.script)      \* the environment of main

\* Slip: every connection finds a thread.
PerThreadUp == (Connections + N - 1) \div N

PerThread == Connections \div N

Preparing == {"start", "resolve", "create", "setup", "init", "probe"}
Running == at \notin Preparing \union {"exited"}

NoCaps == [isStatic |-> FALSE, wantsResponse |-> FALSE, hasDelay |-> FALSE, hasDone |-> FALSE]

Init ==
    /\ input \in Inputs
    /\ at = "start" /\ index = 1 /\ addresses = <<>> /\ caps = NoCaps
    /\ place = [t \in Threads |-> "none"]
    /\ engine = [t \in Threads |-> NewEngine(input.kind, {})]
    /\ global = [t \in Threads |-> Nothing]
    /\ addr = [t \in Threads |-> NoAddress]
    /\ stopped = [t \in Threads |-> FALSE]
    /\ worker = [t \in Threads |-> "none"]
    /\ address = [t \in Threads |-> NoAddress]
    /\ live = [t \in Threads |-> 0]
    /\ complete = [t \in Threads |-> 0]
    /\ failed = [t \in Threads |-> 0]
    /\ stop = FALSE /\ elapsed = "before" /\ interrupted = FALSE
    /\ joined = [complete |-> 0, failed |-> 0] /\ interval = 0
    /\ reason = "none"

\* process::exit, from main or from a worker.
Exit(why) == at' = "exited" /\ reason' = why

Go(to) == at' = to /\ UNCHANGED reason

-----------------------------------------------------------------------------
(* prepare                                                                 *)

\* The main engine: only a benchmark file that does not load is an error.
CreateMain ==
    /\ at = "start"
    /\ Go("resolve") \/ (Kind = "config" /\ Exit("load"))
    /\ UNCHANGED <<input, index, prepared, place, engine, global, handle, thread, stop, elapsed,
                   interrupted, joined, interval>>

\* The lookup fails, or some candidates accept the probe.
ResolveTarget ==
    /\ at = "resolve"
    /\ \/ Exit("lookup") /\ UNCHANGED addresses
       \/ \E accepting \in SUBSET ToSet(Candidates) :
             /\ addresses' = Resolve(Candidates, accepting)
             /\ IF addresses' = <<>>
                THEN Exit(LastRefused(Kind, Candidates, accepting))
                ELSE Go("create")
    /\ UNCHANGED <<input, index, caps, place, engine, global, handle, thread, stop, elapsed,
                   interrupted, joined, interval>>

\* The factory and park.
CreateThread ==
    /\ at = "create"
    /\ \/ /\ Kind = "config" /\ Exit("load")
          /\ UNCHANGED <<engine, place>>
       \/ /\ Go("setup")
          /\ engine' = [engine EXCEPT ![index] = NewEngine(Kind, input.script)]
          /\ place' = [place EXCEPT ![index] = "parked"]
    /\ UNCHANGED <<input, index, prepared, global, handle, thread, stop, elapsed, interrupted,
                   joined, interval>>

\* thread:set through a handle: it fails unless the engine is parked in it.
CanSet(t, v) == place[t] = "parked" /\ ToValue(Kind, v) # Refused
SetGlobal(t, v) == global' = [global EXCEPT ![t] = Transfer(Kind, v)]

\* What the script's setup does with the handles it has seen so far; a is the
\* address the engine has just given thread index.
SetupCallback(a) ==
    LET default == [addr EXCEPT ![index] = a]
    IN  \/ Go("init") /\ addr' = default /\ UNCHANGED <<global, stopped>>
        \/ Exit("setup") /\ addr' = default /\ UNCHANGED <<global, stopped>>
        \/ \E t \in 1 .. index :
              /\ Go("init") /\ addr' = default /\ UNCHANGED global
              /\ stopped' = [stopped EXCEPT ![t] = TRUE]
        \/ \E t \in 1 .. index, b \in ToSet(addresses) :
              /\ Go("init") /\ UNCHANGED <<global, stopped>>
              /\ addr' = [default EXCEPT ![t] = b]
        \/ \E t \in 1 .. index, v \in Given[Kind] :
              /\ addr' = default /\ UNCHANGED stopped
              /\ IF CanSet(t, v)
                 THEN Go("init") /\ SetGlobal(t, v)
                 ELSE Exit("setup") /\ UNCHANGED global

\* setup on the main engine, for thread index.
Setup ==
    /\ at = "setup"
    /\ LET a == SetupAddress(Kind, addresses, addr[index])
       IN  IF "setup" \in Main.defines
           THEN SetupCallback(a)
           ELSE /\ Go("init") /\ addr' = [addr EXCEPT ![index] = a]
                /\ UNCHANGED <<global, stopped>>
    /\ UNCHANGED <<input, index, prepared, place, engine, thread, stop, elapsed, interrupted,
                   joined, interval>>

\* The script's init runs with its engine taken out of its handle: it may
\* stop its thread, define a callback or store a value, but a get or a set
\* through wrk.thread is an error.
InitCallback ==
    \/ UNCHANGED <<engine, global, handle>>
    \/ stopped' = [stopped EXCEPT ![index] = TRUE] /\ UNCHANGED <<engine, global, addr>>
    \/ engine' = [engine EXCEPT ![index].defines = @ \union {"response"}]
       /\ UNCHANGED <<global, handle>>
    \/ \E v \in Given[Kind] : global' = [global EXCEPT ![index] = v] /\ UNCHANGED <<engine, handle>>

NextThread ==
    IF index < N THEN index' = index + 1 /\ Go("create") ELSE index' = 1 /\ Go("spawn")

\* take, init and, except for the first thread, park.
InitThread ==
    /\ at = "init"
    /\ place[index] = "parked"
    /\ \/ /\ "init" \in engine[index].defines
          /\ Exit("init")
          /\ place' = [place EXCEPT ![index] = "main"]
          /\ UNCHANGED <<index, engine, global, handle>>
       \/ /\ IF "init" \in engine[index].defines
             THEN InitCallback
             ELSE UNCHANGED <<engine, global, handle>>
          /\ IF index = 1
             THEN Go("probe") /\ UNCHANGED index /\ place' = [place EXCEPT ![index] = "main"]
             ELSE NextThread /\ UNCHANGED place
    /\ UNCHANGED <<input, prepared, thread, stop, elapsed, interrupted, joined, interval>>

\* Thread one's capabilities, and its request, which may fail or not verify.
Probe ==
    /\ at = "probe"
    /\ caps' = Capabilities(Kind, engine[1], input.limit)
    /\ \/ /\ NextThread
          /\ place' = [place EXCEPT ![1] = "parked"]
       \/ /\ Exit("request")
          /\ UNCHANGED <<index, place>>
    /\ UNCHANGED <<input, addresses, engine, global, handle, thread, stop, elapsed, interrupted,
                   joined, interval>>

-----------------------------------------------------------------------------
(* execute                                                                 *)

\* take, and spawn on the thread's address or the first one.
Spawn ==
    /\ at = "spawn"
    /\ place[index] = "parked"
    /\ place' = [place EXCEPT ![index] = "worker"]
    /\ worker' = [worker EXCEPT ![index] = "start"]
    /\ address' = [address EXCEPT ![index] =
                     IF addr[index] # NoAddress THEN addr[index] ELSE addresses[1]]
    /\ IF index < N THEN index' = index + 1 /\ Go("spawn") ELSE index' = 1 /\ Go("wait")
    /\ UNCHANGED <<input, prepared, engine, global, handle, live, complete, failed, stop, elapsed,
                   interrupted, joined, interval>>

\* The wait ends at the deadline or at SIGINT, and the flag goes up.
StopWorkers ==
    /\ at = "wait"
    /\ elapsed = "over" \/ interrupted
    /\ stop' = TRUE
    /\ Go("join")
    /\ UNCHANGED <<input, index, prepared, place, engine, global, handle, thread, elapsed,
                   interrupted, joined, interval>>

\* Slip: the counters of each worker replace those before.
JoinLast ==
    /\ at = "join"
    /\ worker[index] = "finished"
    /\ joined' = [complete |-> complete[index], failed |-> failed[index]]
    /\ IF index < N THEN index' = index + 1 /\ Go("join") ELSE index' = 1 /\ Go("correct")
    /\ UNCHANGED <<input, prepared, place, engine, global, handle, thread, stop, elapsed,
                   interrupted, interval>>

\* The workers in order, their counters added up.
Join ==
    /\ at = "join"
    /\ worker[index] = "finished"
    /\ joined' = [complete |-> joined.complete + complete[index],
                  failed |-> joined.failed + failed[index]]
    /\ IF index < N THEN index' = index + 1 /\ Go("join") ELSE index' = 1 /\ Go("correct")
    /\ UNCHANGED <<input, prepared, place, engine, global, handle, thread, stop, elapsed,
                   interrupted, interval>>

\* An interrupted run is shorter.
RunTime == IF elapsed = "over" THEN Duration ELSE (Duration + 1) \div 2

\* The coordinated omission correction, with no interval when too few completed.
Correct ==
    /\ at = "correct"
    /\ LET each == joined.complete \div Connections
       IN  interval' = IF each > 0 THEN RunTime \div each ELSE 0
    /\ Go("report")
    /\ UNCHANGED <<input, index, prepared, place, engine, global, handle, thread, stop, elapsed,
                   interrupted, joined>>

\* The report, unless its file cannot be created.
Report ==
    /\ at = "report"
    /\ Go("done") \/ Exit("output")
    /\ UNCHANGED <<input, index, prepared, place, engine, global, handle, thread, stop, elapsed,
                   interrupted, joined, interval>>

\* done of the main engine, if it has one: an error in it is only printed,
\* and what it stops or stores has no effect any more.
Done ==
    /\ at = "done"
    /\ Exit("finished")
    /\ UNCHANGED <<input, index, prepared, place, engine, global, handle, thread, stop, elapsed,
                   interrupted, joined, interval>>

-----------------------------------------------------------------------------
(* The workers                                                             *)

\* Creating the poll or building the static request once more may fail;
\* then the connections are opened, where a local failure counts an error
\* and leaves its slot empty.
StartWorker(t) ==
    /\ at # "exited"
    /\ worker[t] = "start"
    /\ \/ Exit("worker") /\ UNCHANGED thread
       \/ /\ worker' = [worker EXCEPT ![t] = "poll"]
          /\ \E refused \in {0, PerThread} :
                /\ failed' = [failed EXCEPT ![t] = refused]
                /\ live' = [live EXCEPT ![t] = PerThread - refused]
          /\ UNCHANGED <<address, complete, at, reason>>
    /\ UNCHANGED <<input, index, prepared, place, engine, global, handle, stop, elapsed,
                   interrupted, joined, interval>>

Poll(t) ==
    /\ at # "exited"
    /\ worker[t] = "poll"
    /\ worker' = [worker EXCEPT ![t] = "turn"]
    /\ UNCHANGED <<input, at, index, prepared, place, engine, global, handle, address, live,
                   complete, failed, stop, elapsed, interrupted, joined, interval, reason>>

\* The response callback: the benchmark file counts, a script does what it
\* likes, and an environment without one is an error, as thread one decides
\* for all of them.
ResponseCallback(t) ==
    IF Kind \in Scripted
    THEN \/ "response" \in engine[t].defines /\ UNCHANGED <<engine, handle, at, reason>>
         \/ /\ "response" \in engine[t].defines
            /\ stopped' = [stopped EXCEPT ![t] = TRUE]
            /\ UNCHANGED <<engine, addr, at, reason>>
         \/ Exit("worker") /\ UNCHANGED <<engine, handle>>
    ELSE \E bytes \in 0 .. 1 :
            LET counted == CountResponse(Kind, input.limit, engine[t], bytes)
            IN  /\ engine' = [engine EXCEPT ![t] = counted.engine]
                /\ stopped' = [stopped EXCEPT ![t] = @ \/ counted.stop]
                /\ UNCHANGED <<addr, at, reason>>

\* A response completes, in the turn of a poll.
Respond(t) ==
    /\ at # "exited"
    /\ worker[t] = "turn" /\ live[t] > 0 /\ complete[t] < MaxResponses
    /\ complete' = [complete EXCEPT ![t] = @ + 1]
    /\ IF caps.wantsResponse
       THEN ResponseCallback(t)
       ELSE UNCHANGED <<engine, handle, at, reason>>
    /\ UNCHANGED <<input, index, prepared, place, global, worker, address, live, failed, stop,
                   elapsed, interrupted, joined, interval>>

\* A request or a delay of the script fails.
WorkerFails(t) ==
    /\ at # "exited"
    /\ worker[t] = "turn" /\ live[t] > 0
    /\ ~caps.isStatic \/ caps.hasDelay
    /\ Exit("worker")
    /\ UNCHANGED <<input, index, prepared, place, engine, global, handle, thread, stop, elapsed,
                   interrupted, joined, interval>>

\* Slip: the engine is not parked when the loop ends.
LeaveWithEngine(t) ==
    /\ at # "exited"
    /\ worker[t] = "leave"
    /\ worker' = [worker EXCEPT ![t] = "finished"]
    /\ UNCHANGED <<input, at, index, prepared, place, engine, global, handle, address, live,
                   complete, failed, stop, elapsed, interrupted, joined, interval, reason>>

\* drive parks the engine whenever the loop returned; then the thread ends.
Leave(t) ==
    /\ at # "exited"
    /\ worker[t] = "leave"
    /\ place' = [place EXCEPT ![t] = "parked"]
    /\ worker' = [worker EXCEPT ![t] = "finished"]
    /\ UNCHANGED <<input, at, index, prepared, engine, global, handle, address, live, complete,
                   failed, stop, elapsed, interrupted, joined, interval, reason>>

\* Slip: the stop flag of the run is not looked at.
EndTurnDeaf(t, tick) ==
    /\ at # "exited"
    /\ worker[t] = "turn"
    /\ worker' = [worker EXCEPT ![t] = IF stopped[t] THEN "leave" ELSE "poll"]
    /\ UNCHANGED <<input, at, index, prepared, place, engine, global, handle, address, live,
                   complete, failed, stop, elapsed, interrupted, joined, interval, reason>>

\* The end of a turn: the stop flag is looked at in the tick only, the
\* thread's own in every turn.
EndTurn(t, tick) ==
    /\ at # "exited"
    /\ worker[t] = "turn"
    /\ worker' = [worker EXCEPT ![t] =
                    IF (tick /\ stop) \/ stopped[t] THEN "leave" ELSE "poll"]
    /\ UNCHANGED <<input, at, index, prepared, place, engine, global, handle, address, live,
                   complete, failed, stop, elapsed, interrupted, joined, interval, reason>>

-----------------------------------------------------------------------------
(* Time and signals                                                        *)

Deadline ==
    /\ Running /\ elapsed = "before" /\ ~stop
    /\ elapsed' = "over"
    /\ UNCHANGED <<input, at, index, prepared, place, engine, global, handle, thread, stop,
                   interrupted, joined, interval, reason>>

\* SIGINT: it kills the process before execute installs the handler; then
\* its handler raises the flag, and if a worker in its poll took the signal,
\* the poll is an error.
Interrupt ==
    /\ at # "exited" /\ ~interrupted
    /\ \/ at \in Preparing /\ Exit("killed") /\ UNCHANGED interrupted
       \/ Running /\ interrupted' = TRUE /\ UNCHANGED <<at, reason>>
       \/ /\ Running /\ \E t \in Threads : worker[t] = "poll"
          /\ interrupted' = TRUE
          /\ Exit("worker")
    /\ UNCHANGED <<input, index, prepared, place, engine, global, handle, thread, stop, elapsed,
                   joined, interval>>

MainStep ==
    \/ CreateMain \/ ResolveTarget \/ CreateThread \/ Setup \/ InitThread \/ Probe
    \/ Spawn \/ StopWorkers \/ Join \/ Correct \/ Report \/ Done

WorkerStep(t) ==
    \/ StartWorker(t) \/ Poll(t) \/ Respond(t) \/ WorkerFails(t) \/ Leave(t)
    \/ \E tick \in BOOLEAN : EndTurn(t, tick)

Next == MainStep \/ (\E t \in Threads : WorkerStep(t)) \/ Deadline \/ Interrupt

Spec == Init /\ [][Next]_vars

\* Where main runs code of the script, which may never come back.
InScript == at \in {"start", "create", "setup", "init", "probe", "done"}

(***************************************************************************)
(* main and the workers are scheduled, the deadline comes, a poll ends by  *)
(* its timeout, and, since that timeout is never past the next tick, a     *)
(* worker that ends turn after turn has a tick in some of them.  Nothing   *)
(* makes a turn end, which runs callbacks and the loop that drains a       *)
(* socket, nor main return from the script.                                *)
(***************************************************************************)
Fairness ==
    /\ WF_vars(~InScript /\ MainStep)
    /\ WF_vars(Deadline)
    /\ \A t \in Threads :
          /\ WF_vars(StartWorker(t)) /\ WF_vars(Poll(t)) /\ WF_vars(Leave(t))
          /\ []<><<EndTurn(t, FALSE)>>_vars => []<><<EndTurn(t, TRUE)>>_vars

FairSpec == Spec /\ Fairness

-----------------------------------------------------------------------------
TypeOK ==
    /\ input \in Inputs
    /\ at \in Preparing \union {"spawn", "wait", "join", "correct", "report", "done", "exited"}
    /\ index \in Threads
    /\ caps \in [isStatic : BOOLEAN, wantsResponse : BOOLEAN, hasDelay : BOOLEAN, hasDone : BOOLEAN]
    /\ place \in [Threads -> {"none", "parked", "main", "worker"}]
    /\ engine \in [Threads -> [defines : SUBSET Callbacks, completed : Nat, received : Nat]]
    /\ global \in [Threads -> Values(Kind) \union {Nothing}]
    /\ stopped \in [Threads -> BOOLEAN]
    /\ worker \in [Threads -> {"none", "start", "poll", "turn", "leave", "finished"}]
    /\ live \in [Threads -> 0 .. PerThread] /\ failed \in [Threads -> 0 .. PerThread]
    /\ complete \in [Threads -> 0 .. MaxResponses]
    /\ stop \in BOOLEAN /\ interrupted \in BOOLEAN /\ elapsed \in {"before", "over"}
    /\ joined \in [complete : Nat, failed : Nat]
    /\ interval \in Nat

(***************************************************************************)
(* Each engine is in exactly one place: out with its worker from spawn     *)
(* until the worker is done, otherwise in its handle, but for the init and *)
(* the probe of its own thread.  So neither take() of an engine finds the  *)
(* slot empty (both are an expect), a script that goes through the handles *)
(* in setup or in done always finds an engine, and one that does so during *)
(* the run never does (HostThread::get_global).                            *)
(***************************************************************************)
EnginesPlaced ==
    \A t \in Threads :
        /\ worker[t] \in {"start", "poll", "turn", "leave"} <=> place[t] = "worker"
        /\ place[t] = "main" => t = index /\ (at = "probe" \/ reason \in {"init", "request", "killed"})
        /\ at \in {"setup", "init"} /\ t <= index => place[t] = "parked"
        /\ at = "spawn" /\ t >= index => place[t] = "parked"
        /\ at \in {"correct", "report", "done"} => place[t] = "parked"

(***************************************************************************)
(* A thread whose file sets a limit is stopped as soon as it is reached:   *)
(* it never polls again once it has ended the turn (StopSpec, loop_once).  *)
(***************************************************************************)
StopsAtLimit ==
    \A t \in Threads :
        /\ Kind = "config" /\ Reached(input.limit, engine[t].completed, engine[t].received)
              => stopped[t]
        /\ stopped[t] /\ worker[t] = "poll" => complete[t] = 0

(***************************************************************************)
(* The interval of the correction is never shorter than the time between   *)
(* two responses of a connection that was opened: though main divides by   *)
(* all connections and each thread opens only a whole share of them, the   *)
(* correction never adds samples for requests nobody would have sent       *)
(* (execute: per_thread, interval).                                        *)
(***************************************************************************)
IntervalNotShort ==
    at \in {"report", "done"} /\ interval > 0 =>
        interval >= (RunTime * N * PerThread) \div joined.complete

(***************************************************************************)
(* What a script reads from a thread in done is what an environment of its *)
(* kind can hold, with no function in it or in a table of it, and storing  *)
(* and reading it again through a handle changes nothing more              *)
(* (lua_to_value and value_to_lua, js_to_value and value_to_js).           *)
(***************************************************************************)
ReadsSettle ==
    \A t \in Threads :
        global[t] # Nothing =>
            LET read == Transfer(Kind, global[t])
            IN  read # Refused =>
                    /\ read \in Values(Kind)
                    /\ read.type \notin Opaque(Kind) /\ read.of \notin Opaque(Kind)
                    /\ Transfer(Kind, read) = read

\* The script gives back what it was called from, and no turn of a worker is endless.
TurnsEnd == []<>~InScript /\ \A t \in Threads : []<>(worker[t] # "turn")

(***************************************************************************)
(* A run ends, whatever its callbacks answer, store or stop and wherever   *)
(* they fail, if they return and no response keeps a worker in one turn:   *)
(* the stop flag is raised and every worker meets it in a tick (execute,   *)
(* loop_once).                                                             *)
(***************************************************************************)
RunEnds == TurnsEnd => <>(at = "exited")

-----------------------------------------------------------------------------
(* The run implements Benchmark.                                           *)

Stage ==
    CASE at \in Preparing -> "preparing"
      [] at = "done" -> "reported"
      [] at = "exited" -> IF reason = "finished" THEN "finished" ELSE "failed"
      [] OTHER -> "running"

Bench == INSTANCE Benchmark WITH
    stage <- Stage, completed <- complete,
    report <- IF at = "done" \/ reason = "finished" THEN joined.complete ELSE -1

(***************************************************************************)
(* A run fails without a report, or reports the sum of what every thread   *)
(* completed, with no response completed after that.                       *)
(***************************************************************************)
ImplementsBenchmark == Bench!Spec
==============================================================================
