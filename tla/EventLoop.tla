------------------------------- MODULE EventLoop -------------------------------
(***************************************************************************)
(* The benchmark loop of one worker thread (crates/wrkrs/src/eventloop.rs) *)
(* with its connections, the kernel's edge-triggered readiness list and    *)
(* the server at the other end of every socket.                            *)
(*                                                                         *)
(* Each turn of the loop polls, handles the batch of events slot by slot,  *)
(* fires the delays that are due and then takes the rate tick.  Between    *)
(* two socket operations of the loop the kernel, the server and the main   *)
(* thread may do anything they can do.                                     *)
(***************************************************************************)
EXTENDS Connection

CONSTANTS
    Slots,         \* the connection slots of the thread
    NoSlot,        \* no slot
    Dynamic,       \* whether request() runs per burst
    WantsResponse, \* whether the script wants responses
    Answers,       \* how the server completes a response, among Tokens
    Faults,        \* what may go wrong, among FaultKinds
    MayStop,       \* whether the run may be stopped from outside
    OutUnits,      \* units the socket buffers hold towards the server
    InTokens,      \* tokens they hold towards the client
    RecvTokens,    \* tokens that fill RECVBUF
    MaxUnread,     \* bound: units the server takes before it answers
    MaxDeadlines,  \* bound: deadlines of a slot in the heap
    CounterMod     \* the counters' width: they count modulo this

\* refuse, local: a connect fails at the server, or before it leaves.
\* reset, hangup: the server resets or closes the socket when it likes.
\* early: it answers a request it has only begun to receive.
\* interim: it sends a 1xx message before the response.  junk: no HTTP.
\* script: a callback fails.  poll: the poll call fails.
FaultKinds == {"refuse", "local", "reset", "hangup", "early", "interim",
               "junk", "script", "poll"}

ASSUME LoopOK ==
    /\ Dynamic \in BOOLEAN /\ WantsResponse \in BOOLEAN /\ MayStop \in BOOLEAN
    /\ Answers \subseteq Finals \union {"until"}
    /\ Faults \subseteq FaultKinds
    /\ OutUnits \in Nat \ {0} /\ InTokens \in Nat \ {0} /\ RecvTokens \in Nat \ {0}
    /\ MaxUnread \in Nat /\ MaxDeadlines \in Nat
    /\ CounterMod \in Nat \ {0}
    /\ NoSlot \notin Slots /\ IsFiniteSet(Slots)

VARIABLES
    conn,      \* the connection of each slot
    reg,       \* its registration: the interest, and whether an edge is queued
    sock,      \* its socket, both kernels and the server
    due,       \* its deadlines: pushed by this connection, or by an earlier one
    at,        \* where the loop is in its turn
    batch,     \* the events of this poll that are still to handle
    cur,       \* the slot whose event is half handled
    stopFlag,  \* StopFlag, set by the main thread
    stopped,   \* HostThread::stopped, set by thread.stop()
    counters   \* Counters, and what the properties count beside them

vars == <<conn, reg, sock, due, at, batch, cur, stopFlag, stopped, counters>>

\* The last four are not the program's: responses of the rate samples that were
\* recorded and of those that were refused, sockets asked for, and connections
\* closed as their response said.
CounterNames == {"complete", "requests", "connect", "read", "write", "status",
                 "timeout", "sampled", "unsampled", "attempts", "polite"}

Add(c, name, n) == [c EXCEPT ![name] = (@ + n) % CounterMod]

-----------------------------------------------------------------------------
(* Sockets and the readiness list: mio over epoll, edge triggered. *)

\* half is what the server has begun: nothing, a response, an until-close one.
NewSocket == [net |-> "syn", out |-> 0, got |-> 0, half |-> "none",
              inq |-> <<>>, fin |-> FALSE, rst |-> FALSE]

\* The readiness of a socket.
Ready(k) ==
    IF k.rst \/ k.net = "refused" THEN RW
    ELSE {e \in RW : \/ e = "r" /\ (k.inq # <<>> \/ k.fin)
                     \/ e = "w" /\ k.net = "up" /\ k.out < OutUnits}

NewRegistration == [interest |-> RW, queued |-> FALSE]

\* Registry::reregister: a ready socket is queued again at once.
Reregister(s, interest, k) ==
    reg' = [reg EXCEPT ![s] = [interest |-> interest, queued |-> Ready(k) \cap interest # {}]]

\* The other side changed the socket and raised these edges.
Raise(s, k, edges) ==
    /\ sock' = [sock EXCEPT ![s] = k]
    /\ reg' = [reg EXCEPT ![s].queued = @ \/ edges \cap reg[s].interest # {}]
    /\ UNCHANGED <<conn, due, at, batch, cur, stopFlag, stopped, counters>>

-----------------------------------------------------------------------------
(* The loop. *)

Running == at \notin {"done", "exit"}

Init ==
    /\ conn \in [Slots -> {NewConnection(TRUE)} \union
                          IF "local" \in Faults THEN {NoConnection} ELSE {}]
    /\ reg = [s \in Slots |-> NewRegistration]
    /\ sock = [s \in Slots |-> NewSocket]
    /\ due = [s \in Slots |-> [own |-> 0, stale |-> 0]]
    /\ at = "poll"
    /\ batch = [s \in Slots |-> {}]
    /\ cur = NoSlot
    /\ stopFlag = FALSE
    /\ stopped = FALSE
    /\ counters = [n \in CounterNames |->
                     CASE n = "attempts" -> Cardinality(Slots) % CounterMod
                       [] n = "connect" -> Cardinality({s \in Slots : conn[s].at = "none"}) % CounterMod
                       [] OTHER -> 0]

\* The events a poll finds: what is queued and still ready.
Found == [s \in Slots |->
             IF reg[s].queued /\ conn[s].at # "none" THEN Ready(sock[s]) \cap reg[s].interest ELSE {}]

\* poll() returns, with events or because a deadline or the tick is due.
Poll ==
    /\ at = "poll"
    /\ at' = "events"
    /\ batch' = Found
    /\ reg' = [s \in Slots |-> [reg[s] EXCEPT !.queued = FALSE]]
    /\ UNCHANGED <<conn, sock, due, cur, stopFlag, stopped, counters>>

\* poll() fails, a signal interrupting it included: the process exits.
PollFails ==
    /\ "poll" \in Faults
    /\ at = "poll"
    /\ at' = "exit"
    /\ UNCHANGED <<conn, reg, sock, due, batch, cur, stopFlag, stopped, counters>>

\* The loop may take this event of this slot: readable fires before writable.
Handles(s, event) ==
    /\ at = "events"
    /\ cur \in {s, NoSlot}
    /\ event \in batch[s]
    /\ event = "w" => "r" \notin batch[s]
    /\ conn[s].at = "up"

\* The handler of the event is through.
Handled(s, event) ==
    /\ batch' = [batch EXCEPT ![s] = @ \ {event}]
    /\ cur' = IF batch'[s] = {} THEN NoSlot ELSE s

\* The handler goes on and its event stays.
Continues(s) == cur' = s /\ UNCHANGED batch

\* Slip: an interest that does not change is not registered again.
RearmChanged(s, c, k, interest) ==
    /\ conn' = [conn EXCEPT ![s] = c]
    /\ sock' = [sock EXCEPT ![s] = k]
    /\ IF interest = reg[s].interest THEN UNCHANGED reg ELSE Reregister(s, interest, k)

\* apply(Interest)
Rearm(s, c, k, interest) ==
    /\ conn' = [conn EXCEPT ![s] = c]
    /\ sock' = [sock EXCEPT ![s] = k]
    /\ Reregister(s, interest, k)

(***************************************************************************)
(* apply(Reconnect): close_slot, then connect_slot, which builds the new   *)
(* connection with config.connection(true).  A deadline of the old socket  *)
(* stays in the heap.  The rest of the event is skipped: the slot is       *)
(* connecting now, or empty.                                               *)
(***************************************************************************)
Reconnect(s, cs, reason) ==
    /\ \/ /\ conn' = [conn EXCEPT ![s] = NewConnection(TRUE)]
          /\ counters' = Add(Add(cs, reason, 1), "attempts", 1)
       \/ /\ "local" \in Faults
          /\ conn' = [conn EXCEPT ![s] = NoConnection]
          /\ counters' = Add(Add(Add(cs, reason, 1), "attempts", 1), "connect", 1)
    /\ sock' = [sock EXCEPT ![s] = NewSocket]
    /\ reg' = [reg EXCEPT ![s] = NewRegistration]
    /\ due' = [due EXCEPT ![s] = [own |-> 0, stale |-> @.own + @.stale]]
    /\ batch' = [batch EXCEPT ![s] = {}]
    /\ cur' = NoSlot

\* A script callback failed: the process exits.
Fatal ==
    /\ "script" \in Faults
    /\ at' = "exit"
    /\ UNCHANGED <<conn, reg, sock, due, batch, cur, stopFlag, stopped, counters>>

\* The first event of a connecting slot: refused, reset meanwhile, or up.
ConnectEvent(s) ==
    /\ at = "events" /\ cur = NoSlot /\ batch[s] # {}
    /\ conn[s].at = "connecting"
    /\ IF sock[s].net = "refused" \/ sock[s].rst
       THEN Reconnect(s, counters, "connect")
       ELSE /\ Rearm(s, Connected(conn[s]), sock[s], RW)
            /\ batch' = [batch EXCEPT ![s] = {}]
            /\ UNCHANGED <<due, cur, counters>>
    /\ UNCHANGED <<at, stopFlag, stopped>>

(***************************************************************************)
(* What readable() does with the messages of one read: count them, let the *)
(* script see them, and leave with an event, or go on reading while the    *)
(* buffer was filled.  late is a latency beyond the histogram's limit.     *)
(***************************************************************************)
Responses(s, c, bytes, done, k, full) ==
    LET counted == Counted(c, bytes, done)
        n == Cardinality(counted)
        errors == Cardinality({i \in counted : bytes[i] = "error"})
        drained == Drained(c, n)
        closes == \E i \in counted : ~KeepsAlive(bytes[i])
        after == Answered(c, n)
    IN  \/ /\ n > 0 /\ WantsResponse
           /\ Fatal
        \/ /\ stopped' \in {stopped} \union (IF WantsResponse /\ n > 0 THEN {TRUE} ELSE {})
           /\ UNCHANGED <<at, stopFlag>>
           /\ \E late \in IF drained THEN {0, 1} ELSE {0} :
                LET cs == Add(Add(Add(Add(counters, "complete", n), "requests", n),
                                  "status", errors), "timeout", late)
                IN  \/ closes /\ Reconnect(s, cs, "polite")
                    \/ /\ ~closes
                       /\ counters' = cs
                       /\ UNCHANGED due
                       /\ \/ drained /\ Rearm(s, after, k, RW) /\ Handled(s, "r")
                          \/ ~drained /\ ~full /\ Rearm(s, after, k, R) /\ Handled(s, "r")
                          \/ /\ ~drained /\ full /\ Continues(s)
                             /\ conn' = [conn EXCEPT ![s] = after]
                             /\ sock' = [sock EXCEPT ![s] = k]
                             /\ UNCHANGED reg

\* readable(): a read that finds bytes feeds them to the framer.
ReadBytes(s) ==
    /\ Handles(s, "r")
    /\ sock[s].inq # <<>>
    /\ LET n == IF Len(sock[s].inq) < RecvTokens THEN Len(sock[s].inq) ELSE RecvTokens
           bytes == SubSeq(sock[s].inq, 1, n)
           k == [sock[s] EXCEPT !.inq = SubSeq(@, n + 1, Len(@))]
       IN  IF Misframed(conn[s], bytes)
           THEN Reconnect(s, counters, "read") /\ UNCHANGED <<at, stopFlag, stopped>>
           ELSE Responses(s, Fed(conn[s], bytes), bytes, Completed(conn[s], bytes),
                          k, n = RecvTokens)

\* readable(): the end of the stream completes an until-close message.
ReadEnd(s) ==
    /\ Handles(s, "r")
    /\ sock[s].inq = <<>> /\ sock[s].fin /\ ~sock[s].rst
    /\ IF conn[s].until
       THEN Responses(s, conn[s], <<"close">>, {1}, sock[s], FALSE)
       ELSE Reconnect(s, counters, "read") /\ UNCHANGED <<at, stopFlag, stopped>>

\* Slip: a reset found by a read is a write error as well.
ReadFailsTwice(s) ==
    /\ Handles(s, "r")
    /\ sock[s].inq = <<>> /\ sock[s].rst
    /\ Reconnect(s, Add(counters, "write", 1), "read")
    /\ UNCHANGED <<at, stopFlag, stopped>>

\* readable(): the socket was reset.
ReadFails(s) ==
    /\ Handles(s, "r")
    /\ sock[s].inq = <<>> /\ sock[s].rst
    /\ Reconnect(s, counters, "read")
    /\ UNCHANGED <<at, stopFlag, stopped>>

\* readable(): nothing (more) to read.
ReadBlocks(s) ==
    /\ Handles(s, "r")
    /\ Ready(sock[s]) \cap R = {}
    /\ Rearm(s, conn[s], sock[s], R)
    /\ Handled(s, "r")
    /\ UNCHANGED <<due, at, stopFlag, stopped, counters>>

\* writable(), delayed: the deadline is pushed and writable dropped.
WriteDelayed(s) ==
    /\ Handles(s, "w")
    /\ conn[s].delayed
    /\ due[s].own + due[s].stale < MaxDeadlines
    /\ due' = [due EXCEPT ![s].own = @ + 1]
    /\ Rearm(s, conn[s], sock[s], R)
    /\ Handled(s, "w")
    /\ UNCHANGED <<at, stopFlag, stopped, counters>>

\* writable(): request() of a dynamic script fails at the start of a burst.
WriteFatal(s) ==
    /\ Handles(s, "w")
    /\ ~conn[s].delayed /\ conn[s].written = 0 /\ Dynamic
    /\ Fatal

\* writable(): the socket takes what fits of the burst.
WriteBytes(s) ==
    /\ Handles(s, "w")
    /\ ~conn[s].delayed /\ ~sock[s].rst
    /\ LET c == StartBurst(conn[s])
           free == OutUnits - sock[s].out
           n == IF Burst - c.written < free THEN Burst - c.written ELSE free
           k == [sock[s] EXCEPT !.out = @ + n]
       IN  Rearm(s, Wrote(c, n), k, WroteInterest(c, n))
    /\ Handled(s, "w")
    /\ UNCHANGED <<due, at, stopFlag, stopped, counters>>

\* writable(): the socket is dead.
WriteFails(s) ==
    /\ Handles(s, "w")
    /\ ~conn[s].delayed /\ sock[s].rst
    /\ Reconnect(s, counters, "write")
    /\ UNCHANGED <<at, stopFlag, stopped>>

\* The batch is done, the deadlines come next.
EventsDone ==
    /\ at = "events" /\ \A s \in Slots : batch[s] = {}
    /\ at' = "timers"
    /\ UNCHANGED <<conn, reg, sock, due, batch, cur, stopFlag, stopped, counters>>

\* A due deadline wakes whatever connection the slot holds, if it is up.
FireDelay(s, whose) ==
    /\ at = "timers"
    /\ due[s][whose] > 0
    /\ due' = [due EXCEPT ![s][whose] = @ - 1]
    /\ IF conn[s].at = "up" THEN Rearm(s, DelayFired(conn[s]), sock[s], RW)
                            ELSE UNCHANGED <<conn, sock, reg>>
    /\ UNCHANGED <<at, batch, cur, stopFlag, stopped, counters>>

\* Slip: the window is reset before it is sampled.
RecordEmptyRate == counters' = [counters EXCEPT !.requests = 0]

\* record_rate: a window without responses is not sampled; the histogram refuses
\* a rate beyond its limit, nobody looks at its answer and the window is over.
RecordRate ==
    \E kind \in {"sampled", "unsampled"} :
        counters' = [Add(counters, kind, counters.requests) EXCEPT !.requests = 0]

\* Slip: the tick looks at the thread's own flag only.
TickDeaf ==
    /\ at = "timers"
    /\ RecordRate
    /\ at' = IF stopped THEN "done" ELSE "poll"
    /\ UNCHANGED <<conn, reg, sock, due, batch, cur, stopFlag, stopped>>

\* The rate tick is due: sample the window, then look at both flags.
Tick ==
    /\ at = "timers"
    /\ RecordRate
    /\ at' = IF stopFlag \/ stopped THEN "done" ELSE "poll"
    /\ UNCHANGED <<conn, reg, sock, due, batch, cur, stopFlag, stopped>>

\* Slip: only the tick looks at the flags.
NoTickDeaf ==
    /\ at = "timers"
    /\ at' = "poll"
    /\ UNCHANGED <<conn, reg, sock, due, batch, cur, stopFlag, stopped, counters>>

\* It is not: a stopped thread ends with its turn.
NoTick ==
    /\ at = "timers"
    /\ at' = IF stopped THEN "done" ELSE "poll"
    /\ UNCHANGED <<conn, reg, sock, due, batch, cur, stopFlag, stopped, counters>>

\* What the loop does on its own, delays and the tick apart.
Turn ==
    \/ Poll \/ EventsDone \/ NoTick
    \/ \E s \in Slots :
         \/ ConnectEvent(s) \/ ReadBytes(s) \/ ReadEnd(s) \/ ReadFails(s) \/ ReadBlocks(s)
         \/ WriteDelayed(s) \/ WriteFatal(s) \/ WriteBytes(s) \/ WriteFails(s)

-----------------------------------------------------------------------------
(* The kernel, the server and the main thread. *)

\* The server answers only on sockets the client still holds open.
Open(s) == Running /\ conn[s].at # "none" /\ sock[s].net = "up" /\ ~sock[s].fin /\ ~sock[s].rst

AcceptConnect(s) ==
    /\ Running /\ conn[s].at # "none" /\ sock[s].net = "syn"
    /\ Raise(s, [sock[s] EXCEPT !.net = "up"], {"w"})

RefuseConnect(s) ==
    /\ "refuse" \in Faults
    /\ Running /\ conn[s].at # "none" /\ sock[s].net = "syn"
    /\ Raise(s, [sock[s] EXCEPT !.net = "refused"], RW)

\* The server takes a unit; a full buffer gets room.
Receive(s) ==
    /\ Open(s)
    /\ sock[s].out > 0 /\ sock[s].got < MaxUnread
    /\ Raise(s, [sock[s] EXCEPT !.out = @ - 1, !.got = @ + 1],
             IF sock[s].out = OutUnits THEN {"w"} ELSE {})

\* The server has a request to answer, or with "early" the start of one.
Answerable(s) ==
    \/ sock[s].got >= RequestUnits
    \/ "early" \in Faults /\ sock[s].got > 0

Send(s, token) == [sock[s] EXCEPT !.inq = Append(@, token)]

\* The first bytes of a response arrive before the rest.
AnswerPart(s) ==
    /\ Open(s) /\ Answerable(s)
    /\ sock[s].half = "none" /\ Len(sock[s].inq) + 1 < InTokens
    /\ Raise(s, [Send(s, "part") EXCEPT !.half = "part"], {"r"})

\* A response is complete; the server closes after the one that says so.
Answer(s, token) ==
    /\ Open(s) /\ Answerable(s)
    /\ sock[s].half # "until" /\ Len(sock[s].inq) < InTokens
    /\ Raise(s, [Send(s, token) EXCEPT !.got = @ - RequestUnits,
                                       !.half = IF token = "until" THEN "until" ELSE "none",
                                       !.fin = ~KeepsAlive(token)], {"r"})

\* The body of an until-close response, and the end of it.
AnswerBody(s) ==
    /\ Open(s) /\ sock[s].half = "until" /\ Len(sock[s].inq) < InTokens
    /\ Raise(s, Send(s, "part"), {"r"})

EndBody(s) ==
    /\ Open(s) /\ sock[s].half = "until"
    /\ Raise(s, [sock[s] EXCEPT !.fin = TRUE], {"r"})

\* A 1xx message ahead of the response, and bytes that are no response.
AnswerInterim(s) ==
    /\ "interim" \in Faults
    /\ Open(s) /\ Answerable(s) /\ sock[s].half = "none" /\ Len(sock[s].inq) + 1 < InTokens
    /\ Raise(s, Send(s, "ok"), {"r"})

AnswerJunk(s) ==
    /\ "junk" \in Faults
    /\ Open(s) /\ Answerable(s) /\ sock[s].half = "none" /\ Len(sock[s].inq) < InTokens
    /\ Raise(s, [Send(s, "junk") EXCEPT !.got = @ - RequestUnits], {"r"})

Hangup(s) ==
    /\ "hangup" \in Faults
    /\ Open(s)
    /\ Raise(s, [sock[s] EXCEPT !.fin = TRUE], {"r"})

\* A reset out of the blue, or for bytes sent to a closed socket.
Reset(s) ==
    /\ Running /\ conn[s].at # "none" /\ sock[s].net = "up" /\ ~sock[s].rst
    /\ "reset" \in Faults \/ (sock[s].fin /\ sock[s].out > 0)
    /\ Raise(s, [sock[s] EXCEPT !.rst = TRUE], RW)

Server(s) ==
    \/ AcceptConnect(s) \/ RefuseConnect(s) \/ Receive(s)
    \/ AnswerPart(s) \/ (\E token \in Answers : Answer(s, token))
    \/ AnswerBody(s) \/ EndBody(s) \/ AnswerInterim(s) \/ AnswerJunk(s) \/ Hangup(s) \/ Reset(s)

\* runner::execute: the run is over, or a signal ended it.
Stop ==
    /\ MayStop /\ Running /\ ~stopFlag
    /\ stopFlag' = TRUE
    /\ UNCHANGED <<conn, reg, sock, due, at, batch, cur, stopped, counters>>

Next ==
    \/ Turn \/ PollFails \/ Tick \/ Stop
    \/ \E s \in Slots : Server(s) \/ FireDelay(s, "own") \/ FireDelay(s, "stale")

Spec == Init /\ [][Next]_vars

-----------------------------------------------------------------------------
Sockets ==
    [net : {"syn", "refused", "up"}, out : 0 .. OutUnits, got : Int,
     half : {"none", "part", "until"}, inq : Seq(Tokens), fin : BOOLEAN, rst : BOOLEAN]

TypeOK ==
    /\ conn \in [Slots -> Connections]
    /\ reg \in [Slots -> [interest : {R, RW}, queued : BOOLEAN]]
    /\ sock \in [Slots -> Sockets]
    /\ due \in [Slots -> [own : Nat, stale : Nat]]
    /\ at \in {"poll", "events", "timers", "done", "exit"}
    /\ batch \in [Slots -> SUBSET RW]
    /\ cur \in Slots \union {NoSlot}
    /\ stopFlag \in BOOLEAN
    /\ stopped \in BOOLEAN
    /\ counters \in [CounterNames -> 0 .. CounterMod - 1]

(***************************************************************************)
(* Edge triggering loses nothing: a socket that is ready for its interest  *)
(* is on the readiness list, or its event is being handled right now.      *)
(* Every way out of a handler re-registers, or this fails (eventloop.rs,   *)
(* apply and the delay arms; connection.rs, the short read).               *)
(***************************************************************************)
NoLostWakeup ==
    \A s \in Slots :
        Running /\ conn[s].at # "none" /\ batch[s] = {} /\ Ready(sock[s]) \cap reg[s].interest # {}
            => reg[s].queued

(***************************************************************************)
(* A burst that is partly written keeps the writable interest whenever the *)
(* loop goes to sleep (connection.rs, writable: "The burst went out whole, *)
(* drop writable").                                                        *)
(***************************************************************************)
WritableUntilSent ==
    \A s \in Slots :
        at = "poll" /\ conn[s].at = "up" /\ conn[s].written > 0 => "w" \in reg[s].interest

(***************************************************************************)
(* pending is the number of requests of the burst that are unanswered,     *)
(* wherever they are: unsent, under way, at the server, or in a response   *)
(* that has not been read.                                                 *)
(***************************************************************************)
Unsent(c) == IF c.written = 0 THEN 0 ELSE Burst - c.written

Replies(k) == Cardinality({i \in 1 .. Len(k.inq) : k.inq[i] # "part"})

Owed(s) ==
    Unsent(conn[s]) + sock[s].out + sock[s].got
      + RequestUnits * (Replies(sock[s]) + IF conn[s].until THEN 1 ELSE 0)

EveryRequestAwaited ==
    \A s \in Slots : conn[s].at = "up" => conn[s].pending * RequestUnits = Owed(s)

(***************************************************************************)
(* Whenever the loop goes to sleep every established connection has        *)
(* something to wait for: room to write, a deadline of its own, or the     *)
(* answer to a request that has left it whole (connection.rs,              *)
(* rearm_or_close: "Re-arms writable after a drained pipeline", and the    *)
(* short read, which leaves the readable interest alone).  pending is no   *)
(* such thing: the rest of a burst that is not written answers nobody.     *)
(***************************************************************************)
NeverForgotten ==
    \A s \in Slots : at = "poll" /\ conn[s].at = "up" =>
        \/ "w" \in reg[s].interest
        \/ due[s].own > 0
        \/ Unsent(conn[s]) = 0 /\ Owed(s) > 0

(***************************************************************************)
(* No socket disappears without a trace: each one asked for is open, or it *)
(* closed as a response said, or it is in one of the error counters of the *)
(* report exactly once.                                                    *)
(***************************************************************************)
SocketsAccounted ==
    LET Live == Cardinality({s \in Slots : conn[s].at # "none"})
    IN  (Live + counters.connect + counters.read + counters.write + counters.polite)
          % CounterMod = counters.attempts

(***************************************************************************)
(* Every completed response belongs to one rate window: the open one, one  *)
(* that was sampled, or one whose sample the histogram refused and the     *)
(* tick dropped (record_rate).                                             *)
(***************************************************************************)
RatesAddUp ==
    (counters.sampled + counters.unsampled + counters.requests) % CounterMod
        = counters.complete

(***************************************************************************)
(* A delay is never skipped: whatever happens to the connection, its burst *)
(* waits until a deadline of its slot has passed (connected, which keeps   *)
(* the delay, and the delay arms of the loop).  Whose deadline that is, is *)
(* another matter: DelayServed.                                            *)
(***************************************************************************)
DelayHeld ==
    [][\A s \in Slots :
         conn[s].delayed /\ ~conn'[s].delayed /\ conn'[s].at = "up"
            => due'[s].own + due'[s].stale < due[s].own + due[s].stale]_vars


(***************************************************************************)
(* thread.stop() ends the loop with the turn it was called in, without     *)
(* another poll (eventloop.rs, the end of the loop).                       *)
(***************************************************************************)
StopEndsTurn == at = "poll" => ~stopped
================================================================================
