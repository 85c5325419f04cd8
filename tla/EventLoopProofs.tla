---------------------------- MODULE EventLoopProofs ----------------------------
(***************************************************************************)
(* Machine-checked proofs about EventLoop, for any number of connections,  *)
(* any pipeline and request, any buffers and any set of faults: types, the *)
(* buffers' bounds, the way to a stop, that the counters add up, and, in   *)
(* the second half, that the loop implements ClosedLoop: what a connection *)
(* has asked for and not got back is what pending says.                    *)
(***************************************************************************)
EXTENDS MCEventLoop, FiniteSetTheorems, SequenceTheorems, FunctionTheorems, TLAPS

\* What counters ranges over.
Tallies == [CounterNames -> 0 .. CounterMod - 1]

-----------------------------------------------------------------------------
(* The operators of Connection stay inside their types. *)

LEMMA BurstIsNat == Burst \in Nat \ {0}
  BY ConnectionOK, SMT DEF Burst

LEMMA ModRange ==
  ASSUME NEW a \in Int, NEW m \in Nat \ {0}
  PROVE  a % m \in 0 .. m - 1
  BY SMT

LEMMA AddType ==
  ASSUME NEW c \in Tallies, NEW name \in CounterNames, NEW n \in Int
  PROVE  Add(c, name, n) \in Tallies
<1>1. (c[name] + n) % CounterMod \in 0 .. CounterMod - 1
  <2>1. c[name] + n \in Int
    BY DEF Tallies
  <2> QED
    BY <2>1, ModRange, LoopOK
<1> QED
  BY <1>1 DEF Add, Tallies

LEMMA NewConnectionType ==
  /\ NewConnection(TRUE) \in Connections
  /\ NoConnection \in Connections
<1>1. ASSUME NEW a \in {"none", "connecting"}, NEW d \in BOOLEAN
      PROVE  [at |-> a, written |-> 0, pending |-> 0, delayed |-> d, until |-> FALSE] \in Connections
  BY ConnectionOK, BurstIsNat DEF Connections
<1>2. NewConnection(TRUE) \in Connections
  <2>1. (TRUE /\ HasDelay) \in BOOLEAN
    BY ConnectionOK
  <2> QED
    BY <1>1, <2>1, Zenon DEF NewConnection
<1>3. NewConnection(FALSE) \in Connections
  <2>1. (FALSE /\ HasDelay) \in BOOLEAN
    BY ConnectionOK
  <2> QED
    BY <1>1, <2>1, Zenon DEF NewConnection
<1>4. \A c \in Connections : [c EXCEPT !.at = "none"] \in Connections
  BY DEF Connections
<1> QED
  BY <1>2, <1>3, <1>4 DEF NoConnection

LEMMA HandlerTypes ==
  ASSUME NEW c \in Connections
  PROVE  /\ Connected(c) \in Connections
         /\ DelayFired(c) \in Connections
         /\ StartBurst(c) \in Connections
         /\ StartBurst(c).written = c.written
<1>1. Connected(c) \in Connections
  <2>1. \A w \in 0 .. Burst : [c EXCEPT !.at = "up", !.written = w] \in Connections
    BY DEF Connections
  <2>2. 0 \in 0 .. Burst
    BY BurstIsNat
  <2> QED
    BY <2>1, <2>2, Zenon DEF Connected
<1>2. DelayFired(c) \in Connections
  BY DEF DelayFired, Connections
<1>3. StartBurst(c) \in Connections /\ StartBurst(c).written = c.written
  BY ConnectionOK DEF StartBurst, Connections
<1> QED
  BY <1>1, <1>2, <1>3

LEMMA WroteType ==
  ASSUME NEW c \in Connections, NEW n \in Nat, n <= Burst - c.written
  PROVE  /\ Wrote(c, n) \in Connections
         /\ WroteInterest(c, n) \in {R, RW}
  BY BurstIsNat DEF Wrote, WroteInterest, Connections

LEMMA FedType ==
  ASSUME NEW c \in Connections, NEW bytes \in Seq(Tokens)
  PROVE  Fed(c, bytes) \in Connections
<1>1. Swallowed(c, bytes, Len(bytes)) \in BOOLEAN
  BY DEF Swallowed, Connections
<1> QED
  BY <1>1 DEF Fed, Connections

LEMMA AnsweredType ==
  ASSUME NEW c \in Connections, NEW n \in Nat
  PROVE  Answered(c, n) \in Connections
<1>1. Drain(c, n) \in {Wrapped} \union 0 .. Pipeline
  BY ConnectionOK DEF Drain, Connections, Wrapped
<1> QED
  BY <1>1, ConnectionOK DEF Answered, Connections

LEMMA CountedIsFinite ==
  ASSUME NEW c, NEW bytes \in Seq(Tokens), NEW done \in SUBSET (1 .. Len(bytes)),
         NEW T \in SUBSET Counted(c, bytes, done)
  PROVE  Cardinality(T) \in Nat
<1>1. T \subseteq 1 .. Len(bytes)
  BY DEF Counted
<1>2. IsFiniteSet(1 .. Len(bytes))
  BY FS_Interval
<1>3. IsFiniteSet(T)
  BY <1>1, <1>2, FS_Subset
<1> QED
  BY <1>3, FS_CardinalityType

-----------------------------------------------------------------------------
(* What a handler leaves behind, by the way it leaves. *)

LEMMA RearmType ==
  ASSUME TypeOK, NEW s \in Slots, NEW c \in Connections, NEW k \in Sockets,
         NEW interest \in {R, RW}, Rearm(s, c, k, interest)
  PROVE  /\ conn' \in [Slots -> Connections]
         /\ sock' \in [Slots -> Sockets]
         /\ reg' \in [Slots -> [interest : {R, RW}, queued : BOOLEAN]]
<1>1. (Ready(k) \cap interest # {}) \in BOOLEAN
  OBVIOUS
<1>2. [interest |-> interest, queued |-> Ready(k) \cap interest # {}]
        \in [interest : {R, RW}, queued : BOOLEAN]
  BY <1>1
<1> QED
  BY <1>2 DEF TypeOK, Rearm, Reregister

LEMMA HandledType ==
  ASSUME TypeOK, NEW s \in Slots, NEW event, Handled(s, event)
  PROVE  batch' \in [Slots -> SUBSET RW] /\ cur' \in Slots \union {NoSlot}
  BY DEF TypeOK, Handled

LEMMA NewSocketType == NewSocket \in Sockets
  BY LoopOK DEF NewSocket, Sockets

LEMMA ReconnectType ==
  ASSUME TypeOK, NEW s \in Slots, NEW cs \in Tallies, NEW reason \in CounterNames,
         Reconnect(s, cs, reason), UNCHANGED <<at, stopFlag>>, stopped' \in BOOLEAN
  PROVE  TypeOK'
<1>1. {"attempts", "connect"} \subseteq CounterNames
  BY DEF CounterNames
<1>2. counters' \in Tallies
  <2>1. Add(cs, reason, 1) \in Tallies
    BY AddType
  <2>2. Add(Add(cs, reason, 1), "attempts", 1) \in Tallies
    BY <2>1, <1>1, AddType
  <2>3. Add(Add(Add(cs, reason, 1), "attempts", 1), "connect", 1) \in Tallies
    BY <2>2, <1>1, AddType
  <2> QED
    BY <2>2, <2>3, Zenon DEF Reconnect
<1>3. conn' \in [Slots -> Connections]
  <2>1. conn' = [conn EXCEPT ![s] = NewConnection(TRUE)] \/ conn' = [conn EXCEPT ![s] = NoConnection]
    BY Zenon DEF Reconnect
  <2> QED
    BY <2>1, NewConnectionType DEF TypeOK
<1>4. sock' \in [Slots -> Sockets]
  BY NewSocketType DEF Reconnect, TypeOK
<1>5. reg' \in [Slots -> [interest : {R, RW}, queued : BOOLEAN]]
  BY DEF Reconnect, TypeOK, NewRegistration
<1>6. due' \in [Slots -> [own : Nat, stale : Nat]]
  BY DEF Reconnect, TypeOK
<1>7. batch' \in [Slots -> SUBSET RW] /\ cur' \in Slots \union {NoSlot}
  BY DEF Reconnect, TypeOK
<1> QED
  BY <1>2, <1>3, <1>4, <1>5, <1>6, <1>7 DEF TypeOK, Tallies

LEMMA RaiseType ==
  ASSUME TypeOK, NEW s \in Slots, NEW k \in Sockets, NEW edges, Raise(s, k, edges)
  PROVE  TypeOK'
<1>1. reg' \in [Slots -> [interest : {R, RW}, queued : BOOLEAN]]
  BY DEF Raise, TypeOK
<1> QED
  BY <1>1 DEF Raise, TypeOK

\* The counters after the messages of one read.
LEMMA ResponsesCountersType ==
  ASSUME TypeOK, NEW n \in Nat, NEW errors \in Nat, NEW late \in {0, 1}
  PROVE  Add(Add(Add(Add(counters, "complete", n), "requests", n), "status", errors),
             "timeout", late) \in Tallies
<1>1. {"complete", "requests", "status", "timeout"} \subseteq CounterNames
  BY DEF CounterNames
<1>2. counters \in Tallies
  BY DEF TypeOK, Tallies
<1>3. Add(counters, "complete", n) \in Tallies
  BY <1>1, <1>2, AddType
<1>4. Add(Add(counters, "complete", n), "requests", n) \in Tallies
  BY <1>1, <1>3, AddType
<1>5. Add(Add(Add(counters, "complete", n), "requests", n), "status", errors) \in Tallies
  BY <1>1, <1>4, AddType
<1>6. late \in Int
  OBVIOUS
<1> QED
  BY <1>1, <1>5, <1>6, AddType

LEMMA ResponsesType ==
  ASSUME TypeOK, NEW s \in Slots, NEW c \in Connections, NEW bytes \in Seq(Tokens),
         NEW done \in SUBSET (1 .. Len(bytes)), NEW k \in Sockets, NEW full \in BOOLEAN,
         Responses(s, c, bytes, done, k, full)
  PROVE  TypeOK'
<1> DEFINE counted == Counted(c, bytes, done)
           n == Cardinality(counted)
           errors == Cardinality({i \in counted : bytes[i] = "error"})
           after == Answered(c, n)
           cs(late) == Add(Add(Add(Add(counters, "complete", n), "requests", n),
                               "status", errors), "timeout", late)
<1>1. n \in Nat /\ errors \in Nat
  <2>1. {i \in counted : bytes[i] = "error"} \in SUBSET counted
    OBVIOUS
  <2>2. counted \in SUBSET counted
    OBVIOUS
  <2> HIDE DEF counted
  <2> QED
    BY <2>1, <2>2, CountedIsFinite DEF counted
<1>2. after \in Connections
  BY <1>1, AnsweredType
<1>3. \A late \in {0, 1} : cs(late) \in Tallies
  BY <1>1, ResponsesCountersType
<1>4. CASE Fatal
  BY <1>4 DEF Fatal, TypeOK
<1>5. CASE ~Fatal
  <2> HIDE DEF n, errors, after
  <2>1. /\ stopped' \in {stopped} \union (IF WantsResponse /\ n > 0 THEN {TRUE} ELSE {})
        /\ UNCHANGED <<at, stopFlag>>
        /\ \E late \in {0, 1} :
             \/ Reconnect(s, cs(late), "polite")
             \/ /\ counters' = cs(late)
                /\ UNCHANGED due
                /\ \/ Rearm(s, after, k, RW) /\ Handled(s, "r")
                   \/ Rearm(s, after, k, R) /\ Handled(s, "r")
                   \/ /\ Continues(s)
                      /\ conn' = [conn EXCEPT ![s] = after]
                      /\ sock' = [sock EXCEPT ![s] = k]
                      /\ UNCHANGED reg
    BY <1>5, Zenon DEF Responses, n, errors, after
  <2>2. stopped' \in BOOLEAN
    BY <2>1 DEF TypeOK
  <2>3. PICK late \in {0, 1} :
             \/ Reconnect(s, cs(late), "polite")
             \/ /\ counters' = cs(late)
                /\ UNCHANGED due
                /\ \/ Rearm(s, after, k, RW) /\ Handled(s, "r")
                   \/ Rearm(s, after, k, R) /\ Handled(s, "r")
                   \/ /\ Continues(s)
                      /\ conn' = [conn EXCEPT ![s] = after]
                      /\ sock' = [sock EXCEPT ![s] = k]
                      /\ UNCHANGED reg
    BY <2>1, Zenon
  <2>4. cs(late) \in Tallies
    BY <1>3, <2>3, Zenon
  <2> HIDE DEF cs
  <2>5. CASE Reconnect(s, cs(late), "polite")
    <3>1. "polite" \in CounterNames
      BY DEF CounterNames
    <3> QED
      BY <2>1, <2>2, <2>4, <2>5, <3>1, ReconnectType, Zenon
  <2>6. CASE /\ counters' = cs(late)
             /\ UNCHANGED due
             /\ \E interest \in {R, RW} : Rearm(s, after, k, interest)
             /\ Handled(s, "r")
    <3>1. /\ conn' \in [Slots -> Connections]
          /\ sock' \in [Slots -> Sockets]
          /\ reg' \in [Slots -> [interest : {R, RW}, queued : BOOLEAN]]
      BY <1>2, <2>6, RearmType, Zenon
    <3>2. batch' \in [Slots -> SUBSET RW] /\ cur' \in Slots \union {NoSlot}
      BY <2>6, HandledType, Zenon
    <3> QED
      BY <2>1, <2>2, <2>4, <2>6, <3>1, <3>2 DEF TypeOK, Tallies
  <2>7. CASE /\ counters' = cs(late)
             /\ UNCHANGED due
             /\ Continues(s)
             /\ conn' = [conn EXCEPT ![s] = after]
             /\ sock' = [sock EXCEPT ![s] = k]
             /\ UNCHANGED reg
    BY <1>2, <2>1, <2>2, <2>4, <2>7 DEF TypeOK, Tallies, Continues
  <2> QED
    BY <2>3, <2>5, <2>6, <2>7, Zenon
<1> QED
  BY <1>4, <1>5

\* A read splits the unread tokens in two.
LEMMA SplitType ==
  ASSUME NEW q \in Seq(Tokens), NEW n \in 0 .. Len(q)
  PROVE  /\ SubSeq(q, 1, n) \in Seq(Tokens)
         /\ SubSeq(q, n + 1, Len(q)) \in Seq(Tokens)
<1>1. \A i \in 1 .. n : q[i] \in Tokens
  OBVIOUS
<1>2. \A i \in n + 1 .. Len(q) : q[i] \in Tokens
  OBVIOUS
<1>3. Len(q) \in Int /\ n \in Int /\ n + 1 \in Int
  OBVIOUS
<1> QED
  BY <1>1, <1>2, <1>3, SubSeqProperties

LEMMA ReadBytesType ==
  ASSUME TypeOK, NEW s \in Slots, ReadBytes(s)
  PROVE  TypeOK'
<1> DEFINE q == sock[s].inq
           n == IF Len(q) < RecvTokens THEN Len(q) ELSE RecvTokens
           bytes == SubSeq(q, 1, n)
           rest == SubSeq(q, n + 1, Len(q))
           k == [sock[s] EXCEPT !.inq = rest]
<1>1. q \in Seq(Tokens) /\ sock[s] \in Sockets /\ conn[s] \in Connections
  BY DEF TypeOK, Sockets
<1>2. n \in 0 .. Len(q)
  BY <1>1, LoopOK
<1>3. bytes \in Seq(Tokens) /\ rest \in Seq(Tokens)
  BY <1>1, <1>2, SplitType
<1>4. k \in Sockets
  <2> HIDE DEF rest
  <2> QED
    BY <1>1, <1>3 DEF Sockets
<1>5. CASE Misframed(conn[s], bytes)
  <2>1. Reconnect(s, counters, "read") /\ UNCHANGED <<at, stopFlag, stopped>>
    BY <1>5 DEF ReadBytes
  <2>2. "read" \in CounterNames /\ counters \in Tallies /\ stopped' \in BOOLEAN
    BY <2>1 DEF CounterNames, TypeOK, Tallies
  <2> QED
    BY <2>1, <2>2, ReconnectType
<1>6. CASE ~Misframed(conn[s], bytes)
  <2>1. Responses(s, Fed(conn[s], bytes), bytes, Completed(conn[s], bytes), k, n = RecvTokens)
    BY <1>6, Zenon DEF ReadBytes
  <2>2. Fed(conn[s], bytes) \in Connections
    BY <1>1, <1>3, FedType
  <2>3. Completed(conn[s], bytes) \in SUBSET (1 .. Len(bytes))
    BY DEF Completed
  <2>4. (n = RecvTokens) \in BOOLEAN
    OBVIOUS
  <2> HIDE DEF bytes, k, n
  <2> QED
    BY <1>3, <1>4, <2>1, <2>2, <2>3, <2>4, ResponsesType
<1> QED
  BY <1>5, <1>6

LEMMA ReadEndType ==
  ASSUME TypeOK, NEW s \in Slots, ReadEnd(s)
  PROVE  TypeOK'
<1>1. sock[s] \in Sockets /\ conn[s] \in Connections
  BY DEF TypeOK
<1>2. CASE conn[s].until
  <2>1. Responses(s, conn[s], <<"close">>, {1}, sock[s], FALSE)
    BY <1>2 DEF ReadEnd
  <2>2. <<"close">> \in Seq(Tokens) /\ Len(<<"close">>) = 1
    BY DEF Tokens, Finals
  <2>3. {1} \in SUBSET (1 .. Len(<<"close">>))
    BY <2>2
  <2> QED
    BY <1>1, <2>1, <2>2, <2>3, ResponsesType
<1>3. CASE ~conn[s].until
  <2>1. Reconnect(s, counters, "read") /\ UNCHANGED <<at, stopFlag, stopped>>
    BY <1>3 DEF ReadEnd
  <2>2. "read" \in CounterNames /\ counters \in Tallies /\ stopped' \in BOOLEAN
    BY <2>1 DEF CounterNames, TypeOK, Tallies
  <2> QED
    BY <2>1, <2>2, ReconnectType
<1> QED
  BY <1>2, <1>3

LEMMA WriteBytesType ==
  ASSUME TypeOK, NEW s \in Slots, WriteBytes(s)
  PROVE  TypeOK'
<1> DEFINE c == StartBurst(conn[s])
           free == OutUnits - sock[s].out
           n == IF Burst - c.written < free THEN Burst - c.written ELSE free
           k == [sock[s] EXCEPT !.out = @ + n]
<1>1. conn[s] \in Connections /\ sock[s] \in Sockets
  BY DEF TypeOK
<1>2. c \in Connections /\ c.written \in 0 .. Burst
  BY <1>1, HandlerTypes DEF Connections
<1>3. free \in 0 .. OutUnits /\ sock[s].out \in 0 .. OutUnits
  BY <1>1, LoopOK DEF Sockets
<1>4. n \in Nat /\ n <= Burst - c.written /\ sock[s].out + n \in 0 .. OutUnits
  <2> HIDE DEF c
  <2> QED
    BY <1>2, <1>3, BurstIsNat, LoopOK
<1>5. k \in Sockets
  <2> HIDE DEF n
  <2> QED
    BY <1>1, <1>4 DEF Sockets
<1>6. Wrote(c, n) \in Connections /\ WroteInterest(c, n) \in {R, RW}
  <2> HIDE DEF c, n
  <2> QED
    BY <1>2, <1>4, WroteType
<1>7. /\ Rearm(s, Wrote(c, n), k, WroteInterest(c, n))
      /\ Handled(s, "w")
      /\ UNCHANGED <<due, at, stopFlag, stopped, counters>>
  BY Zenon DEF WriteBytes
<1> HIDE DEF c, n, k
<1>8. /\ conn' \in [Slots -> Connections]
      /\ sock' \in [Slots -> Sockets]
      /\ reg' \in [Slots -> [interest : {R, RW}, queued : BOOLEAN]]
  BY <1>5, <1>6, <1>7, RearmType
<1>9. batch' \in [Slots -> SUBSET RW] /\ cur' \in Slots \union {NoSlot}
  BY <1>7, HandledType
<1> QED
  BY <1>7, <1>8, <1>9 DEF TypeOK

LEMMA ConnectEventType ==
  ASSUME TypeOK, NEW s \in Slots, ConnectEvent(s)
  PROVE  TypeOK'
<1>1. conn[s] \in Connections /\ sock[s] \in Sockets
  BY DEF TypeOK
<1>2. CASE Reconnect(s, counters, "connect") /\ UNCHANGED <<at, stopFlag, stopped>>
  <2>1. "connect" \in CounterNames /\ counters \in Tallies /\ stopped' \in BOOLEAN
    BY <1>2 DEF CounterNames, TypeOK, Tallies
  <2> QED
    BY <1>2, <2>1, ReconnectType
<1>3. CASE /\ Rearm(s, Connected(conn[s]), sock[s], RW)
           /\ batch' = [batch EXCEPT ![s] = {}]
           /\ UNCHANGED <<due, cur, counters, at, stopFlag, stopped>>
  <2>1. Connected(conn[s]) \in Connections
    BY <1>1, HandlerTypes
  <2>2. /\ conn' \in [Slots -> Connections]
        /\ sock' \in [Slots -> Sockets]
        /\ reg' \in [Slots -> [interest : {R, RW}, queued : BOOLEAN]]
    BY <1>1, <1>3, <2>1, RearmType
  <2>3. batch' \in [Slots -> SUBSET RW]
    BY <1>3 DEF TypeOK
  <2> QED
    BY <1>3, <2>2, <2>3 DEF TypeOK
<1> QED
  BY <1>2, <1>3 DEF ConnectEvent

\* A handler that only re-registers.
LEMMA RearmOnlyType ==
  ASSUME TypeOK, NEW s \in Slots, NEW interest \in {R, RW}, NEW event,
         Rearm(s, conn[s], sock[s], interest), Handled(s, event),
         UNCHANGED <<at, stopFlag, stopped, counters>>,
         due' \in [Slots -> [own : Nat, stale : Nat]]
  PROVE  TypeOK'
<1>1. conn[s] \in Connections /\ sock[s] \in Sockets
  BY DEF TypeOK
<1>2. /\ conn' \in [Slots -> Connections]
      /\ sock' \in [Slots -> Sockets]
      /\ reg' \in [Slots -> [interest : {R, RW}, queued : BOOLEAN]]
  BY <1>1, RearmType
<1>3. batch' \in [Slots -> SUBSET RW] /\ cur' \in Slots \union {NoSlot}
  BY HandledType
<1> QED
  BY <1>2, <1>3 DEF TypeOK

LEMMA FireDelayType ==
  ASSUME TypeOK, NEW s \in Slots, NEW whose \in {"own", "stale"}, FireDelay(s, whose)
  PROVE  TypeOK'
<1>1. due' \in [Slots -> [own : Nat, stale : Nat]]
  BY DEF FireDelay, TypeOK
<1>2. CASE UNCHANGED <<conn, sock, reg>>
  BY <1>1, <1>2 DEF FireDelay, TypeOK
<1>3. CASE Rearm(s, DelayFired(conn[s]), sock[s], RW)
  <2>1. DelayFired(conn[s]) \in Connections /\ sock[s] \in Sockets
    BY HandlerTypes DEF TypeOK
  <2>2. /\ conn' \in [Slots -> Connections]
        /\ sock' \in [Slots -> Sockets]
        /\ reg' \in [Slots -> [interest : {R, RW}, queued : BOOLEAN]]
    BY <1>3, <2>1, RearmType
  <2> QED
    BY <1>1, <2>2 DEF FireDelay, TypeOK
<1> QED
  BY <1>2, <1>3 DEF FireDelay

LEMMA TickType ==
  ASSUME TypeOK, Tick
  PROVE  TypeOK'
<1> PICK kind \in {"sampled", "unsampled"} :
           counters' = [Add(counters, kind, counters.requests) EXCEPT !.requests = 0]
  BY DEF Tick, RecordRate
<1>1. counters \in Tallies /\ {kind, "requests"} \subseteq CounterNames
  BY DEF TypeOK, Tallies, CounterNames
<1>2. Add(counters, kind, counters.requests) \in Tallies
  <2>1. counters["requests"] \in Int
    BY <1>1 DEF Tallies
  <2> QED
    BY <1>1, <2>1, AddType
<1>3. counters' \in Tallies
  <2>1. 0 \in 0 .. CounterMod - 1
    BY LoopOK
  <2>2. counters' = [Add(counters, kind, counters.requests) EXCEPT !.requests = 0]
    OBVIOUS
  <2> QED
    BY <1>2, <2>1, <2>2, <1>1 DEF Tallies
<1> QED
  BY <1>3 DEF Tick, TypeOK, Tallies

LEMMA PollType ==
  ASSUME TypeOK, Poll
  PROVE  TypeOK'
<1>1. Found \in [Slots -> SUBSET RW]
  BY DEF Found, TypeOK, R, RW
<1>2. reg' \in [Slots -> [interest : {R, RW}, queued : BOOLEAN]]
  <2>1. \A s \in Slots : [reg[s] EXCEPT !.queued = FALSE] \in [interest : {R, RW}, queued : BOOLEAN]
    BY DEF TypeOK
  <2>2. reg' = [s \in Slots |-> [reg[s] EXCEPT !.queued = FALSE]]
    BY DEF Poll
  <2> QED
    BY <2>1, <2>2
<1> QED
  BY <1>1, <1>2 DEF Poll, TypeOK

LEMMA SocketFields ==
  ASSUME NEW k \in Sockets
  PROVE  /\ \A q \in Seq(Tokens) : [k EXCEPT !.inq = q] \in Sockets
         /\ \A out \in 0 .. OutUnits, got \in Int :
              [k EXCEPT !.out = out, !.got = got] \in Sockets
         /\ \A got \in Int, half \in {"none", "until"}, fin \in BOOLEAN :
              [k EXCEPT !.got = got, !.half = half, !.fin = fin] \in Sockets
  BY DEF Sockets

\* The other side of a socket keeps it a socket.
LEMMA ServerType ==
  ASSUME TypeOK, NEW s \in Slots, Server(s)
  PROVE  TypeOK'
<1>1. sock[s] \in Sockets
  BY DEF TypeOK
<1>2. \A token \in Tokens : [sock[s] EXCEPT !.inq = Append(@, token)] \in Sockets
  <2>1. \A token \in Tokens : Append(sock[s].inq, token) \in Seq(Tokens)
    BY <1>1 DEF Sockets
  <2> QED
    BY <1>1, <2>1, SocketFields, Zenon
<1>3. {"part", "ok", "junk"} \subseteq Tokens /\ Answers \subseteq Tokens
  BY LoopOK DEF Tokens, Finals
<1>4. Answers \subseteq {"ok", "error", "close", "until"}
  BY LoopOK DEF Finals
<1>5. \E k \in Sockets : \E edges : Raise(s, k, edges)
  <2>1. CASE AcceptConnect(s)
    <3>1. [sock[s] EXCEPT !.net = "up"] \in Sockets
      BY <1>1 DEF Sockets
    <3> QED
      BY <2>1, <3>1, Zenon DEF AcceptConnect
  <2>2. CASE RefuseConnect(s)
    <3>1. [sock[s] EXCEPT !.net = "refused"] \in Sockets
      BY <1>1 DEF Sockets
    <3> QED
      BY <2>2, <3>1, Zenon DEF RefuseConnect
  <2>3. CASE Receive(s)
    <3>1. [sock[s] EXCEPT !.out = @ - 1, !.got = @ + 1] \in Sockets
      <4>1. sock[s].out - 1 \in 0 .. OutUnits /\ sock[s].got + 1 \in Int
        BY <1>1, <2>3, LoopOK DEF Receive, Sockets
      <4> QED
        BY <1>1, <4>1, SocketFields, Zenon
    <3> QED
      BY <2>3, <3>1, Zenon DEF Receive
  <2>4. CASE AnswerPart(s)
    <3>1. Send(s, "part") \in Sockets
      BY <1>2, <1>3 DEF Send
    <3>2. [Send(s, "part") EXCEPT !.half = "part"] \in Sockets
      BY <3>1 DEF Sockets
    <3> QED
      BY <2>4, <3>2, Zenon DEF AnswerPart
  <2>5. ASSUME NEW token \in Answers, Answer(s, token) PROVE \E k \in Sockets : \E edges : Raise(s, k, edges)
    <3>1. Send(s, token) \in Sockets
      BY <1>2, <1>3 DEF Send
    <3>2. \A half \in {"none", "until"}, fin \in BOOLEAN :
            [Send(s, token) EXCEPT !.got = @ - RequestUnits, !.half = half, !.fin = fin] \in Sockets
      <4>1. Send(s, token).got - RequestUnits \in Int
        BY <3>1, ConnectionOK DEF Sockets
      <4> QED
        BY <3>1, <4>1, SocketFields, Zenon
    <3>3. /\ (IF token = "until" THEN "until" ELSE "none") \in {"none", "until"}
          /\ (~KeepsAlive(token)) \in BOOLEAN
      BY DEF KeepsAlive
    <3> QED
      BY <2>5, <3>2, <3>3, Zenon DEF Answer
  <2>6. CASE AnswerBody(s)
    <3>1. Send(s, "part") \in Sockets
      BY <1>2, <1>3 DEF Send
    <3> QED
      BY <2>6, <3>1, Zenon DEF AnswerBody
  <2>7. CASE EndBody(s) \/ Hangup(s)
    <3>1. [sock[s] EXCEPT !.fin = TRUE] \in Sockets
      BY <1>1 DEF Sockets
    <3> QED
      BY <2>7, <3>1, Zenon DEF EndBody, Hangup
  <2>8. CASE AnswerInterim(s)
    <3>1. Send(s, "ok") \in Sockets
      BY <1>2, <1>3 DEF Send
    <3> QED
      BY <2>8, <3>1, Zenon DEF AnswerInterim
  <2>9. CASE AnswerJunk(s)
    <3>1. Send(s, "junk") \in Sockets
      BY <1>2, <1>3 DEF Send
    <3>2. [Send(s, "junk") EXCEPT !.got = @ - RequestUnits] \in Sockets
      BY <3>1, ConnectionOK DEF Sockets
    <3> QED
      BY <2>9, <3>2, Zenon DEF AnswerJunk
  <2>10. CASE Reset(s)
    <3>1. [sock[s] EXCEPT !.rst = TRUE] \in Sockets
      BY <1>1 DEF Sockets
    <3> QED
      BY <2>10, <3>1, Zenon DEF Reset
  <2> QED
    BY <2>1, <2>2, <2>3, <2>4, <2>5, <2>6, <2>7, <2>8, <2>9, <2>10 DEF Server
<1> QED
  BY <1>5, RaiseType

LEMMA InitType == Init => TypeOK
<1> SUFFICES ASSUME Init PROVE TypeOK
  OBVIOUS
<1>1. conn \in [Slots -> Connections]
  BY NewConnectionType DEF Init
<1>2. sock \in [Slots -> Sockets]
  BY NewSocketType DEF Init
<1>3. counters \in [CounterNames -> 0 .. CounterMod - 1]
  <2> DEFINE failed == {s \in Slots : conn[s].at = "none"}
  <2>1. IsFiniteSet(Slots) /\ IsFiniteSet(failed)
    BY LoopOK, FS_Subset
  <2>2. Cardinality(Slots) \in Int /\ Cardinality(failed) \in Int
    BY <2>1, FS_CardinalityType
  <2>3. /\ Cardinality(Slots) % CounterMod \in 0 .. CounterMod - 1
        /\ Cardinality(failed) % CounterMod \in 0 .. CounterMod - 1
        /\ 0 \in 0 .. CounterMod - 1
    <3>1. CounterMod \in Nat \ {0}
      BY LoopOK
    <3>2. 0 \in 0 .. CounterMod - 1
      BY <3>1
    <3> HIDE DEF failed
    <3> QED
      BY <2>2, <3>1, <3>2, ModRange, Zenon
  <2> QED
    BY <2>3 DEF Init
<1> QED
  BY <1>1, <1>2, <1>3 DEF Init, TypeOK, NewRegistration

(***************************************************************************)
(* Every variable keeps its type; in particular written stays inside the   *)
(* burst, pending inside the pipeline or wrapped, and the buffers inside   *)
(* their size.                                                             *)
(***************************************************************************)
THEOREM LoopTypeCorrect == Spec => []TypeOK
<1>1. TypeOK /\ [Next]_vars => TypeOK'
  <2> SUFFICES ASSUME TypeOK, [Next]_vars PROVE TypeOK'
    OBVIOUS
  <2>1. CASE Poll
    BY <2>1, PollType
  <2>2. CASE EventsDone \/ NoTick \/ PollFails \/ Stop
    BY <2>2 DEF EventsDone, NoTick, PollFails, Stop, TypeOK
  <2>3. CASE Tick
    BY <2>3, TickType
  <2>4. ASSUME NEW s \in Slots, ConnectEvent(s) PROVE TypeOK'
    BY <2>4, ConnectEventType
  <2>5. ASSUME NEW s \in Slots, ReadBytes(s) PROVE TypeOK'
    BY <2>5, ReadBytesType
  <2>6. ASSUME NEW s \in Slots, ReadEnd(s) PROVE TypeOK'
    BY <2>6, ReadEndType
  <2>7. ASSUME NEW s \in Slots, ReadFails(s) PROVE TypeOK'
    <3>1. "read" \in CounterNames /\ counters \in Tallies /\ stopped' \in BOOLEAN
      BY <2>7 DEF ReadFails, CounterNames, TypeOK, Tallies
    <3> QED
      BY <2>7, <3>1, ReconnectType DEF ReadFails
  <2>8. ASSUME NEW s \in Slots, ReadBlocks(s) PROVE TypeOK'
    <3>1. due' \in [Slots -> [own : Nat, stale : Nat]]
      BY <2>8 DEF ReadBlocks, TypeOK
    <3> QED
      BY <2>8, <3>1, RearmOnlyType DEF ReadBlocks
  <2>9. ASSUME NEW s \in Slots, WriteDelayed(s) PROVE TypeOK'
    <3>1. due' \in [Slots -> [own : Nat, stale : Nat]]
      BY <2>9 DEF WriteDelayed, TypeOK
    <3> QED
      BY <2>9, <3>1, RearmOnlyType DEF WriteDelayed
  <2>10. ASSUME NEW s \in Slots, WriteFatal(s) PROVE TypeOK'
    BY <2>10 DEF WriteFatal, Fatal, TypeOK
  <2>11. ASSUME NEW s \in Slots, WriteBytes(s) PROVE TypeOK'
    BY <2>11, WriteBytesType
  <2>12. ASSUME NEW s \in Slots, WriteFails(s) PROVE TypeOK'
    <3>1. "write" \in CounterNames /\ counters \in Tallies /\ stopped' \in BOOLEAN
      BY <2>12 DEF WriteFails, CounterNames, TypeOK, Tallies
    <3> QED
      BY <2>12, <3>1, ReconnectType DEF WriteFails
  <2>13. ASSUME NEW s \in Slots, Server(s) PROVE TypeOK'
    BY <2>13, ServerType
  <2>14. ASSUME NEW s \in Slots, FireDelay(s, "own") \/ FireDelay(s, "stale") PROVE TypeOK'
    BY <2>14, FireDelayType
  <2>15. CASE UNCHANGED vars
    BY <2>15 DEF vars, TypeOK
  <2> QED
    BY <2>1, <2>2, <2>3, <2>4, <2>5, <2>6, <2>7, <2>8, <2>9, <2>10, <2>11, <2>12, <2>13,
       <2>14, <2>15 DEF Next, Turn
<1> QED
  BY <1>1, InitType, PTL DEF Spec

-----------------------------------------------------------------------------
(* No wakeup is lost. *)

\* A ready socket whose events are not being handled is on the readiness list.
Awake(s) ==
    conn[s].at # "none" /\ batch[s] = {} /\ Ready(sock[s]) \cap reg[s].interest # {}
        => reg[s].queued

\* The strengthening: the poll starts from an empty batch.
WakeInv ==
    /\ Running => \A s \in Slots : Awake(s)
    /\ at \in {"poll", "timers"} => \A s \in Slots : batch[s] = {}

\* Registering again queues what is ready.
LEMMA RearmWakes ==
  ASSUME TypeOK, NEW s \in Slots, NEW c, NEW k, NEW interest, Rearm(s, c, k, interest),
         \A t \in Slots : Awake(t), \A t \in Slots \ {s} : batch'[t] = batch[t]
  PROVE  \A t \in Slots : Awake(t)'
<1> SUFFICES ASSUME NEW t \in Slots PROVE Awake(t)'
  OBVIOUS
<1>1. CASE t = s
  <2>1. sock'[s] = k /\ reg'[s] = [interest |-> interest, queued |-> Ready(k) \cap interest # {}]
    BY DEF TypeOK, Rearm, Reregister
  <2>2. Ready(sock[s])' = Ready(k)
    BY <2>1 DEF Ready
  <2>3. reg'[s].interest = interest /\ reg'[s].queued = (Ready(k) \cap interest # {})
    BY <2>1
  <2> QED
    BY <1>1, <2>2, <2>3 DEF Awake
<1>2. CASE t # s
  <2>1. conn'[t] = conn[t] /\ sock'[t] = sock[t] /\ reg'[t] = reg[t]
    BY <1>2 DEF TypeOK, Rearm, Reregister
  <2>2. batch'[t] = batch[t] /\ Awake(t)
    BY <1>2
  <2> QED
    BY <2>1, <2>2 DEF Awake, Ready
<1> QED
  BY <1>1, <1>2

\* A new socket is not ready for anything, and the other slots are left alone.
LEMMA ReconnectWakes ==
  ASSUME TypeOK, NEW s \in Slots, NEW cs, NEW reason, Reconnect(s, cs, reason),
         \A t \in Slots : Awake(t)
  PROVE  \A t \in Slots : Awake(t)'
<1> SUFFICES ASSUME NEW t \in Slots PROVE Awake(t)'
  OBVIOUS
<1>1. CASE t = s
  <2>1. sock'[s] = NewSocket
    BY DEF TypeOK, Reconnect
  <2>2. Ready(NewSocket) = {}
    BY DEF Ready, NewSocket
  <2>3. Ready(sock[s])' = {}
    BY <2>1, <2>2 DEF Ready
  <2> QED
    BY <1>1, <2>3 DEF Awake
<1>2. CASE t # s
  <2>1. sock'[t] = sock[t] /\ reg'[t] = reg[t] /\ batch'[t] = batch[t]
    BY <1>2 DEF TypeOK, Reconnect
  <2>2. conn'[t] = conn[t]
    <3>1. conn' = [conn EXCEPT ![s] = NewConnection(TRUE)] \/ conn' = [conn EXCEPT ![s] = NoConnection]
      BY Zenon DEF Reconnect
    <3> QED
      BY <1>2, <3>1 DEF TypeOK
  <2> QED
    BY <2>1, <2>2 DEF Awake, Ready
<1> QED
  BY <1>1, <1>2

\* The edges the other side raises cover all that its change made ready.
LEMMA RaiseWakes ==
  ASSUME TypeOK, NEW s \in Slots, NEW k, NEW edges, Raise(s, k, edges), WakeInv,
         Ready(k) \subseteq Ready(sock[s]) \union edges
  PROVE  WakeInv'
<1>1. UNCHANGED <<conn, at, batch>>
  BY DEF Raise
<1>2. ASSUME Running', NEW t \in Slots PROVE Awake(t)'
  <2>1. Awake(t)
    BY <1>1, <1>2 DEF WakeInv, Running
  <2>2. CASE t = s
    <3>1. sock'[s] = k /\ reg'[s].interest = reg[s].interest
      BY DEF Raise, TypeOK
    <3>2. reg'[s].queued = (reg[s].queued \/ edges \cap reg[s].interest # {})
      BY DEF Raise, TypeOK
    <3>3. Ready(sock[s])' = Ready(k)
      BY <3>1 DEF Ready
    <3> QED
      BY <1>1, <2>1, <2>2, <3>1, <3>2, <3>3 DEF Awake
  <2>3. CASE t # s
    <3>1. sock'[t] = sock[t] /\ reg'[t] = reg[t]
      BY <2>3 DEF Raise, TypeOK
    <3> QED
      BY <1>1, <2>1, <3>1 DEF Awake, Ready
  <2> QED
    BY <2>2, <2>3
<1> QED
  BY <1>1, <1>2 DEF WakeInv

LEMMA ServerWakes ==
  ASSUME TypeOK, NEW s \in Slots, Server(s), WakeInv
  PROVE  WakeInv'
<1>1. sock[s] \in Sockets
  BY DEF TypeOK
<1>2. sock[s].out \in 0 .. OutUnits /\ OutUnits \in Nat \ {0}
  BY <1>1, LoopOK DEF Sockets
<1>3. \E k, edges : Raise(s, k, edges) /\ Ready(k) \subseteq Ready(sock[s]) \union edges
  <2>1. CASE AcceptConnect(s)
    <3>1. Ready([sock[s] EXCEPT !.net = "up"]) \subseteq Ready(sock[s]) \union {"w"}
      BY <1>1, <2>1 DEF AcceptConnect, Ready, RW, Sockets
    <3> QED
      BY <2>1, <3>1, Zenon DEF AcceptConnect
  <2>2. CASE RefuseConnect(s)
    <3>1. Ready([sock[s] EXCEPT !.net = "refused"]) \subseteq Ready(sock[s]) \union RW
      BY DEF Ready
    <3> QED
      BY <2>2, <3>1, Zenon DEF RefuseConnect
  <2>3. CASE Receive(s)
    <3> DEFINE k == [sock[s] EXCEPT !.out = @ - 1, !.got = @ + 1]
               edges == IF sock[s].out = OutUnits THEN {"w"} ELSE {}
    <3>1. /\ k.rst = sock[s].rst /\ k.net = sock[s].net /\ k.inq = sock[s].inq /\ k.fin = sock[s].fin
          /\ k.out = sock[s].out - 1
      BY <1>1 DEF Sockets
    <3>2. "w" \in Ready(k) /\ sock[s].out # OutUnits => "w" \in Ready(sock[s])
      BY <1>2, <3>1 DEF Ready, RW
    <3>3. "r" \in Ready(k) => "r" \in Ready(sock[s])
      BY <3>1 DEF Ready, RW
    <3>4. Ready(k) \subseteq {"r", "w"}
      BY DEF Ready, RW
    <3>5. Ready(k) \subseteq Ready(sock[s]) \union edges
      <4> HIDE DEF k
      <4> QED
        BY <3>2, <3>3, <3>4
    <3> QED
      BY <2>3, <3>5, Zenon DEF Receive
  <2>4. ASSUME NEW k, Raise(s, k, {"r"}),
               k.rst = sock[s].rst, k.net = sock[s].net, k.out = sock[s].out
        PROVE  Ready(k) \subseteq Ready(sock[s]) \union {"r"}
    BY <2>4 DEF Ready, RW
  <2>5. \A token : /\ Send(s, token).rst = sock[s].rst
                   /\ Send(s, token).net = sock[s].net
                   /\ Send(s, token).out = sock[s].out
    BY <1>1 DEF Send, Sockets
  <2>6. \A token : DOMAIN Send(s, token) = {"net", "out", "got", "half", "inq", "fin", "rst"}
    BY <1>1 DEF Send, Sockets
  <2>7. CASE AnswerPart(s)
    <3> DEFINE k == [Send(s, "part") EXCEPT !.half = "part"]
    <3>1. Raise(s, k, {"r"})
      BY <2>7 DEF AnswerPart
    <3>2. k.rst = sock[s].rst /\ k.net = sock[s].net /\ k.out = sock[s].out
      BY <2>5, <2>6
    <3> QED
      BY <3>1, <3>2, <2>4, Zenon
  <2>8. ASSUME NEW token \in Answers, Answer(s, token)
        PROVE  \E k, edges : Raise(s, k, edges) /\ Ready(k) \subseteq Ready(sock[s]) \union edges
    <3> DEFINE k == [Send(s, token) EXCEPT !.got = @ - RequestUnits,
                                           !.half = IF token = "until" THEN "until" ELSE "none",
                                           !.fin = ~KeepsAlive(token)]
    <3>1. Raise(s, k, {"r"})
      BY <2>8, Zenon DEF Answer
    <3>2. k.rst = sock[s].rst /\ k.net = sock[s].net /\ k.out = sock[s].out
      BY <2>5, <2>6
    <3> QED
      BY <3>1, <3>2, <2>4, Zenon
  <2>9. CASE AnswerBody(s)
    <3>1. Raise(s, Send(s, "part"), {"r"})
      BY <2>9 DEF AnswerBody
    <3> QED
      BY <3>1, <2>5, <2>4, Zenon
  <2>10. CASE EndBody(s) \/ Hangup(s)
    <3> DEFINE k == [sock[s] EXCEPT !.fin = TRUE]
    <3>1. Raise(s, k, {"r"})
      BY <2>10 DEF EndBody, Hangup
    <3>2. k.rst = sock[s].rst /\ k.net = sock[s].net /\ k.out = sock[s].out
      BY <1>1 DEF Sockets
    <3> QED
      BY <3>1, <3>2, <2>4, Zenon
  <2>11. CASE AnswerInterim(s)
    <3>1. Raise(s, Send(s, "ok"), {"r"})
      BY <2>11 DEF AnswerInterim
    <3> QED
      BY <3>1, <2>5, <2>4, Zenon
  <2>12. CASE AnswerJunk(s)
    <3> DEFINE k == [Send(s, "junk") EXCEPT !.got = @ - RequestUnits]
    <3>1. Raise(s, k, {"r"})
      BY <2>12 DEF AnswerJunk
    <3>2. k.rst = sock[s].rst /\ k.net = sock[s].net /\ k.out = sock[s].out
      BY <2>5, <2>6
    <3> QED
      BY <3>1, <3>2, <2>4, Zenon
  <2>13. CASE Reset(s)
    <3>1. Ready([sock[s] EXCEPT !.rst = TRUE]) \subseteq Ready(sock[s]) \union RW
      BY DEF Ready
    <3> QED
      BY <2>13, <3>1, Zenon DEF Reset
  <2> QED
    BY <2>1, <2>2, <2>3, <2>7, <2>8, <2>9, <2>10, <2>11, <2>12, <2>13 DEF Server
<1> QED
  BY <1>3, RaiseWakes

\* The loop handles events: the batch need not be empty, every slot is awake.
LEMMA InEvents ==
  ASSUME TypeOK, WakeInv, at = "events", UNCHANGED at
  PROVE  /\ \A t \in Slots : Awake(t)
         /\ (\A t \in Slots : Awake(t)') => WakeInv'
  BY DEF WakeInv, Running

\* Exiting, the loop sleeps no more.
LEMMA FatalWakes ==
  ASSUME Fatal
  PROVE  WakeInv'
  BY DEF Fatal, WakeInv, Running

LEMMA ReconnectKeepsWakeInv ==
  ASSUME TypeOK, WakeInv, NEW s \in Slots, NEW cs, NEW reason, at = "events", UNCHANGED at,
         Reconnect(s, cs, reason)
  PROVE  WakeInv'
  BY InEvents, ReconnectWakes

LEMMA RearmKeepsWakeInv ==
  ASSUME TypeOK, WakeInv, NEW s \in Slots, NEW c, NEW k, NEW interest, NEW event,
         at = "events", UNCHANGED at,
         Rearm(s, c, k, interest), Handled(s, event)
  PROVE  WakeInv'
<1>1. \A t \in Slots \ {s} : batch'[t] = batch[t]
  BY DEF Handled, TypeOK
<1> QED
  BY <1>1, InEvents, RearmWakes

LEMMA ResponsesWakes ==
  ASSUME TypeOK, WakeInv, NEW s \in Slots, NEW c, NEW bytes, NEW done, NEW k, NEW full,
         at = "events", batch[s] # {},
         Responses(s, c, bytes, done, k, full)
  PROVE  WakeInv'
<1> DEFINE after == Answered(c, Cardinality(Counted(c, bytes, done)))
<1>1. CASE Fatal
  BY <1>1, FatalWakes
<1>2. CASE /\ UNCHANGED at
           /\ \E cs : Reconnect(s, cs, "polite")
  BY <1>2, ReconnectKeepsWakeInv
<1>3. CASE /\ UNCHANGED at
           /\ \E interest : Rearm(s, after, k, interest)
           /\ Handled(s, "r")
  <2> HIDE DEF after
  <2> QED
    BY <1>3, RearmKeepsWakeInv
<1>4. CASE /\ UNCHANGED at
           /\ Continues(s)
           /\ conn' = [conn EXCEPT ![s] = after]
           /\ sock' = [sock EXCEPT ![s] = k]
           /\ UNCHANGED reg
  <2> HIDE DEF after
  <2> SUFFICES ASSUME NEW t \in Slots PROVE Awake(t)'
    BY <1>4, InEvents
  <2>1. CASE t = s
    BY <1>4, <2>1 DEF Continues, Awake
  <2>2. CASE t # s
    <3>1. conn'[t] = conn[t] /\ sock'[t] = sock[t] /\ reg'[t] = reg[t] /\ batch'[t] = batch[t]
      BY <1>4, <2>2 DEF Continues, TypeOK
    <3>2. Awake(t)
      BY <1>4, InEvents
    <3> QED
      BY <3>1, <3>2 DEF Awake, Ready
  <2> QED
    BY <2>1, <2>2
<1> QED
  BY <1>1, <1>2, <1>3, <1>4, Zenon DEF Responses

(***************************************************************************)
(* The strengthening is inductive: each handler re-registers, or keeps its *)
(* event, or replaces the socket; each change of a socket raises the edges *)
(* of what it makes ready; and a poll takes a queued socket off the list   *)
(* only by reporting it.                                                   *)
(***************************************************************************)
LEMMA WakeInductive == TypeOK /\ WakeInv /\ [Next]_vars => WakeInv'
<1> SUFFICES ASSUME TypeOK, WakeInv, [Next]_vars PROVE WakeInv'
  OBVIOUS
<1>1. CASE Poll
  <2> SUFFICES ASSUME NEW s \in Slots PROVE Awake(s)'
    BY <1>1 DEF Poll, WakeInv
  <2>1. Awake(s) /\ batch[s] = {}
    BY <1>1 DEF Poll, WakeInv, Running
  <2>2. UNCHANGED <<conn, sock>> /\ reg'[s].interest = reg[s].interest
    BY <1>1 DEF Poll, TypeOK
  <2>3. batch'[s] = IF reg[s].queued /\ conn[s].at # "none"
                    THEN Ready(sock[s]) \cap reg[s].interest ELSE {}
    BY <1>1 DEF Poll, Found
  <2> QED
    BY <2>1, <2>2, <2>3 DEF Awake, Ready
<1>2. CASE PollFails
  BY <1>2 DEF PollFails, WakeInv, Running
<1>3. CASE Stop
  BY <1>3 DEF Stop, WakeInv, Running, Awake, Ready
<1>4. CASE EventsDone
  BY <1>4 DEF EventsDone, WakeInv, Running, Awake, Ready
<1>5. CASE Tick \/ NoTick
  BY <1>5 DEF Tick, NoTick, WakeInv, Running, Awake, Ready
<1>6. ASSUME NEW s \in Slots, ConnectEvent(s) PROVE WakeInv'
  <2>1. at = "events" /\ UNCHANGED at
    BY <1>6 DEF ConnectEvent
  <2>2. CASE Reconnect(s, counters, "connect")
    BY <2>1, <2>2, ReconnectKeepsWakeInv
  <2>3. CASE Rearm(s, Connected(conn[s]), sock[s], RW) /\ batch' = [batch EXCEPT ![s] = {}]
    <3>1. \A t \in Slots \ {s} : batch'[t] = batch[t]
      BY <2>3 DEF TypeOK
    <3> QED
      BY <2>1, <2>3, <3>1, InEvents, RearmWakes
  <2> QED
    BY <1>6, <2>2, <2>3 DEF ConnectEvent
<1>7. ASSUME NEW s \in Slots, ReadBytes(s) PROVE WakeInv'
  <2>1. at = "events" /\ batch[s] # {}
    BY <1>7 DEF ReadBytes, Handles
  <2>2. CASE Reconnect(s, counters, "read") /\ UNCHANGED at
    BY <2>1, <2>2, ReconnectKeepsWakeInv
  <2>3. CASE \E c, bytes, done, k, full : Responses(s, c, bytes, done, k, full)
    BY <2>1, <2>3, ResponsesWakes
  <2> QED
    BY <1>7, <2>2, <2>3, Zenon DEF ReadBytes
<1>8. ASSUME NEW s \in Slots, ReadEnd(s) PROVE WakeInv'
  <2>1. at = "events" /\ batch[s] # {}
    BY <1>8 DEF ReadEnd, Handles
  <2>2. CASE Reconnect(s, counters, "read") /\ UNCHANGED at
    BY <2>1, <2>2, ReconnectKeepsWakeInv
  <2>3. CASE Responses(s, conn[s], <<"close">>, {1}, sock[s], FALSE)
    BY <2>1, <2>3, ResponsesWakes
  <2> QED
    BY <1>8, <2>2, <2>3 DEF ReadEnd
<1>9. ASSUME NEW s \in Slots, ReadFails(s) PROVE WakeInv'
  BY <1>9, ReconnectKeepsWakeInv DEF ReadFails, Handles
<1>10. ASSUME NEW s \in Slots, ReadBlocks(s) PROVE WakeInv'
  BY <1>10, RearmKeepsWakeInv DEF ReadBlocks, Handles
<1>11. ASSUME NEW s \in Slots, WriteDelayed(s) PROVE WakeInv'
  BY <1>11, RearmKeepsWakeInv DEF WriteDelayed, Handles
<1>12. ASSUME NEW s \in Slots, WriteFatal(s) PROVE WakeInv'
  BY <1>12, FatalWakes DEF WriteFatal
<1>13. ASSUME NEW s \in Slots, WriteBytes(s) PROVE WakeInv'
  <2>1. \E c, k, interest : Rearm(s, c, k, interest)
    BY <1>13, Zenon DEF WriteBytes
  <2>2. at = "events" /\ UNCHANGED at /\ Handled(s, "w")
    BY <1>13 DEF WriteBytes, Handles
  <2> QED
    BY <2>1, <2>2, RearmKeepsWakeInv
<1>14. ASSUME NEW s \in Slots, WriteFails(s) PROVE WakeInv'
  BY <1>14, ReconnectKeepsWakeInv DEF WriteFails, Handles
<1>15. ASSUME NEW s \in Slots, Server(s) PROVE WakeInv'
  BY <1>15, ServerWakes
<1>16. ASSUME NEW s \in Slots, NEW whose, FireDelay(s, whose) PROVE WakeInv'
  <2>1. at = "timers" /\ UNCHANGED <<at, batch>> /\ \A t \in Slots : Awake(t)
    BY <1>16 DEF FireDelay, WakeInv, Running
  <2>2. CASE UNCHANGED <<conn, sock, reg>>
    BY <2>1, <2>2 DEF WakeInv, Running, Awake, Ready
  <2>3. CASE Rearm(s, DelayFired(conn[s]), sock[s], RW)
    <3>1. \A t \in Slots : Awake(t)'
      BY <2>1, <2>3, RearmWakes
    <3> QED
      BY <2>1, <3>1 DEF WakeInv
  <2> QED
    BY <1>16, <2>2, <2>3 DEF FireDelay
<1>17. CASE UNCHANGED vars
  BY <1>17 DEF vars, WakeInv, Running, Awake, Ready
<1> QED
  BY <1>1, <1>2, <1>3, <1>4, <1>5, <1>6, <1>7, <1>8, <1>9, <1>10, <1>11, <1>12, <1>13,
     <1>14, <1>15, <1>16, <1>17 DEF Next, Turn

(***************************************************************************)
(* Edge triggering loses nothing, for any number of connections and        *)
(* whatever the network, the server and the scripts do: a socket that is   *)
(* ready for its interest is on the readiness list, or its event is being  *)
(* handled (eventloop.rs, apply, connect_slot and the delay arms).         *)
(***************************************************************************)
THEOREM WakeupsKept == Spec => []NoLostWakeup
<1>1. Init => WakeInv
  <2> SUFFICES ASSUME Init, NEW s \in Slots PROVE Awake(s) /\ batch[s] = {}
    BY DEF WakeInv
  <2>1. sock[s] = NewSocket /\ batch[s] = {}
    BY DEF Init
  <2>2. Ready(NewSocket) = {}
    BY DEF Ready, NewSocket
  <2> QED
    BY <2>1, <2>2 DEF Awake
<1>2. WakeInv => NoLostWakeup
  BY DEF WakeInv, NoLostWakeup, Awake
<1> QED
  BY <1>1, <1>2, LoopTypeCorrect, WakeInductive, PTL DEF Spec

(***************************************************************************)
(* A thread that a script stopped never polls again (eventloop.rs, the     *)
(* end of the loop).                                                       *)
(***************************************************************************)
THEOREM StopIsFinal == Spec => []StopEndsTurn
<1>1. Init => StopEndsTurn
  BY DEF Init, StopEndsTurn
<1>2. StopEndsTurn /\ [Next]_vars => StopEndsTurn'
  <2> SUFFICES ASSUME StopEndsTurn, [Next]_vars PROVE StopEndsTurn'
    OBVIOUS
  <2>1. CASE Poll \/ EventsDone \/ PollFails \/ Stop \/ UNCHANGED vars
    BY <2>1 DEF Poll, EventsDone, PollFails, Stop, vars, StopEndsTurn
  <2>2. CASE Tick \/ NoTick
    BY <2>2 DEF Tick, NoTick, StopEndsTurn
  <2>3. ASSUME NEW s \in Slots,
               \/ ConnectEvent(s) \/ ReadBytes(s) \/ ReadEnd(s) \/ ReadFails(s) \/ ReadBlocks(s)
               \/ WriteDelayed(s) \/ WriteFatal(s) \/ WriteBytes(s) \/ WriteFails(s)
        PROVE  StopEndsTurn'
    <3>1. at = "events"
      BY <2>3 DEF ConnectEvent, ReadBytes, ReadEnd, ReadFails, ReadBlocks,
                  WriteDelayed, WriteFatal, WriteBytes, WriteFails, Handles
    <3>2. at' \in {"events", "exit"}
      BY <2>3, <3>1, Zenon DEF ConnectEvent, ReadBytes, ReadEnd, ReadFails, ReadBlocks,
                  WriteDelayed, WriteFatal, WriteBytes, WriteFails, Responses, Fatal
    <3> QED
      BY <3>2 DEF StopEndsTurn
  <2>4. ASSUME NEW s \in Slots, Server(s) PROVE StopEndsTurn'
    <3>1. UNCHANGED <<at, stopped>>
      BY <2>4, Zenon DEF Server, AcceptConnect, RefuseConnect, Receive, AnswerPart, Answer,
                  AnswerBody, EndBody, AnswerInterim, AnswerJunk, Hangup, Reset, Raise
    <3> QED
      BY <3>1 DEF StopEndsTurn
  <2>5. ASSUME NEW s \in Slots, NEW whose, FireDelay(s, whose) PROVE StopEndsTurn'
    BY <2>5 DEF FireDelay, StopEndsTurn
  <2> QED
    BY <2>1, <2>2, <2>3, <2>4, <2>5, Zenon DEF Next, Turn
<1> QED
  BY <1>1, <1>2, PTL DEF Spec

-----------------------------------------------------------------------------
(* Arithmetic modulo the width of a counter. *)

LEMMA DivMod ==
  ASSUME NEW m \in Nat \ {0}, NEW a \in Int
  PROVE  a \div m \in Int /\ a % m = a - m * (a \div m)
  BY SMTT(20)

LEMMA ModUnique ==
  ASSUME NEW m \in Nat \ {0}, NEW a \in Int, NEW q \in Int, NEW r \in 0 .. m - 1,
         a = m * q + r
  PROVE  a % m = r
  BY SMTT(20)

\* A term may be reduced before it is added.
LEMMA ModAdd ==
  ASSUME NEW m \in Nat \ {0}, NEW a \in Int, NEW b \in Int
  PROVE  ((a % m) + b) % m = (a + b) % m
<1> DEFINE q == a \div m
           r == ((a % m) + b) % m
           p == ((a % m) + b) \div m
<1>1. a % m \in Int /\ r \in 0 .. m - 1
  <2>1. a % m \in 0 .. m - 1
    BY ModRange
  <2>2. a % m \in Int
    BY <2>1
  <2> QED
    BY <2>2, ModRange
<1>2. q \in Int /\ a % m = a - m * q
  BY DivMod
<1>3. p \in Int /\ r = ((a % m) + b) - m * p
  BY <1>1, DivMod
<1> HIDE DEF q, p, r
<1>4. a + b = m * (q + p) + r
  <2> DEFINE u == m * q
             v == m * p
             w == m * (q + p)
             x == a % m
  <2>1. w = u + v
    BY <1>2, <1>3
  <2>2. u \in Int /\ v \in Int /\ w \in Int /\ x \in Int /\ r \in Int
    BY <1>1, <1>2, <1>3
  <2>3. x = a - u /\ r = x + b - v
    BY <1>2, <1>3
  <2> HIDE DEF u, v, w, x
  <2>4. a + b = w + r
    BY <2>1, <2>2, <2>3
  <2> QED
    BY <2>4 DEF w
<1>5. q + p \in Int /\ a + b \in Int
  BY <1>2, <1>3
<1>6. (a + b) % m = r
  BY <1>1, <1>4, <1>5, ModUnique
<1> QED
  BY <1>6 DEF r

\* A reduced number is its own remainder.
LEMMA ModSame ==
  ASSUME NEW m \in Nat \ {0}, NEW a \in 0 .. m - 1
  PROVE  a % m = a
  BY ModUnique, a = m * 0 + a, 0 \in Int, a \in Int

\* Counting n more on both sides of an equation keeps it.
LEMMA ModCount ==
  ASSUME NEW m \in Nat \ {0}, NEW x \in Int, NEW y \in Int, NEW z \in Int, NEW n \in Int,
         (x + y) % m = z
  PROVE  (x + ((y + n) % m)) % m = (z + n) % m
<1> DEFINE r == (y + n) % m
<1>1. r \in Int
  <2>1. r \in 0 .. m - 1
    BY ModRange
  <2> HIDE DEF r
  <2> QED
    BY <2>1
<1>2. (r + x) % m = (y + n + x) % m
  <2>1. y + n \in Int
    OBVIOUS
  <2> QED
    BY <2>1, ModAdd
<1>3. (z + n) % m = (x + y + n) % m
  <2>1. x + y \in Int
    OBVIOUS
  <2> QED
    BY <2>1, ModAdd
<1> HIDE DEF r
<1>4. x + r = r + x /\ y + n + x = x + y + n
  BY <1>1
<1>5. (x + r) % m = (z + n) % m
  BY <1>2, <1>3, <1>4, Zenon
<1> QED
  BY <1>5 DEF r

\* The same for the width of the counters.
LEMMA CountOn ==
  ASSUME NEW x \in Int, NEW y \in Int, NEW z \in Int, NEW n \in Int,
         (x + y) % CounterMod = z
  PROVE  (x + ((y + n) % CounterMod)) % CounterMod = (z + n) % CounterMod
<1>1. CounterMod \in Nat \ {0}
  BY LoopOK
<1> QED
  BY <1>1, ModCount

-----------------------------------------------------------------------------
(* What each step does to the counters and to the connections there are. *)

\* The counters after n messages, errors of them bad and the last one late or not.
Tally(n, errors, late) ==
    Add(Add(Add(Add(counters, "complete", n), "requests", n), "status", errors), "timeout", late)

\* The same slots hold a connection before and after.
SameLive == \A s \in Slots : conn'[s].at = "none" <=> conn[s].at = "none"

\* One slot gives up its connection, whatever comes after it.
Replaces(s) ==
    \E cs, reason :
       /\ conn[s].at # "none"
       /\ Reconnect(s, cs, reason)
       /\ \/ cs = counters /\ reason \in {"connect", "read", "write"}
          \/ reason = "polite" /\ \E n, errors \in Nat, late \in {0, 1} : cs = Tally(n, errors, late)

Counts == \E n, errors \in Nat, late \in {0, 1} : counters' = Tally(n, errors, late)

LEMMA SameLiveRearm ==
  ASSUME TypeOK, NEW s \in Slots, conn[s].at = "up" \/ conn[s].at = "connecting",
         NEW c, c.at # "none", conn' = [conn EXCEPT ![s] = c]
  PROVE  SameLive
<1> SUFFICES ASSUME NEW t \in Slots PROVE conn'[t].at = "none" <=> conn[t].at = "none"
  BY DEF SameLive
<1>1. CASE t = s
  <2>1. conn'[s] = c
    BY DEF TypeOK
  <2> QED
    BY <1>1, <2>1
<1>2. CASE t # s
  BY <1>2 DEF TypeOK
<1> QED
  BY <1>1, <1>2

\* No handler turns a connection into none.
LEMMA HandlersKeepAt ==
  ASSUME NEW c \in Connections, c.at = "up"
  PROVE  /\ DelayFired(c).at = "up"
         /\ \A n : Wrote(StartBurst(c), n).at = "up"
         /\ \A bytes : Fed(c, bytes).at = "up"
         /\ \A n : Answered(c, n).at = "up"
<1>1. DelayFired(c).at = "up"
  BY DEF DelayFired, Connections
<1>2. StartBurst(c).at = "up" /\ StartBurst(c) \in Connections
  BY HandlerTypes DEF StartBurst, Connections
<1>3. \A n : Wrote(StartBurst(c), n).at = "up"
  BY <1>2 DEF Wrote, Connections
<1>4. \A bytes : Fed(c, bytes).at = "up"
  BY DEF Fed, Connections
<1>5. \A n : Answered(c, n).at = "up"
  BY DEF Answered, Connections
<1> QED
  BY <1>1, <1>3, <1>4, <1>5

LEMMA ResponsesCount ==
  ASSUME TypeOK, NEW s \in Slots, conn[s].at = "up", NEW c \in Connections, c.at = "up",
         NEW bytes \in Seq(Tokens), NEW done \in SUBSET (1 .. Len(bytes)), NEW k, NEW full,
         Responses(s, c, bytes, done, k, full)
  PROVE  \/ UNCHANGED counters /\ SameLive
         \/ Counts /\ SameLive
         \/ Replaces(s)
<1> DEFINE counted == Counted(c, bytes, done)
           n == Cardinality(counted)
           errors == Cardinality({i \in counted : bytes[i] = "error"})
           after == Answered(c, n)
<1>1. n \in Nat /\ errors \in Nat
  <2>1. {i \in counted : bytes[i] = "error"} \in SUBSET counted
    OBVIOUS
  <2>2. counted \in SUBSET counted
    OBVIOUS
  <2> HIDE DEF counted
  <2> QED
    BY <2>1, <2>2, CountedIsFinite DEF counted
<1>2. after.at # "none"
  <2> HIDE DEF n
  <2>1. after.at = "up"
    BY HandlersKeepAt
  <2> QED
    BY <2>1
<1>3. CASE Fatal
  BY <1>3 DEF Fatal, SameLive
<1>4. CASE ~Fatal
  <2> HIDE DEF n, errors, after
  <2>1. PICK late \in {0, 1} :
             \/ Reconnect(s, Tally(n, errors, late), "polite")
             \/ counters' = Tally(n, errors, late) /\ conn' = [conn EXCEPT ![s] = after]
    BY <1>4, Zenon DEF Responses, Rearm, Tally, n, errors, after
  <2>2. CASE Reconnect(s, Tally(n, errors, late), "polite")
    BY <1>1, <2>2, Zenon DEF Replaces
  <2>3. CASE counters' = Tally(n, errors, late) /\ conn' = [conn EXCEPT ![s] = after]
    <3>1. SameLive
      BY <1>2, <2>3, SameLiveRearm
    <3>2. Counts
      BY <1>1, <2>3, Zenon DEF Counts
    <3> QED
      BY <3>1, <3>2
  <2> QED
    BY <2>1, <2>2, <2>3
<1> QED
  BY <1>3, <1>4

LEMMA CounterSteps ==
  ASSUME TypeOK, [Next]_vars
  PROVE  \/ UNCHANGED counters /\ SameLive
         \/ Tick
         \/ Counts /\ SameLive
         \/ \E s \in Slots : Replaces(s)
<1> DEFINE Goal == \/ UNCHANGED counters /\ SameLive
                   \/ Tick
                   \/ Counts /\ SameLive
                   \/ \E s \in Slots : Replaces(s)
<1>1. CASE UNCHANGED <<conn, counters>>
  BY <1>1 DEF SameLive
<1>2. CASE Tick
  BY <1>2
<1>3. ASSUME NEW s \in Slots, ConnectEvent(s) PROVE Goal
  <2>1. conn[s].at = "connecting"
    BY <1>3 DEF ConnectEvent
  <2>2. CASE Reconnect(s, counters, "connect")
    BY <2>1, <2>2, Zenon DEF Replaces
  <2>3. CASE conn' = [conn EXCEPT ![s] = Connected(conn[s])] /\ UNCHANGED counters
    <3>1. Connected(conn[s]).at # "none"
      BY DEF Connected, TypeOK, Connections
    <3> QED
      BY <2>1, <2>3, <3>1, SameLiveRearm
  <2> QED
    BY <1>3, <2>2, <2>3 DEF ConnectEvent, Rearm
<1>4. ASSUME NEW s \in Slots, ReadBytes(s) PROVE Goal
  <2> DEFINE q == sock[s].inq
             n == IF Len(q) < RecvTokens THEN Len(q) ELSE RecvTokens
             bytes == SubSeq(q, 1, n)
             k == [sock[s] EXCEPT !.inq = SubSeq(q, n + 1, Len(q))]
  <2>1. conn[s].at = "up" /\ conn[s] \in Connections /\ q \in Seq(Tokens)
    BY <1>4 DEF ReadBytes, Handles, TypeOK, Sockets
  <2>2. CASE Reconnect(s, counters, "read")
    BY <2>1, <2>2, Zenon DEF Replaces
  <2>3. CASE Responses(s, Fed(conn[s], bytes), bytes, Completed(conn[s], bytes), k, n = RecvTokens)
    <3>1. n \in 0 .. Len(q)
      BY <2>1, LoopOK
    <3>2. bytes \in Seq(Tokens)
      BY <2>1, <3>1, SplitType
    <3>3. Fed(conn[s], bytes) \in Connections /\ Fed(conn[s], bytes).at = "up"
      BY <2>1, <3>2, FedType, HandlersKeepAt
    <3>4. Completed(conn[s], bytes) \in SUBSET (1 .. Len(bytes))
      BY DEF Completed
    <3> HIDE DEF bytes, k, n
    <3> QED
      BY <2>1, <2>3, <3>2, <3>3, <3>4, ResponsesCount
  <2> QED
    BY <1>4, <2>2, <2>3, Zenon DEF ReadBytes
<1>5. ASSUME NEW s \in Slots, ReadEnd(s) PROVE Goal
  <2>1. conn[s].at = "up" /\ conn[s] \in Connections
    BY <1>5 DEF ReadEnd, Handles, TypeOK
  <2>2. CASE Reconnect(s, counters, "read")
    BY <2>1, <2>2, Zenon DEF Replaces
  <2>3. CASE Responses(s, conn[s], <<"close">>, {1}, sock[s], FALSE)
    <3>1. <<"close">> \in Seq(Tokens) /\ Len(<<"close">>) = 1
      BY DEF Tokens, Finals
    <3>2. {1} \in SUBSET (1 .. Len(<<"close">>))
      BY <3>1
    <3> QED
      BY <2>1, <2>3, <3>1, <3>2, ResponsesCount
  <2> QED
    BY <1>5, <2>2, <2>3 DEF ReadEnd
<1>6. ASSUME NEW s \in Slots, ReadFails(s) PROVE Goal
  BY <1>6, Zenon DEF ReadFails, Handles, Replaces
<1>7. ASSUME NEW s \in Slots, WriteFails(s) PROVE Goal
  BY <1>7, Zenon DEF WriteFails, Handles, Replaces
<1>8. ASSUME NEW s \in Slots, ReadBlocks(s) \/ WriteDelayed(s) PROVE Goal
  <2>1. conn[s].at = "up" /\ conn' = [conn EXCEPT ![s] = conn[s]] /\ UNCHANGED counters
    BY <1>8 DEF ReadBlocks, WriteDelayed, Handles, Rearm
  <2> QED
    BY <2>1, SameLiveRearm
<1>9. ASSUME NEW s \in Slots, WriteBytes(s) PROVE Goal
  <2>1. /\ conn[s].at = "up" /\ conn[s] \in Connections /\ UNCHANGED counters
        /\ \E n : conn' = [conn EXCEPT ![s] = Wrote(StartBurst(conn[s]), n)]
    <3>1. conn[s].at = "up" /\ conn[s] \in Connections /\ UNCHANGED counters
      BY <1>9 DEF WriteBytes, Handles, TypeOK
    <3> QED
      BY <1>9, <3>1, Zenon DEF WriteBytes, Rearm
  <2>2. PICK n : conn' = [conn EXCEPT ![s] = Wrote(StartBurst(conn[s]), n)]
    BY <2>1
  <2>3. Wrote(StartBurst(conn[s]), n).at # "none"
    BY <2>1, HandlersKeepAt
  <2> QED
    BY <2>1, <2>2, <2>3, SameLiveRearm
<1>10. ASSUME NEW s \in Slots, NEW whose, FireDelay(s, whose) PROVE Goal
  <2>1. UNCHANGED counters
    BY <1>10 DEF FireDelay
  <2>2. CASE UNCHANGED conn
    BY <2>1, <2>2, <1>1
  <2>3. CASE conn[s].at = "up" /\ conn' = [conn EXCEPT ![s] = DelayFired(conn[s])]
    <3>1. conn[s] \in Connections
      BY DEF TypeOK
    <3>2. DelayFired(conn[s]).at # "none"
      BY <2>3, <3>1, HandlersKeepAt
    <3> QED
      BY <2>1, <2>3, <3>2, SameLiveRearm
  <2> QED
    BY <1>10, <2>2, <2>3 DEF FireDelay, Rearm
<1>11. ASSUME NEW s \in Slots, Server(s) PROVE UNCHANGED <<conn, counters>>
  BY <1>11, Zenon DEF Server, AcceptConnect, RefuseConnect, Receive, AnswerPart, Answer,
     AnswerBody, EndBody, AnswerInterim, AnswerJunk, Hangup, Reset, Raise
<1>12. CASE \/ Poll \/ PollFails \/ EventsDone \/ NoTick \/ Stop \/ UNCHANGED vars
            \/ \E s \in Slots : WriteFatal(s)
  <2>1. UNCHANGED <<conn, counters>>
    BY <1>12 DEF Poll, PollFails, EventsDone, NoTick, Stop, vars, WriteFatal, Fatal
  <2> QED
    BY <1>1, <2>1
<1> QED
  BY <1>1, <1>2, <1>3, <1>4, <1>5, <1>6, <1>7, <1>8, <1>9, <1>10, <1>11, <1>12
     DEF Next, Turn

-----------------------------------------------------------------------------
(* The rate samples. *)

LEMMA AddFields ==
  ASSUME NEW c \in Tallies, NEW name \in CounterNames, NEW n \in Int, NEW f \in CounterNames
  PROVE  Add(c, name, n)[f] = IF f = name THEN (c[name] + n) % CounterMod ELSE c[f]
  BY DEF Add, Tallies

LEMMA TallyIsInt ==
  ASSUME NEW c \in Tallies, NEW f \in CounterNames
  PROVE  c[f] \in Int /\ c[f] \in 0 .. CounterMod - 1
  BY LoopOK DEF Tallies

Rated(c) == (c.sampled + c.unsampled + c.requests) % CounterMod = c.complete

\* What Rated speaks of.
RateNames == {"sampled", "unsampled", "requests", "complete"}

LEMMA RatedElsewhere ==
  ASSUME NEW c \in Tallies, Rated(c), NEW n \in Int,
         NEW name \in CounterNames \ RateNames
  PROVE  Rated(Add(c, name, n))
<1>1. RateNames \subseteq CounterNames
  BY DEF CounterNames, RateNames
<1>2. \A f \in RateNames : Add(c, name, n)[f] = c[f]
  BY <1>1, AddFields
<1> QED
  BY <1>2 DEF Rated, RateNames

\* n messages are counted in the window and in the total.
LEMMA RatedTally ==
  ASSUME TypeOK, Rated(counters), NEW n \in Nat, NEW errors \in Nat, NEW late \in {0, 1}
  PROVE  Rated(Tally(n, errors, late))
<1> DEFINE c1 == Add(counters, "complete", n)
           c2 == Add(c1, "requests", n)
           c3 == Add(c2, "status", errors)
<1>1. counters \in Tallies
  BY DEF TypeOK, Tallies
<1>2. /\ {"complete", "requests", "status", "timeout", "sampled", "unsampled"} \subseteq CounterNames
      /\ {"status", "timeout"} \cap RateNames = {}
  BY DEF CounterNames, RateNames
<1>3. c1 \in Tallies
  BY <1>1, <1>2, AddType
<1>4. c2 \in Tallies
  BY <1>2, <1>3, AddType
<1>5. c3 \in Tallies
  BY <1>2, <1>4, AddType
<1>6. /\ c2["sampled"] = counters["sampled"] /\ c2["unsampled"] = counters["unsampled"]
      /\ c2["requests"] = (counters["requests"] + n) % CounterMod
      /\ c2["complete"] = (counters["complete"] + n) % CounterMod
  <2>1. /\ c1["sampled"] = counters["sampled"] /\ c1["unsampled"] = counters["unsampled"]
        /\ c1["requests"] = counters["requests"]
        /\ c1["complete"] = (counters["complete"] + n) % CounterMod
    BY <1>1, <1>2, AddFields
  <2> HIDE DEF c1
  <2> QED
    BY <1>2, <1>3, <2>1, AddFields
<1>7. Rated(c2)
  <2> DEFINE over == counters["sampled"] + counters["unsampled"]
  <2>1. /\ over \in Int /\ counters["requests"] \in Int
        /\ counters["complete"] \in Int
    BY <1>1, <1>2, TallyIsInt
  <2>2. (over + counters["requests"]) % CounterMod = counters["complete"]
    BY DEF Rated
  <2> HIDE DEF over
  <2>4. (over + ((counters["requests"] + n) % CounterMod)) % CounterMod
          = (counters["complete"] + n) % CounterMod
    BY <2>1, <2>2, CountOn, n \in Int
  <2>3. (counters["sampled"] + counters["unsampled"]
           + ((counters["requests"] + n) % CounterMod)) % CounterMod
          = (counters["complete"] + n) % CounterMod
    BY <2>4 DEF over
  <2> HIDE DEF c2
  <2> QED
    BY <1>6, <2>3 DEF Rated
<1> HIDE DEF c2
<1>8. Rated(c3)
  BY <1>2, <1>4, <1>7, RatedElsewhere
<1> HIDE DEF c3
<1>9. Rated(Add(c3, "timeout", late))
  BY <1>2, <1>5, <1>8, RatedElsewhere
<1> QED
  BY <1>9 DEF Tally, c3, c2

(***************************************************************************)
(* For any width of the counters every completed response is in exactly    *)
(* one rate window: one whose sample was recorded, one whose sample the    *)
(* histogram refused, or the open one (record_rate, and responses of       *)
(* connection.rs).                                                         *)
(***************************************************************************)
THEOREM RatesHold == Spec => []RatesAddUp
<1>1. Init => RatesAddUp
  <2> SUFFICES ASSUME Init PROVE RatesAddUp
    OBVIOUS
  <2>1. /\ counters.sampled = 0 /\ counters.unsampled = 0
        /\ counters.requests = 0 /\ counters.complete = 0
    BY DEF Init, CounterNames
  <2>2. 0 % CounterMod = 0
    BY LoopOK, ModSame
  <2> QED
    BY <2>1, <2>2 DEF RatesAddUp
<1>2. TypeOK /\ TypeOK' /\ RatesAddUp /\ [Next]_vars => RatesAddUp'
  <2> SUFFICES ASSUME TypeOK, Rated(counters), [Next]_vars PROVE Rated(counters')
    BY DEF RatesAddUp, Rated
  <2>1. counters \in Tallies
    BY DEF TypeOK, Tallies
  <2>2. CASE UNCHANGED counters
    BY <2>2 DEF Rated
  <2>3. CASE Tick
    <3>1. PICK kind \in {"sampled", "unsampled"} :
                 counters' = [Add(counters, kind, counters["requests"]) EXCEPT !["requests"] = 0]
      BY <2>3 DEF Tick, RecordRate
    <3> DEFINE other == IF kind = "sampled" THEN "unsampled" ELSE "sampled"
               r == counters["requests"]
               sum == (counters[kind] + r) % CounterMod
    <3>2. /\ {"complete", "requests", kind, other} \subseteq CounterNames
          /\ other # kind /\ {kind, other} = {"sampled", "unsampled"}
      BY DEF CounterNames
    <3>3. r \in Int /\ counters[kind] \in Int /\ counters[other] \in Int
      BY <2>1, <3>2, TallyIsInt
    <3>4. Add(counters, kind, r) \in Tallies
      BY <2>1, <3>2, <3>3, AddType
    <3>5. /\ counters'[kind] = sum
          /\ counters'[other] = counters[other]
          /\ counters'["requests"] = 0
          /\ counters'["complete"] = counters["complete"]
      BY <2>1, <3>1, <3>2, <3>3, <3>4, AddFields DEF Tallies
    <3>6. counters["sampled"] + counters["unsampled"] = counters[other] + counters[kind]
      BY <3>2, <3>3
    <3>7. counters'["sampled"] + counters'["unsampled"] + 0 = counters[other] + sum
      <4>1. sum \in Int
        <5>1. counters[kind] + r \in Int /\ CounterMod \in Nat \ {0}
          BY <3>3, LoopOK
        <5> QED
          BY <5>1, ModRange
      <4> HIDE DEF sum
      <4> QED
        BY <3>2, <3>3, <3>5, <4>1
    <3>8. (counters[other] + sum) % CounterMod = (counters[other] + (counters[kind] + r)) % CounterMod
      <4> DEFINE x == counters[kind] + r
                 y == counters[other]
      <4>1. x \in Int /\ y \in Int /\ CounterMod \in Nat \ {0}
        BY <3>3, LoopOK
      <4> HIDE DEF x, y
      <4>2. ((x % CounterMod) + y) % CounterMod = (x + y) % CounterMod
        BY <4>1, ModAdd
      <4>3. (x % CounterMod) + y = y + (x % CounterMod) /\ x + y = y + x
        <5>1. x % CounterMod \in Int
          BY <4>1, ModRange
        <5> QED
          BY <4>1, <5>1
      <4> QED
        BY <4>2, <4>3 DEF x, y
    <3> HIDE DEF sum
    <3>9. counters[other] + (counters[kind] + r) = counters["sampled"] + counters["unsampled"] + r
      BY <3>3, <3>6, <3>2
    <3> QED
      BY <3>5, <3>7, <3>8, <3>9 DEF Rated
  <2>4. CASE Counts
    BY <2>4, RatedTally DEF Counts
  <2>5. ASSUME NEW s \in Slots, Replaces(s) PROVE Rated(counters')
    <3>1. PICK cs, reason :
             /\ Reconnect(s, cs, reason)
             /\ reason \in {"connect", "read", "write", "polite"}
             /\ \/ cs = counters
                \/ \E n, errors \in Nat, late \in {0, 1} : cs = Tally(n, errors, late)
      BY <2>5 DEF Replaces
    <3>2. cs \in Tallies /\ Rated(cs)
      BY <2>1, <3>1, RatedTally, ResponsesCountersType DEF Tally
    <3>3. {"connect", "read", "write", "polite", "attempts"} \subseteq CounterNames \ RateNames
      BY DEF CounterNames, RateNames
    <3> DEFINE c1 == Add(cs, reason, 1)
               c2 == Add(c1, "attempts", 1)
    <3>4. c1 \in Tallies /\ Rated(c1)
      BY <3>1, <3>2, <3>3, AddType, RatedElsewhere
    <3> HIDE DEF c1
    <3>5. c2 \in Tallies /\ Rated(c2)
      BY <3>3, <3>4, AddType, RatedElsewhere
    <3> HIDE DEF c2
    <3>6. Rated(Add(c2, "connect", 1))
      BY <3>3, <3>5, RatedElsewhere
    <3>7. counters' = c2 \/ counters' = Add(c2, "connect", 1)
      BY <3>1, Zenon DEF Reconnect, c1, c2
    <3> QED
      BY <3>5, <3>6, <3>7
  <2> QED
    BY <2>2, <2>3, <2>4, <2>5, CounterSteps
<1> QED
  BY <1>1, <1>2, LoopTypeCorrect, PTL DEF Spec

-----------------------------------------------------------------------------
(* The sockets. *)

LiveSet == {s \in Slots : conn[s].at # "none"}

\* The sockets that are open or closed for a reason, n of them open.
Traced(c, n) == n + c["connect"] + c["read"] + c["write"] + c["polite"]

\* The sockets asked for are the ones that are traced.
Balanced(c, n) == Traced(c, n) % CounterMod = c["attempts"]

Reasons == {"connect", "read", "write", "polite"}

LEMMA TracedIsInt ==
  ASSUME NEW c \in Tallies, NEW n \in Int
  PROVE  Traced(c, n) \in Int
<1>1. Reasons \subseteq CounterNames
  BY DEF Reasons, CounterNames
<1>2. /\ c["connect"] \in Int /\ c["read"] \in Int
      /\ c["write"] \in Int /\ c["polite"] \in Int
  BY <1>1, TallyIsInt DEF Reasons
<1> QED
  BY <1>2 DEF Traced

LEMMA LiveIsFinite == IsFiniteSet(LiveSet) /\ Cardinality(LiveSet) \in Nat
<1>1. LiveSet \in SUBSET Slots
  BY DEF LiveSet
<1>2. IsFiniteSet(LiveSet)
  BY <1>1, FS_Subset, LoopOK
<1> QED
  BY <1>2, FS_CardinalityType

LEMMA BalancedElsewhere ==
  ASSUME NEW c \in Tallies, NEW n \in Int, Balanced(c, n), NEW k \in Int,
         NEW name \in CounterNames \ (Reasons \union {"attempts"})
  PROVE  Balanced(Add(c, name, k), n)
<1>1. Reasons \union {"attempts"} \subseteq CounterNames
  BY DEF Reasons, CounterNames
<1> QED
  BY <1>1, AddFields DEF Balanced, Traced, Reasons

\* One more socket in an error counter is one more that is traced.
LEMMA TracedOnce ==
  ASSUME NEW c \in Tallies, NEW n \in Int, NEW name \in Reasons
  PROVE  /\ Traced(Add(c, name, 1), n) % CounterMod = (Traced(c, n) + 1) % CounterMod
         /\ Add(c, name, 1)["attempts"] = c["attempts"]
<1> DEFINE d == Add(c, name, 1)
           v == c[name] + 1
           rest == Traced(c, n) - c[name]
<1>1. Reasons \union {"attempts"} \subseteq CounterNames
  BY DEF Reasons, CounterNames
<1>2. v \in Int /\ rest \in Int /\ Traced(c, n) + 1 = v + rest /\ c[name] \in Int
  <2>1. c[name] \in Int
    BY <1>1, TallyIsInt
  <2> QED
    BY <2>1, TracedIsInt
<1>3. CounterMod \in Nat \ {0}
  BY LoopOK
<1>4. \A f \in Reasons \union {"attempts"} :
         d[f] = IF f = name THEN v % CounterMod ELSE c[f]
  BY <1>1, AddFields
<1>5. \A f \in Reasons : c[f] \in Int
  BY <1>1, TallyIsInt
<1>6. v % CounterMod \in Int
  <2>1. v % CounterMod \in 0 .. CounterMod - 1
    BY <1>2, <1>3, ModRange
  <2> QED
    BY <2>1, <1>3
<1>7. Traced(d, n) = (v % CounterMod) + rest
  <2> DEFINE w == v % CounterMod
  <2>1. \A f \in Reasons : d[f] = IF f = name THEN w ELSE c[f]
    BY <1>4
  <2> DEFINE p == c["connect"]
             q == c["read"]
             r == c["write"]
             u == c["polite"]
  <2>2. w \in Int /\ p \in Int /\ q \in Int /\ r \in Int /\ u \in Int
    BY <1>5, <1>6 DEF Reasons
  <2>3. /\ d["connect"] = IF name = "connect" THEN w ELSE p
        /\ d["read"] = IF name = "read" THEN w ELSE q
        /\ d["write"] = IF name = "write" THEN w ELSE r
        /\ d["polite"] = IF name = "polite" THEN w ELSE u
    <3> HIDE DEF d, w
    <3> QED
      BY <2>1 DEF Reasons
  <2>4. /\ Traced(d, n) = n + d["connect"] + d["read"] + d["write"] + d["polite"]
        /\ Traced(c, n) = n + p + q + r + u
    <3> HIDE DEF d
    <3> QED
      BY Zenon DEF Traced
  <2>5. rest = (n + p + q + r + u) - c[name]
    BY <2>4, Zenon
  <2>6. \/ name = "connect" /\ c[name] = p
        \/ name = "read" /\ c[name] = q
        \/ name = "write" /\ c[name] = r
        \/ name = "polite" /\ c[name] = u
    BY DEF Reasons
  <2> HIDE DEF d, w, p, q, r, u, rest
  <2>7. Traced(d, n) = w + rest
    BY <2>2, <2>3, <2>4, <2>5, <2>6
  <2> QED
    BY <2>7 DEF w
<1>8. d["attempts"] = c["attempts"]
  BY <1>4 DEF Reasons
<1> HIDE DEF d, v, rest
<1>9. Traced(d, n) % CounterMod = (v + rest) % CounterMod
  BY <1>2, <1>3, <1>7, ModAdd
<1> QED
  BY <1>2, <1>8, <1>9 DEF d

\* A socket replaced by the next attempt.
LEMMA BalancedReplace ==
  ASSUME NEW c \in Tallies, NEW n \in Int, Balanced(c, n), NEW reason \in Reasons
  PROVE  /\ Balanced(Add(Add(c, reason, 1), "attempts", 1), n)
         /\ Balanced(Add(Add(Add(c, reason, 1), "attempts", 1), "connect", 1), n - 1)
<1> DEFINE c1 == Add(c, reason, 1)
           c2 == Add(c1, "attempts", 1)
           c3 == Add(c2, "connect", 1)
<1>1. Reasons \union {"attempts"} \subseteq CounterNames /\ "connect" \in Reasons
  BY DEF Reasons, CounterNames
<1>2. c1 \in Tallies
  BY <1>1, AddType
<1>3. c2 \in Tallies
  <2>1. "attempts" \in CounterNames /\ 1 \in Int
    BY <1>1
  <2> HIDE DEF c1
  <2> QED
    BY <1>2, <2>1, AddType
<1>4. /\ Traced(c1, n) % CounterMod = (Traced(c, n) + 1) % CounterMod
      /\ c1["attempts"] = c["attempts"]
  BY TracedOnce
<1> HIDE DEF c1
<1>5. /\ \A k : Traced(c2, k) = Traced(c1, k)
      /\ c2["attempts"] = (c["attempts"] + 1) % CounterMod
  BY <1>1, <1>2, <1>4, AddFields DEF Traced, Reasons
<1> HIDE DEF c2
<1>6. (Traced(c, n) + 1) % CounterMod = (c["attempts"] + 1) % CounterMod
  <2>1. Traced(c, n) \in Int /\ 1 \in Int /\ CounterMod \in Nat \ {0}
    BY TracedIsInt, LoopOK
  <2>2. ((Traced(c, n) % CounterMod) + 1) % CounterMod = (Traced(c, n) + 1) % CounterMod
    BY <2>1, ModAdd
  <2> QED
    BY <2>2 DEF Balanced
<1>7. Balanced(c2, n)
  BY <1>4, <1>5, <1>6 DEF Balanced
<1>8. /\ Traced(c3, n - 1) % CounterMod = (Traced(c2, n - 1) + 1) % CounterMod
      /\ c3["attempts"] = c2["attempts"]
  BY <1>1, <1>3, TracedOnce
<1>9. Traced(c2, n - 1) + 1 = Traced(c2, n)
  <2>1. \A f \in Reasons : c2[f] \in Int
    BY <1>1, <1>3, TallyIsInt
  <2> QED
    BY <2>1 DEF Traced, Reasons
<1>10. Balanced(c3, n - 1)
  BY <1>7, <1>8, <1>9 DEF Balanced
<1> QED
  BY <1>7, <1>10 DEF c1, c2, c3

LEMMA TallyBalances ==
  ASSUME TypeOK, NEW c \in Int, Balanced(counters, c),
         NEW n \in Nat, NEW errors \in Nat, NEW late \in {0, 1}
  PROVE  Tally(n, errors, late) \in Tallies /\ Balanced(Tally(n, errors, late), c)
<1> DEFINE c1 == Add(counters, "complete", n)
           c2 == Add(c1, "requests", n)
           c3 == Add(c2, "status", errors)
<1>1. counters \in Tallies
  BY DEF TypeOK, Tallies
<1>2. {"complete", "requests", "status", "timeout"}
        \subseteq CounterNames \ (Reasons \union {"attempts"})
  BY DEF CounterNames, Reasons
<1>3. c1 \in Tallies /\ Balanced(c1, c)
  BY <1>1, <1>2, AddType, BalancedElsewhere
<1> HIDE DEF c1
<1>4. c2 \in Tallies /\ Balanced(c2, c)
  BY <1>2, <1>3, AddType, BalancedElsewhere
<1> HIDE DEF c2
<1>5. c3 \in Tallies /\ Balanced(c3, c)
  BY <1>2, <1>4, AddType, BalancedElsewhere
<1> HIDE DEF c3
<1>6. Add(c3, "timeout", late) \in Tallies /\ Balanced(Add(c3, "timeout", late), c)
  BY <1>2, <1>5, AddType, BalancedElsewhere
<1> QED
  BY <1>6, Zenon DEF Tally, c1, c2, c3

\* What a reconnect does to the set of live slots, whichever way it ends.
LEMMA ReconnectLive ==
  ASSUME TypeOK, NEW s \in Slots, NEW cs, NEW reason,
         conn[s].at # "none", Reconnect(s, cs, reason)
  PROVE  \/ /\ LiveSet' = LiveSet
            /\ counters' = Add(Add(cs, reason, 1), "attempts", 1)
         \/ /\ LiveSet' = LiveSet \ {s}
            /\ counters' = Add(Add(Add(cs, reason, 1), "attempts", 1), "connect", 1)
<1>1. CASE /\ conn' = [conn EXCEPT ![s] = NewConnection(TRUE)]
           /\ counters' = Add(Add(cs, reason, 1), "attempts", 1)
  <2>1. NewConnection(TRUE).at # "none"
    BY DEF NewConnection
  <2>2. \A t \in Slots : conn'[t].at = "none" <=> conn[t].at = "none"
    BY <1>1, <2>1 DEF TypeOK
  <2> QED
    BY <1>1, <2>2 DEF LiveSet
<1>2. CASE /\ conn' = [conn EXCEPT ![s] = NoConnection]
           /\ counters' = Add(Add(Add(cs, reason, 1), "attempts", 1), "connect", 1)
  <2>1. NoConnection.at = "none"
    BY DEF NoConnection
  <2>2. \A t \in Slots : conn'[t].at = "none" <=> (t = s \/ conn[t].at = "none")
    BY <1>2, <2>1 DEF TypeOK
  <2> QED
    BY <1>2, <2>2 DEF LiveSet
<1> QED
  BY <1>1, <1>2 DEF Reconnect

(***************************************************************************)
(* Every socket the loop asks for stays open or is counted, once, under    *)
(* the reason it was given up for: for any number of slots and any width   *)
(* of the counters (apply, connect_slot and close_slot of eventloop.rs).   *)
(***************************************************************************)
THEOREM SocketsKept == Spec => []SocketsAccounted
<1> DEFINE live == Cardinality(LiveSet)
           Inv == Balanced(counters, live)
<1>1. SocketsAccounted <=> Inv
  BY DEF SocketsAccounted, Balanced, Traced, LiveSet
<1>2. Init => Inv
  <2> SUFFICES ASSUME Init PROVE Inv
    OBVIOUS
  <2> DEFINE Absent == {s \in Slots : conn[s].at = "none"}
             k == Cardinality(Absent)
             all == Cardinality(Slots)
  <2>1. /\ counters["attempts"] = all % CounterMod
        /\ counters["connect"] = k % CounterMod
        /\ counters["read"] = 0 /\ counters["write"] = 0 /\ counters["polite"] = 0
    BY DEF Init, CounterNames
  <2>2. Slots \cap Absent = Absent /\ Slots \ Absent = LiveSet /\ Absent \in SUBSET Slots
    BY DEF LiveSet
  <2>3. live = all - k /\ all \in Int /\ k \in Int /\ live \in Int
    <3>1. live = all - k
      BY <2>2, FS_Difference, LoopOK
    <3>2. all \in Nat /\ k \in Nat /\ live \in Nat
      BY <2>2, FS_Subset, FS_CardinalityType, LiveIsFinite, LoopOK
    <3> QED
      BY <3>1, <3>2
  <2>4. CounterMod \in Nat \ {0} /\ k % CounterMod \in Int
    <3>1. CounterMod \in Nat \ {0}
      BY LoopOK
    <3>2. k % CounterMod \in 0 .. CounterMod - 1
      BY <2>3, <3>1, ModRange
    <3> QED
      BY <3>1, <3>2
  <2> HIDE DEF k, all, live
  <2>5. Traced(counters, live) = (k % CounterMod) + live
    BY <2>1, <2>3, <2>4 DEF Traced
  <2>6. ((k % CounterMod) + live) % CounterMod = (k + live) % CounterMod
    BY <2>3, <2>4, ModAdd
  <2>7. k + live = all
    BY <2>3
  <2> QED
    BY <2>1, <2>5, <2>6, <2>7 DEF Balanced
<1>3. TypeOK /\ Inv /\ [Next]_vars => Inv'
  <2> SUFFICES ASSUME TypeOK, Inv, [Next]_vars PROVE Inv'
    OBVIOUS
  <2>1. counters \in Tallies /\ live \in Int
    BY LiveIsFinite DEF TypeOK, Tallies
  <2>2. SameLive => LiveSet' = LiveSet
    BY DEF SameLive, LiveSet
  <2>3. CASE UNCHANGED counters /\ SameLive
    BY <2>2, <2>3 DEF Balanced, Traced
  <2>4. CASE Tick
    <3>6. PICK kind \in {"sampled", "unsampled"} :
                 counters' = [Add(counters, kind, counters["requests"]) EXCEPT !["requests"] = 0]
      BY <2>4 DEF Tick, RecordRate
    <3> DEFINE c1 == Add(counters, kind, counters["requests"])
    <3>1. {"requests", kind} \subseteq CounterNames \ (Reasons \union {"attempts"})
      BY DEF CounterNames, Reasons
    <3>2. counters["requests"] \in Int
      BY <2>1, <3>1, TallyIsInt
    <3>3. c1 \in Tallies /\ Balanced(c1, live)
      <4> HIDE DEF live
      <4> QED
        BY <2>1, <3>1, <3>2, AddType, BalancedElsewhere
    <3>4. LiveSet' = LiveSet /\ counters' = [c1 EXCEPT !["requests"] = 0]
      BY <2>4, <3>6 DEF Tick, LiveSet
    <3> HIDE DEF c1
    <3>5. \A f \in Reasons \union {"attempts"} : counters'[f] = c1[f]
      BY <3>1, <3>3, <3>4 DEF Tallies, Reasons, CounterNames
    <3> QED
      BY <3>3, <3>4, <3>5 DEF Balanced, Traced, Reasons
  <2>5. CASE Counts /\ SameLive
    <3>1. PICK n \in Nat, errors \in Nat, late \in {0, 1} : counters' = Tally(n, errors, late)
      BY <2>5 DEF Counts
    <3>2. Balanced(Tally(n, errors, late), live)
      <4> HIDE DEF live
      <4> QED
        BY <2>1, TallyBalances
    <3> QED
      BY <2>2, <2>5, <3>1, <3>2
  <2>6. ASSUME NEW s \in Slots, Replaces(s) PROVE Inv'
    <3>1. PICK cs, reason :
             /\ conn[s].at # "none"
             /\ Reconnect(s, cs, reason)
             /\ reason \in Reasons
             /\ \/ cs = counters
                \/ \E n, errors \in Nat, late \in {0, 1} : cs = Tally(n, errors, late)
      BY <2>6 DEF Replaces, Reasons
    <3>2. cs \in Tallies /\ Balanced(cs, live)
      <4> HIDE DEF live
      <4> QED
        BY <2>1, <3>1, TallyBalances
    <3>3. /\ Balanced(Add(Add(cs, reason, 1), "attempts", 1), live)
          /\ Balanced(Add(Add(Add(cs, reason, 1), "attempts", 1), "connect", 1), live - 1)
      <4> HIDE DEF live
      <4> QED
        BY <2>1, <3>1, <3>2, BalancedReplace
    <3>4. Cardinality(LiveSet \ {s}) = live - 1
      <4>1. s \in LiveSet
        BY <3>1 DEF LiveSet
      <4> QED
        BY <4>1, LiveIsFinite, FS_RemoveElement
    <3>5. CASE LiveSet' = LiveSet /\ counters' = Add(Add(cs, reason, 1), "attempts", 1)
      BY <3>3, <3>5
    <3>6. CASE /\ LiveSet' = LiveSet \ {s}
               /\ counters' = Add(Add(Add(cs, reason, 1), "attempts", 1), "connect", 1)
      BY <3>3, <3>4, <3>6
    <3> QED
      BY <3>1, <3>5, <3>6, ReconnectLive
  <2> QED
    BY <2>3, <2>4, <2>5, <2>6, CounterSteps
<1> QED
  BY <1>1, <1>2, <1>3, LoopTypeCorrect, PTL DEF Spec

-----------------------------------------------------------------------------
(* The delays. *)

DelayInv == \A s \in Slots : conn[s].delayed => HasDelay

\* The slot's connection is replaced, or its handler keeps or renews the delay.
KeepsDelay(s) ==
    \E c : /\ conn' = [conn EXCEPT ![s] = c]
           /\ c.delayed => conn[s].delayed \/ HasDelay
           /\ conn[s].delayed /\ HasDelay => c.delayed \/ c.at # "up"

\* What connect_slot puts into a slot.
LEMMA NewConnections ==
  ASSUME NEW c \in {NewConnection(TRUE), NoConnection}
  PROVE  /\ c.at \in {"connecting", "none"} /\ c.pending = 0 /\ c.written = 0 /\ c.until = FALSE
         /\ c.at # "none" => c.delayed = HasDelay
         /\ c.at = "none" => c.delayed = FALSE
<1>1. HasDelay \in BOOLEAN
  BY ConnectionOK
<1>2. (TRUE /\ HasDelay) = HasDelay /\ (FALSE /\ HasDelay) = FALSE
  BY <1>1
<1> DEFINE new(delayed) == [at |-> "connecting", written |-> 0, pending |-> 0,
                            delayed |-> delayed, until |-> FALSE]
<1>3. NewConnection(TRUE) = new(HasDelay)
  BY <1>2, Zenon DEF NewConnection
<1>4. NoConnection = [new(FALSE) EXCEPT !.at = "none"]
  BY <1>2, Zenon DEF NewConnection, NoConnection
<1>5. \A delayed :
         /\ new(delayed).at = "connecting" /\ new(delayed).written = 0 /\ new(delayed).pending = 0
         /\ new(delayed).delayed = delayed /\ new(delayed).until = FALSE
         /\ DOMAIN new(delayed) = {"at", "written", "pending", "delayed", "until"}
  OBVIOUS
<1> HIDE DEF new
<1>6. CASE c = new(HasDelay)
  BY <1>5, <1>6
<1>7. CASE c = [new(FALSE) EXCEPT !.at = "none"]
  BY <1>5, <1>7
<1> QED
  BY <1>3, <1>4, <1>6, <1>7

LEMMA ReconnectDelay ==
  ASSUME TypeOK, NEW s \in Slots, NEW cs, NEW reason, Reconnect(s, cs, reason)
  PROVE  KeepsDelay(s)
<1>1. PICK c \in {NewConnection(TRUE), NoConnection} : conn' = [conn EXCEPT ![s] = c]
  BY Zenon DEF Reconnect
<1>2. c.at # "up" /\ (c.delayed => HasDelay)
  BY NewConnections
<1> QED
  BY <1>1, <1>2, Zenon DEF KeepsDelay

\* What the handlers do to the delay.
LEMMA HandlersDelay ==
  ASSUME NEW c \in Connections
  PROVE  /\ Connected(c).delayed = c.delayed
         /\ \A n : Wrote(StartBurst(c), n).delayed = c.delayed
         /\ \A bytes : Fed(c, bytes).delayed = c.delayed
         /\ \A n : Answered(c, n).delayed = IF Drained(c, n) THEN HasDelay ELSE c.delayed
<1>1. Connected(c).delayed = c.delayed
  BY DEF Connected, Connections
<1>2. StartBurst(c).delayed = c.delayed /\ StartBurst(c) \in Connections
  BY HandlerTypes DEF StartBurst, Connections
<1>3. \A n : Wrote(StartBurst(c), n).delayed = c.delayed
  BY <1>2 DEF Wrote, Connections
<1>4. \A bytes : Fed(c, bytes).delayed = c.delayed
  BY DEF Fed, Connections
<1>5. \A n : Answered(c, n).delayed = IF Drained(c, n) THEN HasDelay ELSE c.delayed
  BY DEF Answered, Connections
<1> QED
  BY <1>1, <1>3, <1>4, <1>5

LEMMA ResponsesDelay ==
  ASSUME TypeOK, NEW s \in Slots, NEW c \in Connections, c.delayed = conn[s].delayed,
         NEW bytes, NEW done, NEW k, NEW full, Responses(s, c, bytes, done, k, full)
  PROVE  UNCHANGED conn \/ KeepsDelay(s)
<1> DEFINE n == Cardinality(Counted(c, bytes, done))
           after == Answered(c, n)
<1>1. CASE Fatal
  BY <1>1 DEF Fatal
<1>2. ASSUME NEW cs, Reconnect(s, cs, "polite") PROVE KeepsDelay(s)
  BY <1>2, ReconnectDelay
<1>3. CASE conn' = [conn EXCEPT ![s] = after]
  <2> HIDE DEF n
  <2>1. after.delayed = IF Drained(c, n) THEN HasDelay ELSE conn[s].delayed
    BY HandlersDelay
  <2>2. /\ after.delayed => conn[s].delayed \/ HasDelay
        /\ conn[s].delayed /\ HasDelay => after.delayed
    BY <2>1, Zenon
  <2> HIDE DEF after
  <2> QED
    BY <1>3, <2>2, Zenon DEF KeepsDelay
<1> HIDE DEF n, after
<1> QED
  BY <1>1, <1>2, <1>3, Zenon DEF Responses, Rearm, n, after

\* A delay ends with its connection, or with a deadline of its slot.
LEMMA DelaySteps ==
  ASSUME TypeOK, [Next]_vars
  PROVE  \/ UNCHANGED conn
         \/ \E s \in Slots : KeepsDelay(s)
         \/ \E s \in Slots : FireDelay(s, "own") \/ FireDelay(s, "stale")
<1> DEFINE Goal == \/ UNCHANGED conn
                   \/ \E s \in Slots : KeepsDelay(s)
                   \/ \E s \in Slots : FireDelay(s, "own") \/ FireDelay(s, "stale")
<1>1. ASSUME NEW s \in Slots, NEW c, conn' = [conn EXCEPT ![s] = c],
             c.delayed = conn[s].delayed
      PROVE  KeepsDelay(s)
  BY <1>1, Zenon DEF KeepsDelay
<1>2. ASSUME NEW s \in Slots PROVE conn[s] \in Connections
  BY DEF TypeOK
<1>3. ASSUME NEW s \in Slots, ConnectEvent(s) PROVE Goal
  <2>1. CASE Reconnect(s, counters, "connect")
    BY <2>1, ReconnectDelay
  <2>2. CASE conn' = [conn EXCEPT ![s] = Connected(conn[s])]
    BY <1>1, <1>2, <2>2, HandlersDelay, Zenon
  <2> QED
    BY <1>3, <2>1, <2>2, Zenon DEF ConnectEvent, Rearm
<1>4. ASSUME NEW s \in Slots, ReadBytes(s) PROVE Goal
  <2> DEFINE q == sock[s].inq
             n == IF Len(q) < RecvTokens THEN Len(q) ELSE RecvTokens
             bytes == SubSeq(q, 1, n)
             k == [sock[s] EXCEPT !.inq = SubSeq(q, n + 1, Len(q))]
  <2>1. CASE Reconnect(s, counters, "read")
    BY <2>1, ReconnectDelay
  <2>2. CASE Responses(s, Fed(conn[s], bytes), bytes, Completed(conn[s], bytes), k, n = RecvTokens)
    <3>1. n \in 0 .. Len(q) /\ q \in Seq(Tokens)
      <4>1. q \in Seq(Tokens)
        BY DEF TypeOK, Sockets
      <4> QED
        BY <4>1, LoopOK
    <3>2. Fed(conn[s], bytes) \in Connections /\ Fed(conn[s], bytes).delayed = conn[s].delayed
      BY <1>2, <3>1, SplitType, FedType, HandlersDelay
    <3> HIDE DEF bytes, k, n
    <3> QED
      BY <2>2, <3>2, ResponsesDelay
  <2> QED
    BY <1>4, <2>1, <2>2, Zenon DEF ReadBytes
<1>5. ASSUME NEW s \in Slots, ReadEnd(s) PROVE Goal
  <2>1. CASE Reconnect(s, counters, "read")
    BY <2>1, ReconnectDelay
  <2>2. CASE Responses(s, conn[s], <<"close">>, {1}, sock[s], FALSE)
    BY <1>2, <2>2, ResponsesDelay
  <2> QED
    BY <1>5, <2>1, <2>2, Zenon DEF ReadEnd
<1>6. ASSUME NEW s \in Slots, ReadFails(s) \/ WriteFails(s) PROVE Goal
  BY <1>6, ReconnectDelay, Zenon DEF ReadFails, WriteFails
<1>7. ASSUME NEW s \in Slots, ReadBlocks(s) \/ WriteDelayed(s) PROVE Goal
  BY <1>1, <1>7, Zenon DEF ReadBlocks, WriteDelayed, Rearm
<1>8. ASSUME NEW s \in Slots, WriteBytes(s) PROVE Goal
  <2>1. PICK n : conn' = [conn EXCEPT ![s] = Wrote(StartBurst(conn[s]), n)]
    BY <1>8, Zenon DEF WriteBytes, Rearm
  <2> QED
    BY <1>1, <1>2, <2>1, HandlersDelay, Zenon
<1>9. ASSUME NEW s \in Slots, Server(s) PROVE UNCHANGED conn
  BY <1>9, Zenon DEF Server, AcceptConnect, RefuseConnect, Receive, AnswerPart, Answer,
     AnswerBody, EndBody, AnswerInterim, AnswerJunk, Hangup, Reset, Raise
<1>10. CASE \/ Poll \/ PollFails \/ EventsDone \/ NoTick \/ Tick \/ Stop \/ UNCHANGED vars
            \/ \E s \in Slots : WriteFatal(s)
  BY <1>10 DEF Poll, PollFails, EventsDone, NoTick, Tick, Stop, vars, WriteFatal, Fatal
<1> QED
  BY <1>3, <1>4, <1>5, <1>6, <1>7, <1>8, <1>9, <1>10 DEF Next, Turn

(***************************************************************************)
(* No burst skips its delay: through every fault and reconnection, a       *)
(* connection that is to wait is woken by a deadline of its slot or not at *)
(* all (connection.rs, connected, responses and delay_fired; eventloop.rs, *)
(* the delay arms).  It need not be the deadline it asked for.             *)
(***************************************************************************)
THEOREM DelaysHeld == Spec => DelayHeld
<1>1. Init => DelayInv
  <2> SUFFICES ASSUME Init, NEW s \in Slots PROVE conn[s].delayed => HasDelay
    BY DEF DelayInv
  <2>1. conn[s] \in {NewConnection(TRUE), NoConnection}
    BY DEF Init
  <2> QED
    BY <2>1, NewConnections, Zenon
<1>2. TypeOK /\ DelayInv /\ [Next]_vars => DelayInv'
  <2> SUFFICES ASSUME TypeOK, DelayInv, [Next]_vars, NEW t \in Slots, conn'[t].delayed
               PROVE  HasDelay
    BY DEF DelayInv
  <2>1. conn[t].delayed => HasDelay
    BY DEF DelayInv
  <2>2. CASE conn'[t] = conn[t]
    BY <2>1, <2>2
  <2>3. ASSUME NEW s \in Slots, KeepsDelay(s) PROVE HasDelay
    <3>1. PICK c : /\ conn' = [conn EXCEPT ![s] = c]
                   /\ c.delayed => conn[s].delayed \/ HasDelay
                   /\ conn[s].delayed /\ HasDelay => c.delayed \/ c.at # "up"
      BY <2>3, Zenon DEF KeepsDelay
    <3>2. conn'[t] = conn[t] \/ (t = s /\ conn'[t] = c)
      BY <3>1 DEF TypeOK
    <3>3. CASE conn'[t] = conn[t]
      BY <2>1, <3>3
    <3>4. CASE t = s /\ conn'[t] = c
      BY <2>1, <3>1, <3>4
    <3> QED
      BY <3>2, <3>3, <3>4
  <2>4. ASSUME NEW s \in Slots, NEW whose, FireDelay(s, whose) PROVE HasDelay
    <3>1. conn[s] \in Connections
      BY DEF TypeOK
    <3>2. DelayFired(conn[s]).delayed = FALSE
      BY <3>1 DEF DelayFired, Connections
    <3>3. conn'[t] = conn[t] \/ (t = s /\ conn'[t] = DelayFired(conn[s]))
      BY <2>4 DEF FireDelay, Rearm, TypeOK
    <3> QED
      BY <2>2, <3>2, <3>3
  <2> QED
    BY <2>2, <2>3, <2>4, DelaySteps
<1>3. TypeOK /\ DelayInv /\ [Next]_vars =>
        [\A s \in Slots :
           conn[s].delayed /\ ~conn'[s].delayed /\ conn'[s].at = "up"
             => due'[s].own + due'[s].stale < due[s].own + due[s].stale]_vars
  <2> SUFFICES ASSUME TypeOK, DelayInv, [Next]_vars, NEW t \in Slots,
                      conn[t].delayed, ~conn'[t].delayed, conn'[t].at = "up"
               PROVE  due'[t].own + due'[t].stale < due[t].own + due[t].stale
    OBVIOUS
  <2>1. HasDelay /\ conn'[t] # conn[t]
    BY DEF DelayInv
  <2>2. ASSUME NEW s \in Slots, KeepsDelay(s) PROVE FALSE
    <3>1. PICK c : /\ conn' = [conn EXCEPT ![s] = c]
                   /\ c.delayed => conn[s].delayed \/ HasDelay
                   /\ conn[s].delayed /\ HasDelay => c.delayed \/ c.at # "up"
      BY <2>2, Zenon DEF KeepsDelay
    <3>2. conn'[t] = conn[t] \/ (t = s /\ conn'[t] = c)
      BY <3>1 DEF TypeOK
    <3>3. CASE conn'[t] = conn[t]
      BY <2>1, <3>3
    <3>4. CASE t = s /\ conn'[t] = c
      BY <2>1, <3>1, <3>4
    <3> QED
      BY <3>2, <3>3, <3>4
  <2>3. PICK s \in Slots, whose \in {"own", "stale"} : FireDelay(s, whose)
    BY <2>1, <2>2, DelaySteps
  <2>4. t = s
    BY <2>1, <2>3 DEF FireDelay, Rearm, TypeOK
  <2>5. due[t] \in [own : Nat, stale : Nat] /\ due'[t] = [due[t] EXCEPT ![whose] = @ - 1]
    BY <2>3, <2>4 DEF FireDelay, TypeOK
  <2> QED
    BY <2>3, <2>5
<1> QED
  BY <1>1, <1>2, <1>3, LoopTypeCorrect, PTL DEF Spec, DelayHeld

-----------------------------------------------------------------------------
(* How many messages of a stretch of the stream end or start a reply. *)

Words(q) == {i \in 1 .. Len(q) : q[i] # "part"}

LEMMA WordsCounted ==
  ASSUME NEW q \in Seq(Tokens)
  PROVE  IsFiniteSet(Words(q)) /\ Cardinality(Words(q)) \in Nat
<1>1. IsFiniteSet(1 .. Len(q)) /\ Words(q) \in SUBSET (1 .. Len(q))
  BY FS_Interval DEF Words
<1>2. IsFiniteSet(Words(q))
  BY <1>1, FS_Subset
<1> QED
  BY <1>2, FS_CardinalityType

\* The server adds a token.
LEMMA WordsAppend ==
  ASSUME NEW q \in Seq(Tokens), NEW t \in Tokens
  PROVE  Cardinality(Words(Append(q, t))) =
           Cardinality(Words(q)) + IF t = "part" THEN 0 ELSE 1
<1>1. /\ Len(Append(q, t)) = Len(q) + 1
      /\ \A i \in 1 .. Len(q) : Append(q, t)[i] = q[i]
      /\ Append(q, t)[Len(q) + 1] = t
      /\ Len(q) \in Nat
  BY AppendProperties
<1>2. CASE t = "part"
  <2>1. Words(Append(q, t)) = Words(q)
    BY <1>1, <1>2 DEF Words
  <2> QED
    BY <1>2, <2>1, WordsCounted
<1>3. CASE t # "part"
  <2>1. Words(Append(q, t)) = Words(q) \union {Len(q) + 1}
    BY <1>1, <1>3 DEF Words
  <2>2. Len(q) + 1 \notin Words(q)
    BY <1>1 DEF Words
  <2> QED
    BY <1>3, <2>1, <2>2, WordsCounted, FS_AddElement
<1> QED
  BY <1>2, <1>3

\* A read takes the front of the stream.
LEMMA WordsSplit ==
  ASSUME NEW q \in Seq(Tokens), NEW n \in 0 .. Len(q)
  PROVE  Cardinality(Words(q)) =
           Cardinality(Words(SubSeq(q, 1, n))) + Cardinality(Words(SubSeq(q, n + 1, Len(q))))
<1> DEFINE front == SubSeq(q, 1, n)
           back == SubSeq(q, n + 1, Len(q))
           tail == {i \in n + 1 .. Len(q) : q[i] # "part"}
           shift == [i \in Words(back) |-> i + n]
<1>1. front \in Seq(Tokens) /\ back \in Seq(Tokens)
  BY SplitType
<1>2. /\ Len(front) = n /\ \A i \in 1 .. n : front[i] = q[i]
      /\ Len(back) = Len(q) - n /\ \A i \in 1 .. Len(q) - n : back[i] = q[n + i]
  OBVIOUS
<1> HIDE DEF front, back
<1>3. Words(front) = {i \in 1 .. n : q[i] # "part"}
  BY <1>2 DEF Words
<1>4. Words(q) = Words(front) \union tail /\ Words(front) \cap tail = {}
  BY <1>3 DEF Words
<1>5. shift \in Bijection(Words(back), tail)
  <2>1. Words(back) = {i \in 1 .. Len(q) - n : q[n + i] # "part"}
    BY <1>2 DEF Words
  <2>2. shift \in [Words(back) -> tail]
    BY <2>1
  <2>3. \A i, j \in Words(back) : i # j => shift[i] # shift[j]
    BY <2>1
  <2>4. \A t \in tail : \E i \in Words(back) : shift[i] = t
    <3> SUFFICES ASSUME NEW t \in tail PROVE t - n \in Words(back) /\ shift[t - n] = t
      OBVIOUS
    <3> QED
      BY <2>1
  <2> QED
    BY <2>2, <2>3, <2>4, Fun_IsBij
<1>6. Cardinality(tail) = Cardinality(Words(back)) /\ IsFiniteSet(tail)
  <2>1. ExistsBijection(Words(back), tail)
    BY <1>5, Fun_ExistsBij, Zenon
  <2> HIDE DEF tail
  <2> QED
    BY <2>1, <1>1, WordsCounted, FS_Bijection
<1>7. Cardinality(Words(q)) = Cardinality(Words(front)) + Cardinality(tail) - Cardinality({})
  <2> HIDE DEF tail
  <2> QED
    BY <1>1, <1>4, <1>6, WordsCounted, FS_Union, ZenonT(60)
<1> HIDE DEF tail
<1>8. Cardinality({}) = 0
  BY FS_EmptySet
<1>9. Cardinality(Words(front)) \in Nat /\ Cardinality(Words(back)) \in Nat
  BY <1>1, WordsCounted
<1>10. Cardinality(Words(q)) = Cardinality(Words(front)) + Cardinality(Words(back))
  BY <1>6, <1>7, <1>8, <1>9
<1> QED
  BY <1>10 DEF front, back
-----------------------------------------------------------------------------
\* The hypotheses: the server answers only requests it has got, and where the
\* script has delays it does not break connections either.
Conforming ==
    /\ {"early", "interim"} \cap Faults = {}
    /\ HasDelay => {"reset", "hangup", "junk"} \cap Faults = {}

Contains(q, token) == \E i \in 1 .. Len(q) : q[i] = token

\* What is there of a socket nobody has used yet.
SocketSound(k) ==
    /\ k.got >= 0
    /\ k.half = "part" => k.got >= RequestUnits
    /\ k.net # "up" => k.inq = <<>> /\ ~k.fin /\ ~k.rst

\* A connection that is not up has sent nothing and is owed nothing.
Fresh(c, k, d) ==
    /\ c.pending = 0 /\ c.written = 0 /\ ~c.until
    /\ k.out = 0 /\ k.got = 0 /\ k.inq = <<>> /\ k.half = "none"
    /\ d.own = 0

\* An until-close response is the last, and the rest of it is body.
StreamSound(c, k) ==
    /\ k.half = "until" <=> c.until \/ Contains(k.inq, "until")
    /\ \A i \in 1 .. Len(k.inq) :
         c.until \/ (\E j \in 1 .. i - 1 : k.inq[j] = "until") => k.inq[i] = "part"
    /\ k.inq # <<>> /\ k.half = "none" => k.inq[Len(k.inq)] # "part"
    /\ HasDelay /\ (k.fin \/ k.rst) => k.half = "until" \/ Contains(k.inq, "close")

PendingTrue(c, k) ==
    /\ c.pending \in 0 .. Pipeline
    /\ c.written < Burst
    /\ c.pending * RequestUnits =
         Unsent(c) + k.out + k.got + RequestUnits * (Replies(k) + IF c.until THEN 1 ELSE 0)

\* A burst that is out whole leaves the loop nothing to write; b are the events to handle.
Paced(c, k, i, b) ==
    /\ c.pending > 0 /\ c.written = 0 => "w" \notin i /\ "w" \notin b
    /\ "w" \in b => k.rst \/ k.out < OutUnits
    /\ "r" \in b /\ k.inq = <<>> /\ ~k.fin /\ ~k.rst
         => c.pending > 0 /\ (Pipeline = 1 => c.written = 0)
    /\ Pipeline = 1 /\ c.written > 0 => "w" \in i

Rested(c, i, b, d) ==
    /\ c.delayed => c.pending = 0 /\ c.written = 0
    /\ d.own > 0 => d.own = 1 /\ c.delayed /\ "w" \notin i /\ "w" \notin b
    /\ c.pending > 0 \/ "w" \in i \/ d.own > 0

SlotInv(c, k, i, b, d) ==
    /\ SocketSound(k)
    /\ c.at # "up" => Fresh(c, k, d)
    /\ StreamSound(c, k)
    /\ b # {} => k.net # "syn"
    /\ c.delayed => HasDelay
    /\ d.stale = 0
    /\ c.at = "up" => k.net = "up" /\ PendingTrue(c, k) /\ Paced(c, k, i, b) /\ Rested(c, i, b, d)

LoopInv == \A s \in Slots : SlotInv(conn[s], sock[s], reg[s].interest, batch[s], due[s])

\* Only one slot changes.
LEMMA OneSlot ==
  ASSUME LoopInv, NEW s \in Slots,
         \A t \in Slots \ {s} :
            /\ conn'[t] = conn[t] /\ sock'[t] = sock[t] /\ reg'[t].interest = reg[t].interest
            /\ batch'[t] = batch[t] /\ due'[t] = due[t],
         SlotInv(conn'[s], sock'[s], reg'[s].interest, batch'[s], due'[s])
  PROVE  LoopInv'
  BY DEF LoopInv

-----------------------------------------------------------------------------
(* What is owed to a connection. *)

LEMMA UnsentIsNat ==
  ASSUME NEW c \in Connections
  PROVE  Unsent(c) \in 0 .. Burst
  BY BurstIsNat DEF Unsent, Connections

\* A multiple of a request's units.
LEMMA Multiples ==
  ASSUME NEW a \in Int, NEW b \in Int, NEW x \in Nat, a * RequestUnits = x + RequestUnits * b
  PROVE  /\ b <= a
         /\ a = b => x = 0
<1>1. RequestUnits \in Nat \ {0}
  BY ConnectionOK
<1>2. (a - b) * RequestUnits = x
  BY <1>1
<1>3. a - b < 0 => (a - b) * RequestUnits < 0
  BY <1>1
<1> QED
  BY <1>1, <1>2, <1>3

\* Replies are never more than the requests that are pending.
LEMMA OwedParts ==
  ASSUME NEW c \in Connections, NEW k \in Sockets, SocketSound(k), PendingTrue(c, k)
  PROVE  /\ Replies(k) \in Nat
         /\ Replies(k) + (IF c.until THEN 1 ELSE 0) <= c.pending
         /\ Replies(k) + (IF c.until THEN 1 ELSE 0) = c.pending
              => Unsent(c) = 0 /\ k.out = 0 /\ k.got = 0
<1> DEFINE u == IF c.until THEN 1 ELSE 0
           x == Unsent(c) + k.out + k.got
<1>1. Replies(k) \in Nat
  BY WordsCounted DEF Replies, Words, Sockets
<1>2. Unsent(c) \in Nat /\ k.out \in Nat /\ k.got \in Nat
  BY UnsentIsNat, BurstIsNat, LoopOK DEF Sockets, SocketSound
<1>3. x \in Nat /\ u \in Nat /\ Replies(k) + u \in Int /\ c.pending \in Int
  BY <1>1, <1>2 DEF PendingTrue
<1>4. c.pending * RequestUnits = x + RequestUnits * (Replies(k) + u)
  BY DEF PendingTrue
<1>5. x = 0 => Unsent(c) = 0 /\ k.out = 0 /\ k.got = 0
  BY <1>2
<1> HIDE DEF x, u
<1> QED
  BY <1>1, <1>3, <1>4, <1>5, Multiples DEF u

\* Nothing pending: nothing sent, nothing unread, nothing begun.
LEMMA NothingPending ==
  ASSUME NEW c \in Connections, NEW k \in Sockets, SocketSound(k), PendingTrue(c, k),
         StreamSound(c, k), c.pending = 0
  PROVE  /\ c.written = 0 /\ ~c.until
         /\ k.out = 0 /\ k.got = 0 /\ k.inq = <<>> /\ k.half = "none"
<1>1. Replies(k) = 0 /\ ~c.until /\ Unsent(c) = 0 /\ k.out = 0 /\ k.got = 0
  BY OwedParts
<1>2. c.written = 0
  BY <1>1, BurstIsNat DEF Unsent, PendingTrue, Connections
<1>3. k.inq \in Seq(Tokens) /\ Words(k.inq) = {}
  <2>1. k.inq \in Seq(Tokens)
    BY DEF Sockets
  <2>2. Cardinality(Words(k.inq)) = 0
    BY <1>1 DEF Replies, Words
  <2> QED
    BY <2>1, <2>2, WordsCounted, FS_EmptySet
<1>4. ~Contains(k.inq, "until")
  BY <1>3 DEF Words, Contains
<1>5. k.half = "none"
  <2>1. k.half # "until"
    BY <1>1, <1>4 DEF StreamSound
  <2>2. k.half # "part"
    BY <1>1, ConnectionOK DEF SocketSound
  <2> QED
    BY <2>1, <2>2 DEF Sockets
<1>6. k.inq = <<>>
  <2>1. k.inq # <<>> => Len(k.inq) \in 1 .. Len(k.inq)
    BY <1>3
  <2> QED
    BY <1>3, <1>5, <2>1 DEF StreamSound, Words
<1> QED
  BY <1>1, <1>2, <1>5, <1>6

\* Without pipelining, a burst that is not out has no answer yet.
LEMMA NothingAnswered ==
  ASSUME NEW c \in Connections, NEW k \in Sockets, SocketSound(k), PendingTrue(c, k),
         StreamSound(c, k), Pipeline = 1, c.written > 0
  PROVE  k.inq = <<>> /\ ~c.until
<1>1. c.pending = 1 /\ Burst = RequestUnits
  <2>1. c.pending # 0
    BY NothingPending
  <2> QED
    BY <2>1, ConnectionOK DEF PendingTrue, Burst
<1>2. Unsent(c) > 0
  BY <1>1, BurstIsNat DEF Unsent, PendingTrue, Connections
<1>3. Replies(k) = 0 /\ ~c.until
  BY <1>1, <1>2, OwedParts
<1>4. k.got < RequestUnits
  <2>1. RequestUnits = Unsent(c) + k.out + k.got
    BY <1>1, <1>3, ConnectionOK, LoopOK, UnsentIsNat, BurstIsNat DEF PendingTrue, Sockets
  <2> QED
    BY <1>2, <2>1, ConnectionOK, LoopOK, UnsentIsNat, BurstIsNat DEF Sockets
<1>5. k.inq \in Seq(Tokens) /\ Words(k.inq) = {}
  <2>1. k.inq \in Seq(Tokens)
    BY DEF Sockets
  <2>2. Cardinality(Words(k.inq)) = 0
    BY <1>3 DEF Replies, Words
  <2> QED
    BY <2>1, <2>2, WordsCounted, FS_EmptySet
<1>6. k.half = "none"
  <2>1. k.half # "until"
    BY <1>3, <1>5 DEF StreamSound, Words, Contains
  <2>2. k.half # "part"
    BY <1>4, ConnectionOK DEF SocketSound, Sockets
  <2> QED
    BY <2>1, <2>2 DEF Sockets
<1>7. k.inq = <<>>
  <2>1. k.inq # <<>> => Len(k.inq) \in 1 .. Len(k.inq)
    BY <1>5
  <2> QED
    BY <1>5, <1>6, <2>1 DEF StreamSound, Words
<1> QED
  BY <1>3, <1>7

-----------------------------------------------------------------------------
(* What a read counts. *)

\* Every set of numbers has a least element.
LEMMA Least ==
  ASSUME NEW S \in SUBSET Nat, S # {}
  PROVE  \E m \in S : \A k \in S : m <= k
<1> DEFINE L == OpToRel(<, Nat)
<1>1. L = {ss \in Nat \X Nat : ss[1] < ss[2]}
  BY DEF OpToRel
<1>2. IsWellFoundedOn(L, Nat)
  BY NatLessThanWellFounded
<1>3. PICK m \in S : \A k \in S : ~(<<k, m>> \in L)
  <2> HIDE DEF L
  <2> QED
    BY <1>2, WFMin
<1>4. \A k \in S : ~(k < m)
  BY <1>1, <1>3
<1> QED
  BY <1>4

LEMMA Positions ==
  ASSUME NEW n \in Nat, NEW T \in SUBSET (1 .. n)
  PROVE  IsFiniteSet(T) /\ Cardinality(T) \in Nat
<1>1. IsFiniteSet(1 .. n)
  BY FS_Interval
<1>2. IsFiniteSet(T)
  BY <1>1, FS_Subset
<1> QED
  BY <1>2, FS_CardinalityType

LEMMA RankIsNat ==
  ASSUME NEW n \in Nat, NEW done \in SUBSET (1 .. n), NEW i
  PROVE  Rank(done, i) \in Nat
<1> DEFINE upTo == {j \in done : j <= i}
<1>1. upTo \in SUBSET (1 .. n)
  OBVIOUS
<1>2. Cardinality(upTo) \in Nat
  <2> HIDE DEF upTo
  <2> QED
    BY <1>1, Positions
<1> QED
  BY <1>2 DEF Rank

\* The rank of a position says how much of done is up to it.
LEMMA RankOfLast ==
  ASSUME NEW n \in Nat, NEW done \in SUBSET (1 .. n), NEW i \in done,
         Rank(done, i) >= Cardinality(done)
  PROVE  \A j \in done : j <= i
<1> DEFINE upTo == {j \in done : j <= i}
<1>1. IsFiniteSet(done)
  BY Positions
<1>2. upTo \in SUBSET done /\ Cardinality(upTo) >= Cardinality(done)
  BY DEF Rank
<1>3. upTo = done
  <2> HIDE DEF upTo
  <2>1. /\ Cardinality(upTo) <= Cardinality(done)
        /\ Cardinality(done) = Cardinality(upTo) => done = upTo
    BY <1>1, <1>2, FS_Subset
  <2>2. Cardinality(upTo) \in Nat /\ Cardinality(done) \in Nat
    BY <1>1, <1>2, FS_Subset, FS_CardinalityType
  <2> QED
    BY <1>2, <2>1, <2>2
<1> QED
  BY <1>3

\* No more messages than requests, and none that closes: all are counted.
LEMMA AllCounted ==
  ASSUME NEW c, NEW bytes \in Seq(Tokens), NEW done \in SUBSET (1 .. Len(bytes)),
         Cardinality(done) <= c.pending,
         \A i \in done : KeepsAlive(bytes[i])
  PROVE  Counted(c, bytes, done) = done
<1> SUFFICES ASSUME NEW i \in LastWords(c, bytes, done) PROVE \A j \in done : j <= i
  BY DEF Counted
<1>1. i \in done /\ Rank(done, i) = c.pending
  BY DEF LastWords
<1>2. Len(bytes) \in Nat
  OBVIOUS
<1>3. Rank(done, i) \in Nat /\ Cardinality(done) \in Nat
  BY <1>2, Positions, RankIsNat
<1>4. Rank(done, i) >= Cardinality(done)
  BY <1>1, <1>3
<1> QED
  BY <1>1, <1>2, <1>4, RankOfLast

\* No more messages than requests: the first that closes is counted.
LEMMA CloseCounted ==
  ASSUME NEW c, NEW bytes \in Seq(Tokens), NEW done \in SUBSET (1 .. Len(bytes)),
         Cardinality(done) <= c.pending,
         NEW e \in done, ~KeepsAlive(bytes[e])
  PROVE  \E i \in Counted(c, bytes, done) : ~KeepsAlive(bytes[i])
<1> DEFINE closing == {i \in done : ~KeepsAlive(bytes[i])}
<1>1. PICK m \in closing : \A i \in closing : m <= i
  <2>1. done \in SUBSET Nat /\ e \in closing
    BY DEF KeepsAlive
  <2>2. closing \in SUBSET Nat /\ closing # {}
    BY <2>1
  <2> HIDE DEF closing
  <2> QED
    BY <2>2, Least
<1>2. ASSUME NEW j \in LastWords(c, bytes, done), j \notin closing PROVE m <= j
  <2>1. j \in done /\ Rank(done, j) = c.pending
    BY <1>2 DEF LastWords
  <2>2. Len(bytes) \in Nat
    OBVIOUS
  <2>3. Rank(done, j) \in Nat /\ Cardinality(done) \in Nat
    BY <2>2, Positions, RankIsNat
  <2>4. Rank(done, j) >= Cardinality(done)
    BY <2>1, <2>3
  <2>5. \A i \in done : i <= j
    BY <2>1, <2>2, <2>4, RankOfLast
  <2> QED
    BY <1>1, <2>5
<1>3. m \in Counted(c, bytes, done)
  <2>1. \A j \in LastWords(c, bytes, done) : m <= j
    BY <1>1, <1>2
  <2> QED
    BY <2>1 DEF Counted
<1> QED
  BY <1>1, <1>3

\* What the framer makes of the front of a sound stream: every word is a whole
\* response, but for the headers of one that runs until the close.
LEMMA FrontCompleted ==
  ASSUME NEW c \in Connections, NEW bytes \in Seq(Tokens), ~Misframed(c, bytes),
         \A i \in 1 .. Len(bytes) :
            c.until \/ (\E j \in 1 .. i - 1 : bytes[j] = "until") => bytes[i] = "part"
  PROVE  /\ Completed(c, bytes) \in SUBSET (1 .. Len(bytes))
         /\ Cardinality(Completed(c, bytes)) + (IF Fed(c, bytes).until THEN 1 ELSE 0) =
              Cardinality(Words(bytes)) + (IF c.until THEN 1 ELSE 0)
         /\ Fed(c, bytes).until <=> c.until \/ Contains(bytes, "until")
         /\ Contains(bytes, "close") => \E i \in Completed(c, bytes) : ~KeepsAlive(bytes[i])
<1> DEFINE done == Completed(c, bytes)
<1>1. done \in SUBSET (1 .. Len(bytes)) /\ IsFiniteSet(done) /\ Cardinality(done) \in Nat
  <2>1. done \in SUBSET (1 .. Len(bytes))
    BY DEF Completed
  <2>2. Len(bytes) \in Nat
    OBVIOUS
  <2> QED
    BY <2>1, <2>2, Positions
<1>2. Fed(c, bytes).until = (c.until \/ Contains(bytes, "until"))
  BY DEF Fed, Swallowed, Contains, Connections
<1>3. /\ Words(bytes) \in SUBSET (1 .. Len(bytes)) /\ IsFiniteSet(Words(bytes))
      /\ Cardinality(Words(bytes)) \in Nat
  BY WordsCounted DEF Words
<1>4. CASE c.until
  <2>1. Words(bytes) = {} /\ done = {}
    BY <1>4 DEF Words, Completed, Swallowed
  <2>2. ~Contains(bytes, "close")
    BY <2>1 DEF Words, Contains
  <2> QED
    BY <1>1, <1>2, <1>4, <2>1, <2>2, Zenon
<1>5. CASE ~c.until /\ ~Contains(bytes, "until")
  <2>1. Words(bytes) = done
    BY <1>5 DEF Words, Completed, Swallowed, Contains, Misframed, Tokens, Finals
  <2>2. Contains(bytes, "close") => \E i \in done : ~KeepsAlive(bytes[i])
    BY <2>1 DEF Words, Contains, KeepsAlive
  <2> QED
    BY <1>1, <1>2, <1>5, <2>1, <2>2, Zenon
<1>6. CASE ~c.until /\ Contains(bytes, "until")
  <2>1. PICK u \in 1 .. Len(bytes) : bytes[u] = "until"
    BY <1>6 DEF Contains
  <2>2. \A i \in 1 .. Len(bytes) : i > u => bytes[i] = "part"
    BY <2>1
  <2>3. \A i \in 1 .. Len(bytes) : i < u => bytes[i] # "until"
    BY <2>1
  <2>4. \A i \in 1 .. Len(bytes) : Swallowed(c, bytes, i) <=> i >= u
    BY <1>6, <2>1, <2>2, <2>3 DEF Swallowed
  <2>5. Words(bytes) = done \union {u} /\ u \notin done
    BY <2>1, <2>2, <2>3, <2>4 DEF Words, Completed, Misframed, Tokens, Finals
  <2>6. Cardinality(Words(bytes)) = Cardinality(done) + 1
    BY <1>1, <2>5, FS_AddElement
  <2>7. Contains(bytes, "close") => \E i \in done : ~KeepsAlive(bytes[i])
    BY <2>1, <2>5 DEF Words, Contains, KeepsAlive
  <2>8. Fed(c, bytes).until = TRUE /\ c.until = FALSE
    BY <1>2, <1>6 DEF Connections
  <2> HIDE DEF done
  <2>9. /\ Cardinality(done) + (IF Fed(c, bytes).until THEN 1 ELSE 0) = Cardinality(done) + 1
        /\ Cardinality(Words(bytes)) + (IF c.until THEN 1 ELSE 0) = Cardinality(Words(bytes)) + 0
    BY <2>8
  <2>10. Cardinality(Words(bytes)) + 0 = Cardinality(Words(bytes))
    BY <1>3
  <2> QED
    BY <1>1, <1>2, <1>6, <2>6, <2>7, <2>9, <2>10 DEF done
<1> QED
  BY <1>4, <1>5, <1>6

-----------------------------------------------------------------------------
(* A read of n tokens keeps a connection sound that it does not close. *)

\* The front of a stream and its rest, token by token.
LEMMA Halves ==
  ASSUME NEW q \in Seq(Tokens), NEW n \in 0 .. Len(q)
  PROVE  LET front == SubSeq(q, 1, n)
             back == SubSeq(q, n + 1, Len(q))
         IN  /\ front \in Seq(Tokens) /\ back \in Seq(Tokens)
             /\ Len(front) = n /\ \A i \in 1 .. n : front[i] = q[i]
             /\ Len(back) = Len(q) - n /\ \A i \in 1 .. Len(q) - n : back[i] = q[n + i]
             /\ \A t : Contains(q, t) <=> Contains(front, t) \/ Contains(back, t)
<1> DEFINE front == SubSeq(q, 1, n)
           back == SubSeq(q, n + 1, Len(q))
<1>1. front \in Seq(Tokens) /\ back \in Seq(Tokens)
  BY SplitType
<1>2. /\ Len(front) = n /\ \A i \in 1 .. n : front[i] = q[i]
      /\ Len(back) = Len(q) - n /\ \A i \in 1 .. Len(q) - n : back[i] = q[n + i]
  OBVIOUS
<1> HIDE DEF front, back
<1>3. ASSUME NEW t PROVE Contains(q, t) <=> Contains(front, t) \/ Contains(back, t)
  <2>1. Contains(front, t) \/ Contains(back, t) => Contains(q, t)
    BY <1>2 DEF Contains
  <2>2. ASSUME NEW i \in 1 .. Len(q), q[i] = t PROVE Contains(front, t) \/ Contains(back, t)
    <3>1. CASE i <= n
      BY <1>2, <2>2, <3>1 DEF Contains
    <3>2. CASE i > n
      <4>1. i - n \in 1 .. Len(q) - n /\ q[n + (i - n)] = q[i]
        BY <3>2
      <4> QED
        BY <1>2, <2>2, <4>1 DEF Contains
    <3> QED
      BY <3>1, <3>2
  <2> QED
    BY <2>1, <2>2 DEF Contains
<1> QED
  BY <1>1, <1>2, <1>3 DEF front, back

\* The connection and the socket after a read that closes nothing.
LEMMA ReadKeeps ==
  ASSUME NEW c \in Connections, NEW k \in Sockets, NEW n \in 0 .. Len(k.inq),
         SocketSound(k), StreamSound(c, k), PendingTrue(c, k),
         ~Misframed(c, SubSeq(k.inq, 1, n))
  PROVE  LET bytes == SubSeq(k.inq, 1, n)
             done == Completed(c, bytes)
             m == Cardinality(done)
             rest == [k EXCEPT !.inq = SubSeq(@, n + 1, Len(@))]
             after == Answered(Fed(c, bytes), m)
         IN  /\ m \in Nat /\ m <= c.pending
             /\ after = [c EXCEPT !.pending = @ - m, !.until = Fed(c, bytes).until,
                           !.delayed = IF m > 0 /\ m = c.pending THEN HasDelay ELSE @]
             /\ (\A i \in done : KeepsAlive(bytes[i]))
                  => SocketSound(rest) /\ StreamSound(after, rest) /\ PendingTrue(after, rest)
<1> DEFINE q == k.inq
           bytes == SubSeq(q, 1, n)
           back == SubSeq(q, n + 1, Len(q))
           done == Completed(c, bytes)
           m == Cardinality(done)
           fed == Fed(c, bytes).until
           rest == [k EXCEPT !.inq = back]
           after == Answered(Fed(c, bytes), m)
           one(b) == IF b THEN 1 ELSE 0
<1>1. q \in Seq(Tokens)
  BY DEF Sockets
<1>2. /\ bytes \in Seq(Tokens) /\ back \in Seq(Tokens)
      /\ Len(bytes) = n /\ \A i \in 1 .. n : bytes[i] = q[i]
      /\ Len(back) = Len(q) - n /\ \A i \in 1 .. Len(q) - n : back[i] = q[n + i]
      /\ \A t : Contains(q, t) <=> Contains(bytes, t) \/ Contains(back, t)
  BY <1>1, Halves
<1>3. Cardinality(Words(q)) = Cardinality(Words(bytes)) + Cardinality(Words(back))
  BY <1>1, WordsSplit
<1>4. \A i \in 1 .. Len(bytes) :
         c.until \/ (\E j \in 1 .. i - 1 : bytes[j] = "until") => bytes[i] = "part"
  <2> SUFFICES ASSUME NEW i \in 1 .. n, c.until \/ \E j \in 1 .. i - 1 : bytes[j] = "until"
               PROVE  bytes[i] = "part"
    BY <1>2
  <2> HIDE DEF bytes, back
  <2>1. i \in 1 .. Len(q) /\ bytes[i] = q[i]
    BY <1>1, <1>2
  <2>2. \A j \in 1 .. i - 1 : bytes[j] = q[j]
    BY <1>1, <1>2
  <2>3. c.until \/ \E j \in 1 .. i - 1 : q[j] = "until"
    BY <2>2
  <2> QED
    BY <2>1, <2>3 DEF StreamSound
<1>5. ~Misframed(c, bytes)
  OBVIOUS
<1> HIDE DEF bytes, back
<1>6. /\ done \in SUBSET (1 .. Len(bytes))
      /\ m + one(fed) = Cardinality(Words(bytes)) + one(c.until)
      /\ fed <=> c.until \/ Contains(bytes, "until")
      /\ Contains(bytes, "close") => \E i \in done : ~KeepsAlive(bytes[i])
  BY <1>2, <1>4, <1>5, FrontCompleted
<1>7. m \in Nat
  <2>1. Len(bytes) \in Nat
    BY <1>2
  <2> HIDE DEF done
  <2> QED
    BY <1>6, <2>1, Positions
<1>8. /\ Cardinality(Words(q)) \in Nat /\ Cardinality(Words(bytes)) \in Nat
      /\ Cardinality(Words(back)) \in Nat
  BY <1>1, <1>2, WordsCounted
<1>9. Replies(k) = Cardinality(Words(q)) /\ Replies(rest) = Cardinality(Words(back))
  <2>1. rest.inq = back
    BY DEF Sockets
  <2> QED
    BY <2>1 DEF Replies, Words
<1>10. fed \in BOOLEAN /\ c.until \in BOOLEAN /\ (c.until => fed)
  BY <1>2, <1>6, FedType DEF Connections
<1>11. m + one(fed) + Cardinality(Words(back)) = Cardinality(Words(q)) + one(c.until)
  <2>1. one(fed) \in Nat /\ one(c.until) \in Nat
    OBVIOUS
  <2> HIDE DEF m, one
  <2> QED
    BY <1>3, <1>6, <1>7, <1>8, <2>1
<1>12. m <= c.pending
  <2>1. Cardinality(Words(q)) + one(c.until) <= c.pending
    BY <1>9, OwedParts
  <2>2. one(fed) \in Nat /\ one(c.until) \in Nat /\ c.pending \in Nat
    BY ConnectionOK DEF PendingTrue
  <2> HIDE DEF m, one
  <2> QED
    BY <1>7, <1>8, <1>11, <2>1, <2>2
<1>13. after = [c EXCEPT !.pending = @ - m, !.until = fed,
                         !.delayed = IF m > 0 /\ m = c.pending THEN HasDelay ELSE @]
  <2>1. Fed(c, bytes).pending = c.pending /\ Fed(c, bytes) = [c EXCEPT !.until = fed]
    BY DEF Fed, Connections
  <2> HIDE DEF m
  <2> QED
    BY <1>7, <1>12, <2>1 DEF Answered, Drain, Drained, Connections
<1>14. ASSUME \A i \in done : KeepsAlive(bytes[i])
       PROVE  SocketSound(rest) /\ StreamSound(after, rest) /\ PendingTrue(after, rest)
  <2>1. /\ rest.got = k.got /\ rest.half = k.half /\ rest.net = k.net /\ rest.fin = k.fin
        /\ rest.rst = k.rst /\ rest.inq = back /\ rest.out = k.out
    BY DEF Sockets
  <2>2. after.until = fed /\ after.pending = c.pending - m /\ after.written = c.written
    <3> HIDE DEF m, fed, after
    <3> QED
      BY <1>13 DEF Connections
  <2> HIDE DEF rest, after, m, fed, done
  <2>3. SocketSound(rest)
    <3>1. k.inq = <<>> => back = <<>>
      BY <1>1, <1>2
    <3> QED
      BY <2>1, <3>1 DEF SocketSound
  <2>4. StreamSound(after, rest)
    <3>1. k.half = "until" <=> fed \/ Contains(back, "until")
      BY <1>2, <1>6 DEF StreamSound
    <3>2. ASSUME NEW i \in 1 .. Len(back), fed \/ \E j \in 1 .. i - 1 : back[j] = "until"
          PROVE  back[i] = "part"
      <4>1. n + i \in 1 .. Len(q) /\ back[i] = q[n + i]
        BY <1>1, <1>2
      <4>2. c.until \/ \E j \in 1 .. n + i - 1 : q[j] = "until"
        <5>1. CASE fed
          BY <1>1, <1>2, <1>6, <5>1, SMTT(30) DEF Contains
        <5>2. ASSUME NEW j \in 1 .. i - 1, back[j] = "until" PROVE q[n + j] = "until" /\ n + j \in 1 .. n + i - 1
          <6>1. j \in 1 .. Len(q) - n /\ n + j \in 1 .. n + i - 1
            BY <1>1, <1>2
          <6>2. back[j] = q[n + j]
            BY <1>2, <6>1
          <6> QED
            BY <5>2, <6>1, <6>2
        <5> QED
          BY <3>2, <5>1, <5>2
      <4> QED
        BY <4>1, <4>2 DEF StreamSound
    <3>3. back # <<>> /\ k.half = "none" => back[Len(back)] # "part"
      <4>1. back # <<>> => q # <<>> /\ back[Len(back)] = q[Len(q)]
        <5>1. back # <<>> => Len(back) \in 1 .. Len(q) - n /\ n + Len(back) = Len(q)
          BY <1>1, <1>2
        <5> QED
          BY <1>1, <1>2, <5>1
      <4> QED
        BY <4>1 DEF StreamSound
    <3>4. HasDelay /\ (k.fin \/ k.rst) => k.half = "until" \/ Contains(back, "close")
      BY <1>2, <1>6, <1>14 DEF StreamSound
    <3> QED
      BY <2>1, <2>2, <3>1, <3>2, <3>3, <3>4 DEF StreamSound
  <2>5. PendingTrue(after, rest)
    <3>1. c.pending - m \in 0 .. Pipeline
      BY <1>7, <1>12, ConnectionOK DEF PendingTrue
    <3>2. Unsent(after) = Unsent(c)
      BY <2>2 DEF Unsent
    <3>3. (c.pending - m) * RequestUnits =
            Unsent(c) + k.out + k.got + RequestUnits * (Cardinality(Words(back)) + one(fed))
      <4>1. c.pending * RequestUnits =
              Unsent(c) + k.out + k.got + RequestUnits * (Cardinality(Words(q)) + one(c.until))
        BY <1>9 DEF PendingTrue
      <4>2. one(fed) \in Nat /\ one(c.until) \in Nat /\ c.pending \in Nat
        BY ConnectionOK DEF PendingTrue
      <4>3. Unsent(c) + k.out + k.got \in Int
        BY UnsentIsNat, BurstIsNat, LoopOK DEF Sockets
      <4> HIDE DEF one
      <4>4. Cardinality(Words(q)) + one(c.until) = m + (Cardinality(Words(back)) + one(fed))
        BY <1>7, <1>8, <1>11, <4>2
      <4> DEFINE x == Unsent(c) + k.out + k.got
                 y == Cardinality(Words(back)) + one(fed)
                 z == Cardinality(Words(q)) + one(c.until)
      <4>5. c.pending * RequestUnits = x + RequestUnits * z /\ z = m + y
            /\ x \in Int /\ y \in Int /\ m \in Int
        BY <1>7, <1>8, <4>1, <4>2, <4>3, <4>4
      <4> HIDE DEF x, y, z
      <4>6. (c.pending - m) * RequestUnits = x + RequestUnits * y
        BY <4>2, <4>5, ConnectionOK
      <4> QED
        BY <4>6 DEF x, y
    <3> QED
      BY <1>9, <2>1, <2>2, <3>1, <3>2, <3>3 DEF PendingTrue
  <2> QED
    BY <2>3, <2>4, <2>5
<1> QED
  BY <1>7, <1>12, <1>13, <1>14 DEF bytes, back

-----------------------------------------------------------------------------
(* The server's side of a socket keeps its slot sound. *)

LEMMA SlotTypes ==
  ASSUME TypeOK, NEW s \in Slots
  PROVE  /\ conn[s] \in Connections /\ sock[s] \in Sockets
         /\ reg[s].interest \in {R, RW} /\ batch[s] \in SUBSET RW
         /\ due[s].own \in Nat /\ due[s].stale \in Nat
         /\ sock[s].inq \in Seq(Tokens) /\ sock[s].out \in 0 .. OutUnits /\ sock[s].got \in Int
  BY DEF TypeOK, Sockets

LEMMA RaiseSlot ==
  ASSUME TypeOK, LoopInv, NEW s \in Slots, NEW k, NEW edges, Raise(s, k, edges),
         SlotInv(conn[s], k, reg[s].interest, batch[s], due[s])
  PROVE  LoopInv'
<1>1. /\ UNCHANGED <<conn, batch, due>>
      /\ sock' = [sock EXCEPT ![s] = k]
      /\ \A t \in Slots : reg'[t].interest = reg[t].interest
  BY DEF Raise, TypeOK
<1>2. \A t \in Slots \ {s} : sock'[t] = sock[t]
  BY <1>1 DEF TypeOK
<1>3. sock'[s] = k
  BY <1>1 DEF TypeOK
<1> QED
  BY <1>1, <1>2, <1>3, OneSlot, Zenon

\* A token after a sound stream that has not seen "until".
LEMMA AppendContains ==
  ASSUME NEW q \in Seq(Tokens), NEW t \in Tokens
  PROVE  /\ Append(q, t) \in Seq(Tokens) /\ Append(q, t) # <<>>
         /\ Len(Append(q, t)) = Len(q) + 1 /\ Append(q, t)[Len(Append(q, t))] = t
         /\ \A i \in 1 .. Len(q) : Append(q, t)[i] = q[i]
         /\ \A x : Contains(Append(q, t), x) <=> Contains(q, x) \/ x = t
<1>1. /\ Append(q, t) \in Seq(Tokens) /\ Append(q, t) # <<>>
      /\ Len(Append(q, t)) = Len(q) + 1
      /\ \A i \in 1 .. Len(q) : Append(q, t)[i] = q[i]
      /\ Append(q, t)[Len(q) + 1] = t
      /\ Len(q) \in Nat
  BY AppendProperties
<1>2. ASSUME NEW x PROVE Contains(Append(q, t), x) <=> Contains(q, x) \/ x = t
  BY <1>1 DEF Contains
<1> QED
  BY <1>1, <1>2

LEMMA NewReplies ==
  ASSUME NEW k \in Sockets, NEW t \in Tokens, NEW j \in Sockets, j.inq = Append(k.inq, t)
  PROVE  Replies(j) = Replies(k) + (IF t = "part" THEN 0 ELSE 1) /\ Replies(k) \in Nat
<1>1. k.inq \in Seq(Tokens)
  BY DEF Sockets
<1>2. Replies(j) = Cardinality(Words(Append(k.inq, t))) /\ Replies(k) = Cardinality(Words(k.inq))
  BY DEF Replies, Words
<1> QED
  BY <1>1, <1>2, WordsAppend, WordsCounted

\* A response, or junk, for a request the server has got.
LEMMA ReplyKeeps ==
  ASSUME NEW c \in Connections, NEW k \in Sockets, NEW j \in Sockets, NEW t \in Tokens \ {"part"},
         NEW i \in {R, RW}, NEW b \in SUBSET RW, NEW d, SlotInv(c, k, i, b, d),
         k.got >= RequestUnits, k.half # "until", k.net = "up", ~k.fin, ~k.rst,
         j.inq = Append(k.inq, t), j.got = k.got - RequestUnits, j.out = k.out, j.net = "up",
         j.half = (IF t = "until" THEN "until" ELSE "none"), ~j.rst, j.fin => t = "close"
  PROVE  SlotInv(c, j, i, b, d)
<1> DEFINE q == k.inq
           p == Append(q, t)
<1>1. q \in Seq(Tokens) /\ t \in Tokens
  BY DEF Sockets
<1>2. /\ p # <<>> /\ Len(p) = Len(q) + 1 /\ p[Len(p)] = t /\ Len(q) \in Nat
      /\ \A l \in 1 .. Len(q) : p[l] = q[l]
      /\ \A x : Contains(p, x) <=> Contains(q, x) \/ x = t
  BY <1>1, AppendContains
<1>3. c.at = "up" /\ PendingTrue(c, k) /\ Paced(c, k, i, b) /\ Rested(c, i, b, d)
  BY ConnectionOK DEF SlotInv, Fresh
<1>4. ~c.until /\ ~Contains(q, "until")
  BY DEF SlotInv, StreamSound
<1> HIDE DEF p
<1>5. SocketSound(j)
  BY ConnectionOK DEF SocketSound, Sockets
<1>6. StreamSound(c, j)
  <2>1. j.inq = p
    BY DEF p
  <2>2. ASSUME NEW l \in 1 .. Len(p), NEW h \in 1 .. l - 1 PROVE p[h] # "until"
    <3>1. h \in 1 .. Len(q)
      BY <1>2
    <3> QED
      BY <1>2, <1>4, <3>1 DEF Contains
  <2> QED
    BY <1>2, <1>4, <2>1, <2>2 DEF StreamSound
<1>7. PendingTrue(c, j)
  <2>1. Replies(j) = Replies(k) + 1 /\ Replies(k) \in Nat
    BY <1>1, NewReplies
  <2>2. k.got \in Int /\ k.out \in Int /\ Unsent(c) \in Int /\ RequestUnits \in Int
    BY UnsentIsNat, BurstIsNat, LoopOK, ConnectionOK DEF Sockets
  <2>3. c.pending * RequestUnits = Unsent(c) + k.out + k.got + RequestUnits * (Replies(k) + 0)
    BY <1>3, <1>4 DEF PendingTrue
  <2>4. Unsent(c) + k.out + k.got + RequestUnits * (Replies(k) + 0) =
        Unsent(c) + j.out + j.got + RequestUnits * (Replies(j) + 0)
    BY <2>1, <2>2
  <2> QED
    BY <1>3, <1>4, <2>3, <2>4 DEF PendingTrue
<1>8. Paced(c, j, i, b)
  BY <1>2, <1>3 DEF Paced, p
<1> QED
  BY <1>3, <1>5, <1>6, <1>7, <1>8 DEF SlotInv

\* Bytes that complete nothing.
LEMMA PartKeeps ==
  ASSUME NEW c \in Connections, NEW k \in Sockets, NEW j \in Sockets,
         NEW i \in {R, RW}, NEW b \in SUBSET RW, NEW d, SlotInv(c, k, i, b, d),
         \/ k.half = "none" /\ j.half = "part" /\ k.got >= RequestUnits
         \/ k.half = "until" /\ j.half = "until",
         k.net = "up", ~k.fin, ~k.rst,
         j.inq = Append(k.inq, "part"), j.got = k.got, j.out = k.out, j.net = "up", ~j.rst, ~j.fin
  PROVE  SlotInv(c, j, i, b, d)
<1> DEFINE q == k.inq
           p == Append(q, "part")
<1>1. q \in Seq(Tokens) /\ "part" \in Tokens
  BY DEF Sockets, Tokens
<1>2. /\ p # <<>> /\ Len(p) = Len(q) + 1 /\ p[Len(p)] = "part" /\ Len(q) \in Nat
      /\ \A l \in 1 .. Len(q) : p[l] = q[l]
      /\ \A x : Contains(p, x) <=> Contains(q, x) \/ x = "part"
  BY <1>1, AppendContains
<1>3. c.at = "up" /\ PendingTrue(c, k) /\ Paced(c, k, i, b) /\ Rested(c, i, b, d)
  BY ConnectionOK DEF SlotInv, Fresh
<1> HIDE DEF p
<1>4. SocketSound(j)
  BY DEF SocketSound, SlotInv
<1>5. StreamSound(c, j)
  <2>1. j.inq = p
    BY DEF p
  <2>2. j.half = "until" <=> c.until \/ Contains(p, "until")
    BY <1>2 DEF SlotInv, StreamSound
  <2>3. ASSUME NEW l \in 1 .. Len(p), c.until \/ \E h \in 1 .. l - 1 : p[h] = "until"
        PROVE  p[l] = "part"
    <3>1. CASE l = Len(p)
      BY <1>2, <3>1
    <3>2. CASE l # Len(p)
      <4>1. l \in 1 .. Len(q) /\ p[l] = q[l] /\ \A h \in 1 .. l - 1 : p[h] = q[h]
        BY <1>2, <3>2
      <4> QED
        BY <2>3, <4>1 DEF SlotInv, StreamSound
    <3> QED
      BY <3>1, <3>2
  <2> QED
    BY <2>1, <2>2, <2>3 DEF StreamSound
<1>6. PendingTrue(c, j)
  <2>1. Replies(j) = Replies(k) + 0 /\ Replies(k) \in Nat
    BY <1>1, NewReplies
  <2> QED
    BY <1>3, <2>1 DEF PendingTrue
<1>7. Paced(c, j, i, b)
  BY <1>2, <1>3 DEF Paced, p
<1> QED
  BY <1>3, <1>4, <1>5, <1>6, <1>7 DEF SlotInv

LEMMA ServerKeeps ==
  ASSUME Conforming, TypeOK, LoopInv, NEW s \in Slots, Server(s)
  PROVE  LoopInv' /\ UNCHANGED conn
<1> DEFINE c == conn[s]
           k == sock[s]
           i == reg[s].interest
           b == batch[s]
           d == due[s]
           Goal == \E j, edges : Raise(s, j, edges) /\ SlotInv(c, j, i, b, d)
<1>1. /\ c \in Connections /\ k \in Sockets /\ i \in {R, RW} /\ b \in SUBSET RW
      /\ k.inq \in Seq(Tokens) /\ k.out \in 0 .. OutUnits /\ k.got \in Int
  BY SlotTypes
<1>2. SlotInv(c, k, i, b, d)
  BY DEF LoopInv
<1>3. {"part", "ok", "junk"} \subseteq Tokens /\ Answers \subseteq Tokens \ {"part"}
  BY LoopOK DEF Tokens, Finals
<1>4. Answerable(s) => k.got >= RequestUnits
  BY DEF Answerable, Conforming
<1>5. \A token \in Tokens :
         LET j == Send(s, token)
         IN  /\ j \in Sockets /\ j.inq = Append(k.inq, token) /\ j.out = k.out /\ j.got = k.got
             /\ j.net = k.net /\ j.half = k.half /\ j.fin = k.fin /\ j.rst = k.rst
  <2> SUFFICES ASSUME NEW token \in Tokens
               PROVE  LET j == Send(s, token)
                      IN  /\ j \in Sockets /\ j.inq = Append(k.inq, token) /\ j.out = k.out
                          /\ j.got = k.got /\ j.net = k.net /\ j.half = k.half /\ j.fin = k.fin
                          /\ j.rst = k.rst
    OBVIOUS
  <2>1. Append(k.inq, token) \in Seq(Tokens)
    BY <1>1
  <2> QED
    BY <1>1, <2>1 DEF Send, Sockets
<1> HIDE DEF c, k, i, b, d
<1>6. ASSUME AcceptConnect(s) PROVE Goal
  <2> DEFINE j == [k EXCEPT !.net = "up"]
  <2>1. k.net = "syn" /\ Raise(s, j, {"w"})
    BY <1>6 DEF AcceptConnect, k
  <2>2. SlotInv(c, j, i, b, d)
    BY <1>1, <1>2, <2>1 DEF SlotInv, SocketSound, Fresh, StreamSound, Sockets
  <2> QED
    BY <2>1, <2>2
<1>7. ASSUME RefuseConnect(s) PROVE Goal
  <2> DEFINE j == [k EXCEPT !.net = "refused"]
  <2>1. k.net = "syn" /\ Raise(s, j, RW)
    BY <1>7 DEF RefuseConnect, k
  <2>2. SlotInv(c, j, i, b, d)
    BY <1>1, <1>2, <2>1 DEF SlotInv, SocketSound, Fresh, StreamSound, Sockets
  <2> QED
    BY <2>1, <2>2
<1>8. ASSUME Receive(s) PROVE Goal
  <2> DEFINE j == [k EXCEPT !.out = @ - 1, !.got = @ + 1]
  <2>1. k.out > 0 /\ \E edges : Raise(s, j, edges)
    BY <1>8 DEF Receive, k
  <2>2. /\ j.out = k.out - 1 /\ j.got = k.got + 1 /\ j.half = k.half /\ j.net = k.net
        /\ j.inq = k.inq /\ j.fin = k.fin /\ j.rst = k.rst
    BY <1>1 DEF Sockets
  <2> HIDE DEF j
  <2>3. SocketSound(j) /\ StreamSound(c, j)
    BY <1>1, <1>2, <2>2, ConnectionOK DEF SlotInv, SocketSound, StreamSound
  <2>4. c.at = "up" /\ PendingTrue(c, k) /\ Paced(c, k, i, b)
    BY <1>2, <2>1 DEF SlotInv, Fresh
  <2>5. PendingTrue(c, j)
    <3>1. Replies(j) = Replies(k)
      BY <2>2 DEF Replies
    <3>2. Unsent(c) \in Int /\ k.out \in Int /\ k.got \in Int
      BY <1>1, UnsentIsNat, BurstIsNat, LoopOK DEF Sockets
    <3>3. Unsent(c) + j.out + j.got = Unsent(c) + k.out + k.got
      BY <2>2, <3>2
    <3> QED
      BY <2>4, <3>1, <3>3 DEF PendingTrue
  <2>6. Paced(c, j, i, b)
    BY <1>1, <2>2, <2>4, LoopOK DEF Paced
  <2>7. SlotInv(c, j, i, b, d)
    BY <1>2, <2>2, <2>3, <2>4, <2>5, <2>6 DEF SlotInv
  <2> QED
    BY <2>1, <2>7
<1>9. ASSUME AnswerPart(s) PROVE Goal
  <2> DEFINE j == [Send(s, "part") EXCEPT !.half = "part"]
  <2>1. /\ k.got >= RequestUnits /\ k.half = "none" /\ k.net = "up" /\ ~k.fin /\ ~k.rst
        /\ Raise(s, j, {"r"})
    BY <1>4, <1>9 DEF AnswerPart, Open, k
  <2>2. /\ j \in Sockets /\ j.inq = Append(k.inq, "part") /\ j.got = k.got /\ j.out = k.out
        /\ j.net = k.net /\ j.half = "part" /\ j.fin = k.fin /\ j.rst = k.rst
    BY <1>3, <1>5 DEF Sockets
  <2> HIDE DEF j
  <2>3. SlotInv(c, j, i, b, d)
    BY <1>1, <1>2, <2>1, <2>2, PartKeeps
  <2> QED
    BY <2>1, <2>3
<1>10. ASSUME NEW token \in Answers, Answer(s, token) PROVE Goal
  <2> DEFINE half == IF token = "until" THEN "until" ELSE "none"
             j == [Send(s, token) EXCEPT !.got = @ - RequestUnits, !.half = half,
                                         !.fin = ~KeepsAlive(token)]
  <2>1. /\ k.got >= RequestUnits /\ k.half # "until" /\ k.net = "up" /\ ~k.fin /\ ~k.rst
        /\ Raise(s, j, {"r"})
    BY <1>4, <1>10 DEF Answer, Open, k
  <2>2. token \in Tokens \ {"part"}
    BY <1>3
  <2>3. /\ j \in Sockets /\ j.inq = Append(k.inq, token) /\ j.got = k.got - RequestUnits
        /\ j.out = k.out /\ j.net = k.net /\ j.half = half /\ j.fin = (token = "close")
        /\ j.rst = k.rst
    <3>1. half \in {"none", "until"} /\ k.got - RequestUnits \in Int
      BY <1>1, ConnectionOK
    <3> HIDE DEF half
    <3> QED
      BY <1>5, <2>2, <3>1 DEF Sockets, KeepsAlive
  <2> HIDE DEF j
  <2>4. SlotInv(c, j, i, b, d)
    BY <1>1, <1>2, <2>1, <2>2, <2>3, ReplyKeeps, ZenonT(60)
  <2> QED
    BY <2>1, <2>4
<1>11. ASSUME AnswerBody(s) PROVE Goal
  <2> DEFINE j == Send(s, "part")
  <2>1. k.half = "until" /\ k.net = "up" /\ ~k.fin /\ ~k.rst /\ Raise(s, j, {"r"})
    BY <1>11 DEF AnswerBody, Open, k
  <2>2. /\ j \in Sockets /\ j.inq = Append(k.inq, "part") /\ j.got = k.got /\ j.out = k.out
        /\ j.net = k.net /\ j.half = k.half /\ j.fin = k.fin /\ j.rst = k.rst
    BY <1>3, <1>5
  <2> HIDE DEF j
  <2>3. SlotInv(c, j, i, b, d)
    BY <1>1, <1>2, <2>1, <2>2, PartKeeps
  <2> QED
    BY <2>1, <2>3
<1>12. ASSUME EndBody(s) \/ Hangup(s) PROVE Goal
  <2> DEFINE j == [k EXCEPT !.fin = TRUE]
  <2>1. k.net = "up" /\ Raise(s, j, {"r"}) /\ (HasDelay => k.half = "until")
    BY <1>12 DEF EndBody, Hangup, Open, Conforming, k
  <2>2. SlotInv(c, j, i, b, d)
    <3>1. /\ j.out = k.out /\ j.got = k.got /\ j.half = k.half /\ j.net = k.net
          /\ j.inq = k.inq /\ j.fin = TRUE /\ j.rst = k.rst
      BY <1>1 DEF Sockets
    <3> HIDE DEF j
    <3>2. SocketSound(j) /\ StreamSound(c, j) /\ (c.at # "up" => Fresh(c, j, d))
      BY <1>2, <2>1, <3>1 DEF SlotInv, SocketSound, StreamSound, Fresh
    <3>3. PendingTrue(c, k) /\ Paced(c, k, i, b) => PendingTrue(c, j) /\ Paced(c, j, i, b)
      BY <3>1 DEF PendingTrue, Paced, Replies
    <3> QED
      BY <1>2, <2>1, <3>1, <3>2, <3>3 DEF SlotInv
  <2> QED
    BY <2>1, <2>2
<1>13. ASSUME AnswerJunk(s) PROVE Goal
  <2> DEFINE j == [Send(s, "junk") EXCEPT !.got = @ - RequestUnits]
  <2>1. /\ k.got >= RequestUnits /\ k.half = "none" /\ k.net = "up" /\ ~k.fin /\ ~k.rst
        /\ Raise(s, j, {"r"})
    BY <1>4, <1>13 DEF AnswerJunk, Open, k
  <2>2. "junk" \in Tokens \ {"part"}
    BY <1>3
  <2>3. /\ j \in Sockets /\ j.inq = Append(k.inq, "junk") /\ j.got = k.got - RequestUnits
        /\ j.out = k.out /\ j.net = k.net /\ j.half = k.half /\ j.fin = k.fin /\ j.rst = k.rst
    <3>1. k.got - RequestUnits \in Int
      BY <1>1, ConnectionOK
    <3> QED
      BY <1>5, <2>2, <3>1 DEF Sockets
  <2> HIDE DEF j
  <2>4. SlotInv(c, j, i, b, d)
    BY <1>1, <1>2, <2>1, <2>2, <2>3, ReplyKeeps
  <2> QED
    BY <2>1, <2>4
<1>14. ASSUME Reset(s) PROVE Goal
  <2> DEFINE j == [k EXCEPT !.rst = TRUE]
  <2>1. k.net = "up" /\ Raise(s, j, RW) /\ (HasDelay => k.fin)
    BY <1>14 DEF Reset, Conforming, k
  <2>2. SlotInv(c, j, i, b, d)
    <3>1. /\ j.out = k.out /\ j.got = k.got /\ j.half = k.half /\ j.net = k.net
          /\ j.inq = k.inq /\ j.fin = k.fin /\ j.rst = TRUE
      BY <1>1 DEF Sockets
    <3> HIDE DEF j
    <3>2. SocketSound(j) /\ StreamSound(c, j) /\ (c.at # "up" => Fresh(c, j, d))
      BY <1>2, <2>1, <3>1 DEF SlotInv, SocketSound, StreamSound, Fresh
    <3>3. PendingTrue(c, k) /\ Paced(c, k, i, b) => PendingTrue(c, j) /\ Paced(c, j, i, b)
      BY <3>1 DEF PendingTrue, Paced, Replies
    <3> QED
      BY <1>2, <2>1, <3>1, <3>2, <3>3 DEF SlotInv
  <2> QED
    BY <2>1, <2>2
<1>15. ~AnswerInterim(s)
  BY DEF AnswerInterim, Conforming
<1>16. Goal
  BY <1>6, <1>7, <1>8, <1>9, <1>10, <1>11, <1>12, <1>13, <1>14, <1>15, Zenon DEF Server
<1>17. PICK j, edges : Raise(s, j, edges) /\ SlotInv(c, j, i, b, d)
  BY <1>16
<1>18. LoopInv'
  BY <1>17, RaiseSlot DEF c, i, b, d
<1> QED
  BY <1>17, <1>18 DEF Raise

-----------------------------------------------------------------------------
(* The steps of the loop: what each makes of the requests that are pending *)
(* and of the delay, and that it keeps every slot sound.                   *)

Changes(s, pending, delayed) ==
    /\ conn[s].at # "none" /\ conn'[s].at = "up"
    /\ conn'[s].pending = pending /\ conn'[s].delayed = delayed

StartsBurst(s) == conn[s].pending = 0 /\ ~conn[s].delayed /\ Changes(s, Pipeline, FALSE)

GetsAnswers(s) ==
    \E n \in 1 .. conn[s].pending :
       Changes(s, conn[s].pending - n, IF n = conn[s].pending THEN HasDelay ELSE conn[s].delayed)

WakesUp(s) ==
    conn[s].delayed /\ due'[s].own < due[s].own /\ Changes(s, conn[s].pending, FALSE)

Continued(s) == Changes(s, conn[s].pending, conn[s].delayed)

Replaced(s) == conn'[s] \in {NewConnection(TRUE), NoConnection}

Moves(s) ==
    /\ conn' = [conn EXCEPT ![s] = conn'[s]]
    /\ StartsBurst(s) \/ GetsAnswers(s) \/ WakesUp(s) \/ Continued(s) \/ Replaced(s)

Kept == LoopInv' /\ (UNCHANGED conn \/ \E s \in Slots : Moves(s))

\* The slot after connect_slot.
LEMMA NewSlot ==
  ASSUME NEW c \in {NewConnection(TRUE), NoConnection}
  PROVE  /\ c.at # "up" /\ c.pending = 0
         /\ SlotInv(c, NewSocket, RW, {}, [own |-> 0, stale |-> 0])
<1>1. /\ c.at \in {"connecting", "none"} /\ c.pending = 0 /\ c.written = 0 /\ c.until = FALSE
      /\ c.delayed => HasDelay
  BY NewConnections
<1>2. /\ NewSocket.net = "syn" /\ NewSocket.out = 0 /\ NewSocket.got = 0
      /\ NewSocket.half = "none" /\ NewSocket.inq = <<>> /\ NewSocket.fin = FALSE
      /\ NewSocket.rst = FALSE
  BY DEF NewSocket
<1>3. SocketSound(NewSocket) /\ Fresh(c, NewSocket, [own |-> 0, stale |-> 0])
  BY <1>1, <1>2 DEF SocketSound, Fresh
<1>4. StreamSound(c, NewSocket)
  BY <1>1, <1>2 DEF StreamSound, Contains
<1> QED
  BY <1>1, <1>2, <1>3, <1>4 DEF SlotInv

LEMMA ReconnectKeeps ==
  ASSUME TypeOK, LoopInv, NEW s \in Slots, NEW cs, NEW reason, Reconnect(s, cs, reason),
         due[s].own = 0
  PROVE  Kept
<1>1. PICK c \in {NewConnection(TRUE), NoConnection} : conn' = [conn EXCEPT ![s] = c]
  BY Zenon DEF Reconnect
<1>2. /\ sock' = [sock EXCEPT ![s] = NewSocket]
      /\ reg' = [reg EXCEPT ![s] = NewRegistration]
      /\ due' = [due EXCEPT ![s] = [own |-> 0, stale |-> @.own + @.stale]]
      /\ batch' = [batch EXCEPT ![s] = {}]
  BY DEF Reconnect
<1>3. due[s].stale = 0
  BY DEF LoopInv, SlotInv
<1>4. /\ conn'[s] = c /\ sock'[s] = NewSocket /\ reg'[s].interest = RW /\ batch'[s] = {}
      /\ due'[s] = [own |-> 0, stale |-> 0]
  BY <1>1, <1>2, <1>3 DEF TypeOK, NewRegistration
<1>5. \A t \in Slots \ {s} :
         /\ conn'[t] = conn[t] /\ sock'[t] = sock[t] /\ reg'[t].interest = reg[t].interest
         /\ batch'[t] = batch[t] /\ due'[t] = due[t]
  BY <1>1, <1>2 DEF TypeOK
<1>6. LoopInv'
  BY <1>4, <1>5, NewSlot, OneSlot, Zenon
<1>7. Moves(s)
  BY <1>1, <1>4 DEF Moves, Replaced
<1> QED
  BY <1>6, <1>7 DEF Kept

\* A handler that ends with an interest.
LEMMA RearmSlot ==
  ASSUME TypeOK, LoopInv, NEW s \in Slots, NEW c, NEW k, NEW i, Rearm(s, c, k, i),
         \A t \in Slots \ {s} : batch'[t] = batch[t] /\ due'[t] = due[t],
         SlotInv(c, k, i, batch'[s], due'[s])
  PROVE  /\ LoopInv'
         /\ conn' = [conn EXCEPT ![s] = conn'[s]] /\ conn'[s] = c
<1>1. conn' = [conn EXCEPT ![s] = c] /\ sock' = [sock EXCEPT ![s] = k]
      /\ reg' = [reg EXCEPT ![s] = [interest |-> i, queued |-> Ready(k) \cap i # {}]]
  BY DEF Rearm, Reregister
<1>2. conn'[s] = c /\ sock'[s] = k /\ reg'[s].interest = i
  BY <1>1 DEF TypeOK
<1>3. \A t \in Slots \ {s} :
         /\ conn'[t] = conn[t] /\ sock'[t] = sock[t] /\ reg'[t].interest = reg[t].interest
         /\ batch'[t] = batch[t] /\ due'[t] = due[t]
  BY <1>1 DEF TypeOK
<1>4. LoopInv'
  BY <1>2, <1>3, OneSlot, Zenon
<1> QED
  BY <1>1, <1>2, <1>4

LEMMA HandledSlot ==
  ASSUME TypeOK, NEW s \in Slots, NEW event, Handled(s, event)
  PROVE  /\ batch'[s] = batch[s] \ {event}
         /\ \A t \in Slots \ {s} : batch'[t] = batch[t]
  BY DEF TypeOK, Handled

\* The parts of what a connection that is up keeps.
LEMMA UpSlot ==
  ASSUME TypeOK, LoopInv, NEW s \in Slots, conn[s].at = "up"
  PROVE  /\ SlotInv(conn[s], sock[s], reg[s].interest, batch[s], due[s])
         /\ SocketSound(sock[s]) /\ StreamSound(conn[s], sock[s]) /\ PendingTrue(conn[s], sock[s])
         /\ Paced(conn[s], sock[s], reg[s].interest, batch[s])
         /\ Rested(conn[s], reg[s].interest, batch[s], due[s])
         /\ due[s].own > 0 => conn[s].pending = 0
         /\ conn[s].pending \in Nat
<1>1. SlotInv(conn[s], sock[s], reg[s].interest, batch[s], due[s])
  BY DEF LoopInv
<1>2. /\ SocketSound(sock[s]) /\ StreamSound(conn[s], sock[s]) /\ PendingTrue(conn[s], sock[s])
      /\ Paced(conn[s], sock[s], reg[s].interest, batch[s])
      /\ Rested(conn[s], reg[s].interest, batch[s], due[s])
  BY <1>1 DEF SlotInv
<1>3. due[s].own > 0 => conn[s].pending = 0
  BY <1>2 DEF Rested
<1>4. conn[s].pending \in Nat
  BY <1>2, ConnectionOK DEF PendingTrue
<1> QED
  BY <1>1, <1>2, <1>3, <1>4

LEMMA ConnectEventKeeps ==
  ASSUME TypeOK, LoopInv, NEW s \in Slots, ConnectEvent(s)
  PROVE  Kept
<1> DEFINE c == conn[s]
           k == sock[s]
<1>1. /\ c.at = "connecting" /\ c \in Connections /\ k \in Sockets /\ batch[s] # {}
      /\ SlotInv(c, k, reg[s].interest, batch[s], due[s]) /\ due[s].own \in Nat
  BY SlotTypes DEF ConnectEvent, LoopInv
<1>2. Fresh(c, k, due[s])
  BY <1>1 DEF SlotInv
<1>3. CASE k.net = "refused" \/ k.rst
  <2>1. Reconnect(s, counters, "connect") /\ due[s].own = 0
    BY <1>2, <1>3 DEF ConnectEvent, Fresh
  <2> QED
    BY <2>1, ReconnectKeeps
<1>4. CASE ~(k.net = "refused" \/ k.rst)
  <2> DEFINE new == Connected(c)
  <2>1. /\ Rearm(s, new, k, RW) /\ batch' = [batch EXCEPT ![s] = {}] /\ UNCHANGED due
    BY <1>4 DEF ConnectEvent
  <2>2. k.net = "up"
    BY <1>1, <1>4 DEF SlotInv, Sockets
  <2>3. /\ new.at = "up" /\ new.written = 0 /\ new.pending = 0 /\ new.until = FALSE
        /\ new.delayed = c.delayed
    BY <1>1, <1>2 DEF Connected, Fresh, Connections
  <2> HIDE DEF new
  <2>4. StreamSound(new, k)
    BY <1>1, <1>2, <2>3 DEF SlotInv, StreamSound, Fresh
  <2>5. PendingTrue(new, k)
    <3>1. Replies(k) = 0
      BY <1>2, FS_EmptySet DEF Fresh, Replies
    <3> QED
      BY <1>2, <2>3, <3>1, ConnectionOK, BurstIsNat DEF PendingTrue, Unsent, Fresh
  <2>6. Paced(new, k, RW, {})
    BY <2>3 DEF Paced
  <2>7. Rested(new, RW, {}, due[s])
    <3>1. c.delayed => HasDelay
      BY <1>1 DEF SlotInv
    <3> QED
      BY <1>2, <2>3, <3>1 DEF Rested, Fresh, RW
  <2>8. SlotInv(new, k, RW, {}, due[s])
    BY <1>1, <2>2, <2>3, <2>4, <2>5, <2>6, <2>7 DEF SlotInv
  <2>9. batch'[s] = {} /\ \A t \in Slots \ {s} : batch'[t] = batch[t] /\ due'[t] = due[t]
    BY <2>1 DEF TypeOK
  <2>10. LoopInv' /\ conn' = [conn EXCEPT ![s] = conn'[s]] /\ conn'[s] = new
    BY <2>1, <2>8, <2>9, RearmSlot
  <2>11. Continued(s)
    BY <1>1, <1>2, <2>3, <2>10 DEF Continued, Changes, Fresh
  <2> QED
    BY <2>10, <2>11 DEF Kept, Moves
<1> QED
  BY <1>3, <1>4

\* The ways out of responses(), for no more messages than requests.
LEMMA ResponsesWays ==
  ASSUME NEW s \in Slots, NEW c, NEW bytes \in Seq(Tokens), NEW done \in SUBSET (1 .. Len(bytes)),
         NEW k, NEW full, Cardinality(done) <= c.pending,
         Responses(s, c, bytes, done, k, full)
  PROVE  LET m == Cardinality(done)
             after == Answered(c, m)
         IN  \/ Fatal
             \/ m > 0 /\ UNCHANGED at /\ \E cs : Reconnect(s, cs, "polite")
             \/ /\ \A i \in done : KeepsAlive(bytes[i])
                /\ UNCHANGED due
                /\ \/ m > 0 /\ m = c.pending /\ Rearm(s, after, k, RW) /\ Handled(s, "r")
                   \/ ~(m > 0 /\ m = c.pending) /\ Rearm(s, after, k, R) /\ Handled(s, "r")
                   \/ /\ ~(m > 0 /\ m = c.pending) /\ UNCHANGED <<batch, reg>>
                      /\ conn' = [conn EXCEPT ![s] = after]
                      /\ sock' = [sock EXCEPT ![s] = k]
<1> DEFINE counted == Counted(c, bytes, done)
           n == Cardinality(counted)
<1>1. Len(bytes) \in Nat /\ IsFiniteSet(done) /\ Cardinality(done) \in Nat
  <2>1. Len(bytes) \in Nat
    OBVIOUS
  <2> QED
    BY <2>1, Positions
<1>2. CASE \E e \in done : ~KeepsAlive(bytes[e])
  <2>1. \E i \in counted : ~KeepsAlive(bytes[i])
    BY <1>2, CloseCounted
  <2>2. Cardinality(done) > 0
    <3>1. Cardinality(done) # 0
      BY <1>1, <1>2, FS_EmptySet
    <3> QED
      BY <1>1, <3>1
  <2> QED
    BY <2>1, <2>2, Zenon DEF Responses
<1>3. CASE \A e \in done : KeepsAlive(bytes[e])
  <2>1. counted = done
    BY <1>3, AllCounted
  <2>2. ~\E i \in counted : ~KeepsAlive(bytes[i])
    BY <1>3, <2>1
  <2>3. n = Cardinality(done)
    BY <2>1
  <2> HIDE DEF counted
  <2>4. \/ Fatal
        \/ /\ UNCHANGED due
           /\ \/ Drained(c, n) /\ Rearm(s, Answered(c, n), k, RW) /\ Handled(s, "r")
              \/ ~Drained(c, n) /\ Rearm(s, Answered(c, n), k, R) /\ Handled(s, "r")
              \/ /\ ~Drained(c, n) /\ Continues(s)
                 /\ conn' = [conn EXCEPT ![s] = Answered(c, n)]
                 /\ sock' = [sock EXCEPT ![s] = k]
                 /\ UNCHANGED reg
    BY <2>2, Zenon DEF Responses, counted
  <2> HIDE DEF n
  <2> QED
    BY <1>3, <2>3, <2>4 DEF Drained, Continues
<1> QED
  BY <1>2, <1>3

LEMMA ReadBytesKeeps ==
  ASSUME TypeOK, LoopInv, NEW s \in Slots, ReadBytes(s)
  PROVE  Kept
<1> DEFINE c == conn[s]
           k == sock[s]
           i == reg[s].interest
           b == batch[s]
           d == due[s]
           n == IF Len(k.inq) < RecvTokens THEN Len(k.inq) ELSE RecvTokens
           bytes == SubSeq(k.inq, 1, n)
           rest == [k EXCEPT !.inq = SubSeq(@, n + 1, Len(@))]
           done == Completed(c, bytes)
           m == Cardinality(done)
           after == Answered(Fed(c, bytes), m)
<1>1. /\ c \in Connections /\ k \in Sockets /\ k.inq \in Seq(Tokens) /\ c.at = "up"
      /\ k.inq # <<>> /\ "r" \in b /\ i \in {R, RW} /\ b \in SUBSET RW /\ d.own \in Nat
  BY SlotTypes DEF ReadBytes, Handles
<1>2. /\ SlotInv(c, k, i, b, d) /\ SocketSound(k) /\ StreamSound(c, k) /\ PendingTrue(c, k)
      /\ Paced(c, k, i, b) /\ Rested(c, i, b, d) /\ (d.own > 0 => c.pending = 0)
      /\ c.pending \in Nat
  BY <1>1, UpSlot
<1>3. c.pending > 0 /\ d.own = 0 /\ (Pipeline = 1 => c.written = 0)
  <2>1. c.pending # 0
    BY <1>1, <1>2, NothingPending
  <2>2. Pipeline = 1 => ~(c.written > 0)
    BY <1>1, <1>2, NothingAnswered
  <2>3. c.written \in Nat
    BY <1>1, BurstIsNat DEF Connections
  <2> QED
    BY <1>1, <1>2, <2>1, <2>2, <2>3
<1>4. n \in 0 .. Len(k.inq) /\ bytes \in Seq(Tokens)
  <2>1. n \in 0 .. Len(k.inq)
    BY <1>1, LoopOK
  <2> QED
    BY <1>1, <2>1, SplitType
<1>5. CASE Misframed(c, bytes)
  <2>1. Reconnect(s, counters, "read")
    BY <1>5 DEF ReadBytes
  <2> QED
    BY <1>3, <2>1, ReconnectKeeps
<1>6. CASE ~Misframed(c, bytes)
  <2>1. Responses(s, Fed(c, bytes), bytes, done, rest, n = RecvTokens)
    BY <1>6, Zenon DEF ReadBytes
  <2>2. /\ m \in Nat /\ m <= c.pending
        /\ after = [c EXCEPT !.pending = @ - m, !.until = Fed(c, bytes).until,
                      !.delayed = IF m > 0 /\ m = c.pending THEN HasDelay ELSE @]
        /\ (\A l \in done : KeepsAlive(bytes[l]))
             => SocketSound(rest) /\ StreamSound(after, rest) /\ PendingTrue(after, rest)
    <3>1. ~Misframed(c, SubSeq(k.inq, 1, n))
      BY <1>6
    <3> HIDE DEF c, k, n
    <3> QED
      BY <1>1, <1>2, <1>4, <3>1, ReadKeeps
  <2>3. Fed(c, bytes).pending = c.pending
    BY <1>1 DEF Fed, Connections
  <2>4. done \in SUBSET (1 .. Len(bytes))
    BY DEF Completed
  <2>5. /\ rest.net = k.net /\ rest.fin = k.fin /\ rest.rst = k.rst /\ rest.out = k.out
    BY <1>1 DEF Sockets
  <2>6. /\ after.at = "up" /\ after.written = c.written /\ after.pending = c.pending - m
        /\ after.delayed = IF m > 0 /\ m = c.pending THEN HasDelay ELSE c.delayed
    <3> HIDE DEF after, m
    <3> QED
      BY <1>1, <2>2 DEF Connections
  <2>12. after \in Connections /\ rest \in Sockets
    <3>1. Fed(c, bytes) \in Connections
      BY <1>1, <1>4, FedType
    <3>2. SubSeq(k.inq, n + 1, Len(k.inq)) \in Seq(Tokens)
      BY <1>1, <1>4, SplitType
    <3> HIDE DEF n, bytes, m
    <3> QED
      BY <1>1, <2>2, <3>1, <3>2, AnsweredType, SocketFields
  <2> HIDE DEF bytes, rest, done, m, after, n
  <2>7. \/ Fatal
        \/ \E cs : Reconnect(s, cs, "polite")
        \/ /\ \A l \in done : KeepsAlive(bytes[l])
           /\ UNCHANGED due
           /\ \/ m = c.pending /\ Rearm(s, after, rest, RW) /\ Handled(s, "r")
              \/ m # c.pending /\ Rearm(s, after, rest, R) /\ Handled(s, "r")
              \/ /\ m # c.pending /\ UNCHANGED <<batch, reg>>
                 /\ conn' = [conn EXCEPT ![s] = after]
                 /\ sock' = [sock EXCEPT ![s] = rest]
    <3>1. Cardinality(done) <= Fed(c, bytes).pending
      BY <2>2, <2>3 DEF m
    <3>2. m > 0 /\ m = c.pending <=> m = c.pending
      BY <1>3
    <3> QED
      BY <1>4, <2>1, <2>3, <2>4, <3>1, <3>2, ResponsesWays DEF m, after
  <2>8. CASE Fatal
    BY <2>8 DEF Fatal, Kept, LoopInv
  <2>9. ASSUME NEW cs, Reconnect(s, cs, "polite") PROVE Kept
    BY <1>3, <2>9, ReconnectKeeps
  <2>10. ASSUME \A l \in done : KeepsAlive(bytes[l]), conn' = [conn EXCEPT ![s] = conn'[s]],
                conn'[s] = after
         PROVE  Moves(s)
    <3>1. CASE m = 0
      <4>1. Continued(s)
        BY <1>1, <1>2, <1>3, <2>6, <2>10, <3>1 DEF Continued, Changes
      <4> QED
        BY <2>10, <4>1 DEF Moves
    <3>2. CASE m > 0
      <4>1. GetsAnswers(s)
        <5>1. m \in 1 .. c.pending
          BY <1>2, <2>2, <3>2
        <5>2. Changes(s, c.pending - m, IF m = c.pending THEN HasDelay ELSE c.delayed)
          BY <1>1, <2>6, <2>10, <3>2 DEF Changes
        <5> QED
          BY <5>1, <5>2 DEF GetsAnswers
      <4> QED
        BY <2>10, <4>1 DEF Moves
    <3> QED
      BY <2>2, <3>1, <3>2
  <2>11. ASSUME \A l \in done : KeepsAlive(bytes[l]), m = c.pending
         PROVE  SlotInv(after, rest, RW, b \ {"r"}, d)
    <3>1. after.pending = 0 /\ after.delayed = HasDelay
      BY <1>2, <1>3, <2>6, <2>11
    <3>2. SocketSound(rest) /\ StreamSound(after, rest) /\ PendingTrue(after, rest)
      BY <2>2, <2>11
    <3>3. Paced(after, rest, RW, b \ {"r"})
      BY <1>2, <2>5, <3>1 DEF Paced, RW
    <3>4. after.written = 0
      BY <2>12, <3>1, <3>2, NothingPending
    <3>5. Rested(after, RW, b \ {"r"}, d)
      BY <1>3, <3>1, <3>4 DEF Rested, RW
    <3> QED
      BY <1>1, <1>2, <2>5, <2>6, <3>1, <3>2, <3>3, <3>5 DEF SlotInv
  <2>13. ASSUME \A l \in done : KeepsAlive(bytes[l]), m # c.pending,
                NEW j \in {i, R}, NEW e \in {b, b \ {"r"}}
         PROVE  SlotInv(after, rest, j, e, d)
    <3>1. after.pending > 0 /\ after.delayed = c.delayed /\ c.delayed = FALSE
      BY <1>1, <1>2, <1>3, <2>2, <2>6, <2>13 DEF Rested, Connections
    <3>2. SocketSound(rest) /\ StreamSound(after, rest) /\ PendingTrue(after, rest)
      BY <2>2, <2>13
    <3>3. Paced(after, rest, j, e)
      BY <1>2, <1>3, <2>5, <2>6, <2>13, <3>1, BurstIsNat DEF Paced, R, Connections
    <3>4. Rested(after, j, e, d)
      BY <1>3, <3>1 DEF Rested
    <3> QED
      BY <1>1, <1>2, <2>5, <2>6, <2>13, <3>1, <3>2, <3>3, <3>4 DEF SlotInv
  <2>14. ASSUME \A l \in done : KeepsAlive(bytes[l]), UNCHANGED due,
                \/ m = c.pending /\ Rearm(s, after, rest, RW)
                \/ m # c.pending /\ Rearm(s, after, rest, R),
                Handled(s, "r")
         PROVE  Kept
    <3>1. batch'[s] = b \ {"r"} /\ \A t \in Slots \ {s} : batch'[t] = batch[t] /\ due'[t] = due[t]
      BY <2>14, HandledSlot
    <3>2. LoopInv' /\ conn' = [conn EXCEPT ![s] = conn'[s]] /\ conn'[s] = after
      <4>1. CASE m = c.pending /\ Rearm(s, after, rest, RW)
        <5>1. SlotInv(after, rest, RW, batch'[s], due'[s])
          BY <2>11, <2>14, <3>1, <4>1
        <5> QED
          BY <3>1, <4>1, <5>1, RearmSlot, Zenon
      <4>2. CASE m # c.pending /\ Rearm(s, after, rest, R)
        <5>1. SlotInv(after, rest, R, batch'[s], due'[s])
          BY <2>13, <2>14, <3>1, <4>2
        <5> QED
          BY <3>1, <4>2, <5>1, RearmSlot, Zenon
      <4> QED
        BY <2>14, <4>1, <4>2
    <3> QED
      BY <2>10, <2>14, <3>2 DEF Kept
  <2>15. ASSUME \A l \in done : KeepsAlive(bytes[l]), UNCHANGED due,
                m # c.pending, UNCHANGED <<batch, reg>>,
                conn' = [conn EXCEPT ![s] = after], sock' = [sock EXCEPT ![s] = rest]
         PROVE  Kept
    <3>1. /\ conn'[s] = after /\ sock'[s] = rest
          /\ \A t \in Slots \ {s} : conn'[t] = conn[t] /\ sock'[t] = sock[t]
      BY <2>15 DEF TypeOK
    <3>2. SlotInv(conn'[s], sock'[s], reg'[s].interest, batch'[s], due'[s])
      BY <2>13, <2>15, <3>1
    <3>3. LoopInv'
      BY <2>15, <3>1, <3>2, OneSlot
    <3> QED
      BY <2>10, <2>15, <3>1, <3>3 DEF Kept
  <2> QED
    BY <2>7, <2>8, <2>9, <2>14, <2>15, Zenon
<1> QED
  BY <1>5, <1>6

LEMMA ReadEndKeeps ==
  ASSUME TypeOK, LoopInv, NEW s \in Slots, ReadEnd(s)
  PROVE  Kept
<1> DEFINE c == conn[s]
           k == sock[s]
<1>1. c.at = "up" /\ c \in Connections /\ k \in Sockets /\ k.inq = <<>> /\ k.fin /\ due[s].own \in Nat
  BY SlotTypes DEF ReadEnd, Handles
<1>2. /\ SocketSound(k) /\ StreamSound(c, k) /\ PendingTrue(c, k)
      /\ Rested(c, reg[s].interest, batch[s], due[s]) /\ (due[s].own > 0 => c.pending = 0)
      /\ c.pending \in Nat /\ SlotInv(c, k, reg[s].interest, batch[s], due[s])
  BY <1>1, UpSlot
<1>3. CASE c.until
  <2>1. c.pending > 0 /\ due[s].own = 0
    <3>1. c.pending # 0
      BY <1>1, <1>2, <1>3, NothingPending
    <3> QED
      BY <1>1, <1>2, <3>1
  <2>2. Responses(s, c, <<"close">>, {1}, k, FALSE)
    BY <1>3 DEF ReadEnd
  <2>3. <<"close">> \in Seq(Tokens) /\ Len(<<"close">>) = 1 /\ <<"close">>[1] = "close"
    BY DEF Tokens, Finals
  <2>4. Cardinality({1}) = 1 /\ {1} \in SUBSET (1 .. Len(<<"close">>))
    <3>1. Cardinality({1}) = 1
      BY FS_Singleton
    <3> QED
      BY <2>3, <3>1
  <2>5. Fatal \/ \E cs : Reconnect(s, cs, "polite")
    <3>1. ~\A i \in {1} : KeepsAlive(<<"close">>[i])
      BY <2>3 DEF KeepsAlive
    <3>2. Cardinality({1}) <= c.pending
      BY <1>2, <2>1, <2>4
    <3> QED
      BY <2>2, <2>3, <2>4, <3>1, <3>2, ResponsesWays
  <2>6. CASE Fatal
    BY <2>6 DEF Fatal, Kept, LoopInv
  <2> QED
    BY <2>1, <2>5, <2>6, ReconnectKeeps
<1>4. CASE ~c.until
  <2>1. Reconnect(s, counters, "read")
    BY <1>4 DEF ReadEnd
  <2>2. due[s].own = 0
    <3>1. ~Contains(k.inq, "until") /\ ~Contains(k.inq, "close")
      BY <1>1 DEF Contains
    <3>2. due[s].own > 0 => HasDelay
      BY <1>2 DEF Rested, SlotInv
    <3> QED
      BY <1>1, <1>2, <1>4, <3>1, <3>2 DEF StreamSound
  <2> QED
    BY <2>1, <2>2, ReconnectKeeps
<1> QED
  BY <1>3, <1>4

LEMMA ReadFailsKeeps ==
  ASSUME TypeOK, LoopInv, NEW s \in Slots, ReadFails(s)
  PROVE  Kept
<1> DEFINE c == conn[s]
           k == sock[s]
<1>1. /\ c.at = "up" /\ c \in Connections /\ k \in Sockets /\ k.inq = <<>> /\ k.rst
      /\ due[s].own \in Nat /\ Reconnect(s, counters, "read")
  BY SlotTypes DEF ReadFails, Handles
<1>2. /\ SocketSound(k) /\ StreamSound(c, k) /\ PendingTrue(c, k)
      /\ Rested(c, reg[s].interest, batch[s], due[s]) /\ (due[s].own > 0 => c.pending = 0)
      /\ SlotInv(c, k, reg[s].interest, batch[s], due[s])
  BY <1>1, UpSlot
<1>3. due[s].own = 0
  <2>1. ~Contains(k.inq, "until") /\ ~Contains(k.inq, "close")
    BY <1>1 DEF Contains
  <2>2. due[s].own > 0 => HasDelay /\ ~c.until
    BY <1>1, <1>2, NothingPending DEF Rested, SlotInv
  <2> QED
    BY <1>1, <1>2, <2>1, <2>2 DEF StreamSound
<1> QED
  BY <1>1, <1>3, ReconnectKeeps

LEMMA ReadBlocksKeeps ==
  ASSUME TypeOK, LoopInv, NEW s \in Slots, ReadBlocks(s)
  PROVE  Kept
<1> DEFINE c == conn[s]
           k == sock[s]
           b == batch[s]
           d == due[s]
<1>1. /\ c.at = "up" /\ c \in Connections /\ "r" \in b /\ Ready(k) \cap R = {}
      /\ Rearm(s, c, k, R) /\ Handled(s, "r") /\ UNCHANGED due
  BY SlotTypes DEF ReadBlocks, Handles
<1>2. /\ SlotInv(c, k, reg[s].interest, b, d) /\ PendingTrue(c, k)
      /\ Paced(c, k, reg[s].interest, b) /\ Rested(c, reg[s].interest, b, d)
  BY <1>1, UpSlot
<1>3. k.inq = <<>> /\ ~k.fin /\ ~k.rst
  BY <1>1 DEF Ready, R, RW
<1>4. c.pending > 0 /\ (Pipeline = 1 => c.written = 0)
  BY <1>1, <1>2, <1>3 DEF Paced
<1>5. SlotInv(c, k, R, b \ {"r"}, d)
  <2>1. Paced(c, k, R, b \ {"r"})
    BY <1>2, <1>4 DEF Paced, R
  <2>2. Rested(c, R, b \ {"r"}, d)
    BY <1>2, <1>4 DEF Rested, R
  <2> QED
    BY <1>2, <2>1, <2>2 DEF SlotInv
<1>6. batch'[s] = b \ {"r"} /\ \A t \in Slots \ {s} : batch'[t] = batch[t] /\ due'[t] = due[t]
  BY <1>1, HandledSlot
<1>7. SlotInv(c, k, R, batch'[s], due'[s])
  BY <1>1, <1>5, <1>6
<1>8. LoopInv' /\ conn' = [conn EXCEPT ![s] = conn'[s]] /\ conn'[s] = c
  BY <1>1, <1>6, <1>7, RearmSlot, Zenon
<1>9. Continued(s)
  BY <1>1, <1>8 DEF Continued, Changes
<1> QED
  BY <1>8, <1>9 DEF Kept, Moves

LEMMA WriteDelayedKeeps ==
  ASSUME TypeOK, LoopInv, NEW s \in Slots, WriteDelayed(s)
  PROVE  Kept
<1> DEFINE c == conn[s]
           k == sock[s]
           b == batch[s]
           d == due[s]
           e == [d EXCEPT !.own = @ + 1]
<1>1. /\ c.at = "up" /\ c \in Connections /\ "w" \in b /\ "r" \notin b /\ c.delayed
      /\ Rearm(s, c, k, R) /\ Handled(s, "w") /\ due' = [due EXCEPT ![s].own = @ + 1]
      /\ d.own \in Nat /\ b \in SUBSET RW
  BY SlotTypes DEF WriteDelayed, Handles
<1>2. /\ SlotInv(c, k, reg[s].interest, b, d) /\ PendingTrue(c, k)
      /\ Paced(c, k, reg[s].interest, b) /\ Rested(c, reg[s].interest, b, d)
  BY <1>1, UpSlot
<1>3. d.own = 0 /\ c.pending = 0 /\ c.written = 0
  BY <1>1, <1>2 DEF Rested
<1>4. e.own = 1 /\ e.stale = d.stale
  BY <1>3 DEF TypeOK
<1>5. b \ {"w"} = {}
  BY <1>1 DEF RW
<1>6. SlotInv(c, k, R, b \ {"w"}, e)
  <2>1. Paced(c, k, R, {})
    BY <1>3 DEF Paced
  <2>2. Rested(c, R, {}, e)
    BY <1>1, <1>3, <1>4 DEF Rested, R
  <2> HIDE DEF e
  <2> QED
    BY <1>1, <1>2, <1>4, <1>5, <2>1, <2>2 DEF SlotInv
<1>7. /\ batch'[s] = b \ {"w"} /\ due'[s] = e
      /\ \A t \in Slots \ {s} : batch'[t] = batch[t] /\ due'[t] = due[t]
  BY <1>1, HandledSlot DEF TypeOK
<1>8. SlotInv(c, k, R, batch'[s], due'[s])
  BY <1>6, <1>7
<1>9. LoopInv' /\ conn' = [conn EXCEPT ![s] = conn'[s]] /\ conn'[s] = c
  BY <1>1, <1>7, <1>8, RearmSlot, Zenon
<1>10. Continued(s)
  BY <1>1, <1>9 DEF Continued, Changes
<1> QED
  BY <1>9, <1>10 DEF Kept, Moves

LEMMA WriteFailsKeeps ==
  ASSUME TypeOK, LoopInv, NEW s \in Slots, WriteFails(s)
  PROVE  Kept
<1>1. conn[s].at = "up" /\ "w" \in batch[s] /\ due[s].own \in Nat /\ Reconnect(s, counters, "write")
  BY SlotTypes DEF WriteFails, Handles
<1>2. due[s].own = 0
  BY <1>1, UpSlot DEF Rested
<1> QED
  BY <1>1, <1>2, ReconnectKeeps

LEMMA WriteBytesKeeps ==
  ASSUME TypeOK, LoopInv, NEW s \in Slots, WriteBytes(s)
  PROVE  Kept
<1> DEFINE c == conn[s]
           k == sock[s]
           b == batch[s]
           d == due[s]
           g == StartBurst(c)
           free == OutUnits - k.out
           n == IF Burst - g.written < free THEN Burst - g.written ELSE free
           j == [k EXCEPT !.out = @ + n]
           w == Wrote(g, n)
           i == WroteInterest(g, n)
<1>1. /\ c.at = "up" /\ c \in Connections /\ k \in Sockets /\ b \in SUBSET RW
      /\ "w" \in b /\ "r" \notin b /\ ~c.delayed /\ ~k.rst /\ d.own \in Nat
      /\ k.out \in 0 .. OutUnits /\ k.got \in Int
  BY SlotTypes DEF WriteBytes, Handles
<1>2. Rearm(s, w, j, i) /\ Handled(s, "w") /\ UNCHANGED due
  BY Zenon DEF WriteBytes
<1>3. /\ SlotInv(c, k, reg[s].interest, b, d) /\ SocketSound(k) /\ StreamSound(c, k)
      /\ PendingTrue(c, k) /\ Paced(c, k, reg[s].interest, b) /\ Rested(c, reg[s].interest, b, d)
      /\ c.pending \in Nat
  BY <1>1, UpSlot
<1>4. d.own = 0 /\ k.out < OutUnits
  BY <1>1, <1>3 DEF Rested, Paced
<1>5. /\ g.at = "up" /\ g.written = c.written /\ g.delayed = FALSE /\ g.until = c.until
      /\ g.written \in 0 .. Burst - 1 /\ g \in Connections
  <2>1. g \in Connections /\ g.written = c.written
    BY <1>1, HandlerTypes
  <2>2. g.at = "up" /\ g.delayed = FALSE /\ g.until = c.until
    BY <1>1 DEF StartBurst, Connections
  <2> HIDE DEF g
  <2> QED
    BY <1>3, <2>1, <2>2, BurstIsNat DEF PendingTrue, Connections
<1>6. /\ g.pending \in 1 .. Pipeline
      /\ g.pending * RequestUnits =
           Burst - g.written + k.out + k.got + RequestUnits * (Replies(k) + IF c.until THEN 1 ELSE 0)
      /\ IF c.written = 0 THEN c.pending = 0 /\ g.pending = Pipeline ELSE g.pending = c.pending
  <2>1. CASE c.written = 0
    <3>1. c.pending = 0
      BY <1>1, <1>3, <2>1 DEF Paced
    <3>2. ~c.until /\ k.out = 0 /\ k.got = 0 /\ k.inq = <<>>
      BY <1>1, <1>3, <3>1, NothingPending
    <3>3. Replies(k) = 0
      BY <3>2, FS_EmptySet DEF Replies
    <3>4. g.pending = Pipeline
      BY <1>1, <2>1 DEF StartBurst, Connections
    <3> HIDE DEF g
    <3> QED
      BY <1>5, <2>1, <3>1, <3>2, <3>3, <3>4, ConnectionOK DEF Burst
  <2>2. CASE c.written # 0
    <3>1. c.pending # 0
      BY <1>1, <1>3, <2>2, NothingPending
    <3>2. g = c
      BY <2>2 DEF StartBurst
    <3> HIDE DEF g
    <3> QED
      BY <1>3, <1>5, <2>2, <3>1, <3>2, ConnectionOK DEF PendingTrue, Unsent
  <2> QED
    BY <2>1, <2>2
<1> HIDE DEF g
<1>7. n \in Nat /\ n > 0 /\ n <= Burst - g.written /\ k.out + n \in 0 .. OutUnits
  BY <1>1, <1>4, <1>5, BurstIsNat, LoopOK
<1> HIDE DEF n
<1>8. /\ w.at = "up" /\ w.pending = g.pending /\ w.delayed = FALSE /\ w.until = c.until
      /\ w.written = (IF g.written + n = Burst THEN 0 ELSE g.written + n)
      /\ i = (IF g.written + n = Burst THEN R ELSE RW)
  BY <1>5 DEF Wrote, WroteInterest, Connections
<1>9. /\ j.out = k.out + n /\ j.got = k.got /\ j.half = k.half /\ j.net = k.net
      /\ j.inq = k.inq /\ j.fin = k.fin /\ j.rst = k.rst
  BY <1>1 DEF Sockets
<1> HIDE DEF w, i, j
<1>10. SocketSound(j) /\ StreamSound(w, j)
  BY <1>3, <1>8, <1>9 DEF SocketSound, StreamSound
<1>11. PendingTrue(w, j)
  <2>1. Unsent(w) = Burst - g.written - n /\ w.written < Burst
    BY <1>5, <1>7, <1>8, BurstIsNat DEF Unsent
  <2>2. Unsent(w) + j.out + j.got = Burst - g.written + k.out + k.got
    BY <1>1, <1>5, <1>7, <1>9, <2>1, BurstIsNat, LoopOK
  <2>3. Replies(j) = Replies(k)
    BY <1>9 DEF Replies
  <2>4. w.pending \in 0 .. Pipeline
    BY <1>6, <1>8
  <2> QED
    BY <1>6, <1>8, <2>1, <2>2, <2>3, <2>4 DEF PendingTrue
<1>12. Paced(w, j, i, {})
  BY <1>5, <1>6, <1>7, <1>8, BurstIsNat DEF Paced, R, RW
<1>13. Rested(w, i, {}, d)
  BY <1>4, <1>6, <1>8 DEF Rested
<1>14. SlotInv(w, j, i, {}, d)
  BY <1>1, <1>3, <1>8, <1>9, <1>10, <1>11, <1>12, <1>13 DEF SlotInv
<1>15. batch'[s] = {} /\ \A t \in Slots \ {s} : batch'[t] = batch[t] /\ due'[t] = due[t]
  <2>1. b \ {"w"} = {}
    BY <1>1 DEF RW
  <2> QED
    BY <1>2, <2>1, HandledSlot
<1>16. LoopInv' /\ conn' = [conn EXCEPT ![s] = conn'[s]] /\ conn'[s] = w
  <2>1. SlotInv(w, j, i, batch'[s], due'[s])
    BY <1>2, <1>14, <1>15
  <2> QED
    BY <1>2, <1>15, <2>1, RearmSlot, Zenon
<1>17. StartsBurst(s) \/ Continued(s)
  <2>1. CASE c.written = 0
    BY <1>1, <1>6, <1>8, <1>16, <2>1 DEF StartsBurst, Changes
  <2>2. CASE c.written # 0
    <3>1. c.delayed = FALSE
      BY <1>1 DEF Connections
    <3> QED
      BY <1>1, <1>6, <1>8, <1>16, <2>2, <3>1 DEF Continued, Changes
  <2> QED
    BY <2>1, <2>2
<1> QED
  BY <1>16, <1>17 DEF Kept, Moves

LEMMA FireDelayKeeps ==
  ASSUME TypeOK, LoopInv, NEW s \in Slots, NEW whose \in {"own", "stale"}, FireDelay(s, whose)
  PROVE  Kept
<1> DEFINE c == conn[s]
           k == sock[s]
           b == batch[s]
           d == due[s]
           e == [d EXCEPT ![whose] = @ - 1]
           new == DelayFired(c)
<1>1. /\ c \in Connections /\ b \in SUBSET RW /\ d.own \in Nat /\ d.stale \in Nat
      /\ d[whose] > 0 /\ due' = [due EXCEPT ![s][whose] = @ - 1] /\ UNCHANGED batch
      /\ SlotInv(c, k, reg[s].interest, b, d)
  BY SlotTypes DEF FireDelay, LoopInv
<1>2. whose = "own" /\ d.own > 0 /\ d.stale = 0
  BY <1>1 DEF SlotInv
<1>3. c.at = "up"
  BY <1>1, <1>2 DEF SlotInv, Fresh
<1>4. /\ PendingTrue(c, k) /\ Paced(c, k, reg[s].interest, b) /\ Rested(c, reg[s].interest, b, d)
      /\ StreamSound(c, k)
  BY <1>3, UpSlot
<1>5. d.own = 1 /\ c.delayed /\ c.pending = 0 /\ c.written = 0 /\ "w" \notin b
  BY <1>2, <1>4 DEF Rested
<1>6. e.own = 0 /\ e.stale = 0 /\ due'[s] = e
  BY <1>1, <1>2, <1>5 DEF TypeOK
<1>7. Rearm(s, new, k, RW)
  BY <1>3 DEF FireDelay
<1>8. /\ new.at = "up" /\ new.pending = 0 /\ new.written = 0 /\ new.delayed = FALSE
      /\ new.until = c.until
  BY <1>1, <1>3, <1>5 DEF DelayFired, Connections
<1> HIDE DEF e, new
<1>9. SlotInv(new, k, RW, b, e)
  <2>1. StreamSound(new, k)
    BY <1>4, <1>8 DEF StreamSound
  <2>2. PendingTrue(new, k)
    BY <1>4, <1>5, <1>8 DEF PendingTrue, Unsent
  <2>3. Paced(new, k, RW, b)
    BY <1>4, <1>5, <1>8 DEF Paced
  <2>4. Rested(new, RW, b, e)
    BY <1>6, <1>8 DEF Rested, RW
  <2> QED
    BY <1>1, <1>3, <1>6, <1>8, <2>1, <2>2, <2>3, <2>4 DEF SlotInv
<1>10. LoopInv' /\ conn' = [conn EXCEPT ![s] = conn'[s]] /\ conn'[s] = new
  <2>1. \A t \in Slots \ {s} : batch'[t] = batch[t] /\ due'[t] = due[t]
    BY <1>1 DEF TypeOK
  <2>2. SlotInv(new, k, RW, batch'[s], due'[s])
    BY <1>1, <1>6, <1>9
  <2> QED
    BY <1>7, <2>1, <2>2, RearmSlot, Zenon
<1>11. WakesUp(s)
  BY <1>3, <1>5, <1>6, <1>8, <1>10 DEF WakesUp, Changes
<1> QED
  BY <1>10, <1>11 DEF Kept, Moves

\* Only events of ready sockets are found; the other steps touch no slot.
LEMMA PollKeeps ==
  ASSUME TypeOK, LoopInv, Poll
  PROVE  Kept
<1>1. UNCHANGED <<conn, sock, due>> /\ \A s \in Slots : reg'[s].interest = reg[s].interest
  BY DEF Poll, TypeOK
<1>2. ASSUME NEW s \in Slots PROVE SlotInv(conn[s], sock[s], reg[s].interest, batch'[s], due[s])
  <2> DEFINE c == conn[s]
             k == sock[s]
             i == reg[s].interest
             b == batch'[s]
             d == due[s]
  <2>1. SlotInv(c, k, i, batch[s], d) /\ k \in Sockets
    BY SlotTypes DEF LoopInv
  <2>2. b \subseteq Ready(k) \cap i
    BY DEF Poll, Found
  <2>3. b # {} => k.net # "syn"
    BY <2>1, <2>2 DEF SlotInv, SocketSound, Ready
  <2>4. CASE c.at = "up"
    <3>1. k.net = "up" /\ PendingTrue(c, k) /\ Paced(c, k, i, batch[s]) /\ Rested(c, i, batch[s], d)
      BY <2>1, <2>4 DEF SlotInv
    <3>2. Paced(c, k, i, b)
      <4>1. "w" \in b => k.rst \/ k.out < OutUnits
        BY <2>2, <3>1 DEF Ready, RW
      <4>2. "r" \in b => k.rst \/ k.inq # <<>> \/ k.fin
        BY <2>2, <3>1 DEF Ready, RW
      <4> QED
        BY <2>2, <3>1, <4>1, <4>2 DEF Paced
    <3>3. Rested(c, i, b, d)
      BY <2>2, <3>1 DEF Rested
    <3> QED
      BY <2>1, <2>3, <2>4, <3>1, <3>2, <3>3 DEF SlotInv
  <2>5. CASE c.at # "up"
    BY <2>1, <2>3, <2>5 DEF SlotInv
  <2> QED
    BY <2>4, <2>5
<1>3. LoopInv'
  BY <1>1, <1>2 DEF LoopInv
<1> QED
  BY <1>1, <1>3 DEF Kept

LEMMA InitKeeps == Init => LoopInv
<1> SUFFICES ASSUME Init, NEW s \in Slots
             PROVE  SlotInv(conn[s], sock[s], reg[s].interest, batch[s], due[s])
  BY DEF LoopInv
<1>1. conn[s] \in {NewConnection(TRUE), NoConnection}
  BY DEF Init
<1>2. sock[s] = NewSocket /\ reg[s].interest = RW /\ batch[s] = {} /\ due[s] = [own |-> 0, stale |-> 0]
  BY DEF Init, NewRegistration
<1> QED
  BY <1>1, <1>2, NewSlot, Zenon

(***************************************************************************)
(* Every step keeps every slot sound and moves at most one connection.     *)
(***************************************************************************)
LEMMA StepKeeps == Conforming /\ TypeOK /\ LoopInv /\ [Next]_vars => Kept
<1> SUFFICES ASSUME Conforming, TypeOK, LoopInv, [Next]_vars PROVE Kept
  OBVIOUS
<1>1. CASE Poll
  BY <1>1, PollKeeps
<1>2. CASE \/ EventsDone \/ NoTick \/ Tick \/ PollFails \/ Stop \/ UNCHANGED vars
           \/ \E s \in Slots : WriteFatal(s)
  <2>1. UNCHANGED <<conn, sock, reg, batch, due>>
    BY <1>2 DEF EventsDone, NoTick, Tick, PollFails, Stop, vars, WriteFatal, Fatal
  <2> QED
    BY <2>1 DEF Kept, LoopInv
<1>3. ASSUME NEW s \in Slots, Server(s) PROVE Kept
  BY <1>3, ServerKeeps DEF Kept
<1>4. ASSUME NEW s \in Slots, FireDelay(s, "own") \/ FireDelay(s, "stale") PROVE Kept
  BY <1>4, FireDelayKeeps
<1> QED
  BY <1>1, <1>2, <1>3, <1>4, ConnectEventKeeps, ReadBytesKeeps, ReadEndKeeps, ReadFailsKeeps,
     ReadBlocksKeeps, WriteDelayedKeeps, WriteBytesKeeps, WriteFailsKeeps DEF Next, Turn

LEMMA LoopInvHolds == Conforming => (Spec => [](TypeOK /\ LoopInv))
<1> SUFFICES ASSUME Conforming PROVE Spec => [](TypeOK /\ LoopInv)
  OBVIOUS
<1>1. Init => LoopInv
  BY InitKeeps
<1>2. TypeOK /\ LoopInv /\ [Next]_vars => LoopInv'
  BY StepKeeps DEF Kept
<1> QED
  BY <1>1, <1>2, LoopTypeCorrect, PTL DEF Spec

-----------------------------------------------------------------------------
(* What it makes of the properties. *)

(***************************************************************************)
(* pending counts the unanswered requests of the burst, wherever they are  *)
(* (connection.rs, writable and responses), as long as the server answers  *)
(* only what it has got: with any pipelining and buffers, any framing of   *)
(* the responses, and through resets, hangups and refused connections, or  *)
(* with delays and connections that are not broken off.                    *)
(***************************************************************************)
THEOREM RequestsAwaited == Conforming => (Spec => []EveryRequestAwaited)
<1> SUFFICES ASSUME Conforming PROVE Spec => []EveryRequestAwaited
  OBVIOUS
<1>1. LoopInv => EveryRequestAwaited
  BY DEF LoopInv, SlotInv, PendingTrue, EveryRequestAwaited, Owed
<1>2. Spec => [](TypeOK /\ LoopInv)
  BY LoopInvHolds
<1> QED
  BY <1>1, <1>2, PTL

(***************************************************************************)
(* Without pipelining a connection that is up always has something to wait *)
(* for: room to write, its own deadline, or the answer to a request that   *)
(* has left it whole (connection.rs, rearm_or_close and the short read),   *)
(* under the same hypothesis about the server and its connections.         *)
(* With pipelining it does not: the rest of a burst can be left with the   *)
(* readable interest (MCStalledBurst).  This is a safety property; that    *)
(* the wake-up comes needs the fairness that only the runs assume.         *)
(***************************************************************************)
THEOREM NoneForgotten == Conforming /\ Pipeline = 1 => (Spec => []NeverForgotten)
<1> SUFFICES ASSUME Conforming, Pipeline = 1 PROVE Spec => []NeverForgotten
  OBVIOUS
<1>1. TypeOK /\ LoopInv => NeverForgotten
  <2> SUFFICES ASSUME TypeOK, LoopInv, NEW s \in Slots, conn[s].at = "up",
                      "w" \notin reg[s].interest, due[s].own <= 0
               PROVE  Unsent(conn[s]) = 0 /\ Owed(s) > 0
    <3>1. ASSUME TypeOK, NEW s \in Slots PROVE due[s].own \in Nat
      BY <3>1 DEF TypeOK
    <3> QED
      BY <3>1 DEF NeverForgotten
  <2>1. /\ PendingTrue(conn[s], sock[s])
        /\ Paced(conn[s], sock[s], reg[s].interest, batch[s])
        /\ Rested(conn[s], reg[s].interest, batch[s], due[s])
    BY DEF LoopInv, SlotInv
  <2>2. due[s].own = 0 /\ conn[s].written \in 0 .. Burst
    BY DEF TypeOK, Connections
  <2>3. conn[s].pending > 0 /\ conn[s].pending \in Nat
    BY <2>1, <2>2, ConnectionOK DEF Rested, PendingTrue
  <2>4. Unsent(conn[s]) = 0
    BY <2>1, <2>2, BurstIsNat DEF Paced, Unsent
  <2>5. Owed(s) = conn[s].pending * RequestUnits
    BY <2>1 DEF PendingTrue, Owed
  <2>6. conn[s].pending * RequestUnits > 0
    BY <2>3, ConnectionOK
  <2> QED
    BY <2>4, <2>5, <2>6
<1>2. Spec => [](TypeOK /\ LoopInv)
  BY LoopInvHolds
<1> QED
  BY <1>1, <1>2, PTL

(***************************************************************************)
(* Without pipelining a burst that is partly written keeps the writable    *)
(* interest (connection.rs, writable and the short read): no answer can    *)
(* come in between.  With pipelining it does not (MCStalledBurst).         *)
(***************************************************************************)
THEOREM SentWhole == Conforming /\ Pipeline = 1 => (Spec => []WritableUntilSent)
<1> SUFFICES ASSUME Conforming, Pipeline = 1 PROVE Spec => []WritableUntilSent
  OBVIOUS
<1>1. LoopInv => WritableUntilSent
  BY DEF LoopInv, SlotInv, Paced, WritableUntilSent
<1>2. Spec => [](TypeOK /\ LoopInv)
  BY LoopInvHolds
<1> QED
  BY <1>1, <1>2, PTL

-----------------------------------------------------------------------------
(* The refinement: the initial states map to initial states of ClosedLoop, *)
(* and every step to one of its steps or to a stutter.                     *)

Owing == [s \in Slots |-> IF conn[s].at = "up" THEN Owed(s) ELSE 0]

\* What is owed, read off the pending counters.
LEMMA OwingIsPending ==
  ASSUME LoopInv
  PROVE  Owing = [s \in Slots |-> conn[s].pending * RequestUnits]
<1> SUFFICES ASSUME NEW s \in Slots
             PROVE  (IF conn[s].at = "up" THEN Owed(s) ELSE 0) = conn[s].pending * RequestUnits
  BY DEF Owing
<1>1. SlotInv(conn[s], sock[s], reg[s].interest, batch[s], due[s])
  BY DEF LoopInv
<1>2. CASE conn[s].at = "up"
  BY <1>1, <1>2 DEF SlotInv, PendingTrue, Owed
<1>3. CASE conn[s].at # "up"
  BY <1>1, <1>3, ConnectionOK DEF SlotInv, Fresh
<1> QED
  BY <1>2, <1>3

LEMMA OwingNext ==
  ASSUME LoopInv'
  PROVE  Owing' = [s \in Slots |-> conn'[s].pending * RequestUnits]
<1> SUFFICES ASSUME NEW s \in Slots
             PROVE  (IF conn[s].at = "up" THEN Owed(s) ELSE 0)' = conn'[s].pending * RequestUnits
  BY DEF Owing
<1>1. SlotInv(conn'[s], sock'[s], reg'[s].interest, batch'[s], due'[s])
  BY DEF LoopInv
<1>2. CASE conn'[s].at = "up"
  BY <1>1, <1>2 DEF SlotInv, PendingTrue, Owed
<1>3. CASE conn'[s].at # "up"
  BY <1>1, <1>3, ConnectionOK DEF SlotInv, Fresh
<1> QED
  BY <1>2, <1>3

LEMMA LoopActions ==
  ASSUME NEW s \in Slots
  PROVE  /\ Loop!SendBurst(s) <=> Owing[s] = 0 /\ Owing' = [Owing EXCEPT ![s] = Burst]
         /\ Loop!TakeAnswers(s) <=>
              \E n \in 1 .. Owing[s] \div RequestUnits :
                Owing' = [Owing EXCEPT ![s] = @ - n * RequestUnits]
         /\ Loop!StartOver(s) <=> Owing' = [Owing EXCEPT ![s] = 0]
  BY DEF Loop!SendBurst, Loop!TakeAnswers, Loop!StartOver, Owing

\* Whole requests divide out of their units.
LEMMA WholeRequestsOf ==
  ASSUME NEW p \in Nat
  PROVE  (p * RequestUnits) \div RequestUnits = p
<1>1. RequestUnits \in Nat \ {0}
  BY ConnectionOK
<1>2. ASSUME NEW q \in Nat, NEW u \in Nat \ {0} PROVE (q * u) \div u = q
  <2> DEFINE d == (q * u) \div u
  <2>1. q * u \in Nat
    OBVIOUS
  <2>2. d \in Int /\ u * d <= q * u /\ q * u < u * (d + 1)
    BY <2>1
  <2> HIDE DEF d
  <2>3. ASSUME d < q PROVE FALSE
    <3>1. d + 1 <= q
      BY <2>2, <2>3
    <3>2. u * (d + 1) <= u * q
      BY <2>2, <3>1
    <3> QED
      BY <2>2, <3>2
  <2>4. ASSUME d > q PROVE FALSE
    <3>1. q + 1 <= d
      BY <2>2, <2>4
    <3>2. u * (q + 1) <= u * d
      BY <2>2, <3>1
    <3>3. u * (q + 1) = q * u + u
      OBVIOUS
    <3> QED
      BY <2>2, <3>2, <3>3
  <2> QED
    BY <2>2, <2>3, <2>4 DEF d
<1> QED
  BY <1>1, <1>2

\* A step that moves one connection is a step of the closed loop, or none.
LEMMA MovesAreLoopSteps ==
  ASSUME TypeOK, TypeOK', LoopInv, LoopInv', NEW s \in Slots, Moves(s)
  PROVE  Loop!Next \/ Owing' = Owing
<1> DEFINE owing(f) == [t \in Slots |-> f[t].pending * RequestUnits]
<1>1. Owing = owing(conn) /\ Owing' = owing(conn')
  BY OwingIsPending, OwingNext
<1>2. /\ DOMAIN conn = Slots /\ DOMAIN conn' = Slots
      /\ \A t \in Slots \ {s} : conn'[t] = conn[t]
  BY DEF TypeOK, Moves
<1>3. /\ Owing' = [Owing EXCEPT ![s] = conn'[s].pending * RequestUnits]
      /\ Owing[s] = conn[s].pending * RequestUnits
      /\ Owing'[s] = conn'[s].pending * RequestUnits
      /\ Owing = [Owing EXCEPT ![s] = conn[s].pending * RequestUnits]
  BY <1>1, <1>2
<1>4. RequestUnits \in Nat \ {0} /\ Pipeline \in Nat \ {0}
  BY ConnectionOK
<1>5. ASSUME StartsBurst(s) PROVE Loop!SendBurst(s)
  <2>1. conn[s].pending = 0 /\ conn'[s].pending = Pipeline
    BY <1>5 DEF StartsBurst, Changes
  <2>2. Owing[s] = 0 /\ Owing' = [Owing EXCEPT ![s] = Burst]
    BY <1>3, <1>4, <2>1 DEF Burst
  <2> QED
    BY <2>2, LoopActions, Zenon
<1>6. ASSUME GetsAnswers(s) PROVE Loop!TakeAnswers(s)
  <2>1. PICK n \in 1 .. conn[s].pending :
               Changes(s, conn[s].pending - n,
                       IF n = conn[s].pending THEN HasDelay ELSE conn[s].delayed)
    BY <1>6 DEF GetsAnswers
  <2>2. conn[s].pending \in Nat /\ n \in Nat
    <3>1. conn[s].pending \in Int
      BY <1>4 DEF TypeOK, Connections, Wrapped
    <3> QED
      BY <3>1
  <2>3. conn'[s].pending = conn[s].pending - n
    BY <2>1 DEF Changes
  <2>4. n \in 1 .. Owing[s] \div RequestUnits
    BY <1>3, <2>1, <2>2, WholeRequestsOf
  <2>5. conn'[s].pending * RequestUnits = Owing[s] - n * RequestUnits
    <3> DEFINE p == conn[s].pending
    <3>1. (p - n) * RequestUnits = p * RequestUnits - n * RequestUnits
      <4>1. p \in Nat
        BY <2>2
      <4> HIDE DEF p
      <4> QED
        BY <1>4, <2>2, <4>1
    <3> QED
      BY <1>3, <2>3, <3>1
  <2>6. Owing' = [Owing EXCEPT ![s] = @ - n * RequestUnits]
    BY <1>3, <2>5
  <2> QED
    BY <2>4, <2>6, LoopActions, Zenon
<1>7. ASSUME WakesUp(s) \/ Continued(s) PROVE Owing' = Owing
  <2>1. conn'[s].pending = conn[s].pending
    BY <1>7 DEF WakesUp, Continued, Changes
  <2> QED
    BY <1>3, <2>1
<1>8. ASSUME Replaced(s) PROVE Loop!StartOver(s)
  <2>1. conn'[s].pending = 0
    BY <1>8, NewConnections, Zenon DEF Replaced
  <2>2. conn'[s].pending * RequestUnits = 0
    BY <1>4, <2>1
  <2> QED
    BY <1>3, <2>2, LoopActions
<1> QED
  BY <1>5, <1>6, <1>7, <1>8, Zenon DEF Moves, Loop!Next

LEMMA InitIsLoopInit == Init => Loop!Init
<1> SUFFICES ASSUME Init PROVE Loop!Init
  OBVIOUS
<1>1. ASSUME NEW s \in Slots PROVE conn[s].pending * RequestUnits = 0
  <2>1. conn[s].pending = 0
    BY NewConnections DEF Init
  <2> QED
    BY <2>1, ConnectionOK
<1>2. Owing = [s \in Slots |-> 0]
  BY <1>1, InitKeeps, OwingIsPending
<1> QED
  BY <1>2 DEF Loop!Init, Owing

(***************************************************************************)
(* The event loop implements the closed loop: a burst goes out whole, only *)
(* when nothing is owed, each read that completes n responses answers n    *)
(* requests, and a lost connection starts over (connection.rs, writable    *)
(* and readable; eventloop.rs, run), whatever breaks its connections, as   *)
(* long as the server answers only what it has got and the script has no   *)
(* delays: the deadline of a lost connection could start a burst early,    *)
(* and the deadline of its successor one more burst (DelayServed).         *)
(***************************************************************************)
THEOREM LoopRefines ==
  {"early", "interim"} \cap Faults = {} /\ ~HasDelay => (Spec => ImplementsClosedLoop)
<1> SUFFICES ASSUME {"early", "interim"} \cap Faults = {}, ~HasDelay
             PROVE  Spec => ImplementsClosedLoop
  OBVIOUS
<1>1. Init => Loop!Init
  BY InitIsLoopInit
<1>2. TypeOK /\ LoopInv /\ TypeOK' /\ LoopInv' /\ [Next]_vars => [Loop!Next]_Owing
  <2> SUFFICES ASSUME TypeOK, LoopInv, TypeOK', LoopInv', [Next]_vars
               PROVE  [Loop!Next]_Owing
    OBVIOUS
  <2>1. CASE UNCHANGED conn
    BY <2>1, OwingIsPending, OwingNext
  <2>2. CASE \E s \in Slots : Moves(s)
    BY <2>2, MovesAreLoopSteps
  <2>3. Conforming
    BY DEF Conforming
  <2> QED
    BY <2>1, <2>2, <2>3, StepKeeps DEF Kept
<1>3. Spec => [](TypeOK /\ LoopInv)
  BY LoopInvHolds DEF Conforming
<1> QED
  BY <1>1, <1>2, <1>3, PTL DEF Spec, ImplementsClosedLoop, Loop!Spec, Owing
================================================================================
