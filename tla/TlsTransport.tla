------------------------------ MODULE TlsTransport ------------------------------
(***************************************************************************)
(* A connection of the loop over TLS: TlsStream (crates/wrkrs/src/tls.rs)  *)
(* with the handlers that call it (connection.rs, eventloop.rs), its       *)
(* rustls session, edge-triggered readiness and a TLS server.              *)
(*                                                                         *)
(* Plaintext, records and socket buffers are counted in units.  The script *)
(* is static and the pipeline one request; a handler is one step, sockets  *)
(* do not fail and delays do not occur: those are EventLoop's.             *)
(***************************************************************************)
EXTENDS Integers, Sequences

CONSTANTS
    RequestUnits, \* how long the request is
    Tls13,        \* whether the server's first flight is its last
    FlightUnits,  \* how long that flight is
    Tickets,      \* how many session tickets follow the handshake
    OutUnits,     \* units the socket buffers hold towards the server
    InUnits,      \* units they hold towards the client
    ReadUnits,    \* units one read_tls takes
    QueueUnits    \* plaintext the session takes ahead of the socket

ASSUME TlsOK ==
    /\ RequestUnits \in Nat \ {0} /\ FlightUnits \in Nat \ {0}
    /\ Tls13 \in BOOLEAN /\ Tickets \in Nat
    /\ OutUnits \in Nat \ {0} /\ InUnits \in Nat \ {0}
    /\ ReadUnits \in Nat \ {0} /\ QueueUnits \in Nat \ {0}

VARIABLES
    session,  \* rustls: whether it is handshaking, the records it has to write
    sending,  \* TlsStream::sending
    con,      \* the slot and its Connection; handed and reported count, for the
              \* properties, what of the burst the session was given and what
              \* the transport said is on the wire
    reg,      \* the registration: interest, queued edge, and the event to handle
    sock,     \* the TCP connection and its two buffers
    server    \* what it still has to send, the last unit it received

vars == <<session, sending, con, reg, sock, server>>

R == {"r"}
RW == {"r", "w"}

\* A unit on the wire: of the handshake, or part i of the request.
Unit(kind, i) == [kind |-> kind, i |-> i]
Plain(kind) == Unit(kind, 0)

Init ==
    /\ session = [handshaking |-> TRUE, records |-> <<Plain("hello")>>]
    /\ sending = 0
    /\ con = [connecting |-> TRUE, written |-> 0, pending |-> 0, handed |-> 0, reported |-> 0]
    /\ reg = [interest |-> RW, queued |-> FALSE, event |-> {}]
    /\ sock = [up |-> FALSE, out |-> <<>>, in |-> <<>>]
    /\ server = [todo |-> <<>>, last |-> Plain("none")]

-----------------------------------------------------------------------------
(* The socket and the session. *)

Lesser(m, n) == IF m < n THEN m ELSE n

Ready(k) == {e \in RW : \/ e = "r" /\ k.in # <<>>
                        \/ e = "w" /\ k.up /\ Len(k.out) < OutUnits}

\* Whether flush_tls gets all of these records out.
Fits(records) == Len(records) <= OutUnits - Len(sock.out)

\* What read_tls finds.
Taken == SubSeq(sock.in, 1, Lesser(ReadUnits, Len(sock.in)))

Has(units, kind) == \E i \in 1 .. Len(units) : units[i].kind = kind

\* The socket after the records that fit were written and n units were read.
Exchanged(records, n) ==
    LET k == Lesser(Len(records), OutUnits - Len(sock.out))
    IN  [sock EXCEPT !.out = @ \o SubSeq(records, 1, k), !.in = SubSeq(@, n + 1, Len(@))]

\* The records that do not fit.
Left(records) == SubSeq(records, OutUnits - Len(sock.out) + 1, Len(records))

\* The handler is through; a ready socket is queued again by its re-registration.
Rearm(interest, event) ==
    reg' = [interest |-> interest, queued |-> Ready(sock') \cap interest # {},
            event |-> reg.event \ event]

\* poll() returns, with the slot's event if it is queued and still ready.
PollEvent ==
    /\ reg.event = {}
    /\ reg' = [reg EXCEPT !.queued = FALSE,
                         !.event = IF reg.queued THEN Ready(sock) \cap reg.interest ELSE {}]
    /\ UNCHANGED <<session, sending, con, sock, server>>

-----------------------------------------------------------------------------
(* The handshake: a step per event of a connecting slot. *)

Established(s) == ~s.handshaking

\* process_new_packets: the last flight ends the handshake; the client's Finished
\* follows the server's first.
Processed(units) ==
    [handshaking |-> ~Has(units, "sfin"),
     records |-> IF Has(units, IF Tls13 THEN "sfin" ELSE "sdone") THEN <<Plain("cfin")>> ELSE <<>>]

(***************************************************************************)
(* One write_tls, and once the records are out one read_tls: a session     *)
(* that handshakes wants to read only then.  An established session starts *)
(* the connection; any other leaves the registration as it is.             *)
(***************************************************************************)
Handshake ==
    /\ con.connecting /\ reg.event # {}
    /\ LET units == IF Fits(session.records) THEN Taken ELSE <<>>
       IN  /\ sock' = Exchanged(session.records, Len(units))
           /\ session' = IF Fits(session.records)
                         THEN Processed(units)
                         ELSE [session EXCEPT !.records = Left(@)]
    /\ IF Established(session')
       THEN Rearm(RW, RW) /\ con' = [con EXCEPT !.connecting = FALSE, !.written = 0]
       ELSE reg' = [reg EXCEPT !.event = {}] /\ UNCHANGED con
    /\ UNCHANGED <<sending, server>>

-----------------------------------------------------------------------------
(* The handlers of a connected slot: readable fires before writable. *)

Readable == ~con.connecting /\ "r" \in reg.event
Writable == ~con.connecting /\ reg.event = {"w"}

\* readable(): flush, then read; without a response, or blocked, it waits to read.
Read ==
    /\ Readable
    /\ LET units == IF Fits(session.records) THEN Taken ELSE <<>>
           answered == Has(units, "response")
       IN  /\ sock' = Exchanged(session.records, Len(units))
           /\ session' = [session EXCEPT !.records = Left(@)]
           /\ con' = [con EXCEPT !.pending = IF answered THEN @ - 1 ELSE @]
           /\ Rearm(IF answered THEN RW ELSE R, R)
    /\ UNCHANGED <<sending, server>>

\* writable(), written = 0: the burst starts, or starts over.
StartBurst ==
    IF con.written > 0 THEN con
    ELSE [con EXCEPT !.pending = 1,
                     !.handed = IF con.pending = 0 THEN 0 ELSE @,
                     !.reported = IF con.pending = 0 THEN 0 ELSE @]

\* The transport said that n more units went out.
Advanced(c, n) ==
    [c EXCEPT !.written = IF @ + n = RequestUnits THEN 0 ELSE @ + n, !.reported = @ + n]

AfterWrite(c) == IF c.written = 0 THEN R ELSE RW

\* Slip: a blocked write waits for the answer.
RetryRead == R

\* Interest::READABLE | Interest::WRITABLE after a WouldBlock.
Retry == RW

\* write(): the records of before still do not fit.
WriteBlocked ==
    /\ Writable
    /\ ~Fits(session.records)
    /\ sock' = Exchanged(session.records, 0)
    /\ session' = [session EXCEPT !.records = Left(@)]
    /\ con' = StartBurst
    /\ Rearm(Retry, {"w"})
    /\ UNCHANGED <<sending, server>>

\* write(): they are out, and the plaintext they carried is reported.
ReportSent ==
    /\ Writable
    /\ Fits(session.records) /\ sending > 0
    /\ sock' = Exchanged(session.records, 0)
    /\ session' = [session EXCEPT !.records = <<>>]
    /\ con' = Advanced(StartBurst, sending)
    /\ sending' = 0
    /\ Rearm(AfterWrite(con'), {"w"})
    /\ UNCHANGED server

\* The records of the next n units of the burst, behind those there are.
Queued(n) == session.records \o [i \in 1 .. n |-> Unit("request", con.written + i)]

Chunk == Lesser(RequestUnits - con.written, QueueUnits)

\* Slip: the retry queues the chunk again.
WriteChunkAgain ==
    /\ Writable
    /\ Fits(session.records)
    /\ LET records == Queued(Chunk)
           c == [StartBurst EXCEPT !.handed = @ + Chunk]
       IN  /\ sock' = Exchanged(records, 0)
           /\ session' = [session EXCEPT !.records = Left(records)]
           /\ IF Fits(records)
              THEN /\ con' = Advanced(c, Chunk)
                   /\ Rearm(AfterWrite(con'), {"w"}) /\ UNCHANGED sending
              ELSE con' = c /\ sending' = Chunk /\ Rearm(Retry, {"w"})
    /\ UNCHANGED server

\* Slip: a chunk is reported before its records are out.
WriteChunkEarly ==
    /\ Writable
    /\ Fits(session.records) /\ sending = 0
    /\ LET records == Queued(Chunk)
       IN  /\ sock' = Exchanged(records, 0)
           /\ session' = [session EXCEPT !.records = Left(records)]
           /\ con' = Advanced([StartBurst EXCEPT !.handed = @ + Chunk], Chunk)
           /\ Rearm(AfterWrite(con'), {"w"})
    /\ UNCHANGED <<sending, server>>

\* write(): the next chunk is queued, and reported if its records get out.
WriteChunk ==
    /\ Writable
    /\ Fits(session.records) /\ sending = 0
    /\ LET records == Queued(Chunk)
           c == [StartBurst EXCEPT !.handed = @ + Chunk]
       IN  /\ sock' = Exchanged(records, 0)
           /\ session' = [session EXCEPT !.records = Left(records)]
           /\ IF Fits(records)
              THEN /\ con' = Advanced(c, Chunk)
                   /\ Rearm(AfterWrite(con'), {"w"}) /\ UNCHANGED sending
              ELSE con' = c /\ sending' = Chunk /\ Rearm(Retry, {"w"})
    /\ UNCHANGED server

Client == PollEvent \/ Handshake \/ Read \/ WriteBlocked \/ ReportSent \/ WriteChunk

-----------------------------------------------------------------------------
(* The other side. *)

\* The other side changed the socket and raised this edge.
Raise(k, edges) ==
    /\ sock' = k
    /\ reg' = [reg EXCEPT !.queued = @ \/ edges \cap reg.interest # {}]
    /\ UNCHANGED <<session, sending, con>>

AcceptConnect ==
    /\ ~sock.up
    /\ Raise([sock EXCEPT !.up = TRUE], {"w"})
    /\ UNCHANGED server

\* What the server sends for a unit: its flight, its Finished or its tickets, a response.
Reply(unit) ==
    CASE unit.kind = "hello" ->
           [i \in 1 .. FlightUnits |->
              IF i < FlightUnits THEN Plain("flight") ELSE Plain(IF Tls13 THEN "sfin" ELSE "sdone")]
      [] unit.kind = "cfin" ->
           IF Tls13 THEN [i \in 1 .. Tickets |-> Plain("ticket")] ELSE <<Plain("sfin")>>
      [] unit.kind = "request" -> IF unit.i = RequestUnits THEN <<Plain("response")>> ELSE <<>>

\* The server takes a unit; a full buffer gets room.
Receive ==
    /\ sock.out # <<>>
    /\ Raise([sock EXCEPT !.out = Tail(@)], IF Len(sock.out) = OutUnits THEN {"w"} ELSE {})
    /\ server' = [todo |-> server.todo \o Reply(Head(sock.out)), last |-> Head(sock.out)]

Send ==
    /\ server.todo # <<>> /\ Len(sock.in) < InUnits
    /\ Raise([sock EXCEPT !.in = Append(@, Head(server.todo))], {"r"})
    /\ server' = [server EXCEPT !.todo = Tail(@)]

Next == Client \/ AcceptConnect \/ Receive \/ Send

Spec == Init /\ [][Next]_vars

-----------------------------------------------------------------------------

(***************************************************************************)
(* What the transport reports of a burst is what it was given of that      *)
(* burst, apart from what is still on its way out; and sending is "queued  *)
(* whose records are not on the wire yet": when it is zero no record of    *)
(* the request is left in the session (tls.rs, TlsStream and write).  It   *)
(* is so as long as no read flushes what a write had blocked on: a server  *)
(* that says nothing unasked gives no read before the answer.              *)
(***************************************************************************)
ReportedIsSent ==
    /\ con.pending > 0 => con.reported + sending = con.handed
    /\ sending = 0 => ~Has(session.records, "request")

(***************************************************************************)
(* The server receives whole requests, part by part, whatever chunks and   *)
(* retries they went out in.                                               *)
(***************************************************************************)
WholeRequests ==
    [][server'.last # server.last /\ server'.last.kind = "request" =>
         server'.last.i = 1 + IF server.last.kind = "request"
                              THEN server.last.i % RequestUnits ELSE 0]_vars
=================================================================================
