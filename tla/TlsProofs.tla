------------------------------- MODULE TlsProofs -------------------------------
(***************************************************************************)
(* Proofs about TlsTransport, of any server, one that sends tickets too:   *)
(* it receives whole requests, and what the transport reports of a burst   *)
(* is on the wire as long as no read flushes what a write had blocked on.  *)
(*                                                                         *)
(* The invariant (Serving) has the states before such a read and behind    *)
(* it: Untold, when the answer is on its way and the write was never told  *)
(* that its chunk went out, and Phantom, when a burst counts as sent that  *)
(* the session was never given.                                            *)
(***************************************************************************)
EXTENDS TlsTransport, SequenceTheorems, TLAPS

\* A read gets out the records that a write had blocked on (TlsStream::read).
ReadFlushes == Read /\ sending > 0 /\ Fits(session.records)

\* What is on its way to the server, and what is on its way back.
Wire == sock.out \o session.records
Coming == sock.in \o server.todo

\* The unit at position p of a burst; in front of the first one is the Finished of
\* the client.
At(p) == IF p = 0 THEN Plain("cfin") ELSE Unit("request", p)

LastOfFlight == Plain(IF Tls13 THEN "sfin" ELSE "sdone")

Units == [kind : {"none", "hello", "cfin", "flight", "sdone", "sfin", "ticket", "request", "response"},
          i : Nat]

Typed ==
    /\ session \in [handshaking : BOOLEAN, records : Seq(Units)]
    /\ sending \in Nat
    /\ con \in [connecting : BOOLEAN, written : Nat, pending : {0, 1}, handed : Nat, reported : Nat]
    /\ reg \in [interest : SUBSET RW, queued : BOOLEAN, event : SUBSET RW]
    /\ sock \in [up : BOOLEAN, out : Seq(Units), in : Seq(Units)]
    /\ server \in [todo : Seq(Units), last : Units]

\* The buffers keep their bounds, and a readable event has something to read.
Bounded ==
    /\ Len(sock.out) <= OutUnits
    /\ "r" \in reg.event => sock.in # <<>>
    /\ con.connecting = session.handshaking

\* Where a handshake is: the hello, the flight, the Finished of the client, that of
\* the server.
Greeting ==
    /\ server.last.kind # "request"
    /\ sending = 0 /\ con.written = 0 /\ con.pending = 0 /\ con.handed = 0 /\ con.reported = 0
    /\ \/ Wire = <<Plain("hello")>> /\ Coming = <<>>
       \/ /\ Wire = <<>> /\ Coming # <<>>
          /\ \A j \in 1 .. Len(Coming) :
                Coming[j] = IF j = Len(Coming) THEN LastOfFlight ELSE Plain("flight")
       \/ ~Tls13 /\ Wire = <<Plain("cfin")>> /\ Coming = <<>>
       \/ ~Tls13 /\ Wire = <<>> /\ Coming = <<Plain("sfin")>>

\* The units of a burst of which this many were handed over are on the wire w in their
\* order, behind the last one that was received.
Ordered(w, handed, last) ==
    LET head == handed - Len(w)
    IN  /\ handed \in 0 .. RequestUnits /\ 0 <= head + 1
        /\ \A j \in 1 .. Len(w) : w[j] = At(head + j)
        /\ head < 0 => Tls13 /\ last.kind # "request"
        /\ (head = 0 /\ last.kind = "request") => last.i = RequestUnits
        /\ head > 0 => last = Unit("request", head)

\* Tickets may come at any time; behind them, or alone, the response.
Quiet == \A j \in 1 .. Len(Coming) : Coming[j] = Plain("ticket")
Answering ==
    /\ Coming # <<>>
    /\ \A j \in 1 .. Len(Coming) :
          Coming[j] = IF j = Len(Coming) THEN Plain("response") ELSE Plain("ticket")

OnlyReads == reg.interest = R /\ reg.event \subseteq R

\* Between two bursts; a burst that is not out yet; one that waits for its answer.
Idle ==
    /\ con.pending = 0 /\ con.written = 0 /\ sending = 0
    /\ con.handed = 0 \/ (con.handed = RequestUnits /\ Wire = <<>>)
    /\ Quiet
Writing ==
    /\ con.pending = 1 /\ con.reported < RequestUnits
    /\ con.written = con.reported
    /\ con.reported + sending = con.handed
    /\ con.handed = RequestUnits => Wire # <<>>
    /\ sending = 0 => ~Has(session.records, "request")
    /\ Quiet
Awaiting ==
    /\ con.pending = 1 /\ con.reported = RequestUnits /\ con.handed = RequestUnits
    /\ con.written = 0 /\ sending = 0
    /\ session.records = <<>>
    /\ OnlyReads
    /\ (Wire # <<>> /\ Quiet) \/ (Wire = <<>> /\ Answering)

\* The whole burst is received, but the write was not told; then the next is reported
\* in its place.
Untold ==
    /\ con.reported < RequestUnits /\ con.written = con.reported
    /\ con.reported + sending = RequestUnits /\ con.handed = RequestUnits
    /\ Wire = <<>>
    /\ (con.pending = 1 /\ Answering) \/ (con.pending = 0 /\ Quiet)
Phantom ==
    /\ con.pending = 1 /\ con.reported = RequestUnits /\ con.handed = 0
    /\ con.written = 0 /\ sending = 0
    /\ Wire = <<>>
    /\ OnlyReads
    /\ Quiet

Serving ==
    /\ Ordered(Wire, con.handed, server.last)
    /\ Idle \/ Writing \/ Awaiting \/ Untold \/ Phantom

TlsInv ==
    /\ Typed /\ Bounded
    /\ con.connecting => Greeting
    /\ ~con.connecting => Serving


-----------------------------------------------------------------------------
(* Sequences and the socket. *)

LEMMA UnitTypes ==
  /\ \A p \in Nat : At(p) \in Units /\ Unit("request", p) \in Units
  /\ Plain("hello") \in Units /\ Plain("cfin") \in Units /\ Plain("flight") \in Units
  /\ Plain("sdone") \in Units /\ Plain("sfin") \in Units /\ Plain("ticket") \in Units
  /\ Plain("response") \in Units /\ Plain("none") \in Units
  BY DEF At, Plain, Unit, Units

LEMMA CutInTwo ==
  ASSUME NEW r \in Seq(Units), NEW m \in 0 .. Len(r)
  PROVE  /\ SubSeq(r, 1, m) \in Seq(Units) /\ SubSeq(r, m + 1, Len(r)) \in Seq(Units)
         /\ Len(SubSeq(r, 1, m)) = m /\ Len(SubSeq(r, m + 1, Len(r))) = Len(r) - m
         /\ SubSeq(r, 1, m) \o SubSeq(r, m + 1, Len(r)) = r
  <1>1. /\ SubSeq(r, 1, m) \in Seq(Units) /\ SubSeq(r, m + 1, Len(r)) \in Seq(Units)
        /\ Len(SubSeq(r, 1, m)) = m /\ Len(SubSeq(r, m + 1, Len(r))) = Len(r) - m
    OBVIOUS
  <1>2. 1 \in 1 .. Len(r) + 1 /\ m \in (1 - 1) .. Len(r) /\ Len(r) \in m .. Len(r)
    OBVIOUS
  <1>3. SubSeq(r, 1, m) \o SubSeq(r, m + 1, Len(r)) = SubSeq(r, 1, Len(r))
    BY <1>2, ConcatAdjacentSubSeq
  <1>4. SubSeq(r, 1, Len(r)) = r
    BY SubSeqFull
  <1> QED
    BY <1>1, <1>3, <1>4

LEMMA Associates ==
  ASSUME NEW a \in Seq(Units), NEW b \in Seq(Units), NEW c \in Seq(Units)
  PROVE  (a \o b) \o c = a \o (b \o c)
  BY ConcatAssociative

LEMMA SocketFields ==
  ASSUME NEW X, NEW k \in [up : X, out : Seq(Units), in : Seq(Units)]
  PROVE  k = [up |-> k.up, out |-> k.out, in |-> k.in]
  OBVIOUS

LEMMA SocketSet ==
  ASSUME NEW X, NEW k \in [up : X, out : Seq(Units), in : Seq(Units)],
         NEW o \in Seq(Units), NEW i \in Seq(Units)
  PROVE  [k EXCEPT !.out = o, !.in = i] = [up |-> k.up, out |-> o, in |-> i]
  <1> DEFINE l == [k EXCEPT !.out = o, !.in = i]
  <1>1. l \in [up : X, out : Seq(Units), in : Seq(Units)]
    OBVIOUS
  <1>2. l.up = k.up /\ l.out = o /\ l.in = i
    OBVIOUS
  <1> HIDE DEF l
  <1> QED
    BY <1>1, <1>2, SocketFields DEF l

LEMMA ConcatEmpty ==
  ASSUME NEW a \in Seq(Units), NEW b \in Seq(Units)
  PROVE  /\ a \o b \in Seq(Units) /\ Len(a \o b) = Len(a) + Len(b)
         /\ a \o b = <<>> <=> a = <<>> /\ b = <<>>
         /\ a \o <<>> = a /\ <<>> \o a = a
  BY ConcatProperties, ConcatEqualIffEmpty, ConcatEmptySeq

LEMMA ConcatAt ==
  ASSUME NEW a \in Seq(Units), NEW b \in Seq(Units), NEW j \in 1 .. Len(a) + Len(b)
  PROVE  (a \o b)[j] = IF j <= Len(a) THEN a[j] ELSE b[j - Len(a)]
  BY ConcatProperties

LEMMA ConcatTail ==
  ASSUME NEW a \in Seq(Units), NEW b \in Seq(Units), a # <<>>
  PROVE  /\ Tail(a) \in Seq(Units) /\ Len(Tail(a)) = Len(a) - 1 /\ Head(a) \in Units
         /\ Tail(a) \o b = Tail(a \o b) /\ Head(a \o b) = Head(a)
  <1>1. a = <<Head(a)>> \o Tail(a) /\ Tail(a) \in Seq(Units) /\ Head(a) \in Units
        /\ Len(Tail(a)) = Len(a) - 1 /\ Len(a) \in Nat \ {0}
    OBVIOUS
  <1>2. a \o b \in Seq(Units) /\ Len(a \o b) = Len(a) + Len(b) /\ a \o b # <<>>
    BY ConcatEmpty
  <1>3. \A j \in 1 .. Len(a) + Len(b) : (a \o b)[j] = IF j <= Len(a) THEN a[j] ELSE b[j - Len(a)]
    BY ConcatProperties
  <1>4. Head(a \o b) = Head(a)
    BY <1>1, <1>2, <1>3
  <1>5. Len(Tail(a) \o b) = Len(Tail(a \o b)) /\ Tail(a) \o b \in Seq(Units)
        /\ Tail(a \o b) \in Seq(Units)
    BY <1>1, <1>2, ConcatEmpty
  <1>6. ASSUME NEW j \in 1 .. Len(Tail(a) \o b) PROVE (Tail(a) \o b)[j] = Tail(a \o b)[j]
    <2>1. (Tail(a) \o b)[j] = IF j <= Len(a) - 1 THEN Tail(a)[j] ELSE b[j - (Len(a) - 1)]
      BY <1>1, ConcatProperties
    <2>2. Tail(a \o b)[j] = (a \o b)[j + 1] /\ j + 1 \in 1 .. Len(a) + Len(b)
      BY <1>1, <1>2, <1>5
    <2> QED
      BY <1>1, <1>3, <2>1, <2>2
  <1>7. Tail(a) \o b = Tail(a \o b)
    BY <1>5, <1>6
  <1> QED
    BY <1>1, <1>4, <1>7

LEMMA Lengths ==
  ASSUME NEW a \in Seq(Units)
  PROVE  /\ Len(a) \in Nat /\ (a = <<>> <=> Len(a) = 0)
         /\ a # <<>> => Tail(a) \in Seq(Units) /\ Len(Tail(a)) = Len(a) - 1
  OBVIOUS

LEMMA OneOfTwo ==
  ASSUME NEW x \in Nat \ {0}, NEW y \in Nat, 1 = x + y
  PROVE  y = 0
  OBVIOUS

LEMMA WithinFirst ==
  ASSUME NEW a \in Nat, NEW b \in Nat, NEW m \in 0 .. a, NEW j \in 1 .. m
  PROVE  j \in 1 .. a + b /\ j <= a
  OBVIOUS

LEMMA WithinRest ==
  ASSUME NEW a \in Nat, NEW b \in Nat, NEW n \in 0 .. a, NEW j \in 1 .. (a - n) + b
  PROVE  /\ n + j \in 1 .. a + b /\ (n + j <= a <=> j <= a - n)
         /\ (j <= a - n <=> j \in 1 .. a - n) /\ (n + j) - a = j - (a - n)
  OBVIOUS

LEMMA Single ==
  /\ <<Plain("sfin")>> \in Seq(Units) /\ <<Plain("cfin")>> \in Seq(Units)
  /\ <<Plain("response")>> \in Seq(Units) /\ <<Plain("hello")>> \in Seq(Units)
  /\ <<>> \in Seq(Units)
  <1>1. \A u \in Units : <<u>> \in Seq(Units)
    OBVIOUS
  <1> QED
    BY <1>1, UnitTypes

\* What does not fit stays behind, in its order.
LEMMA ExchangedWire ==
  ASSUME Typed, Bounded, NEW records \in Seq(Units), NEW n \in 0 .. Len(sock.in)
  PROVE  /\ Exchanged(records, n) \in [up : BOOLEAN, out : Seq(Units), in : Seq(Units)]
         /\ Len(Exchanged(records, n).out) <= OutUnits
         /\ Exchanged(records, n).up = sock.up
         /\ Exchanged(records, n).in = SubSeq(sock.in, n + 1, Len(sock.in))
         /\ Left(records) \in Seq(Units)
         /\ Exchanged(records, n).out \o Left(records) = sock.out \o records
         /\ Fits(records) => Left(records) = <<>> /\ Exchanged(records, n).out = sock.out \o records
         /\ ~Fits(records) => Left(records) # <<>>
  <1> DEFINE room == OutUnits - Len(sock.out)
             m == Lesser(Len(records), room)
             sent == SubSeq(records, 1, m)
             left == SubSeq(records, room + 1, Len(records))
             k == Exchanged(records, n)
  <1>1. room \in Nat /\ m \in 0 .. Len(records) /\ m <= room
    BY TlsOK DEF Typed, Bounded, Lesser
  <1>2. sent \in Seq(Units) /\ Len(sent) = m
    BY <1>1
  <1>3. left \in Seq(Units) /\ Len(left) = Len(records) - m
    BY <1>1 DEF Lesser
  <1>4. sock.out \in Seq(Units) /\ sock.in \in Seq(Units) /\ sock.up \in BOOLEAN
    BY DEF Typed
  <1>5. left = SubSeq(records, m + 1, Len(records))
    <2>1. CASE room < Len(records)
      <3>1. m = room
        BY <1>1, <2>1 DEF Lesser
      <3> HIDE DEF m, room
      <3> QED
        BY <3>1
    <2>2. CASE ~(room < Len(records))
      <3>1. m = Len(records)
        BY <1>1, <2>2 DEF Lesser
      <3>2. left = <<>> /\ SubSeq(records, m + 1, Len(records)) = <<>>
        BY <1>1, <2>2, <3>1, SubSeqEmpty
      <3> QED
        BY <3>2
    <2> QED
      BY <2>1, <2>2
  <1>5a. sent \o left = records
    <2> HIDE DEF m
    <2> QED
      BY <1>1, <1>5, CutInTwo
  <1>6. Left(records) = left
    BY DEF Left
  <1>7. k = [up |-> sock.up, out |-> sock.out \o sent, in |-> SubSeq(sock.in, n + 1, Len(sock.in))]
    <2>1. sock \in [up : BOOLEAN, out : Seq(Units), in : Seq(Units)]
      BY DEF Typed
    <2>2. k = [sock EXCEPT !.out = sock.out \o sent, !.in = SubSeq(sock.in, n + 1, Len(sock.in))]
      BY DEF Exchanged
    <2>3. sock.out \o sent \in Seq(Units) /\ SubSeq(sock.in, n + 1, Len(sock.in)) \in Seq(Units)
      BY <1>2, <1>4
    <2> HIDE DEF k, sent
    <2> QED
      BY <2>1, <2>2, <2>3, SocketSet
  <1> HIDE DEF sent, left, m, k
  <1>8. k.out \o left = sock.out \o records
    <2>1. sock.out \in Seq(Units)
      BY <1>4
    <2>2. sent \in Seq(Units)
      BY <1>2
    <2>3. left \in Seq(Units)
      BY <1>3
    <2>4. (sock.out \o sent) \o left = sock.out \o (sent \o left)
      BY <2>1, <2>2, <2>3, Associates
    <2> QED
      BY <1>5a, <1>7, <2>4
  <1>9. SubSeq(sock.in, n + 1, Len(sock.in)) \in Seq(Units)
    BY <1>4
  <1>10. Fits(records) => left = <<>> /\ sent = records
    <2> SUFFICES ASSUME Fits(records) PROVE left = <<>> /\ sent = records
      OBVIOUS
    <2>1. m = Len(records)
      BY <1>1 DEF Fits, m, Lesser
    <2>2. left = <<>>
      BY <1>3, <2>1
    <2> QED
      BY <2>2, <2>1, <1>2 DEF sent
  <1>11. ~Fits(records) => left # <<>>
    <2> SUFFICES ASSUME ~Fits(records) PROVE Len(left) # 0
      OBVIOUS
    <2> QED
      BY <1>1, <1>3 DEF Fits, m, Lesser
  <1>12. sock.out \o sent \in Seq(Units) /\ Len(sock.out \o sent) <= OutUnits
    BY <1>1, <1>2, <1>4, TlsOK
  <1>13. k \in [up : BOOLEAN, out : Seq(Units), in : Seq(Units)] /\ Len(k.out) <= OutUnits
    BY <1>4, <1>7, <1>9, <1>12
  <1>14. /\ k \in [up : BOOLEAN, out : Seq(Units), in : Seq(Units)] /\ Len(k.out) <= OutUnits
         /\ k.up = sock.up /\ k.in = SubSeq(sock.in, n + 1, Len(sock.in))
         /\ left \in Seq(Units) /\ k.out \o left = sock.out \o records
         /\ Fits(records) => left = <<>> /\ k.out = sock.out \o records
         /\ ~Fits(records) => left # <<>>
    BY <1>3, <1>7, <1>8, <1>10, <1>11, <1>13
  <1> QED
    BY <1>6, <1>14, Zenon DEF k

\* The server takes a unit; a chunk is handed over; the next burst starts.
LEMMA OrderedTail ==
  ASSUME NEW w \in Seq(Units), NEW handed, NEW last, Ordered(w, handed, last), w # <<>>
  PROVE  /\ Ordered(Tail(w), handed, Head(w))
         /\ Head(w) = At(handed - Len(w) + 1)
  <1> DEFINE head == handed - Len(w)
  <1>1. handed \in 0 .. RequestUnits /\ Len(w) \in Nat \ {0} /\ 0 <= head + 1 /\ head + 1 \in Nat
    BY TlsOK DEF Ordered
  <1>2. Head(w) = At(head + 1)
    BY <1>1 DEF Ordered
  <1>3. /\ Len(Tail(w)) = Len(w) - 1
        /\ \A j \in 1 .. Len(w) - 1 : Tail(w)[j] = w[j + 1]
    BY <1>1
  <1>4. handed - Len(Tail(w)) = head + 1
    BY <1>1, <1>3
  <1>5. ASSUME NEW j \in 1 .. Len(Tail(w)) PROVE Tail(w)[j] = At((head + 1) + j)
    <2>1. Tail(w)[j] = w[j + 1] /\ j + 1 \in 1 .. Len(w)
      BY <1>1, <1>3
    <2>2. w[j + 1] = At(head + (j + 1))
      BY <2>1 DEF Ordered
    <2>3. head + (j + 1) = (head + 1) + j
      BY <1>1
    <2> QED
      BY <2>1, <2>2, <2>3
  <1>6. /\ head + 1 = 0 => Head(w).kind # "request"
        /\ head + 1 > 0 => Head(w) = Unit("request", head + 1)
    BY <1>1, <1>2 DEF At, Unit, Plain
  <1> HIDE DEF head
  <1> QED
    BY <1>1, <1>2, <1>4, <1>5, <1>6 DEF Ordered, head

LEMMA OrderedChunk ==
  ASSUME NEW w \in Seq(Units), NEW handed, NEW last, Ordered(w, handed, last),
         NEW n \in Nat, handed + n <= RequestUnits
  PROVE  Ordered(w \o [i \in 1 .. n |-> Unit("request", handed + i)], handed + n, last)
  <1> DEFINE chunk == [i \in 1 .. n |-> Unit("request", handed + i)]
             head == handed - Len(w)
  <1>1. handed \in 0 .. RequestUnits /\ RequestUnits \in Nat /\ Len(w) \in Nat /\ 0 <= head + 1
        /\ head \in Int
    BY TlsOK DEF Ordered
  <1>2. chunk \in Seq(Units) /\ Len(chunk) = n
    BY <1>1, UnitTypes
  <1> HIDE DEF chunk
  <1>3. Len(w \o chunk) = Len(w) + n
    BY <1>2
  <1>4. (handed + n) - Len(w \o chunk) = head
    BY <1>1, <1>3
  <1>5. ASSUME NEW j \in 1 .. Len(w \o chunk) PROVE (w \o chunk)[j] = At(head + j)
    <2>1. CASE j <= Len(w)
      <3>1. (w \o chunk)[j] = w[j] /\ j \in 1 .. Len(w)
        BY <1>2, <2>1
      <3> QED
        BY <3>1 DEF Ordered
    <2>2. CASE j > Len(w)
      <3>1. (w \o chunk)[j] = chunk[j - Len(w)] /\ j - Len(w) \in 1 .. n
        BY <1>1, <1>2, <1>3, <2>2
      <3>2. chunk[j - Len(w)] = Unit("request", handed + (j - Len(w)))
        BY <3>1 DEF chunk
      <3>3. handed + (j - Len(w)) = head + j /\ head + j # 0
        BY <1>1, <2>2, <3>1
      <3> QED
        BY <3>1, <3>2, <3>3 DEF At
    <2> QED
      BY <1>1, <1>3, <2>1, <2>2
  <1> HIDE DEF head
  <1>6. handed + n \in 0 .. RequestUnits
    BY <1>1
  <1>7. /\ head < 0 => Tls13 /\ last.kind # "request"
        /\ (head = 0 /\ last.kind = "request") => last.i = RequestUnits
        /\ head > 0 => last = Unit("request", head)
    BY DEF Ordered, head
  <1>8. Ordered(w \o chunk, handed + n, last)
    BY <1>1, <1>4, <1>5, <1>6, <1>7 DEF Ordered
  <1> QED
    BY <1>8 DEF chunk

LEMMA OrderedStart ==
  ASSUME NEW last, Ordered(<<>>, RequestUnits, last)
  PROVE  Ordered(<<>>, 0, last)
  BY TlsOK DEF Ordered, Unit

-----------------------------------------------------------------------------
(* The steps. *)

\* The wire and what comes back are sequences of units, empty when both their parts are.
LEMMA Lines ==
  ASSUME Typed
  PROVE  /\ sock.out \in Seq(Units) /\ sock.in \in Seq(Units)
         /\ session.records \in Seq(Units) /\ server.todo \in Seq(Units)
         /\ Wire \in Seq(Units) /\ Coming \in Seq(Units)
         /\ Len(Wire) = Len(sock.out) + Len(session.records)
         /\ Len(Coming) = Len(sock.in) + Len(server.todo)
         /\ Wire = <<>> <=> sock.out = <<>> /\ session.records = <<>>
         /\ Coming = <<>> <=> sock.in = <<>> /\ server.todo = <<>>
  <1>1. /\ sock.out \in Seq(Units) /\ sock.in \in Seq(Units)
        /\ session.records \in Seq(Units) /\ server.todo \in Seq(Units)
    BY DEF Typed
  <1> QED
    BY <1>1, ConcatEmpty DEF Wire, Coming

LEMMA InitTls == Init => TlsInv
  <1> SUFFICES ASSUME Init PROVE TlsInv
    OBVIOUS
  <1>1. Plain("hello") \in Units /\ Plain("none") \in Units /\ Plain("none").kind = "none"
    BY DEF Plain, Unit, Units
  <1> DEFINE hello == Plain("hello")
             none == Plain("none")
  <1>2. session = [handshaking |-> TRUE, records |-> <<hello>>] /\ <<hello>> \in Seq(Units)
    BY <1>1 DEF Init
  <1>3. server = [todo |-> <<>>, last |-> none] /\ <<>> \in Seq(Units)
    BY DEF Init
  <1> HIDE DEF hello, none
  <1>4. Typed
    <2>1. session \in [handshaking : BOOLEAN, records : Seq(Units)]
      BY <1>2
    <2>2. server \in [todo : Seq(Units), last : Units]
      BY <1>1, <1>3 DEF none
    <2>3. sock \in [up : BOOLEAN, out : Seq(Units), in : Seq(Units)]
      BY DEF Init
    <2>4. con \in [connecting : BOOLEAN, written : Nat, pending : {0, 1}, handed : Nat, reported : Nat]
      BY DEF Init
    <2> QED
      BY <2>1, <2>2, <2>3, <2>4 DEF Typed, Init
  <1>5. sock.out = <<>> /\ sock.in = <<>> /\ session.records = <<hello>> /\ server.todo = <<>>
    BY <1>2, <1>3 DEF Init
  <1>6. Wire = <<hello>> /\ Coming = <<>>
    BY <1>1, <1>2, <1>5, ConcatEmpty DEF Wire, Coming
  <1>7. server.last.kind # "request"
    BY <1>1, <1>3 DEF none
  <1>8. Greeting
    BY <1>6, <1>7 DEF Greeting, Init, hello
  <1>9. Bounded
    <2>1. con.connecting = TRUE /\ session.handshaking = TRUE
      BY <1>2 DEF Init
    <2> QED
      BY <2>1, <1>5, TlsOK DEF Bounded, Init
  <1>10. con.connecting
    BY DEF Init
  <1> QED
    BY <1>4, <1>8, <1>9, <1>10 DEF TlsInv

LEMMA PollTls ==
  ASSUME TlsInv, PollEvent
  PROVE  TlsInv'
  <1>1. /\ reg.event = {} /\ reg'.interest = reg.interest
        /\ reg'.event = IF reg.queued THEN Ready(sock) \cap reg.interest ELSE {}
        /\ reg' \in [interest : SUBSET RW, queued : BOOLEAN, event : SUBSET RW]
    BY DEF TlsInv, Typed, PollEvent, Ready
  <1>2. UNCHANGED <<session, sending, con, sock, server>>
    BY DEF PollEvent
  <1>3. reg'.event \subseteq reg.interest /\ ("r" \in reg'.event => sock.in # <<>>)
    BY <1>1 DEF Ready, RW
  <1>4. Typed'
    BY <1>1, <1>2 DEF TlsInv, Typed
  <1>5. Bounded'
    BY <1>2, <1>3 DEF TlsInv, Bounded
  <1>6. Wire' = Wire /\ Coming' = Coming
    BY <1>2 DEF Wire, Coming
  <1>7. ASSUME Greeting PROVE Greeting'
    BY <1>2, <1>6, <1>7 DEF Greeting
  <1>8. ASSUME Serving PROVE Serving'
    <2>1. Ordered(Wire, con.handed, server.last)'
      BY <1>2, <1>6, <1>8 DEF Serving
    <2>2. Quiet' = Quiet /\ Answering' = Answering
      BY <1>6 DEF Quiet, Answering
    <2>3. OnlyReads => OnlyReads'
      BY <1>1, <1>3 DEF OnlyReads
    <2>4. (Idle \/ Writing \/ Awaiting \/ Untold \/ Phantom)'
      BY <1>2, <1>6, <1>8, <2>2, <2>3 DEF Serving, Idle, Writing, Awaiting, Untold, Phantom
    <2> QED
      BY <2>1, <2>4 DEF Serving
  <1> QED
    BY <1>2, <1>4, <1>5, <1>7, <1>8 DEF TlsInv

\* An edge that is raised leaves the handlers where they are.
LEMMA RaiseTyped ==
  ASSUME Typed, NEW k \in [up : BOOLEAN, out : Seq(Units), in : Seq(Units)], NEW edges, Raise(k, edges)
  PROVE  /\ sock' = k /\ UNCHANGED <<session, sending, con>>
         /\ reg' \in [interest : SUBSET RW, queued : BOOLEAN, event : SUBSET RW]
         /\ reg'.interest = reg.interest /\ reg'.event = reg.event
  BY DEF Raise, Typed

\* Neither the wire nor what comes back has changed, nor where the handlers are.
LEMMA Unmoved ==
  ASSUME Serving, Wire' = Wire, Coming' = Coming, UNCHANGED <<session, sending, con>>,
         server'.last = server.last, reg'.interest = reg.interest, reg'.event = reg.event
  PROVE  Serving'
  <1>1. Quiet' = Quiet /\ Answering' = Answering /\ OnlyReads' = OnlyReads
    BY DEF Quiet, Answering, OnlyReads
  <1> QED
    BY <1>1 DEF Serving, Idle, Writing, Awaiting, Untold, Phantom

LEMMA AcceptTls ==
  ASSUME TlsInv, AcceptConnect
  PROVE  TlsInv'
  <1> DEFINE k == [sock EXCEPT !.up = TRUE]
  <1>1. k \in [up : BOOLEAN, out : Seq(Units), in : Seq(Units)] /\ k.out = sock.out /\ k.in = sock.in
    BY DEF TlsInv, Typed
  <1>2. Raise(k, {"w"}) /\ server' = server
    BY DEF AcceptConnect
  <1> HIDE DEF k
  <1>3. /\ sock' = k /\ UNCHANGED <<session, sending, con>>
        /\ reg' \in [interest : SUBSET RW, queued : BOOLEAN, event : SUBSET RW]
        /\ reg'.interest = reg.interest /\ reg'.event = reg.event
    BY <1>1, <1>2, RaiseTyped DEF TlsInv
  <1>4. Typed'
    BY <1>1, <1>2, <1>3 DEF TlsInv, Typed
  <1>5. Bounded'
    BY <1>1, <1>3 DEF TlsInv, Bounded
  <1>6. Wire' = Wire /\ Coming' = Coming
    BY <1>1, <1>2, <1>3 DEF Wire, Coming
  <1>7. ASSUME Greeting PROVE Greeting'
    BY <1>2, <1>3, <1>6, <1>7 DEF Greeting
  <1>8. ASSUME Serving PROVE Serving'
    BY <1>2, <1>3, <1>6, <1>8, Unmoved
  <1> QED
    BY <1>3, <1>4, <1>5, <1>7, <1>8 DEF TlsInv

LEMMA AppendHead ==
  ASSUME NEW a \in Seq(Units), NEW b \in Seq(Units), b # <<>>
  PROVE  /\ Append(a, Head(b)) \in Seq(Units) /\ Tail(b) \in Seq(Units)
         /\ Append(a, Head(b)) # <<>>
         /\ Append(a, Head(b)) \o Tail(b) = a \o b
  <1>1. /\ Head(b) \in Units /\ Tail(b) \in Seq(Units) /\ b = <<Head(b)>> \o Tail(b)
        /\ <<Head(b)>> \in Seq(Units)
    OBVIOUS
  <1>2. Append(a, Head(b)) = a \o <<Head(b)>>
    BY <1>1
  <1>3. (a \o <<Head(b)>>) \o Tail(b) = a \o (<<Head(b)>> \o Tail(b))
    BY <1>1, Associates
  <1> QED
    BY <1>1, <1>2, <1>3

LEMMA SendTls ==
  ASSUME TlsInv, Send
  PROVE  TlsInv'
  <1> DEFINE k == [sock EXCEPT !.in = Append(@, Head(server.todo))]
  <1>1. /\ Append(sock.in, Head(server.todo)) \in Seq(Units) /\ Tail(server.todo) \in Seq(Units)
        /\ Append(sock.in, Head(server.todo)) # <<>>
        /\ Append(sock.in, Head(server.todo)) \o Tail(server.todo) = Coming
    BY Lines, AppendHead DEF TlsInv, Send, Coming
  <1>2. k \in [up : BOOLEAN, out : Seq(Units), in : Seq(Units)] /\ k.out = sock.out
        /\ k.in = Append(sock.in, Head(server.todo))
    BY <1>1 DEF TlsInv, Typed
  <1>3. Raise(k, {"r"}) /\ server' = [server EXCEPT !.todo = Tail(@)]
    BY DEF Send
  <1>4. server' \in [todo : Seq(Units), last : Units] /\ server'.todo = Tail(server.todo)
        /\ server'.last = server.last
    BY <1>1, <1>3 DEF TlsInv, Typed
  <1> HIDE DEF k
  <1>5. /\ sock' = k /\ UNCHANGED <<session, sending, con>>
        /\ reg' \in [interest : SUBSET RW, queued : BOOLEAN, event : SUBSET RW]
        /\ reg'.interest = reg.interest /\ reg'.event = reg.event
    BY <1>2, <1>3, RaiseTyped DEF TlsInv
  <1>6. Typed'
    BY <1>2, <1>4, <1>5 DEF TlsInv, Typed
  <1>7. Bounded'
    BY <1>1, <1>2, <1>5 DEF TlsInv, Bounded
  <1>8. Wire' = Wire /\ Coming' = Coming
    BY <1>1, <1>2, <1>4, <1>5 DEF Wire, Coming
  <1>9. ASSUME Greeting PROVE Greeting'
    BY <1>4, <1>5, <1>8, <1>9 DEF Greeting
  <1>10. ASSUME Serving PROVE Serving'
    BY <1>4, <1>5, <1>8, <1>10, Unmoved
  <1> QED
    BY <1>5, <1>6, <1>7, <1>9, <1>10 DEF TlsInv

\* The replies: tickets, and they alone, answer the Finished of a client of TLS 1.3.
LEMMA Replies ==
  /\ Tls13 => /\ Reply(Plain("cfin")) \in Seq(Units)
              /\ \A j \in 1 .. Len(Reply(Plain("cfin"))) :
                    Reply(Plain("cfin"))[j] = Plain("ticket")
  /\ ~Tls13 => Reply(Plain("cfin")) = <<Plain("sfin")>>
  /\ \A p \in Nat : p # RequestUnits => Reply(Unit("request", p)) = <<>>
  /\ Reply(Unit("request", RequestUnits)) = <<Plain("response")>>
  /\ Reply(Plain("hello")) \in Seq(Units) /\ Reply(Plain("hello")) # <<>>
  /\ \A j \in 1 .. Len(Reply(Plain("hello"))) :
        Reply(Plain("hello"))[j] = IF j = Len(Reply(Plain("hello"))) THEN LastOfFlight
                                   ELSE Plain("flight")
  <1>1. ASSUME Tls13
        PROVE  /\ Reply(Plain("cfin")) \in Seq(Units)
               /\ \A j \in 1 .. Len(Reply(Plain("cfin"))) : Reply(Plain("cfin"))[j] = Plain("ticket")
    <2> DEFINE tickets == [i \in 1 .. Tickets |-> Plain("ticket")]
    <2>1. Reply(Plain("cfin")) = tickets
      BY <1>1 DEF Reply, Plain, Unit
    <2>2. Tickets \in Nat /\ Plain("ticket") \in Units
      BY TlsOK, UnitTypes
    <2>3. tickets \in Seq(Units) /\ \A j \in 1 .. Len(tickets) : tickets[j] = Plain("ticket")
      BY <2>2
    <2> QED
      BY <2>1, <2>3
  <1>2. ASSUME ~Tls13 PROVE Reply(Plain("cfin")) = <<Plain("sfin")>>
    BY <1>2 DEF Reply, Plain, Unit
  <1>3. ASSUME NEW p \in Nat
        PROVE  Reply(Unit("request", p)) = IF p = RequestUnits THEN <<Plain("response")>> ELSE <<>>
    BY DEF Reply, Unit
  <1>4. RequestUnits \in Nat
    BY TlsOK
  <1> DEFINE flight == [i \in 1 .. FlightUnits |->
                          IF i < FlightUnits THEN Plain("flight") ELSE Plain(IF Tls13 THEN "sfin" ELSE "sdone")]
  <1>5. Reply(Plain("hello")) = flight
    BY DEF Reply, Plain, Unit
  <1>6. flight \in Seq(Units) /\ Len(flight) = FlightUnits /\ FlightUnits \in Nat \ {0}
    BY TlsOK, UnitTypes
  <1>7. \A j \in 1 .. FlightUnits : flight[j] = IF j = FlightUnits THEN LastOfFlight ELSE Plain("flight")
    BY <1>6 DEF LastOfFlight
  <1> HIDE DEF flight
  <1>8. flight # <<>>
    BY <1>6
  <1> QED
    BY <1>1, <1>2, <1>3, <1>4, <1>5, <1>6, <1>7, <1>8

\* The server takes the unit at the head of the wire.
LEMMA ReceiveMoves ==
  ASSUME TlsInv, Receive, Reply(Head(sock.out)) \in Seq(Units)
  PROVE  /\ Wire # <<>> /\ Wire' = Tail(Wire) /\ Head(Wire) = Head(sock.out)
         /\ Coming' = Coming \o Reply(Head(Wire))
         /\ server'.last = Head(Wire)
         /\ UNCHANGED <<session, sending, con>>
         /\ reg'.interest = reg.interest /\ reg'.event = reg.event
         /\ Typed' /\ Bounded'
  <1> DEFINE k == [sock EXCEPT !.out = Tail(@)]
             h == Head(sock.out)
  <1>1. /\ Tail(sock.out) \in Seq(Units) /\ Len(Tail(sock.out)) = Len(sock.out) - 1
        /\ h \in Units /\ Tail(sock.out) \o session.records = Tail(Wire) /\ Head(Wire) = h
    BY Lines, ConcatTail DEF TlsInv, Receive, Wire
  <1>2. k \in [up : BOOLEAN, out : Seq(Units), in : Seq(Units)] /\ k.out = Tail(sock.out)
        /\ k.in = sock.in
    BY <1>1 DEF TlsInv, Typed
  <1>3. /\ Raise(k, IF Len(sock.out) = OutUnits THEN {"w"} ELSE {})
        /\ server' = [todo |-> server.todo \o Reply(h), last |-> h]
    BY DEF Receive
  <1>4. server.todo \o Reply(h) \in Seq(Units)
    BY Lines, ConcatEmpty DEF TlsInv
  <1> HIDE DEF k, h
  <1>5. server' \in [todo : Seq(Units), last : Units] /\ server'.todo = server.todo \o Reply(h)
        /\ server'.last = h
    BY <1>1, <1>3, <1>4
  <1>6. /\ sock' = k /\ UNCHANGED <<session, sending, con>>
        /\ reg' \in [interest : SUBSET RW, queued : BOOLEAN, event : SUBSET RW]
        /\ reg'.interest = reg.interest /\ reg'.event = reg.event
    BY <1>2, <1>3, RaiseTyped DEF TlsInv
  <1>7. Typed'
    BY <1>2, <1>5, <1>6 DEF TlsInv, Typed
  <1>8. Bounded'
    BY <1>1, <1>2, <1>6, Lines, TlsOK DEF TlsInv, Bounded
  <1>9. Wire' = Tail(Wire)
    BY <1>1, <1>2, <1>6 DEF Wire
  <1>10. Coming' = Coming \o Reply(h)
    <2>1. sock.in \in Seq(Units) /\ server.todo \in Seq(Units) /\ Reply(h) \in Seq(Units)
      BY Lines DEF TlsInv, h
    <2>2. (sock.in \o server.todo) \o Reply(h) = sock.in \o (server.todo \o Reply(h))
      BY <2>1, Associates, ZenonT(60)
    <2> QED
      BY <1>2, <1>5, <1>6, <2>2 DEF Coming
  <1>11. Wire # <<>>
    BY Lines DEF TlsInv, Receive
  <1> QED
    BY <1>1, <1>5, <1>6, <1>7, <1>8, <1>9, <1>10, <1>11 DEF h

\* A server that greets answers a hello with its flight, the Finished of a client of
\* TLS 1.2 with its own.
LEMMA ReceiveGreets ==
  ASSUME TlsInv, Receive, Greeting
  PROVE  Reply(Head(sock.out)) \in Seq(Units) /\ Greeting' /\ Typed' /\ Bounded'
  <1>1. Wire # <<>> /\ Head(Wire) = Head(sock.out)
    BY Lines, ConcatTail DEF TlsInv, Receive, Wire
  <1>2. \/ Wire = <<Plain("hello")>> /\ Coming = <<>>
        \/ ~Tls13 /\ Wire = <<Plain("cfin")>> /\ Coming = <<>>
    BY <1>1 DEF Greeting
  <1>3. Reply(Head(sock.out)) \in Seq(Units)
    <2>1. CASE Head(sock.out) = Plain("hello")
      BY <2>1, Replies
    <2>2. CASE ~Tls13 /\ Head(sock.out) = Plain("cfin")
      BY <2>2, Replies, Single
    <2> QED
      BY <1>1, <1>2, <2>1, <2>2
  <1>4. /\ Wire' = Tail(Wire) /\ Coming' = Coming \o Reply(Head(Wire))
        /\ server'.last = Head(Wire)
        /\ UNCHANGED <<session, sending, con>>
        /\ Typed' /\ Bounded'
    BY <1>3, ReceiveMoves
  <1>5. Wire' = <<>> /\ Coming' = Reply(Head(Wire))
    <2>1. \A u : Tail(<<u>>) = <<>>
      OBVIOUS
    <2>2. Coming = <<>>
      BY <1>2
    <2>3. <<>> \o Reply(Head(sock.out)) = Reply(Head(sock.out))
      BY <1>3, Single, ConcatEmpty
    <2> QED
      BY <1>1, <1>2, <1>4, <2>1, <2>2, <2>3
  <1>6. server'.last.kind # "request"
    BY <1>2, <1>4 DEF Plain, Unit
  <1>7. CASE Wire = <<Plain("hello")>>
    <2>1. Coming' = Reply(Plain("hello"))
      BY <1>5, <1>7
    <2>2. /\ Coming' # <<>>
          /\ \A j \in 1 .. Len(Coming') :
                Coming'[j] = IF j = Len(Coming') THEN LastOfFlight ELSE Plain("flight")
      BY <2>1, Replies
    <2> QED
      BY <1>3, <1>4, <1>5, <1>6, <2>2 DEF Greeting
  <1>8. CASE ~Tls13 /\ Wire = <<Plain("cfin")>>
    <2>1. Coming' = <<Plain("sfin")>>
      BY <1>5, <1>8, Replies
    <2> QED
      BY <1>3, <1>4, <1>5, <1>6, <1>8, <2>1 DEF Greeting
  <1> QED
    BY <1>2, <1>7, <1>8

\* What comes is still quiet when tickets do, and answers when the response does.
LEMMA QuietConcat ==
  ASSUME NEW a \in Seq(Units), NEW b \in Seq(Units),
         \A j \in 1 .. Len(a) : a[j] = Plain("ticket"),
         \A j \in 1 .. Len(b) : b[j] = Plain("ticket")
  PROVE  \A j \in 1 .. Len(a \o b) : (a \o b)[j] = Plain("ticket")
  <1>1. Len(a \o b) = Len(a) + Len(b) /\ Len(a) \in Nat /\ Len(b) \in Nat
    BY ConcatEmpty, Lengths
  <1> SUFFICES ASSUME NEW j \in 1 .. Len(a) + Len(b) PROVE (a \o b)[j] = Plain("ticket")
    BY <1>1
  <1>2. (a \o b)[j] = IF j <= Len(a) THEN a[j] ELSE b[j - Len(a)]
    BY ConcatAt
  <1>3. IF j <= Len(a) THEN j \in 1 .. Len(a) ELSE j - Len(a) \in 1 .. Len(b)
    BY <1>1
  <1> QED
    BY <1>2, <1>3

LEMMA QuietAnswered ==
  ASSUME NEW a \in Seq(Units), \A j \in 1 .. Len(a) : a[j] = Plain("ticket")
  PROVE  LET s == a \o <<Plain("response")>>
         IN  /\ s # <<>>
             /\ \A j \in 1 .. Len(s) :
                   s[j] = IF j = Len(s) THEN Plain("response") ELSE Plain("ticket")
  <1> DEFINE b == <<Plain("response")>>
  <1>1. b \in Seq(Units) /\ Len(b) = 1 /\ b[1] = Plain("response") /\ b # <<>>
    BY Single
  <1> HIDE DEF b
  <1>2. Len(a \o b) = Len(a) + 1 /\ Len(a) \in Nat /\ a \o b # <<>>
    <2>1. Len(a \o b) = Len(a) + Len(b) /\ a \o b # <<>>
      BY <1>1, ConcatEmpty
    <2>2. Len(a) \in Nat
      BY Lengths
    <2> QED
      BY <1>1, <2>1, <2>2
  <1>3. ASSUME NEW j \in 1 .. Len(a) + 1
        PROVE  (a \o b)[j] = IF j = Len(a) + 1 THEN Plain("response") ELSE Plain("ticket")
    <2>1. (a \o b)[j] = IF j <= Len(a) THEN a[j] ELSE b[j - Len(a)]
      BY <1>1, ConcatAt
    <2>2. IF j <= Len(a) THEN j \in 1 .. Len(a) /\ j # Len(a) + 1
          ELSE j = Len(a) + 1 /\ j - Len(a) = 1
      BY <1>2
    <2> QED
      BY <1>1, <2>1, <2>2
  <1> QED
    BY <1>2, <1>3 DEF b

\* Only the last unit of a burst is answered; the transport may not have said so yet.
LEMMA ReceiveServes ==
  ASSUME TlsInv, Receive, Serving
  PROVE  Reply(Head(sock.out)) \in Seq(Units) /\ Serving' /\ Typed' /\ Bounded'
  <1> DEFINE head == con.handed - Len(Wire)
  <1>1. /\ Wire # <<>> /\ Head(Wire) = Head(sock.out) /\ Wire \in Seq(Units)
        /\ Len(Wire) = Len(sock.out) + Len(session.records) /\ Len(Wire) \in Nat
        /\ Len(sock.out) \in Nat \ {0} /\ session.records \in Seq(Units)
    <2>1. /\ Wire \in Seq(Units) /\ Len(Wire) = Len(sock.out) + Len(session.records)
          /\ sock.out \in Seq(Units) /\ sock.out # <<>> /\ session.records \in Seq(Units)
      BY Lines DEF TlsInv, Receive
    <2>2. Wire # <<>> /\ Head(Wire) = Head(sock.out)
      BY Lines, <2>1, ConcatTail DEF TlsInv, Wire
    <2>3. Len(Wire) \in Nat /\ Len(sock.out) \in Nat /\ Len(sock.out) # 0
      BY <2>1, Lengths
    <2> QED
      BY <2>1, <2>2, <2>3
  <1>2. Ordered(Tail(Wire), con.handed, Head(Wire)) /\ Head(Wire) = At(head + 1)
    BY <1>1, OrderedTail DEF Serving
  <1>3. con.handed \in 0 .. RequestUnits /\ RequestUnits \in Nat \ {0} /\ 0 <= head + 1
        /\ head < con.handed /\ head \in Int /\ (head < 0 => Tls13)
        /\ Len(Wire) = con.handed - head
    <2>1. RequestUnits \in Nat \ {0}
      BY TlsOK
    <2>2. con.handed \in 0 .. RequestUnits /\ 0 <= head + 1 /\ (head < 0 => Tls13)
      BY DEF Serving, Ordered
    <2>3. Len(Wire) \in Nat \ {0}
      BY <1>1, Lengths
    <2> QED
      BY <2>1, <2>2, <2>3
  <1> HIDE DEF head
  <1>4. head + 1 \in 1 .. RequestUnits - 1 => Reply(At(head + 1)) = <<>>
    BY <1>3, Replies DEF At
  <1>5. head + 1 = RequestUnits => Reply(At(head + 1)) = <<Plain("response")>>
    BY <1>3, Replies DEF At
  <1>6. head + 1 = 0 => /\ Reply(At(head + 1)) \in Seq(Units)
                        /\ \A j \in 1 .. Len(Reply(At(head + 1))) :
                              Reply(At(head + 1))[j] = Plain("ticket")
    <2> SUFFICES ASSUME head + 1 = 0
                 PROVE  /\ Reply(At(0)) \in Seq(Units)
                        /\ \A j \in 1 .. Len(Reply(At(0))) : Reply(At(0))[j] = Plain("ticket")
      OBVIOUS
    <2>1. Tls13
      BY <1>3
    <2> QED
      BY <2>1, Replies DEF At
  <1>7. head + 1 = 0 \/ head + 1 \in 1 .. RequestUnits - 1 \/ head + 1 = RequestUnits
    BY <1>3
  <1>8. Reply(Head(Wire)) \in Seq(Units) /\ Coming \in Seq(Units)
    BY <1>2, <1>4, <1>5, <1>6, <1>7, Single, Lines DEF TlsInv
  <1>9. /\ Wire' = Tail(Wire) /\ Coming' = Coming \o Reply(Head(Wire))
        /\ server'.last = Head(Wire)
        /\ UNCHANGED <<session, sending, con>>
        /\ reg'.interest = reg.interest /\ reg'.event = reg.event
        /\ Typed' /\ Bounded'
    BY <1>1, <1>8, ReceiveMoves
  <1>10. Ordered(Wire, con.handed, server.last)'
    BY <1>2, <1>9
  <1>11. ASSUME Quiet, head + 1 # RequestUnits PROVE Quiet'
    <2>1. \A j \in 1 .. Len(Reply(Head(Wire))) : Reply(Head(Wire))[j] = Plain("ticket")
      BY <1>2, <1>4, <1>6, <1>7, <1>11
    <2> QED
      BY <1>8, <1>9, <1>11, <2>1, QuietConcat DEF Quiet
  <1>12. ASSUME Quiet, head + 1 = RequestUnits PROVE Answering'
    <2>1. Reply(Head(Wire)) = <<Plain("response")>>
      BY <1>2, <1>5, <1>12
    <2> QED
      BY <1>8, <1>9, <1>12, <2>1, QuietAnswered, ZenonT(60) DEF Quiet, Answering
  <1>13. OnlyReads => OnlyReads'
    BY <1>9 DEF OnlyReads
  <1>14. head + 1 = RequestUnits => /\ session.records = <<>> /\ con.handed = RequestUnits
                                    /\ Wire' = <<>>
    <2> SUFFICES ASSUME head + 1 = RequestUnits
                 PROVE  session.records = <<>> /\ con.handed = RequestUnits /\ Wire' = <<>>
      OBVIOUS
    <2>1. con.handed = RequestUnits /\ Len(Wire) = 1
      BY <1>3
    <2>2. Len(session.records) \in Nat
      BY <1>1, Lengths
    <2>3. 1 = Len(sock.out) + Len(session.records) /\ Len(sock.out) \in Nat \ {0}
      BY <1>1, <2>1
    <2>4. Len(session.records) = 0
      BY <2>2, <2>3, OneOfTwo
    <2>5. Tail(Wire) \in Seq(Units) /\ Len(Tail(Wire)) = 0
      <3>1. Wire \in Seq(Units) /\ Wire # <<>>
        BY <1>1
      <3>2. Tail(Wire) \in Seq(Units) /\ Len(Tail(Wire)) = Len(Wire) - 1
        BY <3>1, Lengths
      <3> QED
        BY <2>1, <3>2
    <2> QED
      BY <1>1, <1>9, <2>1, <2>4, <2>5, Lengths
  <1>15. con.handed = RequestUnits /\ head + 1 # RequestUnits => Wire' # <<>>
    <2> SUFFICES ASSUME con.handed = RequestUnits, head + 1 # RequestUnits PROVE Wire' # <<>>
      OBVIOUS
    <2>1. Len(Wire) # 1 /\ Len(Wire) \in Nat
      <3>1. Len(Wire) \in Nat
        BY <1>1
      <3>2. Len(Wire) # 1
        BY <1>3
      <3> QED
        BY <3>1, <3>2
    <2>2. Tail(Wire) \in Seq(Units) /\ Len(Tail(Wire)) = Len(Wire) - 1
      BY <1>1, Lengths
    <2>3. Len(Tail(Wire)) # 0
      BY <2>1, <2>2
    <2> QED
      BY <1>9, <2>2, <2>3, Lengths
  <1>16. (Idle \/ Writing \/ Awaiting \/ Untold)'
    <2>1. CASE Idle
      <3>1. con.handed = 0 /\ head + 1 # RequestUnits
        BY <1>1, <1>3, <2>1 DEF Idle
      <3>2. Quiet'
        BY <1>11, <2>1, <3>1 DEF Idle
      <3> QED
        BY <1>9, <2>1, <3>1, <3>2 DEF Idle
    <2>2. CASE Writing /\ head + 1 # RequestUnits
      <3>1. Quiet'
        BY <1>11, <2>2 DEF Writing
      <3> QED
        BY <1>9, <1>15, <2>2, <3>1 DEF Writing
    <2>3. CASE Writing /\ head + 1 = RequestUnits
      <3>1. Answering'
        BY <1>12, <2>3 DEF Writing
      <3> QED
        BY <1>9, <1>14, <2>3, <3>1 DEF Writing, Untold
    <2>4. CASE Awaiting /\ head + 1 = RequestUnits
      <3>1. Answering'
        BY <1>1, <1>12, <2>4 DEF Awaiting
      <3> QED
        BY <1>9, <1>13, <1>14, <2>4, <3>1 DEF Awaiting
    <2>5. CASE Awaiting /\ head + 1 # RequestUnits
      <3>1. Quiet'
        BY <1>1, <1>11, <2>5 DEF Awaiting
      <3>2. Wire' # <<>>
        BY <1>15, <2>5 DEF Awaiting
      <3> QED
        BY <1>9, <1>13, <2>5, <3>1, <3>2 DEF Awaiting
    <2> QED
      BY <1>1, <2>1, <2>2, <2>3, <2>4, <2>5 DEF Serving, Untold, Phantom
  <1> QED
    BY <1>1, <1>8, <1>9, <1>10, <1>16 DEF Serving

LEMMA ReceiveTls ==
  ASSUME TlsInv, Receive
  PROVE  TlsInv'
  <1>1. con' = con
    BY DEF Receive, Raise
  <1>2. CASE con.connecting
    BY <1>1, <1>2, ReceiveGreets DEF TlsInv
  <1>3. CASE ~con.connecting
    BY <1>1, <1>3, ReceiveServes DEF TlsInv
  <1> QED
    BY <1>2, <1>3

-----------------------------------------------------------------------------
(* The handlers. *)

LEMMA Rearmed ==
  ASSUME Typed, NEW interest \in SUBSET RW, NEW event, Rearm(interest, event)
  PROVE  /\ reg' \in [interest : SUBSET RW, queued : BOOLEAN, event : SUBSET RW]
         /\ reg'.interest = interest /\ reg'.event = reg.event \ event
  <1>1. reg.event \ event \in SUBSET RW
    BY DEF Typed
  <1> QED
    BY <1>1 DEF Rearm

LEMMA Flushed ==
  ASSUME TlsInv, NEW n \in 0 .. Len(sock.in), sock' = Exchanged(session.records, n)
  PROVE  /\ sock' \in [up : BOOLEAN, out : Seq(Units), in : Seq(Units)]
         /\ Len(sock'.out) <= OutUnits
         /\ sock'.in = SubSeq(sock.in, n + 1, Len(sock.in))
         /\ Left(session.records) \in Seq(Units)
         /\ sock'.out \o Left(session.records) = Wire
         /\ Fits(session.records) => Left(session.records) = <<>> /\ sock'.out = Wire
         /\ ~Fits(session.records) => Left(session.records) # <<>>
  <1>1. session.records \in Seq(Units) /\ Typed /\ Bounded
    BY DEF TlsInv, Typed
  <1>2. /\ Exchanged(session.records, n) \in [up : BOOLEAN, out : Seq(Units), in : Seq(Units)]
        /\ Len(Exchanged(session.records, n).out) <= OutUnits
        /\ Exchanged(session.records, n).in = SubSeq(sock.in, n + 1, Len(sock.in))
        /\ Left(session.records) \in Seq(Units)
        /\ Exchanged(session.records, n).out \o Left(session.records) = sock.out \o session.records
        /\ Fits(session.records) => /\ Left(session.records) = <<>>
                                    /\ Exchanged(session.records, n).out = sock.out \o session.records
        /\ ~Fits(session.records) => Left(session.records) # <<>>
    BY <1>1, ExchangedWire
  <1> QED
    BY <1>2, Zenon DEF Wire

LEMMA NothingRead ==
  ASSUME Typed
  PROVE  0 \in 0 .. Len(sock.in) /\ SubSeq(sock.in, 0 + 1, Len(sock.in)) = sock.in
  <1>1. sock.in \in Seq(Units)
    BY Lines
  <1>2. SubSeq(sock.in, 1, Len(sock.in)) = sock.in
    BY <1>1, SubSeqFull
  <1> QED
    BY <1>1, <1>2

LEMMA NoneFits ==
  ASSUME Typed, Bounded
  PROVE  Fits(<<>>)
  BY Lines, Lengths, TlsOK DEF Fits, Bounded

\* What a read takes is the beginning of what has come.
LEMMA TakenFirst ==
  ASSUME Typed
  PROVE  /\ Taken \in Seq(Units) /\ Len(Taken) \in 0 .. Len(sock.in)
         /\ Taken \o SubSeq(sock.in, Len(Taken) + 1, Len(sock.in)) = sock.in
         /\ sock.in # <<>> => Taken # <<>>
         /\ \A j \in 1 .. Len(Taken) : Taken[j] = Coming[j]
  <1> DEFINE m == Lesser(ReadUnits, Len(sock.in))
  <1>1. sock.in \in Seq(Units) /\ server.todo \in Seq(Units) /\ Len(sock.in) \in Nat
    BY Lines
  <1>2. m \in 0 .. Len(sock.in) /\ (Len(sock.in) # 0 => m # 0)
    BY <1>1, TlsOK DEF Lesser
  <1> HIDE DEF m
  <1>3. Taken = SubSeq(sock.in, 1, m)
    BY DEF Taken, m
  <1>4. /\ SubSeq(sock.in, 1, m) \in Seq(Units) /\ Len(SubSeq(sock.in, 1, m)) = m
        /\ SubSeq(sock.in, 1, m) \o SubSeq(sock.in, m + 1, Len(sock.in)) = sock.in
    BY <1>1, <1>2, CutInTwo
  <1>5. Taken \in Seq(Units) /\ Len(Taken) = m
    BY <1>3, <1>4
  <1>6. sock.in # <<>> => Taken # <<>>
    BY <1>1, <1>2, <1>5, Lengths
  <1>7. ASSUME NEW j \in 1 .. m PROVE Taken[j] = Coming[j]
    <2>1. Taken[j] = sock.in[j] /\ j \in 1 .. Len(sock.in)
      BY <1>1, <1>2, <1>3
    <2>2. (sock.in \o server.todo)[j] = sock.in[j]
      <3>1. j \in 1 .. Len(sock.in) + Len(server.todo) /\ j <= Len(sock.in)
        <4>1. Len(sock.in) \in Nat /\ Len(server.todo) \in Nat
          BY <1>1, Lengths
        <4> QED
          BY <1>2, <4>1, WithinFirst
      <3> QED
        BY <1>1, <3>1, ConcatAt
    <2> QED
      BY <2>1, <2>2 DEF Coming
  <1> QED
    BY <1>2, <1>3, <1>4, <1>5, <1>6, <1>7

\* What is left of what was on its way.
LEMMA ComingAfter ==
  ASSUME Typed, NEW n \in 0 .. Len(sock.in),
         sock'.in = SubSeq(sock.in, n + 1, Len(sock.in)), server' = server
  PROVE  /\ Coming' \in Seq(Units) /\ Len(Coming') = Len(Coming) - n
         /\ \A j \in 1 .. Len(Coming') : Coming'[j] = Coming[n + j]
  <1> DEFINE rest == SubSeq(sock.in, n + 1, Len(sock.in))
  <1>1. sock.in \in Seq(Units) /\ server.todo \in Seq(Units) /\ Len(sock.in) \in Nat
        /\ Len(server.todo) \in Nat
    BY Lines, Lengths
  <1>2. rest \in Seq(Units) /\ Len(rest) = Len(sock.in) - n
    BY <1>1, CutInTwo
  <1>3. \A j \in 1 .. Len(rest) : rest[j] = sock.in[n + j]
    BY <1>1, <1>2
  <1>4. Coming' = rest \o server.todo
    BY DEF Coming
  <1> HIDE DEF rest
  <1>5. Coming' \in Seq(Units) /\ Len(Coming') = Len(Coming) - n
    <2>1. Len(rest \o server.todo) = Len(rest) + Len(server.todo) /\ rest \o server.todo \in Seq(Units)
      BY <1>1, <1>2, ConcatEmpty
    <2>2. Len(Coming) = Len(sock.in) + Len(server.todo)
      BY Lines
    <2> QED
      BY <1>1, <1>2, <1>4, <2>1, <2>2
  <1>6. ASSUME NEW j \in 1 .. Len(Coming') PROVE Coming'[j] = Coming[n + j]
    <2>1. j \in 1 .. Len(rest) + Len(server.todo)
      BY <1>1, <1>2, <1>4, ConcatEmpty
    <2>2. (rest \o server.todo)[j] = IF j <= Len(rest) THEN rest[j] ELSE server.todo[j - Len(rest)]
      BY <1>1, <1>2, <2>1, ConcatAt
    <2>3. /\ n + j \in 1 .. Len(sock.in) + Len(server.todo)
          /\ n + j <= Len(sock.in) <=> j <= Len(rest)
          /\ j <= Len(rest) <=> j \in 1 .. Len(rest)
          /\ (n + j) - Len(sock.in) = j - Len(rest)
      <3>1. Len(rest) = Len(sock.in) - n
        BY <1>2
      <3>2. j \in 1 .. (Len(sock.in) - n) + Len(server.todo)
        BY <2>1, <3>1
      <3>3. Len(sock.in) \in Nat /\ Len(server.todo) \in Nat
        BY <1>1
      <3>4. /\ n + j \in 1 .. Len(sock.in) + Len(server.todo)
            /\ n + j <= Len(sock.in) <=> j <= Len(sock.in) - n
            /\ j <= Len(sock.in) - n <=> j \in 1 .. Len(sock.in) - n
            /\ (n + j) - Len(sock.in) = j - (Len(sock.in) - n)
        BY <3>2, <3>3, WithinRest
      <3> QED
        BY <3>1, <3>4, Zenon
    <2>4. Coming[n + j] = IF n + j <= Len(sock.in) THEN sock.in[n + j]
                          ELSE server.todo[(n + j) - Len(sock.in)]
      BY <1>1, <2>3, ConcatAt DEF Coming
    <2>5. CASE j <= Len(rest)
      BY <1>3, <1>4, <2>2, <2>3, <2>4, <2>5
    <2>6. CASE ~(j <= Len(rest))
      BY <1>4, <2>2, <2>3, <2>4, <2>6
    <2> QED
      BY <2>5, <2>6
  <1> QED
    BY <1>5, <1>6

LEMMA SameSeq ==
  ASSUME NEW a \in Seq(Units), NEW b \in Seq(Units), Len(a) = Len(b),
         \A j \in 1 .. Len(a) : a[j] = b[j]
  PROVE  a = b
  OBVIOUS

\* A step of the handshake: what it leaves on the wire, and what is still to come.
LEMMA HandshakeMoves ==
  ASSUME TlsInv, Handshake
  PROVE  /\ con.connecting /\ Greeting /\ session.handshaking = TRUE
         /\ session'.handshaking = con'.connecting
         /\ con'.written = 0 /\ con'.pending = 0 /\ con'.handed = 0 /\ con'.reported = 0
         /\ UNCHANGED <<sending, server>>
         /\ Typed' /\ Bounded' /\ Wire \in Seq(Units) /\ Coming \in Seq(Units)
         /\ Fits(session.records) =>
               /\ session' = Processed(Taken)
               /\ Wire' = Wire \o Processed(Taken).records
               /\ Coming' \in Seq(Units) /\ Len(Coming') = Len(Coming) - Len(Taken)
               /\ Len(Taken) \in 0 .. Len(Coming)
               /\ \A j \in 1 .. Len(Coming') : Coming'[j] = Coming[Len(Taken) + j]
         /\ ~Fits(session.records) =>
               con'.connecting = TRUE /\ Wire' = Wire /\ Coming' = Coming
  <1> DEFINE units == IF Fits(session.records) THEN Taken ELSE <<>>
             n == Len(units)
  <1>1. con.connecting /\ Greeting /\ Typed /\ Bounded /\ session.handshaking = TRUE
    BY DEF TlsInv, Handshake, Bounded, Typed
  <1>2. n \in 0 .. Len(sock.in)
    <2>1. CASE Fits(session.records)
      BY <1>1, <2>1, TakenFirst
    <2>2. CASE ~Fits(session.records)
      BY <1>1, <2>2, NothingRead
    <2> QED
      BY <2>1, <2>2
  <1>3. sock' = Exchanged(session.records, n)
    BY DEF Handshake
  <1>4. UNCHANGED <<sending, server>>
    BY DEF Handshake
  <1>5. session' = IF Fits(session.records) THEN Processed(units)
                   ELSE [session EXCEPT !.records = Left(@)]
    BY DEF Handshake
  <1>6. IF ~session'.handshaking
        THEN Rearm(RW, RW) /\ con' = [con EXCEPT !.connecting = FALSE, !.written = 0]
        ELSE reg' = [reg EXCEPT !.event = {}] /\ con' = con
    BY DEF Handshake, Established
  <1> HIDE DEF n, units
  <1>7. /\ sock' \in [up : BOOLEAN, out : Seq(Units), in : Seq(Units)]
        /\ Len(sock'.out) <= OutUnits
        /\ sock'.in = SubSeq(sock.in, n + 1, Len(sock.in))
        /\ Left(session.records) \in Seq(Units)
        /\ sock'.out \o Left(session.records) = Wire
        /\ Fits(session.records) => Left(session.records) = <<>> /\ sock'.out = Wire
    BY <1>2, <1>3, Flushed
  <1>8. /\ Coming' \in Seq(Units) /\ Len(Coming') = Len(Coming) - n
        /\ \A j \in 1 .. Len(Coming') : Coming'[j] = Coming[n + j]
    BY <1>1, <1>2, <1>4, <1>7, ComingAfter
  <1>9. Processed(units) \in [handshaking : BOOLEAN, records : Seq(Units)]
    BY Single DEF Processed
  <1>10. session' \in [handshaking : BOOLEAN, records : Seq(Units)]
         /\ (~Fits(session.records) => /\ session'.handshaking = TRUE
                                       /\ session'.records = Left(session.records))
    <2>1. CASE Fits(session.records)
      BY <1>5, <1>9, <2>1
    <2>2. CASE ~Fits(session.records)
      <3>1. session' = [session EXCEPT !.records = Left(session.records)]
        BY <1>5, <2>2
      <3>2. session \in [handshaking : BOOLEAN, records : Seq(Units)]
        BY <1>1 DEF Typed
      <3> QED
        BY <1>1, <1>7, <2>2, <3>1, <3>2
    <2> QED
      BY <2>1, <2>2
  <1>11. reg' \in [interest : SUBSET RW, queued : BOOLEAN, event : SUBSET RW] /\ "r" \notin reg'.event
    <2>1. CASE ~session'.handshaking
      <3>1. reg' \in [interest : SUBSET RW, queued : BOOLEAN, event : SUBSET RW]
            /\ reg'.event = reg.event \ RW
        BY <1>1, <1>6, <2>1, Rearmed
      <3> QED
        BY <3>1 DEF RW
    <2>2. CASE session'.handshaking
      BY <1>1, <1>6, <2>2 DEF Typed
    <2> QED
      BY <2>1, <2>2
  <1>12. /\ con' \in [connecting : BOOLEAN, written : Nat, pending : {0, 1}, handed : Nat, reported : Nat]
         /\ session'.handshaking = con'.connecting
         /\ con'.written = 0 /\ con'.pending = 0 /\ con'.handed = 0 /\ con'.reported = 0
    <2>1. con \in [connecting : BOOLEAN, written : Nat, pending : {0, 1}, handed : Nat, reported : Nat]
          /\ con.connecting = TRUE
          /\ con.written = 0 /\ con.pending = 0 /\ con.handed = 0 /\ con.reported = 0
      BY <1>1 DEF Typed, Greeting
    <2>2. session'.handshaking \in BOOLEAN
      BY <1>10
    <2>3. CASE session'.handshaking = TRUE
      BY <1>6, <2>1, <2>3
    <2>4. CASE session'.handshaking = FALSE
      BY <1>6, <2>1, <2>4
    <2> QED
      BY <2>2, <2>3, <2>4
  <1>13. Typed'
    BY <1>1, <1>4, <1>7, <1>10, <1>11, <1>12 DEF Typed
  <1>14. Bounded'
    BY <1>7, <1>11, <1>12 DEF Bounded
  <1>15. Wire \in Seq(Units) /\ Coming \in Seq(Units) /\ Len(Coming) = Len(sock.in) + Len(server.todo)
         /\ sock.in \in Seq(Units) /\ server.todo \in Seq(Units)
    BY <1>1, Lines
  <1>16. ASSUME Fits(session.records)
         PROVE  /\ session' = Processed(Taken)
                /\ Wire' = Wire \o Processed(Taken).records
                /\ Coming' \in Seq(Units) /\ Len(Coming') = Len(Coming) - Len(Taken)
                /\ Len(Taken) \in 0 .. Len(Coming)
                /\ \A j \in 1 .. Len(Coming') : Coming'[j] = Coming[Len(Taken) + j]
    <2>1. units = Taken /\ n = Len(Taken)
      BY <1>16 DEF units, n
    <2>2. session' = Processed(Taken) /\ sock'.out = Wire
      BY <1>5, <1>7, <1>16, <2>1
    <2>3. Wire' = Wire \o Processed(Taken).records
      BY <2>2 DEF Wire
    <2>4. Len(Taken) \in 0 .. Len(sock.in) /\ Len(sock.in) \in Nat /\ Len(server.todo) \in Nat
      BY <1>1, <1>15, TakenFirst, Lengths
    <2>5. Len(Taken) \in 0 .. Len(Coming)
      <3>1. \A a, b \in Nat : \A m \in 0 .. a : m \in 0 .. a + b
        OBVIOUS
      <3>2. Len(Taken) \in 0 .. Len(sock.in) + Len(server.todo)
        BY <2>4, <3>1
      <3> QED
        BY <1>15, <3>2
    <2> QED
      BY <1>8, <2>1, <2>2, <2>3, <2>5
  <1>17. ASSUME ~Fits(session.records)
         PROVE  con'.connecting = TRUE /\ Wire' = Wire /\ Coming' = Coming
    <2>1. n = 0
      BY <1>17 DEF units, n
    <2>2. sock'.in = sock.in
      BY <1>1, <1>7, <2>1, NothingRead
    <2>3. Wire' = sock'.out \o Left(session.records)
      BY <1>10, <1>17 DEF Wire
    <2> QED
      BY <1>4, <1>7, <1>10, <1>12, <1>17, <2>2, <2>3 DEF Coming
  <1> QED
    BY <1>1, <1>4, <1>12, <1>13, <1>14, <1>15, <1>16, <1>17

LEMMA Ends ==
  /\ Plain("flight").kind = "flight" /\ Plain("sfin").kind = "sfin"
  /\ LastOfFlight.kind = IF Tls13 THEN "sfin" ELSE "sdone"
  BY DEF Plain, Unit, LastOfFlight

\* With nothing to read the records of the client go out and the handshake waits.
LEMMA HandshakeWrites ==
  ASSUME TlsInv, Handshake, Coming = <<>>
  PROVE  Greeting' /\ con'.connecting
  <1>1. CASE Fits(session.records)
    <2>1. Taken = <<>> /\ Taken \in Seq(Units) /\ sock.in = <<>>
      <3>1. sock.in = <<>> /\ Taken \in Seq(Units) /\ Len(Taken) \in 0 .. Len(sock.in)
        BY Lines, TakenFirst DEF TlsInv
      <3>2. Len(Taken) = 0
        BY <3>1
      <3> QED
        BY <3>1, <3>2, Lengths
    <2>2. ~Has(Taken, "sfin") /\ ~Has(Taken, "sdone")
      BY <2>1 DEF Has
    <2>3. session'.handshaking = TRUE /\ Processed(Taken).records = <<>>
      <3>1. Processed(Taken).handshaking = TRUE /\ Processed(Taken).records = <<>>
        BY <2>2 DEF Processed
      <3>2. session' = Processed(Taken)
        BY <1>1, HandshakeMoves
      <3> QED
        BY <3>1, <3>2
    <2>4. Wire' = Wire
      BY <1>1, <2>3, HandshakeMoves, ConcatEmpty
    <2>5. Coming' = <<>>
      <3>1. Coming' \in Seq(Units) /\ Len(Coming') = Len(Coming) - Len(Taken)
        BY <1>1, HandshakeMoves
      <3>2. Len(Coming') = 0
        BY <2>1, <3>1
      <3> QED
        BY <3>1, <3>2, Lengths
    <2>6. /\ Greeting /\ session'.handshaking = con'.connecting
          /\ con'.written = 0 /\ con'.pending = 0 /\ con'.handed = 0 /\ con'.reported = 0
          /\ UNCHANGED <<sending, server>>
      BY HandshakeMoves
    <2> QED
      BY <2>3, <2>4, <2>5, <2>6 DEF Greeting
  <1>2. CASE ~Fits(session.records)
    <2>1. /\ Greeting /\ con'.connecting = TRUE /\ Wire' = Wire /\ Coming' = Coming
          /\ con'.written = 0 /\ con'.pending = 0 /\ con'.handed = 0 /\ con'.reported = 0
          /\ UNCHANGED <<sending, server>>
      BY <1>2, HandshakeMoves
    <2> QED
      BY <2>1 DEF Greeting
  <1> QED
    BY <1>1, <1>2

\* The session that starts a connection has at most its Finished to send.
LEMMA Starts ==
  ASSUME NEW last, last.kind # "request", NEW w, w = <<>> \/ (Tls13 /\ w = <<Plain("cfin")>>)
  PROVE  Ordered(w, 0, last)
  <1>1. CASE w = <<>>
    BY <1>1, TlsOK DEF Ordered
  <1>2. CASE Tls13 /\ w = <<Plain("cfin")>>
    <2>1. Len(w) = 1 /\ w[1] = At(0)
      BY <1>2 DEF At
    <2> QED
      BY <1>2, <2>1, TlsOK DEF Ordered
  <1> QED
    BY <1>1, <1>2

\* The flight of the server is read; its last unit makes the client finish.
LEMMA HandshakeReads ==
  ASSUME TlsInv, Handshake, Wire = <<>>, Coming # <<>>,
         \A j \in 1 .. Len(Coming) : Coming[j] = IF j = Len(Coming) THEN LastOfFlight ELSE Plain("flight")
  PROVE  IF con'.connecting THEN Greeting' ELSE Serving'
  <1> DEFINE n == Len(Taken)
             end == IF Tls13 THEN "sfin" ELSE "sdone"
  <1>1. session.records = <<>> /\ Fits(session.records)
    BY Lines, NoneFits DEF TlsInv
  <1>2. /\ Taken \in Seq(Units) /\ n \in 0 .. Len(Coming) /\ Coming \in Seq(Units)
        /\ \A j \in 1 .. n : Taken[j] = Coming[j]
    BY <1>1, HandshakeMoves, TakenFirst DEF TlsInv
  <1>3. Len(Coming) \in Nat \ {0}
    BY <1>2, Lengths
  <1>4. /\ Greeting /\ session'.handshaking = con'.connecting
        /\ con'.written = 0 /\ con'.pending = 0 /\ con'.handed = 0 /\ con'.reported = 0
        /\ UNCHANGED <<sending, server>>
        /\ session' = Processed(Taken)
        /\ Wire' = Wire \o Processed(Taken).records
        /\ Coming' \in Seq(Units) /\ Len(Coming') = Len(Coming) - n
        /\ \A j \in 1 .. Len(Coming') : Coming'[j] = Coming[n + j]
    BY <1>1, HandshakeMoves
  <1>5. /\ Processed(Taken).handshaking = ~Has(Taken, "sfin")
        /\ Processed(Taken).records = IF Has(Taken, end) THEN <<Plain("cfin")>> ELSE <<>>
    BY DEF Processed
  <1>6. Wire' = Processed(Taken).records
    <2>1. Processed(Taken).records \in Seq(Units)
      BY <1>5, Single
    <2> QED
      BY <1>4, <2>1, ConcatEmpty
  <1>7. ASSUME NEW kind \in {"sfin", "sdone"}, Has(Taken, kind)
        PROVE  n = Len(Coming) /\ kind = end
    <2>1. PICK j \in 1 .. n : Taken[j].kind = kind
      BY <1>7 DEF Has
    <2>2. j \in 1 .. Len(Coming) /\ Coming[j].kind = kind
      <3>1. \A m \in Nat : \A i \in 0 .. m : \A l \in 1 .. i : l \in 1 .. m
        OBVIOUS
      <3>2. j \in 1 .. Len(Coming)
        BY <1>2, <1>3, <3>1
      <3> QED
        BY <1>2, <2>1, <3>2
    <2>3. j = Len(Coming) /\ kind = end
      BY <2>2, Ends
    <2>4. n = Len(Coming)
      BY <1>2, <1>3, <2>3
    <2> QED
      BY <2>3, <2>4
  <1>8. CASE Has(Taken, end)
    <2>1. n = Len(Coming)
      BY <1>7, <1>8
    <2>2. Coming' = <<>>
      <3>1. Len(Coming') = 0
        BY <1>3, <1>4, <2>1
      <3> QED
        BY <1>4, <3>1, Lengths
    <2>3. Wire' = <<Plain("cfin")>>
      BY <1>5, <1>6, <1>8
    <2>4. CASE Tls13
      <3>1. con'.connecting = FALSE
        BY <1>4, <1>5, <1>8, <2>4
      <3>2. Ordered(Wire', con'.handed, server'.last)
        <4>1. server'.last.kind # "request" /\ con'.handed = 0
          BY <1>4 DEF Greeting
        <4> QED
          BY <2>3, <2>4, <4>1, Starts
      <3>3. Idle'
        BY <1>4, <2>2 DEF Idle, Greeting, Quiet
      <3> QED
        BY <3>1, <3>2, <3>3 DEF Serving
    <2>5. CASE ~Tls13
      <3>1. ~Has(Taken, "sfin")
        BY <1>7, <2>5
      <3>2. con'.connecting = TRUE
        BY <1>4, <1>5, <3>1
      <3> QED
        BY <1>4, <2>2, <2>3, <2>5, <3>2 DEF Greeting
    <2> QED
      BY <2>4, <2>5
  <1>9. CASE ~Has(Taken, end)
    <2>1. ~Has(Taken, "sfin")
      BY <1>7, <1>9
    <2>2. con'.connecting = TRUE /\ Wire' = <<>>
      BY <1>4, <1>5, <1>6, <1>9, <2>1
    <2>3. n # Len(Coming)
      <3> SUFFICES ASSUME n = Len(Coming) PROVE FALSE
        OBVIOUS
      <3>1. n \in 1 .. n /\ Taken[n] = LastOfFlight
        BY <1>2, <1>3
      <3>2. Taken[n].kind = end
        BY <3>1, Ends
      <3> QED
        BY <1>9, <3>1, <3>2 DEF Has
    <2>4. Len(Coming') \in Nat \ {0}
      BY <1>2, <1>3, <1>4, <2>3
    <2>5. Coming' # <<>>
      BY <1>4, <2>4, Lengths
    <2>6. ASSUME NEW j \in 1 .. Len(Coming')
          PROVE  Coming'[j] = IF j = Len(Coming') THEN LastOfFlight ELSE Plain("flight")
      <3> DEFINE m == Len(Coming)
      <3>1. \A i \in 0 .. m : \A l \in 1 .. m - i : i + l \in 1 .. m /\ (i + l = m <=> l = m - i)
        BY <1>3
      <3>2. j \in 1 .. m - n
        BY <1>4
      <3>3. n + j \in 1 .. m /\ (n + j = m <=> j = m - n)
        BY <1>2, <3>1, <3>2
      <3> QED
        BY <1>4, <3>3
    <2> QED
      BY <1>4, <2>2, <2>5, <2>6 DEF Greeting
  <1> QED
    BY <1>8, <1>9

\* The Finished of a server of TLS 1.2 ends the handshake.
LEMMA HandshakeFinishes ==
  ASSUME TlsInv, Handshake, ~Tls13, Wire = <<>>, Coming = <<Plain("sfin")>>
  PROVE  IF con'.connecting THEN Greeting' ELSE Serving'
  <1> DEFINE n == Len(Taken)
  <1>1. session.records = <<>> /\ Fits(session.records)
    BY Lines, NoneFits DEF TlsInv
  <1>2. /\ Taken \in Seq(Units) /\ n \in 0 .. 1 /\ Len(Coming) = 1 /\ Coming[1] = Plain("sfin")
        /\ \A j \in 1 .. n : Taken[j] = Coming[j]
    <2>1. Len(Coming) = 1 /\ Coming[1] = Plain("sfin")
      OBVIOUS
    <2>2. /\ Taken \in Seq(Units) /\ n \in 0 .. Len(Coming)
          /\ \A j \in 1 .. n : Taken[j] = Coming[j]
      BY <1>1, HandshakeMoves, TakenFirst DEF TlsInv
    <2> QED
      BY <2>1, <2>2
  <1>3. /\ Greeting /\ session'.handshaking = con'.connecting
        /\ con'.written = 0 /\ con'.pending = 0 /\ con'.handed = 0 /\ con'.reported = 0
        /\ UNCHANGED <<sending, server>>
        /\ session' = Processed(Taken)
        /\ Wire' = Wire \o Processed(Taken).records
        /\ Coming' \in Seq(Units) /\ Len(Coming') = Len(Coming) - n
        /\ \A j \in 1 .. Len(Coming') : Coming'[j] = Coming[n + j]
    BY <1>1, HandshakeMoves
  <1>4. ~Has(Taken, "sdone")
    <2>1. ASSUME NEW j \in 1 .. n PROVE Taken[j].kind = "sfin"
      BY <1>2, Ends
    <2> QED
      BY <2>1 DEF Has
  <1>5. /\ Processed(Taken).handshaking = ~Has(Taken, "sfin")
        /\ Processed(Taken).records = <<>>
    BY <1>4 DEF Processed
  <1>6. Wire' = <<>>
    BY <1>3, <1>5, ConcatEmpty, Single
  <1>7. CASE n = 0
    <2>1. ~Has(Taken, "sfin")
      BY <1>7 DEF Has
    <2>2. Len(Coming') = 1 /\ Coming'[1] = Plain("sfin")
      BY <1>2, <1>3, <1>7
    <2>3. Coming' = <<Plain("sfin")>>
      BY <1>3, <2>2
    <2> QED
      BY <1>3, <1>5, <1>6, <2>1, <2>3 DEF Greeting
  <1>8. CASE n = 1
    <2>1. Coming' = <<>>
      <3>1. Len(Coming') = 0
        BY <1>2, <1>3, <1>8
      <3> QED
        BY <1>3, <3>1, Lengths
    <2>2. Taken[1].kind = "sfin"
      BY <1>2, <1>8, Ends
    <2>3. con'.connecting = FALSE
      <3>1. Has(Taken, "sfin")
        BY <1>8, <2>2 DEF Has
      <3> QED
        BY <1>3, <1>5, <3>1
    <2>4. Ordered(Wire', con'.handed, server'.last)
      <3>1. server'.last.kind # "request" /\ con'.handed = 0
        BY <1>3 DEF Greeting
      <3> QED
        BY <1>6, <3>1, Starts
    <2>5. Idle'
      <3>1. Quiet'
        BY <2>1 DEF Quiet
      <3> QED
        BY <1>3, <3>1 DEF Idle, Greeting
    <2> QED
      BY <2>3, <2>4, <2>5 DEF Serving
  <1> QED
    BY <1>2, <1>7, <1>8

LEMMA HandshakeTls ==
  ASSUME TlsInv, Handshake
  PROVE  TlsInv'
  <1>1. Greeting /\ Typed' /\ Bounded' /\ con'.connecting \in BOOLEAN
    BY HandshakeMoves DEF Typed
  <1>2. IF con'.connecting THEN Greeting' ELSE Serving'
    <2>1. CASE Coming = <<>>
      BY <2>1, HandshakeWrites
    <2>2. CASE /\ Wire = <<>> /\ Coming # <<>>
               /\ \A j \in 1 .. Len(Coming) :
                     Coming[j] = IF j = Len(Coming) THEN LastOfFlight ELSE Plain("flight")
      BY <2>2, HandshakeReads
    <2>3. CASE ~Tls13 /\ Wire = <<>> /\ Coming = <<Plain("sfin")>>
      BY <2>3, HandshakeFinishes
    <2> QED
      BY <1>1, <2>1, <2>2, <2>3 DEF Greeting
  <1> QED
    BY <1>1, <1>2 DEF TlsInv

ConTypes == [connecting : BOOLEAN, written : Nat, pending : {0, 1}, handed : Nat, reported : Nat]

\* A read of tickets answers nothing; one that takes the response takes all there is.
LEMMA QuietRead ==
  ASSUME Quiet, Typed, NEW units \in Seq(Units), Len(units) \in 0 .. Len(Coming),
         \A j \in 1 .. Len(units) : units[j] = Coming[j],
         Coming' \in Seq(Units), Len(Coming') = Len(Coming) - Len(units),
         \A j \in 1 .. Len(Coming') : Coming'[j] = Coming[Len(units) + j]
  PROVE  ~Has(units, "response") /\ Quiet'
  <1>1. Len(units) \in Nat /\ Len(Coming) \in Nat
    BY Lines, Lengths
  <1>2. ASSUME NEW j \in 1 .. Len(units) PROVE units[j].kind # "response"
    <2>1. j \in 1 .. Len(Coming)
      BY <1>1
    <2> QED
      BY <2>1 DEF Quiet, Plain, Unit
  <1>3. ASSUME NEW j \in 1 .. Len(Coming') PROVE Coming'[j] = Plain("ticket")
    <2>1. Len(units) + j \in 1 .. Len(Coming)
      BY <1>1
    <2> QED
      BY <2>1 DEF Quiet
  <1> QED
    BY <1>2, <1>3 DEF Quiet, Has

LEMMA AnsweringRead ==
  ASSUME Answering, Typed, NEW units \in Seq(Units), Len(units) \in 0 .. Len(Coming),
         \A j \in 1 .. Len(units) : units[j] = Coming[j],
         Coming' \in Seq(Units), Len(Coming') = Len(Coming) - Len(units),
         \A j \in 1 .. Len(Coming') : Coming'[j] = Coming[Len(units) + j]
  PROVE  IF Has(units, "response") THEN Quiet' ELSE Answering'
  <1>1. Len(units) \in Nat /\ Len(Coming) \in Nat \ {0}
    BY Lines, Lengths DEF Answering
  <1>2. CASE Len(units) = Len(Coming)
    <2>1. Len(Coming') = 0
      BY <1>1, <1>2
    <2>2. Quiet'
      BY <2>1 DEF Quiet
    <2>3. Len(units) \in 1 .. Len(units) /\ units[Len(units)] = Plain("response")
      BY <1>1, <1>2 DEF Answering
    <2>4. Has(units, "response")
      BY <2>3 DEF Has, Plain, Unit
    <2> QED
      BY <2>2, <2>4
  <1>3. CASE Len(units) # Len(Coming)
    <2>1. ASSUME NEW j \in 1 .. Len(units) PROVE units[j].kind # "response"
      <3>1. j \in 1 .. Len(Coming) /\ j # Len(Coming)
        BY <1>1, <1>3
      <3> QED
        BY <3>1 DEF Answering, Plain, Unit
    <2>2. ~Has(units, "response")
      BY <2>1 DEF Has
    <2>3. Coming' # <<>>
      <3>1. Len(Coming') # 0
        BY <1>1, <1>3
      <3> QED
        BY <3>1, Lengths
    <2>4. ASSUME NEW j \in 1 .. Len(Coming')
          PROVE  Coming'[j] = IF j = Len(Coming') THEN Plain("response") ELSE Plain("ticket")
      <3>1. /\ Len(units) + j \in 1 .. Len(Coming)
            /\ Len(units) + j = Len(Coming) <=> j = Len(Coming')
        BY <1>1
      <3> QED
        BY <3>1 DEF Answering
    <2> QED
      BY <2>2, <2>3, <2>4 DEF Answering
  <1> QED
    BY <1>2, <1>3

LEMMA LeftUnits ==
  ASSUME Typed, Bounded, NEW kind, Has(Left(session.records), kind)
  PROVE  Has(session.records, kind)
  <1> DEFINE room == OutUnits - Len(sock.out)
             l == Len(session.records)
  <1>1. session.records \in Seq(Units) /\ room \in Nat /\ l \in Nat
    BY TlsOK, Lines DEF Bounded
  <1>2. Left(session.records) = SubSeq(session.records, room + 1, l)
    BY DEF Left
  <1>3. PICK j \in 1 .. Len(Left(session.records)) : Left(session.records)[j].kind = kind
    BY DEF Has
  <1> HIDE DEF room
  <1>4. Left(session.records)[j] = session.records[room + j] /\ room + j \in 1 .. l
    BY <1>1, <1>2
  <1> QED
    BY <1>3, <1>4 DEF Has

\* A read flushes first: the wire is as it was, and a response is the last that comes.
LEMMA ReadMoves ==
  ASSUME TlsInv, Read
  PROVE  /\ sock' \in [up : BOOLEAN, out : Seq(Units), in : Seq(Units)]
         /\ Len(sock'.out) <= OutUnits
         /\ session' \in [handshaking : BOOLEAN, records : Seq(Units)]
         /\ session'.handshaking = session.handshaking
         /\ Has(session'.records, "request") => Has(session.records, "request")
         /\ session.records = <<>> => session'.records = <<>>
         /\ reg' \in [interest : SUBSET RW, queued : BOOLEAN, event : SUBSET RW]
         /\ "r" \notin reg'.event
         /\ UNCHANGED <<sending, server>> /\ Wire' = Wire
         /\ \E answered \in BOOLEAN :
               /\ con' = [con EXCEPT !.pending = IF answered THEN con.pending - 1 ELSE con.pending]
               /\ Quiet => ~answered /\ Quiet'
               /\ Answering => IF answered THEN Quiet' ELSE Answering'
               /\ ~answered /\ OnlyReads => OnlyReads'
  <1> DEFINE units == IF Fits(session.records) THEN Taken ELSE <<>>
             answered == Has(units, "response")
             n == Len(units)
  <1>1. Typed /\ Bounded /\ session.records \in Seq(Units) /\ Coming \in Seq(Units)
        /\ sock.in \in Seq(Units) /\ Len(Coming) = Len(sock.in) + Len(server.todo)
        /\ server.todo \in Seq(Units)
    BY Lines DEF TlsInv
  <1>2. /\ units \in Seq(Units) /\ n \in 0 .. Len(sock.in)
        /\ \A j \in 1 .. n : units[j] = Coming[j]
    <2>1. CASE Fits(session.records)
      BY <1>1, <2>1, TakenFirst
    <2>2. CASE ~Fits(session.records)
      <3>1. units = <<>>
        BY <2>2
      <3> HIDE DEF units
      <3>2. units \in Seq(Units) /\ n = 0
        BY <3>1, Single
      <3>3. n \in 0 .. Len(sock.in)
        BY <1>1, <3>2, NothingRead
      <3> HIDE DEF n
      <3> QED
        BY <3>2, <3>3
    <2> QED
      BY <2>1, <2>2
  <1>3. /\ sock' = Exchanged(session.records, n)
        /\ session' = [session EXCEPT !.records = Left(session.records)]
        /\ con' = [con EXCEPT !.pending = IF answered THEN con.pending - 1 ELSE con.pending]
        /\ Rearm(IF answered THEN RW ELSE R, R)
        /\ UNCHANGED <<sending, server>>
    BY DEF Read
  <1>4. answered \in BOOLEAN
    BY DEF Has
  <1>5. n \in 0 .. Len(Coming)
    <2>1. Len(sock.in) \in Nat /\ Len(server.todo) \in Nat
      BY <1>1, Lengths
    <2>2. \A a, b \in Nat : \A m \in 0 .. a : m \in 0 .. a + b
      OBVIOUS
    <2>3. n \in 0 .. Len(sock.in) + Len(server.todo)
      BY <1>2, <2>1, <2>2
    <2> QED
      BY <1>1, <2>3
  <1> HIDE DEF units, n, answered
  <1>6. /\ sock' \in [up : BOOLEAN, out : Seq(Units), in : Seq(Units)]
        /\ Len(sock'.out) <= OutUnits
        /\ sock'.in = SubSeq(sock.in, n + 1, Len(sock.in))
        /\ Left(session.records) \in Seq(Units)
        /\ sock'.out \o Left(session.records) = Wire
        /\ Fits(session.records) => Left(session.records) = <<>>
    BY <1>2, <1>3, Flushed
  <1>7. session' \in [handshaking : BOOLEAN, records : Seq(Units)]
        /\ session'.records = Left(session.records)
        /\ session'.handshaking = session.handshaking
    BY <1>1, <1>3, <1>6 DEF Typed
  <1>8. Wire' = Wire
    BY <1>6, <1>7 DEF Wire
  <1>9. Has(session'.records, "request") => Has(session.records, "request")
    BY <1>1, <1>7, LeftUnits
  <1>10. session.records = <<>> => session'.records = <<>>
    BY <1>1, <1>6, <1>7, NoneFits
  <1>11. /\ Coming' \in Seq(Units) /\ Len(Coming') = Len(Coming) - n
         /\ \A j \in 1 .. Len(Coming') : Coming'[j] = Coming[n + j]
    BY <1>1, <1>2, <1>3, <1>6, ComingAfter
  <1>12. Quiet => ~answered /\ Quiet'
    BY <1>1, <1>2, <1>5, <1>11, QuietRead DEF n, answered
  <1>13. Answering => IF answered THEN Quiet' ELSE Answering'
    BY <1>1, <1>2, <1>5, <1>11, AnsweringRead DEF n, answered
  <1>14. /\ reg' \in [interest : SUBSET RW, queued : BOOLEAN, event : SUBSET RW]
         /\ reg'.interest = IF answered THEN RW ELSE R
         /\ reg'.event = reg.event \ R
    <2>1. RW \in SUBSET RW /\ R \in SUBSET RW
      BY DEF R, RW
    <2>2. (IF answered THEN RW ELSE R) \in SUBSET RW
      BY <2>1
    <2> QED
      BY <1>1, <1>3, <2>2, Rearmed
  <1>15. "r" \notin reg'.event /\ (~answered /\ OnlyReads => OnlyReads')
    BY <1>14 DEF R, OnlyReads
  <1> QED
    BY <1>3, <1>4, <1>6, <1>7, <1>8, <1>9, <1>10, <1>12, <1>13, <1>14, <1>15

\* What a read does to a burst: nothing, or it ends one whose answer it took.
LEMMA ReadTls ==
  ASSUME TlsInv, Read
  PROVE  TlsInv'
  <1>1. /\ Typed /\ Bounded /\ Serving /\ con.connecting = FALSE
    BY DEF TlsInv, Read, Readable, Typed
  <1>2. /\ sock' \in [up : BOOLEAN, out : Seq(Units), in : Seq(Units)]
        /\ Len(sock'.out) <= OutUnits
        /\ session' \in [handshaking : BOOLEAN, records : Seq(Units)]
        /\ session'.handshaking = session.handshaking
        /\ Has(session'.records, "request") => Has(session.records, "request")
        /\ session.records = <<>> => session'.records = <<>>
        /\ reg' \in [interest : SUBSET RW, queued : BOOLEAN, event : SUBSET RW]
        /\ "r" \notin reg'.event
        /\ UNCHANGED <<sending, server>> /\ Wire' = Wire
    BY ReadMoves
  <1>3. PICK answered \in BOOLEAN :
               /\ con' = [con EXCEPT !.pending = IF answered THEN con.pending - 1 ELSE con.pending]
               /\ Quiet => ~answered /\ Quiet'
               /\ Answering => IF answered THEN Quiet' ELSE Answering'
               /\ ~answered /\ OnlyReads => OnlyReads'
    BY ReadMoves
  <1>4. answered => Answering /\ con.pending = 1
    BY <1>1, <1>3 DEF Serving, Idle, Writing, Awaiting, Untold, Phantom
  <1>5. /\ con' \in ConTypes /\ con'.connecting = FALSE /\ con'.written = con.written
        /\ con'.handed = con.handed /\ con'.reported = con.reported
        /\ con'.pending = IF answered THEN 0 ELSE con.pending
    <2>1. con \in ConTypes
      BY <1>1 DEF Typed, ConTypes
    <2>2. CASE answered
      <3>1. con' = [con EXCEPT !.pending = 0]
        BY <1>3, <1>4, <2>2
      <3> QED
        BY <1>1, <2>1, <2>2, <3>1 DEF ConTypes
    <2>3. CASE ~answered
      <3>1. con' = [con EXCEPT !.pending = con.pending]
        BY <1>3, <2>3
      <3> QED
        BY <1>1, <2>1, <2>3, <3>1 DEF ConTypes
    <2> QED
      BY <2>2, <2>3
  <1>6. CASE ~answered
    <2>1. Idle => Idle'
      BY <1>2, <1>3, <1>5, <1>6 DEF Idle
    <2>2. Writing => Writing'
      BY <1>2, <1>3, <1>5, <1>6 DEF Writing
    <2>3. Awaiting => Awaiting'
      BY <1>2, <1>3, <1>5, <1>6 DEF Awaiting
    <2>4. Untold => Untold'
      BY <1>2, <1>3, <1>5, <1>6 DEF Untold
    <2>5. Phantom => Phantom'
      BY <1>2, <1>3, <1>5, <1>6 DEF Phantom
    <2>6. (Idle \/ Writing \/ Awaiting \/ Untold \/ Phantom)'
      BY <1>1, <2>1, <2>2, <2>3, <2>4, <2>5 DEF Serving
    <2>7. Ordered(Wire', con'.handed, server'.last)
      BY <1>1, <1>2, <1>5 DEF Serving
    <2>8. Typed' /\ Bounded'
      BY <1>1, <1>2, <1>5 DEF Typed, Bounded, ConTypes
    <2> QED
      BY <1>5, <2>6, <2>7, <2>8 DEF TlsInv, Serving
  <1>7. CASE answered
    <2>1. Answering /\ con.pending = 1 /\ ~Quiet /\ Quiet'
      BY <1>3, <1>4, <1>7
    <2>2. Awaiting \/ Untold
      BY <1>1, <2>1 DEF Serving, Idle, Writing, Phantom
    <2>3. Awaiting => Idle'
      BY <1>2, <1>5, <1>7, <2>1 DEF Awaiting, Idle
    <2>4. Untold => Untold'
      BY <1>2, <1>5, <1>7, <2>1 DEF Untold
    <2>5. (Idle \/ Untold)'
      BY <2>2, <2>3, <2>4
    <2>6. Ordered(Wire', con'.handed, server'.last)
      BY <1>1, <1>2, <1>5 DEF Serving
    <2>7. Typed' /\ Bounded'
      BY <1>1, <1>2, <1>5 DEF Typed, Bounded, ConTypes
    <2> QED
      BY <1>5, <2>5, <2>6, <2>7 DEF TlsInv, Serving
  <1> QED
    BY <1>6, <1>7

\* No part of the request is among the records of a session between two bursts.
LEMMA NoRequest ==
  ASSUME Typed, Ordered(Wire, con.handed, server.last), con.handed = 0 \/ Wire = <<>>
  PROVE  ~Has(session.records, "request")
  <1> SUFFICES ASSUME NEW j \in 1 .. Len(session.records), session.records[j].kind = "request"
               PROVE  FALSE
    BY DEF Has
  <1> DEFINE o == Len(sock.out)
             l == Len(session.records)
             head == con.handed - Len(Wire)
  <1>1. /\ sock.out \in Seq(Units) /\ session.records \in Seq(Units)
        /\ Len(Wire) = o + l /\ o \in Nat /\ l \in Nat
        /\ (Wire = <<>> => session.records = <<>>)
    BY Lines, Lengths
  <1>2. Wire # <<>>
    BY <1>1
  <1>3. con.handed = 0 /\ 0 <= head + 1 /\ \A i \in 1 .. Len(Wire) : Wire[i] = At(head + i)
    BY <1>2 DEF Ordered
  <1> HIDE DEF o, l
  <1>4. o + j \in 1 .. o + l /\ ~(o + j <= o) /\ (o + j) - o = j /\ j \in 1 .. l
    BY <1>1 DEF l
  <1>5. Wire[o + j] = session.records[j]
    <2>1. (sock.out \o session.records)[o + j] = IF o + j <= Len(sock.out) THEN sock.out[o + j]
                                                 ELSE session.records[(o + j) - Len(sock.out)]
      BY <1>1, <1>4, ConcatAt DEF o, l
    <2> QED
      BY <1>4, <2>1, Zenon DEF Wire, o
  <1>6. head + (o + j) = 0
    BY <1>1, <1>3, <1>4
  <1>7. Wire[o + j] = At(0)
    BY <1>1, <1>3, <1>4, <1>6
  <1> QED
    BY <1>5, <1>7 DEF At, Plain, Unit

\* A writable event finds no answer outstanding, unless the write was not told: a burst
\* is under way, or starts.
LEMMA Bursting ==
  ASSUME TlsInv, Writable, ~Untold
  PROVE  /\ con.connecting = FALSE /\ Typed /\ Bounded /\ Quiet
         /\ StartBurst \in ConTypes
         /\ StartBurst.connecting = FALSE /\ StartBurst.pending = 1
         /\ StartBurst.written = con.written /\ con.written \in Nat /\ con.written < RequestUnits
         /\ StartBurst.reported = con.written /\ StartBurst.handed = con.written + sending
         /\ Ordered(Wire, StartBurst.handed, server.last)
         /\ StartBurst.handed = RequestUnits => Wire # <<>>
         /\ sending = 0 => ~Has(session.records, "request")
  <1>1. /\ Typed /\ Bounded /\ Serving /\ con.connecting = FALSE
        /\ con \in ConTypes /\ con.written \in Nat /\ sending \in Nat /\ RequestUnits \in Nat \ {0}
    BY TlsOK DEF TlsInv, Writable, Typed, ConTypes
  <1>2. ~Awaiting /\ ~Phantom
    BY DEF Awaiting, Phantom, OnlyReads, Writable, R
  <1>3. CASE Idle
    <2>1. /\ con.pending = 0 /\ con.written = 0 /\ sending = 0 /\ Quiet
          /\ con.handed = 0 \/ (con.handed = RequestUnits /\ Wire = <<>>)
      BY <1>3 DEF Idle
    <2>2. /\ StartBurst = [con EXCEPT !.pending = 1, !.handed = 0, !.reported = 0]
      BY <2>1 DEF StartBurst
    <2>3. /\ StartBurst \in ConTypes /\ StartBurst.connecting = con.connecting
          /\ StartBurst.pending = 1 /\ StartBurst.written = con.written
          /\ StartBurst.handed = 0 /\ StartBurst.reported = 0
      BY <1>1, <2>2 DEF ConTypes
    <2>4. Ordered(Wire, 0, server.last)
      BY <1>1, <2>1, OrderedStart DEF Serving
    <2>5. ~Has(session.records, "request")
      BY <1>1, <2>1, NoRequest DEF Serving
    <2> QED
      BY <1>1, <2>1, <2>3, <2>4, <2>5
  <1>4. CASE Writing
    <2>1. /\ con.pending = 1 /\ con.reported < RequestUnits /\ con.written = con.reported
          /\ con.reported + sending = con.handed
          /\ con.handed = RequestUnits => Wire # <<>>
          /\ sending = 0 => ~Has(session.records, "request")
          /\ Quiet
      BY <1>4 DEF Writing
    <2>2. StartBurst \in ConTypes /\ StartBurst.connecting = con.connecting
          /\ StartBurst.pending = 1 /\ StartBurst.written = con.written
          /\ StartBurst.handed = con.handed /\ StartBurst.reported = con.reported
      <3>1. CASE con.written > 0
        BY <1>1, <2>1, <3>1 DEF StartBurst
      <3>2. CASE ~(con.written > 0)
        <4>1. StartBurst = [con EXCEPT !.pending = 1, !.handed = con.handed, !.reported = con.reported]
          BY <2>1, <3>2 DEF StartBurst
        <4> QED
          BY <1>1, <2>1, <4>1 DEF ConTypes
      <3> QED
        BY <3>1, <3>2
    <2> QED
      BY <1>1, <2>1, <2>2 DEF Serving
  <1> QED
    BY <1>1, <1>2, <1>3, <1>4 DEF Serving

LEMMA Advances ==
  ASSUME NEW c \in ConTypes, NEW n \in Nat
  PROVE  /\ Advanced(c, n) \in ConTypes
         /\ Advanced(c, n).connecting = c.connecting /\ Advanced(c, n).pending = c.pending
         /\ Advanced(c, n).handed = c.handed /\ Advanced(c, n).reported = c.reported + n
         /\ Advanced(c, n).written = IF c.written + n = RequestUnits THEN 0 ELSE c.written + n
  <1> DEFINE w == IF c.written + n = RequestUnits THEN 0 ELSE c.written + n
             r == c.reported + n
  <1>1. w \in Nat /\ r \in Nat
    BY DEF ConTypes
  <1>2. Advanced(c, n) = [c EXCEPT !.written = w, !.reported = r]
    BY DEF Advanced
  <1> HIDE DEF w, r
  <1>3. /\ Advanced(c, n) \in ConTypes
        /\ Advanced(c, n).connecting = c.connecting /\ Advanced(c, n).pending = c.pending
        /\ Advanced(c, n).handed = c.handed /\ Advanced(c, n).reported = r
        /\ Advanced(c, n).written = w
    BY <1>1, <1>2 DEF ConTypes
  <1> QED
    BY <1>3 DEF w, r

\* A chunk is a part of what is left of the request.
LEMMA ChunkFits ==
  ASSUME con.written \in Nat, con.written < RequestUnits
  PROVE  Chunk \in Nat \ {0} /\ con.written + Chunk <= RequestUnits
  BY TlsOK DEF Chunk, Lesser

\* The records still do not fit: the burst is as it was.
LEMMA WriteBlockedTls ==
  ASSUME TlsInv, WriteBlocked
  PROVE  TlsInv'
  <1>1. /\ Writable /\ ~Fits(session.records)
        /\ sock' = Exchanged(session.records, 0)
        /\ session' = [session EXCEPT !.records = Left(session.records)]
        /\ con' = StartBurst
        /\ Rearm(RW, {"w"})
        /\ UNCHANGED <<sending, server>>
    BY DEF WriteBlocked, Retry
  <1>2. /\ con.connecting = FALSE /\ Typed /\ Bounded /\ Quiet
        /\ StartBurst \in ConTypes
        /\ StartBurst.connecting = FALSE /\ StartBurst.pending = 1
        /\ StartBurst.written = con.written /\ con.written \in Nat /\ con.written < RequestUnits
        /\ StartBurst.reported = con.written /\ StartBurst.handed = con.written + sending
        /\ Ordered(Wire, StartBurst.handed, server.last)
        /\ StartBurst.handed = RequestUnits => Wire # <<>>
        /\ sending = 0 => ~Has(session.records, "request")
    <2>1. session.records # <<>>
      BY <1>1, NoneFits DEF TlsInv
    <2>2. ~Untold
      BY <2>1, Lines DEF TlsInv, Untold
    <2> QED
      BY <1>1, <2>2, Bursting
  <1>3. 0 \in 0 .. Len(sock.in) /\ SubSeq(sock.in, 0 + 1, Len(sock.in)) = sock.in
    BY <1>2, NothingRead
  <1>4. /\ sock' \in [up : BOOLEAN, out : Seq(Units), in : Seq(Units)]
        /\ Len(sock'.out) <= OutUnits
        /\ sock'.in = SubSeq(sock.in, 0 + 1, Len(sock.in))
        /\ Left(session.records) \in Seq(Units)
        /\ sock'.out \o Left(session.records) = Wire
        /\ Left(session.records) # <<>>
    BY <1>1, <1>3, Flushed
  <1>5. session' \in [handshaking : BOOLEAN, records : Seq(Units)]
        /\ session'.records = Left(session.records)
        /\ session'.handshaking = session.handshaking
    BY <1>1, <1>2, <1>4 DEF Typed
  <1>6. Wire' = Wire /\ Quiet'
    <2>1. Wire' = Wire /\ Coming' = Coming
      BY <1>1, <1>3, <1>4, <1>5 DEF Wire, Coming
    <2> QED
      BY <1>2, <2>1 DEF Quiet
  <1>7. reg' \in [interest : SUBSET RW, queued : BOOLEAN, event : SUBSET RW] /\ "r" \notin reg'.event
    <2>1. RW \in SUBSET RW
      OBVIOUS
    <2>2. /\ reg' \in [interest : SUBSET RW, queued : BOOLEAN, event : SUBSET RW]
          /\ reg'.event = reg.event \ {"w"}
      BY <1>1, <1>2, <2>1, Rearmed
    <2> QED
      BY <1>1, <2>2 DEF Writable
  <1>8. Typed'
    BY <1>1, <1>2, <1>4, <1>5, <1>7 DEF Typed, ConTypes
  <1>9. Bounded'
    BY <1>1, <1>2, <1>4, <1>5, <1>7 DEF Bounded
  <1>10. sending = 0 => ~Has(session'.records, "request")
    BY <1>2, <1>5, LeftUnits
  <1>11. Writing'
    BY <1>1, <1>2, <1>4, <1>5, <1>6, <1>10 DEF Writing
  <1> QED
    BY <1>1, <1>2, <1>6, <1>8, <1>9, <1>11 DEF TlsInv, Serving

\* A write that reports n more units of a burst of which nothing is left behind: the
\* burst goes on, or is out and waits for its answer.
LEMMA Reported ==
  ASSUME Typed, Writable, NEW c \in ConTypes, NEW n \in Nat \ {0},
         c.pending = 1, c.written \in Nat, c.reported = c.written, c.written + n = c.handed,
         c.handed <= RequestUnits,
         con' = Advanced(c, n), sending' = 0, session'.records = <<>>,
         c.handed = RequestUnits => Wire' # <<>>,
         Quiet', Rearm(AfterWrite(con'), {"w"})
  PROVE  /\ reg' \in [interest : SUBSET RW, queued : BOOLEAN, event : SUBSET RW] /\ "r" \notin reg'.event
         /\ con' \in ConTypes /\ con'.connecting = c.connecting /\ con'.handed = c.handed
         /\ (Writing \/ Awaiting)'
  <1>1. /\ con' \in ConTypes /\ con'.connecting = c.connecting /\ con'.pending = 1
        /\ con'.handed = c.handed /\ con'.reported = c.handed
        /\ con'.written = IF c.handed = RequestUnits THEN 0 ELSE c.handed
    <2>1. /\ Advanced(c, n) \in ConTypes
          /\ Advanced(c, n).connecting = c.connecting /\ Advanced(c, n).pending = c.pending
          /\ Advanced(c, n).handed = c.handed /\ Advanced(c, n).reported = c.reported + n
          /\ Advanced(c, n).written = IF c.written + n = RequestUnits THEN 0 ELSE c.written + n
      <3>1. n \in Nat
        OBVIOUS
      <3> QED
        BY <3>1, Advances
    <2> QED
      BY <2>1
  <1>2. RequestUnits \in Nat \ {0} /\ c.handed \in Nat \ {0}
    BY TlsOK
  <1>3. /\ reg' \in [interest : SUBSET RW, queued : BOOLEAN, event : SUBSET RW]
        /\ reg'.interest = AfterWrite(con') /\ reg'.event = {}
    <2>1. AfterWrite(con') \in SUBSET RW
      BY DEF AfterWrite, R, RW
    <2>2. /\ reg' \in [interest : SUBSET RW, queued : BOOLEAN, event : SUBSET RW]
          /\ reg'.interest = AfterWrite(con') /\ reg'.event = reg.event \ {"w"}
      BY <2>1, Rearmed
    <2> QED
      BY <2>2 DEF Writable
  <1>4. CASE c.handed = RequestUnits
    <2>1. AfterWrite(con') = R
      BY <1>1, <1>4 DEF AfterWrite
    <2>2. Awaiting'
      BY <1>1, <1>3, <1>4, <2>1 DEF Awaiting, OnlyReads
    <2> QED
      BY <1>1, <1>3, <2>2
  <1>5. CASE c.handed # RequestUnits
    <2>1. ~Has(session'.records, "request")
      BY DEF Has
    <2>2. Writing'
      BY <1>1, <1>2, <1>5, <2>1 DEF Writing
    <2> QED
      BY <1>1, <1>3, <2>2
  <1> QED
    BY <1>4, <1>5

\* The write is told at last: its burst waits for the answer, or has it already.  A burst
\* that went out in one chunk starts over first, and what is reported is taken for the
\* next one.
LEMMA LateReport ==
  ASSUME TlsInv, Untold, Writable, con' = Advanced(StartBurst, sending), sending' = 0,
         session'.records = <<>>, server' = server, Rearm(AfterWrite(con'), {"w"}),
         Wire' = Wire, Quiet' = Quiet, Answering' = Answering
  PROVE  /\ reg' \in [interest : SUBSET RW, queued : BOOLEAN, event : SUBSET RW]
         /\ "r" \notin reg'.event
         /\ con' \in ConTypes /\ con'.connecting = FALSE
         /\ Ordered(Wire', con'.handed, server'.last)
         /\ (Idle \/ Awaiting \/ Phantom)'
  <1>1. /\ Typed /\ con \in ConTypes /\ con.connecting = FALSE
        /\ Ordered(Wire, con.handed, server.last) /\ Wire = <<>>
        /\ sending \in Nat /\ RequestUnits \in Nat \ {0}
        /\ con.written \in Nat /\ con.reported \in Nat /\ con.pending \in {0, 1}
        /\ con.reported < RequestUnits /\ con.written = con.reported
        /\ con.reported + sending = RequestUnits /\ con.handed = RequestUnits
    BY TlsOK DEF TlsInv, Typed, ConTypes, Writable, Untold, Serving
  <1>2. /\ Advanced(StartBurst, sending).written = 0
        /\ Advanced(StartBurst, sending).connecting = FALSE
        /\ Advanced(StartBurst, sending).reported = RequestUnits
        /\ Advanced(StartBurst, sending).handed = StartBurst.handed
        /\ Advanced(StartBurst, sending).pending = StartBurst.pending
        /\ Advanced(StartBurst, sending) \in ConTypes
        /\ IF con.written > 0 \/ con.pending = 1
           THEN StartBurst.handed = RequestUnits /\ StartBurst.pending = con.pending
           ELSE StartBurst.handed = 0 /\ StartBurst.pending = 1
    <2> SUFFICES /\ StartBurst \in ConTypes /\ StartBurst.connecting = FALSE
                 /\ StartBurst.written + sending = RequestUnits
                 /\ StartBurst.reported + sending = RequestUnits
                 /\ IF con.written > 0 \/ con.pending = 1
                    THEN StartBurst.handed = RequestUnits /\ StartBurst.pending = con.pending
                    ELSE StartBurst.handed = 0 /\ StartBurst.pending = 1
      BY <1>1, Advances
    <2>1. CASE con.written > 0
      BY <1>1, <2>1 DEF StartBurst
    <2>2. CASE ~(con.written > 0) /\ con.pending = 1
      <3>1. StartBurst = [con EXCEPT !.pending = 1, !.handed = con.handed, !.reported = con.reported]
        BY <2>2 DEF StartBurst
      <3> QED
        BY <1>1, <2>2, <3>1 DEF ConTypes
    <2>3. CASE ~(con.written > 0) /\ con.pending = 0
      <3>1. StartBurst = [con EXCEPT !.pending = 1, !.handed = 0, !.reported = 0]
        BY <2>3 DEF StartBurst
      <3>2. con.written = 0 /\ con.reported = 0
        BY <1>1, <2>3
      <3>3. /\ StartBurst \in ConTypes /\ StartBurst.connecting = FALSE
            /\ StartBurst.written = con.written /\ StartBurst.reported = 0
            /\ StartBurst.handed = 0 /\ StartBurst.pending = 1
        BY <1>1, <3>1 DEF ConTypes
      <3> QED
        BY <1>1, <2>3, <3>2, <3>3
    <2> QED
      BY <1>1, <2>1, <2>2, <2>3
  <1>3. AfterWrite(con') = R
    BY <1>2 DEF AfterWrite
  <1>4. /\ reg' \in [interest : SUBSET RW, queued : BOOLEAN, event : SUBSET RW]
        /\ reg'.interest = R /\ reg'.event = {}
    <2>1. R \in SUBSET RW
      BY DEF R, RW
    <2>2. /\ reg' \in [interest : SUBSET RW, queued : BOOLEAN, event : SUBSET RW]
          /\ reg'.interest = R /\ reg'.event = reg.event \ {"w"}
      BY <1>1, <1>3, <2>1, Rearmed
    <2> QED
      BY <2>2 DEF Writable
  <1>5. OnlyReads'
    BY <1>4 DEF OnlyReads, R
  <1>6. CASE con.pending = 1
    <2>1. Answering
      BY <1>6 DEF Untold
    <2>2. Awaiting'
      BY <1>1, <1>2, <1>5, <1>6, <2>1 DEF Awaiting
    <2> QED
      BY <1>1, <1>2, <1>4, <1>6, <2>2
  <1>7. CASE con.pending = 0
    <2>1. Quiet
      BY <1>7 DEF Untold
    <2>2. CASE con.written > 0
      <3>1. Idle'
        BY <1>1, <1>2, <1>7, <2>1, <2>2 DEF Idle
      <3> QED
        BY <1>1, <1>2, <1>4, <2>2, <3>1
    <2>3. CASE ~(con.written > 0)
      <3>1. Phantom'
        BY <1>1, <1>2, <1>5, <1>7, <2>1, <2>3 DEF Phantom
      <3>2. Ordered(Wire', con'.handed, server'.last)
        BY <1>1, <1>2, <1>7, <2>3, OrderedStart
      <3> QED
        BY <1>2, <1>4, <3>1, <3>2
    <2> QED
      BY <2>2, <2>3
  <1> QED
    BY <1>1, <1>6, <1>7

\* The records of a chunk are out: it is reported.
LEMMA ReportSentTls ==
  ASSUME TlsInv, ReportSent
  PROVE  TlsInv'
  <1>1. /\ Writable /\ Fits(session.records) /\ sending > 0
        /\ sock' = Exchanged(session.records, 0)
        /\ session' = [session EXCEPT !.records = <<>>]
        /\ con' = Advanced(StartBurst, sending)
        /\ sending' = 0
        /\ Rearm(AfterWrite(con'), {"w"})
        /\ UNCHANGED server
    BY DEF ReportSent
  <1>2. Typed /\ Bounded /\ Serving /\ con.connecting = FALSE /\ con \in ConTypes
    BY <1>1 DEF TlsInv, Writable, Typed, ConTypes
  <1>3. 0 \in 0 .. Len(sock.in) /\ SubSeq(sock.in, 0 + 1, Len(sock.in)) = sock.in
    BY <1>2, NothingRead
  <1>4. /\ sock' \in [up : BOOLEAN, out : Seq(Units), in : Seq(Units)]
        /\ Len(sock'.out) <= OutUnits
        /\ sock'.in = SubSeq(sock.in, 0 + 1, Len(sock.in))
        /\ sock'.out = Wire
    BY <1>1, <1>3, Flushed
  <1>5. session' \in [handshaking : BOOLEAN, records : Seq(Units)]
        /\ session'.records = <<>>
        /\ session'.handshaking = session.handshaking
    BY <1>1, <1>2, Single DEF Typed
  <1>6. Wire' = Wire /\ Quiet' = Quiet /\ Answering' = Answering
    <2>1. Wire \in Seq(Units)
      BY <1>2, Lines
    <2>2. Wire' = Wire
      BY <1>4, <1>5, <2>1, ConcatEmpty, Single DEF Wire
    <2>3. Coming' = Coming
      BY <1>1, <1>3, <1>4 DEF Coming
    <2> QED
      BY <2>2, <2>3 DEF Quiet, Answering
  <1>7. sending \in Nat \ {0}
    BY <1>1, <1>2 DEF Typed
  <1>8. /\ reg' \in [interest : SUBSET RW, queued : BOOLEAN, event : SUBSET RW]
        /\ "r" \notin reg'.event
        /\ con' \in ConTypes /\ con'.connecting = FALSE
        /\ Ordered(Wire', con'.handed, server'.last)
        /\ (Idle \/ Writing \/ Awaiting \/ Phantom)'
    <2>1. CASE ~Untold
      <3>1. /\ Quiet /\ StartBurst \in ConTypes
            /\ StartBurst.connecting = FALSE /\ StartBurst.pending = 1
            /\ StartBurst.written = con.written /\ con.written \in Nat
            /\ StartBurst.reported = con.written /\ StartBurst.handed = con.written + sending
            /\ Ordered(Wire, StartBurst.handed, server.last)
            /\ StartBurst.handed = RequestUnits => Wire # <<>>
        BY <1>1, <2>1, Bursting
      <3>2. StartBurst.handed <= RequestUnits
        BY <3>1, TlsOK DEF Ordered
      <3>3. /\ reg' \in [interest : SUBSET RW, queued : BOOLEAN, event : SUBSET RW]
            /\ "r" \notin reg'.event
            /\ con' \in ConTypes /\ con'.connecting = FALSE /\ con'.handed = StartBurst.handed
            /\ (Writing \/ Awaiting)'
        BY <1>1, <1>2, <1>5, <1>6, <1>7, <3>1, <3>2, Reported
      <3> QED
        BY <1>1, <1>6, <3>1, <3>3
    <2>2. CASE Untold
      BY <1>1, <1>5, <1>6, <2>2, LateReport
    <2> QED
      BY <2>1, <2>2
  <1>9. Typed'
    BY <1>1, <1>2, <1>4, <1>5, <1>8 DEF Typed, ConTypes
  <1>10. Bounded'
    BY <1>2, <1>4, <1>5, <1>8 DEF Bounded
  <1> QED
    BY <1>8, <1>9, <1>10 DEF TlsInv, Serving

\* The next chunk is handed over: reported if its records get out, else on its way.
LEMMA WriteChunkTls ==
  ASSUME TlsInv, WriteChunk
  PROVE  TlsInv'
  <1> DEFINE chunk == [i \in 1 .. Chunk |-> Unit("request", con.written + i)]
             records == session.records \o chunk
             c == [StartBurst EXCEPT !.handed = @ + Chunk]
  <1>1. /\ Writable /\ Fits(session.records) /\ sending = 0
        /\ sock' = Exchanged(records, 0)
        /\ session' = [session EXCEPT !.records = Left(records)]
        /\ IF Fits(records)
           THEN con' = Advanced(c, Chunk) /\ Rearm(AfterWrite(con'), {"w"}) /\ UNCHANGED sending
           ELSE con' = c /\ sending' = Chunk /\ Rearm(RW, {"w"})
        /\ UNCHANGED server
    BY DEF WriteChunk, Queued, Retry
  <1>2. /\ con.connecting = FALSE /\ Typed /\ Bounded /\ Quiet
        /\ StartBurst \in ConTypes
        /\ StartBurst.connecting = FALSE /\ StartBurst.pending = 1
        /\ StartBurst.written = con.written /\ con.written \in Nat /\ con.written < RequestUnits
        /\ StartBurst.reported = con.written /\ StartBurst.handed = con.written + sending
        /\ Ordered(Wire, StartBurst.handed, server.last)
    <2>1. ~Untold
      BY <1>1 DEF TlsInv, Typed, Untold
    <2> QED
      BY <1>1, <2>1, Bursting
  <1>3. Chunk \in Nat \ {0} /\ con.written + Chunk <= RequestUnits
    BY <1>2, ChunkFits
  <1>4. StartBurst.handed = con.written
    BY <1>1, <1>2
  <1>5. /\ c \in ConTypes /\ c.connecting = FALSE /\ c.pending = 1 /\ c.written = con.written
        /\ c.reported = con.written /\ c.handed = con.written + Chunk
    <2>1. c = [StartBurst EXCEPT !.handed = con.written + Chunk]
      BY <1>4
    <2>2. con.written + Chunk \in Nat
      BY <1>2, <1>3
    <2> QED
      BY <1>2, <2>1, <2>2 DEF ConTypes
  <1>6. chunk \in Seq(Units) /\ Len(chunk) = Chunk
    BY <1>2, <1>3, UnitTypes
  <1>7. Ordered(Wire \o chunk, con.written + Chunk, server.last)
    <2>1. Wire \in Seq(Units) /\ Chunk \in Nat
      BY <1>2, <1>3, Lines
    <2> QED
      BY <1>2, <1>3, <1>4, <2>1, OrderedChunk
  <1> HIDE DEF c, chunk
  <1>8. records \in Seq(Units) /\ sock.out \in Seq(Units) /\ session.records \in Seq(Units)
    BY <1>2, <1>6, Lines, ConcatEmpty
  <1>9. sock.out \o records = Wire \o chunk
    BY <1>6, <1>8, Associates DEF Wire
  <1>10. Wire \o chunk # <<>>
    <2>1. chunk # <<>>
      BY <1>3, <1>6, Lengths
    <2> QED
      BY <1>2, <1>6, <2>1, Lines, ConcatEmpty
  <1> HIDE DEF records
  <1>11. 0 \in 0 .. Len(sock.in) /\ SubSeq(sock.in, 0 + 1, Len(sock.in)) = sock.in
    BY <1>2, NothingRead
  <1>12. /\ sock' \in [up : BOOLEAN, out : Seq(Units), in : Seq(Units)]
         /\ Len(sock'.out) <= OutUnits
         /\ sock'.in = SubSeq(sock.in, 0 + 1, Len(sock.in))
         /\ Left(records) \in Seq(Units)
         /\ sock'.out \o Left(records) = Wire \o chunk
         /\ Fits(records) => Left(records) = <<>>
         /\ ~Fits(records) => Left(records) # <<>>
    <2>1. /\ Exchanged(records, 0) \in [up : BOOLEAN, out : Seq(Units), in : Seq(Units)]
          /\ Len(Exchanged(records, 0).out) <= OutUnits
          /\ Exchanged(records, 0).in = SubSeq(sock.in, 0 + 1, Len(sock.in))
          /\ Left(records) \in Seq(Units)
          /\ Exchanged(records, 0).out \o Left(records) = sock.out \o records
          /\ Fits(records) => Left(records) = <<>>
          /\ ~Fits(records) => Left(records) # <<>>
      BY <1>2, <1>8, <1>11, ExchangedWire
    <2> QED
      BY <1>1, <1>9, <2>1, Zenon
  <1>13. session' \in [handshaking : BOOLEAN, records : Seq(Units)]
         /\ session'.records = Left(records)
         /\ session'.handshaking = session.handshaking
    BY <1>1, <1>2, <1>12 DEF Typed
  <1>14. Wire' = Wire \o chunk /\ Wire' # <<>> /\ Quiet'
    <2>1. Wire' = Wire \o chunk /\ Coming' = Coming
      BY <1>1, <1>11, <1>12, <1>13 DEF Wire, Coming
    <2> QED
      BY <1>2, <1>10, <2>1 DEF Quiet
  <1>15. /\ reg' \in [interest : SUBSET RW, queued : BOOLEAN, event : SUBSET RW] /\ "r" \notin reg'.event
         /\ con' \in ConTypes /\ con'.connecting = FALSE /\ con'.handed = con.written + Chunk
         /\ sending' \in Nat
         /\ (Writing \/ Awaiting)'
    <2>1. CASE Fits(records)
      <3>1. /\ con' = Advanced(c, Chunk) /\ Rearm(AfterWrite(con'), {"w"}) /\ sending' = 0
            /\ session'.records = <<>>
        BY <1>1, <1>12, <1>13, <2>1
      <3> QED
        BY <1>1, <1>2, <1>3, <1>5, <1>10, <1>14, <3>1, Reported
    <2>2. CASE ~Fits(records)
      <3>1. con' = c /\ sending' = Chunk /\ Rearm(RW, {"w"}) /\ session'.records # <<>>
        BY <1>1, <1>12, <1>13, <2>2
      <3>2. reg' \in [interest : SUBSET RW, queued : BOOLEAN, event : SUBSET RW] /\ "r" \notin reg'.event
        <4>1. RW \in SUBSET RW
          OBVIOUS
        <4>2. /\ reg' \in [interest : SUBSET RW, queued : BOOLEAN, event : SUBSET RW]
              /\ reg'.event = reg.event \ {"w"}
          BY <1>2, <3>1, <4>1, Rearmed
        <4> QED
          BY <1>1, <4>2 DEF Writable
      <3>3. Writing'
        BY <1>2, <1>3, <1>5, <1>14, <3>1 DEF Writing
      <3> QED
        BY <1>3, <1>5, <3>1, <3>2, <3>3
    <2> QED
      BY <2>1, <2>2
  <1>16. Typed'
    BY <1>1, <1>2, <1>12, <1>13, <1>15 DEF Typed, ConTypes
  <1>17. Bounded'
    BY <1>2, <1>11, <1>12, <1>13, <1>15 DEF Bounded
  <1> QED
    BY <1>1, <1>7, <1>14, <1>15, <1>16, <1>17 DEF TlsInv, Serving

LEMMA StutterTls ==
  ASSUME TlsInv, UNCHANGED vars
  PROVE  TlsInv'
  <1>1. UNCHANGED <<session, sending, con, reg, sock, server>>
    BY DEF vars
  <1>2. Typed' /\ Bounded'
    BY <1>1 DEF TlsInv, Typed, Bounded
  <1>3. Wire' = Wire /\ Coming' = Coming
    BY <1>1 DEF Wire, Coming
  <1>4. Greeting => Greeting'
    BY <1>1, <1>3 DEF Greeting
  <1>5. Serving => Serving'
    BY <1>1, <1>3, Unmoved
  <1> QED
    BY <1>1, <1>2, <1>4, <1>5 DEF TlsInv

LEMMA StepTls ==
  ASSUME TlsInv, [Next]_vars
  PROVE  TlsInv'
  <1>1. CASE PollEvent
    BY <1>1, PollTls
  <1>2. CASE Handshake
    BY <1>2, HandshakeTls
  <1>3. CASE Read
    BY <1>3, ReadTls
  <1>4. CASE WriteBlocked
    BY <1>4, WriteBlockedTls
  <1>5. CASE ReportSent
    BY <1>5, ReportSentTls
  <1>6. CASE WriteChunk
    BY <1>6, WriteChunkTls
  <1>7. CASE AcceptConnect
    BY <1>7, AcceptTls
  <1>8. CASE Receive
    BY <1>8, ReceiveTls
  <1>9. CASE Send
    BY <1>9, SendTls
  <1>10. CASE UNCHANGED vars
    BY <1>10, StutterTls
  <1> QED
    BY <1>1, <1>2, <1>3, <1>4, <1>5, <1>6, <1>7, <1>8, <1>9, <1>10 DEF Next, Client

LEMMA AlwaysTls == Spec => []TlsInv
  <1>1. Init => TlsInv
    BY InitTls
  <1>2. TlsInv /\ [Next]_vars => TlsInv'
    BY StepTls
  <1> QED
    BY <1>1, <1>2, PTL DEF Spec

-----------------------------------------------------------------------------
(* The properties. *)

\* Whatever the server sends: no part of the request is left when nothing is on its way.
LEMMA NothingQueued ==
  ASSUME TlsInv
  PROVE  sending = 0 => ~Has(session.records, "request")
  <1>1. CASE con.connecting
    <2>1. /\ Greeting /\ Typed
          /\ Has(session.records, "request") => session.records # <<>>
      BY <1>1 DEF TlsInv, Has
    <2>2. ~Has(session.records, "request")
      <3> SUFFICES ASSUME NEW j \in 1 .. Len(session.records), session.records[j].kind = "request"
                   PROVE  FALSE
        BY DEF Has
      <3>1. /\ session.records \in Seq(Units) /\ sock.out \in Seq(Units)
            /\ Len(Wire) = Len(sock.out) + Len(session.records)
            /\ Len(sock.out) \in Nat /\ Len(session.records) \in Nat /\ Len(session.records) # 0
        <4>1. /\ session.records \in Seq(Units) /\ sock.out \in Seq(Units)
              /\ Len(Wire) = Len(sock.out) + Len(session.records)
          BY <2>1, Lines
        <4>2. Len(sock.out) \in Nat /\ Len(session.records) \in Nat
          BY <4>1, Lengths
        <4>3. \A l \in Nat : \A i \in 1 .. l : l # 0
          OBVIOUS
        <4>4. Len(session.records) # 0
          BY <4>2, <4>3
        <4> QED
          BY <4>1, <4>2, <4>4
      <3>2. Wire # <<>>
        BY <2>1, <3>1, Lines, Lengths
      <3>3. PICK u \in {Plain("hello"), Plain("cfin")} : Wire = <<u>>
        BY <2>1, <3>2 DEF Greeting
      <3>4. Len(Wire) = 1
        BY <3>3
      <3>5. Len(sock.out) = 0
        BY <3>1, <3>4, OneOfTwo
      <3>6. Wire = session.records
        BY <3>1, <3>5, ConcatEmpty, Lengths DEF Wire
      <3>7. session.records[j] = u
        BY <3>3, <3>6
      <3> QED
        BY <3>7 DEF Plain, Unit
    <2> QED
      BY <2>2
  <1>2. CASE ~con.connecting
    <2>1. Serving /\ Typed
      BY <1>2 DEF TlsInv
    <2>2. CASE Idle
      BY <2>1, <2>2, NoRequest DEF Serving, Idle
    <2>3. CASE Writing
      BY <2>3 DEF Writing
    <2>4. CASE Awaiting
      BY <2>4 DEF Awaiting, Has
    <2>5. CASE Untold
      BY <2>1, <2>5 DEF Untold, Typed
    <2>6. CASE Phantom
      <3>1. session.records = <<>>
        BY <2>1, <2>6, Lines DEF Phantom
      <3> QED
        BY <3>1 DEF Has
    <2> QED
      BY <2>1, <2>2, <2>3, <2>4, <2>5, <2>6 DEF Serving
  <1> QED
    BY <1>1, <1>2

\* What holds as long as every flush of a chunk is the one of a write.
Exact ==
    /\ sending > 0 => session.records # <<>>
    /\ con.pending = 1 => con.reported + sending = con.handed

LEMMA ExactTold ==
  ASSUME TlsInv, Exact
  PROVE  ~Untold
  <1> SUFFICES ASSUME Untold PROVE FALSE
    OBVIOUS
  <1>1. sending > 0
    BY DEF Untold, TlsInv, Typed
  <1>2. session.records = <<>>
    BY Lines DEF Untold, TlsInv
  <1> QED
    BY <1>1, <1>2 DEF Exact

LEMMA ExactStep ==
  ASSUME TlsInv, Exact, [Next]_vars, [~ReadFlushes]_vars
  PROVE  Exact'
  <1>1. Typed /\ Bounded
    BY DEF TlsInv
  <1>2. CASE PollEvent \/ UNCHANGED vars \/ AcceptConnect \/ Receive \/ Send
    <2>1. UNCHANGED <<session, sending, con>>
      BY <1>2 DEF PollEvent, vars, AcceptConnect, Receive, Send, Raise
    <2> QED
      BY <2>1 DEF Exact
  <1>3. CASE Handshake
    <2>1. Greeting /\ con'.pending = 0 /\ sending' = sending
      BY <1>3, HandshakeMoves
    <2> QED
      BY <2>1 DEF Exact, Greeting
  <1>4. CASE Read
    <2>1. sending' = sending /\ sending \in Nat
      BY <1>1, <1>4 DEF Read, Typed
    <2>2. con'.pending = 1 => con.pending = 1
          /\ con'.reported = con.reported /\ con'.handed = con.handed
      <3>1. PICK answered \in BOOLEAN :
              con' = [con EXCEPT !.pending = IF answered THEN con.pending - 1 ELSE con.pending]
        <4> DEFINE a == Has(IF Fits(session.records) THEN Taken ELSE <<>>, "response")
        <4>1. a \in BOOLEAN
          BY DEF Has
        <4>2. con' = [con EXCEPT !.pending = IF a THEN con.pending - 1 ELSE con.pending]
          BY <1>4 DEF Read
        <4> QED
          BY <4>1, <4>2
      <3> QED
        BY <1>1, <3>1 DEF Typed
    <2>3. ASSUME sending > 0 PROVE session'.records # <<>>
      <3>1. ~UNCHANGED vars
        <4>1. con.connecting = FALSE /\ "r" \in reg.event /\ reg'.event = reg.event \ R
          BY <1>1, <1>4 DEF Read, Readable, Rearm, Typed
        <4> QED
          BY <4>1 DEF vars, R
      <3>2. ~Fits(session.records)
        BY <1>4, <2>3, <3>1 DEF ReadFlushes
      <3>3. Left(session.records) # <<>> /\ Left(session.records) \in Seq(Units)
        <4>1. session.records \in Seq(Units) /\ 0 \in 0 .. Len(sock.in)
          BY <1>1, Lines, NothingRead
        <4> QED
          BY <1>1, <3>2, <4>1, ExchangedWire
      <3>4. session' = [session EXCEPT !.records = Left(session.records)]
        BY <1>4 DEF Read
      <3> QED
        BY <1>1, <3>3, <3>4 DEF Typed
    <2> QED
      BY <2>1, <2>2, <2>3 DEF Exact
  <1>5. ASSUME Writable
        PROVE  /\ StartBurst \in ConTypes
               /\ StartBurst.reported = con.written
               /\ StartBurst.handed = con.written + sending
               /\ con.written \in Nat /\ con.written < RequestUnits /\ sending \in Nat
    BY <1>1, <1>5, ExactTold, Bursting DEF Typed
  <1>6. CASE WriteBlocked
    <2>1. /\ Writable /\ ~Fits(session.records) /\ con' = StartBurst /\ sending' = sending
          /\ session' = [session EXCEPT !.records = Left(session.records)]
      BY <1>6 DEF WriteBlocked
    <2>2. Left(session.records) # <<>> /\ Left(session.records) \in Seq(Units)
      <3>1. session.records \in Seq(Units) /\ 0 \in 0 .. Len(sock.in)
        BY <1>1, Lines, NothingRead
      <3> QED
        BY <1>1, <2>1, <3>1, ExchangedWire
    <2>3. session'.records # <<>>
      BY <1>1, <2>1, <2>2 DEF Typed
    <2> QED
      BY <1>5, <2>1, <2>3 DEF Exact
  <1>7. CASE ReportSent
    <2>1. Writable /\ sending' = 0 /\ con' = Advanced(StartBurst, sending)
      BY <1>7 DEF ReportSent
    <2>2. con'.handed = StartBurst.handed /\ con'.reported = StartBurst.reported + sending
      BY <1>5, <2>1, Advances
    <2> QED
      BY <1>5, <2>1, <2>2 DEF Exact
  <1>8. CASE WriteChunk
    <2> DEFINE records == Queued(Chunk)
               c == [StartBurst EXCEPT !.handed = StartBurst.handed + Chunk]
    <2>1. /\ Writable /\ sending = 0
          /\ session' = [session EXCEPT !.records = Left(records)]
          /\ IF Fits(records) THEN con' = Advanced(c, Chunk) /\ sending' = sending
             ELSE con' = c /\ sending' = Chunk
      BY <1>8 DEF WriteChunk
    <2>2. Chunk \in Nat \ {0}
      BY <1>5, <2>1, ChunkFits
    <2>3. /\ c \in ConTypes /\ c.reported = con.written /\ c.handed = con.written + Chunk
      BY <1>5, <2>1, <2>2 DEF ConTypes
    <2>4. records \in Seq(Units)
      <3> DEFINE chunk == [i \in 1 .. Chunk |-> Unit("request", con.written + i)]
      <3>1. chunk \in Seq(Units) /\ session.records \in Seq(Units)
        <4>1. con.written \in Nat /\ session.records \in Seq(Units)
          BY <1>1, <1>5, <2>1, Lines
        <4>2. \A i \in 1 .. Chunk : Unit("request", con.written + i) \in Units
          BY <4>1, UnitTypes
        <4> QED
          BY <2>2, <4>1, <4>2
      <3>2. records = session.records \o chunk
        BY DEF Queued
      <3> HIDE DEF chunk, records
      <3> QED
        BY <3>1, <3>2, ConcatEmpty
    <2> HIDE DEF records, c
    <2>5. CASE Fits(records)
      <3>1. con'.handed = c.handed /\ con'.reported = c.reported + Chunk
        BY <2>1, <2>2, <2>3, <2>5, Advances
      <3> QED
        BY <1>5, <2>1, <2>2, <2>3, <2>5, <3>1 DEF Exact
    <2>6. CASE ~Fits(records)
      <3>1. Left(records) # <<>> /\ Left(records) \in Seq(Units)
        <4>1. 0 \in 0 .. Len(sock.in)
          BY <1>1, NothingRead
        <4> QED
          BY <1>1, <2>4, <2>6, <4>1, ExchangedWire
      <3>2. session'.records # <<>>
        BY <1>1, <2>1, <3>1 DEF Typed
      <3> QED
        BY <1>5, <2>1, <2>2, <2>3, <2>6, <3>2 DEF Exact
    <2> QED
      BY <2>5, <2>6
  <1> QED
    BY <1>2, <1>3, <1>4, <1>6, <1>7, <1>8 DEF Next, Client

LEMMA SentOrQueued ==
  ASSUME TlsInv, Exact
  PROVE  ReportedIsSent
  BY NothingQueued DEF ReportedIsSent, Exact, TlsInv, Typed

(***************************************************************************)
(* Of any server: as long as no read flushes what a write had blocked on,  *)
(* what the transport reports of a burst is what it was given of it apart  *)
(* from what is on its way, and sending is zero only when no record of the *)
(* request is left in the session (tls.rs, TlsStream and write), whatever  *)
(* the sizes of the request, the records, the reads and the buffers.  The  *)
(* hypothesis is needed: such a read (tls.rs:212) can lead to Phantom.     *)
(***************************************************************************)
THEOREM ReportedSent == Spec /\ [][~ReadFlushes]_vars => []ReportedIsSent
  <1>1. Init => Exact
    BY DEF Init, Exact
  <1>2. TlsInv /\ Exact /\ [Next]_vars /\ [~ReadFlushes]_vars => Exact'
    BY ExactStep
  <1>3. TlsInv /\ Exact => ReportedIsSent
    BY SentOrQueued
  <1>4. Spec => []TlsInv
    BY AlwaysTls
  <1> QED
    BY <1>1, <1>2, <1>3, <1>4, PTL DEF Spec

\* After the last unit of a request comes the first, after any other the next.
LEMMA NextUnit ==
  ASSUME NEW w \in Seq(Units), w # <<>>, NEW handed, NEW last, Ordered(w, handed, last),
         Head(w).kind = "request"
  PROVE  Head(w).i = 1 + IF last.kind = "request" THEN last.i % RequestUnits ELSE 0
  <1> DEFINE head == handed - Len(w)
  <1>1. Head(w) = At(head + 1) /\ head \in Int /\ 0 <= head + 1 /\ head < RequestUnits
    <2>1. Len(w) \in Nat \ {0} /\ handed \in 0 .. RequestUnits /\ RequestUnits \in Nat /\ 0 <= head + 1
      BY Lengths, TlsOK DEF Ordered
    <2>2. Head(w) = At(handed - Len(w) + 1)
      BY OrderedTail
    <2> QED
      BY <2>1, <2>2
  <1>2. head + 1 # 0 /\ Head(w).i = head + 1
    BY <1>1 DEF At, Plain, Unit
  <1>3. /\ head = 0 /\ last.kind = "request" => last.i = RequestUnits
        /\ head > 0 => last = Unit("request", head)
    BY DEF Ordered
  <1> HIDE DEF head
  <1>4. RequestUnits % RequestUnits = 0 /\ (head > 0 => head % RequestUnits = head)
    BY <1>1, TlsOK
  <1>5. CASE head = 0
    BY <1>2, <1>3, <1>4, <1>5
  <1>6. CASE head > 0
    <2>1. last.kind = "request" /\ last.i = head
      BY <1>3, <1>6 DEF Unit
    <2> QED
      <3>1. last.i % RequestUnits = head /\ head + 1 = 1 + head
        BY <1>1, <1>4, <1>6, <2>1
      <3> QED
        BY <1>2, <2>1, <3>1
  <1> QED
    BY <1>1, <1>2, <1>5, <1>6

(***************************************************************************)
(* Any server, one that sends tickets too, receives whole requests, part   *)
(* by part, whatever chunks and retries they went out in, and whoever      *)
(* flushed them.                                                           *)
(***************************************************************************)
THEOREM WholeInOrder == Spec => WholeRequests
  <1> DEFINE Turn == server'.last # server.last /\ server'.last.kind = "request" =>
                       server'.last.i = 1 + IF server.last.kind = "request"
                                            THEN server.last.i % RequestUnits ELSE 0
  <1>1. TlsInv /\ [Next]_vars => [Turn]_vars
    <2> SUFFICES ASSUME TlsInv, Next, server'.last # server.last, server'.last.kind = "request"
                 PROVE  Turn
      OBVIOUS
    <2>1. Receive
      <3>1. server \in [todo : Seq(Units), last : Units]
        BY DEF TlsInv, Typed
      <3>2. ~Send
        BY <3>1 DEF Send
      <3> QED
        BY <3>2 DEF Next, Client, PollEvent, Handshake, Read, WriteBlocked, ReportSent, WriteChunk,
                    AcceptConnect
    <2>2. server'.last = Head(sock.out) /\ sock.out \in Seq(Units) /\ sock.out # <<>>
          /\ session.records \in Seq(Units) /\ Wire \in Seq(Units)
      BY <2>1, Lines DEF TlsInv, Receive
    <2>3. Wire # <<>> /\ Head(Wire) = Head(sock.out)
      BY <2>2, ConcatEmpty, ConcatTail DEF Wire
    <2>4. ~con.connecting
      <3> SUFFICES ASSUME con.connecting PROVE FALSE
        OBVIOUS
      <3>1. Greeting
        BY DEF TlsInv
      <3>2. Greeting'
        BY <2>1, <3>1, ReceiveGreets
      <3> QED
        BY <3>2 DEF Greeting
    <2>5. Ordered(Wire, con.handed, server.last)
      BY <2>4 DEF TlsInv, Serving
    <2> QED
      BY <2>2, <2>3, <2>5, NextUnit
  <1>2. Spec => []TlsInv
    BY AlwaysTls
  <1>3. Spec => [][Turn]_vars
    BY <1>1, <1>2, PTL DEF Spec
  <1> QED
    BY <1>3 DEF WholeRequests
================================================================================
