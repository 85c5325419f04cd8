------------------------------ MODULE Connection ------------------------------
(***************************************************************************)
(* One benchmark connection (crates/wrkrs/src/connection.rs): what its     *)
(* handlers do to its state and which event each returns to the loop.      *)
(*                                                                         *)
(* Request bytes are counted in units, RequestUnits of them per request; a *)
(* burst is Pipeline requests.  Response bytes are tokens (see Tokens), so *)
(* the framer (parser.rs, ResponseFramer) is reduced to the one state that *)
(* outlives a read and matters here: the body runs until the peer closes.  *)
(***************************************************************************)
EXTENDS Integers, Sequences, FiniteSets

CONSTANTS
    Pipeline,      \* requests per burst
    RequestUnits,  \* units of a request
    HasDelay       \* whether the script supplies delays

ASSUME ConnectionOK ==
    /\ Pipeline \in Nat \ {0}
    /\ RequestUnits \in Nat \ {0}
    /\ HasDelay \in BOOLEAN

Burst == Pipeline * RequestUnits

\* Interests of the readiness poll, readable always included.
R == {"r"}
RW == {"r", "w"}

(***************************************************************************)
(* "part"  bytes that complete no message                                  *)
(* "ok"    the last bytes of a response that keeps the connection alive    *)
(* "error" the same, with a status above 399                               *)
(* "close" the last bytes of a response that closes the connection         *)
(* "until" the headers of a response without framing                       *)
(* "junk"  bytes that are not a response                                   *)
(***************************************************************************)
Finals == {"ok", "error", "close"}
Tokens == Finals \union {"part", "until", "junk"}

KeepsAlive(token) == token # "close"

\* pending once it has wrapped below zero: 2^64 more responses bring it back.
Wrapped == -1

Connections ==
    [at : {"none", "connecting", "up"}, written : 0 .. Burst,
     pending : {Wrapped} \union 0 .. Pipeline, delayed : BOOLEAN, until : BOOLEAN]

\* Connection::new behind LoopConfig::connection.
NewConnection(initial) ==
    [at |-> "connecting", written |-> 0, pending |-> 0,
     delayed |-> initial /\ HasDelay, until |-> FALSE]

\* The slot a local connect failure leaves behind.
NoConnection == [NewConnection(FALSE) EXCEPT !.at = "none"]

\* Slip: a new socket forgets its delay.
ConnectedUndelayed(c) == [c EXCEPT !.at = "up", !.written = 0, !.delayed = FALSE]

\* connected(): the socket established, the burst may start.
Connected(c) == [c EXCEPT !.at = "up", !.written = 0]

\* delay_fired(): the burst may write.
DelayFired(c) == [c EXCEPT !.delayed = FALSE]

\* writable(), before the write: a burst starts when nothing of it is out.
StartBurst(c) == IF c.written = 0 THEN [c EXCEPT !.pending = Pipeline] ELSE c

\* writable(), after a write that took n units: a whole burst resets written.
Wrote(c, n) == [c EXCEPT !.written = IF c.written + n = Burst THEN 0 ELSE c.written + n]

\* Slips: writable stays although the burst is out, or goes although it is not.
WroteKeepsWritable(c, n) == RW
WroteDropsWritable(c, n) == R

\* The interest a write of n units ends with.
WroteInterest(c, n) == IF c.written + n = Burst THEN R ELSE RW

\* The bytes a until-close body swallows: everything from its headers on.
Swallowed(c, bytes, i) == c.until \/ \E j \in 1 .. i : bytes[j] = "until"

\* feed() fails: the framing is broken somewhere in these bytes.
Misframed(c, bytes) ==
    \E i \in 1 .. Len(bytes) : bytes[i] = "junk" /\ ~Swallowed(c, bytes, i)

\* feed(): the positions of the bytes that complete a response.
Completed(c, bytes) ==
    {i \in 1 .. Len(bytes) : bytes[i] \in Finals /\ ~Swallowed(c, bytes, i)}

\* The framer after these bytes.
Fed(c, bytes) == [c EXCEPT !.until = Swallowed(c, bytes, Len(bytes))]

(***************************************************************************)
(* responses(): the messages are counted one by one until one drains the   *)
(* pipeline or closes the connection; the rest of them is dropped.         *)
(***************************************************************************)
Rank(done, i) == Cardinality({j \in done : j <= i})

LastWords(c, bytes, done) ==
    {i \in done : Rank(done, i) = c.pending \/ ~KeepsAlive(bytes[i])}

\* The messages responses() gets to.
Counted(c, bytes, done) ==
    {i \in done : \A j \in LastWords(c, bytes, done) : i <= j}

\* Slip: one decrement per read.
DrainOnce(c, n) == IF n > 0 THEN c.pending - 1 ELSE c.pending

\* pending.wrapping_sub(1), n times.
Drain(c, n) ==
    IF c.pending >= n THEN c.pending - n ELSE Wrapped

\* Slip: a pipeline is drained when pending is below zero.
DrainedBelow(c, n) == n > 0 /\ c.pending < n

\* The last counted message drained the pipeline.
Drained(c, n) == n > 0 /\ c.pending = n

\* The connection after responses() counted n messages.
Answered(c, n) ==
    [c EXCEPT !.pending = Drain(c, n), !.delayed = IF Drained(c, n) THEN HasDelay ELSE @]
===============================================================================
