--------------------------------- MODULE Framer ---------------------------------
(***************************************************************************)
(* The response framer (ResponseFramer of crates/wrkrs/src/parser.rs) of   *)
(* one connection, fed with a stream of responses in reads of any size.    *)
(*                                                                         *)
(* feed() compacts its buffer, appends the read and drains: each round of  *)
(* the loop in drain is an action, on whatever part of a message is next.  *)
(***************************************************************************)
EXTENDS Integers, Sequences

CONSTANTS
    Byte,      \* what a stream consists of; "cr" and "lf" end a line
    Hex,       \* the value of each text that is a hexadecimal number
    Block,     \* what a header block says, by its last byte
    Streams,   \* the messages a server may send, one after the other
    CompactAt, \* consumed bytes beyond which feed() compacts its buffer
    UsizeMax   \* usize::MAX

\* A header block without a content-length.
NoLength == 0 - 1

\* The first n texts, one after the other; all of them.
Joined(texts, n) ==
    LET upTo[i \in 0 .. Len(texts)] == IF i = 0 THEN <<>> ELSE upTo[i - 1] \o texts[i]
    IN  upTo[n]

Concat(texts) == Joined(texts, Len(texts))

\* A message is a sequence of parts, each with its bytes and what they are of the body.
Texts(m) == [j \in DOMAIN m.parts |-> m.parts[j].bytes]
Contents(m) == [j \in DOMAIN m.parts |-> m.parts[j].data]
Bytes(ms) == [i \in DOMAIN ms |-> Concat(Texts(ms[i]))]

ASSUME FramerOK ==
    /\ UsizeMax \in Nat
    /\ \A text \in DOMAIN Hex : Hex[text] \in 0 .. UsizeMax
    /\ DOMAIN Block \subseteq Byte
    /\ \A h \in DOMAIN Block :
         Block[h] \in [bodiless : BOOLEAN, length : Nat \union {NoLength},
                      chunked : BOOLEAN, keep : BOOLEAN]
    /\ CompactAt \in Nat
    /\ \A ms \in Streams : Concat(Bytes(ms)) \in Seq(Byte)

VARIABLES
    msgs,       \* the messages of the stream
    stream,     \* their bytes
    fed,        \* how many of them feed() has had
    capture,    \* capture
    buf,        \* buf, without what was compacted away
    scanned,    \* how many bytes of it are consumed
    state,      \* where the framer stands inside a message
    head,       \* the header block of the message: its status and headers
    keep,       \* message_keep_alive
    body,       \* body
    call,       \* no call, a feed that drains, or how the framer ended
    completed,  \* the responses of this call
    responses   \* those of the calls that have returned

input == <<msgs, stream, fed, capture>>
framing == <<buf, scanned, state, head, keep, body>>
vars == <<input, framing, call, completed, responses>>

Within(part) == [at |-> part, remaining |-> 0]

Init ==
    /\ msgs \in Streams
    /\ stream = Concat(Bytes(msgs))
    /\ fed = 0
    /\ capture \in BOOLEAN
    /\ buf = <<>>
    /\ scanned = 0
    /\ state = Within("headers")
    /\ head = "none"
    /\ keep = TRUE
    /\ body = <<>>
    /\ call = "none"
    /\ completed = <<>>
    /\ responses = <<>>

\* The bytes that are not consumed yet, and how many.
Left == Len(buf) - scanned
Ahead(n) == SubSeq(buf, scanned + 1, scanned + n)

\* What the message's body is after n more bytes.
Body(n) == IF capture THEN body \o Ahead(n) ELSE body

-----------------------------------------------------------------------------
(* feed *)

\* Slip: compact truncates the buffer.
FeedTruncates(n) ==
    /\ call = "none"
    /\ fed + n <= Len(stream)
    /\ LET more == SubSeq(stream, fed + 1, fed + n)
       IN  IF scanned > CompactAt
           THEN buf' = SubSeq(buf, 1, Left) \o more /\ scanned' = 0
           ELSE buf' = buf \o more /\ UNCHANGED scanned
    /\ fed' = fed + n
    /\ call' = "draining"
    /\ UNCHANGED <<msgs, stream, capture, state, head, keep, body, completed, responses>>

\* A read of n bytes.
Feed(n) ==
    /\ call = "none"
    /\ fed + n <= Len(stream)
    /\ LET more == SubSeq(stream, fed + 1, fed + n)
       IN  IF scanned > CompactAt
           THEN buf' = Ahead(Left) \o more /\ scanned' = 0
           ELSE buf' = buf \o more /\ UNCHANGED scanned
    /\ fed' = fed + n
    /\ call' = "draining"
    /\ UNCHANGED <<msgs, stream, capture, state, head, keep, body, completed, responses>>

\* drain breaks: the rest of a message is missing.
Break ==
    /\ call' = "none"
    /\ responses' = responses \o completed
    /\ completed' = <<>>
    /\ UNCHANGED <<input, framing>>

\* drain fails: what this call has completed is dropped.
Fail ==
    /\ call' = "bad"
    /\ state' = Within("broken")
    /\ completed' = <<>>
    /\ UNCHANGED <<input, buf, scanned, head, keep, body, responses>>

\* Slip: the body is left for the next message.
FinishKeepsBody(h, k, b) ==
    /\ state' = Within("headers")
    /\ completed' = Append(completed, [head |-> h, keep |-> k, body |-> b])
    /\ body' = b

\* finish()
Finish(h, k, b) ==
    /\ state' = Within("headers")
    /\ completed' = Append(completed, [head |-> h, keep |-> k, body |-> b])
    /\ body' = <<>>

\* httparse on the rest of the buffer: a block is two bytes here.
PartialHeaders == Left = 0 \/ (Left = 1 /\ Ahead(1) = <<"begin">>)
CompleteHeaders == Left >= 2 /\ Ahead(1) = <<"begin">> /\ buf[scanned + 2] \in DOMAIN Block

\* How the body of a message is framed.
BodyFraming(what) ==
    IF what.length # NoLength THEN [at |-> "body", remaining |-> what.length]
    ELSE Within(IF what.chunked THEN "size" ELSE "until")

\* Slip: the loop goes on without more bytes.
FrameHeadersSpin ==
    /\ call = "draining" /\ state.at = "headers"
    /\ PartialHeaders
    /\ UNCHANGED vars

\* frame_headers
FrameHeaders ==
    /\ call = "draining" /\ state.at = "headers"
    /\ \/ PartialHeaders /\ Break
       \/ ~PartialHeaders /\ ~CompleteHeaders /\ Fail
       \/ /\ CompleteHeaders
          /\ LET h == buf[scanned + 2]
                 next == BodyFraming(Block[h])
             IN  /\ head' = h
                 /\ IF Block[h].bodiless
                    THEN keep' = Block[h].keep /\ Finish(h, keep', body)
                    ELSE /\ keep' = (Block[h].keep /\ next.at # "until")
                         /\ state' = next
                         /\ UNCHANGED <<body, completed>>
          /\ scanned' = scanned + 2
          /\ UNCHANGED <<input, buf, call, responses>>

\* Part of a message is consumed, n bytes; the message goes on, or is complete.
Consume(n) ==
    /\ scanned' = scanned + n
    /\ UNCHANGED <<input, buf, head, keep, call, responses>>

GoesOn(next, b) == state' = next /\ body' = b /\ UNCHANGED completed

\* frame_body
FrameBody ==
    /\ call = "draining" /\ state.at = "body"
    /\ IF Left < state.remaining THEN Break
       ELSE Consume(state.remaining) /\ Finish(head, keep, Body(state.remaining))

\* complete_line: the length of the line that comes next, if all of it is there.
Line(n) ==
    /\ scanned + n + 2 <= Len(buf)
    /\ buf[scanned + n + 1] = "cr"
    /\ \A i \in 1 .. n : buf[scanned + i] # "cr"

NoLine == ~\E n \in 0 .. Left : Line(n)

\* Slip: a size is one digit.
IsDigit(text) == Len(text) = 1 /\ text \in DOMAIN Hex

\* A chunk size.
IsSize(text) == text \in DOMAIN Hex

\* frame_chunked, the size of a chunk.
ChunkSize ==
    /\ call = "draining" /\ state.at = "size"
    /\ \/ NoLine /\ Break
       \/ \E n \in 0 .. Left :
            /\ Line(n)
            /\ IF ~IsSize(Ahead(n)) THEN Fail
               ELSE /\ Consume(n + 2)
                    /\ GoesOn(IF Hex[Ahead(n)] = 0 THEN Within("trailers")
                              ELSE [at |-> "data", remaining |-> Hex[Ahead(n)]], body)

\* The data of a chunk and the end of its line; the sum wraps in a release build.
DataUnits(size) == (size + 2) % (UsizeMax + 1)

\* The slice of a size whose sum has wrapped lies beyond the buffer.
Overruns(size) == capture /\ size + 2 > UsizeMax

\* The slice panics: the responses of this call are lost with the thread.
Panic ==
    /\ call' = "panic"
    /\ completed' = <<>>
    /\ UNCHANGED <<input, framing, responses>>

ChunkData ==
    /\ call = "draining" /\ state.at = "data"
    /\ LET size == state.remaining
       IN  \/ Left < DataUnits(size) /\ Break
           \/ Left >= DataUnits(size) /\ Overruns(size) /\ Panic
           \/ /\ Left >= DataUnits(size) /\ ~Overruns(size)
              /\ Consume(DataUnits(size))
              /\ GoesOn(Within("size"), Body(size))

\* The trailer lines; an empty one ends the message.
ChunkTrailers ==
    /\ call = "draining" /\ state.at = "trailers"
    /\ \/ NoLine /\ Break
       \/ \E n \in 0 .. Left :
            /\ Line(n)
            /\ Consume(n + 2)
            /\ IF n = 0 THEN Finish(head, keep, body) ELSE GoesOn(state, body)

\* A body that ends with the stream is left in the buffer.
AwaitEnd == call = "draining" /\ state.at = "until" /\ Break

Drain == FrameHeaders \/ FrameBody \/ ChunkSize \/ ChunkData \/ ChunkTrailers \/ AwaitEnd

\* closed(): it completes a body that runs to the end, and cuts off all others.
Close ==
    /\ call = "none"
    /\ IF state.at = "until"
       THEN /\ call' = "closed"
            /\ responses' = Append(responses, [head |-> head, keep |-> keep, body |-> Body(Left)])
            /\ scanned' = Len(buf)
            /\ state' = Within("headers")
            /\ body' = <<>>
            /\ UNCHANGED <<buf, head, keep>>
       ELSE call' = "cut" /\ UNCHANGED <<framing, responses>>
    /\ UNCHANGED <<input, completed>>

Next == Drain \/ Close \/ \E n \in 1 .. Len(stream) : Feed(n)

Spec == Init /\ [][Next]_vars

FairSpec == Spec /\ WF_vars(Drain)

-----------------------------------------------------------------------------
(* What a server sends that keeps to the grammar of responses. *)

Parts == {"headers", "body", "size", "data", "trailers", "until", "broken"}

\* The text is one line with its end; the line without it.
IsLine(text) ==
    /\ Len(text) >= 2 /\ text[Len(text) - 1] = "cr"
    /\ \A x \in 1 .. Len(text) - 2 : text[x] # "cr"

LineOf(text) == SubSeq(text, 1, Len(text) - 2)

\* A part is whole.
IsPart(p) ==
    /\ p.at = "headers" => \E h \in DOMAIN Block : p.bytes = <<"begin", h>>
    /\ p.at = "size" => IsLine(p.bytes) /\ LineOf(p.bytes) \in DOMAIN Hex
    /\ p.at = "data" =>
         Len(p.bytes) = Len(p.data) + 2 /\ p.data = LineOf(p.bytes) /\ Len(p.bytes) <= UsizeMax
    /\ p.at = "trailers" => IsLine(p.bytes)
    /\ p.at \in {"body", "until"} => p.data = p.bytes
    /\ p.at \in {"headers", "size", "trailers"} => p.data = <<>>

\* A part is none, whatever follows it.
IsBroken(p) ==
    \/ /\ p.at = "headers" /\ Len(p.bytes) > 0
       /\ ~(p.bytes[1] = "begin" /\ (Len(p.bytes) > 1 => p.bytes[2] \in DOMAIN Block))
    \/ /\ p.at = "size"
       /\ \E n \in 0 .. Len(p.bytes) - 2 :
            IsLine(SubSeq(p.bytes, 1, n + 2)) /\ SubSeq(p.bytes, 1, n) \notin DOMAIN Hex

\* What comes behind a part, and which part is the last one.
Leads(p, q) ==
    \/ /\ p.at = "headers" /\ ~Block[p.bytes[2]].bodiless
       /\ LET what == Block[p.bytes[2]]
          IN  IF what.length # NoLength THEN q.at = "body" /\ Len(q.data) = what.length
              ELSE q.at = IF what.chunked THEN "size" ELSE "until"
    \/ /\ p.at = "size"
       /\ IF Hex[LineOf(p.bytes)] = 0 THEN q.at = "trailers"
          ELSE q.at = "data" /\ Len(q.data) = Hex[LineOf(p.bytes)]
    \/ p.at = "data" /\ q.at = "size"
    \/ p.at = "trailers" /\ Len(p.bytes) > 2 /\ q.at = "trailers"

Completes(p) ==
    \/ p.at = "headers" /\ Block[p.bytes[2]].bodiless
    \/ p.at = "body"
    \/ p.at = "trailers" /\ Len(p.bytes) = 2

\* A message ends with its last part, when the server closes, or never: the part is broken.
IsMessage(m) ==
    LET n == Len(m.parts)
    IN  /\ n > 0 /\ m.parts[1].at = "headers"
        /\ \A j \in 1 .. n - 1 : IsPart(m.parts[j]) /\ Leads(m.parts[j], m.parts[j + 1])
        /\ m.ends = "never" => IsBroken(m.parts[n])
        /\ m.ends # "never" => IsPart(m.parts[n]) /\ m.head = m.parts[1].bytes[2]
        /\ m.ends = "here" => /\ Completes(m.parts[n]) /\ m.keep = Block[m.head].keep
                             /\ m.body = Concat(Contents(m))
        /\ m.ends = "close" => m.parts[n].at = "until" /\ m.keep = FALSE

Messages ==
    [parts : Seq([at : Parts, bytes : Seq(Byte), data : Seq(Byte)]), head : Byte \union {"none"},
     body : Seq(Byte), keep : BOOLEAN, ends : {"here", "close", "never"}]

\* Only the last message may end otherwise than by itself.
Conforms(ms) ==
    /\ ms \in Seq(Messages)
    /\ \A i \in 1 .. Len(ms) : IsMessage(ms[i]) /\ (i < Len(ms) => ms[i].ends = "here")

Conforming == \A ms \in Streams : Conforms(ms)

-----------------------------------------------------------------------------

(***************************************************************************)
(* What is consumed stays inside the buffer, whatever the bytes are and    *)
(* however they are split (frame_body, frame_chunked, complete_line,       *)
(* compact).  A slice goes beyond it, and panics, only for a chunk size so *)
(* close to usize::MAX that the sum with its line end wraps.               *)
(***************************************************************************)
TypeOK ==
    /\ stream \in Seq(Byte) /\ fed \in 0 .. Len(stream)
    /\ buf \in Seq(Byte)
    /\ scanned \in 0 .. Len(buf)
    /\ state \in [at : Parts, remaining : Nat]
    /\ keep \in BOOLEAN /\ capture \in BOOLEAN
    /\ body \in Seq(Byte)
    /\ call \in {"none", "draining", "bad", "cut", "closed", "panic"}
    /\ call = "panic" => state.at = "data" /\ Overruns(state.remaining)

(***************************************************************************)
(* The buffer is the last part of what was fed: compacting it takes away   *)
(* the front and nothing else (feed, compact).                             *)
(***************************************************************************)
BufferIsStream == buf = SubSeq(stream, fed - Len(buf) + 1, fed)

\* Where message i begins, and whether it is complete after what was fed.
Start(i) == Len(Joined(Bytes(msgs), i - 1))

Arrived(i) ==
    /\ \A j \in 1 .. i - 1 : msgs[j].ends = "here"
    /\ \/ msgs[i].ends = "here" /\ Start(i + 1) <= fed
       \/ msgs[i].ends = "close" /\ call = "closed"

Expected(i) ==
    [head |-> msgs[i].head, keep |-> msgs[i].keep,
     body |-> IF ~capture THEN <<>>
              ELSE IF msgs[i].ends = "close" THEN SubSeq(stream, Start(i) + 3, fed)
              ELSE msgs[i].body]

AllExpected ==
    LET n == CHOOSE k \in 0 .. Len(msgs) : \A i \in 1 .. Len(msgs) : Arrived(i) <=> i <= k
    IN  [i \in 1 .. n |-> Expected(i)]

(***************************************************************************)
(* What comes out does not depend on how the stream was split: after every *)
(* feed that succeeds, the responses are the messages that have arrived,   *)
(* each with its own status, policy and body (ResponseFramer::feed).       *)
(***************************************************************************)
WholeResponses == call \in {"none", "closed"} => responses = AllExpected

(***************************************************************************)
(* "Feeds bytes and returns every completed response." (feed): so does a   *)
(* feed that ends in broken bytes.  It does not: drain leaves with the     *)
(* error, and what it had completed in this call is dropped.               *)
(***************************************************************************)
EveryResponseReturned == call \in {"none", "closed", "bad"} => responses = AllExpected

(***************************************************************************)
(* The framer gives up only on bytes that are no response, at the end of a *)
(* stream only when no until-close body is open, and panics only where the *)
(* grammar is left for a chunk that no memory holds (drain, closed).       *)
(***************************************************************************)
RejectsOnlyBroken ==
    /\ \A i \in 1 .. Len(msgs) :
         /\ call = "bad" /\ i = Len(msgs) => msgs[i].ends = "never" /\ Start(i) < fed
         /\ call = "cut" /\ msgs[i].ends = "close" => fed < Start(i) + 2
    /\ call = "panic" => ~Conforms(msgs)

(***************************************************************************)
(* The loop of drain, and the one of frame_chunked in it, come to an end.  *)
(***************************************************************************)
FeedReturns == call = "draining" ~> call # "draining"

-----------------------------------------------------------------------------
Reader == INSTANCE StreamReader WITH
    cursor <- [pos |-> fed - Left, part |-> state, head |-> head, keep |-> keep, body |-> body,
               done |-> responses \o completed],
    returned <- responses,
    ending <- IF call \in {"none", "draining"} THEN "open" ELSE call

(***************************************************************************)
(* The framer does what a reader of the whole stream does: wherever the    *)
(* reads end, inside a line, a number or a header block, it takes the same *)
(* parts in the same order, and gives up only where that reader must; what *)
(* is lost then is what the call that gives up had completed, and nothing  *)
(* of the calls before it (ResponseFramer::feed, drain).                   *)
(***************************************************************************)
ImplementsStreamReader == Reader!Spec
=================================================================================
