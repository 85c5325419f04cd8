----------------------------- MODULE StreamReader -----------------------------
(***************************************************************************)
(* What a response framer promises: whatever the reads were, it does what  *)
(* a reader does that has the whole stream in front of it and goes through *)
(* it with a cursor.  Where the cursor goes next is a function of the      *)
(* stream and the cursor alone (After).  It returns what it has completed  *)
(* from time to time; what it has not when it gives up is lost, although   *)
(* "feed" is to return "every completed response" (parser.rs).             *)
(***************************************************************************)
EXTENDS Integers, Sequences

CONSTANTS
    Hex,      \* the value of each text that is a hexadecimal number
    Block,    \* what a header block says, by its last byte
    UsizeMax  \* the largest number

VARIABLES
    stream,   \* what a server sends
    capture,  \* whether bodies are kept
    cursor,   \* how far the reader is, in which message, and the responses so far
    returned, \* those of them that are returned
    ending    \* open, or how the reader ended

vars == <<stream, capture, cursor, returned, ending>>

Part(at, remaining) == [at |-> at, remaining |-> remaining]

Init ==
    /\ capture \in BOOLEAN
    /\ cursor = [pos |-> 0, part |-> Part("headers", 0), head |-> "none", keep |-> TRUE,
                 body |-> <<>>, done |-> <<>>]
    /\ returned = <<>>
    /\ ending = "open"

Bytes(n) == SubSeq(stream, cursor.pos + 1, cursor.pos + n)
There(n) == cursor.pos + n <= Len(stream)

\* The body of the message with n more bytes.
With(n) == IF capture THEN cursor.body \o Bytes(n) ELSE cursor.body

\* The cursor n bytes on, in another part of the message or behind its end.
Inside(n, part, head, keep, body) ==
    [pos |-> cursor.pos + n, part |-> part, head |-> head, keep |-> keep, body |-> body,
     done |-> cursor.done]

Behind(n, head, keep, body) ==
    [pos |-> cursor.pos + n, part |-> Part("headers", 0), head |-> head, keep |-> keep, body |-> <<>>,
     done |-> Append(cursor.done, [head |-> head, keep |-> keep, body |-> body])]

GoesOn(n, part, body) == Inside(n, part, cursor.head, cursor.keep, body)

\* The n bytes of a line and its end are next.
LineOf(n) ==
    /\ There(n + 2) /\ stream[cursor.pos + n + 1] = "cr"
    /\ \A i \in 1 .. n : stream[cursor.pos + i] # "cr"

HasLine == \E n \in 0 .. Len(stream) : LineOf(n)
LineLength == CHOOSE n \in 0 .. Len(stream) : LineOf(n)

HasBlock == There(2) /\ Bytes(1) = <<"begin">> /\ stream[cursor.pos + 2] \in DOMAIN Block

\* The data of a chunk and its line end; a size at the top wraps, and cannot be kept.
DataUnits == (cursor.part.remaining + 2) % (UsizeMax + 1)
Overruns == capture /\ cursor.part.remaining + 2 > UsizeMax

\* The next part is there as a whole, and it is what it should be.
Readable ==
    CASE cursor.part.at = "headers" -> HasBlock
      [] cursor.part.at = "body" -> There(cursor.part.remaining)
      [] cursor.part.at = "size" -> HasLine /\ Bytes(LineLength) \in DOMAIN Hex
      [] cursor.part.at = "data" -> There(DataUnits) /\ ~Overruns
      [] cursor.part.at = "trailers" -> HasLine
      [] OTHER -> FALSE

\* The next part is something else, whatever follows.
Broken ==
    CASE cursor.part.at = "headers" ->
           /\ There(1)
           /\ ~(Bytes(1) = <<"begin">> /\ (There(2) => stream[cursor.pos + 2] \in DOMAIN Block))
      [] cursor.part.at = "size" -> HasLine /\ Bytes(LineLength) \notin DOMAIN Hex
      [] OTHER -> FALSE

AfterBlock ==
    LET head == stream[cursor.pos + 2]
        what == Block[head]
        part == IF what.length >= 0 THEN Part("body", what.length)
                ELSE Part(IF what.chunked THEN "size" ELSE "until", 0)
    IN  IF what.bodiless THEN Behind(2, head, what.keep, cursor.body)
        ELSE Inside(2, part, head, what.keep /\ part.at # "until", cursor.body)

AfterSize ==
    LET size == Hex[Bytes(LineLength)]
    IN  GoesOn(LineLength + 2, IF size = 0 THEN Part("trailers", 0) ELSE Part("data", size), cursor.body)

\* Where the cursor goes when the next part is read.
After ==
    LET left == cursor.part.remaining
    IN  CASE cursor.part.at = "headers" -> AfterBlock
          [] cursor.part.at = "body" -> Behind(left, cursor.head, cursor.keep, With(left))
          [] cursor.part.at = "size" -> AfterSize
          [] cursor.part.at = "data" -> GoesOn(DataUnits, Part("size", 0), With(left))
          [] OTHER -> IF LineLength = 0
                      THEN Behind(2, cursor.head, cursor.keep, cursor.body)
                      ELSE GoesOn(LineLength + 2, cursor.part, cursor.body)

Read ==
    /\ ending = "open" /\ Readable
    /\ cursor' = After
    /\ UNCHANGED <<stream, capture, returned, ending>>

\* What is completed is returned: when depends on the reads.
Return ==
    /\ ending = "open"
    /\ returned' = cursor.done
    /\ UNCHANGED <<stream, capture, cursor, ending>>

\* The cursor stays where the reader ends, with what it has returned.
Abandoned(part) ==
    [pos |-> cursor.pos, part |-> part, head |-> cursor.head, keep |-> cursor.keep,
     body |-> cursor.body, done |-> returned]

\* Only a broken stream is given up.
GiveUp ==
    /\ ending = "open" /\ Broken
    /\ ending' = "bad"
    /\ cursor' = Abandoned(Part("broken", 0))
    /\ UNCHANGED <<stream, capture, returned>>

\* A chunk that is too large for the reader.
Overrun ==
    /\ ending = "open" /\ cursor.part.at = "data" /\ There(DataUnits) /\ Overruns
    /\ ending' = "panic"
    /\ cursor' = Abandoned(cursor.part)
    /\ UNCHANGED <<stream, capture, returned>>

\* The stream ends after n more bytes: that completes a body without a length.
End ==
    /\ ending = "open" /\ returned = cursor.done
    /\ IF cursor.part.at = "until"
       THEN /\ ending' = "closed"
            /\ \E n \in 0 .. Len(stream) :
                 There(n) /\ cursor' = Behind(n, cursor.head, cursor.keep, With(n))
            /\ returned' = cursor'.done
       ELSE ending' = "cut" /\ UNCHANGED <<cursor, returned>>
    /\ UNCHANGED <<stream, capture>>

Next == Read \/ Return \/ GiveUp \/ Overrun \/ End

Spec == Init /\ [][Next]_vars
===============================================================================
