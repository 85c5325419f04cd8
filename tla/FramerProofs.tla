------------------------------ MODULE FramerProofs ------------------------------
(***************************************************************************)
(* Machine-checked proofs about Framer: whatever is sent and however it is *)
(* split, the framer stays inside its buffer, the buffer is the part of    *)
(* the stream it should be, and what is taken from it is what a reader of  *)
(* the whole stream takes (StreamReader).  Of streams that keep to the     *)
(* grammar of responses, it makes the responses they hold, and gives up    *)
(* only on broken ones: that reader goes from part to part of the          *)
(* messages, and the framer stops between two feeds only where the rest of *)
(* a part is missing (PartInv).                                            *)
(***************************************************************************)
EXTENDS Framer, NaturalsInduction, WellFoundedInduction, TLAPS

LEMMA SubSeqFacts ==
  ASSUME NEW S, NEW q \in Seq(S), NEW m \in Nat, NEW n \in Nat, m + n <= Len(q)
  PROVE  /\ SubSeq(q, m + 1, m + n) \in Seq(S)
         /\ Len(SubSeq(q, m + 1, m + n)) = n
         /\ \A i \in 1 .. n : SubSeq(q, m + 1, m + n)[i] = q[m + i]
  OBVIOUS

LEMMA ConcatFacts ==
  ASSUME NEW S, NEW p \in Seq(S), NEW q \in Seq(S)
  PROVE  /\ p \o q \in Seq(S)
         /\ Len(p \o q) = Len(p) + Len(q)
         /\ \A i \in 1 .. Len(p) + Len(q) :
              (p \o q)[i] = IF i <= Len(p) THEN p[i] ELSE q[i - Len(p)]
  OBVIOUS

\* Sequences of one length that agree everywhere are equal.
LEMMA SameSeq ==
  ASSUME NEW S, NEW p \in Seq(S), NEW q \in Seq(S), Len(p) = Len(q),
         \A i \in 1 .. Len(p) : p[i] = q[i]
  PROVE  p = q
  OBVIOUS

LEMMA WithinType == ASSUME NEW part \in Parts PROVE Within(part) \in [at : Parts, remaining : Nat]
  BY DEF Within

LEMMA LeftType == TypeOK => Left \in Nat
  BY DEF TypeOK, Left

LEMMA ModFacts ==
  ASSUME NEW m \in Nat \ {0}, NEW a \in Nat
  PROVE  a % m \in Nat /\ (a < m => a % m = a)
<1>1. a % m \in 0 .. m - 1
  BY SMTT(20)
<1>2. ASSUME a < m PROVE a % m = a
  BY <1>2, SMTT(20)
<1> QED
  BY <1>1, <1>2

\* The sum of a chunk size and its line end, where it does not wrap and where it does.
LEMMA UnitsFacts ==
  ASSUME NEW n \in Nat
  PROVE  DataUnits(n) \in Nat /\ (n + 2 <= UsizeMax => DataUnits(n) = n + 2 /\ ~Overruns(n))
<1>1. UsizeMax + 1 \in Nat \ {0} /\ n + 2 \in Nat /\ UsizeMax \in Nat
  BY FramerOK
<1>2. n + 2 <= UsizeMax => n + 2 < UsizeMax + 1 /\ ~(n + 2 > UsizeMax)
  BY <1>1
<1> QED
  BY <1>1, <1>2, ModFacts DEF DataUnits, Overruns

LEMMA BodyType ==
  ASSUME TypeOK, NEW n \in Nat, n <= Left
  PROVE  Body(n) \in Seq(Byte)
<1>1. scanned \in Nat /\ scanned + n <= Len(buf) /\ buf \in Seq(Byte) /\ body \in Seq(Byte)
  BY DEF TypeOK, Left
<1>2. Ahead(n) \in Seq(Byte)
  BY <1>1, SubSeqFacts DEF Ahead
<1> QED
  BY <1>1, <1>2 DEF Body

\* What is sliced of a chunk lies in the buffer, unless it is an overrun.
LEMMA DataFits ==
  ASSUME TypeOK, NEW n \in Nat, DataUnits(n) <= Left, ~Overruns(n)
  PROVE  Body(n) \in Seq(Byte) /\ (capture => n <= Left)
<1>1. CASE capture
  <2>1. n + 2 <= UsizeMax
    BY <1>1, FramerOK DEF Overruns
  <2>2. n <= Left
    BY <2>1, UnitsFacts, LeftType
  <2> QED
    BY <2>2, BodyType
<1>2. CASE ~capture
  BY <1>2 DEF Body, TypeOK
<1> QED
  BY <1>1, <1>2 DEF TypeOK

LEMMA InitType == Init => TypeOK
<1> SUFFICES ASSUME Init PROVE TypeOK
  OBVIOUS
<1>1. stream \in Seq(Byte)
  BY FramerOK DEF Init
<1>2. state \in [at : Parts, remaining : Nat]
  BY WithinType DEF Init, Parts
<1> QED
  BY <1>1, <1>2 DEF Init, TypeOK

LEMMA BreakType == TypeOK /\ Break => TypeOK'
  BY DEF TypeOK, Break, input, framing

LEMMA FailType == TypeOK /\ Fail => TypeOK'
<1> SUFFICES ASSUME TypeOK, Fail PROVE TypeOK'
  OBVIOUS
<1>1. state' \in [at : Parts, remaining : Nat]
  BY WithinType DEF Fail, Parts
<1> QED
  BY <1>1 DEF TypeOK, Fail, input

LEMMA FinishType ==
  ASSUME NEW h, NEW k, NEW b, Finish(h, k, b)
  PROVE  state' \in [at : Parts, remaining : Nat] /\ body' \in Seq(Byte)
<1>1. state' \in [at : Parts, remaining : Nat]
  BY WithinType DEF Finish, Parts
<1> QED
  BY <1>1 DEF Finish

\* A round of drain that consumes what is there.
LEMMA ConsumeType ==
  ASSUME TypeOK, call = "draining", NEW n \in Nat, n <= Left, Consume(n),
         state' \in [at : Parts, remaining : Nat], body' \in Seq(Byte)
  PROVE  TypeOK'
<1>1. scanned' \in 0 .. Len(buf')
  BY DEF TypeOK, Consume, Left
<1> QED
  BY <1>1 DEF TypeOK, Consume, input

\* The framer consumes a line only when all of it is there.
LEMMA LineFits ==
  ASSUME TypeOK, NEW n \in 0 .. Left, Line(n)
  PROVE  n + 2 \in Nat /\ n + 2 <= Left
  BY LeftType DEF Line, Left, TypeOK

LEMMA FeedFacts ==
  ASSUME TypeOK, NEW n \in Nat, Feed(n)
  PROVE  \E rest, more \in Seq(Byte) :
            /\ more = SubSeq(stream, fed + 1, fed + n) /\ Len(more) = n
            /\ buf' = rest \o more
            /\ \/ rest = Ahead(Left) /\ scanned' = 0 /\ Len(rest) = Left
               \/ rest = buf /\ scanned' = scanned
<1> DEFINE more == SubSeq(stream, fed + 1, fed + n)
<1>1. more \in Seq(Byte) /\ Len(more) = n
  BY SubSeqFacts DEF TypeOK, Feed
<1>2. Ahead(Left) \in Seq(Byte) /\ Len(Ahead(Left)) = Left
  <2>1. scanned \in Nat /\ Left \in Nat /\ scanned + Left <= Len(buf) /\ buf \in Seq(Byte)
    BY LeftType DEF TypeOK, Left
  <2> QED
    BY <2>1, SubSeqFacts DEF Ahead
<1>3. buf \in Seq(Byte)
  BY DEF TypeOK
<1> QED
  BY <1>1, <1>2, <1>3 DEF Feed

LEMMA FeedType ==
  ASSUME TypeOK, NEW n \in Nat, Feed(n)
  PROVE  TypeOK'
<1>1. PICK rest, more \in Seq(Byte) :
            /\ more = SubSeq(stream, fed + 1, fed + n) /\ Len(more) = n
            /\ buf' = rest \o more
            /\ \/ rest = Ahead(Left) /\ scanned' = 0 /\ Len(rest) = Left
               \/ rest = buf /\ scanned' = scanned
  BY FeedFacts
<1>2. buf' \in Seq(Byte) /\ Len(buf') = Len(rest) + n
  BY <1>1, ConcatFacts
<1>3. scanned' \in 0 .. Len(buf')
  BY <1>1, <1>2, LeftType DEF TypeOK
<1>4. fed' \in 0 .. Len(stream)
  BY DEF TypeOK, Feed
<1> QED
  BY <1>2, <1>3, <1>4 DEF TypeOK, Feed

LEMMA FrameHeadersType == TypeOK /\ FrameHeaders => TypeOK'
<1> SUFFICES ASSUME TypeOK, FrameHeaders PROVE TypeOK'
  OBVIOUS
<1>1. CASE Break
  BY <1>1, BreakType
<1>2. CASE Fail
  BY <1>2, FailType
<1>3. CASE CompleteHeaders /\ ~Break /\ ~Fail
  <2> DEFINE h == buf[scanned + 2]
             what == Block[h]
  <2>1. /\ call = "draining" /\ scanned' = scanned + 2
        /\ UNCHANGED <<input, buf, call, responses>>
        /\ IF what.bodiless
           THEN keep' = what.keep /\ Finish(h, keep', body)
           ELSE /\ keep' = (what.keep /\ BodyFraming(what).at # "until")
                /\ state' = BodyFraming(what)
                /\ UNCHANGED <<body, completed>>
    BY <1>3 DEF FrameHeaders
  <2>2. what \in [bodiless : BOOLEAN, length : Nat \union {NoLength},
                  chunked : BOOLEAN, keep : BOOLEAN]
    BY <1>3, FramerOK DEF CompleteHeaders
  <2> HIDE DEF what, h
  <2>3. BodyFraming(what) \in [at : Parts, remaining : Nat]
    BY <2>2 DEF BodyFraming, Within, Parts
  <2>4. state' \in [at : Parts, remaining : Nat] /\ body' \in Seq(Byte) /\ keep' \in BOOLEAN
    <3>1. CASE what.bodiless
      BY <2>1, <2>2, <3>1, FinishType
    <3>2. CASE ~what.bodiless
      BY <2>1, <2>2, <2>3, <3>2 DEF TypeOK
    <3> QED
      BY <3>1, <3>2
  <2>5. scanned' \in 0 .. Len(buf')
    BY <1>3, <2>1 DEF CompleteHeaders, Left, TypeOK
  <2> QED
    BY <2>1, <2>4, <2>5 DEF TypeOK, input
<1> QED
  BY <1>1, <1>2, <1>3 DEF FrameHeaders

\* Only a chunk whose sum has wrapped makes the framer panic.
LEMMA PanicType == TypeOK /\ ChunkData /\ Panic => TypeOK'
<1> SUFFICES ASSUME TypeOK, ChunkData, Panic PROVE TypeOK'
  OBVIOUS
<1>1. UNCHANGED <<stream, fed, capture, buf, scanned, state, keep, body>> /\ call' = "panic"
  BY DEF Panic, input, framing
<1>2. state.at = "data" /\ Overruns(state.remaining)
  BY <1>1 DEF ChunkData, Break, Consume
<1>3. state'.at = "data" /\ Overruns(state.remaining)'
  BY <1>1, <1>2 DEF Overruns
<1> QED
  BY <1>1, <1>3 DEF TypeOK

LEMMA DrainType == TypeOK /\ Drain => TypeOK'
<1> SUFFICES ASSUME TypeOK, Drain PROVE TypeOK'
  OBVIOUS
<1>1. CASE FrameHeaders
  BY <1>1, FrameHeadersType
<1>2. CASE FrameBody
  <2> DEFINE n == state.remaining
  <2>1. CASE Left < n
    BY <1>2, <2>1, BreakType DEF FrameBody
  <2>2. CASE ~(Left < n)
    <3>1. n \in Nat /\ n <= Left
      BY <2>2, LeftType DEF TypeOK
    <3>2. call = "draining" /\ Consume(n) /\ Finish(head, keep, Body(n))
      BY <1>2, <2>2 DEF FrameBody
    <3> QED
      BY <3>1, <3>2, FinishType, ConsumeType
  <2> QED
    BY <2>1, <2>2
<1>3. CASE ChunkSize
  <2>1. CASE Break
    BY <2>1, BreakType
  <2>2. CASE Fail
    BY <2>2, FailType
  <2>3. CASE ~Break /\ ~Fail
    <3>1. PICK n \in 0 .. Left :
             /\ Line(n) /\ IsSize(Ahead(n)) /\ Consume(n + 2)
             /\ GoesOn(IF Hex[Ahead(n)] = 0 THEN Within("trailers")
                       ELSE [at |-> "data", remaining |-> Hex[Ahead(n)]], body)
      BY <1>3, <2>3 DEF ChunkSize
    <3>2. Hex[Ahead(n)] \in Nat
      <4>1. Hex[Ahead(n)] \in 0 .. UsizeMax
        BY <3>1, FramerOK DEF IsSize
      <4> QED
        BY <4>1
    <3>3. state' \in [at : Parts, remaining : Nat] /\ body' \in Seq(Byte)
      BY <3>1, <3>2 DEF GoesOn, Within, Parts, TypeOK
    <3>4. n + 2 \in Nat /\ n + 2 <= Left
      BY <3>1, LineFits
    <3> QED
      BY <1>3, <3>1, <3>3, <3>4, ConsumeType DEF ChunkSize
  <2> QED
    BY <2>1, <2>2, <2>3
<1>4. CASE ChunkData
  <2> DEFINE n == state.remaining
           u == DataUnits(n)
  <2>1. n \in Nat /\ Left \in Nat /\ u \in Nat
    BY LeftType, UnitsFacts DEF TypeOK
  <2>2. CASE Break
    BY <2>2, BreakType
  <2>3. CASE Panic
    BY <1>4, <2>3, PanicType
  <2>4. CASE u <= Left /\ ~Overruns(n) /\ Consume(u) /\ GoesOn(Within("size"), Body(n))
    <3>1. Body(n) \in Seq(Byte)
      BY <2>1, <2>4, DataFits
    <3>2. state' \in [at : Parts, remaining : Nat] /\ body' \in Seq(Byte)
      BY <2>4, <3>1, WithinType DEF GoesOn, Parts
    <3>3. call = "draining"
      BY <1>4 DEF ChunkData
    <3> QED
      BY <2>1, <2>4, <3>2, <3>3, ConsumeType
  <2> QED
    BY <1>4, <2>1, <2>2, <2>3, <2>4 DEF ChunkData
<1>5. CASE ChunkTrailers
  <2>1. CASE Break
    BY <2>1, BreakType
  <2>2. CASE ~Break
    <3>1. PICK n \in 0 .. Left :
             /\ Line(n) /\ Consume(n + 2)
             /\ IF n = 0 THEN Finish(head, keep, body) ELSE GoesOn(state, body)
      BY <1>5, <2>2 DEF ChunkTrailers
    <3>2. state' \in [at : Parts, remaining : Nat] /\ body' \in Seq(Byte)
      BY <3>1, FinishType DEF GoesOn, TypeOK
    <3>3. n + 2 \in Nat /\ n + 2 <= Left
      BY <3>1, LineFits
    <3> QED
      BY <1>5, <3>1, <3>2, <3>3, ConsumeType DEF ChunkTrailers
  <2> QED
    BY <2>1, <2>2
<1>6. CASE AwaitEnd
  BY <1>6, BreakType DEF AwaitEnd
<1> QED
  BY <1>1, <1>2, <1>3, <1>4, <1>5, <1>6 DEF Drain

LEMMA CloseType == TypeOK /\ Close => TypeOK'
<1> SUFFICES ASSUME TypeOK, Close PROVE TypeOK'
  OBVIOUS
<1>1. CASE state.at = "until"
  <2>1. state' \in [at : Parts, remaining : Nat]
    BY <1>1, WithinType DEF Close, Parts
  <2> QED
    BY <1>1, <2>1 DEF Close, TypeOK, input
<1>2. CASE state.at # "until"
  BY <1>2 DEF Close, TypeOK, input, framing
<1> QED
  BY <1>1, <1>2

(***************************************************************************)
(* Whatever bytes arrive and however they are split, what is consumed lies *)
(* inside the buffer, and the framer panics only for a chunk whose bytes   *)
(* it keeps and whose size is usize::MAX or one less, so that the sum of   *)
(* the size and its line end wraps (frame_body, frame_chunked,             *)
(* complete_line, compact).                                                *)
(***************************************************************************)
THEOREM FramerTypeCorrect == Spec => []TypeOK
<1>1. TypeOK /\ [Next]_vars => TypeOK'
  <2> SUFFICES ASSUME TypeOK, [Next]_vars PROVE TypeOK'
    OBVIOUS
  <2>1. CASE Drain
    BY <2>1, DrainType
  <2>2. CASE Close
    BY <2>2, CloseType
  <2>3. ASSUME NEW n \in 1 .. Len(stream), Feed(n) PROVE TypeOK'
    BY <2>3, FeedType
  <2>4. CASE UNCHANGED vars
    <3>1. UNCHANGED <<stream, fed, capture, buf, scanned, state, keep, body, call>>
      BY <2>4 DEF vars, input, framing
    <3>2. Overruns(state.remaining)' <=> Overruns(state.remaining)
      BY <3>1 DEF Overruns
    <3> QED
      BY <3>1, <3>2 DEF TypeOK
  <2> QED
    BY <2>1, <2>2, <2>3, <2>4 DEF Next
<1> QED
  BY <1>1, InitType, PTL DEF Spec

-----------------------------------------------------------------------------
(* The buffer is a part of the stream. *)

\* The n bytes of the stream before what feed() has not had.
Recent(n) == SubSeq(stream, fed - n + 1, fed)

BufInv == Len(buf) <= fed /\ BufferIsStream

LEMMA RecentFacts ==
  ASSUME TypeOK, NEW n \in Nat, n <= fed
  PROVE  /\ Recent(n) \in Seq(Byte) /\ Len(Recent(n)) = n
         /\ \A i \in 1 .. n : Recent(n)[i] = stream[fed - n + i]
<1> DEFINE m == fed - n
<1>1. m \in Nat /\ m + n = fed /\ fed <= Len(stream) /\ stream \in Seq(Byte)
  BY DEF TypeOK
<1>2. m + n <= Len(stream)
  BY <1>1
<1> HIDE DEF m
<1>3. /\ SubSeq(stream, m + 1, m + n) \in Seq(Byte)
      /\ Len(SubSeq(stream, m + 1, m + n)) = n
      /\ \A i \in 1 .. n : SubSeq(stream, m + 1, m + n)[i] = stream[m + i]
  BY <1>1, <1>2, SubSeqFacts
<1> QED
  BY <1>1, <1>3 DEF Recent, m

\* What is not consumed is the last part of what was fed.
LEMMA AheadIsRecent ==
  ASSUME TypeOK, BufInv
  PROVE  Ahead(Left) = Recent(Left)
<1>1. /\ scanned \in Nat /\ Left \in Nat /\ Left <= fed /\ scanned + Left = Len(buf)
      /\ buf \in Seq(Byte) /\ fed \in Nat /\ Len(buf) \in Nat /\ Len(buf) <= fed
  BY LeftType DEF TypeOK, BufInv, Left
<1>2. buf = Recent(Len(buf))
  BY DEF BufInv, BufferIsStream, Recent
<1>3. \A i \in 1 .. Len(buf) : buf[i] = stream[fed - Len(buf) + i]
  BY <1>1, <1>2, RecentFacts
<1>4. /\ Ahead(Left) \in Seq(Byte) /\ Len(Ahead(Left)) = Left
      /\ \A i \in 1 .. Left : Ahead(Left)[i] = buf[scanned + i]
  BY <1>1, SubSeqFacts DEF Ahead
<1>5. /\ Recent(Left) \in Seq(Byte) /\ Len(Recent(Left)) = Left
      /\ \A i \in 1 .. Left : Recent(Left)[i] = stream[fed - Left + i]
  BY <1>1, RecentFacts
<1>6. \A i \in 1 .. Left : Ahead(Left)[i] = Recent(Left)[i]
  <2> SUFFICES ASSUME NEW i \in 1 .. Left PROVE Ahead(Left)[i] = Recent(Left)[i]
    OBVIOUS
  <2>1. scanned + i \in 1 .. Len(buf) /\ fed - Len(buf) + (scanned + i) = fed - Left + i
    BY <1>1
  <2> QED
    BY <1>3, <1>4, <1>5, <2>1
<1> QED
  BY <1>4, <1>5, <1>6, SameSeq

\* A read makes the recent part longer by what was read.
LEMMA RecentGrows ==
  ASSUME TypeOK, TypeOK', NEW r \in Nat, r <= fed, NEW n \in Nat,
         fed' = fed + n, UNCHANGED stream
  PROVE  Recent(r) \o SubSeq(stream, fed + 1, fed + n) = Recent(r + n)'
<1> DEFINE more == SubSeq(stream, fed + 1, fed + n)
           grown == Recent(r) \o more
           later == Recent(r + n)'
<1>1. /\ fed \in Nat /\ stream \in Seq(Byte) /\ fed + n <= Len(stream)
      /\ fed' = fed + n /\ stream' = stream
  BY DEF TypeOK
<1>2. /\ Recent(r) \in Seq(Byte) /\ Len(Recent(r)) = r
      /\ \A i \in 1 .. r : Recent(r)[i] = stream[fed - r + i]
  BY RecentFacts
<1>3. /\ more \in Seq(Byte) /\ Len(more) = n
      /\ \A i \in 1 .. n : more[i] = stream[fed + i]
  BY <1>1, SubSeqFacts, SMTT(30)
<1>4. /\ grown \in Seq(Byte) /\ Len(grown) = r + n
      /\ \A i \in 1 .. r + n : grown[i] = IF i <= r THEN Recent(r)[i] ELSE more[i - r]
  <2> HIDE DEF more
  <2> QED
    BY <1>2, <1>3, ConcatFacts
<1>5. later = SubSeq(stream, (fed - r) + 1, (fed - r) + (r + n))
  <2>1. fed' - (r + n) + 1 = (fed - r) + 1 /\ fed' = (fed - r) + (r + n)
    BY <1>1
  <2> QED
    BY <1>1, <2>1 DEF Recent
<1>6. /\ later \in Seq(Byte) /\ Len(later) = r + n
      /\ \A i \in 1 .. r + n : later[i] = stream[(fed - r) + i]
  <2>1. fed - r \in Nat /\ r + n \in Nat /\ (fed - r) + (r + n) <= Len(stream)
    BY <1>1
  <2> HIDE DEF later
  <2> QED
    BY <1>1, <1>5, <2>1, SubSeqFacts
<1>7. \A i \in 1 .. r + n : grown[i] = later[i]
  <2> SUFFICES ASSUME NEW i \in 1 .. r + n PROVE grown[i] = later[i]
    OBVIOUS
  <2> HIDE DEF grown, later, more
  <2>0. later[i] = stream[(fed - r) + i]
    BY <1>6
  <2>1. CASE i <= r
    <3>1. grown[i] = Recent(r)[i]
      BY <1>4, <2>1
    <3>2. i \in 1 .. r /\ fed - r + i = (fed - r) + i
      BY <1>1, <2>1
    <3>3. Recent(r)[i] = stream[(fed - r) + i]
      BY <1>2, <3>2
    <3> QED
      BY <2>0, <3>1, <3>3
  <2>2. CASE ~(i <= r)
    <3>1. grown[i] = more[i - r]
      BY <1>4, <2>2
    <3>2. i - r \in 1 .. n /\ fed + (i - r) = (fed - r) + i
      BY <1>1, <2>2
    <3>3. more[i - r] = stream[(fed - r) + i]
      BY <1>3, <3>2
    <3> QED
      BY <2>0, <3>1, <3>3
  <2> QED
    BY <2>1, <2>2
<1> HIDE DEF grown, later
<1>8. grown = later
  BY <1>4, <1>6, <1>7, SameSeq
<1> QED
  BY <1>8 DEF grown, later

LEMMA BufStep == TypeOK /\ TypeOK' /\ BufInv /\ [Next]_vars => BufInv'
<1> SUFFICES ASSUME TypeOK, TypeOK', BufInv, [Next]_vars PROVE BufInv'
  OBVIOUS
<1>1. CASE UNCHANGED <<stream, fed, buf>>
  BY <1>1 DEF BufInv, BufferIsStream
<1>2. ASSUME NEW n \in 1 .. Len(stream), Feed(n) PROVE BufInv'
  <2>1. n \in Nat
    BY DEF TypeOK
  <2>2. PICK rest, more \in Seq(Byte) :
          /\ more = SubSeq(stream, fed + 1, fed + n) /\ Len(more) = n
          /\ buf' = rest \o more
          /\ \/ rest = Ahead(Left) /\ scanned' = 0 /\ Len(rest) = Left
             \/ rest = buf /\ scanned' = scanned
    BY <1>2, <2>1, FeedFacts
  <2>3. Len(rest) \in Nat /\ Len(rest) <= fed /\ rest = Recent(Len(rest))
    <3>1. CASE rest = Ahead(Left) /\ Len(rest) = Left
      <4>1. Left \in Nat /\ Left <= fed
        BY LeftType DEF BufInv, TypeOK, Left
      <4>2. rest = Recent(Left)
        BY <3>1, AheadIsRecent
      <4> QED
        BY <3>1, <4>1, <4>2
    <3>2. CASE rest = buf
      <4>1. Len(buf) \in Nat /\ Len(buf) <= fed
        BY DEF BufInv, TypeOK
      <4>2. buf = Recent(Len(buf))
        BY DEF BufInv, BufferIsStream, Recent
      <4> QED
        BY <3>2, <4>1, <4>2
    <3> QED
      BY <2>2, <3>1, <3>2
  <2>4. fed' = fed + n /\ UNCHANGED stream
    BY <1>2 DEF Feed
  <2>5. buf' = Recent(Len(rest) + n)' /\ Len(buf') = Len(rest) + n
    <3>1. Recent(Len(rest)) \o more = Recent(Len(rest) + n)'
      BY <2>1, <2>2, <2>3, <2>4, RecentGrows
    <3>2. Len(rest \o more) = Len(rest) + n
      BY <2>2, ConcatFacts
    <3> QED
      BY <2>2, <2>3, <3>1, <3>2
  <2>6. Len(buf') <= fed'
    BY <2>3, <2>4, <2>5, SMTT(30) DEF TypeOK
  <2>7. buf' = SubSeq(stream', fed' - Len(buf') + 1, fed')
    BY <2>5 DEF Recent
  <2> QED
    BY <2>6, <2>7 DEF BufInv, BufferIsStream
<1>3. CASE Drain \/ Close \/ UNCHANGED vars
  <2>1. UNCHANGED <<stream, fed, buf>>
    BY <1>3 DEF Drain, Close, vars, FrameHeaders, FrameBody, ChunkSize, ChunkData,
       ChunkTrailers, AwaitEnd, Break, Fail, Panic, Consume, input, framing
  <2> QED
    BY <1>1, <2>1
<1> QED
  BY <1>2, <1>3 DEF Next

LEMMA BufInit == Init => BufInv
  BY DEF Init, BufInv, BufferIsStream

(***************************************************************************)
(* Whatever is fed and whenever it compacts, the buffer holds the end of   *)
(* what was fed, in order and without a gap (feed, compact).               *)
(***************************************************************************)
THEOREM BufferHolds == Spec => []BufferIsStream
<1>1. BufInv => BufferIsStream
  BY DEF BufInv
<1> QED
  BY <1>1, BufInit, BufStep, FramerTypeCorrect, PTL DEF Spec

-----------------------------------------------------------------------------
(* The framer implements the reader of the whole stream. *)

Heads == DOMAIN Block \union {"none"}
Reply == [head : Heads, keep : BOOLEAN, body : Seq(Byte)]

\* What is completed in a call waits for its end, and a call that fails drops it.
RespInv ==
    /\ head \in Heads
    /\ responses \in Seq(Reply) /\ completed \in Seq(Reply)
    /\ call # "draining" => completed = <<>>

RefInv == TypeOK /\ BufInv /\ RespInv

Cursor == [pos |-> fed - Left, part |-> state, head |-> head, keep |-> keep, body |-> body,
           done |-> responses \o completed]
Ending == IF call \in {"none", "draining"} THEN "open" ELSE call

\* What a step has to show.
Simulated == RespInv' /\ (Reader!Next \/ UNCHANGED Reader!vars)

LEMMA Joining ==
  ASSUME NEW S, NEW p \in Seq(S), NEW q \in Seq(S), NEW x \in S
  PROVE  /\ p \o <<>> = p
         /\ p \o q \in Seq(S)
         /\ Append(q, x) \in Seq(S)
         /\ p \o Append(q, x) = Append(p \o q, x)
         /\ Len(p) \in 0 .. Len(p \o q) /\ SubSeq(p \o q, 1, Len(p)) = p
<1>1. p \o <<>> = p /\ p \o q \in Seq(S) /\ Append(q, x) \in Seq(S)
  OBVIOUS
<1>2. p \o Append(q, x) = Append(p \o q, x)
  OBVIOUS
<1>3. Len(p) \in 0 .. Len(p \o q) /\ SubSeq(p \o q, 1, Len(p)) = p
  OBVIOUS
<1> QED
  BY <1>1, <1>2, <1>3

\* The bytes that are not consumed are the next ones of the stream.
LEMMA Window ==
  ASSUME RefInv
  PROVE  /\ fed - Left \in Nat /\ Left \in Nat /\ fed \in Nat /\ fed <= Len(stream)
         /\ scanned \in Nat /\ Len(buf) \in Nat /\ scanned + Left = Len(buf)
         /\ \A i \in 1 .. Left : buf[scanned + i] = stream[(fed - Left) + i]
<1>1. /\ scanned \in Nat /\ Left \in Nat /\ Left <= fed /\ scanned + Left = Len(buf)
      /\ buf \in Seq(Byte) /\ fed \in Nat /\ Len(buf) \in Nat /\ Len(buf) <= fed /\ fed <= Len(stream)
  BY LeftType DEF RefInv, TypeOK, BufInv, Left
<1>2. buf = Recent(Len(buf))
  BY DEF RefInv, BufInv, BufferIsStream, Recent
<1>3. \A i \in 1 .. Len(buf) : buf[i] = stream[fed - Len(buf) + i]
  <2>1. TypeOK
    BY DEF RefInv
  <2> QED
    BY <1>1, <1>2, <2>1, RecentFacts
<1>4. ASSUME NEW i \in 1 .. Left PROVE buf[scanned + i] = stream[(fed - Left) + i]
  <2>1. scanned + i \in 1 .. Len(buf) /\ fed - Len(buf) + (scanned + i) = (fed - Left) + i
    BY <1>1
  <2> QED
    BY <1>3, <2>1
<1> QED
  BY <1>1, <1>4

LEMMA AheadIsNext ==
  ASSUME RefInv, NEW n \in Nat, n <= Left
  PROVE  /\ Ahead(n) = Reader!Bytes(n) /\ Reader!There(n) /\ Body(n) = Reader!With(n)
         /\ Ahead(n) \in Seq(Byte) /\ Body(n) \in Seq(Byte)
<1> DEFINE p == fed - Left
           next == SubSeq(stream, p + 1, p + n)
<1>1. /\ p \in Nat /\ Left \in Nat /\ fed <= Len(stream) /\ scanned \in Nat /\ fed = p + Left
      /\ scanned + Left = Len(buf) /\ buf \in Seq(Byte) /\ stream \in Seq(Byte) /\ fed \in Nat
      /\ \A i \in 1 .. Left : buf[scanned + i] = stream[p + i]
  BY Window DEF RefInv, TypeOK
<1> HIDE DEF p
<1>2. scanned + n <= Len(buf) /\ p + n <= Len(stream)
  BY <1>1
<1>3. Ahead(n) \in Seq(Byte) /\ Len(Ahead(n)) = n /\ \A i \in 1 .. n : Ahead(n)[i] = buf[scanned + i]
  BY <1>1, <1>2, SubSeqFacts DEF Ahead
<1>4. next \in Seq(Byte) /\ Len(next) = n /\ \A i \in 1 .. n : next[i] = stream[p + i]
  BY <1>1, <1>2, SubSeqFacts
<1> HIDE DEF next
<1>5. Ahead(n) = next
  <2>1. \A i \in 1 .. n : Ahead(n)[i] = next[i]
    BY <1>1, <1>3, <1>4, SMTT(30)
  <2> QED
    BY <1>3, <1>4, <2>1, SameSeq
<1>6. Reader!Bytes(n) = next /\ Reader!There(n)
  BY <1>2 DEF Reader!Bytes, Reader!There, next, p
<1>7. Body(n) = Reader!With(n)
  BY <1>5, <1>6 DEF Body, Reader!With
<1>8. Body(n) \in Seq(Byte)
  BY BodyType DEF RefInv
<1> QED
  BY <1>3, <1>5, <1>6, <1>7, <1>8

\* A line that is in the buffer is the next line of the stream.
LEMMA LineIsNext ==
  ASSUME RefInv, NEW n \in 0 .. Left, Line(n)
  PROVE  Reader!HasLine /\ Reader!LineLength = n /\ n + 2 \in Nat /\ n + 2 <= Left
<1> DEFINE p == fed - Left
<1>1. /\ p \in Nat /\ Left \in Nat /\ fed <= Len(stream) /\ scanned \in Nat /\ fed = p + Left
      /\ scanned + Left = Len(buf) /\ fed \in Nat /\ Len(stream) \in Nat
      /\ \A i \in 1 .. Left : buf[scanned + i] = stream[p + i]
  BY Window DEF RefInv, TypeOK
<1>2. n + 2 \in Nat /\ n + 2 <= Left /\ n \in Nat
  BY LineFits, <1>1 DEF RefInv
<1>3. \A m \in Nat : Reader!LineOf(m) <=>
        /\ p + (m + 2) <= Len(stream) /\ stream[p + m + 1] = "cr"
        /\ \A i \in 1 .. m : stream[p + i] # "cr"
  BY DEF Reader!LineOf, Reader!There
<1> HIDE DEF p
<1>4. p + (n + 2) <= Len(stream) /\ n \in 0 .. Len(stream)
  BY <1>1, <1>2
<1>5. stream[p + n + 1] = "cr"
  <2>1. n + 1 \in 1 .. Left /\ scanned + (n + 1) = scanned + n + 1 /\ p + (n + 1) = p + n + 1
    BY <1>1, <1>2
  <2> QED
    BY <1>1, <2>1 DEF Line
<1>6. \A i \in 1 .. n : stream[p + i] # "cr"
  <2>1. \A i \in 1 .. n : i \in 1 .. Left
    BY <1>1, <1>2
  <2> QED
    BY <1>1, <2>1 DEF Line
<1>7. Reader!LineOf(n)
  BY <1>2, <1>3, <1>4, <1>5, <1>6
<1>8. ASSUME NEW m \in 0 .. Len(stream), Reader!LineOf(m) PROVE m = n
  <2>1. m \in Nat /\ stream[p + m + 1] = "cr" /\ \A i \in 1 .. m : stream[p + i] # "cr"
    BY <1>3, <1>8
  <2>2. ~(m < n)
    <3>1. m < n => m + 1 \in 1 .. n /\ p + (m + 1) = p + m + 1
      BY <1>1, <1>2, <2>1
    <3> QED
      BY <1>6, <2>1, <3>1
  <2>3. ~(n < m)
    <3>1. n < m => n + 1 \in 1 .. m /\ p + (n + 1) = p + n + 1
      BY <1>1, <1>2, <2>1
    <3> QED
      BY <1>5, <2>1, <3>1
  <2> QED
    BY <1>2, <2>1, <2>2, <2>3
<1>9. Reader!HasLine
  BY <1>4, <1>7 DEF Reader!HasLine
<1>10. Reader!LineLength \in 0 .. Len(stream) /\ Reader!LineOf(Reader!LineLength)
  BY <1>9, Zenon DEF Reader!HasLine, Reader!LineLength
<1> QED
  BY <1>2, <1>8, <1>9, <1>10

\* A call that breaks hands its responses over.
LEMMA BreakStep == ASSUME RefInv, call = "draining", Break PROVE Simulated
<1>1. responses \in Seq(Reply) /\ completed \in Seq(Reply)
  BY DEF RefInv, RespInv
<1>2. responses \o completed \in Seq(Reply) /\ (responses \o completed) \o <<>> = responses \o completed
  BY <1>1
<1>3. RespInv'
  BY <1>2 DEF RefInv, RespInv, Break, input, framing
<1>4. UNCHANGED <<stream, capture, fed, buf, scanned, state, head, keep, body>>
  BY DEF Break, input, framing
<1>5. responses' \o completed' = responses \o completed /\ call' = "none"
  BY <1>2 DEF Break
<1>6. Cursor' = Cursor /\ responses' = Cursor.done
  BY <1>4, <1>5 DEF Break, Cursor, Left
<1>7. Reader!Return
  BY <1>4, <1>5, <1>6 DEF Reader!Return, Cursor
<1> QED
  BY <1>3, <1>7 DEF Simulated, Reader!Next

\* A call that fails drops them.
LEMMA FailStep ==
  ASSUME RefInv, call = "draining", Fail, Reader!Broken
  PROVE  Simulated
<1>1. responses \in Seq(Reply) /\ completed \in Seq(Reply)
  BY DEF RefInv, RespInv
<1>2. responses \o <<>> = responses
  BY <1>1
<1>3. /\ UNCHANGED <<stream, capture, fed, buf, scanned, head, keep, body, responses>>
      /\ state' = Within("broken") /\ completed' = <<>> /\ call' = "bad"
  BY DEF Fail, input
<1>4. RespInv'
  BY <1>3 DEF RefInv, RespInv
<1>5. Cursor' = Reader!Abandoned(Reader!Part("broken", 0))
  <2>1. (fed - Left)' = fed - Left
    BY <1>3 DEF Left
  <2> QED
    BY <1>2, <1>3, <2>1 DEF Cursor, Reader!Abandoned, Reader!Part, Within
<1>6. Reader!GiveUp
  <2>1. Ending = "open" /\ Ending' = "bad"
    BY <1>3 DEF Ending
  <2> QED
    BY <1>3, <1>5, <2>1 DEF Reader!GiveUp, Ending, Cursor
<1> QED
  BY <1>4, <1>6 DEF Simulated, Reader!Next

\* So does a call that panics.
LEMMA PanicStep ==
  ASSUME RefInv, call = "draining", state.at = "data", Reader!There(Reader!DataUnits),
         Reader!Overruns, Panic
  PROVE  Simulated
<1>1. responses \in Seq(Reply)
  BY DEF RefInv, RespInv
<1>2. responses \o <<>> = responses
  BY <1>1
<1>3. /\ UNCHANGED <<stream, capture, fed, buf, scanned, state, head, keep, body, responses>>
      /\ completed' = <<>> /\ call' = "panic"
  BY DEF Panic, input, framing
<1>4. RespInv'
  BY <1>3 DEF RefInv, RespInv
<1>5. Cursor' = Reader!Abandoned(state)
  <2>1. (fed - Left)' = fed - Left
    BY <1>3 DEF Left
  <2> QED
    BY <1>2, <1>3, <2>1 DEF Cursor, Reader!Abandoned
<1>6. Reader!Overrun
  <2>1. Ending = "open" /\ Ending' = "panic"
    BY <1>3 DEF Ending
  <2> QED
    BY <1>3, <1>5, <2>1 DEF Reader!Overrun, Ending, Cursor
<1> QED
  BY <1>4, <1>6 DEF Simulated, Reader!Next

\* The next part is read.
LEMMA ReadStep ==
  ASSUME RefInv, call = "draining", Reader!Readable, Cursor' = Reader!After, call' = call,
         UNCHANGED <<stream, capture, responses>>, RespInv'
  PROVE  Simulated
<1>1. Ending = "open" /\ Ending' = "open"
  BY DEF Ending
<1>2. Reader!Read
  BY <1>1 DEF Reader!Read, Ending, Cursor
<1> QED
  BY <1>2 DEF Simulated, Reader!Next

\* A message is complete behind n more bytes.
LEMMA FinishStep ==
  ASSUME RefInv, call = "draining", NEW n \in Nat, n <= Left,
         NEW h \in Heads, NEW k \in BOOLEAN, NEW b \in Seq(Byte), Finish(h, k, b),
         scanned' = scanned + n, head' = h, keep' = k, UNCHANGED <<input, buf, call, responses>>,
         Reader!Readable, Reader!After = Reader!Behind(n, h, k, b)
  PROVE  Simulated
<1> DEFINE r == [head |-> h, keep |-> k, body |-> b]
<1>1. responses \in Seq(Reply) /\ completed \in Seq(Reply) /\ r \in Reply
  BY DEF RefInv, RespInv, Reply
<1>2. completed' = Append(completed, r) /\ responses' = responses
  BY DEF Finish
<1>3. completed' \in Seq(Reply) /\ responses' \o completed' = Append(responses \o completed, r)
  <2> HIDE DEF r
  <2> QED
    BY <1>1, <1>2, Joining
<1>4. RespInv'
  BY <1>1, <1>2, <1>3 DEF RespInv
<1>5. (fed - Left)' = (fed - Left) + n
  <2>1. UNCHANGED <<fed, buf>>
    BY DEF input
  <2>2. Len(buf) \in Nat /\ scanned \in Nat /\ fed \in Nat
    BY Window
  <2> QED
    BY <2>1, <2>2 DEF Left
<1>6. Cursor' = Reader!Behind(n, h, k, b)
  BY <1>3, <1>5 DEF Cursor, Reader!Behind, Reader!Part, Finish, Within
<1> QED
  BY <1>2, <1>4, <1>6, ReadStep DEF input

\* A message goes on behind n more bytes.
LEMMA InsideStep ==
  ASSUME RefInv, call = "draining", NEW n \in Nat, n <= Left, NEW h \in Heads, NEW k,
         NEW p, NEW b,
         state' = p, body' = b, UNCHANGED completed,
         scanned' = scanned + n, head' = h, keep' = k, UNCHANGED <<input, buf, call, responses>>,
         Reader!Readable,
         Reader!After = Reader!Inside(n, p, h, k, b)
  PROVE  Simulated
<1>1. RespInv'
  BY DEF RefInv, RespInv
<1>2. (fed - Left)' = (fed - Left) + n
  <2>1. UNCHANGED <<fed, buf>>
    BY DEF input
  <2>2. Len(buf) \in Nat /\ scanned \in Nat /\ fed \in Nat
    BY Window
  <2> QED
    BY <2>1, <2>2 DEF Left
<1>3. Cursor' = Reader!After
  BY <1>2 DEF Cursor, Reader!Inside
<1> QED
  BY <1>1, <1>3, ReadStep DEF input

LEMMA BodyStep == ASSUME RefInv, FrameBody PROVE Simulated
<1> DEFINE n == state.remaining
<1>1. CASE Left < n
  BY <1>1, BreakStep DEF FrameBody
<1>2. CASE ~(Left < n)
  <2>1. n \in Nat /\ n <= Left
    BY <1>2, Window DEF RefInv, TypeOK
  <2>2. call = "draining" /\ state.at = "body" /\ Consume(n) /\ Finish(head, keep, Body(n))
    BY <1>2 DEF FrameBody
  <2>3. Body(n) \in Seq(Byte) /\ Body(n) = Reader!With(n) /\ Reader!There(n)
    BY <2>1, AheadIsNext
  <2>4. Reader!Readable
    BY <2>2, <2>3 DEF Reader!Readable
  <2>5. Reader!After = Reader!Behind(n, head, keep, Body(n))
    BY <2>2, <2>3 DEF Reader!After, Reader!GoesOn
  <2>6. head \in Heads /\ keep \in BOOLEAN
    BY DEF RefInv, RespInv, TypeOK
  <2> HIDE DEF n
  <2> QED
    BY <2>1, <2>2, <2>3, <2>4, <2>5, <2>6, FinishStep DEF Consume
<1> QED
  BY <1>1, <1>2

LEMMA DataStep == ASSUME RefInv, ChunkData PROVE Simulated
<1> DEFINE n == state.remaining
           u == DataUnits(n)
<1>0. call = "draining" /\ state.at = "data"
  BY DEF ChunkData
<1>1. n \in Nat /\ u \in Nat /\ Left \in Nat
  BY Window, UnitsFacts DEF RefInv, TypeOK
<1>2. Reader!DataUnits = u /\ (Reader!Overruns <=> Overruns(n))
  BY DEF Reader!DataUnits, Reader!Overruns, DataUnits, Overruns
<1>3. u <= Left => Reader!There(u)
  BY <1>1, AheadIsNext
<1> HIDE DEF u
<1>4. CASE Break
  BY <1>0, <1>4, BreakStep
<1>5. CASE u <= Left /\ Overruns(n) /\ Panic
  BY <1>0, <1>2, <1>3, <1>5, PanicStep
<1>6. CASE u <= Left /\ ~Overruns(n) /\ Consume(u) /\ GoesOn(Within("size"), Body(n))
  <2>1. Body(n) = Reader!With(n)
    <3>1. CASE capture
      <4>1. n <= Left
        BY <1>1, <1>6, <3>1, DataFits DEF RefInv, u
      <4> QED
        BY <1>1, <4>1, AheadIsNext
    <3>2. CASE ~capture
      BY <3>2 DEF Body, Reader!With
    <3> QED
      BY <3>1, <3>2
  <2>2. Reader!Readable
    BY <1>0, <1>2, <1>3, <1>6 DEF Reader!Readable
  <2>3. Reader!After = Reader!Inside(u, Within("size"), head, keep, Body(n))
    BY <1>0, <1>2, <2>1 DEF Reader!After, Reader!GoesOn, Reader!Part, Within
  <2>4. head \in Heads
    BY DEF RefInv, RespInv
  <2> HIDE DEF n
  <2> QED
    BY <1>0, <1>1, <1>6, <2>2, <2>3, <2>4, InsideStep DEF Consume, GoesOn
<1> QED
  BY <1>1, <1>4, <1>5, <1>6 DEF ChunkData, u

LEMMA SizeStep == ASSUME RefInv, ChunkSize PROVE Simulated
<1>1. CASE Break
  BY <1>1, BreakStep DEF ChunkSize
<1>2. CASE ~Break
  <2>1. PICK n \in 0 .. Left :
          /\ Line(n)
          /\ IF ~IsSize(Ahead(n)) THEN Fail
             ELSE /\ Consume(n + 2)
                  /\ GoesOn(IF Hex[Ahead(n)] = 0 THEN Within("trailers")
                            ELSE [at |-> "data", remaining |-> Hex[Ahead(n)]], body)
    BY <1>2 DEF ChunkSize
  <2>2. Reader!HasLine /\ Reader!LineLength = n /\ n + 2 \in Nat /\ n + 2 <= Left
    BY <2>1, LineIsNext
  <2>3. Ahead(n) = Reader!Bytes(n)
    <3>1. n \in Nat /\ n <= Left
      BY Window
    <3> QED
      BY <3>1, AheadIsNext
  <2>4. call = "draining" /\ state.at = "size"
    BY DEF ChunkSize
  <2>5. CASE ~IsSize(Ahead(n))
    <3>1. Reader!Broken
      BY <2>2, <2>3, <2>4, <2>5 DEF Reader!Broken, IsSize
    <3> QED
      BY <2>1, <2>4, <2>5, <3>1, FailStep
  <2>6. CASE IsSize(Ahead(n))
    <3> DEFINE p == IF Hex[Ahead(n)] = 0 THEN Within("trailers")
                    ELSE [at |-> "data", remaining |-> Hex[Ahead(n)]]
    <3>1. Reader!Readable
      BY <2>2, <2>3, <2>4, <2>6 DEF Reader!Readable, IsSize
    <3>2. Reader!After = Reader!Inside(n + 2, p, head, keep, body)
      BY <2>2, <2>3, <2>4 DEF Reader!After, Reader!GoesOn, Reader!AfterSize, Reader!Part, Within
    <3>3. head \in Heads
      BY DEF RefInv, RespInv
    <3>4. Consume(n + 2) /\ GoesOn(p, body)
      BY <2>1, <2>6
    <3> HIDE DEF p
    <3> QED
      BY <2>2, <2>4, <3>1, <3>2, <3>3, <3>4, InsideStep DEF Consume, GoesOn
  <2> QED
    BY <2>5, <2>6
<1> QED
  BY <1>1, <1>2

LEMMA TrailersStep == ASSUME RefInv, ChunkTrailers PROVE Simulated
<1>1. CASE Break
  BY <1>1, BreakStep DEF ChunkTrailers
<1>2. CASE ~Break
  <2>1. PICK n \in 0 .. Left :
          /\ Line(n) /\ Consume(n + 2)
          /\ IF n = 0 THEN Finish(head, keep, body) ELSE GoesOn(state, body)
    BY <1>2 DEF ChunkTrailers
  <2>2. Reader!HasLine /\ Reader!LineLength = n /\ n + 2 \in Nat /\ n + 2 <= Left
    BY <2>1, LineIsNext
  <2>3. call = "draining" /\ state.at = "trailers"
    BY DEF ChunkTrailers
  <2>4. Reader!Readable
    BY <2>2, <2>3 DEF Reader!Readable
  <2>5. head \in Heads /\ keep \in BOOLEAN /\ body \in Seq(Byte)
    BY DEF RefInv, RespInv, TypeOK
  <2>6. CASE n = 0
    <3>1. Reader!After = Reader!Behind(2, head, keep, body)
      BY <2>2, <2>3, <2>6 DEF Reader!After, Reader!GoesOn
    <3>2. 2 <= Left /\ scanned' = scanned + 2
      BY <2>1, <2>2, <2>6 DEF Consume
    <3> QED
      BY <2>1, <2>3, <2>4, <2>5, <2>6, <3>1, <3>2, FinishStep DEF Consume
  <2>7. CASE n # 0
    <3>1. Reader!After = Reader!Inside(n + 2, state, head, keep, body)
      BY <2>2, <2>3, <2>7 DEF Reader!After, Reader!GoesOn
    <3> QED
      BY <2>1, <2>2, <2>3, <2>4, <2>5, <2>7, <3>1, InsideStep DEF Consume, GoesOn
  <2> QED
    BY <2>6, <2>7
<1> QED
  BY <1>1, <1>2

\* A header block is there, or more than the beginning of one and no block.
LEMMA HeadersStep == ASSUME RefInv, FrameHeaders PROVE Simulated
<1> DEFINE p == fed - Left
<1>1. /\ p \in Nat /\ Left \in Nat /\ fed <= Len(stream) /\ scanned \in Nat /\ fed = p + Left
      /\ \A i \in 1 .. Left : buf[scanned + i] = stream[p + i]
      /\ Len(stream) \in Nat
  BY Window DEF RefInv, TypeOK
<1>2. call = "draining" /\ state.at = "headers"
  BY DEF FrameHeaders
<1>3. 1 <= Left => Ahead(1) = Reader!Bytes(1) /\ Reader!There(1)
  BY AheadIsNext
<1>4. 2 <= Left => Reader!There(2) /\ buf[scanned + 2] = stream[p + 2]
  <2>1. 2 <= Left => Reader!There(2)
    BY AheadIsNext
  <2>2. 2 <= Left => 2 \in 1 .. Left
    BY <1>1
  <2> QED
    BY <1>1, <2>1, <2>2
<1>5. CASE Break
  BY <1>2, <1>5, BreakStep
<1>6. CASE ~PartialHeaders /\ ~CompleteHeaders /\ Fail
  <2>1. 1 <= Left
    BY <1>1, <1>6 DEF PartialHeaders
  <2>2. ~(Left = 1 /\ Ahead(1) = <<"begin">>)
    BY <1>6 DEF PartialHeaders
  <2>3. ~(2 <= Left /\ Ahead(1) = <<"begin">> /\ buf[scanned + 2] \in DOMAIN Block)
    BY <1>1, <1>6 DEF CompleteHeaders
  <2>4. Left = 1 \/ 2 <= Left
    BY <1>1, <2>1
  <2>5. ~(Reader!Bytes(1) = <<"begin">> /\ (Reader!There(2) => stream[p + 2] \in DOMAIN Block))
    BY <1>3, <1>4, <2>1, <2>2, <2>3, <2>4
  <2>6. Reader!Broken
    BY <1>2, <1>3, <2>1, <2>5 DEF Reader!Broken
  <2> QED
    BY <1>2, <1>6, <2>6, FailStep
<1>7. CASE ~Break /\ ~(~PartialHeaders /\ ~CompleteHeaders /\ Fail)
  <2> DEFINE h == buf[scanned + 2]
             what == Block[h]
             next == BodyFraming(what)
  <2>1. /\ CompleteHeaders
        /\ scanned' = scanned + 2 /\ UNCHANGED <<input, buf, call, responses>> /\ head' = h
        /\ IF what.bodiless
           THEN keep' = what.keep /\ Finish(h, keep', body)
           ELSE /\ keep' = (what.keep /\ next.at # "until")
                /\ state' = next
                /\ UNCHANGED <<body, completed>>
    BY <1>7 DEF FrameHeaders
  <2>2. 2 <= Left /\ Ahead(1) = <<"begin">> /\ h \in DOMAIN Block
    BY <1>1, <2>1 DEF CompleteHeaders
  <2>3. what \in [bodiless : BOOLEAN, length : Nat \union {NoLength},
                  chunked : BOOLEAN, keep : BOOLEAN]
    BY <2>2, FramerOK
  <2>4. h = stream[p + 2] /\ Reader!There(2) /\ Reader!Bytes(1) = <<"begin">>
    BY <1>1, <1>3, <1>4, <2>2
  <2>5. Reader!Readable
    BY <1>2, <2>2, <2>4 DEF Reader!Readable, Reader!HasBlock
  <2>6. Reader!After = Reader!AfterBlock
    BY <1>2 DEF Reader!After
  <2>7. h \in Heads /\ body \in Seq(Byte)
    BY <2>2 DEF Heads, RefInv, TypeOK
  <2>8. Reader!AfterBlock =
          LET part == IF what.length >= 0 THEN [at |-> "body", remaining |-> what.length]
                      ELSE [at |-> IF what.chunked THEN "size" ELSE "until", remaining |-> 0]
          IN  IF what.bodiless THEN Reader!Behind(2, h, what.keep, body)
              ELSE Reader!Inside(2, part, h, what.keep /\ part.at # "until", body)
    BY <2>4 DEF Reader!AfterBlock, Reader!Part
  <2> HIDE DEF what, h
  <2>9. what.length >= 0 <=> what.length # NoLength
    BY <2>3 DEF NoLength
  <2>10. CASE what.bodiless
    <3>1. Reader!After = Reader!Behind(2, h, what.keep, body)
      BY <2>6, <2>8, <2>10
    <3>2. keep' = what.keep /\ what.keep \in BOOLEAN /\ Finish(h, what.keep, body)
      BY <2>1, <2>3, <2>10
    <3> QED
      BY <1>2, <2>1, <2>2, <2>5, <2>7, <3>1, <3>2, FinishStep
  <2>11. CASE ~what.bodiless
    <3>1. next = IF what.length >= 0 THEN [at |-> "body", remaining |-> what.length]
                 ELSE [at |-> IF what.chunked THEN "size" ELSE "until", remaining |-> 0]
      BY <2>9 DEF BodyFraming, Within
    <3>2. Reader!After = Reader!Inside(2, next, h, what.keep /\ next.at # "until", body)
      BY <2>6, <2>8, <2>11, <3>1
    <3>3. keep' = (what.keep /\ next.at # "until") /\ state' = next /\ UNCHANGED <<body, completed>>
      BY <2>1, <2>11
    <3> HIDE DEF next
    <3>4. Reader!After = Reader!Inside(2, next, h, keep', body)
      BY <3>2, <3>3
    <3> QED
      BY <1>2, <2>1, <2>2, <2>5, <2>7, <3>3, <3>4, InsideStep
  <2> QED
    BY <2>10, <2>11
<1> QED
  BY <1>5, <1>6, <1>7

\* A read moves nothing: feed() appends to what is not consumed.
LEMMA FeedStep == ASSUME RefInv, NEW n \in Nat, Feed(n) PROVE Simulated
<1>1. PICK rest, more \in Seq(Byte) :
            /\ more = SubSeq(stream, fed + 1, fed + n) /\ Len(more) = n
            /\ buf' = rest \o more
            /\ \/ rest = Ahead(Left) /\ scanned' = 0 /\ Len(rest) = Left
               \/ rest = buf /\ scanned' = scanned
  BY FeedFacts DEF RefInv
<1>2. Len(buf') = Len(rest) + n /\ Len(rest) \in Nat
  BY <1>1, ConcatFacts
<1>3. scanned \in Nat /\ Left \in Nat /\ fed \in Nat
  BY Window
<1>4. scanned' \in Nat /\ Len(rest) - scanned' = Left
  BY <1>1, <1>3 DEF Left
<1>5. fed' = fed + n /\ call = "none" /\ call' = "draining"
      /\ UNCHANGED <<stream, capture, state, head, keep, body, completed, responses>>
  BY DEF Feed
<1>6. Left' = Left + n
  BY <1>2, <1>4 DEF Left
<1>7. (fed - Left)' = fed - Left
  BY <1>3, <1>5, <1>6
<1>8. UNCHANGED Reader!vars
  BY <1>5, <1>7 DEF Reader!vars
<1>9. RespInv'
  BY <1>5 DEF RefInv, RespInv
<1> QED
  BY <1>8, <1>9 DEF Simulated

LEMMA CloseStep == ASSUME RefInv, Close PROVE Simulated
<1>1. responses \in Seq(Reply) /\ completed = <<>> /\ responses \o <<>> = responses
  BY DEF RefInv, RespInv, Close
<1>2. UNCHANGED <<stream, fed, capture, completed>> /\ call = "none"
  BY DEF Close, input
<1>3. CASE state.at = "until"
  <2> DEFINE r == [head |-> head, keep |-> keep, body |-> Body(Left)]
  <2>1. /\ call' = "closed" /\ responses' = Append(responses, r) /\ scanned' = Len(buf)
        /\ state' = Within("headers") /\ body' = <<>> /\ UNCHANGED <<buf, head, keep>>
    BY <1>3 DEF Close
  <2>2. /\ Left \in Nat /\ fed \in Nat /\ fed <= Len(stream) /\ Len(buf) \in Nat
        /\ Len(stream) \in Nat /\ fed - Left \in Nat
    BY Window DEF RefInv, TypeOK
  <2>3. Body(Left) \in Seq(Byte) /\ Body(Left) = Reader!With(Left) /\ Reader!There(Left)
    BY <2>2, AheadIsNext
  <2>4. r \in Reply
    BY <2>3 DEF Reply, RefInv, RespInv, TypeOK
  <2>5. responses' \in Seq(Reply) /\ responses' \o <<>> = responses'
    <3> HIDE DEF r
    <3> QED
      BY <1>1, <2>1, <2>4
  <2>6. RespInv'
    BY <1>1, <1>2, <2>1, <2>5 DEF RefInv, RespInv
  <2>7. (fed - Left)' = (fed - Left) + Left
    BY <1>2, <2>1, <2>2 DEF Left
  <2>8. Cursor' = Reader!Behind(Left, head, keep, Reader!With(Left))
    BY <1>1, <1>2, <2>1, <2>3, <2>5, <2>7 DEF Cursor, Reader!Behind, Reader!Part, Within
  <2>9. Left \in 0 .. Len(stream)
    BY <2>2
  <2>10. Cursor.done = responses /\ Cursor'.done = responses'
    BY <1>1, <1>2, <2>5 DEF Cursor
  <2>11. \E n \in 0 .. Len(stream) :
            Reader!There(n) /\ Cursor' = Reader!Behind(n, head, keep, Reader!With(n))
    BY <2>3, <2>8, <2>9
  <2>12. Reader!End
    BY <1>2, <1>3, <2>1, <2>10, <2>11 DEF Reader!End, Cursor
  <2> QED
    BY <2>6, <2>12 DEF Simulated, Reader!Next
<1>4. CASE state.at # "until"
  <2>1. call' = "cut" /\ UNCHANGED <<buf, scanned, state, head, keep, body, responses>>
    BY <1>4 DEF Close, framing
  <2>2. RespInv'
    BY <1>1, <1>2, <2>1 DEF RefInv, RespInv
  <2>3. Cursor' = Cursor
    BY <1>2, <2>1 DEF Cursor, Left
  <2>4. Cursor.done = responses
    BY <1>1 DEF Cursor
  <2>5. Reader!End
    BY <1>2, <1>4, <2>1, <2>3, <2>4 DEF Reader!End, Cursor
  <2> QED
    BY <2>2, <2>5 DEF Simulated, Reader!Next
<1> QED
  BY <1>3, <1>4

LEMMA SimulatedInit == Init => RespInv /\ Reader!Init
<1> SUFFICES ASSUME Init PROVE RespInv /\ Reader!Init
  OBVIOUS
<1>1. RespInv
  BY DEF Init, RespInv, Heads
<1>2. responses \o completed = <<>>
  <2>1. <<>> \in Seq(Reply)
    OBVIOUS
  <2>2. ASSUME NEW p \in Seq(Reply) PROVE p \o <<>> = p
    OBVIOUS
  <2>3. <<>> \o <<>> = <<>>
    BY <2>1, <2>2, Zenon
  <2> QED
    BY <2>3 DEF Init
<1>3. fed - Left = 0
  <2>1. fed = 0 /\ scanned = 0 /\ buf = <<>>
    BY DEF Init
  <2>2. Len(buf) = 0
    BY <2>1
  <2>3. Left = 0
    BY <2>1, <2>2 DEF Left
  <2> QED
    BY <2>1, <2>3
<1>4. Reader!Init
  BY <1>2, <1>3 DEF Init, Reader!Init, Reader!Part, Within
<1> QED
  BY <1>1, <1>4

LEMMA SimulatedStep == RefInv /\ [Next]_vars => Simulated
<1> SUFFICES ASSUME RefInv, [Next]_vars PROVE Simulated
  OBVIOUS
<1>1. CASE FrameHeaders
  BY <1>1, HeadersStep
<1>2. CASE FrameBody
  BY <1>2, BodyStep
<1>3. CASE ChunkSize
  BY <1>3, SizeStep
<1>4. CASE ChunkData
  BY <1>4, DataStep
<1>5. CASE ChunkTrailers
  BY <1>5, TrailersStep
<1>6. CASE AwaitEnd
  BY <1>6, BreakStep DEF AwaitEnd
<1>7. CASE Close
  BY <1>7, CloseStep
<1>8. ASSUME NEW n \in 1 .. Len(stream), Feed(n) PROVE Simulated
  <2>1. n \in Nat
    BY DEF RefInv, TypeOK
  <2> QED
    BY <1>8, <2>1, FeedStep
<1>9. CASE UNCHANGED vars
  <2>1. RespInv'
    BY <1>9 DEF RefInv, RespInv, vars, input, framing
  <2>2. UNCHANGED Reader!vars
    BY <1>9 DEF Reader!vars, vars, input, framing, Left
  <2> QED
    BY <2>1, <2>2 DEF Simulated
<1> QED
  BY <1>1, <1>2, <1>3, <1>4, <1>5, <1>6, <1>7, <1>8, <1>9 DEF Next, Drain

(***************************************************************************)
(* Wherever the reads end, the framer takes from the stream what a reader  *)
(* takes that has all of it at once: the parts, the responses and the end  *)
(* do not depend on how the stream was split.  What is lost of it when the *)
(* framer gives up is what the feed that fails had completed, which it is  *)
(* said to return; no response of an earlier feed is lost                  *)
(* (ResponseFramer::feed, drain, closed).                                  *)
(***************************************************************************)
THEOREM FramerIsStreamReader == Spec => ImplementsStreamReader
<1>1. Init => BufInv /\ RespInv /\ Reader!Init
  BY BufInit, SimulatedInit
<1>2. TypeOK /\ TypeOK' /\ BufInv /\ RespInv /\ [Next]_vars
        => BufInv' /\ RespInv' /\ [Reader!Next]_(Reader!vars)
  BY BufStep, SimulatedStep DEF RefInv, Simulated
<1> QED
  BY <1>1, <1>2, FramerTypeCorrect, PTL DEF Spec, ImplementsStreamReader, Reader!Spec

\* Every set of numbers has a least element.
LEMMA Least ==
  ASSUME NEW T \in SUBSET Nat, T # {}
  PROVE  \E m \in T : \A k \in T : m <= k
<1> DEFINE L == OpToRel(<, Nat)
<1>1. IsWellFoundedOn(L, Nat)
  BY NatLessThanWellFounded
<1>2. PICK m \in T : \A k \in T : ~(<<k, m>> \in L)
  <2> HIDE DEF L
  <2> QED
    BY <1>1, WFMin
<1>3. \A k \in T : ~(k < m)
  BY <1>2 DEF OpToRel
<1> QED
  BY <1>3

JoinsTo(texts, S, n, f) ==
    /\ f \in [0 .. n -> Seq(S)] /\ f[0] = <<>>
    /\ \A i \in 1 .. n : f[i] = f[i - 1] \o texts[i]

\* The texts can be put one behind the other: no number of them is the least that cannot.
LEMMA JoinExists ==
  ASSUME NEW S, NEW texts \in Seq(Seq(S))
  PROVE  \E f : JoinsTo(texts, S, Len(texts), f)
<1> DEFINE N == Len(texts)
           T == {c \in 0 .. N : ~ \E f : JoinsTo(texts, S, c, f)}
<1>1. N \in Nat /\ \A i \in 1 .. N : texts[i] \in Seq(S)
  OBVIOUS
<1> HIDE DEF N
<1>2. SUFFICES ASSUME T # {} PROVE FALSE
  BY <1>1 DEF N
<1>3. PICK c \in T : \A k \in T : c <= k
  <2>1. T \in SUBSET Nat
    BY <1>1
  <2> HIDE DEF T
  <2> QED
    BY <1>2, <2>1, Least
<1>4. c \in 0 .. N /\ ~ \E f : JoinsTo(texts, S, c, f)
  OBVIOUS
<1>5. c # 0
  <2> DEFINE f == [i \in 0 .. 0 |-> <<>>]
  <2>1. JoinsTo(texts, S, 0, f)
    BY DEF JoinsTo
  <2> QED
    BY <1>4, <2>1
<1>6. c \in Nat /\ c - 1 \in 0 .. N /\ ~(c <= c - 1) /\ c \in 1 .. N
  BY <1>1, <1>4, <1>5
<1>7. PICK f : JoinsTo(texts, S, c - 1, f)
  BY <1>3, <1>6
<1> DEFINE last == f[c - 1] \o texts[c]
           g == [i \in 0 .. c |-> IF i = c THEN last ELSE f[i]]
<1>8. /\ f \in [0 .. c - 1 -> Seq(S)] /\ f[0] = <<>>
      /\ \A i \in 1 .. c - 1 : f[i] = f[i - 1] \o texts[i]
  BY <1>7 DEF JoinsTo
<1>9. last \in Seq(S)
  <2>1. f[c - 1] \in Seq(S) /\ texts[c] \in Seq(S)
    BY <1>1, <1>6, <1>8
  <2> QED
    BY <2>1, ConcatFacts
<1> HIDE DEF last
<1>10. g \in [0 .. c -> Seq(S)] /\ g[0] = <<>>
  BY <1>6, <1>8, <1>9
<1>11. ASSUME NEW i \in 1 .. c PROVE g[i] = g[i - 1] \o texts[i]
  <2>1. i - 1 \in 0 .. c /\ i - 1 # c /\ i \in 0 .. c
    BY <1>6
  <2>2. g[i - 1] = f[i - 1]
    BY <2>1
  <2>3. CASE i = c
    BY <2>1, <2>2, <2>3 DEF last
  <2>4. CASE i # c
    <3>1. i \in 1 .. c - 1
      BY <1>6, <2>4
    <3>2. g[i] = f[i] /\ f[i] = f[i - 1] \o texts[i]
      BY <1>8, <2>1, <2>4, <3>1
    <3> QED
      BY <2>2, <3>2
  <2> QED
    BY <2>3, <2>4
<1>12. JoinsTo(texts, S, c, g)
  <2> HIDE DEF g
  <2> QED
    BY <1>10, <1>11 DEF JoinsTo
<1> QED
  BY <1>4, <1>12

LEMMA JoinedFacts ==
  ASSUME NEW S, NEW texts \in Seq(Seq(S))
  PROVE  /\ Joined(texts, 0) = <<>>
         /\ \A i \in 1 .. Len(texts) : Joined(texts, i) = Joined(texts, i - 1) \o texts[i]
         /\ \A i \in 0 .. Len(texts) : Joined(texts, i) \in Seq(S)
<1> DEFINE n == Len(texts)
           After(g, i) == g[i - 1] \o texts[i]
           Is(g) == g = [i \in 0 .. n |-> IF i = 0 THEN <<>> ELSE After(g, i)]
<1>1. n \in Nat
  OBVIOUS
<1>2. PICK g : JoinsTo(texts, S, n, g)
  BY JoinExists
<1> HIDE DEF n
<1>3. Is(g)
  <2>1. g \in [0 .. n -> Seq(S)] /\ g[0] = <<>> /\ \A i \in 1 .. n : g[i] = After(g, i)
    BY <1>2 DEF JoinsTo
  <2> HIDE DEF After
  <2> QED
    BY <1>1, <2>1
<1> DEFINE upTo == CHOOSE g_ : Is(g_)
<1>4. Is(upTo)
  BY <1>3, Zenon
<1>5. \A i : Joined(texts, i) = upTo[i]
  BY DEF Joined, n
<1>6. upTo[0] = <<>> /\ \A i \in 1 .. n : upTo[i] = After(upTo, i)
  <2> HIDE DEF upTo, After
  <2> QED
    BY <1>1, <1>4, SMTT(30)
<1> HIDE DEF upTo
<1> DEFINE T == {i \in 0 .. n : upTo[i] \notin Seq(S)}
<1>7. T = {}
  <2> SUFFICES ASSUME T # {} PROVE FALSE
    OBVIOUS
  <2>1. PICK i \in T : \A j \in T : i <= j
    <3>1. T \in SUBSET Nat
      BY <1>1
    <3> HIDE DEF T
    <3> QED
      BY <3>1, Least
  <2>2. i \in 1 .. n /\ i - 1 \in 0 .. n /\ ~(i <= i - 1)
    <3>1. i # 0
      <4>1. <<>> \in Seq(S)
        OBVIOUS
      <4>2. upTo[0] \in Seq(S)
        BY <1>6, <4>1, Zenon
      <4>3. upTo[i] \notin Seq(S)
        OBVIOUS
      <4> HIDE DEF T
      <4> QED
        BY <4>2, <4>3, Zenon
    <3>2. i \in 0 .. n
      OBVIOUS
    <3> HIDE DEF T
    <3> QED
      BY <1>1, <3>1, <3>2
  <2>3. upTo[i - 1] \in Seq(S)
    BY <2>1, <2>2
  <2>4. texts[i] \in Seq(S)
    BY <2>2 DEF n
  <2>5. upTo[i] = upTo[i - 1] \o texts[i]
    BY <1>6, <2>2
  <2>6. upTo[i] \in Seq(S)
    BY <2>3, <2>4, <2>5, ConcatFacts
  <2> QED
    BY <2>6
<1>8. \A i \in 0 .. n : upTo[i] \in Seq(S)
  BY <1>7
<1> QED
  BY <1>5, <1>6, <1>8 DEF n

\* What is joined so far does not change.
LEMMA Prefix ==
  ASSUME NEW S, NEW texts \in Seq(Seq(S)), NEW i \in 0 .. Len(texts), NEW k \in i .. Len(texts)
  PROVE  /\ Len(Joined(texts, i)) <= Len(Joined(texts, k))
         /\ \A x \in 1 .. Len(Joined(texts, i)) : Joined(texts, k)[x] = Joined(texts, i)[x]
<1> DEFINE n == Len(texts)
           Holds(j) == /\ Len(Joined(texts, i)) <= Len(Joined(texts, j))
                       /\ \A x \in 1 .. Len(Joined(texts, i)) : Joined(texts, j)[x] = Joined(texts, i)[x]
           T == {j \in i .. n : ~Holds(j)}
<1>1. n \in Nat /\ i \in Nat
  OBVIOUS
<1>2. \A j \in 1 .. n : Joined(texts, j) = Joined(texts, j - 1) \o texts[j]
  BY JoinedFacts
<1>3. \A j \in 0 .. n : Joined(texts, j) \in Seq(S)
  BY JoinedFacts
<1>4. \A j \in 1 .. n : texts[j] \in Seq(S)
  OBVIOUS
<1> HIDE DEF n
<1>5. SUFFICES ASSUME T # {} PROVE FALSE
  BY <1>5 DEF n
<1>6. PICK c \in T : \A j \in T : c <= j
  <2>1. T \in SUBSET Nat
    BY <1>1
  <2> HIDE DEF T
  <2> QED
    BY <1>5, <2>1, Least
<1>7. c \in i .. n /\ ~Holds(c)
  OBVIOUS
<1>8. c # i
  <2>1. Joined(texts, i) \in Seq(S)
    BY <1>1, <1>3, <1>7
  <2>2. Holds(i)
    BY <2>1
  <2> HIDE DEF Holds
  <2> QED
    BY <1>7, <2>2
<1>9. c - 1 \in i .. n /\ ~(c <= c - 1) /\ c \in 1 .. n /\ c - 1 \in 0 .. n /\ i \in 0 .. n
  BY <1>1, <1>7, <1>8
<1>10. Holds(c - 1)
  <2> HIDE DEF Holds
  <2> QED
    BY <1>6, <1>9
<1> DEFINE p == Joined(texts, c - 1)
           q == texts[c]
           o == Joined(texts, i)
           r == Joined(texts, c)
<1>11. p \in Seq(S) /\ q \in Seq(S) /\ r = p \o q
  BY <1>2, <1>3, <1>4, <1>9
<1>12. o \in Seq(S) /\ Len(o) <= Len(p) /\ \A x \in 1 .. Len(o) : p[x] = o[x]
  BY <1>3, <1>9, <1>10
<1> HIDE DEF p, q, o, r
<1>13. /\ Len(r) = Len(p) + Len(q)
       /\ \A x \in 1 .. Len(p) + Len(q) : r[x] = IF x <= Len(p) THEN p[x] ELSE q[x - Len(p)]
  BY <1>11, ConcatFacts
<1>14. Len(p) \in Nat /\ Len(q) \in Nat /\ Len(o) \in Nat
  BY <1>11, <1>12
<1>15. Len(o) <= Len(r) /\ \A x \in 1 .. Len(o) : r[x] = o[x]
  <2>1. Len(o) <= Len(r)
    BY <1>12, <1>13, <1>14
  <2>2. ASSUME NEW x \in 1 .. Len(o) PROVE r[x] = o[x]
    <3>1. x \in 1 .. Len(p) + Len(q) /\ x <= Len(p)
      BY <1>12, <1>14
    <3> QED
      BY <1>12, <1>13, <3>1
  <2> QED
    BY <2>1, <2>2
<1> QED
  BY <1>7, <1>15 DEF o, r

\* Where a text lies among the others.
LEMMA Piece ==
  ASSUME NEW S, NEW texts \in Seq(Seq(S)), NEW i \in 1 .. Len(texts)
  PROVE  /\ Len(Joined(texts, i - 1)) \in Nat /\ Len(texts[i]) \in Nat /\ Len(Concat(texts)) \in Nat
         /\ Len(Joined(texts, i)) = Len(Joined(texts, i - 1)) + Len(texts[i])
         /\ Len(Joined(texts, i)) <= Len(Concat(texts))
         /\ \A x \in 1 .. Len(texts[i]) :
               Concat(texts)[Len(Joined(texts, i - 1)) + x] = texts[i][x]
<1> DEFINE n == Len(texts)
           p == Joined(texts, i - 1)
           q == texts[i]
           r == Joined(texts, i)
           w == Concat(texts)
<1>1. n \in Nat /\ i - 1 \in 0 .. n /\ i \in 0 .. n /\ n \in i .. n /\ n \in 0 .. n /\ q \in Seq(S)
  OBVIOUS
<1>2. p \in Seq(S) /\ r \in Seq(S) /\ w \in Seq(S)
  BY <1>1, JoinedFacts DEF Concat
<1>3. r = p \o q
  BY JoinedFacts
<1>4. Len(r) <= Len(w) /\ \A x \in 1 .. Len(r) : w[x] = r[x]
  BY <1>1, Prefix DEF Concat
<1> HIDE DEF n, p, q, r, w
<1>5. /\ Len(r) = Len(p) + Len(q)
      /\ \A x \in 1 .. Len(p) + Len(q) : r[x] = IF x <= Len(p) THEN p[x] ELSE q[x - Len(p)]
  BY <1>1, <1>2, <1>3, ConcatFacts
<1>6. Len(p) \in Nat /\ Len(q) \in Nat /\ Len(w) \in Nat
  BY <1>1, <1>2
<1>7. ASSUME NEW x \in 1 .. Len(q) PROVE w[Len(p) + x] = q[x]
  <2>1. Len(p) + x \in 1 .. Len(p) + Len(q) /\ ~(Len(p) + x <= Len(p)) /\ (Len(p) + x) - Len(p) = x
    BY <1>6
  <2> QED
    BY <1>4, <1>5, <2>1
<1> QED
  BY <1>4, <1>5, <1>6, <1>7 DEF p, q, r, w

-----------------------------------------------------------------------------
(* Where the parts of the messages lie in the stream. *)

Sent == msgs \in Streams /\ stream = Concat(Bytes(msgs))

Part == [at : Parts, bytes : Seq(Byte), data : Seq(Byte)]

\* The j-th part of message i, where it begins, and the body up to there.
IsPlace(i, j) == i \in 1 .. Len(msgs) /\ j \in 1 .. Len(msgs[i].parts)
At(i, j) == msgs[i].parts[j]
Begin(i, j) == Start(i) + Len(Joined(Texts(msgs[i]), j - 1))
Gathered(i, j) == Joined(Contents(msgs[i]), j - 1)

LEMMA MessagesTyped ==
  ASSUME Conforming, Sent
  PROVE  /\ msgs \in Seq(Messages) /\ Len(msgs) \in Nat
         /\ \A i \in 1 .. Len(msgs) : /\ msgs[i] \in Messages /\ IsMessage(msgs[i])
                                      /\ i < Len(msgs) => msgs[i].ends = "here"
<1>1. msgs \in Streams
  BY DEF Sent
<1>2. msgs \in Seq(Messages)
  BY <1>1 DEF Conforming, Conforms
<1>3. \A i \in 1 .. Len(msgs) : IsMessage(msgs[i]) /\ (i < Len(msgs) => msgs[i].ends = "here")
  BY <1>1 DEF Conforming, Conforms
<1>4. Len(msgs) \in Nat /\ \A i \in 1 .. Len(msgs) : msgs[i] \in Messages
  BY <1>2
<1> QED
  BY <1>2, <1>3, <1>4

LEMMA PartsTyped ==
  ASSUME NEW m \in Messages
  PROVE  /\ m.parts \in Seq(Part) /\ Len(m.parts) \in Nat
         /\ \A j \in 1 .. Len(m.parts) : m.parts[j] \in Part
         /\ Texts(m) \in Seq(Seq(Byte)) /\ Len(Texts(m)) = Len(m.parts)
         /\ \A j \in 1 .. Len(m.parts) : Texts(m)[j] = m.parts[j].bytes
         /\ Contents(m) \in Seq(Seq(Byte)) /\ Len(Contents(m)) = Len(m.parts)
         /\ \A j \in 1 .. Len(m.parts) : Contents(m)[j] = m.parts[j].data
<1> DEFINE ps == m.parts
<1>1. ps \in Seq(Part)
  BY DEF Messages, Part
<1>2. Texts(m) = [j \in DOMAIN ps |-> ps[j].bytes] /\ Contents(m) = [j \in DOMAIN ps |-> ps[j].data]
  BY DEF Texts, Contents
<1> HIDE DEF ps
<1>3. Len(ps) \in Nat /\ DOMAIN ps = 1 .. Len(ps) /\ \A j \in 1 .. Len(ps) : ps[j] \in Part
  BY <1>1
<1>4. \A j \in 1 .. Len(ps) : ps[j].bytes \in Seq(Byte) /\ ps[j].data \in Seq(Byte)
  BY <1>3 DEF Part
<1> DEFINE S == Seq(Byte)
<1> HIDE DEF S
<1>5. \A j \in 1 .. Len(ps) : ps[j].bytes \in S /\ ps[j].data \in S
  BY <1>4 DEF S
<1>6. /\ Texts(m) \in Seq(S) /\ Len(Texts(m)) = Len(ps)
      /\ \A j \in 1 .. Len(ps) : Texts(m)[j] = ps[j].bytes
  <2> DEFINE f == [j \in 1 .. Len(ps) |-> ps[j].bytes]
  <2>1. f \in Seq(S) /\ Len(f) = Len(ps)
    BY <1>3, <1>5
  <2> QED
    BY <1>2, <1>3, <2>1
<1>7. /\ Contents(m) \in Seq(S) /\ Len(Contents(m)) = Len(ps)
      /\ \A j \in 1 .. Len(ps) : Contents(m)[j] = ps[j].data
  <2> DEFINE f == [j \in 1 .. Len(ps) |-> ps[j].data]
  <2>1. f \in Seq(S) /\ Len(f) = Len(ps)
    BY <1>3, <1>5
  <2> QED
    BY <1>2, <1>3, <2>1
<1> QED
  BY <1>1, <1>3, <1>6, <1>7 DEF ps, S

LEMMA BytesTyped ==
  ASSUME Conforming, Sent
  PROVE  /\ Bytes(msgs) \in Seq(Seq(Byte)) /\ Len(Bytes(msgs)) = Len(msgs)
         /\ \A i \in 1 .. Len(msgs) : Bytes(msgs)[i] = Concat(Texts(msgs[i]))
<1>1. /\ msgs \in Seq(Messages) /\ Len(msgs) \in Nat
      /\ \A i \in 1 .. Len(msgs) : msgs[i] \in Messages
  BY MessagesTyped
<1>2. ASSUME NEW i \in 1 .. Len(msgs) PROVE Concat(Texts(msgs[i])) \in Seq(Byte)
  <2>1. Texts(msgs[i]) \in Seq(Seq(Byte))
    BY <1>1, PartsTyped
  <2> DEFINE t == Texts(msgs[i])
  <2> HIDE DEF t
  <2>2. Len(t) \in 0 .. Len(t) /\ t \in Seq(Seq(Byte))
    BY <2>1 DEF t
  <2>3. Joined(t, Len(t)) \in Seq(Byte)
    BY <2>2, JoinedFacts
  <2> QED
    BY <2>3 DEF t, Concat
<1> DEFINE S == Seq(Byte)
           C(i) == Concat(Texts(msgs[i]))
<1>3. DOMAIN msgs = 1 .. Len(msgs)
  BY <1>1
<1>4. Bytes(msgs) = [i \in 1 .. Len(msgs) |-> C(i)]
  BY <1>3 DEF Bytes
<1> HIDE DEF C
<1>5. \A i \in 1 .. Len(msgs) : C(i) \in S
  BY <1>2 DEF C
<1> HIDE DEF S
<1> DEFINE n == Len(msgs)
           f == [i \in 1 .. n |-> C(i)]
<1>6. n \in Nat
  BY <1>1
<1> HIDE DEF n
<1>7. f \in Seq(S) /\ Len(f) = n /\ \A i \in 1 .. n : f[i] = C(i)
  BY <1>5, <1>6 DEF n
<1> HIDE DEF f
<1>8. Bytes(msgs) = f
  BY <1>4 DEF f, n
<1> QED
  BY <1>7, <1>8 DEF S, C, n

\* Where a message lies.
LEMMA MessageLies ==
  ASSUME Conforming, Sent, NEW i \in 1 .. Len(msgs)
  PROVE  /\ Start(i) \in Nat /\ Start(i + 1) \in Nat /\ Len(stream) \in Nat
         /\ Start(i + 1) = Start(i) + Len(Concat(Texts(msgs[i])))
         /\ Start(i + 1) <= Len(stream)
         /\ i = Len(msgs) => Start(i + 1) = Len(stream)
         /\ \A x \in 1 .. Len(Concat(Texts(msgs[i]))) :
               stream[Start(i) + x] = Concat(Texts(msgs[i]))[x]
<1> DEFINE t == Bytes(msgs)
           c == Concat(Texts(msgs[i]))
<1>1. t \in Seq(Seq(Byte)) /\ Len(t) = Len(msgs) /\ t[i] = c
  BY BytesTyped
<1>2. stream = Concat(t) /\ stream = Joined(t, Len(t))
  BY DEF Sent, Concat
<1>3. Start(i) = Len(Joined(t, i - 1)) /\ Start(i + 1) = Len(Joined(t, i))
  <2>1. (i + 1) - 1 = i
    OBVIOUS
  <2> QED
    BY <2>1 DEF Start
<1> HIDE DEF t, c
<1>4. i \in 1 .. Len(t)
  BY <1>1
<1>5. /\ Len(Joined(t, i - 1)) \in Nat /\ Len(t[i]) \in Nat /\ Len(Concat(t)) \in Nat
      /\ Len(Joined(t, i)) = Len(Joined(t, i - 1)) + Len(t[i])
      /\ Len(Joined(t, i)) <= Len(Concat(t))
      /\ \A x \in 1 .. Len(t[i]) : Concat(t)[Len(Joined(t, i - 1)) + x] = t[i][x]
  BY <1>1, <1>4, Piece
<1>6. Start(i) \in Nat /\ Len(c) \in Nat /\ Len(stream) \in Nat /\ Start(i + 1) = Start(i) + Len(c)
      /\ Start(i + 1) <= Len(stream)
  BY <1>1, <1>2, <1>3, <1>5
<1>7. \A x \in 1 .. Len(c) : stream[Start(i) + x] = c[x]
  BY <1>1, <1>2, <1>3, <1>5
<1>8. i = Len(msgs) => Start(i + 1) = Len(stream)
  BY <1>1, <1>2, <1>3
<1>9. Start(i + 1) \in Nat
  BY <1>6
<1> QED
  BY <1>6, <1>7, <1>8, <1>9 DEF c

\* Where a part lies.
LEMMA PartLies ==
  ASSUME Conforming, Sent, NEW i, NEW j, IsPlace(i, j)
  PROVE  /\ At(i, j) \in Part /\ Len(At(i, j).bytes) \in Nat
         /\ Begin(i, j) \in Nat /\ Start(i) \in Nat /\ Start(i) <= Begin(i, j)
         /\ Begin(i, j + 1) = Begin(i, j) + Len(At(i, j).bytes)
         /\ Begin(i, j + 1) <= Start(i + 1) /\ Start(i + 1) \in Nat
         /\ Start(i + 1) <= Len(stream) /\ Len(stream) \in Nat
         /\ j = Len(msgs[i].parts) => Begin(i, j + 1) = Start(i + 1)
         /\ \A x \in 1 .. Len(At(i, j).bytes) : stream[Begin(i, j) + x] = At(i, j).bytes[x]
<1> DEFINE m == msgs[i]
           t == Texts(m)
           b == At(i, j).bytes
           w == Concat(t)
           o == Len(Joined(t, j - 1))
<1>1. i \in 1 .. Len(msgs) /\ j \in 1 .. Len(m.parts) /\ m \in Messages
  BY MessagesTyped DEF IsPlace
<1>2. /\ t \in Seq(Seq(Byte)) /\ Len(t) = Len(m.parts) /\ t[j] = b /\ At(i, j) \in Part
  BY <1>1, PartsTyped DEF At
<1>3. /\ Start(i) \in Nat /\ Start(i + 1) \in Nat /\ Len(stream) \in Nat
      /\ Start(i + 1) = Start(i) + Len(w) /\ Start(i + 1) <= Len(stream)
      /\ \A x \in 1 .. Len(w) : stream[Start(i) + x] = w[x]
  BY <1>1, MessageLies
<1>4. Begin(i, j) = Start(i) + o /\ Begin(i, j + 1) = Start(i) + Len(Joined(t, j))
  <2>1. (j + 1) - 1 = j
    BY <1>1
  <2> QED
    BY <2>1 DEF Begin
<1>5. j = Len(m.parts) => w = Joined(t, j)
  BY <1>2 DEF Concat
<1> HIDE DEF m, t, b
<1>6. j \in 1 .. Len(t)
  BY <1>1, <1>2
<1> HIDE DEF w, o
<1>7. /\ o \in Nat /\ Len(t[j]) \in Nat /\ Len(w) \in Nat
      /\ Len(Joined(t, j)) = o + Len(t[j])
      /\ Len(Joined(t, j)) <= Len(w)
      /\ \A x \in 1 .. Len(t[j]) : w[o + x] = t[j][x]
  BY <1>2, <1>6, Piece DEF w, o
<1>8. o \in Nat /\ Len(b) \in Nat /\ Len(w) \in Nat /\ o + Len(b) <= Len(w)
      /\ Len(Joined(t, j)) = o + Len(b)
  BY <1>2, <1>7
<1>9. ASSUME NEW x \in 1 .. Len(b) PROVE stream[Begin(i, j) + x] = b[x]
  <2>1. w[o + x] = b[x]
    BY <1>2, <1>7
  <2>2. o + x \in 1 .. Len(w) /\ Start(i) + (o + x) = Begin(i, j) + x
    BY <1>3, <1>4, <1>8
  <2>3. stream[Start(i) + (o + x)] = w[o + x]
    BY <1>3, <2>2
  <2> QED
    BY <2>1, <2>2, <2>3
<1>10. /\ Begin(i, j) \in Nat /\ Start(i) <= Begin(i, j) /\ Begin(i, j + 1) = Begin(i, j) + Len(b)
       /\ Begin(i, j + 1) <= Start(i + 1)
  BY <1>3, <1>4, <1>8
<1>11. j = Len(m.parts) => Begin(i, j + 1) = Start(i + 1)
  BY <1>3, <1>4, <1>5
<1> QED
  BY <1>2, <1>3, <1>8, <1>9, <1>10, <1>11 DEF b, m

LEMMA FirstLies ==
  ASSUME Conforming, Sent, NEW i \in 1 .. Len(msgs)
  PROVE  Begin(i, 1) = Start(i) /\ IsPlace(i, 1) /\ Gathered(i, 1) = <<>>
<1> DEFINE m == msgs[i]
<1>1. m \in Messages /\ IsMessage(m)
  BY MessagesTyped
<1>2. Len(m.parts) \in Nat /\ Len(m.parts) > 0
  BY <1>1, PartsTyped DEF IsMessage
<1>3. Texts(m) \in Seq(Seq(Byte)) /\ Contents(m) \in Seq(Seq(Byte)) /\ 1 - 1 = 0
  BY <1>1, PartsTyped
<1>4. Joined(Texts(m), 0) = <<>> /\ Joined(Contents(m), 0) = <<>>
  <2>1. Joined(Texts(m), 0) = <<>>
    BY <1>3, JoinedFacts, Zenon
  <2>2. Joined(Contents(m), 0) = <<>>
    BY <1>3, JoinedFacts, Zenon
  <2> QED
    BY <2>1, <2>2
<1>5. Len(Joined(Texts(m), 0)) = 0
  BY <1>4
<1>6. Start(i) \in Nat
  BY MessageLies
<1>7. Begin(i, 1) = Start(i) + 0
  BY <1>3, <1>5 DEF Begin
<1>8. Gathered(i, 1) = <<>>
  BY <1>3, <1>4 DEF Gathered
<1>9. IsPlace(i, 1)
  BY <1>2 DEF IsPlace
<1> QED
  BY <1>6, <1>7, <1>8, <1>9

\* What is gathered of the body.
LEMMA BodyGrows ==
  ASSUME Conforming, Sent, NEW i, NEW j, IsPlace(i, j)
  PROVE  /\ Gathered(i, j) \in Seq(Byte) /\ At(i, j).data \in Seq(Byte)
         /\ Gathered(i, j + 1) = Gathered(i, j) \o At(i, j).data
         /\ Gathered(i, j + 1) \in Seq(Byte)
         /\ j = Len(msgs[i].parts) => Gathered(i, j + 1) = Concat(Contents(msgs[i]))
<1> DEFINE m == msgs[i]
           t == Contents(m)
<1>1. i \in 1 .. Len(msgs) /\ j \in 1 .. Len(m.parts) /\ m \in Messages
  BY MessagesTyped DEF IsPlace
<1>2. /\ t \in Seq(Seq(Byte)) /\ Len(t) = Len(m.parts) /\ t[j] = At(i, j).data /\ At(i, j) \in Part
      /\ Len(t) \in Nat
  BY <1>1, PartsTyped DEF At
<1>3. At(i, j).data \in Seq(Byte)
  BY <1>2 DEF Part
<1>4. (j + 1) - 1 = j
  BY <1>1
<1>5. Gathered(i, j) = Joined(t, j - 1) /\ Gathered(i, j + 1) = Joined(t, j)
  BY <1>4 DEF Gathered
<1>6. j = Len(m.parts) => Joined(t, j) = Concat(t)
  BY <1>2 DEF Concat
<1> HIDE DEF m, t
<1>7. j \in 1 .. Len(t) /\ j \in 0 .. Len(t) /\ j - 1 \in 0 .. Len(t)
  BY <1>1, <1>2
<1>8. Joined(t, j) = Joined(t, j - 1) \o t[j]
  BY <1>2, <1>7, JoinedFacts
<1>9. Joined(t, j) \in Seq(Byte)
  BY <1>2, <1>7, JoinedFacts
<1>10. Joined(t, j - 1) \in Seq(Byte)
  BY <1>2, <1>7, JoinedFacts
<1> QED
  BY <1>2, <1>3, <1>5, <1>6, <1>8, <1>9, <1>10 DEF m, t

-----------------------------------------------------------------------------
(* What the reader of the stream finds at a part. *)

\* The text is what comes next in the stream.
Upcoming(text) ==
    /\ text \in Seq(Byte) /\ stream \in Seq(Byte) /\ fed - Left \in Nat
    /\ (fed - Left) + Len(text) <= Len(stream)
    /\ \A x \in 1 .. Len(text) : stream[(fed - Left) + x] = text[x]

LEMMA NextBytes ==
  ASSUME NEW text, Upcoming(text), NEW n \in 0 .. Len(text)
  PROVE  Reader!There(n) /\ Reader!Bytes(n) = SubSeq(text, 1, n)
<1> DEFINE p == fed - Left
           next == SubSeq(stream, p + 1, p + n)
           front == SubSeq(text, 1, n)
<1>1. /\ text \in Seq(Byte) /\ stream \in Seq(Byte) /\ p \in Nat /\ p + Len(text) <= Len(stream)
      /\ \A x \in 1 .. Len(text) : stream[p + x] = text[x]
  BY DEF Upcoming
<1>2. Reader!Bytes(n) = next
  BY DEF Reader!Bytes
<1>3. Reader!There(n) <=> p + n <= Len(stream)
  BY DEF Reader!There
<1> HIDE DEF p
<1>4. n \in Nat /\ p + n <= Len(stream) /\ 0 + n <= Len(text) /\ 0 \in Nat
  BY <1>1
<1>5. next \in Seq(Byte) /\ Len(next) = n /\ \A x \in 1 .. n : next[x] = stream[p + x]
  BY <1>1, <1>4, SubSeqFacts, SMTT(30)
<1>6. front \in Seq(Byte) /\ Len(front) = n /\ \A x \in 1 .. n : front[x] = text[x]
  BY <1>1, <1>4
<1> HIDE DEF next, front
<1>7. \A x \in 1 .. n : next[x] = front[x]
  BY <1>1, <1>4, <1>5, <1>6
<1>8. next = front
  BY <1>5, <1>6, <1>7, SameSeq
<1> QED
  BY <1>2, <1>3, <1>4, <1>8 DEF front

\* The line that comes next is found, and no other.
LEMMA NextLine ==
  ASSUME NEW text, Upcoming(text), IsLine(text)
  PROVE  /\ Reader!HasLine /\ Reader!LineLength = Len(text) - 2 /\ Len(text) - 2 \in Nat
         /\ Reader!Bytes(Reader!LineLength) = LineOf(text)
<1> DEFINE p == fed - Left
           n == Len(text) - 2
<1>1. /\ text \in Seq(Byte) /\ p \in Nat /\ p + Len(text) <= Len(stream)
      /\ \A x \in 1 .. Len(text) : stream[p + x] = text[x]
      /\ Len(text) \in Nat /\ Len(stream) \in Nat
  BY DEF Upcoming
<1>2. Len(text) >= 2 /\ text[Len(text) - 1] = "cr" /\ \A x \in 1 .. Len(text) - 2 : text[x] # "cr"
  BY DEF IsLine
<1>3. /\ n \in Nat /\ n + 1 = Len(text) - 1 /\ n + 1 \in 1 .. Len(text) /\ n + 2 = Len(text)
      /\ n \in 0 .. Len(text) /\ n \in 0 .. Len(stream)
  BY <1>1, <1>2
<1>4. \A m \in Nat : Reader!LineOf(m) <=>
        /\ p + (m + 2) <= Len(stream) /\ stream[p + m + 1] = "cr"
        /\ \A x \in 1 .. m : stream[p + x] # "cr"
  BY DEF Reader!LineOf, Reader!There
<1>5. Reader!Bytes(n) = LineOf(text)
  BY <1>3, NextBytes DEF LineOf
<1> HIDE DEF p
<1>6. stream[p + n + 1] = "cr"
  <2>1. p + n + 1 = p + (n + 1) /\ stream[p + (n + 1)] = text[n + 1]
    BY <1>1, <1>3
  <2> QED
    BY <1>2, <1>3, <2>1
<1>7. \A x \in 1 .. n : stream[p + x] # "cr"
  <2>1. \A x \in 1 .. n : x \in 1 .. Len(text) /\ x \in 1 .. Len(text) - 2
    BY <1>3
  <2> QED
    BY <1>1, <1>2, <2>1
<1>8. p + (n + 2) <= Len(stream)
  BY <1>1, <1>3
<1> HIDE DEF n
<1>9. Reader!LineOf(n)
  BY <1>3, <1>4, <1>6, <1>7, <1>8
<1>10. ASSUME NEW m \in 0 .. Len(stream), Reader!LineOf(m) PROVE m = n
  <2>1. m \in Nat /\ stream[p + m + 1] = "cr" /\ \A x \in 1 .. m : stream[p + x] # "cr"
    BY <1>4, <1>10
  <2>2. ~(m < n)
    <3>1. m < n => m + 1 \in 1 .. n /\ p + (m + 1) = p + m + 1
      BY <1>1, <1>3, <2>1
    <3> QED
      BY <1>7, <2>1, <3>1
  <2>3. ~(n < m)
    <3>1. n < m => n + 1 \in 1 .. m /\ p + (n + 1) = p + n + 1
      BY <1>1, <1>3, <2>1
    <3> QED
      BY <1>6, <2>1, <3>1
  <2> QED
    BY <1>3, <2>1, <2>2, <2>3
<1>11. Reader!HasLine
  BY <1>3, <1>9 DEF Reader!HasLine
<1>12. Reader!LineLength \in 0 .. Len(stream) /\ Reader!LineOf(Reader!LineLength)
  BY <1>11, Zenon DEF Reader!HasLine, Reader!LineLength
<1>13. Reader!LineLength = n
  BY <1>10, <1>12
<1> QED
  BY <1>3, <1>5, <1>11, <1>13 DEF n

\* A part's bytes are what comes next where it begins.
LEMMA PartComes ==
  ASSUME Conforming, Sent, stream \in Seq(Byte), NEW i, NEW j, IsPlace(i, j), fed - Left = Begin(i, j)
  PROVE  Upcoming(At(i, j).bytes)
<1>1. /\ At(i, j) \in Part /\ Begin(i, j) \in Nat /\ Len(At(i, j).bytes) \in Nat
      /\ Begin(i, j + 1) = Begin(i, j) + Len(At(i, j).bytes) /\ Begin(i, j + 1) <= Start(i + 1)
      /\ Start(i + 1) <= Len(stream) /\ Start(i + 1) \in Nat /\ Len(stream) \in Nat
      /\ \A x \in 1 .. Len(At(i, j).bytes) : stream[Begin(i, j) + x] = At(i, j).bytes[x]
  BY PartLies
<1>2. At(i, j).bytes \in Seq(Byte)
  BY <1>1 DEF Part
<1>3. Begin(i, j) + Len(At(i, j).bytes) <= Len(stream)
  BY <1>1
<1> QED
  BY <1>1, <1>2, <1>3 DEF Upcoming

\* The state of the reader at the beginning of a part.
Kind(p) == [at |-> p.at, remaining |-> IF p.at \in {"body", "data"} THEN Len(p.data) ELSE 0]

LEMMA HeadersRead ==
  ASSUME NEW p \in Part, IsPart(p), Upcoming(p.bytes), state = Kind(p), p.at = "headers",
         body \in Seq(Byte)
  PROVE  /\ Len(p.bytes) = 2 /\ p.bytes[2] \in DOMAIN Block /\ ~Reader!Broken
         /\ Completes(p) => Reader!After = Reader!Behind(2, p.bytes[2], Block[p.bytes[2]].keep, body)
         /\ \A q \in Part : Leads(p, q) =>
              Reader!After = Reader!Inside(2, Kind(q), p.bytes[2],
                                           Block[p.bytes[2]].keep /\ q.at # "until", body)
<1>1. PICK h \in DOMAIN Block : p.bytes = <<"begin", h>>
  BY DEF IsPart
<1>2. Len(p.bytes) = 2 /\ p.bytes[1] = "begin" /\ p.bytes[2] = h
  BY <1>1
<1> DEFINE what == Block[h]
<1>3. what \in [bodiless : BOOLEAN, length : Nat \union {NoLength}, chunked : BOOLEAN, keep : BOOLEAN]
  BY FramerOK
<1>4. stream[(fed - Left) + 2] = h
  BY <1>2 DEF Upcoming
<1>5. Reader!Bytes(1) = <<"begin">> /\ Reader!There(1) /\ Reader!There(2)
  <2>1. 1 \in 0 .. Len(p.bytes) /\ 2 \in 0 .. Len(p.bytes)
    BY <1>2
  <2>2. SubSeq(p.bytes, 1, 1) = <<"begin">>
    <3> DEFINE front == SubSeq(p.bytes, 1, 1)
               word == <<"begin">>
    <3>1. p.bytes \in Seq(Byte)
      BY DEF Part
    <3>2. front \in Seq(Byte) /\ Len(front) = 1 /\ front[1] = "begin"
      BY <1>2, <3>1
    <3>3. "begin" \in Byte
      BY <1>2, <3>1
    <3>4. word \in Seq(Byte) /\ Len(word) = 1 /\ word[1] = "begin"
      BY <3>3
    <3> HIDE DEF front, word
    <3>5. front = word
      BY <3>2, <3>4, SameSeq
    <3> QED
      BY <3>5 DEF front, word
  <2>3. Reader!There(1) /\ Reader!Bytes(1) = SubSeq(p.bytes, 1, 1)
    BY <2>1, NextBytes
  <2>4. Reader!There(2)
    BY <2>1, NextBytes
  <2> QED
    BY <2>2, <2>3, <2>4
<1>6. state.at = "headers"
  BY DEF Kind
<1>7. ~Reader!Broken
  BY <1>4, <1>5, <1>6 DEF Reader!Broken
<1>8. Reader!After = Reader!AfterBlock
  BY <1>6 DEF Reader!After
<1>9. Reader!AfterBlock =
        LET part == IF what.length >= 0 THEN [at |-> "body", remaining |-> what.length]
                    ELSE [at |-> IF what.chunked THEN "size" ELSE "until", remaining |-> 0]
        IN  IF what.bodiless THEN Reader!Behind(2, h, what.keep, body)
            ELSE Reader!Inside(2, part, h, what.keep /\ part.at # "until", body)
  BY <1>4 DEF Reader!AfterBlock, Reader!Part
<1>10. Completes(p) => what.bodiless
  BY <1>2 DEF Completes
<1>11. ASSUME NEW q \in Part, Leads(p, q)
       PROVE  /\ ~what.bodiless
              /\ Kind(q) = IF what.length >= 0 THEN [at |-> "body", remaining |-> what.length]
                           ELSE [at |-> IF what.chunked THEN "size" ELSE "until", remaining |-> 0]
  <2>1. /\ ~what.bodiless
        /\ IF what.length # NoLength THEN q.at = "body" /\ Len(q.data) = what.length
           ELSE q.at = IF what.chunked THEN "size" ELSE "until"
    BY <1>2, <1>11 DEF Leads
  <2> HIDE DEF what
  <2>2. what.length >= 0 <=> what.length # NoLength
    BY <1>3 DEF NoLength
  <2>3. CASE what.length # NoLength
    BY <2>1, <2>2, <2>3 DEF Kind
  <2>4. CASE what.length = NoLength
    <3>1. q.at = IF what.chunked THEN "size" ELSE "until"
      BY <2>1, <2>4
    <3>2. q.at \notin {"body", "data"}
      BY <3>1
    <3> QED
      BY <2>1, <2>2, <2>4, <3>1, <3>2 DEF Kind
  <2> QED
    BY <2>1, <2>3, <2>4
<1> HIDE DEF what
<1>12. Completes(p) => Reader!After = Reader!Behind(2, h, what.keep, body)
  BY <1>8, <1>9, <1>10
<1>13. ASSUME NEW q \in Part, Leads(p, q)
       PROVE  Reader!After = Reader!Inside(2, Kind(q), h, what.keep /\ q.at # "until", body)
  <2>1. Kind(q).at = q.at
    BY DEF Kind
  <2> DEFINE part == IF what.length >= 0 THEN [at |-> "body", remaining |-> what.length]
                     ELSE [at |-> IF what.chunked THEN "size" ELSE "until", remaining |-> 0]
  <2>2. Reader!After = Reader!Inside(2, part, h, what.keep /\ part.at # "until", body)
    BY <1>8, <1>9, <1>11, <1>13
  <2>3. part = Kind(q)
    BY <1>11, <1>13
  <2> HIDE DEF part
  <2> QED
    BY <2>1, <2>2, <2>3
<1> QED
  BY <1>2, <1>7, <1>12, <1>13 DEF what

\* The body with a part's share of it.
Grown(p) == IF capture THEN body \o p.data ELSE body

\* What the reader does at a whole part p, behind the headers.
Reads(p) ==
    /\ Completes(p) => Reader!After = Reader!Behind(Len(p.bytes), head, keep, Grown(p))
    /\ \A q \in Part : Leads(p, q) =>
         Reader!After = Reader!Inside(Len(p.bytes), Kind(q), head, keep, Grown(p))
    /\ ~Reader!Broken

LEMMA NoData == ASSUME NEW p, p.data = <<>>, body \in Seq(Byte) PROVE Grown(p) = body
<1>1. body \o <<>> = body
  OBVIOUS
<1> QED
  BY <1>1 DEF Grown

\* The data of a part is the front of its bytes.
LEMMA DataTaken ==
  ASSUME NEW p \in Part, Upcoming(p.bytes), NEW n \in 0 .. Len(p.bytes), p.data = SubSeq(p.bytes, 1, n)
  PROVE  Reader!With(n) = Grown(p) /\ Reader!There(n)
<1>1. Reader!There(n) /\ Reader!Bytes(n) = p.data
  BY NextBytes
<1> QED
  BY <1>1 DEF Reader!With, Grown

LEMMA BodyRead ==
  ASSUME NEW p \in Part, IsPart(p), Upcoming(p.bytes), state = Kind(p), p.at = "body"
  PROVE  Reads(p)
<1> DEFINE n == Len(p.bytes)
<1>1. p.data = p.bytes /\ p.bytes \in Seq(Byte)
  BY DEF IsPart, Part
<1>2. n \in 0 .. Len(p.bytes) /\ p.data = SubSeq(p.bytes, 1, n)
  BY <1>1
<1>3. Reader!With(n) = Grown(p)
  BY <1>2, DataTaken
<1>4. state.at = "body" /\ state.remaining = n
  BY <1>1 DEF Kind
<1>5. Reader!After = Reader!Behind(n, head, keep, Grown(p))
  BY <1>3, <1>4 DEF Reader!After
<1>6. ~Reader!Broken
  BY <1>4 DEF Reader!Broken
<1>7. \A q : ~Leads(p, q)
  BY DEF Leads
<1> QED
  BY <1>5, <1>6, <1>7 DEF Reads

LEMMA DataRead ==
  ASSUME NEW p \in Part, IsPart(p), Upcoming(p.bytes), state = Kind(p), p.at = "data"
  PROVE  Reads(p)
<1> DEFINE n == Len(p.data)
<1>1. /\ Len(p.bytes) = n + 2 /\ p.data = LineOf(p.bytes) /\ p.bytes \in Seq(Byte)
      /\ p.data \in Seq(Byte) /\ Len(p.bytes) <= UsizeMax
  BY DEF IsPart, Part
<1>2. n \in 0 .. Len(p.bytes) /\ n = Len(p.bytes) - 2
  BY <1>1
<1>3. p.data = SubSeq(p.bytes, 1, n)
  BY <1>1, <1>2 DEF LineOf
<1>4. Reader!With(n) = Grown(p)
  BY <1>2, <1>3, DataTaken
<1>5. state.at = "data" /\ state.remaining = n
  BY DEF Kind
<1>6. Reader!After = Reader!Inside(n + 2, [at |-> "size", remaining |-> 0], head, keep, Grown(p))
  <2>1. n \in Nat /\ n + 2 <= UsizeMax
    BY <1>1, <1>2
  <2>2. Reader!DataUnits = n + 2
    BY <1>5, <2>1, UnitsFacts DEF Reader!DataUnits, DataUnits
  <2> QED
    BY <1>4, <1>5, <2>2 DEF Reader!After, Reader!GoesOn, Reader!Part
<1>7. ~Reader!Broken
  BY <1>5 DEF Reader!Broken
<1>8. \A q \in Part : Leads(p, q) => Kind(q) = [at |-> "size", remaining |-> 0]
  BY DEF Leads, Kind
<1>9. ~Completes(p)
  BY DEF Completes
<1> QED
  BY <1>1, <1>6, <1>7, <1>8, <1>9 DEF Reads

LEMMA SizeRead ==
  ASSUME NEW p \in Part, IsPart(p), Upcoming(p.bytes), state = Kind(p), p.at = "size",
         body \in Seq(Byte)
  PROVE  Reads(p)
<1> DEFINE n == Len(p.bytes)
           size == Hex[LineOf(p.bytes)]
           part == IF size = 0 THEN [at |-> "trailers", remaining |-> 0]
                   ELSE [at |-> "data", remaining |-> size]
<1>1. IsLine(p.bytes) /\ LineOf(p.bytes) \in DOMAIN Hex /\ p.data = <<>> /\ p.bytes \in Seq(Byte)
  BY DEF IsPart, Part
<1>2. /\ Reader!HasLine /\ Reader!LineLength = n - 2 /\ n - 2 \in Nat
      /\ Reader!Bytes(Reader!LineLength) = LineOf(p.bytes)
  BY <1>1, NextLine
<1>3. Reader!LineLength + 2 = n
  BY <1>1, <1>2
<1>4. state.at = "size"
  BY DEF Kind
<1>5. Reader!After = Reader!Inside(n, part, head, keep, body)
  BY <1>2, <1>3, <1>4 DEF Reader!After, Reader!AfterSize, Reader!GoesOn, Reader!Part
<1>6. ~Reader!Broken
  BY <1>1, <1>2, <1>4 DEF Reader!Broken
<1>7. ~Completes(p)
  BY DEF Completes
<1>8. ASSUME NEW q \in Part, Leads(p, q) PROVE Kind(q) = part
  BY <1>8 DEF Leads, Kind
<1>9. Grown(p) = body
  BY <1>1, NoData
<1> HIDE DEF part
<1> QED
  BY <1>5, <1>6, <1>7, <1>8, <1>9 DEF Reads

LEMMA TrailersRead ==
  ASSUME NEW p \in Part, IsPart(p), Upcoming(p.bytes), state = Kind(p), p.at = "trailers",
         body \in Seq(Byte)
  PROVE  Reads(p)
<1> DEFINE n == Len(p.bytes)
<1>1. IsLine(p.bytes) /\ p.data = <<>> /\ p.bytes \in Seq(Byte)
  BY DEF IsPart, Part
<1>2. Reader!LineLength = n - 2 /\ n - 2 \in Nat
  BY <1>1, NextLine
<1>3. Reader!LineLength + 2 = n /\ n \in Nat /\ (n = 2 <=> Reader!LineLength = 0)
  BY <1>1, <1>2
<1>4. state = [at |-> "trailers", remaining |-> 0] /\ state.at = "trailers"
  BY DEF Kind
<1>5. Reader!After = IF Reader!LineLength = 0 THEN Reader!Behind(2, head, keep, body)
                     ELSE Reader!Inside(Reader!LineLength + 2, state, head, keep, body)
  BY <1>4 DEF Reader!After, Reader!GoesOn
<1>6. ~Reader!Broken
  BY <1>4 DEF Reader!Broken
<1>7. Completes(p) => n = 2
  BY DEF Completes
<1>8. ASSUME NEW q \in Part, Leads(p, q) PROVE Kind(q) = state /\ n > 2
  BY <1>4, <1>8 DEF Leads, Kind
<1>9. Grown(p) = body
  BY <1>1, NoData
<1>10. Completes(p) => Reader!After = Reader!Behind(n, head, keep, body)
  BY <1>3, <1>5, <1>7
<1>11. ASSUME NEW q \in Part, Leads(p, q) PROVE Reader!After = Reader!Inside(n, Kind(q), head, keep, body)
  <2>1. Reader!LineLength # 0
    BY <1>3, <1>8, <1>11
  <2> QED
    BY <1>3, <1>5, <1>8, <1>11, <2>1
<1> QED
  BY <1>6, <1>9, <1>10, <1>11 DEF Reads

LEMMA PartRead ==
  ASSUME NEW p \in Part, IsPart(p), Upcoming(p.bytes), state = Kind(p), p.at # "headers",
         body \in Seq(Byte)
  PROVE  Reads(p)
<1>1. CASE p.at \in {"until", "broken"}
  <2>1. ~Completes(p) /\ \A q : ~Leads(p, q)
    BY <1>1 DEF Completes, Leads
  <2>2. state.at = p.at
    BY DEF Kind
  <2>3. ~Reader!Broken
    BY <1>1, <2>2 DEF Reader!Broken
  <2> QED
    BY <2>1, <2>3 DEF Reads
<1>2. p.at \in Parts
  BY DEF Part
<1> QED
  BY <1>1, <1>2, BodyRead, DataRead, SizeRead, TrailersRead DEF Parts

\* The reader does not get over a broken part, ...
LEMMA BrokenStays ==
  ASSUME NEW p \in Part, IsBroken(p), Upcoming(p.bytes), state = Kind(p)
  PROVE  ~Reader!Readable
<1>1. p.bytes \in Seq(Byte) /\ state.at = p.at /\ Len(p.bytes) \in Nat
  BY DEF Part, Kind
<1>2. CASE /\ p.at = "headers" /\ Len(p.bytes) > 0
           /\ ~(p.bytes[1] = "begin" /\ (Len(p.bytes) > 1 => p.bytes[2] \in DOMAIN Block))
  <2> SUFFICES ASSUME Reader!HasBlock PROVE FALSE
    BY <1>1, <1>2 DEF Reader!Readable
  <2>1. Reader!Bytes(1) = <<"begin">> /\ stream[(fed - Left) + 2] \in DOMAIN Block
    BY DEF Reader!HasBlock
  <2>2. Reader!Bytes(1) = SubSeq(p.bytes, 1, 1)
    <3>1. 1 \in 0 .. Len(p.bytes)
      BY <1>1, <1>2
    <3> QED
      BY <3>1, NextBytes
  <2>3. p.bytes[1] = "begin"
    <3>1. SubSeq(p.bytes, 1, 1)[1] = p.bytes[1]
      BY <1>1, <1>2
    <3> QED
      BY <2>1, <2>2, <3>1
  <2>4. Len(p.bytes) > 1 => p.bytes[2] \in DOMAIN Block
    <3>1. Len(p.bytes) > 1 => 2 \in 1 .. Len(p.bytes)
      BY <1>1
    <3> QED
      BY <2>1, <3>1 DEF Upcoming
  <2> QED
    BY <1>2, <2>3, <2>4
<1>3. CASE /\ p.at = "size"
           /\ \E n \in 0 .. Len(p.bytes) - 2 :
                IsLine(SubSeq(p.bytes, 1, n + 2)) /\ SubSeq(p.bytes, 1, n) \notin DOMAIN Hex
  <2>1. PICK n \in 0 .. Len(p.bytes) - 2 :
          IsLine(SubSeq(p.bytes, 1, n + 2)) /\ SubSeq(p.bytes, 1, n) \notin DOMAIN Hex
    BY <1>3
  <2> DEFINE line == SubSeq(p.bytes, 1, n + 2)
  <2>2. line \in Seq(Byte) /\ Len(line) = n + 2 /\ \A x \in 1 .. n + 2 : line[x] = p.bytes[x]
    BY <1>1
  <2>3. n \in Nat /\ n + 2 <= Len(p.bytes) /\ n \in 0 .. Len(p.bytes)
    BY <1>1
  <2> HIDE DEF line
  <2>4. Upcoming(line)
    <3> DEFINE o == fed - Left
    <3>1. /\ stream \in Seq(Byte) /\ o \in Nat /\ o + Len(p.bytes) <= Len(stream)
          /\ \A x \in 1 .. Len(p.bytes) : stream[o + x] = p.bytes[x]
      BY DEF Upcoming
    <3> HIDE DEF o
    <3>2. Len(stream) \in Nat /\ o + Len(line) <= Len(stream)
      BY <1>1, <2>2, <2>3, <3>1
    <3>3. ASSUME NEW x \in 1 .. Len(line) PROVE stream[o + x] = line[x]
      <4>1. x \in 1 .. n + 2 /\ x \in 1 .. Len(p.bytes)
        BY <1>1, <2>2, <2>3
      <4> QED
        BY <2>2, <3>1, <4>1
    <3> QED
      BY <2>2, <3>1, <3>2, <3>3 DEF Upcoming, o
  <2>5. Reader!LineLength = n
    <3>1. Reader!LineLength = Len(line) - 2
      BY <2>1, <2>4, NextLine DEF line
    <3> QED
      BY <2>2, <2>3, <3>1
  <2>6. Reader!Bytes(n) = SubSeq(p.bytes, 1, n)
    BY <2>3, NextBytes
  <2>7. ~(Reader!Bytes(Reader!LineLength) \in DOMAIN Hex)
    BY <2>1, <2>5, <2>6
  <2> QED
    BY <1>1, <1>3, <2>7 DEF Reader!Readable
<1> QED
  BY <1>2, <1>3 DEF IsBroken

-----------------------------------------------------------------------------
(* The reader goes from part to part. *)

\* What the grammar says of the j-th part of message i.
Fits(i, j) ==
    LET m == msgs[i]
        p == At(i, j)
    IN  /\ p \in Part
        /\ j = 1 <=> p.at = "headers"
        /\ p.at = "until" => j = 2 /\ j = Len(m.parts) /\ m.ends = "close"
        /\ j < Len(m.parts) => IsPart(p) /\ Leads(p, At(i, j + 1)) /\ IsPlace(i, j + 1)
        /\ m.ends = "here" => IsPart(p) /\ (j = Len(m.parts) => Completes(p))
        /\ m.ends = "close" => IsPart(p) /\ (j = Len(m.parts) => p.at = "until")
        /\ m.ends = "never" /\ j = Len(m.parts) => IsBroken(p)
        /\ m.ends \in {"here", "close", "never"}
        /\ m.ends # "here" => i = Len(msgs)
        /\ m.ends # "never" => m.head = At(i, 1).bytes[2]
        /\ m.ends = "here" => m.keep = Block[m.head].keep /\ m.body = Concat(Contents(m))
        /\ m.ends = "close" => m.keep = FALSE

LEMMA PlaceFits == ASSUME Conforming, Sent, NEW i, NEW j, IsPlace(i, j) PROVE Fits(i, j)
<1> DEFINE m == msgs[i]
           n == Len(m.parts)
<1>1. /\ i \in 1 .. Len(msgs) /\ j \in 1 .. n /\ m \in Messages /\ IsMessage(m) /\ Len(msgs) \in Nat
      /\ i < Len(msgs) => m.ends = "here"
  BY MessagesTyped DEF IsPlace
<1>2. n \in Nat /\ \A k \in 1 .. n : m.parts[k] \in Part
  BY <1>1, PartsTyped
<1>3. m.ends \in {"here", "close", "never"}
  BY <1>1 DEF Messages
<1>4. /\ m.parts[1].at = "headers"
      /\ \A k \in 1 .. n - 1 : IsPart(m.parts[k]) /\ Leads(m.parts[k], m.parts[k + 1])
      /\ m.ends = "never" => IsBroken(m.parts[n])
      /\ m.ends # "never" => IsPart(m.parts[n]) /\ m.head = m.parts[1].bytes[2]
      /\ m.ends = "here" => /\ Completes(m.parts[n]) /\ m.keep = Block[m.head].keep
                           /\ m.body = Concat(Contents(m))
      /\ m.ends = "close" => m.parts[n].at = "until" /\ m.keep = FALSE
  BY <1>1 DEF IsMessage
<1>5. \A k \in 1 .. n : At(i, k) = m.parts[k] /\ IsPlace(i, k)
  BY <1>1 DEF At, IsPlace
<1> HIDE DEF m, n
<1>6. \A p, q : Leads(p, q) => q.at # "headers"
  BY DEF Leads
<1>7. ASSUME NEW k \in 1 .. n, k # 1 PROVE At(i, k).at # "headers" /\ k - 1 \in 1 .. n - 1
  <2>1. k - 1 \in 1 .. n - 1 /\ (k - 1) + 1 = k
    BY <1>2, <1>7
  <2>2. Leads(m.parts[k - 1], m.parts[k])
    BY <1>4, <2>1
  <2> QED
    BY <1>5, <1>6, <2>1, <2>2
<1>8. j = 1 <=> At(i, j).at = "headers"
  <2>1. 1 \in 1 .. n
    BY <1>1, <1>2
  <2>2. At(i, 1).at = "headers"
    BY <1>4, <1>5, <2>1
  <2> QED
    BY <1>1, <1>7, <2>2
<1>9. ASSUME At(i, j).at = "until" PROVE j = 2 /\ j = n /\ m.ends = "close"
  <2>1. \A q : ~Leads(m.parts[j], q)
    BY <1>1, <1>5, <1>9 DEF Leads
  <2>2. j = n
    <3>1. j # n => j \in 1 .. n - 1
      BY <1>1, <1>2
    <3> QED
      BY <1>4, <2>1, <3>1
  <2>3. m.ends # "here" /\ m.ends # "never"
    <3>1. ~Completes(m.parts[j]) /\ ~IsBroken(m.parts[j])
      BY <1>1, <1>5, <1>9 DEF Completes, IsBroken
    <3> QED
      BY <1>4, <2>2, <3>1
  <2>4. j # 1
    BY <1>8, <1>9
  <2>5. j - 1 \in 1 .. n /\ Leads(m.parts[j - 1], m.parts[j])
    <3>1. j - 1 \in 1 .. n /\ j - 1 \in 1 .. n - 1 /\ (j - 1) + 1 = j
      BY <1>1, <1>2, <2>4
    <3> QED
      BY <1>4, <3>1
  <2>6. At(i, j - 1).at = "headers"
    <3>1. m.parts[j].at = "until"
      BY <1>1, <1>5, <1>9
    <3>2. m.parts[j - 1].at = "headers"
      BY <2>5, <3>1 DEF Leads
    <3> QED
      BY <1>5, <2>5, <3>2
  <2>7. j - 1 = 1
    BY <1>7, <2>5, <2>6
  <2> QED
    BY <1>1, <1>3, <2>2, <2>3, <2>7
<1>10. j < n => IsPart(At(i, j)) /\ Leads(At(i, j), At(i, j + 1)) /\ IsPlace(i, j + 1)
  <2>1. j < n => j \in 1 .. n - 1 /\ j + 1 \in 1 .. n
    BY <1>1, <1>2
  <2> QED
    BY <1>1, <1>4, <1>5, <2>1
<1>11. j = n \/ j < n
  BY <1>1, <1>2
<1>12. m.ends # "never" => IsPart(At(i, j))
  BY <1>1, <1>4, <1>5, <1>10, <1>11
<1>13. m.ends # "here" => i = Len(msgs)
  BY <1>1
<1>14. At(i, j) \in Part /\ At(i, j) = m.parts[j] /\ At(i, 1) = m.parts[1]
  <2>1. 1 \in 1 .. n
    BY <1>1, <1>2
  <2> QED
    BY <1>1, <1>2, <1>5, <2>1
<1> DEFINE p == At(i, j)
<1>15. j = n => /\ m.ends = "never" => IsBroken(p)
                /\ m.ends = "here" => Completes(p)
                /\ m.ends = "close" => p.at = "until"
  BY <1>4, <1>14
<1>16. /\ m.ends # "never" => m.head = At(i, 1).bytes[2]
       /\ m.ends = "here" => m.keep = Block[m.head].keep /\ m.body = Concat(Contents(m))
       /\ m.ends = "close" => m.keep = FALSE
  BY <1>4, <1>14
<1> HIDE DEF p
<1>17. p \in Part /\ (j = 1 <=> p.at = "headers") /\ (p.at = "until" => j = 2 /\ j = n /\ m.ends = "close")
  BY <1>8, <1>9, <1>14 DEF p
<1>18. j < n => IsPart(p) /\ Leads(p, At(i, j + 1)) /\ IsPlace(i, j + 1)
  BY <1>10 DEF p
<1>19. m.ends # "never" => IsPart(p)
  BY <1>12 DEF p
<1> QED
  BY <1>3, <1>13, <1>15, <1>16, <1>17, <1>18, <1>19 DEF Fits, m, n, p

\* The responses to the first n messages.
Answer(i) ==
    [head |-> msgs[i].head, keep |-> msgs[i].keep, body |-> IF capture THEN msgs[i].body ELSE <<>>]
Answers(n) == [i \in 1 .. n |-> Answer(i)]

\* The framer is at the j-th part of message i, ...
Stands(i, j) == IsPlace(i, j) /\ fed - Left = Begin(i, j) /\ state = Kind(At(i, j))

\* ... and has kept what came before it; or it is behind the last message.
Placed(i, j) ==
    /\ Stands(i, j)
    /\ body = IF capture THEN Gathered(i, j) ELSE <<>>
    /\ responses \o completed = Answers(i - 1)
    /\ j > 1 /\ msgs[i].ends # "never" => head = msgs[i].head /\ keep = msgs[i].keep

Over ==
    /\ fed - Left = Len(stream)
    /\ state = Within("headers") /\ body = <<>>
    /\ responses \o completed = Answers(Len(msgs))
    /\ \A i \in 1 .. Len(msgs) : msgs[i].ends = "here"

Progress == Over \/ \E i, j : Placed(i, j)

\* Nothing of this moves while the messages stay the same.
LEMMA Unmoved ==
  ASSUME UNCHANGED <<msgs, stream, capture>>, NEW i, NEW j
  PROVE  /\ (IsPlace(i, j))' = IsPlace(i, j) /\ (At(i, j))' = At(i, j) /\ (Begin(i, j))' = Begin(i, j)
         /\ (Gathered(i, j))' = Gathered(i, j) /\ (Start(i))' = Start(i)
         /\ (Answers(i))' = Answers(i) /\ Sent' = Sent
<1>1. (Texts(msgs[i]))' = Texts(msgs[i]) /\ (Contents(msgs[i]))' = Contents(msgs[i]) /\ (Bytes(msgs))' = Bytes(msgs)
  OBVIOUS
<1>2. (Start(i))' = Start(i)
  BY <1>1 DEF Start
<1>3. (Answers(i))' = Answers(i)
  BY DEF Answers, Answer
<1> QED
  BY <1>1, <1>2, <1>3 DEF IsPlace, At, Begin, Gathered, Sent

\* What a cursor inside a message says, and one behind its end.
LEMMA CursorInside ==
  ASSUME NEW n, NEW p, NEW h, NEW k, NEW b, Cursor' = Reader!Inside(n, p, h, k, b)
  PROVE  /\ (fed - Left)' = (fed - Left) + n /\ state' = p /\ head' = h /\ keep' = k /\ body' = b
         /\ (responses \o completed)' = responses \o completed
BY DEF Cursor, Reader!Inside

LEMMA CursorBehind ==
  ASSUME NEW n, NEW h, NEW k, NEW b, Cursor' = Reader!Behind(n, h, k, b)
  PROVE  /\ (fed - Left)' = (fed - Left) + n /\ state' = Within("headers") /\ body' = <<>>
         /\ (responses \o completed)' = Append(responses \o completed, [head |-> h, keep |-> k, body |-> b])
BY DEF Cursor, Reader!Behind, Reader!Part, Within

LEMMA AnswersGrow ==
  ASSUME NEW i \in Nat, i > 0
  PROVE  Append(Answers(i - 1), Answer(i)) = Answers(i)
<1> DEFINE S == {Answer(x) : x \in 1 .. i}
<1>1. \A x \in 1 .. i : Answer(x) \in S
  OBVIOUS
<1> HIDE DEF S
<1>2. i - 1 \in Nat /\ i \in 1 .. i /\ (i - 1) + 1 = i /\ \A x \in 1 .. i - 1 : x \in 1 .. i
  OBVIOUS
<1>3. Answers(i - 1) \in Seq(S) /\ Len(Answers(i - 1)) = i - 1 /\ \A x \in 1 .. i - 1 : Answers(i - 1)[x] = Answer(x)
  BY <1>1, <1>2 DEF Answers
<1>4. Answers(i) \in Seq(S) /\ Len(Answers(i)) = i /\ \A x \in 1 .. i : Answers(i)[x] = Answer(x)
  BY <1>1 DEF Answers
<1> DEFINE f == Answers(i - 1)
           a == Answer(i)
<1>5. f \in Seq(S) /\ Len(f) = i - 1 /\ a \in S
  BY <1>1, <1>2, <1>3
<1> HIDE DEF f, a
<1>6. /\ Append(f, a) \in Seq(S) /\ Len(Append(f, a)) = i
      /\ \A x \in 1 .. i : Append(f, a)[x] = IF x < i THEN f[x] ELSE a
  BY <1>2, <1>5
<1>7. \A x \in 1 .. i : Append(f, a)[x] = Answer(x)
  <2> TAKE x \in 1 .. i
  <2>1. CASE x < i
    <3>1. x \in 1 .. i - 1
      BY <2>1
    <3> QED
      BY <1>3, <1>6, <2>1, <3>1 DEF f
  <2>2. CASE x = i
    BY <1>6, <2>2 DEF a
  <2>3. x < i \/ x = i
    OBVIOUS
  <2> QED
    BY <2>1, <2>2, <2>3, Zenon
<1> DEFINE g == Append(f, a)
<1>8. g \in Seq(S) /\ Len(g) = Len(Answers(i)) /\ \A x \in 1 .. Len(g) : g[x] = Answers(i)[x]
  BY <1>4, <1>6, <1>7
<1> HIDE DEF g
<1>9. g = Answers(i)
  BY <1>4, <1>8, SameSeq
<1> QED
  BY <1>9 DEF g, f, a

\* The headers lead to the second part, ...
LEMMA HeadersLead ==
  ASSUME Conforming, Sent, RefInv, NEW i, Placed(i, 1), 1 < Len(msgs[i].parts),
         Cursor' = Reader!After, UNCHANGED <<msgs, stream, capture>>
  PROVE  Placed(i, 2)'
<1> DEFINE p == At(i, 1)
           q == At(i, 2)
           m == msgs[i]
           h == p.bytes[2]
<1>1. IsPlace(i, 1) /\ fed - Left = Begin(i, 1) /\ state = Kind(p)
  BY DEF Placed, Stands
<1>2. Fits(i, 1)
  BY <1>1, PlaceFits
<1>3. p \in Part /\ p.at = "headers" /\ IsPart(p) /\ Leads(p, q) /\ IsPlace(i, 2)
  <2>1. 1 + 1 = 2
    OBVIOUS
  <2> QED
    BY <1>2, <2>1 DEF Fits
<1>4. Fits(i, 2)
  BY <1>3, PlaceFits
<1>5. q \in Part /\ (q.at = "until" => m.ends = "close")
  BY <1>4 DEF Fits
<1>6. Upcoming(p.bytes)
  BY <1>1, PartComes DEF RefInv, TypeOK
<1>7. body \in Seq(Byte)
  BY DEF RefInv, TypeOK
<1> DEFINE k == Block[h].keep /\ q.at # "until"
<1>8. Len(p.bytes) = 2 /\ h \in DOMAIN Block /\ Reader!After = Reader!Inside(2, Kind(q), h, k, body)
  BY <1>1, <1>3, <1>5, <1>6, <1>7, HeadersRead
<1>9. m.ends = "close" => q.at = "until"
  <2> SUFFICES ASSUME m.ends = "close" PROVE q.at = "until"
    OBVIOUS
  <2> DEFINE n == Len(m.parts)
  <2>1. IsPlace(i, n)
    <3>1. n \in Nat
      BY <1>1, MessagesTyped, PartsTyped DEF IsPlace
    <3> QED
      BY <1>1, <3>1 DEF IsPlace
  <2>2. Fits(i, n)
    BY <2>1, PlaceFits
  <2>3. At(i, n).at = "until"
    BY <2>2 DEF Fits
  <2>4. n = 2
    BY <2>2, <2>3 DEF Fits
  <2> QED
    BY <2>3, <2>4
<1>10. m.ends # "never" => m.head = h
  BY <1>2 DEF Fits
<1>11. Block[h].keep \in BOOLEAN
  BY <1>8, FramerOK
<1>12. m.ends # "never" => m.keep = k
  <2>1. m.ends = "here" => m.keep = Block[m.head].keep
    BY <1>2 DEF Fits
  <2>2. m.ends = "close" => m.keep = FALSE
    BY <1>2 DEF Fits
  <2>3. m.ends \in {"here", "close", "never"}
    BY <1>2 DEF Fits
  <2>4. CASE m.ends = "here"
    <3>1. k = Block[h].keep
      BY <1>5, <1>11, <2>4
    <3> QED
      BY <1>10, <2>1, <2>4, <3>1
  <2>5. CASE m.ends = "close"
    <3>1. k = FALSE
      BY <1>9, <2>5
    <3> QED
      BY <2>2, <2>5, <3>1
  <2> QED
    BY <2>3, <2>4, <2>5
<1> HIDE DEF k
<1>13. /\ (fed - Left)' = (fed - Left) + 2 /\ state' = Kind(q) /\ head' = h /\ keep' = k /\ body' = body
       /\ (responses \o completed)' = responses \o completed
  <2>1. Cursor' = Reader!Inside(2, Kind(q), h, k, body)
    BY <1>8
  <2> HIDE DEF p, q, h
  <2> QED
    BY <2>1, CursorInside, Zenon
<1>14. Begin(i, 2) = Begin(i, 1) + 2
  <2>1. Begin(i, 1 + 1) = Begin(i, 1) + Len(p.bytes)
    BY <1>1, PartLies
  <2>2. 1 + 1 = 2
    OBVIOUS
  <2> QED
    BY <1>8, <2>1, <2>2
<1>15. Gathered(i, 2) = Gathered(i, 1)
  <2>1. Gathered(i, 1) \in Seq(Byte) /\ Gathered(i, 1 + 1) = Gathered(i, 1) \o p.data
    BY <1>1, BodyGrows
  <2>2. p.data = <<>> /\ 1 + 1 = 2
    BY <1>3 DEF IsPart
  <2>3. Gathered(i, 1) \o <<>> = Gathered(i, 1)
    BY <2>1
  <2> QED
    BY <2>1, <2>2, <2>3
<1>16. body' = IF capture THEN Gathered(i, 2) ELSE <<>>
  BY <1>13, <1>15 DEF Placed, Stands
<1>17. (responses \o completed)' = Answers(i - 1)
  BY <1>13 DEF Placed, Stands
<1>18. m.ends # "never" => head' = m.head /\ keep' = m.keep
  BY <1>10, <1>12, <1>13
<1>19. (fed - Left)' = Begin(i, 2)
  BY <1>1, <1>13, <1>14
<1>20. /\ IsPlace(i, 2)' = IsPlace(i, 2) /\ At(i, 2)' = At(i, 2) /\ Begin(i, 2)' = Begin(i, 2)
       /\ Gathered(i, 2)' = Gathered(i, 2)
  BY Unmoved
<1>21. Answers(i - 1)' = Answers(i - 1)
  BY Unmoved
<1> QED
  BY <1>3, <1>13, <1>16, <1>17, <1>18, <1>19, <1>20, <1>21 DEF Placed, Stands

LEMMA PlaceNumbers ==
  ASSUME Conforming, Sent, NEW i, NEW j, IsPlace(i, j)
  PROVE  /\ i \in Nat /\ i > 0 /\ i <= Len(msgs) /\ Len(msgs) \in Nat
         /\ j \in Nat /\ j > 0 /\ (j = 1 \/ j > 1) /\ j <= Len(msgs[i].parts) /\ Len(msgs[i].parts) \in Nat
<1>1. i \in 1 .. Len(msgs) /\ j \in 1 .. Len(msgs[i].parts)
  BY DEF IsPlace
<1>2. Len(msgs) \in Nat /\ msgs[i] \in Messages
  BY <1>1, MessagesTyped
<1>3. Len(msgs[i].parts) \in Nat
  BY <1>2, PartsTyped
<1> QED
  BY <1>1, <1>2, <1>3

\* The body with a part's data, as the framer has it.
LEMMA GatheredGrows ==
  ASSUME Conforming, Sent, NEW i, NEW j, IsPlace(i, j), body = IF capture THEN Gathered(i, j) ELSE <<>>
  PROVE  Grown(At(i, j)) = IF capture THEN Gathered(i, j + 1) ELSE <<>>
<1>1. Gathered(i, j + 1) = Gathered(i, j) \o At(i, j).data
  BY BodyGrows
<1> QED
  BY <1>1 DEF Grown

\* ... every other part to the one behind it, ...
LEMMA PartLeads ==
  ASSUME Conforming, Sent, RefInv, NEW i, NEW j, Placed(i, j), j # 1, j < Len(msgs[i].parts),
         Cursor' = Reader!After, UNCHANGED <<msgs, stream, capture>>
  PROVE  Placed(i, j + 1)'
<1> DEFINE p == At(i, j)
           q == At(i, j + 1)
           n == Len(p.bytes)
           b == Grown(p)
<1>1. IsPlace(i, j) /\ fed - Left = Begin(i, j) /\ state = Kind(p)
  BY DEF Placed, Stands
<1>2. Fits(i, j)
  BY <1>1, PlaceFits
<1>3. p \in Part /\ p.at # "headers" /\ IsPart(p) /\ Leads(p, q) /\ IsPlace(i, j + 1)
  BY <1>2 DEF Fits
<1>4. q \in Part
  BY <1>3, PlaceFits DEF Fits
<1>5. Upcoming(p.bytes)
  BY <1>1, PartComes DEF RefInv, TypeOK
<1>6. body \in Seq(Byte)
  BY DEF RefInv, TypeOK
<1>7. Reads(p)
  BY <1>1, <1>3, <1>5, <1>6, PartRead
<1>8. Reader!After = Reader!Inside(n, Kind(q), head, keep, b)
  BY <1>3, <1>4, <1>7 DEF Reads
<1>9. b = IF capture THEN Gathered(i, j + 1) ELSE <<>>
  BY <1>1, GatheredGrows DEF Placed, Stands
<1>10. Begin(i, j + 1) = Begin(i, j) + n
  BY <1>1, PartLies
<1> HIDE DEF b, n
<1>11. /\ (fed - Left)' = (fed - Left) + n /\ state' = Kind(q) /\ head' = head /\ keep' = keep /\ body' = b
       /\ (responses \o completed)' = responses \o completed
  <2>1. Cursor' = Reader!Inside(n, Kind(q), head, keep, b)
    BY <1>8
  <2> HIDE DEF p, q
  <2> QED
    BY <2>1, CursorInside, Zenon
<1>12. j > 1
  <2>1. j = 1 \/ j > 1
    BY <1>1, PlaceNumbers
  <2> QED
    BY <2>1, Zenon
<1> DEFINE J == j + 1
<1> HIDE DEF J
<1>13. /\ IsPlace(i, J)' = IsPlace(i, J) /\ At(i, J)' = At(i, J) /\ Begin(i, J)' = Begin(i, J)
       /\ Gathered(i, J)' = Gathered(i, J)
  BY Unmoved
<1>14. Answers(i - 1)' = Answers(i - 1)
  BY Unmoved
<1>15. msgs[i].ends # "never" => head' = msgs[i].head /\ keep' = msgs[i].keep
  BY <1>11, <1>12 DEF Placed, Stands
<1>16. body' = (IF capture THEN Gathered(i, J) ELSE <<>>) /\ capture' = capture
  BY <1>9, <1>11 DEF J
<1>17. (responses \o completed)' = Answers(i - 1)
  BY <1>11 DEF Placed, Stands
<1>18. (fed - Left)' = Begin(i, J) /\ state' = Kind(At(i, J)) /\ IsPlace(i, J)
  BY <1>1, <1>3, <1>10, <1>11 DEF J
<1>19. Placed(i, J)'
  BY <1>13, <1>14, <1>15, <1>16, <1>17, <1>18 DEF Placed, Stands
<1> QED
  BY <1>19 DEF J

\* ... and the last part of a message to the next message.
LEMMA MessageEnds ==
  ASSUME Conforming, Sent, RefInv, NEW i, NEW j, Placed(i, j), j = Len(msgs[i].parts),
         msgs[i].ends = "here", Cursor' = Reader!After, UNCHANGED <<msgs, stream, capture>>
  PROVE  /\ (fed - Left)' = Start(i + 1) /\ state' = Within("headers") /\ body' = <<>>
         /\ (responses \o completed)' = Answers(i)
<1> DEFINE p == At(i, j)
           m == msgs[i]
           n == Len(p.bytes)
           b == IF capture THEN m.body ELSE <<>>
<1>1. IsPlace(i, j) /\ fed - Left = Begin(i, j) /\ state = Kind(p) /\ i \in Nat /\ i > 0
  BY PlaceNumbers DEF Placed, Stands
<1>2. Fits(i, j)
  BY <1>1, PlaceFits
<1>3. p \in Part /\ IsPart(p) /\ Completes(p) /\ (j = 1 <=> p.at = "headers")
  BY <1>2 DEF Fits
<1>4. Upcoming(p.bytes)
  BY <1>1, PartComes DEF RefInv, TypeOK
<1>5. body \in Seq(Byte)
  BY DEF RefInv, TypeOK
<1>6. Grown(p) = b
  <2>1. Grown(p) = IF capture THEN Gathered(i, j + 1) ELSE <<>>
    BY <1>1, GatheredGrows DEF Placed, Stands
  <2>2. Gathered(i, j + 1) = Concat(Contents(m))
    BY <1>1, BodyGrows
  <2>3. m.body = Concat(Contents(m))
    BY <1>2 DEF Fits
  <2> QED
    BY <2>1, <2>2, <2>3
<1>7. Reader!After = Reader!Behind(n, m.head, m.keep, b)
  <2>1. CASE j = 1
    <3>1. /\ n = 2
          /\ Reader!After = Reader!Behind(2, p.bytes[2], Block[p.bytes[2]].keep, body)
      BY <1>1, <1>3, <1>4, <1>5, <2>1, HeadersRead
    <3>2. m.head = p.bytes[2] /\ m.keep = Block[m.head].keep
      BY <1>2, <2>1 DEF Fits
    <3>3. body = b
      <4>1. p.data = <<>>
        BY <1>3, <2>1 DEF IsPart
      <4>2. Grown(p) = body
        BY <1>5, <4>1, NoData
      <4> QED
        BY <1>6, <4>2
    <3> HIDE DEF b, n, p
    <3> QED
      BY <3>1, <3>2, <3>3
  <2>2. CASE j # 1
    <3>1. Reads(p)
      BY <1>1, <1>3, <1>4, <1>5, <2>2, PartRead
    <3>2. Reader!After = Reader!Behind(n, head, keep, Grown(p))
      BY <1>3, <3>1 DEF Reads
    <3>3. j > 1
      <4>1. j = 1 \/ j > 1
        BY <1>1, PlaceNumbers
      <4> QED
        BY <2>2, <4>1, Zenon
    <3>4. head = m.head /\ keep = m.keep
      BY <3>3 DEF Placed, Stands
    <3> HIDE DEF b, n, p
    <3> QED
      BY <1>6, <3>2, <3>4
  <2> QED
    BY <2>1, <2>2
<1>8. Begin(i, j + 1) = Begin(i, j) + n /\ Begin(i, j + 1) = Start(i + 1)
  BY <1>1, PartLies
<1> DEFINE h == m.head
           k == m.keep
<1>9. Answer(i) = [head |-> h, keep |-> k, body |-> b]
  BY DEF Answer
<1> HIDE DEF b, n, h, k
<1>10. /\ (fed - Left)' = (fed - Left) + n /\ state' = Within("headers") /\ body' = <<>>
       /\ (responses \o completed)' = Append(responses \o completed, [head |-> h, keep |-> k, body |-> b])
  <2>1. Cursor' = Reader!Behind(n, h, k, b)
    BY <1>7 DEF h, k
  <2> QED
    BY <2>1, CursorBehind, Zenon
<1>11. responses \o completed = Answers(i - 1)
  BY DEF Placed, Stands
<1>12. Append(Answers(i - 1), Answer(i)) = Answers(i)
  BY <1>1, AnswersGrow
<1> QED
  BY <1>1, <1>8, <1>9, <1>10, <1>11, <1>12

\* What the reader reads is a part of a message.
LEMMA ReadAdvances ==
  ASSUME Conforming, Sent, RefInv, Progress, Reader!Readable, Cursor' = Reader!After,
         UNCHANGED <<msgs, stream, capture>>
  PROVE  Progress'
<1>1. CASE Over
  <2>1. state.at = "headers" /\ fed - Left = Len(stream) /\ Len(stream) \in Nat
    BY <1>1 DEF Over, Within, RefInv, TypeOK
  <2>2. ~Reader!There(2)
    BY <2>1 DEF Reader!There
  <2> QED
    BY <2>1, <2>2 DEF Reader!Readable, Reader!HasBlock
<1>2. ASSUME NEW i, NEW j, Placed(i, j) PROVE Progress'
  <2> DEFINE m == msgs[i]
             p == At(i, j)
  <2>1. IsPlace(i, j) /\ fed - Left = Begin(i, j) /\ state = Kind(p)
    BY <1>2 DEF Placed, Stands
  <2>2. /\ i \in 1 .. Len(msgs) /\ Len(msgs) \in Nat /\ j \in 1 .. Len(m.parts) /\ Len(m.parts) \in Nat
        /\ \A x \in 1 .. Len(msgs) : x < Len(msgs) => msgs[x].ends = "here"
    BY <2>1, MessagesTyped, PartsTyped DEF IsPlace
  <2>3. Fits(i, j)
    BY <2>1, PlaceFits
  <2>4. Upcoming(p.bytes)
    BY <2>1, PartComes DEF RefInv, TypeOK
  <2>5. CASE j < Len(m.parts)
    <3>1. CASE j = 1
      BY <1>2, <2>5, <3>1, HeadersLead DEF Progress
    <3>2. CASE j # 1
      BY <1>2, <2>5, <3>2, PartLeads DEF Progress
    <3> QED
      BY <3>1, <3>2
  <2>6. CASE j = Len(m.parts)
    <3>1. m.ends # "never"
      <4> SUFFICES ASSUME m.ends = "never" PROVE FALSE
        OBVIOUS
      <4>1. IsBroken(p) /\ p \in Part
        BY <2>3, <2>6 DEF Fits
      <4> QED
        BY <2>1, <2>4, <4>1, BrokenStays
    <3>2. m.ends # "close"
      <4> SUFFICES ASSUME m.ends = "close" PROVE FALSE
        OBVIOUS
      <4>1. state.at = "until"
        BY <2>1, <2>3, <2>6 DEF Fits, Kind
      <4> QED
        BY <4>1 DEF Reader!Readable
    <3>3. m.ends = "here"
      BY <2>3, <3>1, <3>2 DEF Fits
    <3>4. /\ (fed - Left)' = Start(i + 1) /\ state' = Within("headers") /\ body' = <<>>
          /\ (responses \o completed)' = Answers(i)
      BY <1>2, <2>6, <3>3, MessageEnds
    <3>5. CASE i < Len(msgs)
      <4> DEFINE I == i + 1
      <4>1. I \in 1 .. Len(msgs) /\ I - 1 = i
        BY <2>2, <3>5
      <4> HIDE DEF I
      <4>2. Begin(I, 1) = Start(I) /\ IsPlace(I, 1) /\ Gathered(I, 1) = <<>>
        BY <4>1, FirstLies
      <4>3. At(I, 1).at = "headers"
        BY <4>2, PlaceFits DEF Fits
      <4>4. Kind(At(I, 1)) = Within("headers")
        BY <4>3 DEF Kind, Within
      <4>5. /\ IsPlace(I, 1)' = IsPlace(I, 1) /\ At(I, 1)' = At(I, 1) /\ Begin(I, 1)' = Begin(I, 1)
            /\ Gathered(I, 1)' = Gathered(I, 1)
        BY Unmoved
      <4>6. Answers(I - 1)' = Answers(I - 1)
        BY Unmoved
      <4>7. (fed - Left)' = Start(I)
        BY <3>4 DEF I
      <4>8. Placed(I, 1)'
        BY <3>4, <4>1, <4>2, <4>4, <4>5, <4>6, <4>7 DEF Placed, Stands
      <4> QED
        BY <4>8 DEF Progress
    <3>6. CASE i = Len(msgs)
      <4>1. Start(i + 1) = Len(stream)
        BY <2>2, <3>6, MessageLies
      <4>2. \A x \in 1 .. Len(msgs) : msgs[x].ends = "here"
        BY <2>2, <3>3, <3>6
      <4>3. Answers(i)' = Answers(i)
        BY Unmoved
      <4>4. (fed - Left)' = Len(stream) /\ (responses \o completed)' = Answers(Len(msgs))
        BY <3>4, <3>6, <4>1
      <4>5. Over'
        BY <3>4, <3>6, <4>2, <4>3, <4>4 DEF Over, Within
      <4> QED
        BY <4>5 DEF Progress
    <3> QED
      BY <2>2, <3>5, <3>6
  <2> QED
    BY <2>2, <2>5, <2>6
<1> QED
  BY <1>1, <1>2 DEF Progress

\* While the cursor stays, so does the place.
LEMMA ProgressStays ==
  ASSUME Progress, UNCHANGED <<msgs, stream, capture>>, UNCHANGED Cursor
  PROVE  Progress'
<1>1. /\ (fed - Left)' = fed - Left /\ state' = state /\ head' = head /\ keep' = keep /\ body' = body
      /\ (responses \o completed)' = responses \o completed
  BY DEF Cursor
<1>2. CASE Over
  <2>1. Answers(Len(msgs))' = Answers(Len(msgs))
    BY Unmoved
  <2>2. Over'
    BY <1>1, <1>2, <2>1 DEF Over, Within
  <2> QED
    BY <2>2 DEF Progress
<1>3. ASSUME NEW i, NEW j, Placed(i, j) PROVE Progress'
  <2>1. /\ IsPlace(i, j)' = IsPlace(i, j) /\ At(i, j)' = At(i, j) /\ Begin(i, j)' = Begin(i, j)
        /\ Gathered(i, j)' = Gathered(i, j)
    BY Unmoved
  <2>2. Answers(i - 1)' = Answers(i - 1)
    BY Unmoved
  <2>3. Placed(i, j)'
    BY <1>1, <1>3, <2>1, <2>2 DEF Placed, Stands
  <2> QED
    BY <2>3 DEF Progress
<1> QED
  BY <1>2, <1>3 DEF Progress

-----------------------------------------------------------------------------
(* Where the framer stops. *)

\* The framer gives up at a byte that is there.
LEMMA FailsAhead ==
  ASSUME RefInv, Drain, call' = "bad"
  PROVE  Left > 0
<1>1. Left \in Nat
  BY Window
<1>2. CASE FrameHeaders
  <2>1. ~PartialHeaders
    BY <1>2 DEF FrameHeaders, Break
  <2> QED
    BY <1>1, <2>1 DEF PartialHeaders
<1>3. CASE ChunkSize
  <2>1. ~Break
    BY DEF Break
  <2>2. PICK n \in 0 .. Left : Line(n)
    BY <1>3, <2>1 DEF ChunkSize
  <2>3. n + 2 \in Nat /\ n + 2 <= Left /\ n \in Nat
    BY <1>1, <2>2, LineFits DEF RefInv
  <2> QED
    BY <1>1, <2>3
<1>4. CASE FrameBody
  BY <1>4 DEF FrameBody, Break, Consume
<1>5. CASE ChunkData
  BY <1>5 DEF ChunkData, Break, Panic, Consume
<1>6. CASE ChunkTrailers
  BY <1>6 DEF ChunkTrailers, Break, Consume
<1>7. CASE AwaitEnd
  BY <1>7 DEF AwaitEnd, Break
<1> QED
  BY <1>2, <1>3, <1>4, <1>5, <1>6, <1>7 DEF Drain

\* The stream is given up inside the last message, which is broken.
Refused ==
    LET i == Len(msgs)
    IN  i \in 1 .. Len(msgs) => msgs[i].ends = "never" /\ Start(i) < fed

\* A whole part is never broken.
LEMMA WholeHolds ==
  ASSUME NEW p \in Part, IsPart(p), Upcoming(p.bytes), state = Kind(p), body \in Seq(Byte)
  PROVE  ~Reader!Broken
<1>1. CASE p.at = "headers"
  BY <1>1, HeadersRead
<1>2. CASE p.at # "headers"
  BY <1>2, PartRead DEF Reads
<1> QED
  BY <1>1, <1>2

LEMMA GivesUpOnBroken ==
  ASSUME Conforming, Sent, RefInv, Progress, Reader!Broken, Left > 0
  PROVE  Refused
<1>1. CASE Over
  <2>1. state.at = "headers" /\ fed - Left = Len(stream) /\ Len(stream) \in Nat
    BY <1>1 DEF Over, Within, RefInv, TypeOK
  <2>2. ~Reader!There(1)
    BY <2>1 DEF Reader!There
  <2> QED
    BY <2>1, <2>2 DEF Reader!Broken
<1>2. ASSUME NEW i, NEW j, Placed(i, j) PROVE Refused
  <2>1. IsPlace(i, j) /\ fed - Left = Begin(i, j) /\ state = Kind(At(i, j))
    BY <1>2 DEF Placed, Stands
  <2>2. Fits(i, j)
    BY <2>1, PlaceFits
  <2>3. At(i, j) \in Part /\ Upcoming(At(i, j).bytes) /\ body \in Seq(Byte)
    BY <2>1, <2>2, PartComes DEF Fits, RefInv, TypeOK
  <2>4. ~IsPart(At(i, j))
    BY <2>1, <2>3, WholeHolds
  <2>5. msgs[i].ends = "never" /\ i = Len(msgs)
    BY <2>2, <2>4 DEF Fits
  <2>6. Start(i) \in Nat /\ Begin(i, j) \in Nat /\ Start(i) <= Begin(i, j)
    BY <2>1, PartLies
  <2>7. fed \in Nat /\ Left \in Nat
    BY Window
  <2>8. Start(i) < fed
    BY <2>1, <2>6, <2>7
  <2> QED
    BY <2>5, <2>8 DEF Refused
<1> QED
  BY <1>1, <1>2 DEF Progress

\* The rest of a whole part is missing.
Stuck ==
    \A i, j : Stands(i, j) /\ IsPart(At(i, j)) /\ At(i, j).at # "until" => fed < Begin(i, j + 1)

\* A line that is there is seen.
LEMMA LineSeen ==
  ASSUME RefInv, NEW text, IsLine(text), Upcoming(text), Len(text) <= Left
  PROVE  ~NoLine
<1> DEFINE n == Len(text) - 2
<1>1. text \in Seq(Byte) /\ Len(text) \in Nat /\ \A x \in 1 .. Len(text) : stream[(fed - Left) + x] = text[x]
  BY DEF Upcoming
<1>2. /\ fed - Left \in Nat /\ Left \in Nat /\ scanned \in Nat /\ Len(buf) \in Nat
      /\ scanned + Left = Len(buf)
      /\ \A i \in 1 .. Left : buf[scanned + i] = stream[(fed - Left) + i]
  BY Window
<1>3. n \in Nat /\ n + 2 = Len(text) /\ text[n + 1] = "cr" /\ \A x \in 1 .. n : text[x] # "cr"
  <2>1. Len(text) >= 2 /\ text[Len(text) - 1] = "cr" /\ \A x \in 1 .. Len(text) - 2 : text[x] # "cr"
    BY DEF IsLine
  <2>2. n \in Nat /\ n + 2 = Len(text) /\ Len(text) - 1 = n + 1
    BY <1>1, <2>1
  <2> QED
    BY <2>1, <2>2
<1> HIDE DEF n
<1>4. ASSUME NEW x \in 1 .. n + 2 PROVE buf[scanned + x] = text[x]
  <2>1. x \in 1 .. Left /\ x \in 1 .. Len(text)
    BY <1>1, <1>2, <1>3
  <2> QED
    BY <1>1, <1>2, <2>1, Zenon
<1>5. buf[scanned + n + 1] = "cr"
  <2>1. n + 1 \in 1 .. n + 2 /\ scanned + n + 1 = scanned + (n + 1)
    BY <1>2, <1>3
  <2> QED
    BY <1>3, <1>4, <2>1
<1>6. \A x \in 1 .. n : buf[scanned + x] # "cr"
  <2>1. \A x \in 1 .. n : x \in 1 .. n + 2
    BY <1>3
  <2> QED
    BY <1>3, <1>4, <2>1
<1>7. scanned + n + 2 <= Len(buf) /\ n \in 0 .. Left
  BY <1>2, <1>3
<1> QED
  BY <1>5, <1>6, <1>7 DEF NoLine, Line

LEMMA BreaksInside ==
  ASSUME RefInv, Drain, call' = "none", NEW p \in Part, IsPart(p), p.at # "until",
         Upcoming(p.bytes), state = Kind(p)
  PROVE  Left < Len(p.bytes)
<1>1. Left \in Nat /\ state.at = p.at /\ p.bytes \in Seq(Byte) /\ Len(p.bytes) \in Nat
  BY Window DEF Kind, Part
<1>2. CASE FrameHeaders
  <2>1. PartialHeaders /\ p.at = "headers"
    BY <1>1, <1>2 DEF FrameHeaders, Fail
  <2>2. Len(p.bytes) = 2
    <3>1. body \in Seq(Byte)
      BY DEF RefInv, TypeOK
    <3> QED
      BY <2>1, <3>1, HeadersRead
  <2> QED
    BY <1>1, <2>1, <2>2 DEF PartialHeaders
<1>3. CASE FrameBody
  <2>1. Left < state.remaining /\ p.at = "body"
    BY <1>1, <1>3 DEF FrameBody, Consume
  <2>2. state.remaining = Len(p.data) /\ p.data = p.bytes
    BY <2>1 DEF Kind, IsPart
  <2> QED
    BY <2>1, <2>2
<1>4. CASE ChunkData
  <2>1. Left < DataUnits(state.remaining) /\ p.at = "data"
    BY <1>1, <1>4 DEF ChunkData, Panic, Consume
  <2>2. /\ state.remaining = Len(p.data) /\ Len(p.bytes) = Len(p.data) + 2
        /\ Len(p.bytes) <= UsizeMax /\ Len(p.data) \in Nat
    BY <2>1 DEF Kind, IsPart, Part
  <2>3. DataUnits(state.remaining) = Len(p.bytes)
    BY <2>2, UnitsFacts
  <2> QED
    BY <2>1, <2>3
<1>5. ASSUME NoLine, p.at \in {"size", "trailers"} PROVE Left < Len(p.bytes)
  <2>1. IsLine(p.bytes)
    BY <1>5 DEF IsPart
  <2>2. ~(Len(p.bytes) <= Left)
    BY <1>5, <2>1, LineSeen
  <2> QED
    BY <1>1, <2>2
<1>6. CASE ChunkSize
  <2>1. NoLine /\ p.at = "size"
    BY <1>1, <1>6 DEF ChunkSize, Fail, Consume
  <2> QED
    BY <1>5, <2>1
<1>7. CASE ChunkTrailers
  <2>1. NoLine /\ p.at = "trailers"
    BY <1>1, <1>7 DEF ChunkTrailers, Consume
  <2> QED
    BY <1>5, <2>1
<1>8. CASE AwaitEnd
  BY <1>1, <1>8 DEF AwaitEnd
<1> QED
  BY <1>2, <1>3, <1>4, <1>6, <1>7, <1>8 DEF Drain

LEMMA BreakStuck ==
  ASSUME Conforming, Sent, RefInv, Drain, call' = "none"
  PROVE  Stuck
<1> SUFFICES ASSUME NEW i, NEW j, Stands(i, j), IsPart(At(i, j)), At(i, j).at # "until"
             PROVE  fed < Begin(i, j + 1)
  BY DEF Stuck
<1> DEFINE p == At(i, j)
<1>1. IsPlace(i, j) /\ fed - Left = Begin(i, j) /\ state = Kind(p)
  BY DEF Stands
<1>2. p \in Part /\ Upcoming(p.bytes)
  BY <1>1, PlaceFits, PartComes DEF Fits, RefInv, TypeOK
<1>3. Left < Len(p.bytes)
  BY <1>1, <1>2, BreaksInside
<1>4. Begin(i, j + 1) = Begin(i, j) + Len(p.bytes) /\ Begin(i, j) \in Nat /\ Len(p.bytes) \in Nat
  BY <1>1, PartLies
<1>5. fed \in Nat /\ Left \in Nat
  BY Window
<1> HIDE DEF p
<1> QED
  BY <1>1, <1>3, <1>4, <1>5

LEMMA StuckStays ==
  ASSUME Stuck, UNCHANGED <<input, framing>>
  PROVE  Stuck'
<1> SUFFICES ASSUME NEW i, NEW j, Stands(i, j)', IsPart(At(i, j))', (At(i, j).at # "until")'
             PROVE  (fed < Begin(i, j + 1))'
  BY DEF Stuck
<1>1. UNCHANGED <<msgs, stream, fed, capture, buf, scanned, state>>
  BY DEF input, framing
<1>2. IsPlace(i, j)' = IsPlace(i, j) /\ At(i, j)' = At(i, j) /\ Begin(i, j)' = Begin(i, j)
  BY <1>1, Unmoved
<1> DEFINE J == j + 1
<1> HIDE DEF J
<1>3. Begin(i, J)' = Begin(i, J)
  BY <1>1, Unmoved
<1>4. Stands(i, j)
  BY <1>1, <1>2 DEF Stands, Left
<1>5. IsPart(At(i, j)) /\ At(i, j).at # "until"
  BY <1>2 DEF IsPart
<1>6. fed < Begin(i, J)
  BY <1>4, <1>5 DEF Stuck, J
<1> QED
  BY <1>1, <1>3, <1>6 DEF J

LEMMA BlockLength == ASSUME NEW p, p.at = "headers", IsPart(p) PROVE Len(p.bytes) = 2
<1>1. PICK h \in DOMAIN Block : p.bytes = <<"begin", h>>
  BY DEF IsPart
<1> QED
  BY <1>1

LEMMA EmptyJoins == <<>> \o <<>> = <<>> /\ \A q \in Seq(Byte) : <<>> \o q = q
<1>1. ASSUME NEW q \in Seq(Byte) PROVE <<>> \o q = q
  <2>1. <<>> \in Seq(Byte) /\ Len(<<>>) = 0
    OBVIOUS
  <2> DEFINE e == <<>>
             g == e \o q
  <2>2. e \in Seq(Byte) /\ Len(e) = 0
    BY <2>1
  <2> HIDE DEF e
  <2>3. g \in Seq(Byte) /\ Len(g) = Len(q) /\ \A x \in 1 .. Len(q) : g[x] = q[x]
    BY <2>2
  <2> HIDE DEF g
  <2>4. g = q
    BY <2>3, SameSeq
  <2> QED
    BY <2>4 DEF g, e
<1>2. <<>> \in Seq(Byte)
  OBVIOUS
<1> QED
  BY <1>1, <1>2, Zenon

\* The stream ends in the body of the last message.
Concluded ==
    LET i == Len(msgs)
    IN  /\ i \in 1 .. Len(msgs) /\ msgs[i].ends = "close" /\ Start(i) <= fed
        /\ responses = Append(Answers(i - 1), Expected(i))

PartInv ==
    /\ Sent
    /\ call \in {"none", "draining", "cut"} => Progress
    /\ call \in {"none", "cut"} => Stuck
    /\ call = "cut" => state.at # "until"
    /\ call = "bad" => Refused
    /\ call = "closed" => Concluded
    /\ call # "panic"

LEMMA DrainKeeps ==
  ASSUME Drain
  PROVE  /\ call = "draining" /\ UNCHANGED input
         /\ call' \in {"draining", "none", "bad", "panic"}
         /\ call' = "none" => UNCHANGED <<input, framing>>
<1>1. CASE FrameHeaders
  BY <1>1 DEF FrameHeaders, Break, Fail
<1>2. CASE FrameBody
  BY <1>2 DEF FrameBody, Break, Consume
<1>3. CASE ChunkSize
  BY <1>3 DEF ChunkSize, Break, Fail, Consume
<1>4. CASE ChunkData
  BY <1>4 DEF ChunkData, Break, Panic, Consume
<1>5. CASE ChunkTrailers
  BY <1>5 DEF ChunkTrailers, Break, Consume
<1>6. CASE AwaitEnd
  BY <1>6 DEF AwaitEnd, Break
<1> QED
  BY <1>1, <1>2, <1>3, <1>4, <1>5, <1>6 DEF Drain

\* The size of a chunk that is sent as a whole never wraps the sum.
LEMMA NoPanic ==
  ASSUME Conforming, Sent, RefInv, Progress, Drain
  PROVE  call' # "panic"
<1> SUFFICES ASSUME call' = "panic" PROVE FALSE
  OBVIOUS
<1>1. ChunkData
  BY DEF Drain, FrameHeaders, FrameBody, ChunkSize, ChunkTrailers, AwaitEnd, Break, Fail, Consume
<1>2. state.at = "data" /\ Overruns(state.remaining)
  BY <1>1 DEF ChunkData, Break, Consume
<1>3. PICK i, j : Placed(i, j)
  BY <1>2 DEF Progress, Over, Within
<1>4. IsPlace(i, j) /\ state = Kind(At(i, j))
  BY <1>3 DEF Placed, Stands
<1>5. Fits(i, j)
  BY <1>4, PlaceFits
<1> DEFINE p == At(i, j)
<1>6. p.at = "data" /\ state.remaining = Len(p.data) /\ p \in Part
  BY <1>2, <1>4, <1>5 DEF Kind, Fits
<1>7. j <= Len(msgs[i].parts) /\ j \in Nat /\ Len(msgs[i].parts) \in Nat
  BY <1>4, PlaceNumbers
<1> HIDE DEF p
<1>8. ~IsBroken(p)
  BY <1>6 DEF IsBroken
<1>9. IsPart(p)
  BY <1>5, <1>7, <1>8 DEF Fits, p
<1>10. Len(p.data) \in Nat /\ Len(p.data) + 2 <= UsizeMax
  BY <1>6, <1>9 DEF IsPart, Part
<1> QED
  BY <1>2, <1>6, <1>10, UnitsFacts

\* A step after which the reader is still open.
LEMMA OpenStep ==
  ASSUME Conforming, Sent, RefInv, Progress, [Next]_vars, UNCHANGED <<msgs, stream, capture>>,
         call' \in {"none", "draining"}
  PROVE  Progress'
<1>1. Reader!Next \/ UNCHANGED Reader!vars
  BY SimulatedStep DEF Simulated
<1>2. Ending' = "open"
  BY DEF Ending
<1>3. CASE UNCHANGED Reader!vars
  <2>1. UNCHANGED Cursor
    BY <1>3 DEF Reader!vars, Cursor
  <2> QED
    BY <2>1, ProgressStays
<1>4. CASE Reader!Read
  <2>1. Reader!Readable /\ Cursor' = Reader!After
    BY <1>4 DEF Reader!Read, Cursor
  <2> QED
    BY <2>1, ReadAdvances
<1>5. CASE Reader!Return
  <2>1. UNCHANGED Cursor
    BY <1>5 DEF Reader!Return, Cursor
  <2> QED
    BY <2>1, ProgressStays
<1>6. ~Reader!GiveUp
  BY <1>2 DEF Reader!GiveUp, Ending
<1>7. ~Reader!Overrun
  BY <1>2 DEF Reader!Overrun, Ending
<1>8. ~Reader!End
  BY <1>2 DEF Reader!End, Ending
<1> QED
  BY <1>1, <1>3, <1>4, <1>5, <1>6, <1>7, <1>8 DEF Reader!Next

LEMMA BadStep ==
  ASSUME Conforming, Sent, RefInv, Progress, Drain, call' = "bad"
  PROVE  Refused'
<1>1. Reader!Next \/ UNCHANGED Reader!vars
  BY SimulatedStep DEF Simulated, Next
<1>2. Ending = "open" /\ Ending' = "bad"
  BY DrainKeeps DEF Ending
<1>3. Reader!GiveUp
  <2>1. ~UNCHANGED Reader!vars
    BY <1>2 DEF Reader!vars, Ending
  <2>2. ~Reader!Read
    BY <1>2 DEF Reader!Read, Ending
  <2>3. ~Reader!End
    BY <1>2 DEF Reader!End, Ending
  <2>4. ~Reader!Return
    BY <1>2 DEF Reader!Return, Ending
  <2>5. ~Reader!Overrun
    BY <1>2 DEF Reader!Overrun, Ending
  <2> QED
    BY <1>1, <2>1, <2>2, <2>3, <2>4, <2>5 DEF Reader!Next
<1>4. Refused
  <2>1. Reader!Broken
    BY <1>3 DEF Reader!GiveUp
  <2>2. Left > 0
    BY FailsAhead
  <2> QED
    BY <2>1, <2>2, GivesUpOnBroken
<1>5. UNCHANGED <<msgs, stream, fed, capture>>
  BY DrainKeeps DEF input
<1>6. Start(Len(msgs))' = Start(Len(msgs))
  BY <1>5, Unmoved
<1> QED
  BY <1>4, <1>5, <1>6 DEF Refused

\* A stream that ends in a body which runs to the end.
LEMMA ClosedStep ==
  ASSUME Conforming, Sent, RefInv, Progress, Close, state.at = "until"
  PROVE  Concluded'
<1>1. completed = <<>> /\ responses \in Seq(Reply) /\ responses \o <<>> = responses
  BY DEF RefInv, RespInv, Close
<1> DEFINE b == Body(Left)
<1>2. /\ call' = "closed" /\ UNCHANGED <<msgs, stream, fed, capture>>
      /\ responses' = Append(responses, [head |-> head, keep |-> keep, body |-> b])
  BY DEF Close, input
<1>3. ~Over
  BY DEF Over, Within
<1>4. PICK i, j : Placed(i, j)
  BY <1>3 DEF Progress
<1>5. IsPlace(i, j) /\ fed - Left = Begin(i, j) /\ state = Kind(At(i, j))
  BY <1>4 DEF Placed, Stands
<1>6. Fits(i, j)
  BY <1>5, PlaceFits
<1>7. At(i, j).at = "until"
  BY <1>5 DEF Kind
<1>8. j = 2 /\ msgs[i].ends = "close" /\ i = Len(msgs) /\ i \in 1 .. Len(msgs)
  BY <1>5, <1>6, <1>7 DEF Fits, IsPlace
<1>9. head = msgs[i].head /\ keep = msgs[i].keep
  BY <1>4, <1>8 DEF Placed
<1>10. Fits(i, 1) /\ At(i, 1).at = "headers" /\ IsPart(At(i, 1)) /\ IsPlace(i, 1)
  <2>1. IsPlace(i, 1) /\ 1 < Len(msgs[i].parts)
    <3>1. 2 <= Len(msgs[i].parts) /\ Len(msgs[i].parts) \in Nat
      BY <1>5, <1>8, PlaceNumbers
    <3> QED
      BY <1>8, <3>1 DEF IsPlace
  <2>2. Fits(i, 1)
    BY <2>1, PlaceFits
  <2> QED
    BY <2>1, <2>2 DEF Fits
<1>11. Begin(i, 2) = Start(i) + 2 /\ Start(i) \in Nat
  <2>1. Begin(i, 1 + 1) = Begin(i, 1) + Len(At(i, 1).bytes) /\ Start(i) \in Nat
    BY <1>10, PartLies
  <2>2. Begin(i, 1) = Start(i)
    BY <1>8, FirstLies
  <2>3. Len(At(i, 1).bytes) = 2
    BY <1>10, BlockLength
  <2>4. 1 + 1 = 2
    OBVIOUS
  <2> QED
    BY <2>1, <2>2, <2>3, <2>4
<1>12. Gathered(i, 2) = <<>>
  <2>1. Gathered(i, 1 + 1) = Gathered(i, 1) \o At(i, 1).data
    BY <1>10, BodyGrows
  <2>2. Gathered(i, 1) = <<>>
    BY <1>8, FirstLies
  <2>3. At(i, 1).data = <<>>
    BY <1>10 DEF IsPart
  <2>4. 1 + 1 = 2
    OBVIOUS
  <2> QED
    BY <2>1, <2>2, <2>3, <2>4, EmptyJoins
<1>13. Ahead(Left) = SubSeq(stream, Start(i) + 3, fed)
  <2>1. fed \in Nat /\ Left \in Nat /\ Left <= Left
    BY Window
  <2>3. Ahead(Left) = Reader!Bytes(Left)
    BY <2>1, AheadIsNext
  <2>4. Reader!Bytes(Left) = SubSeq(stream, (fed - Left) + 1, (fed - Left) + Left)
    BY DEF Reader!Bytes
  <2>2. (fed - Left) + 1 = Start(i) + 3 /\ (fed - Left) + Left = fed
    BY <1>5, <1>8, <1>11, <2>1
  <2> QED
    BY <2>2, <2>3, <2>4
<1>14. Ahead(Left) \in Seq(Byte)
  <2>1. Left \in Nat /\ Left <= Left
    BY Window
  <2> QED
    BY <2>1, AheadIsNext
<1>15. b = IF capture THEN SubSeq(stream, Start(i) + 3, fed) ELSE <<>>
  <2>1. body = <<>>
    BY <1>4, <1>8, <1>12 DEF Placed
  <2>2. <<>> \o Ahead(Left) = Ahead(Left)
    BY <1>14, EmptyJoins
  <2> QED
    BY <1>13, <2>1, <2>2 DEF Body
<1>16. responses = Answers(i - 1)
  BY <1>1, <1>4 DEF Placed
<1> HIDE DEF b
<1>17. Expected(i) = [head |-> head, keep |-> keep, body |-> b]
  BY <1>8, <1>9, <1>15 DEF Expected
<1>18. Start(i) <= fed
  <2>1. fed \in Nat /\ Left \in Nat
    BY Window
  <2> QED
    BY <1>5, <1>8, <1>11, <2>1
<1>19. Start(i)' = Start(i) /\ Answers(i - 1)' = Answers(i - 1)
  <2>1. Start(i)' = Start(i)
    BY <1>2, Unmoved
  <2>2. Answers(i - 1)' = Answers(i - 1)
    BY <1>2, Unmoved
  <2> QED
    BY <2>1, <2>2
<1>20. Expected(i)' = Expected(i)
  BY <1>2, <1>19 DEF Expected
<1>21. responses' = Append(Answers(i - 1), Expected(i))
  BY <1>2, <1>16, <1>17
<1>22. (Append(Answers(i - 1), Expected(i)))' = Append(Answers(i - 1), Expected(i))
  BY <1>19, <1>20
<1> QED
  BY <1>2, <1>8, <1>18, <1>19, <1>21, <1>22 DEF Concluded

LEMMA PartInit == Conforming /\ Init => PartInv
<1> SUFFICES ASSUME Conforming, Init PROVE PartInv
  OBVIOUS
<1>1. /\ Sent /\ call = "none" /\ fed = 0 /\ state = Within("headers") /\ body = <<>>
      /\ fed - Left = 0
  <2>1. fed = 0 /\ scanned = 0 /\ buf = <<>>
    BY DEF Init
  <2>2. Len(buf) = 0
    BY <2>1
  <2>3. fed - Left = 0
    <3>1. Left = 0
      BY <2>1, <2>2 DEF Left
    <3> QED
      BY <2>1, <3>1
  <2>4. /\ msgs \in Streams /\ stream = Concat(Bytes(msgs)) /\ call = "none"
        /\ state = Within("headers") /\ body = <<>>
    BY Zenon DEF Init
  <2> QED
    BY <2>1, <2>3, <2>4, Zenon DEF Sent
<1>2. responses \o completed = Answers(0)
  <2>1. responses \o completed = <<>>
    BY EmptyJoins DEF Init
  <2>2. Answers(0) = <<>>
    BY DEF Answers
  <2> QED
    BY <2>1, <2>2
<1>3. Progress
  <2>1. CASE Len(msgs) = 0
    <3> DEFINE t == Bytes(msgs)
    <3>1. t \in Seq(Seq(Byte)) /\ Len(t) = 0
      BY <1>1, <2>1, BytesTyped
    <3>2. stream = Joined(t, Len(t))
      BY <1>1 DEF Sent, Concat
    <3> HIDE DEF t
    <3>3. stream = <<>>
      BY <3>1, <3>2, JoinedFacts
    <3>4. Len(stream) = 0
      BY <3>3
    <3>5. \A i \in 1 .. Len(msgs) : FALSE
      BY <2>1
    <3> QED
      BY <1>1, <1>2, <2>1, <3>4, <3>5 DEF Progress, Over
  <2>2. CASE Len(msgs) # 0
    <3>1. 1 \in 1 .. Len(msgs)
      BY <1>1, <2>2, MessagesTyped
    <3>2. Begin(1, 1) = Start(1) /\ IsPlace(1, 1) /\ Gathered(1, 1) = <<>>
      BY <1>1, <3>1, FirstLies
    <3>3. At(1, 1).at = "headers"
      BY <1>1, <3>2, PlaceFits DEF Fits
    <3>4. Kind(At(1, 1)) = Within("headers")
      BY <3>3 DEF Kind, Within
    <3>5. Start(1) = 0
      <4> DEFINE t == Bytes(msgs)
      <4>1. t \in Seq(Seq(Byte))
        BY <1>1, BytesTyped
      <4>2. Start(1) = Len(Joined(t, 0))
        <5>1. 1 - 1 = 0
          OBVIOUS
        <5> QED
          BY <5>1 DEF Start
      <4> HIDE DEF t
      <4>3. Joined(t, 0) = <<>>
        BY <4>1, JoinedFacts
      <4> QED
        BY <4>2, <4>3
    <3>6. 1 - 1 = 0 /\ ~(1 > 1)
      OBVIOUS
    <3>7. Stands(1, 1)
      BY <1>1, <3>2, <3>4, <3>5 DEF Stands
    <3>8. Placed(1, 1)
      BY <1>1, <1>2, <3>2, <3>6, <3>7 DEF Placed
    <3> QED
      BY <3>8 DEF Progress
  <2> QED
    BY <2>1, <2>2
<1>4. Stuck
  <2> SUFFICES ASSUME NEW i, NEW j, Stands(i, j), IsPart(At(i, j)), At(i, j).at # "until"
               PROVE  fed < Begin(i, j + 1)
    BY DEF Stuck
  <2>1. IsPlace(i, j) /\ Begin(i, j) = 0 /\ At(i, j).at = "headers"
    BY <1>1 DEF Stands, Kind, Within
  <2>2. Len(At(i, j).bytes) = 2
    BY <2>1, BlockLength
  <2>3. Begin(i, j + 1) = Begin(i, j) + Len(At(i, j).bytes)
    BY <1>1, <2>1, PartLies
  <2>4. Begin(i, j + 1) = 2
    BY <2>1, <2>2, <2>3
  <2> QED
    BY <1>1, <2>4
<1> QED
  BY <1>1, <1>3, <1>4 DEF PartInv

LEMMA PartStep ==
  ASSUME Conforming, RefInv, PartInv, [Next]_vars
  PROVE  PartInv'
<1>1. Sent
  BY DEF PartInv
<1>2. call \in {"none", "draining", "bad", "cut", "closed"}
  BY DEF RefInv, TypeOK, PartInv
<1>3. CASE Drain
  <2>1. /\ call = "draining" /\ UNCHANGED <<msgs, stream, capture>>
        /\ call' \in {"draining", "none", "bad", "panic"}
        /\ call' = "none" => UNCHANGED <<input, framing>>
    BY <1>3, DrainKeeps DEF input
  <2>2. Sent'
    BY <1>1, <2>1, Unmoved
  <2>3. Progress
    BY <2>1 DEF PartInv
  <2>7. call' # "panic"
    BY <1>1, <1>3, <2>3, NoPanic
  <2>4. call' = "bad" => Refused'
    BY <1>1, <1>3, <2>3, BadStep
  <2>5. call' \in {"none", "draining"} => Progress'
    BY <1>1, <2>1, <2>3, OpenStep
  <2>6. call' = "none" => Stuck'
    BY <1>1, <1>3, <2>1, BreakStuck, StuckStays
  <2> QED
    BY <2>1, <2>2, <2>4, <2>5, <2>6, <2>7 DEF PartInv
<1>4. ASSUME NEW n \in 1 .. Len(stream), Feed(n) PROVE PartInv'
  <2>1. call = "none" /\ call' = "draining" /\ UNCHANGED <<msgs, stream, capture>>
    BY <1>4 DEF Feed
  <2>2. Sent'
    BY <1>1, <2>1, Unmoved
  <2>3. Progress
    BY <2>1 DEF PartInv
  <2>4. Progress'
    BY <1>1, <2>1, <2>3, OpenStep
  <2> QED
    BY <2>1, <2>2, <2>4 DEF PartInv
<1>5. CASE Close
  <2>1. call = "none" /\ UNCHANGED <<msgs, stream, fed, capture, completed>>
    BY <1>5 DEF Close, input
  <2>2. Sent'
    BY <1>1, <2>1, Unmoved
  <2>3. Progress /\ Stuck
    BY <2>1 DEF PartInv
  <2>4. CASE state.at = "until"
    <3>1. Concluded'
      BY <1>1, <1>5, <2>3, <2>4, ClosedStep
    <3>2. call' = "closed"
      BY <1>5, <2>4 DEF Close
    <3> QED
      BY <2>2, <3>1, <3>2 DEF PartInv
  <2>5. CASE state.at # "until"
    <3>1. call' = "cut" /\ UNCHANGED <<framing, responses>>
      BY <1>5, <2>5 DEF Close
    <3>2. UNCHANGED <<input, framing>> /\ UNCHANGED Cursor /\ state' = state
      BY <2>1, <3>1 DEF Cursor, input, framing, Left
    <3>3. Stuck'
      BY <2>3, <3>2, StuckStays
    <3>4. Progress'
      BY <2>1, <2>3, <3>2, ProgressStays
    <3> QED
      BY <2>2, <2>5, <3>1, <3>2, <3>3, <3>4 DEF PartInv
  <2> QED
    BY <2>4, <2>5
<1>6. CASE UNCHANGED vars
  <2>1. /\ UNCHANGED <<msgs, stream, fed, capture, state, call, responses>> /\ UNCHANGED Cursor
        /\ UNCHANGED <<input, framing>>
    BY <1>6 DEF vars, input, framing, Cursor, Left
  <2>2. Sent'
    BY <1>1, <2>1, Unmoved
  <2>3. Progress => Progress'
    BY <2>1, ProgressStays
  <2>4. Stuck => Stuck'
    BY <2>1, StuckStays
  <2> DEFINE i == Len(msgs)
  <2>5. Start(i)' = Start(i) /\ Answers(i - 1)' = Answers(i - 1) /\ i' = i
    <3>1. Start(i)' = Start(i)
      BY <2>1, Unmoved
    <3>2. Answers(i - 1)' = Answers(i - 1)
      BY <2>1, Unmoved
    <3> QED
      BY <2>1, <3>1, <3>2
  <2>6. Refused => Refused'
    BY <2>1, <2>5 DEF Refused
  <2>7. Expected(i)' = Expected(i)
    BY <2>1, <2>5 DEF Expected
  <2>8. Concluded => Concluded'
    BY <2>1, <2>5, <2>7 DEF Concluded
  <2> QED
    BY <2>1, <2>2, <2>3, <2>4, <2>6, <2>8 DEF PartInv
<1> QED
  BY <1>3, <1>4, <1>5, <1>6 DEF Next

\* The messages follow one another.
LEMMA StartsGrow ==
  ASSUME Conforming, Sent, NEW i \in 1 .. Len(msgs) + 1, NEW k \in 1 .. Len(msgs) + 1, i <= k
  PROVE  Start(i) \in Nat /\ Start(k) \in Nat /\ Start(i) <= Start(k)
<1> DEFINE t == Bytes(msgs)
           a == i - 1
           b == k - 1
<1>1. t \in Seq(Seq(Byte)) /\ Len(t) = Len(msgs) /\ Len(msgs) \in Nat
  BY BytesTyped, MessagesTyped
<1>2. Start(i) = Len(Joined(t, a)) /\ Start(k) = Len(Joined(t, b))
  BY DEF Start
<1>3. a \in 0 .. Len(t) /\ b \in 0 .. Len(t) /\ b \in a .. Len(t)
  BY <1>1
<1> HIDE DEF t, a, b
<1>4. Joined(t, a) \in Seq(Byte) /\ Joined(t, b) \in Seq(Byte)
  BY <1>1, <1>3, JoinedFacts
<1>5. Len(Joined(t, a)) <= Len(Joined(t, b))
  BY <1>1, <1>3, Prefix
<1>6. Len(Joined(t, a)) \in Nat /\ Len(Joined(t, b)) \in Nat
  BY <1>4
<1> QED
  BY <1>2, <1>5, <1>6

\* The messages that have arrived are the first k.
LEMMA FirstArrived ==
  ASSUME NEW k \in 0 .. Len(msgs), Len(msgs) \in Nat, \A i \in 1 .. Len(msgs) : Arrived(i) <=> i <= k
  PROVE  AllExpected = [i \in 1 .. k |-> Expected(i)]
<1> DEFINE Is(x) == \A i \in 1 .. Len(msgs) : Arrived(i) <=> i <= x
           n == CHOOSE x \in 0 .. Len(msgs) : Is(x)
<1>1. Is(k)
  OBVIOUS
<1> HIDE DEF Is
<1>2. n \in 0 .. Len(msgs) /\ Is(n)
  BY <1>1
<1>3. AllExpected = [i \in 1 .. n |-> Expected(i)]
  BY DEF AllExpected, Is
<1> HIDE DEF n
<1>4. \A i \in 1 .. Len(msgs) : i <= n <=> i <= k
  BY <1>1, <1>2 DEF Is
<1>5. n \in Nat /\ k \in Nat /\ n <= Len(msgs) /\ k <= Len(msgs)
  BY <1>2
<1>6. n <= k
  <2> SUFFICES ASSUME n > k PROVE FALSE
    BY <1>5
  <2>1. n \in 1 .. Len(msgs)
    BY <1>5
  <2> QED
    BY <1>4, <1>5, <2>1
<1>7. k <= n
  <2> SUFFICES ASSUME k > n PROVE FALSE
    BY <1>5
  <2>1. k \in 1 .. Len(msgs)
    BY <1>5
  <2> QED
    BY <1>4, <1>5, <2>1
<1>8. n = k
  BY <1>5, <1>6, <1>7
<1> QED
  BY <1>3, <1>8

LEMMA AnswersExpected ==
  ASSUME NEW n, \A i \in 1 .. n : msgs[i].ends = "here"
  PROVE  Answers(n) = [i \in 1 .. n |-> Expected(i)]
<1>1. \A i \in 1 .. n : Answer(i) = Expected(i)
  BY DEF Answer, Expected
<1> QED
  BY <1>1, Zenon DEF Answers

\* Between two feeds the responses are those of the messages that have arrived.
LEMMA WholeBetween ==
  ASSUME Conforming, RefInv, PartInv, call = "none"
  PROVE  responses = AllExpected
<1>1. Sent /\ Progress /\ Stuck
  BY DEF PartInv
<1>2. responses \o completed = responses
  BY DEF RefInv, RespInv
<1>3. /\ fed \in Nat /\ Left \in Nat /\ fed - Left \in Nat /\ Len(msgs) \in Nat
      /\ \A i \in 1 .. Len(msgs) : i < Len(msgs) => msgs[i].ends = "here"
  BY <1>1, Window, MessagesTyped
<1>4. CASE Over
  <2>1. fed - Left = Len(stream) /\ responses = Answers(Len(msgs)) /\ \A i \in 1 .. Len(msgs) : msgs[i].ends = "here"
    BY <1>2, <1>4 DEF Over
  <2>2. ASSUME NEW i \in 1 .. Len(msgs) PROVE Arrived(i)
    <3>1. Start(i + 1) <= Len(stream) /\ Start(i + 1) \in Nat /\ Len(stream) \in Nat
      BY <1>1, MessageLies
    <3>2. Start(i + 1) <= fed
      BY <1>3, <2>1, <3>1
    <3>3. \A x \in 1 .. i - 1 : msgs[x].ends = "here"
      BY <1>3, <2>1
    <3> QED
      BY <2>1, <3>2, <3>3 DEF Arrived
  <2>3. Len(msgs) \in 0 .. Len(msgs) /\ \A i \in 1 .. Len(msgs) : Arrived(i) <=> i <= Len(msgs)
    BY <1>3, <2>2
  <2>4. AllExpected = [i \in 1 .. Len(msgs) |-> Expected(i)]
    BY <1>3, <2>3, FirstArrived
  <2>5. Answers(Len(msgs)) = [i \in 1 .. Len(msgs) |-> Expected(i)]
    BY <2>1, AnswersExpected
  <2> QED
    BY <2>1, <2>4, <2>5
<1>5. ASSUME NEW i, NEW j, Placed(i, j) PROVE responses = AllExpected
  <2>1. IsPlace(i, j) /\ fed - Left = Begin(i, j) /\ Stands(i, j) /\ responses = Answers(i - 1)
    BY <1>2, <1>5 DEF Placed, Stands
  <2>2. i \in Nat /\ i > 0 /\ i <= Len(msgs) /\ i \in 1 .. Len(msgs)
    BY <1>1, <2>1, PlaceNumbers
  <2>3. Fits(i, j)
    BY <1>1, <2>1, PlaceFits
  <2>4. /\ Start(i) \in Nat /\ Begin(i, j) \in Nat /\ Start(i) <= Begin(i, j)
        /\ Begin(i, j + 1) <= Start(i + 1) /\ Start(i + 1) \in Nat
    BY <1>1, <2>1, PartLies
  <2>5. Begin(i, j + 1) \in Nat
    <3>1. Begin(i, j + 1) = Begin(i, j) + Len(At(i, j).bytes) /\ Len(At(i, j).bytes) \in Nat
      BY <1>1, <2>1, PartLies
    <3> QED
      BY <2>4, <3>1
  <2>6. Start(i) <= fed
    BY <1>3, <2>1, <2>4
  <2>7. \A x \in 1 .. i - 1 : msgs[x].ends = "here"
    BY <1>3, <2>2
  <2>8. ASSUME NEW x \in 1 .. Len(msgs), x <= i - 1 PROVE Arrived(x)
    <3>1. x + 1 \in 1 .. Len(msgs) + 1 /\ i \in 1 .. Len(msgs) + 1 /\ x + 1 <= i
      BY <1>3, <2>2, <2>8
    <3>2. Start(x + 1) <= Start(i) /\ Start(x + 1) \in Nat
      BY <1>1, <3>1, StartsGrow
    <3>3. Start(x + 1) <= fed
      BY <1>3, <2>4, <2>6, <3>2
    <3>4. x \in 1 .. i - 1 /\ \A y \in 1 .. x - 1 : y \in 1 .. i - 1
      BY <2>2, <2>8
    <3> QED
      BY <2>7, <3>3, <3>4 DEF Arrived
  <2>9. ASSUME NEW x \in 1 .. Len(msgs), i <= x PROVE ~Arrived(x)
    <3> SUFFICES ASSUME Arrived(x) PROVE FALSE
      OBVIOUS
    <3>1. msgs[x].ends = "here" /\ Start(x + 1) <= fed
      BY DEF Arrived
    <3>2. msgs[i].ends = "here"
      <4>1. CASE x = i
        BY <3>1, <4>1
      <4>2. CASE x # i
        <5>1. i \in 1 .. x - 1
          BY <1>3, <2>2, <2>9, <4>2
        <5> QED
          BY <5>1 DEF Arrived
      <4> QED
        BY <4>1, <4>2
    <3>3. IsPart(At(i, j)) /\ At(i, j).at # "until"
      BY <2>3, <3>2 DEF Fits
    <3>4. fed < Begin(i, j + 1)
      BY <1>1, <2>1, <3>3 DEF Stuck
    <3>5. i + 1 \in 1 .. Len(msgs) + 1 /\ x + 1 \in 1 .. Len(msgs) + 1 /\ i + 1 <= x + 1
      BY <1>3, <2>2, <2>9
    <3>6. Start(i + 1) <= Start(x + 1) /\ Start(x + 1) \in Nat
      BY <1>1, <3>5, StartsGrow
    <3> QED
      BY <1>3, <2>4, <2>5, <3>1, <3>4, <3>6
  <2> DEFINE k == i - 1
  <2>10. k \in 0 .. Len(msgs)
    BY <1>3, <2>2
  <2>11. ASSUME NEW x \in 1 .. Len(msgs) PROVE Arrived(x) <=> x <= k
    <3>1. x <= k \/ i <= x
      BY <2>2
    <3>2. x <= k => ~(i <= x)
      BY <2>2
    <3> QED
      BY <2>8, <2>9, <3>1, <3>2
  <2>12. Answers(k) = [x \in 1 .. k |-> Expected(x)]
    BY <2>7, AnswersExpected
  <2> HIDE DEF k
  <2>13. AllExpected = [x \in 1 .. k |-> Expected(x)]
    BY <1>3, <2>10, <2>11, FirstArrived
  <2>14. responses = Answers(k)
    BY <2>1 DEF k
  <2> QED
    BY <2>12, <2>13, <2>14
<1> QED
  BY <1>1, <1>4, <1>5 DEF Progress

LEMMA WholeAtEnd ==
  ASSUME Conforming, RefInv, PartInv, call = "closed"
  PROVE  responses = AllExpected
<1> DEFINE n == Len(msgs)
<1>1. Sent /\ Concluded
  BY DEF PartInv
<1>2. /\ fed \in Nat /\ n \in Nat
      /\ \A i \in 1 .. n : i < n => msgs[i].ends = "here"
  BY <1>1, Window, MessagesTyped
<1>3. /\ n \in 1 .. n /\ msgs[n].ends = "close" /\ Start(n) <= fed
      /\ responses = Append(Answers(n - 1), Expected(n))
  BY <1>1 DEF Concluded
<1>4. n - 1 \in Nat /\ n > 0 /\ \A x \in 1 .. n - 1 : msgs[x].ends = "here"
  BY <1>2, <1>3
<1>5. ASSUME NEW x \in 1 .. n PROVE Arrived(x)
  <2>1. \A y \in 1 .. x - 1 : msgs[y].ends = "here"
    BY <1>2, <1>4
  <2>2. CASE x = n
    BY <1>3, <2>1, <2>2 DEF Arrived
  <2>3. CASE x # n
    <3>1. x + 1 \in 1 .. n + 1 /\ n \in 1 .. n + 1 /\ x + 1 <= n /\ x \in 1 .. n - 1
      BY <1>2, <1>3, <2>3
    <3>2. Start(x + 1) <= Start(n) /\ Start(x + 1) \in Nat /\ Start(n) \in Nat
      BY <1>1, <3>1, StartsGrow
    <3>3. Start(x + 1) <= fed
      BY <1>2, <1>3, <3>2
    <3> QED
      BY <1>4, <2>1, <3>1, <3>3 DEF Arrived
  <2> QED
    BY <2>2, <2>3
<1>6. AllExpected = [x \in 1 .. n |-> Expected(x)]
  <2>1. n \in 0 .. n /\ \A x \in 1 .. n : Arrived(x) <=> x <= n
    BY <1>2, <1>5
  <2> QED
    BY <1>2, <2>1, FirstArrived
<1>7. Answers(n - 1) = [x \in 1 .. n - 1 |-> Expected(x)]
  BY <1>4, AnswersExpected
<1> DEFINE S == {Expected(x) : x \in 1 .. n}
           f == [x \in 1 .. n - 1 |-> Expected(x)]
           g == [x \in 1 .. n |-> Expected(x)]
           e == Expected(n)
<1>8. e \in S /\ \A x \in 1 .. n : Expected(x) \in S
  BY <1>3
<1> HIDE DEF S
<1>9. f \in Seq(S) /\ Len(f) = n - 1 /\ \A x \in 1 .. n - 1 : f[x] = Expected(x)
  BY <1>4, <1>8
<1>10. g \in Seq(S) /\ Len(g) = n /\ \A x \in 1 .. n : g[x] = Expected(x)
  BY <1>2, <1>8
<1> DEFINE h == Append(f, e)
<1> HIDE DEF f, g, e
<1>11. h \in Seq(S) /\ Len(h) = n /\ \A x \in 1 .. n : h[x] = IF x <= n - 1 THEN f[x] ELSE e
  BY <1>2, <1>4, <1>8, <1>9
<1> HIDE DEF h
<1>12. \A x \in 1 .. n : h[x] = g[x]
  <2> TAKE x \in 1 .. n
  <2>1. CASE x <= n - 1
    <3>1. x \in 1 .. n - 1
      BY <1>2, <2>1
    <3> QED
      BY <1>9, <1>10, <1>11, <2>1, <3>1
  <2>2. CASE ~(x <= n - 1)
    <3>1. x = n
      BY <1>2, <2>2
    <3> QED
      BY <1>10, <1>11, <2>2, <3>1 DEF e
  <2> QED
    BY <2>1, <2>2
<1>13. h = g
  BY <1>10, <1>11, <1>12, SameSeq
<1> QED
  BY <1>3, <1>6, <1>7, <1>13 DEF f, g, h, e

LEMMA CutInside ==
  ASSUME Conforming, RefInv, PartInv, call = "cut", NEW i \in 1 .. Len(msgs), msgs[i].ends = "close"
  PROVE  fed < Start(i) + 2
<1>1. Sent /\ Progress /\ Stuck /\ state.at # "until"
  BY DEF PartInv
<1>2. /\ fed \in Nat /\ Len(msgs) \in Nat /\ i = Len(msgs)
      /\ \A x \in 1 .. Len(msgs) : x < Len(msgs) => msgs[x].ends = "here"
  BY <1>1, Window, MessagesTyped
<1>3. ~Over
  BY DEF Over
<1>4. PICK x, j : Placed(x, j)
  BY <1>1, <1>3 DEF Progress
<1>5. Stands(x, j) /\ IsPlace(x, j) /\ state = Kind(At(x, j))
  BY <1>4 DEF Placed, Stands
<1>6. At(x, j).at # "until"
  BY <1>1, <1>5 DEF Kind
<1>7. x \in Nat /\ x > 0 /\ x <= Len(msgs) /\ x \in 1 .. Len(msgs)
  BY <1>1, <1>5, PlaceNumbers
<1>8. Fits(x, j)
  BY <1>1, <1>5, PlaceFits
<1>9. IsPart(At(x, j))
  <2>1. msgs[x].ends = "here" \/ x = i
    BY <1>2, <1>7
  <2> QED
    BY <1>8, <2>1 DEF Fits
<1>10. fed < Begin(x, j + 1)
  BY <1>1, <1>5, <1>6, <1>9 DEF Stuck
<1>11. Begin(x, j + 1) \in Nat /\ Begin(x, j + 1) <= Start(x + 1) /\ Start(x + 1) \in Nat
  <2>1. Begin(x, j + 1) = Begin(x, j) + Len(At(x, j).bytes) /\ Len(At(x, j).bytes) \in Nat /\ Begin(x, j) \in Nat
    BY <1>1, <1>5, PartLies
  <2>2. Begin(x, j + 1) <= Start(x + 1) /\ Start(x + 1) \in Nat
    BY <1>1, <1>5, PartLies
  <2> QED
    BY <2>1, <2>2
<1>12. CASE x # i
  <2>1. x + 1 \in 1 .. Len(msgs) + 1 /\ i \in 1 .. Len(msgs) + 1 /\ x + 1 <= i
    BY <1>2, <1>7, <1>12
  <2>2. Start(x + 1) <= Start(i) /\ Start(i) \in Nat
    BY <1>1, <2>1, StartsGrow
  <2> QED
    BY <1>2, <1>10, <1>11, <2>2
<1>13. CASE x = i
  <2> DEFINE n == Len(msgs[i].parts)
  <2>1. j \in Nat /\ j > 0 /\ j <= n /\ n \in Nat
    BY <1>1, <1>5, <1>13, PlaceNumbers
  <2>2. n = 2 /\ At(i, n).at = "until"
    <3>1. IsPlace(i, n)
      BY <2>1 DEF IsPlace
    <3>2. Fits(i, n)
      BY <1>1, <3>1, PlaceFits
    <3> QED
      BY <3>2 DEF Fits
  <2>3. j = 1
    <3>1. j # 2
      BY <1>6, <1>13, <2>2
    <3> QED
      BY <2>1, <2>2, <3>1
  <2>4. Start(i) \in Nat /\ Begin(i, 1 + 1) = Begin(i, 1) + Len(At(i, 1).bytes)
    BY <1>1, <1>5, <1>13, <2>3, PartLies
  <2>5. Begin(i, 1) = Start(i)
    BY <1>1, FirstLies
  <2>6. Len(At(i, 1).bytes) = 2
    <3>1. At(i, 1).at = "headers" /\ IsPart(At(i, 1))
      BY <1>8, <1>9, <1>13, <2>3 DEF Fits
    <3> QED
      BY <3>1, BlockLength
  <2>7. fed < Begin(i, 1 + 1)
    BY <1>10, <1>13, <2>3
  <2> QED
    BY <2>4, <2>5, <2>6, <2>7
<1> QED
  BY <1>12, <1>13

(***************************************************************************)
(* Of all streams that keep to the grammar, whatever the messages in them, *)
(* the framer makes the responses they hold, wherever the reads end: each  *)
(* message that has arrived, in order, with its own status, policy and     *)
(* body, and nothing of the next (ResponseFramer::feed).                   *)
(***************************************************************************)
THEOREM ResponsesAreWhole == Conforming => (Spec => []WholeResponses)
<1> SUFFICES ASSUME Conforming PROVE Spec => []WholeResponses
  OBVIOUS
<1>1. Init => BufInv /\ RespInv /\ PartInv
  BY BufInit, SimulatedInit, PartInit
<1>2. TypeOK /\ TypeOK' /\ BufInv /\ RespInv /\ PartInv /\ [Next]_vars => BufInv' /\ RespInv' /\ PartInv'
  BY BufStep, SimulatedStep, PartStep DEF RefInv, Simulated
<1>3. TypeOK /\ BufInv /\ RespInv /\ PartInv => WholeResponses
  BY WholeBetween, WholeAtEnd DEF RefInv, WholeResponses
<1> QED
  BY <1>1, <1>2, <1>3, FramerTypeCorrect, PTL DEF Spec

(***************************************************************************)
(* On such streams the framer gives up only inside a message that is       *)
(* broken, never calls a body cut that runs to the end of the stream, and  *)
(* never panics: no chunk that is sent as a whole is so large that its     *)
(* bytes could not be numbered (drain, frame_chunked, closed).             *)
(***************************************************************************)
THEOREM OnlyBrokenRejected == Conforming => (Spec => []RejectsOnlyBroken)
<1> SUFFICES ASSUME Conforming PROVE Spec => []RejectsOnlyBroken
  OBVIOUS
<1>1. Init => BufInv /\ RespInv /\ PartInv
  BY BufInit, SimulatedInit, PartInit
<1>2. TypeOK /\ TypeOK' /\ BufInv /\ RespInv /\ PartInv /\ [Next]_vars => BufInv' /\ RespInv' /\ PartInv'
  BY BufStep, SimulatedStep, PartStep DEF RefInv, Simulated
<1>3. TypeOK /\ BufInv /\ RespInv /\ PartInv => RejectsOnlyBroken
  BY CutInside DEF RefInv, PartInv, Refused, RejectsOnlyBroken
<1> QED
  BY <1>1, <1>2, <1>3, FramerTypeCorrect, PTL DEF Spec
=================================================================================
