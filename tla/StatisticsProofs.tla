--------------------------- MODULE StatisticsProofs ---------------------------
(***************************************************************************)
(* The correction stays inside the buckets and behind its own walk and     *)
(* adds each mirrored sample once, a percentile is the sample of its rank, *)
(* the reports agree, and scripts see every value once, for every          *)
(* histogram, every interval and every order of recorded values.           *)
(***************************************************************************)
EXTENDS Statistics, FiniteSetTheorems, NaturalsInduction, WellFoundedInduction, TLAPS

(***************************************************************************)
(* MirrorsBehind is not inductive: it needs that the loops run only with a *)
(* positive interval and start no lower than twice that.                   *)
(***************************************************************************)
LoopBounds ==
    /\ phase \in {"outer", "inner"} => expected > 0 /\ value >= 2 * expected
    /\ phase = "inner" => value <= hist.max /\ mirror <= value - expected

IInv == TypeOK /\ LoopBounds

LEMMA InitIInv == Init => IInv
  BY StatisticsOK, ShapeOK DEF Init, IInv, TypeOK, LoopBounds, Empty, Buckets

LEMMA RecordIInv ==
  ASSUME IInv, NEW v \in Buckets, Record(v)
  PROVE  IInv'
  <1>1. hist'.data \in [Buckets -> Nat]
    BY DEF IInv, TypeOK, Record
  <1>2. hist'.count \in Nat /\ hist'.min \in Buckets \union {U64Max} /\ hist'.max \in Buckets
    BY DEF IInv, TypeOK, Record
  <1>3. hist' = [data |-> hist'.data, count |-> hist'.count, min |-> hist'.min, max |-> hist'.max]
    BY DEF Record
  <1> QED
    BY <1>1, <1>2, <1>3 DEF IInv, TypeOK, LoopBounds, Record

LEMMA CorrectIInv ==
  ASSUME IInv, NEW e \in Intervals, Correct(e)
  PROVE  IInv'
  <1>1. e \in Int
    BY StatisticsOK, ShapeOK
  <1> QED
    BY <1>1 DEF IInv, TypeOK, LoopBounds, Correct

\* Every bucket the correction can touch is below the recorded maximum.
LEMMA Bounded ==
  ASSUME IInv
  PROVE  /\ hist.max \in Nat /\ hist.max < Limit
         /\ \A n \in Nat : n <= hist.max => n \in Buckets
         /\ phase = "inner" => value \in Buckets /\ mirror < value
         /\ phase = "inner" /\ mirror > expected => mirror \in Buckets
  <1>1. hist.max \in Buckets
    BY DEF IInv, TypeOK
  <1>2. hist.max \in Nat /\ hist.max < Limit
    BY <1>1, StatisticsOK, ShapeOK DEF Buckets
  <1>3. \A n \in Nat : n <= hist.max => n \in Buckets
    BY <1>2, StatisticsOK, ShapeOK DEF Buckets
  <1>4. ASSUME phase = "inner" PROVE /\ value \in Nat /\ expected \in Int /\ mirror \in Int
                                    /\ expected > 0 /\ value <= hist.max
                                    /\ mirror <= value - expected
    BY <1>4 DEF IInv, TypeOK, LoopBounds
  <1>5. phase = "inner" => value \in Buckets /\ mirror < value
    BY <1>2, <1>3, <1>4
  <1>6. ASSUME phase = "inner", mirror > expected PROVE mirror \in Nat /\ mirror <= hist.max
    BY <1>2, <1>4, <1>6
  <1> QED
    BY <1>2, <1>3, <1>5, <1>6

LEMMA ReadBucketIInv ==
  ASSUME IInv, ReadBucket
  PROVE  IInv'
  <1>1. value \in Buckets
    BY Bounded DEF IInv, TypeOK, ReadBucket
  <1>2. hist.data[value] \in Nat
    BY <1>1 DEF IInv, TypeOK
  <1> QED
    BY <1>1, <1>2 DEF IInv, TypeOK, LoopBounds, ReadBucket, Buckets

LEMMA MirrorIInv ==
  ASSUME IInv, Mirror
  PROVE  IInv'
  <1>1. mirror \in Buckets
    BY Bounded DEF Mirror
  <1>2. hist'.data = [hist.data EXCEPT ![mirror] = @ + copies]
    BY DEF Mirror
  <1>3. hist'.data \in [Buckets -> Nat]
    BY <1>1, <1>2 DEF IInv, TypeOK
  <1>4. hist' = [data |-> hist'.data, count |-> hist.count + copies,
                 min |-> hist.min, max |-> hist.max]
    BY DEF Mirror
  <1>5. hist.count + copies \in Nat
    BY DEF IInv, TypeOK
  <1>6. TypeOK'
    BY <1>3, <1>4, <1>5 DEF IInv, TypeOK, Mirror
  <1>7. LoopBounds'
    BY <1>4 DEF IInv, TypeOK, LoopBounds, Mirror
  <1> QED
    BY <1>6, <1>7 DEF IInv

LEMMA StepIInv == IInv /\ [Next]_vars => IInv'
  <1> SUFFICES ASSUME IInv, [Next]_vars PROVE IInv'
    OBVIOUS
  <1>1. ASSUME NEW v \in Buckets, Record(v) PROVE IInv'
    BY <1>1, RecordIInv
  <1>2. ASSUME NEW e \in Intervals, Correct(e) PROVE IInv'
    BY <1>2, CorrectIInv
  <1>3. CASE ReadBucket
    BY <1>3, ReadBucketIInv
  <1>4. CASE Mirror
    BY <1>4, MirrorIInv
  <1>5. CASE NextBucket
    BY <1>5 DEF IInv, TypeOK, LoopBounds, NextBucket
  <1>6. CASE Corrected
    BY <1>6 DEF IInv, TypeOK, LoopBounds, Corrected
  <1>7. ASSUME NEW e \in Errors, Report(e) PROVE IInv'
    BY <1>7, StatisticsOK, ShapeOK DEF IInv, TypeOK, LoopBounds, Report
  <1>8. CASE UNCHANGED vars
    BY <1>8 DEF vars, IInv, TypeOK, LoopBounds
  <1> QED
    BY <1>1, <1>2, <1>3, <1>4, <1>5, <1>6, <1>7, <1>8 DEF Next

\* Every state is well typed, in the loops of the correction too; that the buckets
\* they index exist is NeverMirrorsAhead.
LEMMA TypeCorrect == Spec => []TypeOK
  <1>1. IInv => TypeOK
    BY DEF IInv
  <1> QED
    BY <1>1, InitIInv, StepIInv, PTL DEF Spec

(***************************************************************************)
(* No access of correct is outside the buckets and none is at or above the *)
(* bucket being mirrored, whatever the interval: no panic, and no sample   *)
(* is mirrored from a mirror.                                              *)
(***************************************************************************)
THEOREM NeverMirrorsAhead == Spec => []MirrorsBehind
  <1>1. IInv => MirrorsBehind
    BY Bounded DEF MirrorsBehind
  <1> QED
    BY <1>1, InitIInv, StepIInv, PTL DEF Spec

(***************************************************************************)
(* The correction only adds, so a count never falls, and it never moves    *)
(* the range the readers walk (Histogram::correct leaves min and max).     *)
(***************************************************************************)
CorrectionOnlyAdds ==
    [][phase # "recording" =>
          /\ \A b \in Buckets : hist'.data[b] >= hist.data[b]
          /\ hist'.count >= hist.count
          /\ hist'.min = hist.min /\ hist'.max = hist.max]_vars

THEOREM OnlyAdds == Spec => CorrectionOnlyAdds
  <1> DEFINE Adds == phase # "recording" =>
          /\ \A b \in Buckets : hist'.data[b] >= hist.data[b]
          /\ hist'.count >= hist.count
          /\ hist'.min = hist.min /\ hist'.max = hist.max
  <1>1. IInv /\ [Next]_vars => [Adds]_vars
    <2> SUFFICES ASSUME IInv, Next, phase # "recording" PROVE Adds
      OBVIOUS
    <2>1. CASE hist' = hist
      <3>1. \A b \in Buckets : hist.data[b] \in Nat
        BY DEF IInv, TypeOK
      <3>2. hist.count \in Nat
        BY DEF IInv, TypeOK
      <3> QED
        BY <2>1, <3>1, <3>2
    <2>2. CASE Mirror
      <3>1. mirror \in Buckets
        BY <2>2, Bounded DEF Mirror
      <3>2. hist'.data = [hist.data EXCEPT ![mirror] = @ + copies]
        BY <2>2 DEF Mirror
      <3>3. \A b \in Buckets : hist'.data[b] >= hist.data[b]
        BY <3>1, <3>2 DEF IInv, TypeOK
      <3>4. hist'.count = hist.count + copies /\ hist'.min = hist.min /\ hist'.max = hist.max
        BY <2>2 DEF Mirror
      <3> QED
        BY <3>3, <3>4 DEF IInv, TypeOK
    <2> QED
      BY <2>1, <2>2 DEF Next, Record, Correct, ReadBucket, NextBucket, Corrected, Report
  <1> QED
    BY <1>1, InitIInv, StepIInv, PTL DEF Spec, CorrectionOnlyAdds

-----------------------------------------------------------------------------
(* How many values a set of buckets holds. *)

LEMMA BucketsFinite ==
  /\ IsFiniteSet(Buckets) /\ Buckets \subseteq Nat
  /\ \A b \in Nat : b \in Buckets <=> b < Limit
  <1>1. IsFiniteSet(0 .. Limit - 1)
    BY StatisticsOK, ShapeOK, FS_Interval
  <1> QED
    BY <1>1, StatisticsOK, ShapeOK DEF Buckets

LEMMA Copies ==
  ASSUME NEW b, NEW n \in Nat
  PROVE  IsFiniteSet({b} \X (1 .. n)) /\ Cardinality({b} \X (1 .. n)) = n
  <1>1. IsFiniteSet({b}) /\ Cardinality({b}) = 1
    BY FS_Singleton
  <1>2. IsFiniteSet(1 .. n) /\ Cardinality(1 .. n) = n
    BY FS_Interval
  <1> DEFINE one == {b}
             many == 1 .. n
  <1> HIDE DEF one, many
  <1>3. IsFiniteSet(one \X many) /\ Cardinality(one \X many) = Cardinality(one) * Cardinality(many)
    <2>1. IsFiniteSet(one) /\ IsFiniteSet(many)
      BY <1>1, <1>2 DEF one, many
    <2> QED
      BY <2>1, FS_Product
  <1>4. Cardinality(one) * Cardinality(many) = n
    BY <1>1, <1>2 DEF one, many
  <1> QED
    BY <1>3, <1>4 DEF one, many

LEMMA Disjoint ==
  ASSUME NEW A, NEW B, IsFiniteSet(A), IsFiniteSet(B), A \intersect B = {}
  PROVE  /\ IsFiniteSet(A \union B)
         /\ Cardinality(A \union B) = Cardinality(A) + Cardinality(B)
  <1>1. Cardinality(A) \in Nat /\ Cardinality(B) \in Nat
    BY FS_CardinalityType
  <1>2. Cardinality(A \intersect B) = 0
    BY FS_EmptySet
  <1>3. /\ IsFiniteSet(A \union B)
        /\ Cardinality(A \union B)
             = Cardinality(A) + Cardinality(B) - Cardinality(A \intersect B)
    BY FS_Union, Zenon
  <1> QED
    BY <1>1, <1>2, <1>3

LEMMA OneBucket ==
  ASSUME NEW h, NEW b, h.data[b] \in Nat
  PROVE  IsFiniteSet(Occurrences(h, {b})) /\ Held(h, {b}) = h.data[b]
  <1>1. Occurrences(h, {b}) = {b} \X (1 .. h.data[b])
    BY DEF Occurrences
  <1>2. /\ IsFiniteSet({b} \X (1 .. h.data[b]))
        /\ Cardinality({b} \X (1 .. h.data[b])) = h.data[b]
    BY Copies
  <1> QED
    BY <1>1, <1>2, Zenon DEF Held

\* A finite set of buckets holds finitely many values.
LEMMA HeldIsNat ==
  ASSUME NEW h, NEW S, IsFiniteSet(S), \A b \in S : h.data[b] \in Nat
  PROVE  IsFiniteSet(Occurrences(h, S)) /\ Held(h, S) \in Nat
  <1> DEFINE piece(b) == {b} \X (1 .. h.data[b])
             pieces == {piece(b) : b \in S}
             f == [b \in S |-> piece(b)]
  <1>1. f \in Surjection(S, pieces)
    BY DEF Surjection
  <1>2. IsFiniteSet(pieces)
    <2> HIDE DEF f, pieces
    <2> QED
      BY <1>1, FS_Surjection
  <1>3. ASSUME NEW b \in S PROVE IsFiniteSet(piece(b))
    <2>1. piece(b) = Occurrences(h, {b})
      BY DEF Occurrences
    <2> QED
      BY <1>3, <2>1, OneBucket
  <1>4. IsFiniteSet(UNION pieces)
    BY <1>2, <1>3, FS_UNION
  <1>5. Occurrences(h, S) = UNION pieces
    BY DEF Occurrences
  <1> QED
    BY <1>4, <1>5, FS_CardinalityType DEF Held

\* Separate sets of buckets add up.
LEMMA HeldSplit ==
  ASSUME NEW h, NEW S, NEW T, IsFiniteSet(S), IsFiniteSet(T), S \intersect T = {},
         \A b \in S \union T : h.data[b] \in Nat
  PROVE  /\ Held(h, S) \in Nat /\ Held(h, T) \in Nat
         /\ Held(h, S \union T) = Held(h, S) + Held(h, T)
  <1>1. /\ IsFiniteSet(Occurrences(h, S)) /\ Held(h, S) \in Nat
        /\ IsFiniteSet(Occurrences(h, T)) /\ Held(h, T) \in Nat
    BY HeldIsNat
  <1>2. Occurrences(h, S \union T) = Occurrences(h, S) \union Occurrences(h, T)
    BY DEF Occurrences
  <1>3. Occurrences(h, S) \intersect Occurrences(h, T) = {}
    <2> SUFFICES ASSUME NEW u, u \in Occurrences(h, S), u \in Occurrences(h, T) PROVE FALSE
      OBVIOUS
    <2>1. u[1] \in S /\ u[1] \in T
      BY DEF Occurrences
    <2> QED
      BY <2>1
  <1>4. Cardinality(Occurrences(h, S) \union Occurrences(h, T))
          = Cardinality(Occurrences(h, S)) + Cardinality(Occurrences(h, T))
    BY <1>1, <1>3, Disjoint
  <1> QED
    BY <1>1, <1>2, <1>4, Zenon DEF Held

LEMMA HeldSame ==
  ASSUME NEW h, NEW g, NEW S, \A b \in S : g.data[b] = h.data[b]
  PROVE  Held(g, S) = Held(h, S)
  <1>1. Occurrences(g, S) = Occurrences(h, S)
    BY DEF Occurrences
  <1> QED
    BY <1>1 DEF Held

\* What is added to one bucket is added to them all.
LEMMA HeldAdd ==
  ASSUME NEW h, NEW g, NEW x \in Buckets,
         \A b \in Buckets : h.data[b] \in Nat /\ g.data[b] \in Nat,
         \A b \in Buckets \ {x} : g.data[b] = h.data[b]
  PROVE  /\ Held(g, Buckets) \in Nat /\ Held(h, Buckets) \in Nat
         /\ Held(g, Buckets) + h.data[x] = Held(h, Buckets) + g.data[x]
  <1> DEFINE others == Buckets \ {x}
  <1>1. Buckets = {x} \union others /\ {x} \intersect others = {}
    OBVIOUS
  <1>2. IsFiniteSet({x}) /\ IsFiniteSet(others)
    BY BucketsFinite, FS_Singleton, FS_Difference
  <1>3. \A b \in Buckets : g.data[b] \in Nat
    OBVIOUS
  <1>4. Held(h, {x}) = h.data[x] /\ Held(g, {x}) = g.data[x]
    BY <1>3, OneBucket
  <1>5. Held(g, others) = Held(h, others)
    BY HeldSame
  <1> HIDE DEF others
  <1>6. /\ Held(h, others) \in Nat
        /\ Held(h, {x} \union others) = Held(h, {x}) + Held(h, others)
    BY <1>1, <1>2, HeldSplit
  <1>7. Held(g, {x} \union others) = Held(g, {x}) + Held(g, others)
    BY <1>1, <1>2, <1>3, HeldSplit
  <1>8. h.data[x] \in Nat /\ g.data[x] \in Nat
    OBVIOUS
  <1> QED
    BY <1>1, <1>4, <1>5, <1>6, <1>7, <1>8

-----------------------------------------------------------------------------
(* What the correction has put where, while it is at it.                   *)

(***************************************************************************)
(* The recorded values (by position in r) that bucket b shows for: its own *)
(* and those that have been mirrored to it, when the outer loop is at the  *)
(* bucket v and the inner one at m.                                        *)
(***************************************************************************)
Shown(r, b, e, v, m) ==
    {i \in 1 .. Len(r) :
        r[i] = b \/ (b \in MirrorsOf(r[i], e) /\ (r[i] < v \/ (r[i] = v /\ m < b)))}

\* The positions at which v was recorded.
Places(r, v) == {i \in 1 .. Len(r) : r[i] = v}

LEMMA PositionsFinite ==
  ASSUME NEW r \in Seq(Buckets)
  PROVE  /\ \A T \in SUBSET (1 .. Len(r)) : IsFiniteSet(T) /\ Cardinality(T) \in Nat
         /\ \A i \in 1 .. Len(r) : r[i] \in Buckets /\ r[i] \in Nat
  <1>1. IsFiniteSet(1 .. Len(r))
    BY FS_Interval
  <1>2. ASSUME NEW T \in SUBSET (1 .. Len(r)) PROVE IsFiniteSet(T) /\ Cardinality(T) \in Nat
    BY <1>1, FS_Subset, FS_CardinalityType
  <1>3. \A i \in 1 .. Len(r) : r[i] \in Buckets
    OBVIOUS
  <1>4. \A i \in 1 .. Len(r) : r[i] \in Nat
    BY <1>3, BucketsFinite
  <1> QED
    BY <1>2, <1>3, <1>4

LEMMA TimesAtLeast ==
  ASSUME NEW n \in Nat \ {0}, NEW e \in Nat \ {0}
  PROVE  n * e \in Nat /\ n * e >= e /\ n * e >= n
  <1>1. n * e = e + (n - 1) * e /\ (n - 1) * e \in Nat
    OBVIOUS
  <1>2. n * e = n + n * (e - 1) /\ n * (e - 1) \in Nat
    OBVIOUS
  <1> QED
    BY <1>1, <1>2

\* Mirrors are at least an interval below their value and above the interval.
LEMMA MirrorsBelow ==
  ASSUME NEW v \in Nat, NEW e \in Int, NEW b \in MirrorsOf(v, e)
  PROVE  e > 0 /\ b \in Nat /\ e < b /\ b <= v - e
  <1>1. b \in Nat /\ 0 < e /\ e < b
    BY BucketsFinite DEF MirrorsOf
  <1>2. PICK n \in 1 .. v : b = v - n * e
    BY DEF MirrorsOf
  <1>3. n * e \in Nat /\ n * e >= e
    BY <1>1, TimesAtLeast
  <1> QED
    BY <1>1, <1>2, <1>3

\* Before the loops reach twice the interval nothing has been mirrored.
LEMMA NoMirrorsYet ==
  ASSUME NEW r \in Seq(Buckets), NEW b \in Buckets, NEW e \in Int, NEW v \in Int, NEW m,
         e <= 0 \/ v <= 2 * e
  PROVE  Shown(r, b, e, v, m) = Places(r, b)
  <1>1. ASSUME NEW i \in 1 .. Len(r), b \in MirrorsOf(r[i], e)
        PROVE  ~(r[i] < v) /\ r[i] # v
    <2>1. r[i] \in Nat
      BY PositionsFinite
    <2>2. e > 0 /\ b \in Nat /\ e < b /\ b <= r[i] - e
      BY <1>1, <2>1, MirrorsBelow
    <2> QED
      BY <2>1, <2>2
  <1> QED
    BY <1>1 DEF Shown, Places

\* The outer loop reads its bucket before anything is mirrored from it or to it.
LEMMA ReadIsRecorded ==
  ASSUME NEW r \in Seq(Buckets), NEW e \in Int, NEW v \in Buckets
  PROVE  Shown(r, v, e, v, v) = Places(r, v)
  <1>1. v \in Nat
    BY BucketsFinite
  <1>2. ASSUME NEW i \in 1 .. Len(r), v \in MirrorsOf(r[i], e) PROVE ~(r[i] < v) /\ ~(v < v)
    <2>1. r[i] \in Nat
      BY PositionsFinite
    <2>2. e > 0 /\ v <= r[i] - e
      BY <1>2, <2>1, MirrorsBelow
    <2> QED
      BY <1>1, <2>1, <2>2
  <1> QED
    BY <1>2 DEF Shown, Places

LEMMA InnerStarts ==
  ASSUME NEW r \in Seq(Buckets), NEW b \in Buckets, NEW e \in Int, NEW v \in Nat, e > 0
  PROVE  Shown(r, b, e, v, v - e) = Shown(r, b, e, v, v)
  <1>1. ASSUME NEW i \in 1 .. Len(r), b \in MirrorsOf(r[i], e), r[i] = v
        PROVE  ~(v - e < b) /\ ~(v < b)
    <2>1. r[i] \in Nat
      BY PositionsFinite
    <2>2. b \in Nat /\ b <= r[i] - e
      BY <1>1, <2>1, MirrorsBelow
    <2> QED
      BY <1>1, <2>1, <2>2
  <1> QED
    BY <1>1 DEF Shown

(***************************************************************************)
(* One turn of the inner loop: the bucket at m shows for every place of v, *)
(* which it did not before, and no other bucket changes: nothing lies      *)
(* between two mirrors.                                                    *)
(***************************************************************************)
LEMMA MirrorHits ==
  ASSUME NEW v \in Nat, NEW e \in Nat \ {0}, NEW k \in Nat \ {0}, NEW m \in Buckets,
         m = v - k * e, e < m
  PROVE  /\ m \in MirrorsOf(v, e)
         /\ \A b \in MirrorsOf(v, e) : m - e < b => b = m \/ m < b
  <1>1. m \in Nat /\ k * e \in Nat /\ k * e >= k
    BY TimesAtLeast, BucketsFinite
  <1>2. k \in 1 .. v
    BY <1>1
  <1>3. m \in MirrorsOf(v, e)
    BY <1>1, <1>2 DEF MirrorsOf
  <1>4. ASSUME NEW b \in MirrorsOf(v, e), m - e < b, b < m PROVE FALSE
    <2>1. PICK n \in 1 .. v : b = v - n * e
      BY DEF MirrorsOf
    <2>2. n * e > k * e /\ n * e < k * e + e /\ n * e \in Int
      BY <1>1, <1>4, <2>1
    <2>3. n > k
      <3>1. n <= k => n * e <= k * e
        BY <2>1
      <3> QED
        BY <2>1, <2>2, <3>1, <1>1
    <2>4. n * e = k * e + e + (n - k - 1) * e /\ (n - k - 1) * e \in Nat
      <3>1. n - k - 1 \in Nat
        BY <2>1, <2>3
      <3> QED
        BY <2>1, <3>1
    <2> QED
      BY <1>1, <2>2, <2>4
  <1> QED
    BY <1>1, <1>3, <1>4, MirrorsBelow

\* m is some whole intervals below v.
Steps(v, e, m) == \E k \in Nat \ {0} : m = v - k * e

LEMMA MirrorMoves ==
  ASSUME NEW r \in Seq(Buckets), NEW v \in Nat, NEW e \in Nat \ {0}, NEW m \in Buckets,
         Steps(v, e, m), e < m
  PROVE  /\ Shown(r, m, e, v, m - e) = Shown(r, m, e, v, m) \union Places(r, v)
         /\ Shown(r, m, e, v, m) \intersect Places(r, v) = {}
         /\ \A b \in Buckets \ {m} : Shown(r, b, e, v, m - e) = Shown(r, b, e, v, m)
  <1>1. /\ m \in MirrorsOf(v, e)
        /\ \A b \in MirrorsOf(v, e) : m - e < b => b = m \/ m < b
    BY MirrorHits DEF Steps
  <1>2. m \in Nat /\ m < v /\ m - e < m
    BY <1>1, MirrorsBelow
  <1>3. ~(v < v) /\ ~(m < m)
    BY <1>2
  <1>4. \A b \in Buckets : b \in Nat /\ (m < b => m - e < b)
    BY <1>2, BucketsFinite
  <1>5. Shown(r, m, e, v, m - e) = Shown(r, m, e, v, m) \union Places(r, v)
    BY <1>1, <1>2, <1>3 DEF Shown, Places
  <1>6. Shown(r, m, e, v, m) \intersect Places(r, v) = {}
    BY <1>2, <1>3 DEF Shown, Places
  <1>7. ASSUME NEW b \in Buckets \ {m} PROVE Shown(r, b, e, v, m - e) = Shown(r, b, e, v, m)
    BY <1>1, <1>4 DEF Shown
  <1> QED
    BY <1>5, <1>6, <1>7

\* The inner loop ends: with the mirror at the interval all mirrors of v are there.
LEMMA InnerEnds ==
  ASSUME NEW r \in Seq(Buckets), NEW b \in Buckets, NEW e \in Nat \ {0}, NEW v \in Nat,
         NEW m \in Int, m <= e \/ Places(r, v) = {}
  PROVE  Shown(r, b, e, v + 1, v + 1) = Shown(r, b, e, v, m)
  <1>1. ASSUME NEW i \in 1 .. Len(r), b \in MirrorsOf(r[i], e)
        PROVE  (r[i] < v + 1 \/ (r[i] = v + 1 /\ v + 1 < b)) <=> (r[i] < v \/ (r[i] = v /\ m < b))
    <2>1. r[i] \in Nat
      BY PositionsFinite
    <2>2. b \in Nat /\ e < b /\ b <= r[i] - e
      BY <1>1, <2>1, MirrorsBelow
    <2>3. r[i] = v => m <= e
      BY DEF Places
    <2> QED
      BY <2>1, <2>2, <2>3
  <1> QED
    BY <1>1 DEF Shown

\* The outer loop ends: past the largest value every mirror is there.
LEMMA OuterEnds ==
  ASSUME NEW r \in Seq(Buckets), NEW b \in Buckets, NEW e \in Int, NEW v \in Int, NEW m,
         e <= 0 \/ \A i \in 1 .. Len(r) : r[i] < v
  PROVE  Shown(r, b, e, v, m) = {i \in 1 .. Len(r) : r[i] = b \/ b \in MirrorsOf(r[i], e)}
  <1>1. ASSUME NEW i \in 1 .. Len(r), b \in MirrorsOf(r[i], e) PROVE r[i] < v
    <2>1. r[i] \in Nat
      BY PositionsFinite
    <2> QED
      BY <1>1, <2>1, MirrorsBelow
  <1> QED
    BY <1>1 DEF Shown

LEMMA RecordShown ==
  ASSUME NEW r \in Seq(Buckets), NEW x \in Buckets, NEW b \in Buckets
  PROVE  Cardinality(Places(Append(r, x), b))
           = Cardinality(Places(r, b)) + (IF b = x THEN 1 ELSE 0)
  <1> DEFINE s == Append(r, x)
  <1>1. /\ Len(r) \in Nat /\ Len(s) = Len(r) + 1 /\ s[Len(r) + 1] = x
        /\ \A i \in 1 .. Len(r) : s[i] = r[i]
    OBVIOUS
  <1> HIDE DEF s
  <1>2. IsFiniteSet(Places(r, b)) /\ Cardinality(Places(r, b)) \in Nat
    BY PositionsFinite DEF Places
  <1>3. CASE b = x
    <2>1. Places(s, b) = Places(r, b) \union {Len(r) + 1} /\ Len(r) + 1 \notin Places(r, b)
      BY <1>1, <1>3 DEF Places
    <2>2. Cardinality(Places(s, b)) = Cardinality(Places(r, b)) + 1
      BY <1>2, <2>1, FS_AddElement
    <2> QED
      BY <1>3, <2>2 DEF s
  <1>4. CASE b # x
    <2>1. Places(s, b) = Places(r, b)
      BY <1>1, <1>4 DEF Places
    <2> QED
      BY <1>2, <1>4, <2>1 DEF s
  <1> QED
    BY <1>3, <1>4

\* Where the inner loop is; before and after it, nothing of the bucket is mirrored.
Level == IF phase = "inner" THEN mirror ELSE value

\* The walk of the readers: from a recorded value to the largest one.
Ranged ==
    /\ recorded \in Seq(Buckets)
    /\ \A i \in 1 .. Len(recorded) : recorded[i] <= hist.max
    /\ recorded = <<>> => hist.min = U64Max
    /\ recorded # <<>> => hist.min \in Buckets /\ hist.min <= hist.max

\* Each bucket counts what it shows, and count is what they hold together.
Filled ==
    /\ \A b \in Buckets : hist.data[b] = Cardinality(Shown(recorded, b, expected, value, Level))
    /\ hist.count = Held(hist, Buckets)

\* The locals of the loops.
Walked ==
    /\ phase = "recording" => expected = 0 /\ value = 0
    /\ phase = "inner" => /\ copies = Cardinality(Places(recorded, value))
                          /\ Steps(value, expected, mirror)
    /\ phase \in {"corrected", "reported"} => expected <= 0 \/ hist.max < value

Spreading == Ranged /\ Filled /\ Walked

LEMMA InitSpreading == Init => Spreading
  <1> SUFFICES ASSUME Init PROVE Spreading
    OBVIOUS
  <1>1. /\ recorded = <<>> /\ recorded \in Seq(Buckets) /\ Len(recorded) = 0
        /\ expected = 0 /\ value = 0 /\ phase = "recording"
        /\ hist.data = [b \in Buckets |-> 0] /\ hist.count = 0 /\ hist.min = U64Max
    BY DEF Init, Empty
  <1>2. ASSUME NEW b \in Buckets
        PROVE  Cardinality(Shown(recorded, b, expected, value, Level)) = 0
    <2>1. Shown(recorded, b, expected, value, Level) = {}
      BY <1>1 DEF Shown
    <2> QED
      BY <2>1, FS_EmptySet
  <1>3. Held(hist, Buckets) = 0
    <2>1. Occurrences(hist, Buckets) = {}
      BY <1>1 DEF Occurrences
    <2> QED
      BY <2>1, FS_EmptySet DEF Held
  <1>4. Filled
    BY <1>1, <1>2, <1>3 DEF Filled
  <1> QED
    BY <1>1, <1>4 DEF Spreading, Ranged, Walked

LEMMA RecordSpreads ==
  ASSUME IInv, Spreading, NEW v \in Buckets, Record(v)
  PROVE  Spreading'
  <1>1. /\ phase = "recording" /\ UNCHANGED <<phase, expected, value, copies, mirror>>
        /\ recorded' = Append(recorded, v)
        /\ hist'.data = [hist.data EXCEPT ![v] = hist.data[v] + 1]
        /\ hist'.count = hist.count + 1
        /\ hist'.min = IF v < hist.min THEN v ELSE hist.min
        /\ hist'.max = IF v > hist.max THEN v ELSE hist.max
    BY DEF Record
  <1>2. /\ recorded \in Seq(Buckets) /\ expected = 0 /\ value = 0 /\ expected' = 0 /\ value' = 0
        /\ phase' = "recording"
    BY <1>1 DEF Spreading, Ranged, Walked
  <1>3. /\ hist.data \in [Buckets -> Nat] /\ hist.count \in Nat
        /\ hist.max \in Nat /\ v \in Nat
        /\ hist.min \in Nat
    <2>1. hist.data \in [Buckets -> Nat] /\ hist.count \in Nat
      BY DEF IInv, TypeOK
    <2>2. hist.max \in Buckets /\ hist.min \in Buckets \union {U64Max}
      BY DEF IInv, TypeOK
    <2>3. U64Max \in Nat
      BY StatisticsOK, ShapeOK
    <2> QED
      BY <2>1, <2>2, <2>3, BucketsFinite
  <1>4. Ranged'
    <2>1. recorded' \in Seq(Buckets) /\ recorded' # <<>>
      BY <1>1, <1>2
    <2>2. ASSUME NEW i \in 1 .. Len(recorded') PROVE recorded'[i] <= hist'.max
      <3>1. CASE i = Len(recorded) + 1
        BY <1>1, <1>2, <1>3, <3>1
      <3>2. CASE i # Len(recorded) + 1
        <4>1. i \in 1 .. Len(recorded) /\ recorded'[i] = recorded[i]
          BY <1>1, <1>2, <3>2
        <4>2. recorded[i] <= hist.max /\ recorded[i] \in Nat
          BY <1>2, <4>1, PositionsFinite DEF Spreading, Ranged
        <4> QED
          BY <1>1, <1>3, <4>1, <4>2
      <3> QED
        BY <3>1, <3>2
    <2>3. hist'.min \in Buckets /\ hist'.min <= hist'.max
      <3>1. CASE recorded = <<>>
        <4>1. hist.min = U64Max /\ v < Limit
          BY <1>3, <3>1, BucketsFinite DEF Spreading, Ranged
        <4>2. v < hist.min \/ v = hist.min
          BY <1>3, <4>1, StatisticsOK, ShapeOK
        <4> QED
          BY <1>1, <1>3, <4>2
      <3>2. CASE recorded # <<>>
        BY <1>1, <1>3, <3>2 DEF Spreading, Ranged
      <3> QED
        BY <3>1, <3>2
    <2> QED
      BY <2>1, <2>2, <2>3 DEF Ranged
  <1>5. Filled'
    <2>1. ASSUME NEW b \in Buckets
          PROVE  /\ Shown(recorded, b, expected, value, Level) = Places(recorded, b)
                 /\ Shown(recorded', b, expected', value', Level') = Places(recorded', b)
      <3>1. recorded' \in Seq(Buckets)
        BY <1>1, <1>2
      <3>2. Shown(recorded, b, expected, value, Level) = Places(recorded, b)
        BY <1>2, NoMirrorsYet
      <3>3. Shown(recorded', b, expected', value', Level') = Places(recorded', b)
        BY <1>2, <3>1, NoMirrorsYet
      <3> QED
        BY <3>2, <3>3
    <2>2. ASSUME NEW b \in Buckets
          PROVE  hist'.data[b] = Cardinality(Shown(recorded', b, expected', value', Level'))
      <3>1. Cardinality(Places(recorded', b))
              = Cardinality(Places(recorded, b)) + (IF b = v THEN 1 ELSE 0)
        BY <1>1, <1>2, RecordShown
      <3>2. hist.data[b] = Cardinality(Places(recorded, b))
        BY <2>1 DEF Spreading, Filled
      <3>3. hist'.data[b] = hist.data[b] + (IF b = v THEN 1 ELSE 0) /\ hist.data[b] \in Nat
        BY <1>1, <1>3
      <3> QED
        BY <2>1, <3>1, <3>2, <3>3
    <2>3. hist'.count = Held(hist', Buckets)
      <3>1. /\ hist'.data[v] = hist.data[v] + 1
            /\ \A b \in Buckets \ {v} : hist'.data[b] = hist.data[b]
            /\ \A b \in Buckets : hist.data[b] \in Nat /\ hist'.data[b] \in Nat
        <4>1. \A b \in Buckets : hist.data[b] \in Nat
          BY <1>3
        <4>2. \A b \in Buckets : hist'.data[b] = IF b = v THEN hist.data[b] + 1 ELSE hist.data[b]
          BY <1>1, <1>3
        <4> QED
          BY <4>1, <4>2
      <3>2. /\ Held(hist', Buckets) \in Nat /\ Held(hist, Buckets) \in Nat
            /\ Held(hist', Buckets) + hist.data[v] = Held(hist, Buckets) + hist'.data[v]
        <4>1. /\ \A b \in Buckets \ {v} : hist'.data[b] = hist.data[b]
              /\ \A b \in Buckets : hist.data[b] \in Nat /\ hist'.data[b] \in Nat
          BY <3>1
        <4> QED
          BY <4>1, HeldAdd, Zenon
      <3>3. Held(hist', Buckets) = Held(hist, Buckets) + 1
        BY <3>1, <3>2
      <3> QED
        BY <1>1, <3>3 DEF Spreading, Filled
    <2> QED
      BY <2>2, <2>3 DEF Filled
  <1>6. Walked'
    BY <1>2 DEF Walked
  <1> QED
    BY <1>4, <1>5, <1>6 DEF Spreading

LEMMA CorrectSpreads ==
  ASSUME IInv, Spreading, NEW e \in Intervals, Correct(e)
  PROVE  Spreading'
  <1>1. e \in Int /\ recorded \in Seq(Buckets)
    BY StatisticsOK, ShapeOK DEF Spreading, Ranged
  <1>2. /\ phase = "recording" /\ expected' = e /\ UNCHANGED <<hist, recorded>>
        /\ e <= 0 => phase' = "corrected" /\ value' = value
        /\ ~(e <= 0) => phase' = "outer" /\ value' = 2 * e
    BY DEF Correct
  <1>3. expected = 0 /\ value = 0
    BY <1>2 DEF Spreading, Walked
  <1>4. ASSUME NEW b \in Buckets
        PROVE  Shown(recorded', b, expected', value', Level')
                 = Shown(recorded, b, expected, value, Level)
    <2>1. Shown(recorded, b, expected, value, Level) = Places(recorded, b)
      BY <1>1, <1>3, NoMirrorsYet
    <2>2. value' \in Int /\ (e <= 0 \/ value' <= 2 * e)
      BY <1>1, <1>2, <1>3
    <2>3. Shown(recorded, b, e, value', Level') = Places(recorded, b)
      BY <1>1, <2>2, NoMirrorsYet
    <2> QED
      BY <1>2, <2>1, <2>3
  <1>5. Filled'
    BY <1>2, <1>4 DEF Spreading, Filled
  <1>6. Ranged'
    BY <1>2 DEF Spreading, Ranged
  <1>7. Walked'
    BY <1>2 DEF Walked
  <1> QED
    BY <1>5, <1>6, <1>7 DEF Spreading

LEMMA ReadBucketSpreads ==
  ASSUME IInv, Spreading, ReadBucket
  PROVE  Spreading'
  <1>1. /\ phase = "outer" /\ phase' = "inner" /\ UNCHANGED <<hist, recorded, expected, value>>
        /\ copies' = hist.data[value] /\ mirror' = value - expected /\ value <= hist.max
    BY DEF ReadBucket
  <1>2. /\ expected \in Int /\ expected > 0 /\ value \in Nat /\ value \in Buckets
        /\ recorded \in Seq(Buckets)
    BY <1>1, Bounded DEF IInv, TypeOK, LoopBounds, Spreading, Ranged
  <1>3. Level = value /\ Level' = value - expected
    BY <1>1 DEF Level
  <1>4. Filled'
    <2>1. \A b \in Buckets : Shown(recorded, b, expected, value, value - expected)
                               = Shown(recorded, b, expected, value, value)
      BY <1>2, InnerStarts
    <2> QED
      BY <1>1, <1>3, <2>1 DEF Spreading, Filled
  <1>5. copies' = Cardinality(Places(recorded, value))
    BY <1>1, <1>2, <1>3, ReadIsRecorded DEF Spreading, Filled
  <1>6. Steps(value, expected, mirror')
    <2>1. mirror' = value - 1 * expected
      BY <1>1, <1>2
    <2> QED
      BY <2>1 DEF Steps
  <1>7. Walked'
    BY <1>1, <1>5, <1>6 DEF Walked
  <1>8. Ranged'
    BY <1>1 DEF Spreading, Ranged
  <1> QED
    BY <1>4, <1>7, <1>8 DEF Spreading

LEMMA MirrorSpreads ==
  ASSUME IInv, Spreading, Mirror
  PROVE  Spreading'
  <1>1. /\ phase = "inner" /\ phase' = "inner" /\ mirror > expected
        /\ UNCHANGED <<recorded, expected, value, copies>>
        /\ hist'.data = [hist.data EXCEPT ![mirror] = hist.data[mirror] + copies]
        /\ hist'.count = hist.count + copies /\ hist'.min = hist.min /\ hist'.max = hist.max
        /\ mirror' = mirror - expected
    BY DEF Mirror
  <1>2. /\ expected \in Nat \ {0} /\ value \in Nat /\ mirror \in Buckets /\ mirror \in Nat
        /\ recorded \in Seq(Buckets) /\ hist.data \in [Buckets -> Nat] /\ copies \in Nat
        /\ expected < mirror
    BY <1>1, Bounded, BucketsFinite, SMTT(30) DEF IInv, TypeOK, LoopBounds, Spreading, Ranged
  <1>3. Level = mirror /\ Level' = mirror - expected
    BY <1>1 DEF Level
  <1>4. Steps(value, expected, mirror)
    BY <1>1 DEF Spreading, Walked
  <1>5. /\ Shown(recorded, mirror, expected, value, mirror - expected)
             = Shown(recorded, mirror, expected, value, mirror) \union Places(recorded, value)
        /\ Shown(recorded, mirror, expected, value, mirror) \intersect Places(recorded, value) = {}
        /\ \A b \in Buckets \ {mirror} :
              Shown(recorded, b, expected, value, mirror - expected)
                = Shown(recorded, b, expected, value, mirror)
    BY <1>2, <1>4, MirrorMoves
  <1>6. copies = Cardinality(Places(recorded, value))
    BY <1>1 DEF Spreading, Walked
  <1>7. \A b \in Buckets : hist.data[b] = Cardinality(Shown(recorded, b, expected, value, mirror))
    BY <1>3 DEF Spreading, Filled
  <1>8. Cardinality(Shown(recorded, mirror, expected, value, mirror - expected))
          = hist.data[mirror] + copies
    <2>1. /\ IsFiniteSet(Shown(recorded, mirror, expected, value, mirror))
          /\ IsFiniteSet(Places(recorded, value))
      BY <1>2, PositionsFinite DEF Shown, Places
    <2>2. Cardinality(Shown(recorded, mirror, expected, value, mirror)
                        \union Places(recorded, value))
            = Cardinality(Shown(recorded, mirror, expected, value, mirror))
                + Cardinality(Places(recorded, value))
      BY <1>5, <2>1, Disjoint, Zenon
    <2>3. hist.data[mirror] = Cardinality(Shown(recorded, mirror, expected, value, mirror))
      BY <1>2, <1>7
    <2> QED
      BY <1>5, <1>6, <2>2, <2>3
  <1>9. /\ hist'.data[mirror] = hist.data[mirror] + copies
        /\ \A b \in Buckets \ {mirror} : hist'.data[b] = hist.data[b]
        /\ \A b \in Buckets : hist.data[b] \in Nat /\ hist'.data[b] \in Nat
    BY <1>1, <1>2
  <1>10. ASSUME NEW b \in Buckets
         PROVE  hist'.data[b]
                  = Cardinality(Shown(recorded, b, expected, value, mirror - expected))
    <2>1. CASE b = mirror
      BY <1>8, <1>9, <2>1
    <2>2. CASE b # mirror
      BY <1>5, <1>7, <1>9, <2>2
    <2> QED
      BY <2>1, <2>2
  <1>11. hist'.count = Held(hist', Buckets)
    <2>1. /\ \A b \in Buckets \ {mirror} : hist'.data[b] = hist.data[b]
          /\ \A b \in Buckets : hist.data[b] \in Nat /\ hist'.data[b] \in Nat
          /\ mirror \in Buckets
      BY <1>2, <1>9
    <2>2. /\ Held(hist', Buckets) \in Nat /\ Held(hist, Buckets) \in Nat
          /\ Held(hist', Buckets) + hist.data[mirror] = Held(hist, Buckets) + hist'.data[mirror]
      BY <2>1, HeldAdd, Zenon
    <2>3. Held(hist', Buckets) = Held(hist, Buckets) + copies
      BY <1>2, <1>9, <2>2, SMTT(30)
    <2> QED
      BY <1>1, <2>3 DEF Spreading, Filled
  <1>12. Filled'
    BY <1>1, <1>3, <1>10, <1>11 DEF Filled
  <1>13. Steps(value, expected, mirror')
    <2>1. PICK k \in Nat \ {0} : mirror = value - k * expected
      BY <1>4 DEF Steps
    <2>2. mirror' = value - (k + 1) * expected
      BY <1>1, <1>2, <2>1
    <2>3. k + 1 \in Nat \ {0}
      OBVIOUS
    <2> QED
      BY <2>2, <2>3 DEF Steps
  <1>14. Walked'
    BY <1>1, <1>6, <1>13 DEF Walked
  <1>15. Ranged'
    BY <1>1 DEF Spreading, Ranged
  <1> QED
    BY <1>12, <1>14, <1>15 DEF Spreading

LEMMA NextBucketSpreads ==
  ASSUME IInv, Spreading, NextBucket
  PROVE  Spreading'
  <1>1. /\ phase = "inner" /\ phase' = "outer" /\ (copies = 0 \/ mirror <= expected)
        /\ UNCHANGED <<hist, recorded, expected>> /\ value' = value + 1
    BY DEF NextBucket
  <1>2. /\ expected \in Nat \ {0} /\ value \in Nat /\ mirror \in Int /\ recorded \in Seq(Buckets)
    BY <1>1 DEF IInv, TypeOK, LoopBounds, Spreading, Ranged
  <1>3. Level = mirror /\ Level' = value + 1
    BY <1>1 DEF Level
  <1>4. copies = 0 => Places(recorded, value) = {}
    <2>1. IsFiniteSet(Places(recorded, value))
      BY <1>2, PositionsFinite DEF Places
    <2>2. copies = Cardinality(Places(recorded, value))
      BY <1>1 DEF Spreading, Walked
    <2> QED
      BY <2>1, <2>2, FS_EmptySet
  <1>5. \A b \in Buckets : Shown(recorded, b, expected, value + 1, value + 1)
                             = Shown(recorded, b, expected, value, mirror)
    BY <1>1, <1>2, <1>4, InnerEnds
  <1>6. Filled'
    BY <1>1, <1>3, <1>5 DEF Spreading, Filled
  <1>7. Walked'
    BY <1>1 DEF Walked
  <1>8. Ranged'
    BY <1>1 DEF Spreading, Ranged
  <1> QED
    BY <1>6, <1>7, <1>8 DEF Spreading

\* What leaves the histogram and the loops where they are.
LEMMA IdleSpreads ==
  ASSUME Spreading, UNCHANGED <<hist, recorded, expected, value, copies, mirror>>,
         (phase # "inner" /\ phase' # "inner") \/ phase' = phase,
         phase' = "recording" => phase = "recording",
         phase' \in {"corrected", "reported"} =>
            phase \in {"corrected", "reported"} \/ hist.max < value
  PROVE  Spreading'
  <1>1. Level' = Level
    BY DEF Level
  <1>2. Filled'
    BY <1>1 DEF Spreading, Filled
  <1>3. Ranged'
    BY DEF Spreading, Ranged
  <1>4. Walked'
    BY DEF Spreading, Walked
  <1> QED
    BY <1>2, <1>3, <1>4 DEF Spreading

LEMMA StepSpreading == IInv /\ Spreading /\ [Next]_vars => Spreading'
  <1> SUFFICES ASSUME IInv, Spreading, [Next]_vars PROVE Spreading'
    OBVIOUS
  <1>1. ASSUME NEW v \in Buckets, Record(v) PROVE Spreading'
    BY <1>1, RecordSpreads
  <1>2. ASSUME NEW e \in Intervals, Correct(e) PROVE Spreading'
    BY <1>2, CorrectSpreads
  <1>3. CASE ReadBucket
    BY <1>3, ReadBucketSpreads
  <1>4. CASE Mirror
    BY <1>4, MirrorSpreads
  <1>5. CASE NextBucket
    BY <1>5, NextBucketSpreads
  <1>6. CASE Corrected
    <2>1. hist.max < value
      BY <1>6, Bounded DEF Corrected, IInv, TypeOK
    <2> QED
      BY <1>6, <2>1, IdleSpreads DEF Corrected
  <1>7. ASSUME NEW e \in Errors, Report(e) PROVE Spreading'
    BY <1>7, IdleSpreads DEF Report
  <1>8. CASE UNCHANGED vars
    BY <1>8, IdleSpreads DEF vars
  <1> QED
    BY <1>1, <1>2, <1>3, <1>4, <1>5, <1>6, <1>7, <1>8 DEF Next

LEMMA SpreadingHolds == Spec => [](IInv /\ Spreading)
  BY InitIInv, StepIInv, InitSpreading, StepSpreading, PTL DEF Spec

\* Once the correction is over, or before it, the buckets are the samples.
LEMMA DataIsSamples ==
  ASSUME IInv, Spreading, phase \in {"recording", "corrected"}
  PROVE  hist.data = Samples
  <1>1. recorded \in Seq(Buckets) /\ hist.max \in Nat /\ value \in Nat /\ expected \in Int
    BY Bounded DEF Spreading, Ranged, IInv, TypeOK
  <1>2. expected <= 0 \/ \A i \in 1 .. Len(recorded) : recorded[i] < value
    <2>1. ASSUME hist.max < value, NEW i \in 1 .. Len(recorded) PROVE recorded[i] < value
      BY <1>1, <2>1, PositionsFinite DEF Spreading, Ranged
    <2> QED
      BY <2>1 DEF Spreading, Walked
  <1>3. ASSUME NEW b \in Buckets
        PROVE  hist.data[b] = Cardinality({i \in 1 .. Len(recorded) :
                                 recorded[i] = b \/ b \in MirrorsOf(recorded[i], expected)})
    <2>1. Shown(recorded, b, expected, value, Level)
            = {i \in 1 .. Len(recorded) : recorded[i] = b \/ b \in MirrorsOf(recorded[i], expected)}
      BY <1>1, <1>2, OuterEnds
    <2> QED
      BY <2>1 DEF Spreading, Filled
  <1>4. hist.data = [b \in Buckets |-> hist.data[b]]
    BY DEF IInv, TypeOK
  <1> QED
    BY <1>3, <1>4, Zenon DEF Samples

(***************************************************************************)
(* The correction leaves each bucket with the recorded values and exactly  *)
(* one mirror of each at every whole interval below it, and the count with *)
(* their sum, although it adds to the buckets that it is still to read     *)
(* (Histogram::correct).                                                   *)
(***************************************************************************)
THEOREM Spreads == Spec => []CorrectionSpreads
  <1>1. IInv /\ Spreading => CorrectionSpreads
    BY DataIsSamples DEF CorrectionSpreads, Spreading, Filled
  <1> QED
    BY <1>1, SpreadingHolds, PTL

-----------------------------------------------------------------------------
(* The percentiles. *)

\* The first of some buckets, as the walk meets it.
LEMMA FirstOf ==
  ASSUME NEW S \in SUBSET Nat, S # {}
  PROVE  Min(S) \in S /\ \A k \in S : Min(S) <= k
  <1> DEFINE L == OpToRel(<, Nat)
  <1>1. L = {ss \in Nat \X Nat : ss[1] < ss[2]}
    BY DEF OpToRel
  <1>2. IsWellFoundedOn(L, Nat)
    BY NatLessThanWellFounded
  <1>3. PICK m \in S : \A k \in S : ~(<<k, m>> \in L)
    <2> HIDE DEF L
    <2> QED
      BY <1>2, WFMin
  <1>4. ASSUME NEW k \in S PROVE m <= k
    <2>1. ~(<<k, m>> \in L) /\ k \in Nat /\ m \in Nat
      BY <1>3
    <2>2. <<k, m>> \in Nat \X Nat /\ <<k, m>>[1] = k /\ <<k, m>>[2] = m
      BY <2>1
    <2>3. ~(k < m)
      BY <1>1, <2>1, <2>2
    <2> HIDE DEF L
    <2> QED
      BY <2>1, <2>3
  <1> HIDE DEF L
  <1> QED
    BY <1>4 DEF Min

\* The buckets below b, and how many values they hold.
Lower(b) == {c \in Buckets : c < b}

LEMMA LowerSplit ==
  ASSUME NEW h, \A b \in Buckets : h.data[b] \in Nat,
         NEW x \in Buckets, NEW b \in Buckets, x <= b
  PROVE  /\ Held(h, Lower(x)) \in Nat /\ Held(h, x .. b) \in Nat
         /\ Held(h, Lower(b + 1)) = Held(h, Lower(x)) + Held(h, x .. b)
  <1>1. x \in Nat /\ b \in Nat /\ Limit \in Nat /\ b < Limit
    BY StatisticsOK, ShapeOK, BucketsFinite
  <1>2. ASSUME NEW c \in x .. b PROVE c \in Buckets /\ c \in Nat /\ x <= c /\ c <= b
    <2>1. c \in Nat /\ x <= c /\ c <= b /\ c < Limit
      BY <1>1
    <2> QED
      BY <2>1, BucketsFinite
  <1>3. Lower(b + 1) = Lower(x) \union (x .. b)
    <2>1. ASSUME NEW c \in Lower(b + 1) PROVE c \in Lower(x) \union (x .. b)
      <3>1. c \in Buckets /\ c < b + 1 /\ c \in Nat
        BY <2>1, BucketsFinite DEF Lower
      <3>2. c < x \/ c \in x .. b
        BY <1>1, <3>1
      <3> QED
        BY <3>1, <3>2 DEF Lower
    <2>2. ASSUME NEW c \in Lower(x) PROVE c \in Lower(b + 1)
      BY <1>1, <2>2, BucketsFinite DEF Lower
    <2>3. ASSUME NEW c \in x .. b PROVE c \in Lower(b + 1)
      <3>1. c \in Buckets /\ c < b + 1
        BY <1>1, <1>2, <2>3
      <3> QED
        BY <3>1 DEF Lower
    <2> QED
      BY <2>1, <2>2, <2>3
  <1>4. Lower(x) \intersect (x .. b) = {}
    BY <1>1, BucketsFinite DEF Lower
  <1>5. IsFiniteSet(Lower(x)) /\ IsFiniteSet(x .. b)
    <2>1. Lower(x) \in SUBSET Buckets
      BY DEF Lower
    <2> QED
      BY <1>1, <2>1, BucketsFinite, FS_Subset, FS_Interval
  <1>6. \A c \in Lower(x) \union (x .. b) : h.data[c] \in Nat
    BY <1>2 DEF Lower
  <1> QED
    BY <1>3, <1>4, <1>5, <1>6, HeldSplit, ZenonT(60)

\* No bucket holds more below it than all do.
LEMMA LowerBounded ==
  ASSUME NEW h, \A b \in Buckets : h.data[b] \in Nat, NEW x \in Int
  PROVE  Held(h, Lower(x)) <= Held(h, Buckets)
  <1> DEFINE others == Buckets \ Lower(x)
  <1>1. /\ Buckets = Lower(x) \union others /\ Lower(x) \intersect others = {}
        /\ Lower(x) \in SUBSET Buckets /\ others \in SUBSET Buckets
    BY DEF Lower
  <1> HIDE DEF others
  <1>2. IsFiniteSet(Lower(x)) /\ IsFiniteSet(others)
    BY <1>1, BucketsFinite, FS_Subset
  <1>3. /\ Held(h, Lower(x)) \in Nat /\ Held(h, others) \in Nat
        /\ Held(h, Lower(x) \union others) = Held(h, Lower(x)) + Held(h, others)
    BY <1>1, <1>2, HeldSplit
  <1> QED
    BY <1>1, <1>3

\* Nothing is above the largest recorded value.
LEMMA NothingAbove ==
  ASSUME IInv, Spreading, NEW b \in Buckets, hist.max < b
  PROVE  hist.data[b] = 0
  <1>1. recorded \in Seq(Buckets) /\ hist.max \in Nat /\ expected \in Int /\ b \in Nat
    BY Bounded, BucketsFinite DEF Spreading, Ranged, IInv, TypeOK
  <1>2. ASSUME NEW i \in 1 .. Len(recorded) PROVE recorded[i] # b /\ b \notin MirrorsOf(recorded[i], expected)
    <2>1. recorded[i] \in Nat /\ recorded[i] <= hist.max
      BY <1>1, PositionsFinite DEF Spreading, Ranged
    <2>2. b \in MirrorsOf(recorded[i], expected) => b <= recorded[i] - expected /\ expected > 0
      BY <1>1, <2>1, MirrorsBelow
    <2> QED
      BY <1>1, <2>1, <2>2
  <1>3. Shown(recorded, b, expected, value, Level) = {}
    BY <1>2 DEF Shown
  <1> QED
    BY <1>3, FS_EmptySet DEF Spreading, Filled

LEMMA EmptyOccurrences ==
  ASSUME NEW h, NEW S, \A b \in S : h.data[b] = 0
  PROVE  Held(h, S) = 0
  <1>1. Occurrences(h, S) = {}
    BY DEF Occurrences
  <1> QED
    BY <1>1, FS_EmptySet DEF Held

\* Up to the maximum is everything.
LEMMA LowerOfMax ==
  ASSUME IInv, Spreading
  PROVE  Held(hist, Lower(hist.max + 1)) = hist.count
  <1>1. hist.max \in Nat /\ \A b \in Buckets : b \in Nat /\ hist.data[b] \in Nat
    BY Bounded, BucketsFinite DEF IInv, TypeOK
  <1> DEFINE others == Buckets \ Lower(hist.max + 1)
  <1>2. /\ Buckets = Lower(hist.max + 1) \union others
        /\ Lower(hist.max + 1) \intersect others = {}
        /\ Lower(hist.max + 1) \in SUBSET Buckets /\ others \in SUBSET Buckets
    BY DEF Lower
  <1>3. Held(hist, others) = 0
    <2>1. \A b \in others : hist.max < b
      BY <1>1 DEF Lower
    <2> QED
      BY <2>1, NothingAbove, EmptyOccurrences
  <1> HIDE DEF others
  <1>4. IsFiniteSet(Lower(hist.max + 1)) /\ IsFiniteSet(others)
    BY <1>2, BucketsFinite, FS_Subset
  <1>5. /\ Held(hist, Lower(hist.max + 1)) \in Nat
        /\ Held(hist, Lower(hist.max + 1) \union others)
             = Held(hist, Lower(hist.max + 1)) + Held(hist, others)
    BY <1>1, <1>2, <1>4, HeldSplit
  <1> QED
    BY <1>2, <1>3, <1>5 DEF Spreading, Filled

(***************************************************************************)
(* The walk of percentile, over what the buckets hold: it ends at the      *)
(* first bucket that brings the running total to the rank.                 *)
(***************************************************************************)
LEMMA WalkFinds ==
  ASSUME IInv, Spreading, recorded # <<>>, NEW rank \in Nat \ {0}
  PROVE  LET reached == {b \in Walk(hist) : Held(hist, hist.min .. b) >= rank}
             lost == Held(hist, Lower(hist.min))
             answer == Min(reached)
         IN  /\ reached = {} <=> rank + lost > hist.count
             /\ reached # {} => /\ Held(hist, Lower(answer)) - lost < rank
                                /\ rank <= Held(hist, Lower(answer + 1)) - lost
  <1> DEFINE reached == {b \in Walk(hist) : Held(hist, hist.min .. b) >= rank}
             lost == Held(hist, Lower(hist.min))
             answer == Min(reached)
  <1>1. /\ hist.min \in Buckets /\ hist.min \in Nat /\ hist.max \in Buckets /\ hist.max \in Nat
        /\ hist.min <= hist.max
        /\ \A b \in Buckets : b \in Nat /\ hist.data[b] \in Nat
    BY BucketsFinite DEF Spreading, Ranged, IInv, TypeOK
  <1>2. ASSUME NEW b \in Walk(hist)
        PROVE  b \in Buckets /\ b \in Nat /\ hist.min <= b /\ b <= hist.max
    <2>1. b \in Nat /\ hist.min <= b /\ b <= hist.max
      BY <1>1 DEF Walk
    <2>2. Limit \in Nat /\ hist.max < Limit
      BY <1>1, StatisticsOK, ShapeOK, BucketsFinite
    <2>3. b < Limit
      BY <1>1, <2>1, <2>2
    <2> QED
      BY <2>1, <2>3, BucketsFinite
  <1>3. ASSUME NEW b \in Walk(hist)
        PROVE  /\ lost \in Nat /\ Held(hist, hist.min .. b) \in Nat
               /\ Held(hist, Lower(b + 1)) = lost + Held(hist, hist.min .. b)
               /\ Held(hist, Lower(b + 1)) <= hist.count
    <2>1. /\ lost \in Nat /\ Held(hist, hist.min .. b) \in Nat
          /\ Held(hist, Lower(b + 1)) = lost + Held(hist, hist.min .. b)
      BY <1>1, <1>2, LowerSplit
    <2>2. Held(hist, Lower(b + 1)) <= Held(hist, Buckets)
      BY <1>1, <1>2, LowerBounded
    <2> QED
      BY <2>1, <2>2 DEF Spreading, Filled
  <1>4. hist.max \in Walk(hist) /\ Held(hist, Lower(hist.max + 1)) = hist.count
    BY <1>1, LowerOfMax DEF Walk
  <1>5. hist.count \in Nat
    BY DEF IInv, TypeOK
  <1> HIDE DEF lost
  <1>6. reached = {} <=> rank + lost > hist.count
    <2>1. ASSUME rank + lost > hist.count, NEW b \in reached PROVE FALSE
      BY <1>3, <1>5, <2>1
    <2>2. ASSUME ~(rank + lost > hist.count) PROVE hist.max \in reached
      BY <1>3, <1>4, <1>5, <2>2
    <2> QED
      BY <2>1, <2>2
  <1>7. ASSUME reached # {}
        PROVE  /\ Held(hist, Lower(answer)) - lost < rank
               /\ rank <= Held(hist, Lower(answer + 1)) - lost
    <2>1. reached \in SUBSET Nat
      BY <1>2
    <2>2. answer \in reached /\ \A b \in reached : answer <= b
      <3> HIDE DEF reached
      <3> QED
        BY <1>7, <2>1, FirstOf
    <2> HIDE DEF answer
    <2>3. answer \in Walk(hist) /\ Held(hist, hist.min .. answer) >= rank
      BY <2>2
    <2>4. rank <= Held(hist, Lower(answer + 1)) - lost
      BY <1>3, <2>3
    <2>5. ASSUME answer = hist.min PROVE Held(hist, Lower(answer)) - lost < rank
      <3>1. Held(hist, Lower(answer)) = lost /\ lost \in Nat
        BY <1>3, <2>3, <2>5 DEF lost
      <3> QED
        BY <3>1
    <2>6. CASE answer # hist.min
      <3>1. answer - 1 \in Walk(hist) /\ ~(answer <= answer - 1)
        BY <1>1, <1>2, <2>3, <2>6 DEF Walk
      <3>2. answer - 1 \notin reached
        <4> HIDE DEF reached
        <4> QED
          BY <2>2, <3>1
      <3>3. ~(Held(hist, hist.min .. answer - 1) >= rank)
        BY <3>1, <3>2
      <3>4. (answer - 1) + 1 = answer
        BY <1>2, <2>3
      <3> QED
        BY <1>3, <2>4, <3>1, <3>3, <3>4
    <2> QED
      BY <2>4, <2>5, <2>6
  <1> QED
    BY <1>6, <1>7 DEF lost

\* The walk of an empty histogram has no bucket, and nothing is held.
LEMMA NothingRecorded ==
  ASSUME IInv, Spreading, recorded = <<>>
  PROVE  Walk(hist) = {} /\ hist.count = 0
  <1>1. Walk(hist) = {}
    <2>1. hist.max \in Nat /\ Limit \in Nat /\ hist.max < Limit /\ hist.min = U64Max
      BY StatisticsOK, ShapeOK, BucketsFinite DEF Spreading, Ranged, IInv, TypeOK
    <2>2. U64Max \in Nat /\ hist.max < U64Max
      BY <2>1, StatisticsOK, ShapeOK
    <2> QED
      BY <2>1, <2>2 DEF Walk
  <1>2. \A b \in Buckets : hist.data[b] = 0
    <2>1. ASSUME NEW b \in Buckets PROVE Shown(recorded, b, expected, value, Level) = {}
      BY DEF Shown
    <2> QED
      BY <2>1, FS_EmptySet DEF Spreading, Filled
  <1>3. Held(hist, Buckets) = 0
    BY <1>2, EmptyOccurrences
  <1> QED
    BY <1>1, <1>3 DEF Spreading, Filled

\* What Percentile answers, whichever rank its argument gives.
LEMMA AnswerIsRank ==
  ASSUME IInv, Spreading, NEW p \in Nat,
         NEW lost, lost = IF recorded = <<>> THEN 0 ELSE Held(hist, Lower(hist.min)),
         NEW rank, rank = 1 + (p * hist.count) \div 100
  PROVE  IF rank + lost > hist.count
         THEN Percentile(hist, p) = 0
         ELSE /\ Held(hist, Lower(Percentile(hist, p))) - lost < rank
              /\ rank <= Held(hist, Lower(Percentile(hist, p) + 1)) - lost
  <1> DEFINE reached == {b \in Walk(hist) : Held(hist, hist.min .. b) >= rank}
             answer == Min(reached)
  <1>1. hist.count \in Nat
    BY DEF IInv, TypeOK
  <1>2. rank \in Nat \ {0} /\ rank = (p * hist.count) \div 100 + 1
    <2>1. p * hist.count \in Nat
      BY <1>1
    <2>2. (p * hist.count) \div 100 \in Nat
      BY <2>1
    <2> QED
      BY <2>2
  <1>3. Percentile(hist, p) = IF reached = {} THEN 0 ELSE answer
    BY <1>2, Zenon DEF Percentile
  <1>4. CASE recorded = <<>>
    <2>1. reached = {} /\ hist.count = 0
      BY <1>4, NothingRecorded
    <2> QED
      BY <1>2, <1>3, <1>4, <2>1
  <1>5. CASE recorded # <<>>
    <2>1. lost = Held(hist, Lower(hist.min))
      BY <1>5
    <2>2. /\ reached = {} <=> rank + Held(hist, Lower(hist.min)) > hist.count
          /\ reached # {} => /\ Held(hist, Lower(answer)) - Held(hist, Lower(hist.min)) < rank
                             /\ rank <= Held(hist, Lower(answer + 1)) - Held(hist, Lower(hist.min))
      BY <1>2, <1>5, WalkFinds
    <2> HIDE DEF reached, answer
    <2> QED
      BY <1>3, <2>1, <2>2
  <1> QED
    BY <1>4, <1>5

(***************************************************************************)
(* A percentile is the sample of its rank among those at or above the      *)
(* recorded minimum, and 0 only when the rank is past the last of them:    *)
(* of the samples a correct correction has, for any limit, any values and  *)
(* any interval (Histogram::percentile).                                   *)
(***************************************************************************)
THEOREM PercentilesRank == Spec => []PercentileIsRank
  <1>1. ASSUME IInv, Spreading PROVE PercentileIsRank
    <2> SUFFICES ASSUME phase \in {"recording", "corrected"} PROVE PercentileIsRank
      BY DEF PercentileIsRank
    <2> DEFINE samples == [data |-> Samples]
               below(b) == Held(samples, {c \in Buckets : c < b})
               lost == IF recorded = <<>> THEN 0 ELSE below(hist.min)
               size == below(Limit)
    <2>1. ASSUME NEW b PROVE below(b) = Held(hist, Lower(b))
      <3>1. samples.data = hist.data
        BY <1>1, DataIsSamples
      <3>2. \A c \in Lower(b) : samples.data[c] = hist.data[c]
        BY <3>1
      <3> HIDE DEF samples
      <3>3. Held(samples, Lower(b)) = Held(hist, Lower(b))
        BY <3>2, HeldSame
      <3> QED
        BY <3>3 DEF Lower
    <2>2. size = hist.count
      <3>1. Lower(Limit) = Buckets
        BY BucketsFinite DEF Lower
      <3>2. below(Limit) = Held(hist, Lower(Limit))
        BY <2>1
      <3> QED
        BY <1>1, <3>1, <3>2 DEF Spreading, Filled
    <2>3. lost = IF recorded = <<>> THEN 0 ELSE Held(hist, Lower(hist.min))
      BY <2>1
    <2>4. ASSUME NEW p \in {0, 50, 75, 90, 99, 100}
          PROVE  IF 1 + (p * size) \div 100 + lost > size
                 THEN Percentile(hist, p) = 0
                 ELSE /\ below(Percentile(hist, p)) - lost < 1 + (p * size) \div 100
                      /\ 1 + (p * size) \div 100 <= below(Percentile(hist, p) + 1) - lost
      <3>1. p \in Nat
        OBVIOUS
      <3> HIDE DEF lost, size, below
      <3>2. IF 1 + (p * hist.count) \div 100 + lost > hist.count
            THEN Percentile(hist, p) = 0
            ELSE /\ Held(hist, Lower(Percentile(hist, p))) - lost < 1 + (p * hist.count) \div 100
                 /\ 1 + (p * hist.count) \div 100 <= Held(hist, Lower(Percentile(hist, p) + 1)) - lost
        BY <1>1, <2>3, <3>1, AnswerIsRank
      <3> QED
        BY <2>1, <2>2, <3>2
    <2> QED
      BY <2>4 DEF PercentileIsRank
  <1> QED
    BY <1>1, SpreadingHolds, PTL


-----------------------------------------------------------------------------
(* The three reports.                                                      *)

\* A counter that fits is printed as it is.
LEMMA FitsPrinted ==
  ASSUME NEW n \in Nat, n <= I64Max
  PROVE  Printed(n) = n
  <1> DEFINE width == U64Max + 1
  <1>1. width \in Nat \ {0} /\ n < width
    BY StatisticsOK, ShapeOK
  <1>2. n % width = n
    <2>1. \A d \in Nat \ {0} : n < d => n % d = n
      OBVIOUS
    <2> HIDE DEF width
    <2> QED
      BY <1>1, <2>1
  <1>3. Printed(n) = IF n % width > I64Max THEN (n % width) - U64Max - 1 ELSE n % width
    BY Zenon DEF Printed
  <1>4. ~(n > I64Max)
    BY StatisticsOK, ShapeOK
  <1> HIDE DEF width
  <1> QED
    BY <1>2, <1>3, <1>4

\* Each report has some of the lines of the longest one.
LEMMA LinesAgree ==
  ASSUME NEW h, NEW lines \in {StatsRow(h), StatsOf(h),
             [avg |-> Mean(h), stdev |-> Variance(h), min |-> h.min, max |-> h.max]},
         NEW k \in DOMAIN lines
  PROVE  lines[k] = StatsOf(h)[k]
  <1>1. CASE lines = StatsRow(h)
    BY <1>1 DEF StatsRow, StatsOf
  <1>2. CASE lines = [avg |-> Mean(h), stdev |-> Variance(h), min |-> h.min, max |-> h.max]
    BY <1>2 DEF StatsOf
  <1> QED
    BY <1>1, <1>2

\* The footer leaves out only counts of zero, and prints what fits.
LEMMA FooterTells ==
  ASSUME NEW e \in [Kinds -> Nat], NEW k \in Kinds, e[k] <= I64Max
  PROVE  (IF k \in DOMAIN Footer(e) THEN Footer(e)[k] ELSE 0) = e[k]
  <1>1. e[k] \in Nat /\ Printed(e[k]) = e[k]
    BY FitsPrinted
  <1>2. CASE k \in DOMAIN Footer(e)
    BY <1>1, <1>2 DEF Footer
  <1>3. CASE k \notin DOMAIN Footer(e)
    BY <1>1, <1>3 DEF Footer, Kinds
  <1> QED
    BY <1>2, <1>3

(***************************************************************************)
(* The three reports of any run tell the same under the same names, and an *)
(* error count that the legacy report leaves out is zero, as long as the   *)
(* counts fit its 32 bits (LegacyReporter, ModernReporter, JsonReporter).  *)
(***************************************************************************)
THEOREM ReportsTellTheSame == Spec => []ReportsAgree
  <1>1. ASSUME TypeOK PROVE ReportsAgree
    <2> DEFINE run == [latency |-> hist, rate |-> Empty, errors |-> errors]
               reports == {LegacyReport(run, TRUE), ModernReport(run), JsonReport(run)}
    <2>1. ASSUME NEW r \in reports
          PROVE  /\ \A k \in DOMAIN r.latency : r.latency[k] = StatsOf(hist)[k]
                 /\ \A k \in DOMAIN r.rate : r.rate[k] = StatsOf(Empty)[k]
                 /\ r.percentiles = Percentiles(hist)
                 /\ r.errors \in {errors, Footer(errors)}
      <3>1. /\ r.latency \in {StatsRow(hist), StatsOf(hist),
                  [avg |-> Mean(hist), stdev |-> Variance(hist), min |-> hist.min, max |-> hist.max]}
            /\ r.rate \in {StatsRow(Empty), StatsOf(Empty),
                  [avg |-> Mean(Empty), stdev |-> Variance(Empty), min |-> Empty.min,
                   max |-> Empty.max]}
            /\ r.percentiles = Percentiles(hist)
            /\ r.errors \in {errors, Footer(errors)}
        BY DEF LegacyReport, ModernReport, JsonReport, StatsOf
      <3> HIDE DEF reports
      <3>2. \A k \in DOMAIN r.latency : r.latency[k] = StatsOf(hist)[k]
        BY <3>1, LinesAgree, Zenon
      <3>3. \A k \in DOMAIN r.rate : r.rate[k] = StatsOf(Empty)[k]
        BY <3>1, LinesAgree, Zenon
      <3> QED
        BY <3>1, <3>2, <3>3
    <2>2. ASSUME NEW r \in reports, NEW k \in Kinds, errors[k] <= I64Max
          PROVE  (IF k \in DOMAIN r.errors THEN r.errors[k] ELSE 0) = errors[k]
      <3>1. errors \in [Kinds -> Nat]
        BY <1>1 DEF TypeOK
      <3>2. CASE r.errors = Footer(errors)
        BY <2>2, <3>1, <3>2, FooterTells
      <3>3. CASE r.errors = errors
        BY <3>1, <3>3
      <3> HIDE DEF reports
      <3> QED
        BY <2>1, <3>2, <3>3
    <2> HIDE DEF run
    <2>3. \A r, s \in reports :
            /\ \A k \in DOMAIN r.latency \intersect DOMAIN s.latency : r.latency[k] = s.latency[k]
            /\ \A k \in DOMAIN r.rate \intersect DOMAIN s.rate : r.rate[k] = s.rate[k]
            /\ r.percentiles = s.percentiles
      <3> HIDE DEF reports
      <3> QED
        BY <2>1
    <2>4. \A r \in reports, k \in Kinds : errors[k] <= I64Max =>
            (IF k \in DOMAIN r.errors THEN r.errors[k] ELSE 0) = errors[k]
      <3> HIDE DEF reports
      <3> QED
        BY <2>2
    <2>5. Agree(reports)
      <3> HIDE DEF reports
      <3> QED
        BY <2>3, <2>4 DEF Agree
    <2> QED
      BY <2>5 DEF ReportsAgree, run
  <1> QED
    BY <1>1, TypeCorrect, PTL

-----------------------------------------------------------------------------
(* What scripts see. *)

\* The members of S below b.
Under(S, b) == {c \in S : c < b}

LEMMA UnderFacts ==
  ASSUME NEW S \in SUBSET Nat, IsFiniteSet(S)
  PROVE  /\ Cardinality(S) \in Nat
         /\ \A b \in S : /\ Cardinality(Under(S, b)) \in Nat
                         /\ Cardinality(Under(S, b)) < Cardinality(S)
         /\ \A b, c \in S : b < c => Cardinality(Under(S, b)) < Cardinality(Under(S, c))
  <1>1. ASSUME NEW A \in SUBSET S, NEW B \in SUBSET A, NEW x \in A, x \notin B
        PROVE  /\ Cardinality(A) \in Nat /\ Cardinality(B) \in Nat
               /\ Cardinality(B) < Cardinality(A)
    <2>1. IsFiniteSet(A) /\ IsFiniteSet(B)
      BY FS_Subset
    <2>2. Cardinality(A) \in Nat /\ Cardinality(B) \in Nat
      BY <2>1, FS_CardinalityType
    <2>3. Cardinality(B) <= Cardinality(A) /\ (Cardinality(B) = Cardinality(A) => B = A)
      BY <2>1, FS_Subset
    <2> QED
      BY <1>1, <2>2, <2>3
  <1>2. Cardinality(S) \in Nat
    BY FS_CardinalityType
  <1>3. ASSUME NEW b \in S
        PROVE  Cardinality(Under(S, b)) \in Nat /\ Cardinality(Under(S, b)) < Cardinality(S)
    <2>1. Under(S, b) \in SUBSET S /\ b \notin Under(S, b) /\ S \in SUBSET S
      BY DEF Under
    <2> QED
      BY <1>1, <2>1
  <1>4. ASSUME NEW b \in S, NEW c \in S, b < c
        PROVE  Cardinality(Under(S, b)) < Cardinality(Under(S, c))
    <2>1. Under(S, c) \in SUBSET S /\ b \in Under(S, c) /\ b \notin Under(S, b)
      BY <1>4 DEF Under
    <2>2. \A d \in S : d < b => d < c
      <3>1. b \in Nat /\ c \in Nat /\ \A d \in S : d \in Nat
        OBVIOUS
      <3> QED
        BY <1>4, <3>1
    <2>3. Under(S, b) \in SUBSET Under(S, c)
      BY <2>2 DEF Under
    <2> QED
      BY <1>1, <2>1, <2>3
  <1> QED
    BY <1>2, <1>3, <1>4

\* Every rank is that of a member.
LEMMA EveryRank ==
  ASSUME NEW S \in SUBSET Nat, IsFiniteSet(S), NEW n \in Nat, n < Cardinality(S)
  PROVE  \E b \in S : Cardinality(Under(S, b)) = n
  <1> DEFINE Missing == {k \in Nat : k < Cardinality(S) /\ ~\E b \in S : Cardinality(Under(S, b)) = k}
  <1> SUFFICES ASSUME Missing # {} PROVE FALSE
    OBVIOUS
  <1> DEFINE k == Min(Missing)
  <1>1. k \in Missing /\ \A i \in Missing : k <= i
    <2>1. Missing \in SUBSET Nat
      OBVIOUS
    <2> HIDE DEF Missing
    <2> QED
      BY <2>1, FirstOf
  <1> HIDE DEF k
  <1>2. k \in Nat /\ k < Cardinality(S) /\ ~\E b \in S : Cardinality(Under(S, b)) = k
    BY <1>1
  \* The least of the members that are not among the k first has rank k.
  <1>3. ASSUME NEW T \in SUBSET S, Cardinality(T) = k, \A b \in T, c \in S \ T : b < c
        PROVE  FALSE
    <2>1. S \ T # {}
      <3>1. S # T
        BY <1>2, <1>3
      <3> QED
        BY <3>1
    <2>2. S \ T \in SUBSET Nat
      OBVIOUS
    <2> DEFINE R == S \ T
               c == Min(R)
    <2>3. c \in R /\ \A d \in R : c <= d
      <3> HIDE DEF R
      <3> QED
        BY <2>1, <2>2, FirstOf DEF R
    <2> HIDE DEF c
    <2>4. Under(S, c) = T
      <3>1. ASSUME NEW d \in S, d < c PROVE d \in T
        <4>1. d \in Nat /\ c \in Nat /\ ~(c <= d)
          BY <2>3, <3>1
        <4> QED
          BY <2>3, <4>1
      <3>2. ASSUME NEW d \in T PROVE d \in S /\ d < c
        BY <1>3, <2>3
      <3> HIDE DEF R
      <3> QED
        BY <3>1, <3>2 DEF Under
    <2> QED
      BY <1>2, <1>3, <2>3, <2>4
  <1>4. CASE k = 0
    BY <1>3, <1>4, FS_EmptySet
  <1>5. CASE k # 0
    <2>1. k - 1 \in Nat /\ k - 1 \notin Missing /\ k - 1 < Cardinality(S)
      BY <1>1, <1>2, <1>5, FS_CardinalityType
    <2>2. PICK b \in S : Cardinality(Under(S, b)) = k - 1
      BY <2>1
    <2> DEFINE T == Under(S, b) \union {b}
    <2>3. T \in SUBSET S /\ \A c \in T, d \in S \ T : c < d
      BY DEF Under
    <2>4. IsFiniteSet(Under(S, b)) /\ b \notin Under(S, b)
      <3>1. Under(S, b) \in SUBSET S /\ b \notin Under(S, b)
        BY DEF Under
      <3> QED
        BY <3>1, FS_Subset
    <2>5. Cardinality(T) = k - 1 + 1
      BY <2>2, <2>4, FS_AddElement
    <2>6. Cardinality(T) = k
      BY <1>2, <2>5
    <2> HIDE DEF T
    <2> QED
      BY <1>3, <2>3, <2>6
  <1> QED
    BY <1>4, <1>5

\* What a script counts fits its integers: fewer values and buckets than the largest of
\* them, 2^63 - 1 in the engines.
ScriptsCanCount == MaxRecords <= I64Max /\ Limit <= I64Max

Few == recorded \in Seq(Buckets) /\ Len(recorded) <= MaxRecords

LEMMA FewHolds == Spec => []Few
  <1>1. Init => Few
    BY StatisticsOK, ShapeOK DEF Init, Few
  <1>2. Few /\ [Next]_vars => Few'
    <2> SUFFICES ASSUME Few, [Next]_vars PROVE Few'
      OBVIOUS
    <2>1. ASSUME NEW v \in Buckets, Record(v) PROVE Few'
      <3>1. recorded \in Seq(Buckets) /\ Len(recorded) < MaxRecords /\ recorded' = Append(recorded, v)
        BY <2>1 DEF Few, Record
      <3>2. Append(recorded, v) \in Seq(Buckets) /\ Len(Append(recorded, v)) = Len(recorded) + 1
        BY <3>1
      <3>3. Len(recorded) \in Nat /\ MaxRecords \in Nat
        BY <3>1, StatisticsOK, ShapeOK
      <3> QED
        BY <3>1, <3>2, <3>3 DEF Few
    <2>2. CASE UNCHANGED recorded
      BY <2>2 DEF Few
    <2> QED
      BY <2>1, <2>2 DEF Next, vars, Correct, ReadBucket, Mirror, NextBucket, Corrected, Report
  <1> QED
    BY <1>1, <1>2, PTL DEF Spec

LEMMA SamplesFew ==
  ASSUME Few, NEW b \in Buckets
  PROVE  Samples[b] \in Nat /\ Samples[b] <= MaxRecords
  <1> DEFINE n == Len(recorded)
             T == {i \in 1 .. n : recorded[i] = b \/ b \in MirrorsOf(recorded[i], expected)}
  <1>1. n \in Nat /\ n <= MaxRecords /\ MaxRecords \in Nat
    BY StatisticsOK, ShapeOK DEF Few
  <1>2. Samples[b] = Cardinality(T)
    BY DEF Samples
  <1>3. T \in SUBSET (1 .. n)
    OBVIOUS
  <1> HIDE DEF T, n
  <1>4. IsFiniteSet(1 .. n) /\ Cardinality(1 .. n) = n
    BY <1>1, FS_Interval
  <1>5. IsFiniteSet(T) /\ Cardinality(T) <= n
    BY <1>3, <1>4, FS_Subset
  <1>6. Cardinality(T) \in Nat
    BY <1>5, FS_CardinalityType
  <1> QED
    BY <1>1, <1>2, <1>5, <1>6

\* A number that fits is the same integer in both engines.
LEMMA SameInteger ==
  ASSUME NEW n \in Nat, n <= I64Max
  PROVE  LuaInteger(n) = n /\ JsInteger(n) = n
  <1>1. I64Max \in Nat
    BY StatisticsOK, ShapeOK
  <1> DEFINE S == {n, I64Max}
  <1>2. S \in SUBSET Nat /\ S # {}
    BY <1>1
  <1>3. n \in S /\ \A k \in S : n <= k
    BY <1>1
  <1>4. \A k \in S : k = n \/ k = I64Max
    OBVIOUS
  <1>5. LuaInteger(n) = Min(S)
    BY DEF LuaInteger
  <1> HIDE DEF S
  <1>6. Min(S) \in S /\ \A k \in S : Min(S) <= k
    BY <1>2, FirstOf
  <1>7. Min(S) = n
    <2>1. Min(S) \in Nat /\ Min(S) <= n /\ n <= Min(S)
      BY <1>2, <1>3, <1>6
    <2> QED
      BY <2>1
  <1> QED
    BY <1>1, <1>5, <1>7 DEF JsInteger

\* The answers are the occupied buckets, by rank, and behind them how many they are.
LEMMA Answers ==
  ASSUME NEW h, NEW S, S = Occupied(h), S \in SUBSET Nat, IsFiniteSet(S)
  PROVE  /\ \A b \in S : ValueAt(h, Cardinality(Under(S, b))) = <<b, h.data[b]>>
         /\ ValueAt(h, Cardinality(S)) = <<0, Cardinality(S)>>
  <1> DEFINE found(slot) == {b \in S : Cardinality(Under(S, b)) = slot}
  <1>1. ASSUME NEW slot
        PROVE  ValueAt(h, slot) =
                 IF found(slot) = {} THEN <<0, Cardinality(S)>>
                 ELSE <<Min(found(slot)), h.data[Min(found(slot))]>>
    BY DEF ValueAt, Popcount, Under
  <1>2. ASSUME NEW b \in S PROVE ValueAt(h, Cardinality(Under(S, b))) = <<b, h.data[b]>>
    <2> DEFINE slot == Cardinality(Under(S, b))
               F == found(slot)
    <2>1. b \in F
      OBVIOUS
    <2>2. ASSUME NEW c \in F PROVE c = b
      <3>1. c \in S /\ Cardinality(Under(S, c)) = slot
        OBVIOUS
      <3>2. c \in Nat /\ b \in Nat
        BY <3>1
      <3>3. slot \in Nat /\ ~(b < c) /\ ~(c < b)
        BY <3>1, UnderFacts
      <3> QED
        BY <3>2, <3>3
    <2>3. F \in SUBSET Nat /\ F # {}
      BY <2>1
    <2>4. ValueAt(h, slot) = IF F = {} THEN <<0, Cardinality(S)>> ELSE <<Min(F), h.data[Min(F)]>>
      BY <1>1
    <2> HIDE DEF F
    <2>5. Min(F) \in F
      BY <2>3, FirstOf
    <2>6. Min(F) = b
      BY <2>2, <2>5
    <2> HIDE DEF slot
    <2>7. ValueAt(h, slot) = <<b, h.data[b]>>
      BY <2>3, <2>4, <2>6
    <2> QED
      BY <2>7 DEF slot
  <1>3. found(Cardinality(S)) = {}
    <2>1. ASSUME NEW b \in S PROVE Cardinality(Under(S, b)) # Cardinality(S)
      BY UnderFacts
    <2> QED
      BY <2>1
  <1>4. ValueAt(h, Cardinality(S)) = <<0, Cardinality(S)>>
    BY <1>1, <1>3
  <1> QED
    BY <1>2, <1>4

\* What the median may be.
LEMMA PercentileSmall ==
  ASSUME NEW h, h.min \in Buckets, h.max \in Buckets, NEW p
  PROVE  Percentile(h, p) \in Buckets
  <1> DEFINE rank == (p * h.count) \div 100 + 1
             reached == {b \in Walk(h) : Held(h, h.min .. b) >= rank}
  <1>1. Percentile(h, p) = IF reached = {} THEN 0 ELSE Min(reached)
    BY DEF Percentile
  <1>2. h.min \in Nat /\ h.max \in Nat /\ h.max < Limit /\ Limit \in Nat
    BY BucketsFinite, StatisticsOK, ShapeOK
  <1>3. \A b \in Walk(h) : b \in Nat /\ b < Limit
    BY <1>2 DEF Walk
  <1>4. reached \in SUBSET Nat /\ \A b \in reached : b \in Buckets
    BY <1>3, BucketsFinite
  <1>5. 0 \in Buckets
    BY <1>2, BucketsFinite
  <1> HIDE DEF reached
  <1>6. CASE reached = {}
    BY <1>1, <1>5, <1>6
  <1>7. CASE reached # {}
    BY <1>1, <1>4, <1>7, FirstOf
  <1> QED
    BY <1>6, <1>7

\* What is shown is what the walk of the readers finds occupied.
LEMMA ShownIsOccupied ==
  ASSUME IInv, Spreading, Few, phase \in {"recording", "corrected"}, recorded # <<>>
  PROVE  Occupied(hist) = {b \in Buckets : b >= hist.min /\ Samples[b] > 0}
  <1>1. hist.data = Samples
    BY DataIsSamples
  <1>2. hist.min \in Buckets /\ hist.max \in Buckets /\ hist.min \in Nat /\ hist.max \in Nat
    <2>1. hist.min \in Buckets /\ hist.max \in Buckets
      BY DEF IInv, TypeOK, Spreading, Ranged
    <2> QED
      BY <2>1, BucketsFinite
  <1>3. \A b \in Buckets : b \in Nat /\ Samples[b] \in Nat /\ b < Limit
    BY BucketsFinite, SamplesFew
  <1>4. ASSUME NEW b \in Occupied(hist) PROVE b \in Buckets /\ b >= hist.min /\ Samples[b] > 0
    <2>1. b \in hist.min .. hist.max /\ Samples[b] # 0
      BY <1>1, <1>4 DEF Occupied, Walk
    <2>2. b \in Nat /\ b < Limit /\ b >= hist.min
      <3>1. hist.max < Limit /\ Limit \in Nat
        BY <1>2, BucketsFinite, StatisticsOK, ShapeOK
      <3> QED
        BY <1>2, <2>1, <3>1
    <2>3. b \in Buckets
      BY <2>2, BucketsFinite
    <2> QED
      BY <1>3, <2>1, <2>2, <2>3
  <1>5. ASSUME NEW b \in Buckets, b >= hist.min, Samples[b] > 0 PROVE b \in Occupied(hist)
    <2>1. Samples[b] # 0
      BY <1>3, <1>5
    <2>2. ~(hist.max < b)
      BY <1>1, <2>1, NothingAbove
    <2>3. b \in hist.min .. hist.max
      BY <1>2, <1>3, <1>5, <2>2
    <2> QED
      BY <1>1, <2>1, <2>3 DEF Occupied, Walk
  <1> QED
    BY <1>4, <1>5

LEMMA ScriptsSee ==
  ASSUME ScriptsCanCount, IInv, Spreading, Few
  PROVE  ScriptsSeeAll
  <1> DEFINE shown == {b \in Buckets : b >= hist.min /\ Samples[b] > 0}
             n == Cardinality(shown)
             answer(i) == StatsHandle(hist, i).call
             other(i) == StatsObject(hist, i).call
             Rank(b) == Cardinality(Under(shown, b))
             Fit == {k \in Nat : k <= I64Max}
  <1> SUFFICES ASSUME phase \in {"recording", "corrected"}, recorded # <<>>
               PROVE  /\ \A i \in -1 .. n + 1 :
                            /\ StatsHandle(hist, i) = StatsObject(hist, i)
                            /\ StatsHandle(hist, i).length = n
                      /\ {answer(i) : i \in 1 .. n} = {<<b, Samples[b]>> : b \in shown}
                      /\ \A i, j \in 1 .. n : i < j => answer(i)[1] < answer(j)[1]
                      /\ answer(n + 1) = <<0, n>> /\ answer(0) = "error" /\ answer(-1) = "error"
    BY Zenon DEF ScriptsSeeAll
  <1>1. shown = Occupied(hist) /\ hist.data = Samples
    BY ShownIsOccupied, DataIsSamples
  <1>2. /\ I64Max \in Nat /\ Limit \in Nat /\ MaxRecords \in Nat
        /\ MaxRecords <= I64Max /\ Limit <= I64Max
    BY StatisticsOK, ShapeOK DEF ScriptsCanCount
  <1>3. \A b \in Buckets : b \in Fit /\ Samples[b] \in Fit
    BY <1>2, BucketsFinite, SamplesFew
  <1>4. shown \in SUBSET Buckets /\ shown \in SUBSET Nat /\ IsFiniteSet(shown)
    <2>1. shown \in SUBSET Buckets
      OBVIOUS
    <2> QED
      BY <2>1, BucketsFinite, FS_Subset
  <1>5. n \in Fit
    <2>1. Cardinality(0 .. Limit - 1) = Limit
      BY <1>2, FS_Interval
    <2> HIDE DEF shown
    <2>2. Cardinality(shown) <= Cardinality(Buckets)
      BY <1>4, BucketsFinite, FS_Subset
    <2>3. Cardinality(shown) \in Nat
      BY <1>4, FS_CardinalityType
    <2> QED
      BY <1>2, <2>1, <2>2, <2>3 DEF Buckets
  <1> HIDE DEF shown
  <1>6. \A b \in shown : Rank(b) \in Nat /\ Rank(b) < n
    BY <1>4, UnderFacts
  <1>7. \A b, c \in shown : b < c => Rank(b) < Rank(c)
    BY <1>4, UnderFacts
  <1>8. \A k \in Nat : k < n => \E b \in shown : Rank(b) = k
    BY <1>4, EveryRank
  <1>9. /\ \A b \in shown : ValueAt(hist, Rank(b)) = <<b, Samples[b]>>
        /\ ValueAt(hist, n) = <<0, n>>
    BY <1>1, <1>4, Answers
  <1>10. Popcount(hist) = n
    BY <1>1 DEF Popcount
  <1>11. \A k \in Fit : LuaInteger(k) = k /\ JsInteger(k) = k
    BY SameInteger
  <1>12. /\ \A i \in Int : i < 1 => answer(i) = "error" /\ other(i) = "error"
         /\ \A k \in Nat :
              /\ answer(k + 1) = <<LuaInteger(ValueAt(hist, k)[1]), LuaInteger(ValueAt(hist, k)[2])>>
              /\ other(k + 1) = <<JsInteger(ValueAt(hist, k)[1]), JsInteger(ValueAt(hist, k)[2])>>
    <2>1. ASSUME NEW i \in Int, i < 1 PROVE answer(i) = "error" /\ other(i) = "error"
      BY <2>1 DEF StatsHandle, StatsObject
    <2>2. ASSUME NEW k \in Nat
          PROVE  /\ answer(k + 1) = <<LuaInteger(ValueAt(hist, k)[1]), LuaInteger(ValueAt(hist, k)[2])>>
                 /\ other(k + 1) = <<JsInteger(ValueAt(hist, k)[1]), JsInteger(ValueAt(hist, k)[2])>>
      <3>1. ~(k + 1 < 1) /\ k + 1 - 1 = k
        OBVIOUS
      <3> QED
        BY <3>1 DEF StatsHandle, StatsObject
    <2> HIDE DEF answer, other
    <2> QED
      BY <2>1, <2>2
  <1> HIDE DEF n, Rank, answer, other
  <1>13. ASSUME NEW b \in shown
         PROVE  answer(Rank(b) + 1) = <<b, Samples[b]>> /\ other(Rank(b) + 1) = <<b, Samples[b]>>
    <2> DEFINE k == Rank(b)
    <2>1. k \in Nat
      BY <1>6
    <2>2. ValueAt(hist, k) = <<b, Samples[b]>> /\ b \in Fit /\ Samples[b] \in Fit
      BY <1>3, <1>4, <1>9
    <2> HIDE DEF k, Fit
    <2>4. /\ answer(k + 1) = <<LuaInteger(ValueAt(hist, k)[1]), LuaInteger(ValueAt(hist, k)[2])>>
          /\ other(k + 1) = <<JsInteger(ValueAt(hist, k)[1]), JsInteger(ValueAt(hist, k)[2])>>
      BY <1>12, <2>1
    <2>5. ValueAt(hist, k)[1] = b /\ ValueAt(hist, k)[2] = Samples[b]
      BY <2>2
    <2>6. /\ LuaInteger(b) = b /\ JsInteger(b) = b
          /\ LuaInteger(Samples[b]) = Samples[b] /\ JsInteger(Samples[b]) = Samples[b]
      BY <1>11, <2>2
    <2> QED
      BY <2>4, <2>5, <2>6 DEF k
  <1>14. answer(n + 1) = <<0, n>> /\ other(n + 1) = <<0, n>>
    <2>1. n \in Nat
      BY <1>5
    <2>2. 0 \in Fit
      BY <1>2
    <2> HIDE DEF Fit
    <2>3. /\ answer(n + 1) = <<LuaInteger(ValueAt(hist, n)[1]), LuaInteger(ValueAt(hist, n)[2])>>
          /\ other(n + 1) = <<JsInteger(ValueAt(hist, n)[1]), JsInteger(ValueAt(hist, n)[2])>>
      BY <1>12, <2>1
    <2>4. ValueAt(hist, n)[1] = 0 /\ ValueAt(hist, n)[2] = n
      BY <1>9
    <2> QED
      BY <1>5, <1>11, <2>2, <2>3, <2>4
  <1>15. \A i \in 1 .. n : \E b \in shown : Rank(b) = i - 1 /\ Rank(b) + 1 = i
    <2> SUFFICES ASSUME NEW i \in 1 .. n PROVE \E b \in shown : Rank(b) = i - 1 /\ Rank(b) + 1 = i
      OBVIOUS
    <2>1. n \in Nat /\ i - 1 \in Nat /\ i - 1 < n /\ i \in Int
      BY <1>5
    <2>2. PICK b \in shown : Rank(b) = i - 1
      BY <1>8, <2>1
    <2> QED
      BY <2>1, <2>2
  <1>16. ASSUME NEW i \in -1 .. n + 1 PROVE answer(i) = other(i)
    <2>1. i \in Int /\ n \in Nat /\ (i < 1 \/ i \in 1 .. n \/ i = n + 1)
      BY <1>5
    <2>2. CASE i < 1
      BY <1>12, <2>1, <2>2
    <2>3. CASE i \in 1 .. n
      BY <1>13, <1>15, <2>3
    <2>4. CASE i = n + 1
      BY <1>14, <2>4
    <2> QED
      BY <2>1, <2>2, <2>3, <2>4
  <1>17. hist.min \in Buckets /\ hist.max \in Buckets
    BY DEF IInv, TypeOK, Spreading, Ranged
  <1>18. hist.min \in Fit /\ hist.max \in Fit /\ Percentile(hist, 50) \in Fit
    BY <1>3, <1>17, PercentileSmall
  <1>19. ASSUME NEW i \in -1 .. n + 1
         PROVE  StatsHandle(hist, i) = StatsObject(hist, i) /\ StatsHandle(hist, i).length = n
    <2> HIDE DEF Fit
    <2>1. /\ LuaInteger(hist.min) = JsInteger(hist.min) /\ LuaInteger(hist.max) = JsInteger(hist.max)
          /\ LuaInteger(Percentile(hist, 50)) = JsInteger(Percentile(hist, 50))
          /\ LuaInteger(Popcount(hist)) = n /\ JsInteger(Popcount(hist)) = n
      BY <1>5, <1>10, <1>11, <1>18
    <2> DEFINE a == StatsHandle(hist, i).call
               b == StatsObject(hist, i).call
    <2>2. a = b
      BY <1>16 DEF answer, other
    <2>3. StatsHandle(hist, i) =
            [min |-> LuaInteger(hist.min), max |-> LuaInteger(hist.max), mean |-> Mean(hist),
             stdev |-> Variance(hist), length |-> LuaInteger(Popcount(hist)),
             median |-> LuaInteger(Percentile(hist, 50)), call |-> a]
      BY DEF StatsHandle
    <2>4. StatsObject(hist, i) =
            [min |-> JsInteger(hist.min), max |-> JsInteger(hist.max), mean |-> Mean(hist),
             stdev |-> Variance(hist), length |-> JsInteger(Popcount(hist)),
             median |-> JsInteger(Percentile(hist, 50)), call |-> b]
      BY DEF StatsObject
    <2> HIDE DEF a, b
    <2> QED
      BY <2>1, <2>2, <2>3, <2>4
  <1>20. {answer(i) : i \in 1 .. n} = {<<b, Samples[b]>> : b \in shown}
    <2>1. ASSUME NEW i \in 1 .. n PROVE \E b \in shown : answer(i) = <<b, Samples[b]>>
      BY <1>13, <1>15
    <2>2. ASSUME NEW b \in shown PROVE \E i \in 1 .. n : answer(i) = <<b, Samples[b]>>
      <3>1. Rank(b) + 1 \in 1 .. n
        BY <1>5, <1>6
      <3> QED
        BY <1>13, <3>1
    <2> QED
      BY <2>1, <2>2
  <1>21. ASSUME NEW i \in 1 .. n, NEW j \in 1 .. n, i < j PROVE answer(i)[1] < answer(j)[1]
    <2>1. PICK b \in shown : Rank(b) = i - 1 /\ Rank(b) + 1 = i
      BY <1>15
    <2>2. PICK c \in shown : Rank(c) = j - 1 /\ Rank(c) + 1 = j
      BY <1>15
    <2>3. answer(i) = <<b, Samples[b]>> /\ answer(j) = <<c, Samples[c]>>
      BY <1>13, <2>1, <2>2
    <2>4. b \in Nat /\ c \in Nat /\ i \in Int /\ j \in Int
      BY <1>4
    <2>5. b # c /\ ~(Rank(c) < Rank(b))
      BY <1>21, <2>1, <2>2, <2>4
    <2>6. ~(c < b)
      BY <1>7, <2>5
    <2>7. b < c
      BY <2>4, <2>5, <2>6
    <2> QED
      BY <2>3, <2>7
  <1>22. answer(0) = "error" /\ answer(-1) = "error"
    BY <1>12
  <1> QED
    BY <1>14, <1>19, <1>20, <1>21, <1>22

(***************************************************************************)
(* A script that counts through the object up to its length meets every    *)
(* value there is to see once, in order and with its count, in both        *)
(* engines alike, as long as the counts fit their integers (StatsHandle,   *)
(* StatsObject).                                                           *)
(***************************************************************************)
THEOREM ScriptsSeeEverything == ScriptsCanCount => (Spec => []ScriptsSeeAll)
  <1> SUFFICES ASSUME ScriptsCanCount PROVE Spec => []ScriptsSeeAll
    OBVIOUS
  <1>1. IInv /\ Spreading /\ Few => ScriptsSeeAll
    BY ScriptsSee
  <1> QED
    BY <1>1, SpreadingHolds, FewHolds, PTL
================================================================================
