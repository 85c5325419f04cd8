--------------------------- MODULE HistogramProofs ---------------------------
(***************************************************************************)
(* Machine-checked proofs about Histogram, for any set of threads, any     *)
(* limit and any values.                                                   *)
(***************************************************************************)
EXTENDS Histogram, FiniteSetTheorems, TLAPS

\* The thread has added arg[t] to its bucket.
Added == {"count", "loadMin", "casMin", "loadMax", "casMax"}

\* It has still to make sure that the minimum covers arg[t].
OwesMin == {"count", "loadMin", "casMin"}

\* Each bound is the best of the values it has held, and threads only know those.
History ==
    /\ min \in mins /\ \A m \in mins : min <= m
    /\ max \in maxs /\ \A m \in maxs : m <= max
    /\ \A t \in Threads : loMin[t] \in mins /\ hiMax[t] \in maxs

\* What a thread inside record knows about its value.
InRecord ==
    \A t \in Threads :
        /\ pc[t] # "idle" => arg[t] \in Buckets
        /\ pc[t] \in Added => data[arg[t]] > 0
        /\ pc[t] = "casMin" => arg[t] < loMin[t]
        /\ pc[t] = "casMax" => arg[t] > hiMax[t]

\* A bound is still the initial one or names an occupied bucket.
BoundsAreReal ==
    /\ min = U64Max \/ min \in Filled
    /\ max = 0 \/ max \in Filled

\* An occupied bucket outside the bounds is one some thread still answers for.
Covered ==
    \A b \in Filled :
        /\ min <= b \/ \E t \in Threads : arg[t] = b /\ pc[t] \in OwesMin
        /\ b <= max \/ \E t \in Threads : arg[t] = b /\ pc[t] \in Added

\* The strengthening; TypeCorrect keeps the types beside it.
Strong == History /\ InRecord /\ BoundsAreReal /\ Covered

\* Buckets are numbers from zero to below the limit.
LEMMA BucketsAreNat ==
    /\ Buckets \subseteq Nat
    /\ 0 \in Buckets
    /\ \A v \in Nat : v < Limit => v \in Buckets
  BY HistogramOK, ShapeOK DEF Buckets

(***************************************************************************)
(* Every variable keeps its type: the steps of record never leave u64      *)
(* counters or the points of the function.                                 *)
(***************************************************************************)
THEOREM TypeCorrect == ThreadsSpec => []ThreadsTypeOK
<1>1. ThreadsInit => ThreadsTypeOK
  BY HistogramOK, ShapeOK, BucketsAreNat DEF ThreadsInit, ThreadsTypeOK, Points
<1>2. ThreadsTypeOK /\ [ThreadsNext]_threadVars => ThreadsTypeOK'
  <2> SUFFICES ASSUME ThreadsTypeOK, [ThreadsNext]_threadVars PROVE ThreadsTypeOK'
    OBVIOUS
  <2> USE HistogramOK, ShapeOK DEF ThreadsTypeOK, Goto, Points, locals, shared, SeeMin, SeeMax
  <2>1. ASSUME NEW t \in Threads, NEW v \in Values, Refuse(t, v) PROVE ThreadsTypeOK'
    BY <2>1 DEF Refuse
  <2>2. ASSUME NEW t \in Threads, NEW v \in Values, Accept(t, v) PROVE ThreadsTypeOK'
    BY <2>2, BucketsAreNat DEF Accept
  <2>3. ASSUME NEW t \in Threads, AddBucket(t) PROVE ThreadsTypeOK'
    <3>1. /\ data' = [data EXCEPT ![arg[t]] = data[arg[t]] + 1]
          /\ pc' = [pc EXCEPT ![t] = "count"]
          /\ UNCHANGED <<count, min, max, mins, maxs, locals>>
      BY <2>3 DEF AddBucket
    <3>2. ASSUME NEW b \in Buckets PROVE data'[b] \in Nat
      <4>1. data[b] \in Nat
        OBVIOUS
      <4>2. data'[b] = IF b = arg[t] THEN data[b] + 1 ELSE data[b]
        BY <3>1
      <4> QED
        BY <4>1, <4>2
    <3>3. data' \in [Buckets -> Nat]
      <4>1. data' = [b \in Buckets |-> data'[b]]
        BY <3>1
      <4> QED
        BY <3>2, <4>1
    <3> QED
      BY <3>1, <3>3
  <2>4. ASSUME NEW t \in Threads, AddCount(t) PROVE ThreadsTypeOK'
    BY <2>4 DEF AddCount
  <2>5. ASSUME NEW t \in Threads, LoadMin(t) PROVE ThreadsTypeOK'
    BY <2>5 DEF LoadMin
  <2>6. ASSUME NEW t \in Threads, SetMin(t) PROVE ThreadsTypeOK'
    <3>1. arg[t] \in Nat
      BY BucketsAreNat
    <3> QED
      BY <2>6, <3>1 DEF SetMin
  <2>7. ASSUME NEW t \in Threads, RetryMin(t) PROVE ThreadsTypeOK'
    BY <2>7 DEF RetryMin
  <2>8. ASSUME NEW t \in Threads, LoadMax(t) PROVE ThreadsTypeOK'
    BY <2>8 DEF LoadMax
  <2>9. ASSUME NEW t \in Threads, SetMax(t) PROVE ThreadsTypeOK'
    <3>1. arg[t] \in Nat
      BY BucketsAreNat
    <3> QED
      BY <2>9, <3>1 DEF SetMax
  <2>10. ASSUME NEW t \in Threads, RetryMax(t) PROVE ThreadsTypeOK'
    BY <2>10 DEF RetryMax
  <2>11. CASE UNCHANGED threadVars
    BY <2>11 DEF threadVars
  <2> QED
    BY <2>1, <2>2, <2>3, <2>4, <2>5, <2>6, <2>7, <2>8, <2>9, <2>10, <2>11
       DEF ThreadsNext, Step
<1> QED
  BY <1>1, <1>2, PTL DEF ThreadsSpec

-----------------------------------------------------------------------------
(***************************************************************************)
(* A step of the bucket count leaves every bound alone and makes its own   *)
(* bucket occupied.                                                        *)
(***************************************************************************)
LEMMA AddBucketKeeps ==
  ASSUME ThreadsTypeOK, Strong, NEW t \in Threads, AddBucket(t)
  PROVE  Strong'
<1>1. /\ arg[t] \in Buckets /\ pc[t] = "bucket"
      /\ data' = [data EXCEPT ![arg[t]] = data[arg[t]] + 1]
      /\ pc' = [pc EXCEPT ![t] = "count"]
      /\ UNCHANGED <<min, max, mins, maxs, arg, loMin, hiMax>>
  BY DEF AddBucket, Goto, locals, Strong, InRecord
<1>2. /\ \A b \in Buckets : data[b] \in Nat
      /\ \A b \in Buckets : data'[b] = IF b = arg[t] THEN data[b] + 1 ELSE data[b]
      /\ \A u \in Threads : pc'[u] = IF u = t THEN "count" ELSE pc[u]
  BY <1>1 DEF ThreadsTypeOK
<1>3. \A b \in Buckets : data[b] > 0 => data'[b] > 0
  BY <1>2
<1>4. data'[arg[t]] > 0
  BY <1>1, <1>2
<1>5. History'
  BY <1>1 DEF Strong, History
<1>6. InRecord'
  BY <1>1, <1>2, <1>3, <1>4 DEF Strong, InRecord, Added
<1>7. BoundsAreReal'
  BY <1>1, <1>3 DEF Strong, BoundsAreReal, Filled
<1>8. Covered'
  <2> SUFFICES ASSUME NEW b \in Filled'
               PROVE  /\ min <= b \/ \E u \in Threads : arg[u] = b /\ pc'[u] \in OwesMin
                      /\ b <= max \/ \E u \in Threads : arg[u] = b /\ pc'[u] \in Added
    BY <1>1 DEF Covered
  <2>1. CASE b = arg[t]
    BY <1>2, <2>1 DEF OwesMin, Added
  <2>2. CASE b # arg[t]
    <3>1. b \in Filled
      BY <1>2, <2>2 DEF Filled
    <3>2. \A u \in Threads : pc[u] \in Added => pc'[u] \in Added
      BY <1>2 DEF Added
    <3>3. \A u \in Threads : pc[u] \in OwesMin => pc'[u] \in OwesMin
      BY <1>2 DEF OwesMin
    <3> QED
      BY <3>1, <3>2, <3>3 DEF Strong, Covered
  <2> QED
    BY <2>1, <2>2
<1> QED
  BY <1>5, <1>6, <1>7, <1>8 DEF Strong

(***************************************************************************)
(* A step that leaves the shared cells alone keeps the strengthening when  *)
(* the thread stops answering for a bound only once the bound covers its   *)
(* value.                                                                  *)
(***************************************************************************)
LEMMA LocalKeeps ==
  ASSUME ThreadsTypeOK, ThreadsTypeOK', Strong, NEW t \in Threads,
         UNCHANGED shared,
         \A u \in Threads \ {t} : /\ pc'[u] = pc[u] /\ arg'[u] = arg[u]
                                  /\ loMin'[u] = loMin[u] /\ hiMax'[u] = hiMax[u],
         pc[t] \in Added \/ pc[t] = "idle",
         pc[t] \in Added => arg'[t] = arg[t],
         pc[t] = "idle" => pc'[t] = "bucket" /\ arg'[t] \in Buckets,
         pc[t] \in Added => pc'[t] \in Added \/ pc'[t] = "idle",
         loMin'[t] \in mins, hiMax'[t] \in maxs,
         pc'[t] = "casMin" => arg[t] < loMin'[t],
         pc'[t] = "casMax" => arg[t] > hiMax'[t],
         pc[t] \in OwesMin /\ pc'[t] \notin OwesMin => min <= arg[t],
         pc[t] \in Added /\ pc'[t] \notin Added => arg[t] <= max
  PROVE  Strong'
<1>1. /\ UNCHANGED <<data, min, max, mins, maxs>>
      /\ Filled' = Filled
  BY DEF shared, Filled
<1>2. History'
  BY <1>1 DEF Strong, History
<1>3. InRecord'
  BY <1>1 DEF Strong, InRecord, Added
<1>4. BoundsAreReal'
  BY <1>1 DEF Strong, BoundsAreReal
<1>5. Covered'
  <2> SUFFICES ASSUME NEW b \in Filled
               PROVE  /\ min <= b \/ \E u \in Threads : arg'[u] = b /\ pc'[u] \in OwesMin
                      /\ b <= max \/ \E u \in Threads : arg'[u] = b /\ pc'[u] \in Added
    BY <1>1 DEF Covered
  <2>1. min <= b \/ \E u \in Threads : arg'[u] = b /\ pc'[u] \in OwesMin
    <3>1. CASE min <= b
      BY <3>1
    <3>2. ASSUME NEW u \in Threads, arg[u] = b, pc[u] \in OwesMin
          PROVE  min <= b \/ \E w \in Threads : arg'[w] = b /\ pc'[w] \in OwesMin
      BY <3>2 DEF OwesMin, Added
    <3> QED
      BY <3>1, <3>2 DEF Strong, Covered
  <2>2. b <= max \/ \E u \in Threads : arg'[u] = b /\ pc'[u] \in Added
    <3>1. CASE b <= max
      BY <3>1
    <3>2. ASSUME NEW u \in Threads, arg[u] = b, pc[u] \in Added
          PROVE  b <= max \/ \E w \in Threads : arg'[w] = b /\ pc'[w] \in Added
      BY <3>2
    <3> QED
      BY <3>1, <3>2 DEF Strong, Covered
  <2> QED
    BY <2>1, <2>2
<1> QED
  BY <1>2, <1>3, <1>4, <1>5 DEF Strong

(***************************************************************************)
(* A compare-exchange that succeeds lowers the minimum to the thread's own *)
(* value, whose bucket it has already made occupied.                       *)
(***************************************************************************)
LEMMA SetMinKeeps ==
  ASSUME ThreadsTypeOK, Strong, NEW t \in Threads, SetMin(t)
  PROVE  Strong' /\ min' < min
<1>1. /\ pc[t] = "casMin" /\ min = loMin[t] /\ min' = arg[t]
      /\ mins' = mins \union {arg[t]}
      /\ loMin' = [loMin EXCEPT ![t] = arg[t]]
      /\ pc' = [pc EXCEPT ![t] = "loadMax"]
      /\ UNCHANGED <<data, max, maxs, arg, hiMax>>
      /\ Filled' = Filled
  BY DEF SetMin, Goto, Filled
<1>2. arg[t] \in Filled /\ arg[t] < min /\ arg[t] \in Nat /\ min \in Nat
  BY <1>1, BucketsAreNat DEF Strong, InRecord, Added, Filled, ThreadsTypeOK
<1>3. \A u \in Threads : /\ pc'[u] = (IF u = t THEN "loadMax" ELSE pc[u])
                          /\ loMin'[u] = (IF u = t THEN arg[t] ELSE loMin[u])
  <2>1. pc \in [Threads -> Points] /\ loMin \in [Threads -> Nat]
    BY DEF ThreadsTypeOK
  <2>2. ASSUME NEW u \in Threads PROVE pc'[u] = IF u = t THEN "loadMax" ELSE pc[u]
    BY <1>1, <2>1
  <2>3. ASSUME NEW u \in Threads PROVE loMin'[u] = IF u = t THEN arg[t] ELSE loMin[u]
    BY <1>1, <2>1
  <2> QED
    BY <2>2, <2>3
<1>4. History'
  BY <1>1, <1>2, <1>3 DEF Strong, History, ThreadsTypeOK
<1>5. InRecord'
  BY <1>1, <1>3 DEF Strong, InRecord, Added
<1>6. BoundsAreReal'
  BY <1>1, <1>2 DEF Strong, BoundsAreReal
<1>7. Covered'
  <2> SUFFICES ASSUME NEW b \in Filled
               PROVE  /\ min' <= b \/ \E u \in Threads : arg[u] = b /\ pc'[u] \in OwesMin
                      /\ b <= max \/ \E u \in Threads : arg[u] = b /\ pc'[u] \in Added
    BY <1>1 DEF Covered
  <2>1. b \in Nat
    BY HistogramOK, ShapeOK DEF Filled, Buckets
  <2>2. min' <= b \/ \E u \in Threads : arg[u] = b /\ pc'[u] \in OwesMin
    <3>1. CASE min <= b
      BY <1>1, <1>2, <2>1, <3>1
    <3>2. ASSUME NEW u \in Threads, arg[u] = b, pc[u] \in OwesMin
          PROVE  min' <= b \/ \E w \in Threads : arg[w] = b /\ pc'[w] \in OwesMin
      BY <1>1, <1>2, <1>3, <3>2
    <3> QED
      BY <3>1, <3>2 DEF Strong, Covered
  <2>3. ASSUME NEW u \in Threads, pc[u] \in Added PROVE pc'[u] \in Added
    BY <1>3, <2>3 DEF Added
  <2> QED
    BY <2>2, <2>3 DEF Strong, Covered
<1> QED
  BY <1>1, <1>2, <1>4, <1>5, <1>6, <1>7 DEF Strong

(***************************************************************************)
(* The same for the maximum.                                               *)
(***************************************************************************)
LEMMA SetMaxKeeps ==
  ASSUME ThreadsTypeOK, Strong, NEW t \in Threads, SetMax(t)
  PROVE  Strong' /\ max' > max
<1>1. /\ pc[t] = "casMax" /\ max = hiMax[t] /\ max' = arg[t]
      /\ maxs' = maxs \union {arg[t]}
      /\ hiMax' = [hiMax EXCEPT ![t] = arg[t]]
      /\ pc' = [pc EXCEPT ![t] = "idle"]
      /\ UNCHANGED <<data, min, mins, arg, loMin>>
      /\ Filled' = Filled
  BY DEF SetMax, Goto, Filled
<1>2. arg[t] \in Filled /\ arg[t] > max /\ arg[t] \in Nat /\ max \in Nat
  BY <1>1, BucketsAreNat DEF Strong, InRecord, Added, Filled, ThreadsTypeOK
<1>3. \A u \in Threads : /\ pc'[u] = (IF u = t THEN "idle" ELSE pc[u])
                          /\ hiMax'[u] = (IF u = t THEN arg[t] ELSE hiMax[u])
  <2>1. pc \in [Threads -> Points] /\ hiMax \in [Threads -> Nat]
    BY DEF ThreadsTypeOK
  <2>2. ASSUME NEW u \in Threads PROVE pc'[u] = IF u = t THEN "idle" ELSE pc[u]
    BY <1>1, <2>1
  <2>3. ASSUME NEW u \in Threads PROVE hiMax'[u] = IF u = t THEN arg[t] ELSE hiMax[u]
    BY <1>1, <2>1
  <2> QED
    BY <2>2, <2>3
<1>4. History'
  BY <1>1, <1>2, <1>3 DEF Strong, History, ThreadsTypeOK
<1>5. InRecord'
  BY <1>1, <1>3 DEF Strong, InRecord, Added
<1>6. BoundsAreReal'
  BY <1>1, <1>2 DEF Strong, BoundsAreReal
<1>7. Covered'
  <2> SUFFICES ASSUME NEW b \in Filled
               PROVE  /\ min <= b \/ \E u \in Threads : arg[u] = b /\ pc'[u] \in OwesMin
                      /\ b <= max' \/ \E u \in Threads : arg[u] = b /\ pc'[u] \in Added
    BY <1>1 DEF Covered
  <2>1. b \in Nat
    BY HistogramOK, ShapeOK DEF Filled, Buckets
  <2>2. b <= max' \/ \E u \in Threads : arg[u] = b /\ pc'[u] \in Added
    <3>1. CASE b <= max
      BY <1>1, <1>2, <2>1, <3>1
    <3>2. ASSUME NEW u \in Threads, arg[u] = b, pc[u] \in Added
          PROVE  b <= max' \/ \E w \in Threads : arg[w] = b /\ pc'[w] \in Added
      BY <1>1, <1>2, <1>3, <3>2
    <3> QED
      BY <3>1, <3>2 DEF Strong, Covered
  <2>3. \A u \in Threads : pc[u] \in OwesMin => pc'[u] \in OwesMin
    BY <1>1, <1>3 DEF OwesMin
  <2> QED
    BY <2>2, <2>3 DEF Strong, Covered
<1> QED
  BY <1>1, <1>2, <1>4, <1>5, <1>6, <1>7 DEF Strong

(***************************************************************************)
(* Every step keeps the strengthening and moves the bounds outwards.       *)
(***************************************************************************)
LEMMA StrongStep ==
  ASSUME ThreadsTypeOK, ThreadsTypeOK', Strong, [ThreadsNext]_threadVars
  PROVE  Strong' /\ min' <= min /\ max' >= max
<1> USE DEF Goto, locals, SeeMin, SeeMax
<1>1. min \in Nat /\ max \in Nat
  BY DEF ThreadsTypeOK
<1>2. Strong /\ UNCHANGED shared => min' <= min /\ max' >= max
  BY <1>1 DEF shared
<1>3. ASSUME NEW t \in Threads, NEW v \in Values, Refuse(t, v)
      PROVE  Strong' /\ min' <= min /\ max' >= max
  <2>1. UNCHANGED <<data, min, max, mins, maxs, pc, arg, loMin, hiMax>>
    BY <1>3 DEF Refuse, shared
  <2>2. Strong'
    BY <2>1 DEF Strong, History, InRecord, BoundsAreReal, Covered, Filled
  <2> QED
    BY <1>1, <2>1, <2>2
<1>4. ASSUME NEW t \in Threads, NEW v \in Values, Accept(t, v)
      PROVE  Strong' /\ min' <= min /\ max' >= max
  <2>1. v \in Buckets
    BY HistogramOK, ShapeOK, <1>4 DEF Accept, Buckets
  <2>2. Strong'
    BY <2>1, <1>4, LocalKeeps DEF Accept, ThreadsTypeOK, Added, OwesMin, Strong, History
  <2> QED
    BY <1>2, <1>4, <2>2 DEF Accept
<1>5. ASSUME NEW t \in Threads, AddBucket(t)
      PROVE  Strong' /\ min' <= min /\ max' >= max
  <2>1. Strong'
    BY <1>5, AddBucketKeeps
  <2> QED
    BY <1>1, <1>5, <2>1 DEF AddBucket
<1>6. ASSUME NEW t \in Threads, AddCount(t)
      PROVE  Strong' /\ min' <= min /\ max' >= max
  <2>1. Strong'
    BY <1>6 DEF AddCount, ThreadsTypeOK, Strong, History, InRecord, BoundsAreReal, Covered,
                Filled, Added, OwesMin
  <2> QED
    BY <1>1, <1>6, <2>1 DEF AddCount
<1>7. ASSUME NEW t \in Threads, LoadMin(t) \/ RetryMin(t)
      PROVE  Strong' /\ min' <= min /\ max' >= max
  <2>1. PICK m \in mins : SeeMin(t, m) /\ pc[t] \in {"loadMin", "casMin"}
                         /\ UNCHANGED <<shared, arg, hiMax>>
    BY <1>7 DEF LoadMin, RetryMin
  <2>2. m \in Nat /\ min <= m /\ arg[t] \in Nat
    BY <2>1, BucketsAreNat DEF ThreadsTypeOK, Strong, History
  <2>3. Strong'
    BY <1>1, <2>1, <2>2, LocalKeeps DEF ThreadsTypeOK, Added, OwesMin, Strong, History
  <2> QED
    BY <1>2, <2>1, <2>3
<1>8. ASSUME NEW t \in Threads, SetMin(t)
      PROVE  Strong' /\ min' <= min /\ max' >= max
  <2>1. Strong' /\ min' < min
    BY <1>8, SetMinKeeps
  <2>2. max' = max /\ min' \in Nat
    BY <1>8 DEF SetMin, ThreadsTypeOK
  <2> QED
    BY <1>1, <2>1, <2>2
<1>9. ASSUME NEW t \in Threads, LoadMax(t) \/ RetryMax(t)
      PROVE  Strong' /\ min' <= min /\ max' >= max
  <2>1. PICK m \in maxs : SeeMax(t, m) /\ pc[t] \in {"loadMax", "casMax"}
                         /\ UNCHANGED <<shared, arg, loMin>>
    BY <1>9 DEF LoadMax, RetryMax
  <2>2. m \in Nat /\ m <= max /\ arg[t] \in Nat
    BY <2>1, BucketsAreNat DEF ThreadsTypeOK, Strong, History
  <2>3. Strong'
    BY <1>1, <2>1, <2>2, LocalKeeps DEF ThreadsTypeOK, Added, OwesMin, Strong, History
  <2> QED
    BY <1>2, <2>1, <2>3
<1>10. ASSUME NEW t \in Threads, SetMax(t)
      PROVE  Strong' /\ min' <= min /\ max' >= max
  <2>1. Strong' /\ max' > max
    BY <1>10, SetMaxKeeps
  <2>2. min' = min /\ max' \in Nat
    BY <1>10 DEF SetMax, ThreadsTypeOK
  <2> QED
    BY <1>1, <2>1, <2>2
<1>11. CASE UNCHANGED threadVars
  BY <1>1, <1>11 DEF threadVars, Strong, History, InRecord, BoundsAreReal, Covered, Filled
<1> QED
  BY <1>3, <1>4, <1>5, <1>6, <1>7, <1>8, <1>9, <1>10, <1>11 DEF ThreadsNext, Step

(***************************************************************************)
(* The strengthening holds throughout, for any interleaving of the loops.  *)
(***************************************************************************)
LEMMA StrongInvariant == ThreadsSpec => []Strong
<1>1. ThreadsInit => Strong
  BY HistogramOK, ShapeOK DEF ThreadsInit, Strong, History, InRecord, BoundsAreReal, Covered, Filled, Added
<1>2. Strong /\ ThreadsTypeOK /\ ThreadsTypeOK' /\ [ThreadsNext]_threadVars => Strong'
  BY StrongStep
<1> QED
  BY <1>1, <1>2, TypeCorrect, PTL DEF ThreadsSpec

(***************************************************************************)
(* Once no thread is inside record, the range the readers walk is exactly  *)
(* the span of the occupied buckets (record, percentile and the walks).    *)
(***************************************************************************)
THEOREM RangeTracked == ThreadsSpec => []TrackedRange
<1>1. ThreadsTypeOK /\ Strong => TrackedRange
  <2> SUFFICES ASSUME ThreadsTypeOK, Strong, Quiet
               PROVE  /\ \A b \in Filled : min <= b /\ b <= max
                      /\ Filled # {} => min \in Filled /\ max \in Filled
                      /\ Filled = {} => min = U64Max /\ max = 0
    BY DEF TrackedRange
  <2>1. ASSUME NEW b \in Filled PROVE min <= b /\ b <= max
    BY DEF Quiet, Strong, Covered, OwesMin, Added
  <2>2. ASSUME NEW b \in Filled PROVE min \in Filled /\ max \in Filled
    <3>1. b \in 0 .. Limit - 1 /\ min \in Nat /\ max \in Nat
      BY DEF Filled, Buckets, ThreadsTypeOK
    <3>2. min # U64Max
      BY HistogramOK, ShapeOK, <2>1, <3>1
    <3>3. max = 0 => b = max
      BY <2>1, <3>1
    <3> QED
      BY <3>2, <3>3 DEF Strong, BoundsAreReal
  <2>3. Filled = {} => min = U64Max /\ max = 0
    BY DEF Strong, BoundsAreReal
  <2> QED
    BY <2>1, <2>2, <2>3
<1> QED
  BY <1>1, TypeCorrect, StrongInvariant, PTL

(***************************************************************************)
(* No step of any thread narrows the range.                                *)
(***************************************************************************)
THEOREM RangeOnlyWidens == ThreadsSpec => RangeWidens
<1>1. ThreadsTypeOK /\ ThreadsTypeOK' /\ Strong /\ [ThreadsNext]_threadVars => [min' <= min /\ max' >= max]_threadVars
  BY StrongStep
<1> QED
  BY <1>1, TypeCorrect, StrongInvariant, PTL DEF ThreadsSpec, RangeWidens

-----------------------------------------------------------------------------
(* The counts: what the buckets sum to, and where every call went. *)

\* The threads that f, the pc, puts at the point p of record.
At(f, p) == {t \in Threads : f[t] = p}

\* Nothing is counted twice or dropped, wherever the threads are.
Accounts ==
    /\ IsFiniteSet(Units(data)) /\ IsFiniteSet(Units(timeouts)) /\ IsFiniteSet(Units(left))
    /\ Total(data) = count + Cardinality(At(pc, "count"))
    /\ Total(data) + Cardinality(At(pc, "bucket")) + Total(timeouts) + Total(left)
         = Cardinality(Threads) * MaxCalls

(***************************************************************************)
(* A counter that goes up by one adds one unit, one that goes down takes   *)
(* one away.                                                               *)
(***************************************************************************)
LEMMA UnitsMembers ==
  ASSUME NEW S, NEW f \in [S -> Nat]
  PROVE  \A y, i : <<y, i>> \in Units(f) <=> y \in S /\ i \in 1 .. f[y]
<1>1. DOMAIN f = S
  OBVIOUS
<1> QED
  BY <1>1 DEF Units

LEMMA UnitsArePairs ==
  ASSUME NEW f, NEW u \in Units(f)
  PROVE  u = <<u[1], u[2]>>
  BY DEF Units

LEMMA OneMore ==
  ASSUME NEW A, NEW e, IsFiniteSet(A), e \notin A
  PROVE  IsFiniteSet(A \union {e}) /\ Cardinality(A \union {e}) = Cardinality(A) + 1
  BY FS_AddElement

LEMMA OneLess ==
  ASSUME NEW A, NEW e \in A, IsFiniteSet(A)
  PROVE  IsFiniteSet(A \ {e}) /\ Cardinality(A \ {e}) = Cardinality(A) - 1
  BY FS_RemoveElement

LEMMA CountUp ==
  ASSUME NEW S, NEW f \in [S -> Nat], NEW x \in S, IsFiniteSet(Units(f)),
         NEW g \in [S -> Nat], g[x] = f[x] + 1, \A y \in S \ {x} : g[y] = f[y]
  PROVE  IsFiniteSet(Units(g)) /\ Total(g) = Total(f) + 1
<1>1. /\ g[x] = f[x] + 1 /\ f[x] \in Nat
      /\ \A y \in S \ {x} : g[y] = f[y]
  OBVIOUS
<1>2. \A i : i \in 1 .. g[x] <=> i \in 1 .. f[x] \/ i = g[x]
  BY <1>1
<1>3. ASSUME NEW y, NEW i
      PROVE  <<y, i>> \in Units(g) <=> <<y, i>> \in Units(f) \/ <<y, i>> = <<x, g[x]>>
  <2>1. <<y, i>> = <<x, g[x]>> <=> y = x /\ i = g[x]
    OBVIOUS
  <2>2. /\ <<y, i>> \in Units(g) <=> y \in S /\ i \in 1 .. g[y]
        /\ <<y, i>> \in Units(f) <=> y \in S /\ i \in 1 .. f[y]
    <3>1. <<y, i>> \in Units(g) <=> y \in S /\ i \in 1 .. g[y]
      BY UnitsMembers
    <3>2. <<y, i>> \in Units(f) <=> y \in S /\ i \in 1 .. f[y]
      BY UnitsMembers
    <3> QED
      BY <3>1, <3>2
  <2>3. y \in S => (i \in 1 .. g[y] <=> i \in 1 .. f[y] \/ (y = x /\ i = g[x]))
    BY <1>1, <1>2
  <2> QED
    BY <2>1, <2>2, <2>3, Zenon
<1>4. Units(g) = Units(f) \union {<<x, g[x]>>}
  <2>1. ASSUME NEW u \in Units(g) PROVE u \in Units(f) \union {<<x, g[x]>>}
    <3>1. u = <<u[1], u[2]>>
      BY UnitsArePairs
    <3>2. <<u[1], u[2]>> \in Units(f) \/ <<u[1], u[2]>> = <<x, g[x]>>
      BY <1>3, <3>1, Zenon
    <3> QED
      BY <3>1, <3>2, Zenon
  <2>2. ASSUME NEW u \in Units(f) PROVE u \in Units(g)
    <3>1. u = <<u[1], u[2]>>
      BY UnitsArePairs
    <3> QED
      BY <1>3, <3>1
  <2>3. <<x, g[x]>> \in Units(g)
    BY <1>3
  <2> QED
    BY <2>1, <2>2, <2>3
<1>5. <<x, g[x]>> \notin Units(f)
  BY <1>1, UnitsMembers
<1>6. IsFiniteSet(Units(g)) /\ Cardinality(Units(g)) = Cardinality(Units(f)) + 1
  BY <1>4, <1>5, OneMore, Zenon
<1> QED
  BY <1>6 DEF Total

LEMMA CountDown ==
  ASSUME NEW S, NEW f \in [S -> Nat], NEW x \in S, IsFiniteSet(Units(f)),
         NEW g \in [S -> Nat], g[x] = f[x] - 1, \A y \in S \ {x} : g[y] = f[y]
  PROVE  IsFiniteSet(Units(g)) /\ Total(g) = Total(f) - 1
<1>1. /\ g[x] = f[x] - 1 /\ f[x] \in Nat /\ g[x] \in Nat
      /\ \A y \in S \ {x} : g[y] = f[y]
  OBVIOUS
<1>2. \A i : i \in 1 .. g[x] <=> i \in 1 .. f[x] /\ i # f[x]
  BY <1>1
<1>3. ASSUME NEW y, NEW i
      PROVE  <<y, i>> \in Units(g) <=> <<y, i>> \in Units(f) /\ <<y, i>> # <<x, f[x]>>
  <2>1. <<y, i>> = <<x, f[x]>> <=> y = x /\ i = f[x]
    OBVIOUS
  <2>2. /\ <<y, i>> \in Units(g) <=> y \in S /\ i \in 1 .. g[y]
        /\ <<y, i>> \in Units(f) <=> y \in S /\ i \in 1 .. f[y]
    <3>1. <<y, i>> \in Units(g) <=> y \in S /\ i \in 1 .. g[y]
      BY UnitsMembers
    <3>2. <<y, i>> \in Units(f) <=> y \in S /\ i \in 1 .. f[y]
      BY UnitsMembers
    <3> QED
      BY <3>1, <3>2
  <2>3. y \in S => (i \in 1 .. g[y] <=> i \in 1 .. f[y] /\ ~(y = x /\ i = f[x]))
    BY <1>1, <1>2
  <2> QED
    BY <2>1, <2>2, <2>3, Zenon
<1>4. Units(g) = Units(f) \ {<<x, f[x]>>}
  <2>1. ASSUME NEW u \in Units(g) PROVE u \in Units(f) \ {<<x, f[x]>>}
    <3>1. u = <<u[1], u[2]>>
      BY UnitsArePairs
    <3>2. <<u[1], u[2]>> \in Units(f) /\ <<u[1], u[2]>> # <<x, f[x]>>
      BY <1>3, <3>1, Zenon
    <3> QED
      BY <3>1, <3>2, Zenon
  <2>2. ASSUME NEW u \in Units(f), u # <<x, f[x]>> PROVE u \in Units(g)
    <3>1. u = <<u[1], u[2]>>
      BY UnitsArePairs
    <3>2. <<u[1], u[2]>> \in Units(f) /\ <<u[1], u[2]>> # <<x, f[x]>>
      BY <2>2, <3>1, Zenon
    <3>3. <<u[1], u[2]>> \in Units(g)
      BY <1>3, <3>2, Zenon
    <3> QED
      BY <3>1, <3>3, Zenon
  <2> QED
    BY <2>1, <2>2
<1>5. <<x, f[x]>> \in Units(f)
  <2>1. f[x] \in 1 .. f[x]
    BY <1>1
  <2> QED
    BY <2>1, UnitsMembers
<1>6. IsFiniteSet(Units(g)) /\ Cardinality(Units(g)) = Cardinality(Units(f)) - 1
  BY <1>4, <1>5, OneLess
<1> QED
  BY <1>6 DEF Total

\* A counter of zeros has no units.
LEMMA NothingCounted ==
  ASSUME NEW S
  PROVE  LET f == [x \in S |-> 0] IN IsFiniteSet(Units(f)) /\ Total(f) = 0
<1> DEFINE f == [x \in S |-> 0]
<1>1. ASSUME NEW u \in Units(f) PROVE FALSE
  <2>1. f \in [S -> Nat] /\ \A x \in S : f[x] = 0
    OBVIOUS
  <2>2. <<u[1], u[2]>> \in Units(f)
    BY UnitsArePairs
  <2> HIDE DEF f
  <2>3. u[1] \in S /\ u[2] \in 1 .. f[u[1]]
    BY <2>1, <2>2, UnitsMembers
  <2> QED
    BY <2>1, <2>3
<1>2. Units(f) = {}
  BY <1>1
<1> QED
  BY <1>2, FS_EmptySet DEF Total

LEMMA CallsToMake ==
  LET f == [t \in Threads |-> MaxCalls]
  IN  IsFiniteSet(Units(f)) /\ Total(f) = Cardinality(Threads) * MaxCalls
<1> DEFINE f == [t \in Threads |-> MaxCalls]
<1>1. Units(f) = Threads \X (1 .. MaxCalls)
  BY DEF Units
<1>2. IsFiniteSet(1 .. MaxCalls) /\ Cardinality(1 .. MaxCalls) = MaxCalls
  BY HistogramOK, ShapeOK, FS_Interval
<1> QED
  BY <1>1, <1>2, HistogramOK, ShapeOK, FS_Product, ZenonT(60) DEF Total

\* Who is at a point of record after one thread has moved from there or to there.
LEMMA MoveCounted ==
  ASSUME NEW f \in [Threads -> Points], NEW t \in Threads, NEW q, NEW g,
         \A u \in Threads : g[u] = IF u = t THEN q ELSE f[u], NEW p
  PROVE  /\ Cardinality(At(f, p)) \in Nat
         /\ q = p /\ f[t] # p => Cardinality(At(g, p)) = Cardinality(At(f, p)) + 1
         /\ q # p /\ f[t] = p => Cardinality(At(g, p)) = Cardinality(At(f, p)) - 1
         /\ (q = p <=> f[t] = p) => Cardinality(At(g, p)) = Cardinality(At(f, p))
<1>1. IsFiniteSet(At(f, p)) /\ Cardinality(At(f, p)) \in Nat
  <2>1. At(f, p) \in SUBSET Threads
    BY DEF At
  <2> QED
    BY <2>1, HistogramOK, ShapeOK, FS_Subset, FS_CardinalityType
<1>2. t \in At(f, p) <=> f[t] = p
  BY DEF At
<1>3. ASSUME q = p, f[t] # p PROVE Cardinality(At(g, p)) = Cardinality(At(f, p)) + 1
  <2>1. At(g, p) = At(f, p) \union {t}
    BY <1>3 DEF At
  <2> QED
    BY <1>1, <1>2, <1>3, <2>1, FS_AddElement
<1>4. ASSUME q # p, f[t] = p PROVE Cardinality(At(g, p)) = Cardinality(At(f, p)) - 1
  <2>1. At(g, p) = At(f, p) \ {t}
    BY <1>4 DEF At
  <2> QED
    BY <1>1, <1>2, <1>4, <2>1, FS_RemoveElement
<1>5. ASSUME q = p <=> f[t] = p PROVE Cardinality(At(g, p)) = Cardinality(At(f, p))
  <2>1. At(g, p) = At(f, p)
    BY <1>5 DEF At
  <2> QED
    BY <2>1
<1> QED
  BY <1>1, <1>3, <1>4, <1>5

\* The same for the step from one point of record to the next.
LEMMA GotoCounted ==
  ASSUME ThreadsTypeOK, NEW t \in Threads, NEW from, NEW to, from # to, Goto(t, from, to)
  PROVE  \A p : LET n == Cardinality(At(pc, p))
                IN  /\ n \in Nat
                    /\ Cardinality(At(pc', p)) = IF p = to THEN n + 1
                                                 ELSE IF p = from THEN n - 1 ELSE n
<1>1. pc \in [Threads -> Points] /\ pc[t] = from
  BY DEF ThreadsTypeOK, Goto
<1>2. \A u \in Threads : pc'[u] = IF u = t THEN to ELSE pc[u]
  BY <1>1 DEF Goto
<1>3. ASSUME NEW p
      PROVE  /\ Cardinality(At(pc, p)) \in Nat
             /\ to = p => Cardinality(At(pc', p)) = Cardinality(At(pc, p)) + 1
             /\ from = p => Cardinality(At(pc', p)) = Cardinality(At(pc, p)) - 1
             /\ to # p /\ from # p => Cardinality(At(pc', p)) = Cardinality(At(pc, p))
  <2>1. Cardinality(At(pc, p)) \in Nat
    BY <1>1, <1>2, MoveCounted
  <2>2. to = p => Cardinality(At(pc', p)) = Cardinality(At(pc, p)) + 1
    BY <1>1, <1>2, MoveCounted
  <2>3. from = p => Cardinality(At(pc', p)) = Cardinality(At(pc, p)) - 1
    BY <1>1, <1>2, MoveCounted
  <2>4. ASSUME to # p, from # p PROVE Cardinality(At(pc', p)) = Cardinality(At(pc, p))
    <3>1. to = p <=> pc[t] = p
      BY <1>1, <2>4
    <3> QED
      BY <1>1, <1>2, <3>1, MoveCounted
  <2> QED
    BY <2>1, <2>2, <2>3, <2>4
<1> QED
  BY <1>3

LEMMA TotalIsNat ==
  ASSUME NEW f, IsFiniteSet(Units(f))
  PROVE  Total(f) \in Nat
  BY FS_CardinalityType DEF Total

(***************************************************************************)
(* A step of record that passes neither the bucket nor the count changes   *)
(* no account.                                                             *)
(***************************************************************************)
LEMMA PassingKeeps ==
  ASSUME ThreadsTypeOK, Accounts, NEW t \in Threads, NEW q \in Points \ {"bucket", "count"},
         pc[t] \notin {"bucket", "count"}, \A u \in Threads : pc'[u] = IF u = t THEN q ELSE pc[u],
         UNCHANGED <<data, count, timeouts, left>>
  PROVE  Accounts'
<1>1. /\ Cardinality(At(pc', "bucket")) = Cardinality(At(pc, "bucket"))
      /\ Cardinality(At(pc', "count")) = Cardinality(At(pc, "count"))
  <2>1. pc \in [Threads -> Points]
    BY DEF ThreadsTypeOK
  <2>2. ASSUME NEW p \in {"bucket", "count"}
        PROVE  Cardinality(At(pc', p)) = Cardinality(At(pc, p))
    <3>1. q # p /\ pc[t] # p
      OBVIOUS
    <3> QED
      BY <2>1, <3>1, MoveCounted
  <2> QED
    BY <2>2
<1> QED
  BY <1>1 DEF Accounts

LEMMA AccountsStep ==
  ASSUME ThreadsTypeOK, ThreadsTypeOK', Accounts, [ThreadsNext]_threadVars
  PROVE  Accounts'
<1> DEFINE calls == Cardinality(Threads) * MaxCalls
<1>1. /\ Total(data) \in Nat /\ Total(timeouts) \in Nat /\ Total(left) \in Nat
      /\ count \in Nat /\ calls \in Nat
  BY TotalIsNat, HistogramOK, ShapeOK, FS_CardinalityType DEF Accounts, ThreadsTypeOK
<1>2. /\ IsFiniteSet(Units(data)) /\ IsFiniteSet(Units(timeouts)) /\ IsFiniteSet(Units(left))
      /\ Total(data) = count + Cardinality(At(pc, "count"))
      /\ Total(data) + Cardinality(At(pc, "bucket")) + Total(timeouts) + Total(left) = calls
  BY DEF Accounts
<1>3. ASSUME IsFiniteSet(Units(data')), IsFiniteSet(Units(timeouts')), IsFiniteSet(Units(left')),
             Total(data') = count' + Cardinality(At(pc', "count")),
             Total(data') + Cardinality(At(pc', "bucket")) + Total(timeouts') + Total(left') = calls
      PROVE  Accounts'
  BY <1>3 DEF Accounts, Total, Units
<1>4. ASSUME NEW t \in Threads, NEW v \in Values, Refuse(t, v) PROVE Accounts'
  <2>1. /\ timeouts' = [timeouts EXCEPT ![t] = timeouts[t] + 1]
        /\ left' = [left EXCEPT ![t] = left[t] - 1]
        /\ UNCHANGED <<data, count, pc>>
    BY <1>4 DEF Refuse, shared
  <2>2. /\ timeouts \in [Threads -> Nat] /\ timeouts' \in [Threads -> Nat]
        /\ left \in [Threads -> Nat] /\ left' \in [Threads -> Nat]
    BY HistogramOK, ShapeOK DEF ThreadsTypeOK
  <2>3. /\ IsFiniteSet(Units(timeouts')) /\ Total(timeouts') = Total(timeouts) + 1
        /\ IsFiniteSet(Units(left')) /\ Total(left') = Total(left) - 1
    <3>1. /\ timeouts'[t] = timeouts[t] + 1 /\ left'[t] = left[t] - 1
          /\ \A u \in Threads \ {t} : timeouts'[u] = timeouts[u] /\ left'[u] = left[u]
      BY <2>1, <2>2
    <3> QED
      BY <1>2, <2>2, <3>1, CountUp, CountDown
  <2>4. At(pc', "count") = At(pc, "count") /\ At(pc', "bucket") = At(pc, "bucket")
    BY <2>1 DEF At
  <2>5. IsFiniteSet(Units(data')) /\ Total(data') = Total(data)
    BY <1>2, <2>1
  <2>6. Cardinality(At(pc, "bucket")) \in Nat
    BY FS_Subset, FS_CardinalityType, HistogramOK, ShapeOK DEF At
  <2> QED
    BY <1>1, <1>2, <1>3, <2>1, <2>3, <2>4, <2>5, <2>6
<1>5. ASSUME NEW t \in Threads, NEW v \in Values, Accept(t, v) PROVE Accounts'
  <2>1. /\ pc[t] = "idle" /\ pc' = [pc EXCEPT ![t] = "bucket"]
        /\ left' = [left EXCEPT ![t] = left[t] - 1]
        /\ UNCHANGED <<data, count, timeouts>>
    BY <1>5 DEF Accept, shared, Goto
  <2>2. left \in [Threads -> Nat] /\ left' \in [Threads -> Nat]
    BY HistogramOK, ShapeOK DEF ThreadsTypeOK
  <2>3. IsFiniteSet(Units(left')) /\ Total(left') = Total(left) - 1
    <3>1. left'[t] = left[t] - 1 /\ \A u \in Threads \ {t} : left'[u] = left[u]
      BY <2>1, <2>2
    <3> QED
      BY <1>2, <2>2, <3>1, CountDown
  <2>4. /\ Cardinality(At(pc', "bucket")) = Cardinality(At(pc, "bucket")) + 1
        /\ Cardinality(At(pc', "count")) = Cardinality(At(pc, "count"))
        /\ Cardinality(At(pc, "bucket")) \in Nat
    <3>1. Goto(t, "idle", "bucket")
      BY <2>1 DEF Goto
    <3> QED
      BY <3>1, GotoCounted
  <2>5. /\ IsFiniteSet(Units(data')) /\ Total(data') = Total(data)
        /\ IsFiniteSet(Units(timeouts')) /\ Total(timeouts') = Total(timeouts)
    BY <1>2, <2>1
  <2> QED
    BY <1>1, <1>2, <1>3, <2>1, <2>3, <2>4, <2>5
<1>6. ASSUME NEW t \in Threads, AddBucket(t) PROVE Accounts'
  <2>1. /\ pc[t] = "bucket" /\ pc' = [pc EXCEPT ![t] = "count"]
        /\ data' = [data EXCEPT ![arg[t]] = data[arg[t]] + 1]
        /\ UNCHANGED <<count, timeouts, left>>
    BY <1>6 DEF AddBucket, locals, Goto
  <2>2. data \in [Buckets -> Nat] /\ data' \in [Buckets -> Nat] /\ arg[t] \in Buckets
    BY DEF ThreadsTypeOK
  <2>3. IsFiniteSet(Units(data')) /\ Total(data') = Total(data) + 1
    <3>1. /\ data'[arg[t]] = data[arg[t]] + 1
          /\ \A b \in Buckets \ {arg[t]} : data'[b] = data[b]
      BY <2>1, <2>2
    <3> QED
      BY <1>2, <2>2, <3>1, CountUp
  <2>4. /\ Cardinality(At(pc', "bucket")) = Cardinality(At(pc, "bucket")) - 1
        /\ Cardinality(At(pc', "count")) = Cardinality(At(pc, "count")) + 1
        /\ Cardinality(At(pc, "bucket")) \in Nat /\ Cardinality(At(pc, "count")) \in Nat
    <3>1. Goto(t, "bucket", "count")
      BY <2>1 DEF Goto
    <3> QED
      BY <3>1, GotoCounted
  <2>5. /\ IsFiniteSet(Units(left')) /\ Total(left') = Total(left)
        /\ IsFiniteSet(Units(timeouts')) /\ Total(timeouts') = Total(timeouts)
    BY <1>2, <2>1
  <2> QED
    BY <1>1, <1>2, <1>3, <2>1, <2>3, <2>4, <2>5
<1>7. ASSUME NEW t \in Threads, AddCount(t) PROVE Accounts'
  <2>1. /\ pc[t] = "count" /\ pc' = [pc EXCEPT ![t] = "loadMin"]
        /\ count' = count + 1
        /\ UNCHANGED <<data, timeouts, left>>
    BY <1>7 DEF AddCount, locals, Goto
  <2>2. /\ Cardinality(At(pc', "bucket")) = Cardinality(At(pc, "bucket"))
        /\ Cardinality(At(pc', "count")) = Cardinality(At(pc, "count")) - 1
        /\ Cardinality(At(pc, "count")) \in Nat
    <3>1. Goto(t, "count", "loadMin")
      BY <2>1 DEF Goto
    <3> QED
      BY <3>1, GotoCounted
  <2>3. /\ IsFiniteSet(Units(data')) /\ Total(data') = Total(data)
        /\ IsFiniteSet(Units(left')) /\ Total(left') = Total(left)
        /\ IsFiniteSet(Units(timeouts')) /\ Total(timeouts') = Total(timeouts)
    BY <1>2, <2>1
  <2> QED
    BY <1>1, <1>2, <1>3, <2>1, <2>2, <2>3
<1>8. ASSUME NEW t \in Threads,
             LoadMin(t) \/ SetMin(t) \/ RetryMin(t) \/ LoadMax(t) \/ SetMax(t) \/ RetryMax(t)
      PROVE  Accounts'
  <2>1. /\ pc[t] \in {"loadMin", "casMin", "loadMax", "casMax"}
        /\ UNCHANGED <<data, count, timeouts, left>>
    BY <1>8 DEF LoadMin, SetMin, RetryMin, LoadMax, SetMax, RetryMax, Goto, shared
  <2>2. PICK q \in {"casMin", "loadMax", "casMax", "idle"} : pc' = [pc EXCEPT ![t] = q]
    BY <1>8 DEF LoadMin, SetMin, RetryMin, LoadMax, SetMax, RetryMax, Goto, SeeMin, SeeMax
  <2>3. \A u \in Threads : pc'[u] = IF u = t THEN q ELSE pc[u]
    BY <2>2 DEF ThreadsTypeOK
  <2> QED
    BY <2>1, <2>3, PassingKeeps DEF Points
<1>9. CASE UNCHANGED threadVars
  BY <1>9 DEF threadVars, Accounts, At
<1> QED
  BY <1>4, <1>5, <1>6, <1>7, <1>8, <1>9 DEF ThreadsNext, Step

(***************************************************************************)
(* Once no thread is inside record, count is the sum of the buckets, and   *)
(* every call is in a bucket, was counted as a timeout, or is still to be  *)
(* made (stats.rs, record; connection.rs, responses).                      *)
(***************************************************************************)
THEOREM CallsAreAccounted == ThreadsSpec => []CallsAccounted
<1>1. ThreadsInit => Accounts
  <2> SUFFICES ASSUME ThreadsInit PROVE Accounts
    OBVIOUS
  <2>1. /\ IsFiniteSet(Units(data)) /\ Total(data) = 0
        /\ IsFiniteSet(Units(timeouts)) /\ Total(timeouts) = 0
        /\ IsFiniteSet(Units(left)) /\ Total(left) = Cardinality(Threads) * MaxCalls
    BY NothingCounted, CallsToMake DEF ThreadsInit
  <2>2. At(pc, "bucket") = {} /\ At(pc, "count") = {}
    BY DEF At, ThreadsInit
  <2>3. Cardinality(Threads) * MaxCalls \in Nat /\ count = 0
    BY HistogramOK, ShapeOK, FS_CardinalityType DEF ThreadsInit
  <2>4. Cardinality(At(pc, "bucket")) = 0 /\ Cardinality(At(pc, "count")) = 0
    BY <2>2, FS_EmptySet
  <2>5. /\ Total(data) = count + Cardinality(At(pc, "count"))
        /\ Total(data) + Cardinality(At(pc, "bucket")) + Total(timeouts) + Total(left)
             = Cardinality(Threads) * MaxCalls
    BY <2>1, <2>3, <2>4
  <2> QED
    BY <2>1, <2>5 DEF Accounts
<1>2. Accounts /\ ThreadsTypeOK /\ ThreadsTypeOK' /\ [ThreadsNext]_threadVars => Accounts'
  BY AccountsStep
<1>3. ThreadsTypeOK /\ Accounts => CallsAccounted
  <2> SUFFICES ASSUME ThreadsTypeOK, Accounts, Quiet
               PROVE  /\ count = Total(data)
                      /\ count + Total(timeouts) = Cardinality(Threads) * MaxCalls - Total(left)
    BY DEF CallsAccounted
  <2>1. At(pc, "bucket") = {} /\ At(pc, "count") = {}
    BY DEF At, Quiet
  <2>2. /\ Total(data) \in Nat /\ Total(timeouts) \in Nat /\ Total(left) \in Nat
        /\ count \in Nat /\ Cardinality(Threads) * MaxCalls \in Nat
    BY TotalIsNat, HistogramOK, ShapeOK, FS_CardinalityType DEF Accounts, ThreadsTypeOK
  <2>3. /\ Total(data) = count + 0
        /\ Total(data) + 0 + Total(timeouts) + Total(left) = Cardinality(Threads) * MaxCalls
    BY <2>1, FS_EmptySet DEF Accounts
  <2> QED
    BY <2>2, <2>3
<1> QED
  BY <1>1, <1>2, <1>3, TypeCorrect, PTL DEF ThreadsSpec
==============================================================================
