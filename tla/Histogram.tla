------------------------------ MODULE Histogram ------------------------------
(***************************************************************************)
(* The latency and rate histograms of a run (crates/wrkrs/src/stats.rs).   *)
(*                                                                         *)
(* One histogram is shared by every worker thread.  Histogram::record is a *)
(* sequence of Relaxed atomic operations: add to the bucket, add to the    *)
(* count, lower the minimum with a compare-exchange loop, raise the        *)
(* maximum with another.  Each atomic operation is one action here, so the *)
(* records of the threads interleave in every order.                       *)
(*                                                                         *)
(* A Relaxed load may return a value that is no longer current, but never  *)
(* one older than the thread has already seen (coherence).  mins and maxs  *)
(* keep the values each cell has held, and loMin[t] and hiMax[t], the      *)
(* local variables min and max of record, are also what t has last seen.   *)
(* A read-modify-write always works on the current value.                  *)
(***************************************************************************)
EXTENDS HistogramShape, FiniteSets

CONSTANTS
    Threads,     \* the worker threads
    Values,      \* the values the threads try to record
    MaxCalls     \* bound: calls of record each thread makes

ASSUME HistogramOK ==
    /\ Values \subseteq Nat
    /\ MaxCalls \in Nat
    /\ IsFiniteSet(Threads)

VARIABLES
    data,        \* the buckets
    count,       \* the number of recorded values
    min,         \* the smallest recorded value
    max,         \* the largest recorded value
    mins, maxs,  \* every value min and max have held
    pc,          \* where each thread is in record
    arg,         \* the argument of its call
    loMin,       \* its local variable min, and the last min it saw
    hiMax,       \* its local variable max, and the last max it saw
    timeouts,    \* Counters::errors::timeout of the thread
    left         \* calls it may still make

shared == <<data, count, min, max, mins, maxs>>
locals == <<arg, loMin, hiMax, timeouts, left>>
threadVars == <<data, count, min, max, mins, maxs, pc, arg, loMin, hiMax, timeouts, left>>

\* The points of record between two atomic operations.
Points == {"idle", "bucket", "count", "loadMin", "casMin", "loadMax", "casMax"}

Goto(t, from, to) ==
    /\ pc[t] = from
    /\ pc' = [pc EXCEPT ![t] = to]

\* Histogram::new: empty, with the minimum at the top and the maximum at 0.
ThreadsInit ==
    /\ data = [b \in Buckets |-> 0]
    /\ count = 0
    /\ min = U64Max
    /\ max = 0
    /\ mins = {U64Max}
    /\ maxs = {0}
    /\ pc = [t \in Threads |-> "idle"]
    /\ arg = [t \in Threads |-> 0]
    /\ loMin = [t \in Threads |-> U64Max]
    /\ hiMax = [t \in Threads |-> 0]
    /\ timeouts = [t \in Threads |-> 0]
    /\ left = [t \in Threads |-> MaxCalls]

\* Slip: a refused value is not counted as a timeout.
RefuseQuietly(t, v) ==
    /\ pc[t] = "idle"
    /\ left[t] > 0
    /\ v >= Limit
    /\ left' = [left EXCEPT ![t] = @ - 1]
    /\ UNCHANGED <<shared, pc, arg, loMin, hiMax, timeouts>>

\* A latency beyond the limit is refused and the caller counts a timeout.
Refuse(t, v) ==
    /\ pc[t] = "idle"
    /\ left[t] > 0
    /\ v >= Limit
    /\ timeouts' = [timeouts EXCEPT ![t] = @ + 1]
    /\ left' = [left EXCEPT ![t] = @ - 1]
    /\ UNCHANGED <<shared, pc, arg, loMin, hiMax>>

\* record is entered with a value it accepts.
Accept(t, v) ==
    /\ left[t] > 0
    /\ v < Limit
    /\ Goto(t, "idle", "bucket")
    /\ arg' = [arg EXCEPT ![t] = v]
    /\ left' = [left EXCEPT ![t] = @ - 1]
    /\ UNCHANGED <<shared, loMin, hiMax, timeouts>>

\* data[value].fetch_add(1)
AddBucket(t) ==
    /\ Goto(t, "bucket", "count")
    /\ data' = [data EXCEPT ![arg[t]] = @ + 1]
    /\ UNCHANGED <<count, min, max, mins, maxs, locals>>

\* count.fetch_add(1)
AddCount(t) ==
    /\ Goto(t, "count", "loadMin")
    /\ count' = count + 1
    /\ UNCHANGED <<data, min, max, mins, maxs, locals>>

\* The test of the first loop, on the minimum m the thread has just seen.
SeeMin(t, m) ==
    /\ loMin' = [loMin EXCEPT ![t] = m]
    /\ pc' = [pc EXCEPT ![t] = IF arg[t] < m THEN "casMin" ELSE "loadMax"]

\* min.load(Relaxed): any minimum since the one this thread saw last.
LoadMin(t) ==
    /\ pc[t] = "loadMin"
    /\ \E m \in mins : m <= loMin[t] /\ SeeMin(t, m)
    /\ UNCHANGED <<shared, arg, hiMax, timeouts, left>>

\* Slip: a plain store, whatever the minimum is by now.
SetMinBlindly(t) ==
    /\ Goto(t, "casMin", "loadMax")
    /\ min' = arg[t]
    /\ mins' = mins \union {arg[t]}
    /\ loMin' = [loMin EXCEPT ![t] = arg[t]]
    /\ UNCHANGED <<data, count, max, maxs, arg, hiMax, timeouts, left>>

\* compare_exchange(min, value) found the minimum it expected.
SetMin(t) ==
    /\ Goto(t, "casMin", "loadMax")
    /\ min = loMin[t]
    /\ min' = arg[t]
    /\ mins' = mins \union {arg[t]}
    /\ loMin' = [loMin EXCEPT ![t] = arg[t]]
    /\ UNCHANGED <<data, count, max, maxs, arg, hiMax, timeouts, left>>

\* Slip: the loop goes round with the minimum it had.
RetryMinUnread(t) ==
    /\ pc[t] = "casMin"
    /\ min # loMin[t]
    /\ UNCHANGED threadVars

\* compare_exchange failed: another thread lowered the minimum meanwhile.
RetryMin(t) ==
    /\ pc[t] = "casMin"
    /\ min # loMin[t]
    /\ \E m \in mins : m < loMin[t] /\ SeeMin(t, m)
    /\ UNCHANGED <<shared, arg, hiMax, timeouts, left>>

\* The test of the second loop, on the maximum m the thread has just seen.
SeeMax(t, m) ==
    /\ hiMax' = [hiMax EXCEPT ![t] = m]
    /\ pc' = [pc EXCEPT ![t] = IF arg[t] > m THEN "casMax" ELSE "idle"]

\* max.load(Relaxed)
LoadMax(t) ==
    /\ pc[t] = "loadMax"
    /\ \E m \in maxs : m >= hiMax[t] /\ SeeMax(t, m)
    /\ UNCHANGED <<shared, arg, loMin, timeouts, left>>

\* compare_exchange(max, value) found the maximum it expected.
SetMax(t) ==
    /\ Goto(t, "casMax", "idle")
    /\ max = hiMax[t]
    /\ max' = arg[t]
    /\ maxs' = maxs \union {arg[t]}
    /\ hiMax' = [hiMax EXCEPT ![t] = arg[t]]
    /\ UNCHANGED <<data, count, min, mins, arg, loMin, timeouts, left>>

\* compare_exchange failed: another thread raised the maximum meanwhile.
RetryMax(t) ==
    /\ pc[t] = "casMax"
    /\ max # hiMax[t]
    /\ \E m \in maxs : m > hiMax[t] /\ SeeMax(t, m)
    /\ UNCHANGED <<shared, arg, loMin, timeouts, left>>

\* What a thread does inside record.
Step(t) ==
    \/ AddBucket(t) \/ AddCount(t)
    \/ LoadMin(t) \/ SetMin(t) \/ RetryMin(t)
    \/ LoadMax(t) \/ SetMax(t) \/ RetryMax(t)

ThreadsNext ==
    \E t \in Threads : Step(t) \/ \E v \in Values : Refuse(t, v) \/ Accept(t, v)

\* A thread that is inside record keeps running.
ThreadsFairness == \A t \in Threads : WF_threadVars(Step(t))

ThreadsSpec == ThreadsInit /\ [][ThreadsNext]_threadVars

FairThreads == ThreadsSpec /\ ThreadsFairness

-----------------------------------------------------------------------------
ThreadsTypeOK ==
    /\ data \in [Buckets -> Nat]
    /\ count \in Nat
    /\ min \in Nat
    /\ max \in Nat
    /\ mins \subseteq Nat
    /\ maxs \subseteq Nat
    /\ pc \in [Threads -> Points]
    /\ arg \in [Threads -> Buckets]
    /\ loMin \in [Threads -> Nat]
    /\ hiMax \in [Threads -> Nat]
    /\ timeouts \in [Threads -> Nat]
    /\ left \in [Threads -> 0 .. MaxCalls]

\* No thread is inside record: the state the readers run in, after the join.
Quiet == \A t \in Threads : pc[t] = "idle"

Filled == {b \in Buckets : data[b] > 0}

(***************************************************************************)
(* percentile, mean, stdev, popcount and value_at all walk min..=max and   *)
(* nothing else.  Once the threads are done, min and max are the smallest  *)
(* and the largest occupied bucket, however the compare-exchange loops     *)
(* interleaved and however stale their loads were, and an empty histogram  *)
(* still has the range of Histogram::new.                                  *)
(***************************************************************************)
TrackedRange ==
    Quiet =>
        /\ \A b \in Filled : min <= b /\ b <= max
        /\ Filled # {} => min \in Filled /\ max \in Filled
        /\ Filled = {} => min = U64Max /\ max = 0

(***************************************************************************)
(* The range a reader walks only ever widens while threads record: a slow  *)
(* compare-exchange never puts an older bound back (stats.rs, record).     *)
(***************************************************************************)
RangeWidens == [][min' <= min /\ max' >= max]_threadVars

\* The units that f counts, told apart, and how many they are: the sum of f.
Units(f) == UNION {{x} \X (1 .. f[x]) : x \in DOMAIN f}

Total(f) == Cardinality(Units(f))

(***************************************************************************)
(* percentile ranks against count and mean and stdev divide by it, while   *)
(* they sum the buckets: the two agree once the threads are done, and      *)
(* every call of record either landed in a bucket or counted a timeout     *)
(* (connection.rs, responses: "if !ctx.latency.record(latency)").          *)
(***************************************************************************)
CallsAccounted ==
    Quiet =>
        /\ count = Total(data)
        /\ count + Total(timeouts) = Cardinality(Threads) * MaxCalls - Total(left)

==============================================================================
