------------------------------ MODULE Statistics ------------------------------
(***************************************************************************)
(* What is read from a histogram once the workers have been joined         *)
(* (crates/wrkrs/src/stats.rs), and the three places that read it: the     *)
(* coordinated omission correction of runner.rs, the statistics objects of *)
(* the script engines (engines/lua/stats.rs, engines/quickjs/stats.rs) and *)
(* the three reporters (legacy.rs, modern.rs, json.rs).                    *)
(*                                                                         *)
(* No thread records any more, so one record is one step here (Histogram   *)
(* models its atomic operations).  The correction is one step per turn of  *)
(* its two loops.  Floating point is exact: a mean or a variance is a      *)
(* fraction, a pair <<numerator, denominator>>.                            *)
(***************************************************************************)
EXTENDS HistogramShape, Sequences, FiniteSetsExt, SequencesExt

Kinds == {"connect", "read", "write", "timeout", "status"}

CONSTANTS
    I64Max,      \* i64::MAX
    Intervals,   \* the intervals the correction is called with
    Errors,      \* the error counters a run may end with
    MaxRecords   \* bound: values recorded

ASSUME StatisticsOK ==
    /\ I64Max \in Nat
    /\ U64Max = 2 * I64Max + 1
    /\ Limit <= I64Max + 1
    /\ Intervals \subseteq Int
    /\ \A e \in Intervals : 2 * e <= U64Max
    /\ Errors \subseteq [Kinds -> Nat]
    /\ MaxRecords \in Nat

VARIABLES
    hist,        \* the histogram: its buckets, count, min and max
    recorded,    \* the values recorded, in order
    phase,       \* recording, the loops of the correction, then reported
    expected,    \* the argument of correct
    value,       \* its local variables: the outer loop
    copies,      \* the count of the bucket the outer loop is at
    mirror,      \* the inner loop
    errors       \* the error counters the report prints

vars == <<hist, recorded, phase, expected, value, copies, mirror, errors>>

-----------------------------------------------------------------------------
(* The readers.                                                            *)

Empty == [data |-> [b \in Buckets |-> 0], count |-> 0, min |-> U64Max, max |-> 0]

\* Every reader walks min..=max, which is no bucket of an empty histogram.
Walk(h) == h.min .. h.max

\* The values counted in the buckets S, told apart, and how many they are.
Occurrences(h, S) == UNION {{b} \X (1 .. h.data[b]) : b \in S}
Held(h, S) == Cardinality(Occurrences(h, S))

\* Slip: the rank is not rounded up.
PercentileShort(h, p) ==
    LET reached == {b \in Walk(h) : Held(h, h.min .. b) >= (p * h.count) \div 100}
    IN  IF reached = {} THEN 0 ELSE Min(reached)

\* round(p / 100 * count + 0.5), and 0 when the walk never reaches it.
Percentile(h, p) ==
    LET rank == (p * h.count) \div 100 + 1
        reached == {b \in Walk(h) : Held(h, h.min .. b) >= rank}
    IN  IF reached = {} THEN 0 ELSE Min(reached)

Sum(h) == MapThenSumSet(LAMBDA b : b * h.data[b], Walk(h))

Mean(h) == IF h.count = 0 THEN <<0, 1>> ELSE <<Sum(h), h.count>>

\* The distance of b from the mean, times the count.
Deviation(h, b) == b * h.count - Sum(h)

\* The square of stdev: the divisor is one less than the count.
Variance(h) ==
    IF h.count < 2
    THEN <<0, 1>>
    ELSE <<MapThenSumSet(LAMBDA b : Deviation(h, b) * Deviation(h, b) * h.data[b], Walk(h)),
           h.count * h.count * (h.count - 1)>>

\* Buckets within n standard deviations of the mean hold this share.
WithinStdev(h, n) ==
    LET var == Variance(h)
        near(b) == Deviation(h, b) * Deviation(h, b) * var[2]
                       <= n * n * var[1] * h.count * h.count
    IN  <<Held(h, {b \in Walk(h) : near(b)}), h.count>>

Occupied(h) == {b \in Walk(h) : h.data[b] # 0}
Popcount(h) == Cardinality(Occupied(h))

\* The slot-th occupied bucket, from zero; past the last one, 0 and how many there are.
ValueAt(h, slot) ==
    LET before(b) == Cardinality({c \in Occupied(h) : c < b})
        found == {b \in Occupied(h) : before(b) = slot}
    IN  IF found = {} THEN <<0, Popcount(h)>> ELSE LET b == Min(found) IN <<b, h.data[b]>>

-----------------------------------------------------------------------------
(* The statistics object of a script: u64 becomes an integer of the        *)
(* script, clamped by the Lua engine and reinterpreted by QuickJS.         *)

LuaInteger(n) == Min({n, I64Max})
JsInteger(n) == IF n > I64Max THEN n - U64Max - 1 ELSE n

StatsHandle(h, call) ==
    [min |-> LuaInteger(h.min), max |-> LuaInteger(h.max), mean |-> Mean(h),
     stdev |-> Variance(h), length |-> LuaInteger(Popcount(h)),
     median |-> LuaInteger(Percentile(h, 50)),
     call |-> IF call < 1 THEN "error"
              ELSE LET at == ValueAt(h, call - 1) IN <<LuaInteger(at[1]), LuaInteger(at[2])>>]

\* Slip: the slot is handed on as the script numbers it.
StatsObjectFromZero(h, call) ==
    [min |-> JsInteger(h.min), max |-> JsInteger(h.max), mean |-> Mean(h),
     stdev |-> Variance(h), length |-> JsInteger(Popcount(h)),
     median |-> JsInteger(Percentile(h, 50)),
     call |-> IF call < 1 THEN "error"
              ELSE LET at == ValueAt(h, call) IN <<JsInteger(at[1]), JsInteger(at[2])>>]

StatsObject(h, call) ==
    [min |-> JsInteger(h.min), max |-> JsInteger(h.max), mean |-> Mean(h),
     stdev |-> Variance(h), length |-> JsInteger(Popcount(h)),
     median |-> JsInteger(Percentile(h, 50)),
     call |-> IF call < 1 THEN "error"
              ELSE LET at == ValueAt(h, call - 1) IN <<JsInteger(at[1]), JsInteger(at[2])>>]

-----------------------------------------------------------------------------
(* The reporters, as the numbers a reader finds under each name.           *)

\* "as u32 as i32", with the width of i64 standing for that of i32.
Printed(n) == LET low == n % (U64Max + 1) IN IF low > I64Max THEN low - U64Max - 1 ELSE low

StatsRow(h) ==
    [avg |-> Mean(h), stdev |-> Variance(h), max |-> h.max, within |-> WithinStdev(h, 1)]

Percentiles(h) == [p \in {50, 75, 90, 99} |-> Percentile(h, p)]

\* Slip: a run with nothing but timeouts prints no line of socket errors.
FooterQuietTimeouts(e) ==
    LET socket == Kinds \ {"status"}
        shown == (IF \E k \in socket \ {"timeout"} : e[k] # 0 THEN socket ELSE {})
                     \union (IF e["status"] # 0 THEN {"status"} ELSE {})
    IN  [k \in shown |-> Printed(e[k])]

\* The footer has a line of socket errors, and one of statuses, only when there are any.
Footer(e) ==
    LET socket == Kinds \ {"status"}
        shown == (IF \E k \in socket : e[k] # 0 THEN socket ELSE {})
                     \union (IF e["status"] # 0 THEN {"status"} ELSE {})
    IN  [k \in shown |-> Printed(e[k])]

LegacyReport(run, distribution) ==
    [latency |-> StatsRow(run.latency), rate |-> StatsRow(run.rate),
     percentiles |-> IF distribution THEN Percentiles(run.latency) ELSE <<>>,
     errors |-> Footer(run.errors)]

ModernReport(run) ==
    [latency |-> [avg |-> Mean(run.latency), stdev |-> Variance(run.latency),
                  min |-> run.latency.min, max |-> run.latency.max],
     rate |-> [avg |-> Mean(run.rate), stdev |-> Variance(run.rate),
               min |-> run.rate.min, max |-> run.rate.max, within |-> WithinStdev(run.rate, 1)],
     percentiles |-> Percentiles(run.latency),
     errors |-> run.errors]

StatsOf(h) ==
    [avg |-> Mean(h), stdev |-> Variance(h), min |-> h.min, max |-> h.max,
     within |-> WithinStdev(h, 1)]

JsonReport(run) ==
    [latency |-> StatsOf(run.latency), rate |-> StatsOf(run.rate),
     percentiles |-> Percentiles(run.latency), errors |-> run.errors]

-----------------------------------------------------------------------------
(* The run: values are recorded, the latency is corrected and reported.    *)

Init ==
    /\ hist = Empty
    /\ recorded = <<>>
    /\ phase = "recording"
    /\ expected = 0 /\ value = 0 /\ copies = 0 /\ mirror = 0
    /\ errors = [k \in Kinds |-> 0]

\* Histogram::record of a value it accepts.
Record(v) ==
    /\ phase = "recording"
    /\ Len(recorded) < MaxRecords
    /\ hist' = [data |-> [hist.data EXCEPT ![v] = @ + 1], count |-> hist.count + 1,
                min |-> IF v < hist.min THEN v ELSE hist.min,
                max |-> IF v > hist.max THEN v ELSE hist.max]
    /\ recorded' = Append(recorded, v)
    /\ UNCHANGED <<phase, expected, value, copies, mirror, errors>>

\* correct is entered: an interval that is not positive changes nothing.
Correct(e) ==
    /\ phase = "recording"
    /\ expected' = e
    /\ IF e <= 0
       THEN phase' = "corrected" /\ UNCHANGED value
       ELSE phase' = "outer" /\ value' = 2 * e
    /\ UNCHANGED <<hist, recorded, copies, mirror, errors>>

\* Slip: the mirrors start at the bucket itself.
ReadBucketMirrored ==
    /\ phase = "outer" /\ value <= hist.max
    /\ copies' = hist.data[value]
    /\ mirror' = value
    /\ phase' = "inner"
    /\ UNCHANGED <<hist, recorded, expected, value, errors>>

\* The outer loop reads its bucket once, before anything is mirrored from it.
ReadBucket ==
    /\ phase = "outer" /\ value <= hist.max
    /\ copies' = hist.data[value]
    /\ mirror' = value - expected
    /\ phase' = "inner"
    /\ UNCHANGED <<hist, recorded, expected, value, errors>>

\* Slip: the mirrored samples are not added to the count.
MirrorUncounted ==
    /\ phase = "inner" /\ copies # 0 /\ mirror > expected
    /\ hist' = [hist EXCEPT !.data[mirror] = @ + copies]
    /\ mirror' = mirror - expected
    /\ UNCHANGED <<recorded, phase, expected, value, copies, errors>>

\* One turn of the inner loop: min and max are left alone.
Mirror ==
    /\ phase = "inner" /\ copies # 0 /\ mirror > expected
    /\ hist' = [data |-> [hist.data EXCEPT ![mirror] = @ + copies],
                count |-> hist.count + copies, min |-> hist.min, max |-> hist.max]
    /\ mirror' = mirror - expected
    /\ UNCHANGED <<recorded, phase, expected, value, copies, errors>>

NextBucket ==
    /\ phase = "inner" /\ (copies = 0 \/ mirror <= expected)
    /\ value' = value + 1
    /\ phase' = "outer"
    /\ UNCHANGED <<hist, recorded, expected, copies, mirror, errors>>

Corrected ==
    /\ phase = "outer" /\ value > hist.max
    /\ phase' = "corrected"
    /\ UNCHANGED <<hist, recorded, expected, value, copies, mirror, errors>>

\* The report is printed with the error counters e.
Report(e) ==
    /\ phase = "corrected"
    /\ errors' = e
    /\ phase' = "reported"
    /\ UNCHANGED <<hist, recorded, expected, value, copies, mirror>>

Next ==
    \/ \E v \in Buckets : Record(v)
    \/ \E e \in Intervals : Correct(e)
    \/ ReadBucket \/ Mirror \/ NextBucket \/ Corrected
    \/ \E e \in Errors : Report(e)

Spec == Init /\ [][Next]_vars

-----------------------------------------------------------------------------
TypeOK ==
    /\ hist \in [data : [Buckets -> Nat], count : Nat, min : Buckets \union {U64Max}, max : Buckets]
    /\ phase \in {"recording", "outer", "inner", "corrected", "reported"}
    /\ expected \in Int
    /\ value \in Nat /\ copies \in Nat /\ mirror \in Int
    /\ errors \in [Kinds -> Nat]

(***************************************************************************)
(* Every access of correct is inside the buckets, and it only ever adds    *)
(* below the bucket it mirrors: the walk never meets a sample it added     *)
(* (Histogram::correct indexes data with a cast of a signed variable).     *)
(***************************************************************************)
MirrorsBehind ==
    /\ phase = "inner" => value \in Buckets /\ mirror < value
    /\ phase = "inner" /\ mirror > expected => mirror \in Buckets

\* The samples a correct correction has after the recorded ones: v - e, v - 2e, ... above e.
MirrorsOf(v, e) == {b \in Buckets : 0 < e /\ e < b /\ \E n \in 1 .. v : b = v - n * e}

\* Every sample, as often as it occurs: the recorded ones and their mirrors.
Samples ==
    [b \in Buckets |->
        Cardinality({i \in 1 .. Len(recorded) :
                        recorded[i] = b \/ b \in MirrorsOf(recorded[i], expected)})]

(***************************************************************************)
(* The correction mirrors each recorded value exactly once at every whole  *)
(* interval below it, though it adds to the buckets it is still to read    *)
(* from: bucket by bucket, and in the count (Histogram::correct).          *)
(***************************************************************************)
CorrectionSpreads ==
    phase = "corrected" =>
        /\ hist.data = Samples
        /\ hist.count = Held(hist, Buckets)

(***************************************************************************)
(* A percentile is the sample of that rank among those at or above the     *)
(* recorded minimum; only when mirrors fell below it, which the walk does  *)
(* not see, or the rank is past the last sample, is it 0                   *)
(* (Histogram::percentile).                                                *)
(***************************************************************************)
PercentileIsRank ==
    phase \in {"recording", "corrected"} =>
        LET samples == [data |-> Samples]
            below(b) == Held(samples, {c \in Buckets : c < b})
            lost == IF recorded = <<>> THEN 0 ELSE below(hist.min)
            size == below(Limit)
        IN  \A p \in {0, 50, 75, 90, 99, 100} :
                LET rank == 1 + (p * size) \div 100
                    answer == Percentile(hist, p)
                IN  IF rank + lost > size
                    THEN answer = 0
                    ELSE /\ below(answer) - lost < rank
                         /\ rank <= below(answer + 1) - lost

(***************************************************************************)
(* A script that calls the object with 1, 2, ... up to its length meets    *)
(* every value the histogram shows with its count, each once and in        *)
(* ascending order, then the length, and an index below 1 is an error:     *)
(* through either engine, which also agree on every other statistic of a   *)
(* histogram with a value in it (StatsHandle, StatsObject).                *)
(***************************************************************************)
ScriptsSeeAll ==
    phase \in {"recording", "corrected"} /\ recorded # <<>> =>
        LET shown == {b \in Buckets : b >= hist.min /\ Samples[b] > 0}
            n == Cardinality(shown)
            answer(i) == StatsHandle(hist, i).call
        IN  /\ \A i \in -1 .. n + 1 :
                  StatsHandle(hist, i) = StatsObject(hist, i) /\ StatsHandle(hist, i).length = n
            /\ {answer(i) : i \in 1 .. n} = {<<b, Samples[b]>> : b \in shown}
            /\ \A i, j \in 1 .. n : i < j => answer(i)[1] < answer(j)[1]
            /\ answer(n + 1) = <<0, n>> /\ answer(0) = "error" /\ answer(-1) = "error"

\* What several reports of one run say to one another.
Agree(reports) ==
    /\ \A r, s \in reports :
          /\ \A k \in DOMAIN r.latency \intersect DOMAIN s.latency : r.latency[k] = s.latency[k]
          /\ \A k \in DOMAIN r.rate \intersect DOMAIN s.rate : r.rate[k] = s.rate[k]
          /\ r.percentiles = s.percentiles
    /\ \A r \in reports, k \in Kinds : errors[k] <= I64Max =>
          (IF k \in DOMAIN r.errors THEN r.errors[k] ELSE 0) = errors[k]

(***************************************************************************)
(* The three reports of one run tell the same: what two of them print      *)
(* under one name is equal, and an error count the legacy report leaves    *)
(* out is zero.  Its counters are printed as 32 bits, so only counts that  *)
(* fit are claimed (LegacyReporter, ModernReporter, JsonReporter).         *)
(***************************************************************************)
ReportsAgree ==
    phase = "reported" =>
        LET run == [latency |-> hist, rate |-> Empty, errors |-> errors]
        IN  Agree({LegacyReport(run, TRUE), ModernReport(run), JsonReport(run)})
==============================================================================
