---------------------------- MODULE HistogramShape ----------------------------
(***************************************************************************)
(* The shape of Histogram (crates/wrkrs/src/stats.rs), which the threads   *)
(* that record (Histogram) and what reads it later (Statistics) share.     *)
(***************************************************************************)
EXTENDS Integers

CONSTANTS
    Limit,       \* Histogram::limit, one past the largest accepted value
    U64Max       \* u64::MAX, the minimum of an empty histogram

ASSUME ShapeOK ==
    /\ Limit \in Nat \ {0}
    /\ U64Max \in Nat
    /\ Limit <= U64Max

Buckets == 0 .. Limit - 1
=============================================================================
