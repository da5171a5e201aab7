----------------------------- MODULE AggRuntime -----------------------------
(***************************************************************************)
(* The simple aggregation functions the generated code calls once per row. *)
(*                                                                         *)
(* Source: src/cpp/src/cider/exec/nextgen/operators/                       *)
(*         OperatorRuntimeFunctions.h, lines 28-116: the macros            *)
(*   DEF_NEXTEGN_CIDER_SIMPLE_AGG_INT (plain: one accumulator),            *)
(*   ..._WITH_OFFSET (the accumulator agg_val_buffer[index] of a group),   *)
(*   ..._NULLABLE (accumulator plus a null byte, updated only for a        *)
(*   non-null input), instantiated for sum, min and max, and               *)
(*   nextgen_cider_agg_count / nextgen_cider_agg_count_nullable.           *)
(*                                                                         *)
(* An aggregate of the query is a record [op, width, variant]. Its buffer  *)
(* has NumGroups accumulators; plain and nullable calls use entry 0.       *)
(* Integers keep their width: a sum is computed in int<width>_t, which     *)
(* wraps (signed overflow is undefined for 32 and 64 bits; the builds wrap *)
(* in two's complement, the outcome modelled here). The floating-point     *)
(* variants have the same control and are not modelled separately.        *)
(*                                                                         *)
(* The initial accumulator and null byte are written by generated code     *)
(* that is not under src/; they are modelled from the spec (section 4.4:  *)
(* "null means never updated"): 0 for sum and count, the extreme of the    *)
(* width for min and max, and null byte 1.                                 *)
(*                                                                         *)
(* The ghost variable applied records, per accumulator, the non-null       *)
(* values the runtime was asked to fold in; the properties compare the     *)
(* accumulator and the null byte with it.                                  *)
(***************************************************************************)
EXTENDS Integers, Sequences

CONSTANTS
    Aggs,       \* the aggregates of the query, records [op, width, variant]
    NumGroups,  \* accumulators in the buffer of an offset-indexed aggregate
    Values,     \* the values the input rows carry
    MaxCalls    \* bound on the runtime calls of one run

Ops == {"sum", "min", "max", "count"}
Widths == {8, 16, 32, 64}
Variants == {"plain", "with_offset", "nullable"}

ASSUME AggsAssumption ==
    /\ Aggs \subseteq [op : Ops, width : Widths, variant : Variants]
    \* count exists only as nextgen_cider_agg_count(_nullable), on int64
    /\ \A a \in Aggs : a.op = "count" => a.variant # "with_offset" /\ a.width = 64
ASSUME NumGroupsAssumption == NumGroups \in Nat \ {0}
ASSUME ValuesAssumption == Values \subseteq Int
ASSUME MaxCallsAssumption == MaxCalls \in Nat

VARIABLES
    agg_val,   \* agg_val[a][i]: the accumulator i of aggregate a
    agg_null,  \* agg_null[a]: the null byte of a nullable aggregate
    applied,   \* ghost: applied[a][i], the values folded into agg_val[a][i]
    calls      \* runtime calls made so far

vars == <<agg_val, agg_null, applied, calls>>

Groups == 0 .. NumGroups - 1

(* The range of int<w>_t, -2^(w-1) .. 2^(w-1) - 1, and the two's-         *)
(* complement wrap of an int result stored back into it. The half ranges   *)
(* are products of 2^15 and 2^16 (TLC evaluates only the one it needs).    *)
TwoTo16 == 65536
HalfRange(w) ==
    CASE w = 8  -> 128
      [] w = 16 -> 32768
      [] w = 32 -> 32768 * TwoTo16
      [] w = 64 -> 32768 * TwoTo16 * TwoTo16 * TwoTo16
MinOfWidth(w) == -HalfRange(w)
MaxOfWidth(w) == HalfRange(w) - 1
SignedWrap(w, x) == ((x + HalfRange(w)) % (2 * HalfRange(w))) - HalfRange(w)

(* The values of the input column of an aggregate: its width bounds them.  *)
(* count takes no value.                                                   *)
InputsOf(a) ==
    IF a.op = "count" THEN {}
    ELSE {v \in Values : MinOfWidth(a.width) <= v /\ v <= MaxOfWidth(a.width)}

(* The accumulator before any row, written by the generated code.          *)
InitAcc(a) ==
    CASE a.op = "min" -> MaxOfWidth(a.width)
      [] a.op = "max" -> MinOfWidth(a.width)
      [] OTHER        -> 0

(* nextgen_cider_agg_sum (agg_val += val, in the accumulator's width),     *)
(* nextgen_cider_agg_min (std::min) and nextgen_cider_agg_max (std::max).  *)
nextgen_cider_agg(op, w, acc, val) ==
    CASE op = "sum" -> SignedWrap(w, acc + val)
      [] op = "min" -> IF val < acc THEN val ELSE acc
      [] op = "max" -> IF acc < val THEN val ELSE acc

(* One runtime call; the runs are bounded by MaxCalls.                     *)
Call == calls < MaxCalls /\ calls' = calls + 1

(* Fold val into accumulator i of a (the body of the macros).              *)
Fold(a, i, val) ==
    agg_val' = [agg_val EXCEPT ![a][i] = nextgen_cider_agg(a.op, a.width, @, val)]

(* Ghost: the caller hands the row val to accumulator i of a; a null row  *)
(* is not recorded.                                                        *)
Record(a, i, val, is_null) ==
    applied' = IF is_null THEN applied
               ELSE [applied EXCEPT ![a][i] = Append(@, val)]

(* nextgen_cider_agg_<op>_int<w>(agg_val_addr, val).                       *)
AggInt(a, val) ==
    /\ a.variant = "plain" /\ a.op # "count"
    /\ Call
    /\ Fold(a, 0, val)
    /\ Record(a, 0, val, FALSE)
    /\ UNCHANGED agg_null

(* nextgen_cider_agg_with_offset_<op>_int<w>(agg_val_buffer, index, val).  *)
AggIntWithOffset(a, index, val) ==
    /\ a.variant = "with_offset"
    /\ Call
    /\ Fold(a, index, val)
    /\ Record(a, index, val, FALSE)
    /\ UNCHANGED agg_null

(* Mutant: the null row is folded in as well.                              *)
AggIntNullableIgnoresNull(a, val, is_null) ==
    /\ a.variant = "nullable" /\ a.op # "count"
    /\ Call
    /\ Fold(a, 0, val)
    /\ agg_null' = [agg_null EXCEPT ![a] = 0]
    /\ Record(a, 0, val, is_null)

(* nextgen_cider_agg_<op>_int<w>_nullable(agg_val_addr, val,               *)
(* agg_null_addr, is_null): a null row leaves both bytes alone.            *)
AggIntNullable(a, val, is_null) ==
    /\ a.variant = "nullable" /\ a.op # "count"
    /\ Call
    /\ IF ~is_null
       THEN Fold(a, 0, val) /\ agg_null' = [agg_null EXCEPT ![a] = 0]
       ELSE UNCHANGED <<agg_val, agg_null>>
    /\ Record(a, 0, val, is_null)

(* nextgen_cider_agg_count(agg_val_addr) increments *agg_val_addr. The     *)
(* ghost history records a 1 per counted row.                              *)
AggCount(a) ==
    /\ a.op = "count" /\ a.variant = "plain"
    /\ Call
    /\ agg_val' = [agg_val EXCEPT ![a][0] = @ + 1]
    /\ Record(a, 0, 1, FALSE)
    /\ UNCHANGED agg_null

(* Mutant: the count is taken but the null byte is never cleared.         *)
AggCountNullableKeepsNull(a, is_null) ==
    /\ a.op = "count" /\ a.variant = "nullable"
    /\ Call
    /\ IF ~is_null
       THEN agg_val' = [agg_val EXCEPT ![a][0] = @ + 1]
       ELSE UNCHANGED agg_val
    /\ UNCHANGED agg_null
    /\ Record(a, 0, 1, is_null)

(* Mutant: the null row is counted as well.                               *)
AggCountNullableCountsNull(a, is_null) ==
    /\ a.op = "count" /\ a.variant = "nullable"
    /\ Call
    /\ agg_val' = [agg_val EXCEPT ![a][0] = @ + 1]
    /\ IF ~is_null THEN agg_null' = [agg_null EXCEPT ![a] = 0]
       ELSE UNCHANGED agg_null
    /\ Record(a, 0, 1, is_null)

(* nextgen_cider_agg_count_nullable(agg_val_addr, agg_null_addr, is_null). *)
AggCountNullable(a, is_null) ==
    /\ a.op = "count" /\ a.variant = "nullable"
    /\ Call
    /\ IF ~is_null
       THEN /\ agg_val' = [agg_val EXCEPT ![a][0] = @ + 1]
            /\ agg_null' = [agg_null EXCEPT ![a] = 0]
       ELSE UNCHANGED <<agg_val, agg_null>>
    /\ Record(a, 0, 1, is_null)

Init ==
    /\ agg_val = [a \in Aggs |-> [i \in Groups |-> InitAcc(a)]]
    /\ agg_null = [a \in Aggs |-> 1]
    /\ applied = [a \in Aggs |-> [i \in Groups |-> <<>>]]
    /\ calls = 0

(* The generated code calls the aggregate functions of the query in any    *)
(* order the plan gives, on values of the input column or on null rows.    *)
Next ==
    \E a \in Aggs :
        \/ \E val \in InputsOf(a) : AggInt(a, val)
        \/ \E index \in Groups, val \in InputsOf(a) : AggIntWithOffset(a, index, val)
        \/ \E val \in InputsOf(a), is_null \in BOOLEAN : AggIntNullable(a, val, is_null)
        \/ AggCount(a)
        \/ \E is_null \in BOOLEAN : AggCountNullable(a, is_null)

Spec == Init /\ [][Next]_vars

-----------------------------------------------------------------------------
(* Reference definitions, independent of the per-call updates.             *)

SeqSum(s) ==
    LET f[k \in 0 .. Len(s)] == IF k = 0 THEN 0 ELSE f[k - 1] + s[k]
    IN  f[Len(s)]

SetMin(S) == CHOOSE m \in S : \A x \in S : m <= x
SetMax(S) == CHOOSE m \in S : \A x \in S : x <= m

(* What an aggregate over the rows s must hold: the sum wrapped once into   *)
(* the width, the least or greatest value, or the count.                   *)
Expected(a, s) ==
    CASE a.op = "sum"   -> SignedWrap(a.width, InitAcc(a) + SeqSum(s))
      [] a.op = "min"   -> SetMin({InitAcc(a)} \cup {s[k] : k \in 1 .. Len(s)})
      [] a.op = "max"   -> SetMax({InitAcc(a)} \cup {s[k] : k \in 1 .. Len(s)})
      [] a.op = "count" -> InitAcc(a) + Len(s)

(* Every accumulator is a value of its int<width>_t (count: a natural).     *)
AccsInWidth(acc) ==
    \A a \in Aggs, i \in Groups :
        IF a.op = "count" THEN acc[a][i] \in Nat
        ELSE MinOfWidth(a.width) <= acc[a][i] /\ acc[a][i] <= MaxOfWidth(a.width)

TypeOK ==
    /\ agg_val \in [Aggs -> [Groups -> Int]]
    /\ AccsInWidth(agg_val)
    /\ agg_null \in [Aggs -> {0, 1}]
    /\ applied \in [Aggs -> [Groups -> Seq(Int)]]
    /\ calls \in 0 .. MaxCalls

(* The null byte of a nullable aggregate (agg_null_addr, cleared at         *)
(* OperatorRuntimeFunctions.h:49 and :114) says "null" exactly when no      *)
(* non-null row was ever folded into it: a group with only null rows is     *)
(* null, a group with a value is not, whatever the order of the calls.      *)
NullFlagMeansNeverUpdated ==
    \A a \in Aggs :
        a.variant = "nullable" => (agg_null[a] = 1 <=> applied[a][0] = <<>>)

(* Every sum accumulator, after any sequence of calls of the runtime      *)
(* functions on values and null rows, holds the sum of exactly the        *)
(* non-null values folded into it, in the accumulator's width: null rows  *)
(* and other groups' rows do not leak in, and the per-call wrap of        *)
(* nextgen_cider_agg_sum (line 88) equals one wrap of the exact sum.      *)
SumMatchesReference ==
    \A a \in Aggs : a.op = "sum" =>
        \A i \in Groups : agg_val[a][i] = Expected(a, applied[a][i])

(* Every min, max and count accumulator holds the least or greatest of    *)
(* the start value and the non-null values folded into it, or their       *)
(* number (std::min / std::max at lines 94 and 100, ++ at 106 and 113):   *)
(* a null row of a nullable aggregate and a row of another group never    *)
(* reach it, whatever the order of the calls.                             *)
OrderAggsMatchReference ==
    \A a \in Aggs : a.op # "sum" =>
        \A i \in Groups : agg_val[a][i] = Expected(a, applied[a][i])
=============================================================================
