------------------------------ MODULE MC_AggRuntime ------------------------------
(* Small instance of AggRuntime for TLC: int8 aggregates of every kind and *)
(* variant (TLC's integers cannot hold 2^32), two groups, and values near  *)
(* the ends of int8 so that sums wrap within three calls.                 *)
EXTENDS AggRuntime

MCAggs == {[op |-> "sum",   width |-> 8,  variant |-> "nullable"],
           [op |-> "min",   width |-> 8,  variant |-> "nullable"],
           [op |-> "max",   width |-> 8,  variant |-> "plain"],
           [op |-> "sum",   width |-> 8,  variant |-> "with_offset"],
           [op |-> "count", width |-> 64, variant |-> "nullable"],
           [op |-> "count", width |-> 64, variant |-> "plain"]}
MCValues == {-128, -1, 100}
=============================================================================
