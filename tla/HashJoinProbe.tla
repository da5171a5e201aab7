---------------------------- MODULE HashJoinProbe ----------------------------
(***************************************************************************)
(* The hash-join probe of the generated code and its runtime functions.    *)
(*                                                                         *)
(* Source: src/cpp/src/cider/exec/nextgen/operators/                       *)
(*         OperatorRuntimeFunctions.h, lines 118-157:                      *)
(*   look_up_value_by_key (a null key returns 0 and leaves the scratch     *)
(*   buffer alone; otherwise findAll, allocateBuffer(size * 16), copy of   *)
(*   the matches, return of their number), extract_join_res_array and      *)
(*   extract_join_row_id (reads of entry index of the scratch buffer).     *)
(*                                                                         *)
(* The hash table is opaque (spec section 1): findAll of a key is the      *)
(* sequence Table[k] of its matches in table-iteration order. A match,     *)
(* CiderJoinBaseValue, is a record [batch, offset]; getArray() of a batch  *)
(* is abstracted to the batch.                                             *)
(*                                                                         *)
(* The code that calls these functions is generated and not under src/;   *)
(* its loop is modelled from the spec (section 4.4): per probe row, call   *)
(* look_up_value_by_key, then extract the entries 0 .. count - 1.          *)
(***************************************************************************)
EXTENDS Integers, Sequences

CONSTANTS
    Keys,       \* join key values
    Batches,    \* build-side batches (model values)
    Table,      \* findAll: Keys -> Seq(Entries), in table-iteration order
    MaxProbes   \* bound on the probe rows of one run

Entries == [batch : Batches, offset : 0 .. 1]

ASSUME KeysAssumption == Keys # {}
ASSUME TableAssumption == Table \in [Keys -> Seq(Entries)]
ASSUME MaxProbesAssumption == MaxProbes \in Nat

VARIABLES
    buffer,   \* the scratch context::Buffer, as the sequence of its entries
    count,    \* the value look_up_value_by_key returned for the current row
    pc,       \* the generated code: "probe" or "extract"
    index,    \* the next entry the generated loop extracts
    probe,    \* ghost: the current probe row [key, is_null]
    emitted,  \* ghost: the joined rows emitted for the current probe row
    probes    \* probe rows processed so far

vars == <<buffer, count, pc, index, probe, emitted, probes>>

(* Mutant: a null key reports -1 ("not found") instead of 0.              *)
LookUpNullMinusOne(k, is_null) ==
    /\ pc = "probe" /\ probes < MaxProbes
    /\ IF ~is_null
       THEN buffer' = Table[k] /\ count' = Len(Table[k])
       ELSE count' = -1 /\ UNCHANGED buffer
    /\ pc' = "extract" /\ index' = 0
    /\ probe' = [key |-> k, is_null |-> is_null]
    /\ emitted' = <<>>
    /\ probes' = probes + 1

(* Mutant: the copy loop stops one entry early (i < size - 1).            *)
LookUpCopiesOneShort(k, is_null) ==
    /\ pc = "probe" /\ probes < MaxProbes
    /\ IF ~is_null
       THEN buffer' = SubSeq(Table[k], 1, Len(Table[k]) - 1) /\ count' = Len(Table[k])
       ELSE count' = 0 /\ UNCHANGED buffer
    /\ pc' = "extract" /\ index' = 0
    /\ probe' = [key |-> k, is_null |-> is_null]
    /\ emitted' = <<>>
    /\ probes' = probes + 1

(* Mutant: a null key reports the size of the buffer it left in place.    *)
LookUpNullStaleCount(k, is_null) ==
    /\ pc = "probe" /\ probes < MaxProbes
    /\ IF ~is_null
       THEN buffer' = Table[k] /\ count' = Len(Table[k])
       ELSE count' = Len(buffer) /\ UNCHANGED buffer
    /\ pc' = "extract" /\ index' = 0
    /\ probe' = [key |-> k, is_null |-> is_null]
    /\ emitted' = <<>>
    /\ probes' = probes + 1

(* look_up_value_by_key(hashtable, keys, nulls, buffer), with the          *)
(* generated code moving on to extract the matches.                        *)
look_up_value_by_key(k, is_null) ==
    /\ pc = "probe" /\ probes < MaxProbes
    /\ IF ~is_null
       THEN /\ buffer' = Table[k]      \* allocateBuffer(size * 16); copy loop
            /\ count' = Len(Table[k])
       ELSE /\ count' = 0              \* the buffer keeps the last results
            /\ UNCHANGED buffer
    /\ pc' = "extract" /\ index' = 0
    /\ probe' = [key |-> k, is_null |-> is_null]
    /\ emitted' = <<>>
    /\ probes' = probes + 1

(* extract_join_res_array(buffer, index) and extract_join_row_id(buffer,   *)
(* index): the batch's array and the row offset of entry index.            *)
extract_join_res_array(i) == buffer[i + 1].batch
extract_join_row_id(i) == buffer[i + 1].offset

(* One iteration of the generated loop over the matches.                   *)
ExtractMatch ==
    /\ pc = "extract" /\ index < count
    /\ emitted' = Append(emitted, [batch |-> extract_join_res_array(index),
                                   offset |-> extract_join_row_id(index)])
    /\ index' = index + 1
    /\ UNCHANGED <<buffer, count, pc, probe, probes>>

(* The loop ends after count matches; the next row is probed.              *)
NextProbeRow ==
    /\ pc = "extract" /\ index = count
    /\ pc' = "probe"
    /\ UNCHANGED <<buffer, count, index, probe, emitted, probes>>

Init ==
    /\ buffer = <<>>
    /\ count = 0
    /\ pc = "probe"
    /\ index = 0
    /\ probe = [key |-> CHOOSE k \in Keys : TRUE, is_null |-> TRUE]
    /\ emitted = <<>>
    /\ probes = 0

Next ==
    \/ \E k \in Keys, is_null \in BOOLEAN : look_up_value_by_key(k, is_null)
    \/ ExtractMatch
    \/ NextProbeRow

Spec == Init /\ [][Next]_vars

-----------------------------------------------------------------------------
(* The scratch buffer holds join entries and the probe count is a natural. *)
TypeOK ==
    /\ buffer \in Seq(Entries)
    /\ count \in Nat
    /\ pc \in {"probe", "extract"}
    /\ index \in Nat
    /\ probe \in [key : Keys, is_null : BOOLEAN]
    /\ emitted \in Seq(Entries)
    /\ probes \in 0 .. MaxProbes

(* The matches SQL requires for a probe row: none for a null key (a null   *)
(* never joins), all of findAll in table order otherwise.                  *)
Matches(p) == IF p.is_null THEN <<>> ELSE Table[p.key]

(* Every read of the scratch buffer by extract_join_res_array and          *)
(* extract_join_row_id is inside the entries the buffer holds: the count   *)
(* look_up_value_by_key returned never exceeds them, even after a null key *)
(* left an older buffer in place.                                          *)
ExtractInBounds == pc = "extract" => count <= Len(buffer)

(* The joined rows emitted for a probe row are, in order, the first        *)
(* entries of its own matches, and all of them once the loop is done: a    *)
(* null key yields no row and never the stale entries of an earlier probe  *)
(* that are still in the scratch buffer (OperatorRuntimeFunctions.h:140).  *)
ProbeYieldsMatches ==
    /\ index <= Len(Matches(probe))
    /\ emitted = SubSeq(Matches(probe), 1, index)
    /\ (pc = "probe" /\ probes > 0) => emitted = Matches(probe)
=============================================================================
