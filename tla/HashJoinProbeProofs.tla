------------------------- MODULE HashJoinProbeProofs -------------------------
(***************************************************************************)
(* Proofs about HashJoinProbe for every hash table, key set and number of  *)
(* probe rows.                                                             *)
(***************************************************************************)
EXTENDS HashJoinProbe, SequenceTheorems, TLAPS

(* The inductive invariant. Besides the types it ties the count and the    *)
(* scratch buffer to the current probe row: the count is the number of its *)
(* matches; unless its key was null, the buffer holds exactly them (after  *)
(* a null key the buffer is stale and the count is 0); the extraction loop *)
(* has emitted the first index matches and is done when it is back at     *)
(* "probe".                                                                *)
IInv ==
    /\ TypeOK
    /\ count = Len(Matches(probe))
    /\ probe.is_null \/ buffer = Table[probe.key]
    /\ index <= count
    /\ emitted = SubSeq(Matches(probe), 1, index)
    /\ pc = "probe" => index = count

(* The matches of a probe row are join entries.                           *)
LEMMA MatchesType ==
    ASSUME NEW p \in [key : Keys, is_null : BOOLEAN]
    PROVE  Matches(p) \in Seq(Entries)
BY TableAssumption DEF Matches

LEMMA IInvInit == Init => IInv
<1> SUFFICES ASSUME Init PROVE IInv
  OBVIOUS
<1>1. \E k \in Keys : TRUE
  BY KeysAssumption
<1>2. probe \in [key : Keys, is_null : BOOLEAN] /\ probe.is_null
  BY <1>1 DEF Init
<1>3. Matches(probe) = <<>>
  BY <1>2 DEF Matches
<1>4. TypeOK
  BY <1>2, MaxProbesAssumption DEF Init, TypeOK
<1>5. QED
  BY <1>2, <1>3, <1>4 DEF Init, IInv

(* A probe of key k: the new count, buffer and (empty) emitted rows agree  *)
(* with the new probe row.                                                *)
LEMMA ProbeStep ==
    ASSUME IInv, NEW k \in Keys, NEW is_null \in BOOLEAN, look_up_value_by_key(k, is_null)
    PROVE  IInv'
<1>1. probe' = [key |-> k, is_null |-> is_null] /\ index' = 0 /\ emitted' = <<>>
      /\ pc' = "extract"
  BY DEF look_up_value_by_key
<1>2. Table[k] \in Seq(Entries)
  BY TableAssumption
<1>3. CASE ~is_null
  <2>1. buffer' = Table[k] /\ count' = Len(Table[k])
    BY <1>3 DEF look_up_value_by_key
  <2>2. Matches(probe') = Table[k]
    BY <1>1, <1>3 DEF Matches
  <2>3. TypeOK'
    BY <1>1, <1>2, <2>1, MaxProbesAssumption DEF IInv, TypeOK, look_up_value_by_key
  <2>4. SubSeq(Table[k], 1, 0) = <<>>
    BY <1>2, SubSeqEmpty
  <2>5. QED
    BY <1>1, <2>1, <2>2, <2>3, <2>4 DEF IInv
<1>4. CASE is_null
  <2>1. buffer' = buffer /\ count' = 0
    BY <1>4 DEF look_up_value_by_key
  <2>2. Matches(probe') = <<>>
    BY <1>1, <1>4 DEF Matches
  <2>3. TypeOK'
    BY <1>1, <2>1, MaxProbesAssumption DEF IInv, TypeOK, look_up_value_by_key
  <2>4. SubSeq(<<>>, 1, 0) = <<>>
    BY SubSeqEmpty
  <2>5. QED
    BY <1>1, <1>4, <2>1, <2>2, <2>3, <2>4 DEF IInv
<1>5. QED
  BY <1>3, <1>4

(* One iteration of the extraction loop appends the next match.           *)
LEMMA ExtractStep ==
    ASSUME IInv, ExtractMatch
    PROVE  IInv'
<1> DEFINE M == Matches(probe)
<1>1. M \in Seq(Entries)
  BY MatchesType DEF IInv, TypeOK
<1>2. index \in Nat /\ index < count /\ count = Len(M)
  BY DEF ExtractMatch, IInv, TypeOK
<1>3. ~probe.is_null /\ buffer = M
  <2>1. ~probe.is_null
    BY <1>2 DEF Matches
  <2>2. QED
    BY <2>1 DEF IInv, Matches
<1>4. [batch |-> extract_join_res_array(index),
       offset |-> extract_join_row_id(index)] = M[index + 1]
  <2>1. M[index + 1] \in Entries
    BY <1>1, <1>2
  <2>2. QED
    BY <1>3, <2>1 DEF extract_join_res_array, extract_join_row_id, Entries
<1>5. SubSeq(M, 1, index + 1) = SubSeq(M, 1, index) \o <<M[index + 1]>>
  BY <1>1, <1>2, SubSeqRecursiveSecond
<1>6. SubSeq(M, 1, index) \in Seq(Entries)
  BY <1>1, <1>2, SubSeqProperties
<1>7. emitted' = SubSeq(M, 1, index + 1)
  BY <1>4, <1>5, <1>6, AppendIsConcat DEF ExtractMatch, IInv
<1>8. TypeOK'
  BY <1>1, <1>2, <1>4, <1>7, <1>6, SubSeqProperties DEF ExtractMatch, IInv, TypeOK
<1>9. QED
  BY <1>2, <1>7, <1>8 DEF ExtractMatch, IInv

LEMMA IInvStep == IInv /\ [Next]_vars => IInv'
<1> SUFFICES ASSUME IInv, [Next]_vars PROVE IInv'
  OBVIOUS
<1>1. ASSUME NEW k \in Keys, NEW is_null \in BOOLEAN, look_up_value_by_key(k, is_null)
      PROVE  IInv'
  BY <1>1, ProbeStep
<1>2. CASE ExtractMatch
  BY <1>2, ExtractStep
<1>3. CASE NextProbeRow
  BY <1>3 DEF NextProbeRow, IInv, TypeOK
<1>4. CASE UNCHANGED vars
  BY <1>4 DEF vars, IInv, TypeOK, Matches
<1>5. QED
  BY <1>1, <1>2, <1>3, <1>4 DEF Next

(* The scratch buffer only ever holds join entries and the count that     *)
(* look_up_value_by_key returns is never negative, even for a null key     *)
(* (OperatorRuntimeFunctions.h:119-143).                                   *)
THEOREM TypeCorrect == Spec => []TypeOK
<1>1. IInv => TypeOK
  BY DEF IInv
<1>2. QED
  BY <1>1, IInvInit, IInvStep, PTL DEF Spec

(* The generated probe loop never reads the scratch buffer past the        *)
(* entries look_up_value_by_key put there, and emits for every probe row   *)
(* exactly its own matches in table order (none for a null key), in every  *)
(* run and for every hash table (OperatorRuntimeFunctions.h:119-157).      *)
THEOREM ProbeCorrect == Spec => [](ExtractInBounds /\ ProbeYieldsMatches)
<1>1. Spec => []IInv
  BY IInvInit, IInvStep, PTL DEF Spec
<1>2. IInv => ExtractInBounds /\ ProbeYieldsMatches
  <2> SUFFICES ASSUME IInv PROVE ExtractInBounds /\ ProbeYieldsMatches
    OBVIOUS
  <2>1. ExtractInBounds
    <3>1. CASE probe.is_null
      BY <3>1 DEF IInv, TypeOK, Matches, ExtractInBounds
    <3>2. CASE ~probe.is_null
      BY <3>2 DEF IInv, Matches, ExtractInBounds
    <3>3. QED
      BY <3>1, <3>2
  <2>2. ProbeYieldsMatches
    <3>1. Matches(probe) \in Seq(Entries)
      BY MatchesType DEF IInv, TypeOK
    <3>2. SubSeq(Matches(probe), 1, Len(Matches(probe))) = Matches(probe)
      BY <3>1, SubSeqFull
    <3>3. QED
      BY <3>2 DEF IInv, ProbeYieldsMatches
  <2>3. QED
    BY <2>1, <2>2
<1>3. QED
  BY <1>1, <1>2, PTL
=============================================================================
