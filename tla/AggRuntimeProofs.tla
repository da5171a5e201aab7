------------------------- MODULE AggRuntimeProofs --------------------------
(***************************************************************************)
(* Proofs about AggRuntime for every set of aggregates, widths, groups,    *)
(* input values and call bounds.                                           *)
(***************************************************************************)
EXTENDS AggRuntime, WellFoundedInduction, TLAPS

(* A product of positive naturals is a positive natural.                  *)
LEMMA ProductPositive ==
    ASSUME NEW x \in Nat \ {0}, NEW y \in Nat \ {0}
    PROVE  x * y \in Nat \ {0}
OBVIOUS

(* The half range of every integer width is a positive natural.           *)
LEMMA HalfRangePositive ==
    ASSUME NEW w \in Widths
    PROVE  HalfRange(w) \in Nat \ {0}
<1>1. CASE w = 8
  BY <1>1 DEF HalfRange
<1>2. CASE w = 16
  BY <1>2 DEF HalfRange
<1>0. TwoTo16 \in Nat \ {0}
  BY DEF TwoTo16
<1>3. CASE w = 32
  BY <1>0, <1>3, ProductPositive DEF HalfRange
<1>4. CASE w = 64
  <2>1. 32768 * TwoTo16 \in Nat \ {0}
    BY <1>0, ProductPositive
  <2>2. (32768 * TwoTo16) * TwoTo16 \in Nat \ {0}
    BY <1>0, <2>1, ProductPositive
  <2>3. ((32768 * TwoTo16) * TwoTo16) * TwoTo16 \in Nat \ {0}
    BY <1>0, <2>2, ProductPositive
  <2>4. QED
    BY <1>4, <2>3 DEF HalfRange
<1>5. QED
  BY <1>1, <1>2, <1>3, <1>4 DEF Widths

(* Storing an int result back into int<w>_t gives a value of the width.   *)
LEMMA WrapInWidth ==
    ASSUME NEW w \in Widths, NEW x \in Int
    PROVE  /\ SignedWrap(w, x) \in Int
           /\ MinOfWidth(w) <= SignedWrap(w, x)
           /\ SignedWrap(w, x) <= MaxOfWidth(w)
<1>1. HalfRange(w) \in Nat \ {0}
  BY HalfRangePositive
<1>2. ASSUME NEW k \in Nat \ {0}, NEW y \in Int
      PROVE  /\ ((y + k) % (2 * k)) - k \in Int
             /\ -k <= ((y + k) % (2 * k)) - k
             /\ ((y + k) % (2 * k)) - k <= k - 1
  OBVIOUS
<1>3. QED
  BY <1>1, <1>2 DEF SignedWrap, MinOfWidth, MaxOfWidth

(* One update of nextgen_cider_agg keeps the accumulator in its width,    *)
(* given a value of the width.                                            *)
LEMMA AggInWidth ==
    ASSUME NEW a \in Aggs, a.op # "count", NEW acc \in Int, NEW val \in InputsOf(a),
           MinOfWidth(a.width) <= acc, acc <= MaxOfWidth(a.width)
    PROVE  /\ nextgen_cider_agg(a.op, a.width, acc, val) \in Int
           /\ MinOfWidth(a.width) <= nextgen_cider_agg(a.op, a.width, acc, val)
           /\ nextgen_cider_agg(a.op, a.width, acc, val) <= MaxOfWidth(a.width)
<1>1. a.op \in {"sum", "min", "max"} /\ a.width \in Widths
  BY AggsAssumption DEF Ops
<1>2. val \in Int /\ MinOfWidth(a.width) <= val /\ val <= MaxOfWidth(a.width)
  BY <1>1, ValuesAssumption DEF InputsOf
<1>3. CASE a.op = "sum"
  <2>1. nextgen_cider_agg(a.op, a.width, acc, val) = SignedWrap(a.width, acc + val)
    BY <1>3 DEF nextgen_cider_agg
  <2>2. QED
    BY <1>1, <1>2, <2>1, WrapInWidth
<1>4. CASE a.op = "min"
  <2>1. nextgen_cider_agg(a.op, a.width, acc, val) = IF val < acc THEN val ELSE acc
    BY <1>4 DEF nextgen_cider_agg
  <2>2. QED
    BY <1>2, <2>1
<1>5. CASE a.op = "max"
  <2>1. nextgen_cider_agg(a.op, a.width, acc, val) = IF acc < val THEN val ELSE acc
    BY <1>5 DEF nextgen_cider_agg
  <2>2. QED
    BY <1>2, <2>1
<1>6. QED
  BY <1>1, <1>3, <1>4, <1>5

(* The accumulator the generated code starts from is in its width.        *)
LEMMA InitAccInWidth ==
    ASSUME NEW a \in Aggs, a.op # "count"
    PROVE  /\ InitAcc(a) \in Int
           /\ MinOfWidth(a.width) <= InitAcc(a)
           /\ InitAcc(a) <= MaxOfWidth(a.width)
<1>1. HalfRange(a.width) \in Nat \ {0}
  BY AggsAssumption, HalfRangePositive
<1>2. QED
  BY <1>1 DEF InitAcc, MinOfWidth, MaxOfWidth

(* Folding a value of the width into one accumulator keeps all of them    *)
(* well typed.                                                            *)
LEMMA FoldType ==
    ASSUME TypeOK, NEW a \in Aggs, a.op # "count", NEW i \in Groups,
           NEW val \in InputsOf(a), Fold(a, i, val)
    PROVE  /\ agg_val' \in [Aggs -> [Groups -> Int]]
           /\ AccsInWidth(agg_val')
<1> DEFINE r == nextgen_cider_agg(a.op, a.width, agg_val[a][i], val)
<1>1. /\ r \in Int
      /\ MinOfWidth(a.width) <= r
      /\ r <= MaxOfWidth(a.width)
  BY AggInWidth DEF TypeOK, AccsInWidth
<1>2. agg_val' = [agg_val EXCEPT ![a][i] = r]
  BY DEF Fold
<1>3. QED
  BY <1>1, <1>2 DEF TypeOK, AccsInWidth

(* Incrementing a count keeps all accumulators well typed.                *)
LEMMA CountType ==
    ASSUME TypeOK, NEW a \in Aggs, a.op = "count",
           agg_val' = [agg_val EXCEPT ![a][0] = @ + 1]
    PROVE  /\ agg_val' \in [Aggs -> [Groups -> Int]]
           /\ AccsInWidth(agg_val')
<1>1. 0 \in Groups
  BY NumGroupsAssumption DEF Groups
<1>2. QED
  BY <1>1 DEF TypeOK, AccsInWidth

(* The ghost record keeps a sequence of integers per accumulator.         *)
LEMMA RecordType ==
    ASSUME TypeOK, NEW a \in Aggs, NEW i \in Groups, NEW val \in Int,
           NEW is_null \in BOOLEAN, Record(a, i, val, is_null)
    PROVE  applied' \in [Aggs -> [Groups -> Seq(Int)]]
BY DEF TypeOK, Record

(* A value of an aggregate's input column is an integer.                  *)
LEMMA InputsAreInts ==
    ASSUME NEW a \in Aggs
    PROVE  InputsOf(a) \subseteq Int
BY ValuesAssumption DEF InputsOf

LEMMA TypeInit == Init => TypeOK
<1> SUFFICES ASSUME Init PROVE TypeOK
  OBVIOUS
<1>1. \A a \in Aggs : a.op = "count" => InitAcc(a) = 0
  BY AggsAssumption DEF InitAcc, Ops
<1>2. \A a \in Aggs : InitAcc(a) \in Int
  <2> SUFFICES ASSUME NEW a \in Aggs PROVE InitAcc(a) \in Int
    OBVIOUS
  <2>1. CASE a.op = "count"
    BY <1>1, <2>1
  <2>2. CASE a.op # "count"
    BY <2>2, InitAccInWidth
  <2>3. QED
    BY <2>1, <2>2
<1>3. QED
  BY <1>1, <1>2, InitAccInWidth, MaxCallsAssumption DEF Init, TypeOK, AccsInWidth

LEMMA TypeStep == TypeOK /\ [Next]_vars => TypeOK'
<1> SUFFICES ASSUME TypeOK, [Next]_vars PROVE TypeOK'
  OBVIOUS
<1>0. 0 \in Groups
  BY NumGroupsAssumption DEF Groups
<1>c. ASSUME Call PROVE calls' \in 0 .. MaxCalls
  BY <1>c, MaxCallsAssumption DEF Call, TypeOK
<1>1. ASSUME NEW a \in Aggs, NEW val \in InputsOf(a), AggInt(a, val) PROVE TypeOK'
  BY <1>0, <1>1, <1>c, FoldType, RecordType, InputsAreInts DEF AggInt, TypeOK
<1>2. ASSUME NEW a \in Aggs, NEW index \in Groups, NEW val \in InputsOf(a),
             AggIntWithOffset(a, index, val)
      PROVE TypeOK'
  <2>1. a.op # "count"
    BY <1>2, AggsAssumption DEF AggIntWithOffset
  <2>2. QED
    BY <1>2, <1>c, <2>1, FoldType, RecordType, InputsAreInts DEF AggIntWithOffset, TypeOK
<1>3. ASSUME NEW a \in Aggs, NEW val \in InputsOf(a), NEW is_null \in BOOLEAN,
             AggIntNullable(a, val, is_null)
      PROVE TypeOK'
  <2>1. applied' \in [Aggs -> [Groups -> Seq(Int)]] /\ calls' \in 0 .. MaxCalls
    BY <1>0, <1>3, <1>c, RecordType, InputsAreInts DEF AggIntNullable
  <2>2. CASE ~is_null
    BY <1>0, <1>3, <2>1, <2>2, FoldType DEF AggIntNullable, TypeOK
  <2>3. CASE is_null
    BY <1>3, <2>1, <2>3 DEF AggIntNullable, TypeOK
  <2>4. QED
    BY <2>2, <2>3
<1>4. ASSUME NEW a \in Aggs, AggCount(a) PROVE TypeOK'
  <2>1. Record(a, 0, 1, FALSE) /\ a.op = "count"
    BY <1>4 DEF AggCount
  <2>2. applied' \in [Aggs -> [Groups -> Seq(Int)]]
    BY <1>0, <2>1 DEF Record, TypeOK
  <2>3. agg_val' \in [Aggs -> [Groups -> Int]] /\ AccsInWidth(agg_val')
    BY <1>4, <2>1, CountType DEF AggCount
  <2>4. QED
    BY <1>4, <1>c, <2>2, <2>3 DEF AggCount, TypeOK
<1>5. ASSUME NEW a \in Aggs, NEW is_null \in BOOLEAN, AggCountNullable(a, is_null)
      PROVE TypeOK'
  <2>0. Record(a, 0, 1, is_null) /\ Call
    BY <1>5 DEF AggCountNullable
  <2>1. applied' \in [Aggs -> [Groups -> Seq(Int)]] /\ calls' \in 0 .. MaxCalls
    BY <1>0, <1>c, <2>0 DEF Record, TypeOK
  <2>2. CASE ~is_null
    BY <1>5, <2>1, <2>2, CountType DEF AggCountNullable, TypeOK
  <2>3. CASE is_null
    BY <1>5, <2>1, <2>3 DEF AggCountNullable, TypeOK
  <2>4. QED
    BY <2>2, <2>3
<1>6. CASE UNCHANGED vars
  BY <1>6 DEF vars, TypeOK, AccsInWidth
<1>7. QED
  BY <1>1, <1>2, <1>3, <1>4, <1>5, <1>6 DEF Next

(* Every state of the aggregation runtime is well typed: every            *)
(* accumulator stays in the range of its int<width>_t under the wrap of    *)
(* nextgen_cider_agg_sum.                                                 *)
LEMMA TypeCorrect == Spec => []TypeOK
BY TypeInit, TypeStep, PTL DEF Spec
-----------------------------------------------------------------------------
(* The null byte of a nullable aggregate. NullFlagMeansNeverUpdated is    *)
(* inductive together with the types.                                     *)

IInv == TypeOK /\ NullFlagMeansNeverUpdated

(* A nullable update of a and its ghost record: on a non-null row the     *)
(* null byte of a becomes 0 and a's history grows; on a null row neither  *)
(* changes. Every other aggregate keeps both.                             *)
LEMMA NullableStep ==
    ASSUME IInv, NEW a \in Aggs, a.variant = "nullable", NEW val \in Int,
           NEW is_null \in BOOLEAN,
           Record(a, 0, val, is_null),
           IF ~is_null THEN agg_null' = [agg_null EXCEPT ![a] = 0]
           ELSE agg_null' = agg_null
    PROVE  NullFlagMeansNeverUpdated'
<1> SUFFICES ASSUME NEW b \in Aggs, b.variant = "nullable"
             PROVE  agg_null'[b] = 1 <=> applied'[b][0] = <<>>
  BY DEF NullFlagMeansNeverUpdated
<1>0. 0 \in Groups
  BY NumGroupsAssumption DEF Groups
<1>1. CASE b # a
  <2>1. agg_null'[b] = agg_null[b] /\ applied'[b] = applied[b]
    BY <1>1 DEF Record, IInv, TypeOK
  <2>2. QED
    BY <2>1 DEF IInv, NullFlagMeansNeverUpdated
<1>2. CASE b = a /\ ~is_null
  <2>1. agg_null'[a] = 0
    BY <1>2 DEF IInv, TypeOK
  <2>2. applied'[a][0] = Append(applied[a][0], val)
    BY <1>0, <1>2 DEF Record, IInv, TypeOK
  <2>3. applied[a][0] \in Seq(Int)
    BY <1>0 DEF IInv, TypeOK
  <2>4. applied'[a][0] # <<>>
    BY <2>2, <2>3
  <2>5. QED
    BY <1>2, <2>1, <2>4
<1>3. CASE b = a /\ is_null
  BY <1>3 DEF Record, IInv, NullFlagMeansNeverUpdated
<1>4. QED
  BY <1>1, <1>2, <1>3

LEMMA IInvInit == Init => IInv
<1> SUFFICES ASSUME Init PROVE IInv
  OBVIOUS
<1>1. TypeOK
  BY TypeInit
<1>2. NullFlagMeansNeverUpdated
  BY NumGroupsAssumption DEF Init, NullFlagMeansNeverUpdated, Groups
<1>3. QED
  BY <1>1, <1>2 DEF IInv

LEMMA IInvStep == IInv /\ [Next]_vars => IInv'
<1> SUFFICES ASSUME IInv, [Next]_vars PROVE IInv'
  OBVIOUS
<1>0. 0 \in Groups
  BY NumGroupsAssumption DEF Groups
<1>t. TypeOK'
  BY TypeStep DEF IInv
<1> SUFFICES NullFlagMeansNeverUpdated'
  BY <1>t DEF IInv
(* A call of a non-nullable function touches no nullable aggregate.       *)
<1>p. ASSUME NEW a \in Aggs, a.variant # "nullable", NEW i \in Groups, NEW val \in Int,
             Record(a, i, val, FALSE), UNCHANGED agg_null
      PROVE  NullFlagMeansNeverUpdated'
  <2>1. \A b \in Aggs : b.variant = "nullable" => applied'[b] = applied[b]
    BY <1>p DEF Record, IInv, TypeOK
  <2>2. QED
    BY <1>p, <2>1 DEF IInv, NullFlagMeansNeverUpdated
<1>1. ASSUME NEW a \in Aggs, NEW val \in InputsOf(a), AggInt(a, val)
      PROVE  NullFlagMeansNeverUpdated'
  BY <1>0, <1>1, <1>p, InputsAreInts DEF AggInt
<1>2. ASSUME NEW a \in Aggs, NEW index \in Groups, NEW val \in InputsOf(a),
             AggIntWithOffset(a, index, val)
      PROVE  NullFlagMeansNeverUpdated'
  BY <1>2, <1>p, InputsAreInts DEF AggIntWithOffset
<1>3. ASSUME NEW a \in Aggs, NEW val \in InputsOf(a), NEW is_null \in BOOLEAN,
             AggIntNullable(a, val, is_null)
      PROVE  NullFlagMeansNeverUpdated'
  <2>1. IF ~is_null THEN agg_null' = [agg_null EXCEPT ![a] = 0]
        ELSE agg_null' = agg_null
    BY <1>3 DEF AggIntNullable
  <2>2. QED
    BY <1>3, <2>1, NullableStep, InputsAreInts DEF AggIntNullable
<1>4. ASSUME NEW a \in Aggs, AggCount(a) PROVE NullFlagMeansNeverUpdated'
  <2>1. a.variant # "nullable" /\ Record(a, 0, 1, FALSE) /\ UNCHANGED agg_null
    BY <1>4 DEF AggCount
  <2>2. 1 \in Int
    OBVIOUS
  <2>3. QED
    BY <1>0, <2>1, <2>2, <1>p
<1>5. ASSUME NEW a \in Aggs, NEW is_null \in BOOLEAN, AggCountNullable(a, is_null)
      PROVE  NullFlagMeansNeverUpdated'
  <2>1. IF ~is_null THEN agg_null' = [agg_null EXCEPT ![a] = 0]
        ELSE agg_null' = agg_null
    BY <1>5 DEF AggCountNullable
  <2>2. QED
    BY <1>5, <2>1, NullableStep DEF AggCountNullable
<1>6. CASE UNCHANGED vars
  BY <1>6 DEF vars, IInv, NullFlagMeansNeverUpdated
<1>7. QED
  BY <1>1, <1>2, <1>3, <1>4, <1>5, <1>6 DEF Next

(* The null byte the nullable aggregates write (OperatorRuntimeFunctions.h *)
(* lines 47-50 and 112-115) is 1 exactly while no non-null row has been    *)
(* folded into the aggregate, in every run and for every configuration.   *)
THEOREM NullFlagCorrect == Spec => []NullFlagMeansNeverUpdated
<1>1. Spec => []IInv
  BY IInvInit, IInvStep, PTL DEF Spec
<1>2. QED
  BY <1>1, PTL DEF IInv
-----------------------------------------------------------------------------
(* The reference sum, and the wrap of int<w>_t. SeqSum is a recursive     *)
(* function: what it computes is established by induction, argued as the *)
(* absence of a least counterexample (LeastNat).                          *)

(* < on the naturals, as the relation WellFoundedInduction speaks of.     *)
LEMMA LessInRel ==
    ASSUME NEW x \in Nat, NEW y \in Nat, y < x
    PROVE  <<y, x>> \in OpToRel(<, Nat)
BY Zenon DEF OpToRel

(* Every nonempty set of naturals has a least element. The proofs below   *)
(* argue by induction through it: a least counterexample cannot exist.   *)
LEMMA LeastNat ==
    ASSUME NEW T \in SUBSET Nat, T # {}
    PROVE  \E x \in T : \A y \in T : x <= y
<1>1. PICK x \in T : \A y \in T : ~(<<y, x>> \in OpToRel(<, Nat))
  BY NatLessThanWellFounded, WFMin
<1>2. \A y \in T : ~(y < x)
  BY <1>1, LessInRel, Zenon
<1>3. QED
  BY <1>2

(* g is the function of partial sums of s up to n: the recursive          *)
(* function SeqSum defines, with its domain cut at n.                    *)
IsPS(s, g, n) == g = [k \in 0 .. n |-> IF k = 0 THEN 0 ELSE g[k - 1] + s[k]]

(* A partial-sum function exists for every prefix length, and it is      *)
(* unique.                                                               *)
LEMMA PSExists ==
    ASSUME NEW s \in Seq(Int), NEW n \in 0 .. Len(s)
    PROVE  \E g \in [0 .. n -> Int] : IsPS(s, g, n)
<1> DEFINE Ok(m) == \E g \in [0 .. m -> Int] : IsPS(s, g, m)
           T == {m \in 0 .. Len(s) : ~Ok(m)}
<1> SUFFICES ASSUME T # {} PROVE FALSE
  OBVIOUS
<1>0. T \in SUBSET Nat
  OBVIOUS
<1>1. PICK m \in T : \A y \in T : m <= y
  BY <1>0, LeastNat
<1>a. m \in 0 .. Len(s) /\ ~Ok(m)
  BY <1>1
<1>2. CASE m = 0
  <2> DEFINE g == [k \in 0 .. 0 |-> 0]
  <2>1. g \in [0 .. 0 -> Int] /\ IsPS(s, g, 0)
    BY DEF IsPS
  <2>2. QED
    BY <1>a, <1>2, <2>1
<1>3. CASE m # 0
  <2>1. m - 1 \in 0 .. Len(s)
    BY <1>a, <1>3
  <2>a. m - 1 \notin T
    BY <1>1, <1>a, <2>1
  <2>b. Ok(m - 1)
    BY <2>1, <2>a
  <2>2. PICK g \in [0 .. m - 1 -> Int] : IsPS(s, g, m - 1)
    BY <2>b
  <2> DEFINE h == [k \in 0 .. m |-> IF k < m THEN g[k] ELSE g[m - 1] + s[m]]
  <2>3. h \in [0 .. m -> Int]
    BY <1>a, <1>3
  <2>4. \A k \in 0 .. m - 1 : g[k] = IF k = 0 THEN 0 ELSE g[k - 1] + s[k]
    BY <2>2 DEF IsPS
  <2>5. IsPS(s, h, m)
    BY <1>a, <1>3, <2>4 DEF IsPS
  <2>6. QED
    BY <1>a, <2>3, <2>5
<1>4. QED
  BY <1>2, <1>3

LEMMA PSUnique ==
    ASSUME NEW s, NEW n \in Nat, NEW g, NEW h, IsPS(s, g, n), IsPS(s, h, n)
    PROVE  g = h
<1> DEFINE T == {m \in 0 .. n : g[m] # h[m]}
<1>0. /\ g = [k \in 0 .. n |-> IF k = 0 THEN 0 ELSE g[k - 1] + s[k]]
      /\ h = [k \in 0 .. n |-> IF k = 0 THEN 0 ELSE h[k - 1] + s[k]]
  BY DEF IsPS
<1>b. DOMAIN g = 0 .. n /\ DOMAIN h = 0 .. n
  BY <1>0
<1> SUFFICES ASSUME T # {} PROVE FALSE
  <2>1. ASSUME T = {} PROVE \A m \in 0 .. n : g[m] = h[m]
    BY <2>1
  <2>2. g = [m \in 0 .. n |-> g[m]] /\ h = [m \in 0 .. n |-> h[m]]
    BY <1>0
  <2>3. QED
    BY <2>1, <2>2
<1>c. T \in SUBSET Nat
  OBVIOUS
<1>1. PICK m \in T : \A y \in T : m <= y
  BY <1>c, LeastNat
<1>a. m \in 0 .. n /\ g[m] # h[m]
  BY <1>1
<1>2. g[m] = IF m = 0 THEN 0 ELSE g[m - 1] + s[m]
  BY <1>0, <1>a
<1>3. h[m] = IF m = 0 THEN 0 ELSE h[m - 1] + s[m]
  BY <1>0, <1>a
<1>4. m # 0 => g[m - 1] = h[m - 1]
  BY <1>1, <1>a
<1>5. QED
  BY <1>a, <1>2, <1>3, <1>4

(* The function the LET of SeqSum defines.                               *)
PS(s) == CHOOSE g : IsPS(s, g, Len(s))

LEMMA SeqSumIsPS ==
    ASSUME NEW s \in Seq(Int)
    PROVE  /\ IsPS(s, PS(s), Len(s))
           /\ PS(s) \in [0 .. Len(s) -> Int]
           /\ SeqSum(s) = PS(s)[Len(s)]
<1>1. PICK g \in [0 .. Len(s) -> Int] : IsPS(s, g, Len(s))
  BY PSExists
<1>2. IsPS(s, PS(s), Len(s))
  BY <1>1 DEF PS
<1>3. PS(s) = g
  BY <1>1, <1>2, PSUnique
<1>4. SeqSum(s) = PS(s)[Len(s)]
  BY DEF SeqSum, PS, IsPS
<1>5. QED
  BY <1>1, <1>2, <1>3, <1>4

(* SeqSum adds the elements of a sequence one at a time.                 *)
LEMMA SeqSumEmpty == SeqSum(<<>>) = 0
<1>1. <<>> \in Seq(Int)
  OBVIOUS
<1>2. IsPS(<<>>, PS(<<>>), 0) /\ SeqSum(<<>>) = PS(<<>>)[0]
  BY <1>1, SeqSumIsPS
<1>3. QED
  BY <1>2 DEF IsPS

LEMMA SeqSumAppend ==
    ASSUME NEW s \in Seq(Int), NEW v \in Int
    PROVE  /\ SeqSum(s) \in Int
           /\ SeqSum(Append(s, v)) = SeqSum(s) + v
<1> DEFINE t == Append(s, v)
           L == Len(s)
           f == PS(t)
           g == [k \in 0 .. L |-> f[k]]
<1>1. t \in Seq(Int) /\ Len(t) = L + 1 /\ L \in Nat
  OBVIOUS
<1>2. /\ f = [k \in 0 .. L + 1 |-> IF k = 0 THEN 0 ELSE f[k - 1] + t[k]]
      /\ f \in [0 .. L + 1 -> Int]
      /\ SeqSum(t) = f[L + 1]
  BY <1>1, SeqSumIsPS DEF IsPS
<1>t. f \in [0 .. L + 1 -> Int]
  BY <1>1, SeqSumIsPS
<1>3. \A k \in 1 .. L : t[k] = s[k]
  OBVIOUS
<1>r. \A k \in 0 .. L + 1 : f[k] = IF k = 0 THEN 0 ELSE f[k - 1] + t[k]
  BY <1>2
<1>4. IsPS(s, g, L)
  <2>1. \A k \in 0 .. L + 1 : f[k] = IF k = 0 THEN 0 ELSE f[k - 1] + t[k]
    BY <1>r
  <2>2. \A k \in 0 .. L : g[k] = IF k = 0 THEN 0 ELSE g[k - 1] + s[k]
    BY <1>3, <2>1
  <2>3. QED
    BY <2>2 DEF IsPS
<1>5. IsPS(s, PS(s), L) /\ SeqSum(s) = PS(s)[L]
  BY SeqSumIsPS
<1>6. PS(s) = g
  BY <1>4, <1>5, PSUnique
<1>7. SeqSum(s) = f[L] /\ f[L] \in Int
  <2>1. SeqSum(s) = g[L]
    BY <1>5, <1>6
  <2>2. g[L] = f[L]
    BY <1>1
  <2>3. f[L] \in Int
    BY <1>1, <1>t
  <2>4. QED
    BY <2>1, <2>2, <2>3
<1>8. f[L + 1] = f[L] + v
  <2>1. f[L + 1] = f[L] + t[L + 1]
    BY <1>1, <1>r
  <2>2. t[L + 1] = v
    OBVIOUS
  <2>3. QED
    BY <2>1, <2>2
<1>9. QED
  BY <1>2, <1>7, <1>8

(* The remainder modulo m is the unique r in 0 .. m - 1 with a - r a     *)
(* multiple of m.                                                        *)
LEMMA ModUnique ==
    ASSUME NEW m \in Nat \ {0}, NEW a \in Int, NEW q \in Int, NEW r \in 0 .. m - 1,
           a = q * m + r
    PROVE  a % m = r
OBVIOUS

(* Wrapping after each addition is wrapping once: the remainder modulo   *)
(* 2k of a sum only depends on the remainders of its terms.              *)
LEMMA ModAddWrap ==
    ASSUME NEW k \in Nat \ {0}, NEW x \in Int, NEW v \in Int
    PROVE  ((((x + k) % (2 * k)) - k + v) + k) % (2 * k) = (x + v + k) % (2 * k)
<1> DEFINE m == 2 * k
           a1 == (x + k) % m
           r == (x + v + k) % m
<1>1. m \in Nat \ {0}
  OBVIOUS
<1>2. a1 \in 0 .. m - 1 /\ r \in 0 .. m - 1
  BY <1>1
<1>3. PICK q1 \in Int : (x + k) - a1 = m * q1
  <2>1. (x + k) - a1 \in {m * q : q \in Int}
    BY <1>1
  <2>2. QED
    BY <2>1
<1>4. PICK q2 \in Int : (x + v + k) - r = m * q2
  <2>1. (x + v + k) - r \in {m * q : q \in Int}
    BY <1>1
  <2>2. QED
    BY <2>1
<1>5. a1 + v = (q2 - q1) * m + r
  BY <1>2, <1>3, <1>4
<1>6. (a1 + v) % m = r
  <2>1. q2 - q1 \in Int
    OBVIOUS
  <2>2. a1 + v \in Int
    BY <1>2
  <2>3. QED
    BY <1>1, <1>2, <1>5, <2>1, <2>2, ModUnique
<1>7. QED
  BY <1>2, <1>6

(* Adding to a wrapped value and wrapping again is wrapping the exact    *)
(* sum: the per-call wrap of nextgen_cider_agg_sum loses nothing.         *)
LEMMA WrapAdd ==
    ASSUME NEW w \in Widths, NEW x \in Int, NEW v \in Int
    PROVE  SignedWrap(w, SignedWrap(w, x) + v) = SignedWrap(w, x + v)
<1>1. HalfRange(w) \in Nat \ {0}
  BY HalfRangePositive
<1>2. QED
  BY <1>1, ModAddWrap DEF SignedWrap

(* The wrap of 0 is 0.                                                    *)
LEMMA WrapZero ==
    ASSUME NEW w \in Widths
    PROVE  SignedWrap(w, 0) = 0
<1>1. HalfRange(w) \in Nat \ {0}
  BY HalfRangePositive
<1>2. \A k \in Nat \ {0} : (0 + k) % (2 * k) = k
  OBVIOUS
<1>3. QED
  BY <1>1, <1>2 DEF SignedWrap

-----------------------------------------------------------------------------
(* min, max and count against the reference. Vals(a, s) are the values    *)
(* an accumulator of a has seen: its start value and every value of its   *)
(* history s.                                                             *)
Vals(a, s) == {InitAcc(a)} \cup {s[k] : k \in 1 .. Len(s)}

(* A sum accumulator is the wrapped sum of its history; a min (max)       *)
(* accumulator is one of the values it has seen and below (above) all of  *)
(* them; a count is the length of its history.                           *)
AccOK(a, acc, s) ==
    /\ a.op = "sum" => acc = SignedWrap(a.width, SeqSum(s))
    /\ a.op = "min" => acc \in Vals(a, s) /\ \A x \in Vals(a, s) : acc <= x
    /\ a.op = "max" => acc \in Vals(a, s) /\ \A x \in Vals(a, s) : x <= acc
    /\ a.op = "count" => acc = Len(s)

(* The inductive invariant: the types and AccOK of every accumulator.     *)
OInv ==
    /\ TypeOK
    /\ \A a \in Aggs, i \in Groups : AccOK(a, agg_val[a][i], applied[a][i])

(* Appending a value to a history adds exactly that value to Vals.        *)
LEMMA ValsAppend ==
    ASSUME NEW a, NEW s \in Seq(Int), NEW v
    PROVE  Vals(a, Append(s, v)) = Vals(a, s) \cup {v}
BY DEF Vals

(* The values a min or max accumulator has seen are integers.             *)
LEMMA ValsInt ==
    ASSUME NEW a \in Aggs, a.op # "count", NEW s \in Seq(Int)
    PROVE  Vals(a, s) \subseteq Int
BY InitAccInWidth DEF Vals

(* SetMin and SetMax pick the element that is below (above) all others:   *)
(* it is unique.                                                          *)
LEMMA SetMinIs ==
    ASSUME NEW S \in SUBSET Int, NEW m \in S, \A x \in S : m <= x
    PROVE  SetMin(S) = m
<1>1. \E y \in S : \A x \in S : y <= x
  OBVIOUS
<1>2. SetMin(S) \in S /\ \A x \in S : SetMin(S) <= x
  BY <1>1 DEF SetMin
<1>3. SetMin(S) \in Int /\ SetMin(S) <= m /\ m <= SetMin(S)
  BY <1>2
<1>4. QED
  BY <1>3

LEMMA SetMaxIs ==
    ASSUME NEW S \in SUBSET Int, NEW m \in S, \A x \in S : x <= m
    PROVE  SetMax(S) = m
<1>1. \E y \in S : \A x \in S : x <= y
  OBVIOUS
<1>2. SetMax(S) \in S /\ \A x \in S : x <= SetMax(S)
  BY <1>1 DEF SetMax
<1>3. SetMax(S) \in Int /\ m <= SetMax(S) /\ SetMax(S) <= m
  BY <1>2
<1>4. QED
  BY <1>3

(* One fold of nextgen_cider_agg keeps AccOK: the wrapped sum plus a value *)
(* wraps to the wrapped sum of the longer history; std::min of the old    *)
(* least value and the new one is the least of them all (std::max too).   *)
LEMMA FoldAccOK ==
    ASSUME NEW a \in Aggs, a.op # "count", NEW acc \in Int, NEW s \in Seq(Int),
           NEW v \in Int, AccOK(a, acc, s)
    PROVE  AccOK(a, nextgen_cider_agg(a.op, a.width, acc, v), Append(s, v))
<1>1. Vals(a, Append(s, v)) = Vals(a, s) \cup {v} /\ Vals(a, s) \subseteq Int
  BY ValsAppend, ValsInt
<1>2. a.op \in {"sum", "min", "max"}
  BY AggsAssumption DEF Ops
<1>3. CASE a.op = "sum"
  <2>1. nextgen_cider_agg(a.op, a.width, acc, v) = SignedWrap(a.width, acc + v)
    BY <1>3 DEF nextgen_cider_agg
  <2>2. acc = SignedWrap(a.width, SeqSum(s))
    BY <1>3 DEF AccOK
  <2>3. SeqSum(s) \in Int /\ SeqSum(Append(s, v)) = SeqSum(s) + v
    BY SeqSumAppend
  <2>4. a.width \in Widths
    BY AggsAssumption
  <2>5. SignedWrap(a.width, acc + v) = SignedWrap(a.width, SeqSum(Append(s, v)))
    BY <2>2, <2>3, <2>4, WrapAdd
  <2>6. QED
    BY <1>3, <2>1, <2>5 DEF AccOK
<1>4. CASE a.op = "min"
  <2>1. nextgen_cider_agg(a.op, a.width, acc, v) = IF v < acc THEN v ELSE acc
    BY <1>4 DEF nextgen_cider_agg
  <2>2. acc \in Vals(a, s) /\ \A x \in Vals(a, s) : acc <= x
    BY <1>4 DEF AccOK
  <2>3. QED
    BY <1>1, <1>4, <2>1, <2>2 DEF AccOK
<1>5. CASE a.op = "max"
  <2>1. nextgen_cider_agg(a.op, a.width, acc, v) = IF acc < v THEN v ELSE acc
    BY <1>5 DEF nextgen_cider_agg
  <2>2. acc \in Vals(a, s) /\ \A x \in Vals(a, s) : x <= acc
    BY <1>5 DEF AccOK
  <2>3. QED
    BY <1>1, <1>5, <2>1, <2>2 DEF AccOK
<1>6. QED
  BY <1>2, <1>3, <1>4, <1>5

(* ++ on a count and a 1 appended to its history keep AccOK.              *)
LEMMA CountAccOK ==
    ASSUME NEW a \in Aggs, a.op = "count", NEW acc \in Int, NEW s \in Seq(Int),
           AccOK(a, acc, s)
    PROVE  AccOK(a, acc + 1, Append(s, 1))
BY DEF AccOK

(* An accumulator that satisfies AccOK holds the reference value of its   *)
(* aggregate.                                                             *)
LEMMA AccOKMatches ==
    ASSUME NEW a \in Aggs, NEW acc \in Int, NEW s \in Seq(Int),
           AccOK(a, acc, s)
    PROVE  acc = Expected(a, s)
<1>1. a.op \in {"sum", "min", "max", "count"}
  BY AggsAssumption DEF Ops
<1>6. CASE a.op = "sum"
  <2>1. Expected(a, s) = SignedWrap(a.width, InitAcc(a) + SeqSum(s))
    BY <1>6 DEF Expected
  <2>2. InitAcc(a) = 0 /\ SeqSum(s) \in Int
    BY <1>6, SeqSumAppend DEF InitAcc
  <2>3. QED
    BY <1>6, <2>1, <2>2 DEF AccOK
<1>2. CASE a.op = "min"
  <2>1. Expected(a, s) = SetMin(Vals(a, s))
    BY <1>2 DEF Expected, Vals
  <2>2. Vals(a, s) \subseteq Int
    BY <1>2, ValsInt
  <2>3. QED
    BY <1>2, <2>1, <2>2, SetMinIs DEF AccOK
<1>3. CASE a.op = "max"
  <2>1. Expected(a, s) = SetMax(Vals(a, s))
    BY <1>3 DEF Expected, Vals
  <2>2. Vals(a, s) \subseteq Int
    BY <1>3, ValsInt
  <2>3. QED
    BY <1>3, <2>1, <2>2, SetMaxIs DEF AccOK
<1>4. CASE a.op = "count"
  <2>1. Expected(a, s) = InitAcc(a) + Len(s)
    BY <1>4 DEF Expected
  <2>2. InitAcc(a) = 0
    BY <1>4 DEF InitAcc
  <2>3. QED
    BY <1>4, <2>1, <2>2 DEF AccOK
<1>5. QED
  BY <1>1, <1>2, <1>3, <1>4, <1>6

LEMMA OInvInit == Init => OInv
<1> SUFFICES ASSUME Init PROVE OInv
  OBVIOUS
<1>1. TypeOK
  BY TypeInit
<1>2. ASSUME NEW a \in Aggs, NEW i \in Groups
      PROVE  AccOK(a, agg_val[a][i], applied[a][i])
  <2>1. agg_val[a][i] = InitAcc(a) /\ applied[a][i] = <<>>
    BY DEF Init
  <2>2. Vals(a, <<>>) = {InitAcc(a)}
    BY DEF Vals
  <2>3. a.op = "count" => InitAcc(a) = 0
    BY DEF InitAcc
  <2>4. CASE a.op \in {"min", "max"}
    <3>1. InitAcc(a) \in Int
      BY <2>4, InitAccInWidth
    <3>2. QED
      BY <2>1, <2>2, <2>4, <3>1 DEF AccOK
  <2>7. CASE a.op = "sum"
    <3>1. InitAcc(a) = 0 /\ a.width \in Widths
      BY <2>7, AggsAssumption DEF InitAcc
    <3>2. SignedWrap(a.width, SeqSum(<<>>)) = 0
      BY <3>1, SeqSumEmpty, WrapZero
    <3>3. QED
      BY <2>1, <2>7, <3>1, <3>2 DEF AccOK
  <2>5. CASE a.op = "count"
    BY <2>1, <2>3, <2>5 DEF AccOK
  <2>8. a.op \in Ops
    BY AggsAssumption
  <2>6. QED
    BY <2>4, <2>5, <2>7, <2>8 DEF Ops
<1>3. QED
  BY <1>1, <1>2 DEF OInv

(* A step that folds into accumulator i of a only keeps AccOK everywhere  *)
(* when it keeps it there: the other aggregates and groups are untouched. *)
LEMMA UpdateOne ==
    ASSUME OInv, NEW a \in Aggs, NEW i \in Groups, NEW r, NEW v,
           agg_val' = [agg_val EXCEPT ![a][i] = r],
           applied' = [applied EXCEPT ![a][i] = Append(@, v)],
           AccOK(a, r, Append(applied[a][i], v))
    PROVE  \A b \in Aggs, j \in Groups : AccOK(b, agg_val'[b][j], applied'[b][j])
<1> SUFFICES ASSUME NEW b \in Aggs, NEW j \in Groups
             PROVE  AccOK(b, agg_val'[b][j], applied'[b][j])
  OBVIOUS
<1>1. CASE b = a /\ j = i
  <2>1. agg_val'[b][j] = r /\ applied'[b][j] = Append(applied[a][i], v)
    BY <1>1 DEF OInv, TypeOK
  <2>2. QED
    BY <1>1, <2>1
<1>2. CASE ~(b = a /\ j = i)
  <2>1. agg_val'[b][j] = agg_val[b][j] /\ applied'[b][j] = applied[b][j]
    BY <1>2 DEF OInv, TypeOK
  <2>2. QED
    BY <2>1 DEF OInv
<1>3. QED
  BY <1>1, <1>2

LEMMA OInvStep == OInv /\ [Next]_vars => OInv'
<1> SUFFICES ASSUME OInv, [Next]_vars PROVE OInv'
  OBVIOUS
<1>0. 0 \in Groups
  BY NumGroupsAssumption DEF Groups
<1>t. TypeOK'
  BY TypeStep DEF OInv
<1> SUFFICES \A b \in Aggs, j \in Groups : AccOK(b, agg_val'[b][j], applied'[b][j])
  BY <1>t DEF OInv
(* A fold of a value into a min, max or sum accumulator.                  *)
<1>f. ASSUME NEW a \in Aggs, a.op # "count", NEW i \in Groups, NEW val \in InputsOf(a),
             Fold(a, i, val), applied' = [applied EXCEPT ![a][i] = Append(@, val)]
      PROVE  \A b \in Aggs, j \in Groups : AccOK(b, agg_val'[b][j], applied'[b][j])
  <2>1. /\ AccOK(a, agg_val[a][i], applied[a][i])
        /\ agg_val[a][i] \in Int
        /\ applied[a][i] \in Seq(Int)
    BY DEF OInv, TypeOK
  <2>2. AccOK(a, nextgen_cider_agg(a.op, a.width, agg_val[a][i], val),
              Append(applied[a][i], val))
    BY <1>f, <2>1, FoldAccOK, InputsAreInts
  <2>3. agg_val' = [agg_val EXCEPT ![a][i] =
                      nextgen_cider_agg(a.op, a.width, agg_val[a][i], val)]
    BY <1>f DEF Fold
  <2>4. QED
    BY <1>f, <2>2, <2>3, UpdateOne
(* An increment of a count.                                               *)
<1>c. ASSUME NEW a \in Aggs, a.op = "count",
             agg_val' = [agg_val EXCEPT ![a][0] = @ + 1],
             applied' = [applied EXCEPT ![a][0] = Append(@, 1)]
      PROVE  \A b \in Aggs, j \in Groups : AccOK(b, agg_val'[b][j], applied'[b][j])
  <2>1. /\ AccOK(a, agg_val[a][0], applied[a][0])
        /\ agg_val[a][0] \in Int
        /\ applied[a][0] \in Seq(Int)
    BY <1>0 DEF OInv, TypeOK
  <2>2. AccOK(a, agg_val[a][0] + 1, Append(applied[a][0], 1))
    BY <1>c, <2>1, CountAccOK
  <2>3. agg_val' = [agg_val EXCEPT ![a][0] = agg_val[a][0] + 1]
    BY <1>c
  <2>4. QED
    BY <1>0, <1>c, <2>2, <2>3, UpdateOne
<1>n. ASSUME UNCHANGED <<agg_val, applied>>
      PROVE  \A b \in Aggs, j \in Groups : AccOK(b, agg_val'[b][j], applied'[b][j])
  BY <1>n DEF OInv
<1>1. ASSUME NEW a \in Aggs, NEW val \in InputsOf(a), AggInt(a, val)
      PROVE  \A b \in Aggs, j \in Groups : AccOK(b, agg_val'[b][j], applied'[b][j])
  BY <1>0, <1>1, <1>f DEF AggInt, Record
<1>2. ASSUME NEW a \in Aggs, NEW index \in Groups, NEW val \in InputsOf(a),
             AggIntWithOffset(a, index, val)
      PROVE  \A b \in Aggs, j \in Groups : AccOK(b, agg_val'[b][j], applied'[b][j])
  <2>1. a.op # "count"
    BY <1>2, AggsAssumption DEF AggIntWithOffset
  <2>2. QED
    BY <1>2, <1>f, <2>1 DEF AggIntWithOffset, Record
<1>3. ASSUME NEW a \in Aggs, NEW val \in InputsOf(a), NEW is_null \in BOOLEAN,
             AggIntNullable(a, val, is_null)
      PROVE  \A b \in Aggs, j \in Groups : AccOK(b, agg_val'[b][j], applied'[b][j])
  <2>1. CASE ~is_null
    BY <1>0, <1>3, <1>f, <2>1 DEF AggIntNullable, Record
  <2>2. CASE is_null
    BY <1>3, <1>n, <2>2 DEF AggIntNullable, Record
  <2>3. QED
    BY <2>1, <2>2
<1>4. ASSUME NEW a \in Aggs, AggCount(a)
      PROVE  \A b \in Aggs, j \in Groups : AccOK(b, agg_val'[b][j], applied'[b][j])
  BY <1>4, <1>c DEF AggCount, Record
<1>5. ASSUME NEW a \in Aggs, NEW is_null \in BOOLEAN, AggCountNullable(a, is_null)
      PROVE  \A b \in Aggs, j \in Groups : AccOK(b, agg_val'[b][j], applied'[b][j])
  <2>1. CASE ~is_null
    BY <1>5, <1>c, <2>1 DEF AggCountNullable, Record
  <2>2. CASE is_null
    BY <1>5, <1>n, <2>2 DEF AggCountNullable, Record
  <2>3. QED
    BY <2>1, <2>2
<1>6. CASE UNCHANGED vars
  BY <1>6, <1>n DEF vars
<1>7. QED
  BY <1>1, <1>2, <1>3, <1>4, <1>5, <1>6 DEF Next

(* Every min, max and count accumulator of the aggregation runtime holds  *)
(* the least, the greatest or the number of the non-null values folded    *)
(* into it (std::min, std::max and ++ in OperatorRuntimeFunctions.h), for *)
(* every set of aggregates, group count, input values and call bound:     *)
(* null rows and other groups' rows never reach it.                       *)
THEOREM OrderAggsCorrect == Spec => []OrderAggsMatchReference
<1>1. Spec => []OInv
  BY OInvInit, OInvStep, PTL DEF Spec
<1>2. OInv => OrderAggsMatchReference
  <2> SUFFICES ASSUME OInv, NEW a \in Aggs, a.op # "sum", NEW i \in Groups
               PROVE  agg_val[a][i] = Expected(a, applied[a][i])
    BY DEF OrderAggsMatchReference
  <2>1. /\ AccOK(a, agg_val[a][i], applied[a][i])
        /\ agg_val[a][i] \in Int
        /\ applied[a][i] \in Seq(Int)
    BY DEF OInv, TypeOK
  <2>2. QED
    BY <2>1, AccOKMatches
<1>3. QED
  BY <1>1, <1>2, PTL

(* Every sum accumulator of the aggregation runtime holds the int<w>_t    *)
(* wrap of the sum of the non-null values folded into it: the per-call    *)
(* wrap of nextgen_cider_agg_sum (OperatorRuntimeFunctions.h) agrees with *)
(* wrapping the exact sum once, for every set of aggregates, group count, *)
(* input values and call bound, and no null row or other group's row      *)
(* reaches the accumulator.                                               *)
THEOREM SumCorrect == Spec => []SumMatchesReference
<1>1. Spec => []OInv
  BY OInvInit, OInvStep, PTL DEF Spec
<1>2. OInv => SumMatchesReference
  <2> SUFFICES ASSUME OInv, NEW a \in Aggs, a.op = "sum", NEW i \in Groups
               PROVE  agg_val[a][i] = Expected(a, applied[a][i])
    BY DEF SumMatchesReference
  <2>1. /\ AccOK(a, agg_val[a][i], applied[a][i])
        /\ agg_val[a][i] \in Int
        /\ applied[a][i] \in Seq(Int)
    BY DEF OInv, TypeOK
  <2>2. QED
    BY <2>1, AccOKMatches
<1>3. QED
  BY <1>1, <1>2, PTL

=============================================================================
