----------------------- MODULE LiteralHoistingProofs -----------------------
(***************************************************************************)
(* Proofs about LiteralHoisting, for every set of values and dictionaries, *)
(* every subset of the SQL types and every offset limit (the code's limit  *)
(* is 32767).                                                              *)
(***************************************************************************)
EXTENDS LiteralHoisting, TLAPS

(* The facts about the constants that the proofs use.                     *)
LEMMA ConstantFacts ==
    /\ MaxLitOff \in Nat
    /\ \A c \in Lits : c.type \in SQLTypes
    /\ \A c \in Lits : LitBytes(c) \in {1, 2, 4, 8}
    /\ \A c \in Lits : Shape(c) \in Shapes
    /\ \A c \in Lits : Key(c) \in Keys
<1>1. \A c \in Lits : c.type \in SQLTypes
  BY TypesAssumption DEF Lits
<1>2. \A c \in Lits : LitBytes(c) \in {1, 2, 4, 8}
  BY <1>1 DEF LitBytes, ScalarBytes, SQLTypes
<1>3. \A c \in Lits : Shape(c) \in Shapes
  BY <1>2 DEF Shape, Shapes, LoadKind
<1>4. \A c \in Lits : Key(c) \in Keys
  BY DEF Keys
<1>5. QED
  BY <1>1, <1>2, <1>3, <1>4, MaxLitOffAssumption

(* The canonical key of a literal is the literal itself.                 *)
LEMMA KeyIsLit == \A c \in Lits : Key(c) = c /\ Key(c) \in Lits
  BY DEF Lits, Key

LEMMA KeysAreLits == Keys = Lits
  BY KeyIsLit DEF Keys

(* Every slot is at least one byte wide.                                  *)
LEMMA WidthPositive == \A k \in Keys : LitBytes(k) \in Nat /\ LitBytes(k) >= 1
  BY ConstantFacts, KeysAreLits

(* The offset of a literal that fits is a valid index of the load cache.  *)
LEMMA AcceptedOffset ==
    ASSUME TypeOK, NEW c \in Lits, OffsetFits(SlotOff(c))
    PROVE  SlotOff(c) \in 0 .. MaxLitOff
<1>1. SlotOff(c) \in Nat
  <2>1. literals[Key(c)] \in Slots
    BY ConstantFacts DEF TypeOK
  <2>2. literals[Key(c)] # NoSlot => literals[Key(c)].off \in Nat
    BY <2>1 DEF Slots
  <2>3. QED
    BY <2>2 DEF SlotOff, TypeOK
<1>2. QED
  BY <1>1, ConstantFacts DEF OffsetFits

(* The initial state is well typed.                                      *)
LEMMA TypeInit == Init => TypeOK
<1> SUFFICES ASSUME Init PROVE TypeOK
  OBVIOUS
<1>1. NoSlot \in Slots
  BY DEF Slots
<1>2. QED
  BY <1>1 DEF Init, TypeOK

(* One step of the specification preserves the types.                    *)
LEMMA TypeStep == TypeOK /\ [Next]_vars => TypeOK'
<1> SUFFICES ASSUME TypeOK, [Next]_vars PROVE TypeOK'
  OBVIOUS
<1>1. ASSUME NEW c \in Lits, codegenHoistedConstants(c) PROVE TypeOK'
  <2>1. literals' \in [Keys -> Slots]
    <3>1. [off |-> literalBytes, bytes |-> LitBytes(c)] \in Slots
      BY ConstantFacts DEF TypeOK, Slots
    <3>2. QED
      BY <1>1, <3>1, ConstantFacts DEF TypeOK, getOrAddLiteral, codegenHoistedConstants
  <2>2. literalBytes' \in Nat
    BY <1>1, ConstantFacts DEF TypeOK, NextLiteralBytes, codegenHoistedConstants
  <2>3. CASE OffsetFits(SlotOff(c))
    <3> DEFINE off == SlotOff(c)
               cached == IF loads[off] = NoLoad THEN codegenHoistedConstantsLoads(c)
                         ELSE loads[off]
    <3>1. off \in 0 .. MaxLitOff
      BY <2>3, AcceptedOffset
    <3>2. cached \in Shapes
      BY <3>1, ConstantFacts DEF TypeOK, codegenHoistedConstantsLoads
    <3>3. EmitLiteralUse(c, off)
      BY <1>1, <2>3 DEF codegenHoistedConstants
    <3>4. loads' \in [0 .. MaxLitOff -> Shapes \cup {NoLoad}]
      BY <3>1, <3>2, <3>3 DEF EmitLiteralUse, TypeOK
    <3>5. Arity[cached.kind] \in 1 .. 3
      BY <3>2 DEF Shapes, Arity
    <3>6. placeholders' \subseteq [off : 0 .. MaxLitOff, sub : 0 .. 2,
                                   load : Shapes, lit : Lits]
      BY <3>1, <3>2, <3>3, <3>5 DEF EmitLiteralUse,
         codegenHoistedConstantsPlaceholders, TypeOK
    <3>7. status' \in {"ok", "too_many_literals", "check_failed"}
      BY <3>3 DEF EmitLiteralUse, codegenHoistedConstantsPlaceholders, TypeOK
    <3>8. QED
      BY <2>1, <2>2, <3>4, <3>6, <3>7 DEF TypeOK
  <2>4. CASE ~OffsetFits(SlotOff(c))
    <3>1. status' = "too_many_literals" /\ UNCHANGED <<loads, placeholders>>
      BY <1>1, <2>4 DEF codegenHoistedConstants
    <3>2. QED
      BY <2>1, <2>2, <3>1 DEF TypeOK
  <2>5. QED
    BY <2>3, <2>4
<1>2. CASE UNCHANGED vars
  BY <1>2 DEF vars, TypeOK
<1>3. QED
  BY <1>1, <1>2 DEF Next

(* Type correctness: the pool, the byte counter, the load cache and the   *)
(* placeholders always have the types TypeOK states.                      *)
THEOREM TypeCorrect == Spec => []TypeOK
  BY TypeInit, TypeStep, PTL DEF Spec

----------------------------------------------------------------------------
(***************************************************************************)
(* The inductive invariant. PlaceholderShapesMatch is not inductive by    *)
(* itself: that a cached load has the shape of the literal that hits it   *)
(* needs every load to sit at the slot of the key that emitted it          *)
(* (LoadsAtSlots), slots of distinct keys at distinct offsets (PoolWidths  *)
(* and PoolDisjoint: positive widths, no overlap, all below the counter), *)
(* and the slots of a running compilation inside the offset range, so     *)
(* that a literal whose offset does not fit is a new one.                 *)
(***************************************************************************)
PoolWidths(L) == \A k \in Keys : L[k] # NoSlot => L[k].bytes = LitBytes(k)

PoolDisjoint(L, b) ==
    /\ \A k \in Keys : L[k] # NoSlot => L[k].off + L[k].bytes <= b
    /\ \A k1, k2 \in Keys :
          (k1 # k2 /\ L[k1] # NoSlot /\ L[k2] # NoSlot) =>
             \/ L[k1].off + L[k1].bytes <= L[k2].off
             \/ L[k2].off + L[k2].bytes <= L[k1].off

LoadsAtSlots ==
    \A off \in 0 .. MaxLitOff :
        loads[off] # NoLoad =>
            \E k \in Keys : /\ literals[k] # NoSlot
                            /\ literals[k].off = off
                            /\ loads[off] = Shape(k)

AcceptedInRange ==
    status = "ok" =>
        \A k \in Keys : literals[k] # NoSlot => literals[k].off <= MaxLitOff

IInv ==
    /\ TypeOK
    /\ PoolWidths(literals)
    /\ PoolDisjoint(literals, literalBytes)
    /\ LoadsAtSlots
    /\ AcceptedInRange
    /\ PlaceholderShapesMatch

(* In a well-formed pool every slot lies below the end of the buffer, so  *)
(* a missing key's new offset is not the offset of any slot.              *)
LEMMA SlotBelowEnd ==
    ASSUME NEW L \in [Keys -> Slots], NEW b \in Nat, PoolDisjoint(L, b),
           PoolWidths(L), NEW k \in Keys, L[k] # NoSlot
    PROVE  L[k].off < b
  BY WidthPositive DEF PoolDisjoint, PoolWidths, Slots

(* In a well-formed pool two keys with slots at the same offset are the  *)
(* same key.                                                             *)
LEMMA SameOffsetSameKey ==
    ASSUME NEW L \in [Keys -> Slots], NEW b \in Nat, PoolDisjoint(L, b),
           PoolWidths(L), NEW k1 \in Keys, NEW k2 \in Keys,
           L[k1] # NoSlot, L[k2] # NoSlot, L[k1].off = L[k2].off
    PROVE  k1 = k2
  BY WidthPositive DEF PoolDisjoint, PoolWidths, Slots

(* Adding a missing key at the end of the buffer keeps a pool well formed. *)
LEMMA InsertAtEnd ==
    ASSUME NEW L \in [Keys -> Slots], NEW b \in Nat, PoolDisjoint(L, b),
           PoolWidths(L), NEW k0 \in Keys, L[k0] = NoSlot
    PROVE  LET L2 == [L EXCEPT ![k0] = [off |-> b, bytes |-> LitBytes(k0)]]
           IN  /\ PoolDisjoint(L2, b + LitBytes(k0))
               /\ PoolWidths(L2)
               /\ L2 \in [Keys -> Slots]
<1> DEFINE L2 == [L EXCEPT ![k0] = [off |-> b, bytes |-> LitBytes(k0)]]
<1>1. L2 \in [Keys -> Slots]
  BY WidthPositive DEF Slots
<1>2. PoolWidths(L2)
  BY DEF PoolWidths
<1>3. \A k \in Keys : L2[k] # NoSlot => L2[k].off + L2[k].bytes <= b + LitBytes(k0)
  BY WidthPositive DEF PoolDisjoint, Slots
<1>4. \A k \in Keys : k # k0 /\ L[k] # NoSlot => L[k].off + L[k].bytes <= b
  BY DEF PoolDisjoint
<1>5. \A k1, k2 \in Keys :
          (k1 # k2 /\ L2[k1] # NoSlot /\ L2[k2] # NoSlot) =>
             \/ L2[k1].off + L2[k1].bytes <= L2[k2].off
             \/ L2[k2].off + L2[k2].bytes <= L2[k1].off
  BY <1>4 DEF PoolDisjoint
<1>6. QED
  BY <1>1, <1>2, <1>3, <1>5 DEF PoolDisjoint

(* The initial state satisfies the inductive invariant: the pool is      *)
(* empty, no load is cached and no placeholder exists.                   *)
LEMMA IInvInit == Init => IInv
<1> SUFFICES ASSUME Init PROVE IInv
  OBVIOUS
<1>1. TypeOK
  BY TypeInit
<1>2. QED
  BY <1>1 DEF Init, IInv, PoolWidths, PoolDisjoint, LoadsAtSlots,
     AcceptedInRange, PlaceholderShapesMatch

(* Facts shared by both outcomes of codegenHoistedConstants(c): the pool *)
(* L1 and counter b1 after getOrAddLiteral are well formed, and c's slot  *)
(* in L1 is at the offset the code converts.                              *)
LEMMA StepFacts ==
    ASSUME IInv, NEW c \in Lits, codegenHoistedConstants(c)
    PROVE  LET L1 == getOrAddLiteral(c)
               b1 == NextLiteralBytes(c)
               off == SlotOff(c)
           IN  /\ status = "ok"
               /\ literals' = L1 /\ literalBytes' = b1
               /\ c \in Keys /\ Key(c) = c
               /\ literals[c] # NoSlot => L1 = literals /\ off = literals[c].off
               /\ literals[c] = NoSlot => off = literalBytes
               /\ PoolDisjoint(L1, b1) /\ PoolWidths(L1)
               /\ L1 \in [Keys -> Slots] /\ b1 \in Nat
               /\ L1[c] # NoSlot /\ L1[c].off = off
               /\ \A k \in Keys : k # c => L1[k] = literals[k]
<1> DEFINE L1 == getOrAddLiteral(c)
           b1 == NextLiteralBytes(c)
           off == SlotOff(c)
<1>1. status = "ok" /\ literals' = L1 /\ literalBytes' = b1
  BY DEF codegenHoistedConstants
<1>2. /\ literals \in [Keys -> Slots] /\ literalBytes \in Nat
      /\ PoolDisjoint(literals, literalBytes) /\ PoolWidths(literals)
  BY DEF IInv, TypeOK
<1>3. c \in Keys /\ Key(c) = c
  BY KeyIsLit, KeysAreLits
<1>4. literals[c] # NoSlot => L1 = literals /\ b1 = literalBytes /\ off = literals[c].off
  BY <1>3 DEF getOrAddLiteral, NextLiteralBytes, SlotOff
<1>5. literals[c] = NoSlot =>
         /\ L1 = [literals EXCEPT ![c] = [off |-> literalBytes, bytes |-> LitBytes(c)]]
         /\ b1 = literalBytes + LitBytes(c)
         /\ off = literalBytes
  BY <1>3 DEF getOrAddLiteral, NextLiteralBytes, SlotOff
<1>6. /\ PoolDisjoint(L1, b1) /\ PoolWidths(L1)
      /\ L1 \in [Keys -> Slots] /\ b1 \in Nat
  <2>1. CASE literals[c] # NoSlot
    BY <1>2, <1>4, <2>1
  <2>2. CASE literals[c] = NoSlot
    BY <1>2, <1>3, <1>5, <2>2, InsertAtEnd, WidthPositive
  <2>3. QED
    BY <2>1, <2>2
<1>7. L1[c] # NoSlot /\ L1[c].off = off
  BY <1>2, <1>3, <1>4, <1>5 DEF NoSlot
<1>8. \A k \in Keys : k # c => L1[k] = literals[k]
  BY <1>2, <1>4, <1>5
<1>9. QED
  BY <1>1, <1>3, <1>4, <1>5, <1>6, <1>7, <1>8

(* A literal whose offset fits: the loads found in the cache at its       *)
(* offset, if any, were emitted for the same key, so the use gets loads   *)
(* and placeholders of c's own shape and the compilation goes on.         *)
LEMMA AcceptStep ==
    ASSUME IInv, NEW c \in Lits, codegenHoistedConstants(c),
           OffsetFits(SlotOff(c))
    PROVE  IInv'
<1> DEFINE L1 == getOrAddLiteral(c)
           b1 == NextLiteralBytes(c)
           off == SlotOff(c)
<1>s. /\ status = "ok"
      /\ literals' = L1 /\ literalBytes' = b1
      /\ c \in Keys /\ Key(c) = c
      /\ literals[c] # NoSlot => L1 = literals /\ off = literals[c].off
      /\ literals[c] = NoSlot => off = literalBytes
      /\ PoolDisjoint(L1, b1) /\ PoolWidths(L1)
      /\ L1 \in [Keys -> Slots] /\ b1 \in Nat
      /\ L1[c] # NoSlot /\ L1[c].off = off
      /\ \A k \in Keys : k # c => L1[k] = literals[k]
  BY StepFacts
<1>0. TypeOK' /\ TypeOK
  BY TypeStep DEF IInv, Next
<1>p. /\ literals \in [Keys -> Slots] /\ literalBytes \in Nat
      /\ PoolDisjoint(literals, literalBytes) /\ PoolWidths(literals)
  BY DEF IInv, TypeOK
<1>3. EmitLiteralUse(c, off)
  BY DEF codegenHoistedConstants
<1>4. off \in 0 .. MaxLitOff
  BY <1>0, AcceptedOffset
<1>5. loads[off] # NoLoad => loads[off] = Shape(c)
  <2>1. SUFFICES ASSUME loads[off] # NoLoad PROVE loads[off] = Shape(c)
    OBVIOUS
  <2>2. PICK k \in Keys : literals[k] # NoSlot /\ literals[k].off = off
                          /\ loads[off] = Shape(k)
    BY <1>4, <2>1 DEF IInv, LoadsAtSlots
  <2>3. CASE literals[c] # NoSlot
    <3>1. k = c
      BY <1>p, <2>2, <2>3, <1>s, SameOffsetSameKey
    <3>2. QED
      BY <2>2, <3>1
  <2>4. CASE literals[c] = NoSlot
    <3>1. literals[k].off < literalBytes
      BY <1>p, <2>2, SlotBelowEnd
    <3>2. off = literalBytes /\ literals[k].off \in Nat
      BY <1>p, <2>2, <2>4, <1>s DEF Slots
    <3>3. QED
      BY <2>2, <3>1, <3>2
  <2>5. QED
    BY <2>3, <2>4
<1>6. /\ loads' = [loads EXCEPT ![off] = Shape(c)]
      /\ placeholders' = placeholders \cup
            {[off |-> off, sub |-> i, load |-> Shape(c), lit |-> c] :
                i \in 0 .. Arity[LoadKind(c)] - 1}
      /\ status' = "ok"
  <2> DEFINE cached == IF loads[off] = NoLoad THEN codegenHoistedConstantsLoads(c)
                       ELSE loads[off]
  <2>1. cached = Shape(c)
    BY <1>5 DEF codegenHoistedConstantsLoads
  <2>2. Arity[cached.kind] = Arity[LoadKind(c)]
    BY <2>1 DEF Shape
  <2>3. /\ loads' = [loads EXCEPT ![off] = cached]
        /\ codegenHoistedConstantsPlaceholders(c, off, cached)
    BY <1>3 DEF EmitLiteralUse
  <2>4. /\ placeholders' = placeholders \cup
            {[off |-> off, sub |-> i, load |-> cached, lit |-> c] :
                i \in 0 .. Arity[LoadKind(c)] - 1}
        /\ status' = status
    BY <2>2, <2>3 DEF codegenHoistedConstantsPlaceholders
  <2>5. {[off |-> off, sub |-> i, load |-> cached, lit |-> c] :
                i \in 0 .. Arity[LoadKind(c)] - 1}
        = {[off |-> off, sub |-> i, load |-> Shape(c), lit |-> c] :
                i \in 0 .. Arity[LoadKind(c)] - 1}
    BY <2>1
  <2>6. QED
    BY <2>1, <2>3, <2>4, <2>5, <1>s
<1>7. PoolWidths(literals') /\ PoolDisjoint(literals', literalBytes')
  BY <1>s
<1>8. LoadsAtSlots'
  <2>1. SUFFICES ASSUME NEW o \in 0 .. MaxLitOff, loads'[o] # NoLoad
                 PROVE  \E k \in Keys : /\ literals'[k] # NoSlot
                                        /\ literals'[k].off = o
                                        /\ loads'[o] = Shape(k)
    BY DEF LoadsAtSlots
  <2>3. CASE o = off
    BY <1>0, <1>6, <2>3, <1>s DEF TypeOK
  <2>4. CASE o # off
    <3>1. loads'[o] = loads[o]
      BY <1>0, <1>6, <2>4 DEF TypeOK
    <3>2. PICK k \in Keys : literals[k] # NoSlot /\ literals[k].off = o
                            /\ loads[o] = Shape(k)
      BY <2>1, <3>1 DEF IInv, LoadsAtSlots
    <3>3. L1[k] = literals[k]
      BY <3>2, <1>s
    <3>4. QED
      BY <3>1, <3>2, <3>3, <1>s
  <2>5. QED
    BY <2>3, <2>4
<1>9. AcceptedInRange'
  <2>1. \A k \in Keys : literals[k] # NoSlot => literals[k].off <= MaxLitOff
    BY <1>s DEF IInv, AcceptedInRange
  <2>2. \A k \in Keys : L1[k] # NoSlot => L1[k].off <= MaxLitOff
    BY <2>1, <1>4, <1>s
  <2>3. QED
    BY <2>2, <1>s DEF AcceptedInRange
<1>11. PlaceholderShapesMatch'
  <2>1. \A i \in 0 .. Arity[LoadKind(c)] - 1 : i < Arity[Shape(c).kind]
    BY DEF Shape, Arity, LoadKind
  <2>2. QED
    BY <1>6, <2>1 DEF IInv, PlaceholderShapesMatch
<1>12. QED
  BY <1>0, <1>7, <1>8, <1>9, <1>11 DEF IInv

(* A literal whose offset does not fit: the key is new (the slots of a   *)
(* running compilation fit), getOrAddLiteral has added it, the conversion *)
(* throws, and the compilation ends with "Too many literals".            *)
LEMMA RejectStep ==
    ASSUME IInv, NEW c \in Lits, codegenHoistedConstants(c),
           ~OffsetFits(SlotOff(c))
    PROVE  IInv'
<1> DEFINE L1 == getOrAddLiteral(c)
           b1 == NextLiteralBytes(c)
           off == SlotOff(c)
<1>s. /\ status = "ok"
      /\ literals' = L1 /\ literalBytes' = b1
      /\ c \in Keys /\ Key(c) = c
      /\ literals[c] # NoSlot => L1 = literals /\ off = literals[c].off
      /\ literals[c] = NoSlot => off = literalBytes
      /\ PoolDisjoint(L1, b1) /\ PoolWidths(L1)
      /\ L1 \in [Keys -> Slots] /\ b1 \in Nat
      /\ L1[c] # NoSlot /\ L1[c].off = off
      /\ \A k \in Keys : k # c => L1[k] = literals[k]
  BY StepFacts
<1>0. TypeOK' /\ TypeOK
  BY TypeStep DEF IInv, Next
<1>1. literals[c] = NoSlot
  <2>1. literals[c] # NoSlot => literals[c].off <= MaxLitOff
    BY <1>s DEF IInv, AcceptedInRange
  <2>2. QED
    BY <2>1, <1>s DEF OffsetFits
<1>5. status' = "too_many_literals" /\ UNCHANGED <<loads, placeholders>>
  BY DEF codegenHoistedConstants
<1>6. PoolWidths(literals') /\ PoolDisjoint(literals', literalBytes')
  BY <1>s
<1>7. AcceptedInRange'
  BY <1>5 DEF AcceptedInRange
<1>8. LoadsAtSlots'
  <2>1. SUFFICES ASSUME NEW o \in 0 .. MaxLitOff, loads'[o] # NoLoad
                 PROVE  \E k \in Keys : /\ literals'[k] # NoSlot
                                        /\ literals'[k].off = o
                                        /\ loads'[o] = Shape(k)
    BY DEF LoadsAtSlots
  <2>2. PICK k \in Keys : literals[k] # NoSlot /\ literals[k].off = o
                          /\ loads[o] = Shape(k)
    BY <1>5, <2>1 DEF IInv, LoadsAtSlots
  <2>3. literals'[k] = literals[k]
    BY <1>1, <2>2, <1>s
  <2>4. QED
    BY <1>5, <2>2, <2>3
<1>10. PlaceholderShapesMatch'
  BY <1>5 DEF IInv, PlaceholderShapesMatch
<1>11. QED
  BY <1>0, <1>6, <1>7, <1>8, <1>10 DEF IInv

(* One step of the specification preserves the inductive invariant.      *)
LEMMA IInvStep == IInv /\ [Next]_vars => IInv'
<1> SUFFICES ASSUME IInv, [Next]_vars PROVE IInv'
  OBVIOUS
<1>1. ASSUME NEW c \in Lits, codegenHoistedConstants(c) PROVE IInv'
  BY <1>1, AcceptStep, RejectStep
<1>2. CASE UNCHANGED vars
  BY <1>2 DEF vars, IInv, TypeOK, PoolWidths, PoolDisjoint,
     LoadsAtSlots, AcceptedInRange, PlaceholderShapesMatch
<1>3. QED
  BY <1>1, <1>2 DEF Next

(* The inductive invariant holds in every reachable state.               *)
THEOREM InductiveInvariant == Spec => []IInv
  BY IInvInit, IInvStep, PTL DEF Spec

(* The load cache query_func_literal_loads_ of codegenHoistedConstants is *)
(* keyed by the offset alone, yet for every offset limit and every set of *)
(* literals the loads a use finds there have the kind and width of that   *)
(* use's own literal, and its placeholders stay within those loads.       *)
THEOREM LiteralHoistingSafe == Spec => []PlaceholderShapesMatch
<1>1. IInv => PlaceholderShapesMatch
  BY DEF IInv
<1>2. QED
  BY <1>1, InductiveInvariant, PTL
=============================================================================
