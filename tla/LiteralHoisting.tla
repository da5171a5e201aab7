-------------------------- MODULE LiteralHoisting --------------------------
(***************************************************************************)
(* Literal hoisting of the code generator.                                 *)
(*                                                                         *)
(* Source: src/cpp/src/cider/exec/template/ConstantIR.cpp                  *)
(*   CodeGenerator::codegen(Constant) with co.hoist_literals, which calls   *)
(*   codegenHoistedConstants with constants(1, constant): the device loop   *)
(*   runs once, for device 0, so its CHECK(type_info == crt_type_info) and  *)
(*   CHECK_EQ(lit_off, checked_lit_off) (taken only for device_id > 0) are  *)
(*   never evaluated. It asks the literal pool for an offset                *)
(*   (CgenState::getOrAddLiteral), converts it to a checked_int16_t, emits  *)
(*   the loads of the literal once per offset in the query function         *)
(*   (codegenHoistedConstantsLoads, cached in query_func_literal_loads_)    *)
(*   and a fresh set of placeholders for this use                           *)
(*   (codegenHoistedConstantsPlaceholders, registered in                    *)
(*   row_func_hoisted_literals_ for the later patching pass).              *)
(*                                                                         *)
(* CgenState::getOrAddLiteral is not part of the excerpt under src/; it is *)
(* modelled from the spec (sections 3 and 4.3): a table from the canonical *)
(* key (value, type, encoding, dictionary id) to a slot (offset, byte      *)
(* width), first insertion wins, new slots are taken from a monotonically  *)
(* increasing byte counter.                                                *)
(*                                                                         *)
(* Data is abstracted: a literal's value is a model value; IR values are   *)
(* represented by their shape (load kind and byte width); names given to   *)
(* IR values are left out. The CHECKs of codegenHoistedConstantsLoads on   *)
(* the type's compression and bit width (lines 134-136, 161, 188, 194)     *)
(* are about data the model does not carry and are not modelled.          *)
(***************************************************************************)
EXTENDS Integers, FiniteSets

CONSTANTS
    Values,      \* literal payloads (model values)
    DictIds,     \* string dictionary ids
    TypesUsed,   \* the SQL types of the literals the plan contains
    MaxLitOff    \* the largest value of checked_int16_t (32767 in the code)

(* The SQL types codegenHoistedConstantsLoads tells apart: strings,        *)
(* arrays, and the integer, boolean, time and floating-point scalars       *)
(* (ConstantIR.cpp:133, 160, 189-196); the time types are represented by   *)
(* TIMESTAMP (same 8-byte storage).                                        *)
SQLTypes == {"BOOLEAN", "TINYINT", "SMALLINT", "INT", "BIGINT", "TIMESTAMP",
             "FLOAT", "DOUBLE", "TEXT", "ARRAY"}

Encodings == {"NONE", "DICT"}

ASSUME MaxLitOffAssumption == MaxLitOff \in Nat
ASSUME TypesAssumption == TypesUsed \subseteq SQLTypes

(* A literal as the plan hands it to codegen: value, type, the encoding   *)
(* enc_type and the dictionary id. Only strings are dictionary encoded;   *)
(* other types are passed with kENCODING_NONE.                            *)
Lits == {c \in [val : Values, type : TypesUsed, enc : Encodings, dict : DictIds] :
            c.type = "TEXT" \/ c.enc = "NONE"}

(* Which of the three load sequences codegenHoistedConstantsLoads emits:  *)
(* an unencoded string is a packed (offset, length) header giving three   *)
(* values, an unencoded array gives two, anything else one typed load.    *)
LoadKind(c) ==
    IF c.type = "TEXT" /\ c.enc # "DICT" THEN "string"
    ELSE IF c.type = "ARRAY" /\ c.enc = "NONE" THEN "array"
    ELSE "scalar"

Arity == [string |-> 3, array |-> 2, scalar |-> 1]

(* Byte width of a literal's slot: strings and arrays hold a 4-byte       *)
(* header (the CHECK at ConstantIR.cpp:135-136), dictionary strings their *)
(* 4-byte id, scalars their own width (get_bit_width / 8).                *)
ScalarBytes == [BOOLEAN |-> 1, TINYINT |-> 1, SMALLINT |-> 2, INT |-> 4,
                BIGINT |-> 8, TIMESTAMP |-> 8, FLOAT |-> 4, DOUBLE |-> 8,
                TEXT |-> 4, ARRAY |-> 4]

LitBytes(c) == ScalarBytes[c.type]

(* The shape of the IR values the loads produce: their kind and width.    *)
Shape(c) == [kind |-> LoadKind(c), bytes |-> LitBytes(c)]

Shapes == [kind : {"string", "array", "scalar"}, bytes : {1, 2, 4, 8}]

(* No load emitted yet at an offset / no slot for a key.                  *)
NoLoad == [kind |-> "none", bytes |-> 0]
NoSlot == [off |-> -1, bytes |-> 0]

VARIABLES
    literals,      \* literals_ of device 0: canonical key -> slot
    literalBytes,  \* literal_bytes_ of device 0: bytes of the buffer in use
    loads,         \* query_func_literal_loads_: offset -> shape of the cached loads
    placeholders,  \* row_func_hoisted_literals_: (offset, sub-index) of each
                   \* placeholder, its IR shape and (ghost) the literal it stands for
    status         \* "ok", or how the compilation was aborted

vars == <<literals, literalBytes, loads, placeholders, status>>

----------------------------------------------------------------------------
(* The canonical key of a literal in the pool (spec, section 3).          *)
Key(c) == [val |-> c.val, type |-> c.type, enc |-> c.enc, dict |-> c.dict]

Keys == {Key(c) : c \in Lits}

Slots == [off : Nat, bytes : Nat] \cup {NoSlot}

(* getOrAddLiteral(constant, enc_type, dict_id, 0): the offset of the     *)
(* key's slot if the pool has one, else the next free byte.               *)
SlotOff(c) ==
    IF literals[Key(c)] # NoSlot THEN literals[Key(c)].off ELSE literalBytes

(* The pool after getOrAddLiteral: a missing key gets a slot at the       *)
(* current end of the buffer.                                             *)
getOrAddLiteral(c) ==
    IF literals[Key(c)] # NoSlot THEN literals
    ELSE [literals EXCEPT ![Key(c)] = [off |-> literalBytes, bytes |-> LitBytes(c)]]

NextLiteralBytes(c) ==
    IF literals[Key(c)] # NoSlot THEN literalBytes
    ELSE literalBytes + LitBytes(c)

(* checked_lit_off = ...: the assignment to checked_int16_t throws         *)
(* std::range_error when the offset does not fit (offsets are never < 0). *)
OffsetFits(off) == off <= MaxLitOff

(* codegenHoistedConstantsLoads: the shape of the loads emitted for c.    *)
codegenHoistedConstantsLoads(c) == Shape(c)

(* Mutant: one placeholder too many (sub-index up to the arity).          *)
PlaceholdersOneTooMany(c, off, cached) ==
    IF Arity[cached.kind] = Arity[LoadKind(c)]
    THEN /\ placeholders' = placeholders \cup
                {[off |-> off, sub |-> i, load |-> cached, lit |-> c] :
                    i \in 0 .. Arity[LoadKind(c)]}
         /\ UNCHANGED status
    ELSE /\ status' = "check_failed"
         /\ UNCHANGED placeholders

(* codegenHoistedConstantsPlaceholders: one placeholder per loaded value;  *)
(* the branch is chosen by c's type, the IR type is the cached load's, and *)
(* CHECK_EQ(literal_loads.size(), n) aborts when they disagree.           *)
codegenHoistedConstantsPlaceholders(c, off, cached) ==
    IF Arity[cached.kind] = Arity[LoadKind(c)]
    THEN /\ placeholders' = placeholders \cup
                {[off |-> off, sub |-> i, load |-> cached, lit |-> c] :
                    i \in 0 .. Arity[LoadKind(c)] - 1}
         /\ UNCHANGED status
    ELSE /\ status' = "check_failed"
         /\ UNCHANGED placeholders

(* Mutant: the load cache is looked up at offset 0 whatever the offset.  *)
EmitLiteralUseLookupFirstSlot(c, off) ==
    LET cached == IF loads[0] = NoLoad THEN codegenHoistedConstantsLoads(c)
                  ELSE loads[0]
    IN  /\ loads' = [loads EXCEPT ![off] = cached]
        /\ codegenHoistedConstantsPlaceholders(c, off, cached)

(* The tail of codegenHoistedConstants: loads are emitted once per offset *)
(* and reused from query_func_literal_loads_ afterwards.                   *)
EmitLiteralUse(c, off) ==
    LET cached == IF loads[off] = NoLoad THEN codegenHoistedConstantsLoads(c)
                  ELSE loads[off]
    IN  /\ loads' = [loads EXCEPT ![off] = cached]
        /\ codegenHoistedConstantsPlaceholders(c, off, cached)

Init ==
    /\ literals = [k \in Keys |-> NoSlot]
    /\ literalBytes = 0
    /\ loads = [off \in 0 .. MaxLitOff |-> NoLoad]
    /\ placeholders = {}
    /\ status = "ok"

(* codegen(constant, enc_type, dict_id, co) with hoist_literals: the one   *)
(* iteration of the device loop (getOrAddLiteral inserts the key before    *)
(* the conversion to checked_int16_t can throw), then the loads and the    *)
(* placeholders; a range_error becomes "Too many literals in the query".  *)
codegenHoistedConstants(c) ==
    /\ status = "ok"
    /\ literals' = getOrAddLiteral(c)
    /\ literalBytes' = NextLiteralBytes(c)
    /\ \/ /\ OffsetFits(SlotOff(c))
          /\ EmitLiteralUse(c, SlotOff(c))
       \/ /\ ~OffsetFits(SlotOff(c))
          /\ status' = "too_many_literals"
          /\ UNCHANGED <<loads, placeholders>>

(* An aborted compilation takes no further steps.                         *)
Next == \E c \in Lits : codegenHoistedConstants(c)

Spec == Init /\ [][Next]_vars

----------------------------------------------------------------------------
(* Type invariant.                                                        *)
TypeOK ==
    /\ literals \in [Keys -> Slots]
    /\ literalBytes \in Nat
    /\ loads \in [0 .. MaxLitOff -> Shapes \cup {NoLoad}]
    /\ placeholders \subseteq [off : 0 .. MaxLitOff, sub : 0 .. 2,
                               load : Shapes, lit : Lits]
    /\ status \in {"ok", "too_many_literals", "check_failed"}

(* The loads cached per offset in query_func_literal_loads_ and reused by  *)
(* a later use of the offset have the shape (kind and width) that use's    *)
(* literal needs: no placeholder of a BIGINT reads a 4-byte load, no       *)
(* string use receives a scalar load, and no placeholder has a sub-index   *)
(* past the loads it stands for.                                           *)
PlaceholderShapesMatch ==
    \A p \in placeholders : p.load = Shape(p.lit) /\ p.sub < Arity[p.load.kind]
=============================================================================
