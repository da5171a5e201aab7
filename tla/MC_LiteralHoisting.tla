------------------------ MODULE MC_LiteralHoisting ------------------------
(* Small instance of LiteralHoisting for TLC: two values, one dictionary, *)
(* a 1-, a 4- and an 8-byte scalar type, strings (plain and dictionary    *)
(* encoded) and arrays, and a 16-bit range shrunk to 8 bytes so that the  *)
(* "Too many literals" path is reached after two or three literals.       *)
EXTENDS LiteralHoisting, TLC

CONSTANTS v1, v2

MCValues == {v1, v2}
MCTypes == {"BOOLEAN", "INT", "BIGINT", "TEXT", "ARRAY"}
MCSymmetry == Permutations(MCValues)
=============================================================================
