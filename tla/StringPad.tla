------------------------------ MODULE StringPad ------------------------------
(***************************************************************************)
(* The std::string helpers the string operators rely on, and Pad.          *)
(*                                                                         *)
(* Source: src/cpp/src/cider/function/string/StringOps.cpp                 *)
(*   Pad::operator(), Pad::lpad and Pad::rpad (lines 167-209), and the     *)
(*   std::string::substr they and the other operators call.                *)
(*                                                                         *)
(* A string is a sequence of characters; positions are 0-based as in       *)
(* std::string, size_t has SizeBits bits. StringOps extends this module;   *)
(* it is kept apart so that what it says can be proved for every input.    *)
(***************************************************************************)
EXTENDS Integers, Sequences, FiniteSetsExt

CONSTANT
    SizeBits     \* width of size_t

ASSUME SizeBitsAssumption == SizeBits \in Nat \ {0}

SizeMod == 2 ^ SizeBits

(* std::string::npos, the largest size_t.                                 *)
npos == SizeMod - 1

(* What an operator hands back: a string, a null string                    *)
(* (NullableStrType()), an exception, or a crash.                          *)
Str(s) == [kind |-> "value", str |-> s]
NullStr == [kind |-> "null", str |-> <<>>]
Thrown == [kind |-> "out_of_range", str |-> <<>>]
Crashed == [kind |-> "crash", str |-> <<>>]

(* std::string::substr(pos, n): out_of_range when pos > size(), otherwise *)
(* at most n characters from pos.                                         *)
Substr(s, pos, n) ==
    IF pos > Len(s) THEN Thrown
    ELSE Str(SubSeq(s, pos + 1, Min({Len(s), pos + n})))

----------------------------------------------------------------------------
(* The fill of Pad: chars_to_fill characters cycling through the padding  *)
(* string (the single-character case is the same string).                 *)
PadFill(pad, n) == [i \in 1 .. n |-> pad[((i - 1) % Len(pad)) + 1]]

(* Mutant: one fill character too few.                                    *)
lpadShortFill(s, pad, padded) ==
    LET fill == IF Len(s) < padded THEN padded - Len(s) - 1 ELSE 0
    IN  IF fill <= 0 THEN Substr(s, 0, padded)
        ELSE Str(PadFill(pad, fill) \o s)

(* Pad::lpad: fill on the left, or keep the first padded_length_ chars.   *)
lpad(s, pad, padded) ==
    LET fill == IF Len(s) < padded THEN padded - Len(s) ELSE 0
    IN  IF fill = 0 THEN Substr(s, 0, padded)
        ELSE Str(PadFill(pad, fill) \o s)

(* Pad::rpad: fill on the right, or keep the last padded_length_ chars.   *)
rpad(s, pad, padded) ==
    LET fill == IF Len(s) < padded THEN padded - Len(s) ELSE 0
    IN  IF fill = 0 THEN Substr(s, Len(s) - padded, npos)
        ELSE Str(s \o PadFill(pad, fill))

(* Pad::operator(): lpad or rpad by pad_mode_.                            *)
PadOp(s, pad, padded, mode) ==
    IF mode = "LEFT" THEN lpad(s, pad, padded) ELSE rpad(s, pad, padded)

----------------------------------------------------------------------------
(* Reference: what LPAD and RPAD are meant to return.                     *)

(* LPAD / RPAD: exactly padded_length characters; a shorter string is     *)
(* filled on its left (right) with the padding string repeated from its   *)
(* first character.                                                       *)
PadRef(s, pad, padded, mode) ==
    LET fill == [i \in 1 .. padded - Len(s) |-> pad[((i - 1) % Len(pad)) + 1]]
    IN  IF mode = "LEFT" THEN fill \o s ELSE s \o fill

(* Pad's contract, for the result r of padding s to padded characters: a *)
(* value of exactly padded characters, the reference padding when s is    *)
(* shorter.                                                               *)
PadMeetsReference(s, pad, padded, mode, r) ==
    /\ r.kind = "value"
    /\ Len(r.str) = padded
    /\ Len(s) < padded => r.str = PadRef(s, pad, padded, mode)
=============================================================================
