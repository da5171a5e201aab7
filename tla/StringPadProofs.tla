--------------------------- MODULE StringPadProofs ---------------------------
(***************************************************************************)
(* Pad meets its contract for every string, padding string and padded     *)
(* length, and every width of size_t.                                      *)
(***************************************************************************)
EXTENDS StringPad, SequenceTheorems, TLAPS

(* Min of two integers is the smaller one.                                *)
LEMMA MinOfTwo ==
    ASSUME NEW x \in Int, NEW y \in Int
    PROVE  Min({x, y}) = IF x <= y THEN x ELSE y
<1>1. \E m \in {x, y} : \A z \in {x, y} : m <= z
  OBVIOUS
<1>2. Min({x, y}) \in {x, y} /\ \A z \in {x, y} : Min({x, y}) <= z
  BY <1>1 DEF Min
<1>3. QED
  BY <1>2

(* The fill is a string of the padding's characters, of the length asked. *)
LEMMA PadFillType ==
    ASSUME NEW S, NEW pad \in Seq(S), Len(pad) > 0, NEW n \in Nat
    PROVE  /\ PadFill(pad, n) \in Seq(S)
           /\ Len(PadFill(pad, n)) = n
<1>1. \A i \in 1 .. n : ((i - 1) % Len(pad)) + 1 \in 1 .. Len(pad)
  OBVIOUS
<1>2. PadFill(pad, n) \in [1 .. n -> S]
  BY <1>1 DEF PadFill
<1>3. QED
  BY <1>2 DEF PadFill

(* std::string::substr from a position inside the string returns the     *)
(* rest of the string, at most n characters of it.                        *)
LEMMA SubstrInside ==
    ASSUME NEW S, NEW s \in Seq(S), NEW pos \in 0 .. Len(s), NEW n \in Nat
    PROVE  /\ Substr(s, pos, n).kind = "value"
           /\ Len(Substr(s, pos, n).str) = IF pos + n <= Len(s) THEN n ELSE Len(s) - pos
<1>1. Min({Len(s), pos + n}) = IF Len(s) <= pos + n THEN Len(s) ELSE pos + n
  BY MinOfTwo
<1>2. Substr(s, pos, n) = Str(SubSeq(s, pos + 1, Min({Len(s), pos + n})))
  BY DEF Substr
<1>3. QED
  BY <1>1, <1>2 DEF Str

(* Pad::lpad returns a value of exactly padded characters, the reference  *)
(* left padding when the string is shorter.                               *)
LEMMA LpadCorrect ==
    ASSUME NEW S, NEW s \in Seq(S), NEW pad \in Seq(S), Len(pad) > 0,
           NEW padded \in Nat
    PROVE  PadMeetsReference(s, pad, padded, "LEFT", lpad(s, pad, padded))
<1>1. CASE Len(s) < padded
  <2> DEFINE fill == padded - Len(s)
  <2>1. fill \in Nat \ {0}
    BY <1>1
  <2>2. lpad(s, pad, padded) = Str(PadFill(pad, fill) \o s)
    BY <1>1, <2>1 DEF lpad
  <2>3. PadFill(pad, fill) \in Seq(S) /\ Len(PadFill(pad, fill)) = fill
    BY <2>1, PadFillType
  <2>4. PadRef(s, pad, padded, "LEFT") = PadFill(pad, fill) \o s
    BY DEF PadRef, PadFill
  <2>5. QED
    BY <1>1, <2>2, <2>3, <2>4 DEF PadMeetsReference, Str
<1>2. CASE ~(Len(s) < padded)
  <2>1. lpad(s, pad, padded) = Substr(s, 0, padded)
    BY <1>2 DEF lpad
  <2>2. QED
    BY <1>2, <2>1, SubstrInside DEF PadMeetsReference
<1>3. QED
  BY <1>1, <1>2

(* Pad::rpad returns a value of exactly padded characters (the last ones  *)
(* of a longer string), the reference right padding when it is shorter.   *)
(* A string's size is at most npos.                                       *)
LEMMA RpadCorrect ==
    ASSUME NEW S, NEW s \in Seq(S), Len(s) <= npos, NEW pad \in Seq(S),
           Len(pad) > 0, NEW padded \in Nat
    PROVE  PadMeetsReference(s, pad, padded, "RIGHT", rpad(s, pad, padded))
<1>1. CASE Len(s) < padded
  <2> DEFINE fill == padded - Len(s)
  <2>1. fill \in Nat \ {0}
    BY <1>1
  <2>2. rpad(s, pad, padded) = Str(s \o PadFill(pad, fill))
    BY <1>1, <2>1 DEF rpad
  <2>3. PadFill(pad, fill) \in Seq(S) /\ Len(PadFill(pad, fill)) = fill
    BY <2>1, PadFillType
  <2>4. PadRef(s, pad, padded, "RIGHT") = s \o PadFill(pad, fill)
    BY DEF PadRef, PadFill
  <2>5. QED
    BY <1>1, <2>2, <2>3, <2>4 DEF PadMeetsReference, Str
<1>2. CASE ~(Len(s) < padded)
  <2>1. rpad(s, pad, padded) = Substr(s, Len(s) - padded, npos)
    BY <1>2 DEF rpad
  <2>2. npos \in Nat /\ padded <= npos
    BY <1>2, SizeBitsAssumption DEF npos, SizeMod
  <2>3. Len(s) - padded \in 0 .. Len(s)
    BY <1>2
  <2>4. QED
    BY <1>2, <2>1, <2>2, <2>3, SubstrInside DEF PadMeetsReference
<1>3. QED
  BY <1>1, <1>2

(* Pad::operator() returns exactly padded_length_ characters, the padding *)
(* string repeated from its first character on the side pad_mode_ names  *)
(* when the input is shorter, for every input string, padding string,    *)
(* padded length and width of size_t (StringOps.cpp:167-209).            *)
THEOREM PadCorrect ==
    ASSUME NEW S, NEW s \in Seq(S), Len(s) <= npos, NEW pad \in Seq(S),
           Len(pad) > 0, NEW padded \in Nat, NEW mode \in {"LEFT", "RIGHT"}
    PROVE  PadMeetsReference(s, pad, padded, mode, PadOp(s, pad, padded, mode))
<1>1. CASE mode = "LEFT"
  BY <1>1, LpadCorrect DEF PadOp
<1>2. CASE mode = "RIGHT"
  BY <1>2, RpadCorrect DEF PadOp
<1>3. QED
  BY <1>1, <1>2
=============================================================================
