----------------------------- MODULE StringOps -----------------------------
(***************************************************************************)
(* The per-row string transformations of the string function library.      *)
(*                                                                         *)
(* Source: src/cpp/src/cider/function/string/StringOps.cpp                 *)
(*   Pad::lpad / Pad::rpad, Trim::operator(), Substring::operator(),        *)
(*   Overlay::operator() and SplitPart::operator(). Each operator is a pure *)
(*   function of its input string and of the members its constructor set   *)
(*   (StringOps.h is not part of the excerpt: the members are taken as the *)
(*   values the operator() bodies read).                                   *)
(*                                                                         *)
(* A string is a sequence of characters of a small alphabet; positions    *)
(* are 0-based as in std::string. size_t arithmetic is kept modulo         *)
(* 2^SizeBits (64 in the build), and std::string::find, rfind (module      *)
(* StringSearch) and substr (module StringPad) are modelled by what the    *)
(* standard library does, including npos and the out_of_range exception.   *)
(*                                                                         *)
(* The harness below evaluates one call per step: the variable call holds  *)
(* the operator and its arguments, result what it returned.                *)
(***************************************************************************)
EXTENDS Integers, Sequences, FiniteSets, FiniteSetsExt, StringSearch

CONSTANTS
    Alphabet,    \* the characters strings are made of
    TrimChars,   \* the characters of Trim's trim_char_bitmap_
    MaxLen,      \* the longest input string
    Starts,      \* start_ of Substring and Overlay (int64_t)
    Counts,      \* length_ of Substring, replacement_length_ of Overlay,
                 \* padded_length_ of Pad (size_t)
    Inserts,     \* insert_str_ of Overlay
    Paddings,    \* padding_string_ of Pad (never empty)
    Delimiters,  \* delimiter_ of SplitPart
    Parts,       \* split_part_ of SplitPart (size_t, at least 1)
    Limits       \* limit_ of SplitPart (0: no limit)

ASSUME PaddingsAssumption == \A p \in Paddings : Len(p) > 0
ASSUME PartsAssumption == Parts \subseteq Nat \ {0}

Strings == UNION {[1 .. n -> Alphabet] : n \in 0 .. MaxLen}

VARIABLES
    call,    \* the operator evaluated last and its arguments
    result   \* what it returned

vars == <<call, result>>

----------------------------------------------------------------------------
(* Trim: trim_begin skips leading trim characters (LEFT, BOTH); trim_end  *)
(* starts at str_len - 1, computed in size_t, and moves left over         *)
(* trailing ones while it is above trim_begin (RIGHT, BOTH).              *)
TrimBegin(s, mode) ==
    IF mode \in {"LEFT", "BOTH"}
    THEN Min({i \in 0 .. Len(s) : i = Len(s) \/ s[i + 1] \notin TrimChars})
    ELSE 0

TrimEnd(s, mode, b) ==
    LET last == (Len(s) - 1) % SizeMod
    IN  IF mode \in {"RIGHT", "BOTH"} /\ last > b
        THEN Max({j \in b .. last : j = b \/ s[j + 1] \notin TrimChars})
        ELSE last

(* The outcomes of Trim::operator(). On an empty string the RIGHT loop    *)
(* reads str[SIZE_MAX], outside the string: the read is undefined; the    *)
(* scan over whatever memory precedes the buffer either faults or stops,  *)
(* and every way it stops returns "".                                     *)
Trim(s, mode) ==
    IF Len(s) = 0 /\ mode \in {"RIGHT", "BOTH"}
    THEN {Str(<<>>), Crashed}
    ELSE LET b == TrimBegin(s, mode)
             e == TrimEnd(s, mode, b)
         IN  {IF b = 0 /\ e = (Len(s) - 1) % SizeMod THEN Str(s)
              ELSE IF b >= e THEN Str(<<>>)
              ELSE Str(SubSeq(s, b + 1, e + 1))}

----------------------------------------------------------------------------
(* Substring and Overlay: a negative start_ counts from the end; the      *)
(* start is capped to [0, str_len].                                        *)
WrappedStart(s, start) == IF start >= 0 THEN start ELSE Len(s) + start

CappedStart(s, start) ==
    LET w == WrappedStart(s, start)
    IN  IF w > Len(s) THEN Len(s) ELSE IF w < 0 THEN 0 ELSE w

Substring(s, start, length) == Substr(s, CappedStart(s, start), length)

(* Overlay: wrapped_start + replacement_length_ is computed in size_t     *)
(* (replacement_length_ is unsigned), so a negative sum wraps around      *)
(* before std::min with str_len.                                          *)
Overlay(s, start, ins, repl) ==
    LET cap == CappedStart(s, start)
        remainderStart == Min({(WrappedStart(s, start) + repl) % SizeMod, Len(s)})
    IN  Str(SubSeq(s, 1, cap) \o ins \o SubSeq(s, remainderStart + 1, Len(s)))

----------------------------------------------------------------------------
(* One iteration of SplitPart's do-while loop: remember the last          *)
(* delimiter position, search the next one (rfind from one before it in   *)
(* reverse; find past it forward, except that a position of 0 is taken    *)
(* for "first search" and not skipped), count the search, and count the   *)
(* delimiter only when one was found (short-circuit of the condition).    *)
SplitStep(s, d, rev, st) ==
    LET pos == IF rev THEN RFind(s, d, (st.pos - 1) % SizeMod)
               ELSE Find(s, d, IF st.pos = 0 THEN 0 ELSE st.pos + Len(d))
    IN  [pos |-> pos, last |-> st.pos, counter |-> st.counter + 1,
         idx |-> IF pos # npos THEN st.idx + 1 ELSE st.idx]

RECURSIVE SplitLoop(_, _, _, _, _, _)
SplitLoop(s, d, part, rev, limit, st) ==
    LET nx == SplitStep(s, d, rev, st)
    IN  IF nx.pos # npos /\ nx.idx < part /\ (limit = 0 \/ nx.counter < limit)
        THEN SplitLoop(s, d, part, rev, limit, nx)
        ELSE nx

(* SplitPart::operator(): split_part_ counts from the end when reverse_,  *)
(* limit_ caps the number of splits (0: no cap).                          *)
SplitPart(s, d, part, rev, limit) ==
    IF d = <<>> THEN Str(s)
    ELSE IF limit = 1 THEN IF part = 1 THEN Str(s) ELSE NullStr
    ELSE
      LET st == SplitLoop(s, d, part, rev, limit,
                          [pos |-> IF rev THEN Len(s) ELSE 0, last |-> 0,
                           idx |-> 0, counter |-> 0])
          pos == IF limit # 0 /\ st.counter = limit THEN npos ELSE st.pos
      IN  IF st.idx = 0 /\ part = 1 THEN Str(s)
          ELSE IF pos = npos /\ (st.idx < part - 1 \/ st.idx < 1) THEN NullStr
          ELSE IF rev
               THEN LET start == IF pos = npos THEN 0 ELSE pos + Len(d)
                    IN  Substr(s, start, (st.last - start) % SizeMod)
               ELSE LET start == IF part = 1 THEN 0 ELSE st.last + Len(d)
                    IN  Substr(s, start, (pos - start) % SizeMod)

----------------------------------------------------------------------------
(* The row loop of the generated code: it is waiting for the next row     *)
(* (call.op = "none") or has just applied an operator to one.             *)
NoCall == [op |-> "none"]

Init ==
    /\ call = NoCall
    /\ result = NullStr

NextRow ==
    /\ call # NoCall
    /\ call' = NoCall
    /\ result' = NullStr

EvalPad ==
    /\ call = NoCall
    /\ \E s \in Strings, pad \in Paddings, n \in Counts, mode \in {"LEFT", "RIGHT"} :
          /\ call' = [op |-> "pad", str |-> s, pad |-> pad, len |-> n, mode |-> mode]
          /\ result' = PadOp(s, pad, n, mode)

EvalTrim ==
    /\ call = NoCall
    /\ \E s \in Strings, mode \in {"LEFT", "RIGHT", "BOTH"} :
          /\ call' = [op |-> "trim", str |-> s, mode |-> mode]
          /\ result' \in Trim(s, mode)

EvalSubstring ==
    /\ call = NoCall
    /\ \E s \in Strings, start \in Starts, n \in Counts :
          /\ call' = [op |-> "substring", str |-> s, start |-> start, len |-> n]
          /\ result' = Substring(s, start, n)

EvalOverlay ==
    /\ call = NoCall
    /\ \E s \in Strings, start \in Starts, ins \in Inserts, n \in Counts :
          /\ call' = [op |-> "overlay", str |-> s, start |-> start, ins |-> ins,
                      len |-> n]
          /\ result' = Overlay(s, start, ins, n)

EvalSplitPart ==
    /\ call = NoCall
    /\ \E s \in Strings, d \in Delimiters, part \in Parts, rev \in BOOLEAN,
          limit \in Limits :
          /\ call' = [op |-> "split_part", str |-> s, delim |-> d, part |-> part,
                      rev |-> rev, limit |-> limit]
          /\ result' = SplitPart(s, d, part, rev, limit)

Next ==
    \/ EvalPad
    \/ EvalTrim
    \/ EvalSubstring
    \/ EvalOverlay
    \/ EvalSplitPart
    \/ NextRow

Spec == Init /\ [][Next]_vars

----------------------------------------------------------------------------
(* Reference definitions: what the operators are meant to return, written *)
(* from the comments of StringOps.cpp and the SQL functions they          *)
(* implement, independently of the loops of the code.                     *)

(* The part of s from 0-based index lo (inclusive) to hi (exclusive),      *)
(* both clamped to the string.                                             *)
Slice(s, lo, hi) ==
    LET from == IF lo < 0 THEN 0 ELSE IF lo > Len(s) THEN Len(s) ELSE lo
        to == IF hi < from THEN from ELSE IF hi > Len(s) THEN Len(s) ELSE hi
    IN  SubSeq(s, from + 1, to)

(* TRIM: the characters from the first to the last one that is not a     *)
(* trim character (only leading ones for LTRIM, trailing for RTRIM).      *)
TrimRef(s, mode) ==
    LET keep == {i \in 1 .. Len(s) :
                   /\ mode \in {"LEFT", "BOTH"} =>
                         \E j \in 1 .. i : s[j] \notin TrimChars
                   /\ mode \in {"RIGHT", "BOTH"} =>
                         \E j \in i .. Len(s) : s[j] \notin TrimChars}
    IN  IF keep = {} THEN <<>> ELSE SubSeq(s, Min(keep), Max(keep))

(* OVERLAY: the characters before the replaced range, the inserted        *)
(* string, the characters after it; a negative start counts from the end. *)
OverlayRef(s, start, ins, repl) ==
    LET from == IF start >= 0 THEN start ELSE Len(s) + start
    IN  Slice(s, 0, from) \o ins \o Slice(s, from + repl, Len(s))

(* SPLIT_PART: the delimiters cut s left to right (right to left when     *)
(* counting from the end) into non-overlapping pieces; with a limit only  *)
(* the first limit - 1 cuts are made and the rest is one piece.           *)
RECURSIVE CutsFrom(_, _, _), CutsUpTo(_, _, _)
CutsFrom(s, d, from) ==
    LET hits == {i \in from .. Len(s) : OccursAt(s, d, i)}
    IN  IF hits = {} THEN <<>>
        ELSE <<Min(hits)>> \o CutsFrom(s, d, Min(hits) + Len(d))

CutsUpTo(s, d, upto) ==
    LET hits == {i \in 0 .. upto : i + Len(d) <= upto /\ OccursAt(s, d, i)}
    IN  IF hits = {} THEN <<>>
        ELSE <<Max(hits)>> \o CutsUpTo(s, d, Max(hits))

SplitPartRef(s, d, part, rev, limit) ==
    IF d = <<>> THEN Str(s)
    ELSE
      LET all == IF rev THEN CutsUpTo(s, d, Len(s)) ELSE CutsFrom(s, d, 0)
          cuts == IF limit > 0 /\ Len(all) >= limit THEN SubSeq(all, 1, limit - 1)
                  ELSE all
          n == Len(cuts)
      IN  IF part > n + 1 THEN NullStr
          ELSE IF rev
               THEN Str(Slice(s, IF part = n + 1 THEN 0 ELSE cuts[part] + Len(d),
                              IF part = 1 THEN Len(s) ELSE cuts[part - 1]))
               ELSE Str(Slice(s, IF part = 1 THEN 0 ELSE cuts[part - 1] + Len(d),
                              IF part = n + 1 THEN Len(s) ELSE cuts[part]))

----------------------------------------------------------------------------
(* Pad::lpad and Pad::rpad pad a short string to exactly padded_length_   *)
(* characters with the padding string repeated from its start, and cut a  *)
(* long one to padded_length_ characters.                                 *)
PadMatchesReference ==
    call.op = "pad" => PadMeetsReference(call.str, call.pad, call.len, call.mode, result)

(* Trim::operator() returns the input without its leading and/or trailing *)
(* trim characters; its comment says the empty result is for "all chars   *)
(* should be trimmed".                                                    *)
TrimMatchesReference ==
    (call.op = "trim" /\ result # Crashed) =>
        result = Str(TrimRef(call.str, call.mode))

(* Trim::operator() only reads characters of the string it trims.        *)
TrimStaysInBounds == call.op = "trim" => result # Crashed

(* Overlay::operator() keeps the characters of the base string outside    *)
(* the replaced range [start, start + replacement_length).                *)
OverlayMatchesReference ==
    call.op = "overlay" =>
        result = Str(OverlayRef(call.str, call.start, call.ins, call.len))

(* SplitPart::operator() returns the split_part_-th piece (from the end   *)
(* when reverse_), a null string when there are fewer pieces, and the     *)
(* remainder as one piece once limit_ splits are made.                    *)
SplitPartMatchesReference ==
    call.op = "split_part" =>
        result = SplitPartRef(call.str, call.delim, call.part, call.rev, call.limit)
=============================================================================
