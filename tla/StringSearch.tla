---------------------------- MODULE StringSearch ----------------------------
(***************************************************************************)
(* std::string::find and std::string::rfind, as the string operators of   *)
(* src/cpp/src/cider/function/string/StringOps.cpp call them (SplitPart,   *)
(* Replace) and as a literal regular expression matches (RegexpReplace,   *)
(* RegexpSubstr): the first (last) occurrence of d at or after (before) a *)
(* position, or npos.                                                      *)
(***************************************************************************)
EXTENDS Integers, Sequences, FiniteSetsExt, StringPad

(* d occurs in s at 0-based position i.                                   *)
OccursAt(s, d, i) ==
    /\ i + Len(d) <= Len(s)
    /\ SubSeq(s, i + 1, i + Len(d)) = d

(* std::string::find(d, from): the first occurrence at or after from.     *)
Find(s, d, from) ==
    LET hits == {i \in 0 .. Len(s) : i >= from /\ OccursAt(s, d, i)}
    IN  IF hits = {} THEN npos ELSE Min(hits)

(* std::string::rfind(d, from): the last occurrence at or before from.    *)
RFind(s, d, from) ==
    LET hits == {i \in 0 .. Len(s) : i <= from /\ OccursAt(s, d, i)}
    IN  IF hits = {} THEN npos ELSE Max(hits)
=============================================================================
