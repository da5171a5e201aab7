---------------------------- MODULE MC_StringChain ----------------------------
(* StringChain on every string of up to three characters over {"a", "-"}, *)
(* with chains that reach each case of the code: a Replace whose          *)
(* replacement holds the pattern (the search must resume after it), a     *)
(* Replace on overlapping candidates ("--" in "---"), RegexpReplace of    *)
(* the last, the second and all occurrences from a positive and a         *)
(* negative start, RegexpSubstr that finds no match before an operator    *)
(* that would turn the null into a string, NullOp, numericEval chains     *)
(* after a null and after Repeat, and Repeat 0.                           *)
EXTENDS StringChain

MCSizeBits == 16
MCInputs == UNION {[1 .. n -> {"a", "-"}] : n \in 0 .. 3}

(* An operator as gen_string_op builds it; fields it does not use are     *)
(* left at their defaults.                                                 *)
Op(kind) == [kind |-> kind, pat |-> <<>>, rep |-> <<>>, n |-> 0, lit |-> <<>>,
             rev |-> FALSE, start |-> 0, occ |-> 0, sub |-> FALSE]
ReplaceOp(p, r) == [Op("replace") EXCEPT !.pat = p, !.rep = r]
RegexpReplaceOp(p, r, start, occ) ==
    [Op("regexp_replace") EXCEPT !.pat = p, !.rep = r, !.start = start, !.occ = occ]
RegexpSubstrOp(p, start, occ, sub) ==
    [Op("regexp_substr") EXCEPT !.pat = p, !.start = start, !.occ = occ, !.sub = sub]
ConcatOp(lit, rev) == [Op("concat") EXCEPT !.lit = lit, !.rev = rev]
RepeatOp(n) == [Op("repeat") EXCEPT !.n = n]

MCChains ==
    { <<ReplaceOp(<<"-">>, <<"a", "-">>)>>,
      <<ReplaceOp(<<"-", "-">>, <<"-">>)>>,
      <<RegexpReplaceOp(<<"-">>, <<"a">>, 0, -1)>>,
      <<RegexpReplaceOp(<<"-">>, <<>>, 1, 2)>>,
      <<RegexpReplaceOp(<<"-">>, <<"a", "a">>, -2, 0)>>,
      <<RegexpSubstrOp(<<"-">>, 0, -2, FALSE), ConcatOp(<<"a">>, FALSE)>>,
      <<RegexpSubstrOp(<<"a">>, -2, 0, TRUE), ConcatOp(<<"-">>, TRUE)>>,
      <<Op("null"), Op("reverse")>>,
      <<ConcatOp(<<"-">>, TRUE), Op("reverse"), RepeatOp(2), Op("char_length")>>,
      <<RegexpSubstrOp(<<"-">>, 1, 1, FALSE), Op("char_length")>>,
      <<RepeatOp(0), ReplaceOp(<<"a">>, <<"-">>), Op("char_length")>> }

(* REPLACE with an empty pattern, as gen_string_op accepts it.            *)
MCChainsEmptyPattern ==
    { <<ReplaceOp(<<"-">>, <<"a">>)>>,
      <<ReplaceOp(<<>>, <<>>)>> }
=============================================================================
