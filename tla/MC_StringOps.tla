---------------------------- MODULE MC_StringOps ----------------------------
(* StringOps on strings of up to four characters over {"a", "-"}, with    *)
(* "-" the trim character and the delimiters "-" and "--": enough for     *)
(* leading, trailing and adjacent delimiters and trim characters, starts  *)
(* before the beginning and past the end, and every limit up to 3.        *)
EXTENDS StringOps

MCAlphabet == {"a", "-"}
MCTrimChars == {"-"}
MCStarts == -6 .. 5
MCCounts == 0 .. 3
MCInserts == {<<>>, <<"a">>}
MCPaddings == {<<"-">>, <<"a", "-">>}
MCDelimiters == {<<"-">>, <<"-", "-">>}
MCParts == 1 .. 3
MCLimits == 0 .. 3
=============================================================================
