---------------------------- MODULE StringChain ----------------------------
(***************************************************************************)
(* A chain of string operators applied to one row's string.                *)
(*                                                                         *)
(* Source: src/cpp/src/cider/function/string/StringOps.cpp                 *)
(*   StringOps::operator() (both overloads) and StringOps::numericEval     *)
(*   (lines 504-542): apply string_ops_ in order and stop at the first     *)
(*   null, which is returned as ""; numericEval applies all but the last   *)
(*   operator and hands the string to the last one's numericEval; and the  *)
(*   operators Reverse, Repeat, Concat (149-165), Replace (292-305),       *)
(*   RegexpReplace with get_nth_regex_match (372-441), RegexpSubstr with   *)
(*   get_sub_match (443-482) and CharLength::numericEval (107-111).        *)
(*                                                                         *)
(* Replace's while loop is a step per iteration: it is the one loop of the *)
(* library whose exit depends on what the previous iteration wrote. The    *)
(* other operators are applied in one step. A regular expression is a      *)
(* literal pattern of at least one character (an extended POSIX regex      *)
(* without special characters): std::regex_search then finds its leftmost *)
(* occurrence and std::regex_replace replaces every non-overlapping one.   *)
(* NullOp (gen_string_op, lines 563-565, an operator with a null literal   *)
(* argument) returns a null string.                                        *)
(***************************************************************************)
EXTENDS Integers, Sequences, SequencesExt, StringSearch

CONSTANTS
    Inputs,  \* the strings a row may carry
    Chains   \* the string_ops_ genStringOpsFromOpInfos may build

(* A chain is evaluated by numericEval when its last operator is numeric.  *)
NumericChain(o) == Last(o).kind = "char_length"

(* num_string_producing_ops: numericEval stops before the last operator.   *)
ProducingOps(o) == IF NumericChain(o) THEN Len(o) - 1 ELSE Len(o)

ASSUME ChainsAssumption ==
    \A o \in Chains :
        /\ Len(o) >= 1
        /\ \A i \in 1 .. ProducingOps(o) : o[i].kind # "char_length"
        /\ \A i \in 1 .. Len(o) :
              o[i].kind \in {"regexp_replace", "regexp_substr"} => Len(o[i].pat) > 0

VARIABLES
    input,     \* the row's string
    ops,       \* string_ops_
    idx,       \* the next operator of the chain (1-based)
    modified,  \* modified_str: the NullableStrType the last operator returned
    loop,      \* Replace's loop: [str |-> replaced_str, from |-> search_start_index]
    out,       \* what the call returned
    pc         \* "chain", "replace" (inside Replace's loop) or "done"

vars == <<input, ops, idx, modified, loop, out, pc>>

NoLoop == [str |-> <<>>, from |-> 0]
NoOut == [kind |-> "none"]

----------------------------------------------------------------------------
(* Repeat::operator(): n_ copies of the string.                            *)
RepeatStr(s, n) == FlattenSeq([r \in 1 .. n |-> s])

(* wrapped_start of RegexpReplace and RegexpSubstr: a negative start_pos_  *)
(* counts from the end, and the start is capped to [0, str_len].          *)
RegexStart(s, start) ==
    LET w == IF start >= 0 THEN start
             ELSE IF Len(s) + start > 0 THEN Len(s) + start ELSE 0
    IN  IF w < Len(s) THEN w ELSE Len(s)

(* The regex_search loop from position pos: each search starts at         *)
(* match.suffix().first; the matches as [first, second) positions.        *)
RECURSIVE MatchesFrom(_, _, _)
MatchesFrom(s, p, pos) ==
    LET k == Find(s, p, pos)
    IN  IF k = npos THEN <<>>
        ELSE <<[first |-> k, second |-> k + Len(p)]>> \o
             MatchesFrom(s, p, k + Len(p))

NoMatch == [first |-> npos, second |-> npos]

(* wrapped_match: a negative occurrence counts back from the match count.  *)
WrappedOccurrence(ms, occ) == IF occ >= 0 THEN occ ELSE Len(ms) + occ

(* get_nth_regex_match: the occurrence-th match (0-based) at or after      *)
(* start_pos, or (npos, npos).                                             *)
get_nth_regex_match(s, start, p, occ) ==
    LET ms == MatchesFrom(s, p, start)
        w == WrappedOccurrence(ms, occ)
    IN  IF w < 0 \/ w >= Len(ms) THEN NoMatch ELSE ms[w + 1]

(* std::regex_replace over a range: every non-overlapping match.           *)
RECURSIVE RegexReplaceAll(_, _, _)
RegexReplaceAll(s, p, r) ==
    LET k == Find(s, p, 0)
    IN  IF k = npos THEN s
        ELSE SubSeq(s, 1, k) \o r \o
             RegexReplaceAll(SubSeq(s, k + Len(p) + 1, Len(s)), p, r)

(* RegexpReplace::operator(): occurrence_ 0 replaces every match after the *)
(* start; otherwise the occurrence_-th (1-based, negative from the end).   *)
RegexpReplace(s, op) ==
    LET w == RegexStart(s, op.start)
    IN  IF op.occ = 0
        THEN Str(SubSeq(s, 1, w) \o
                 RegexReplaceAll(SubSeq(s, w + 1, Len(s)), op.pat, op.rep))
        ELSE LET m == get_nth_regex_match(s, w, op.pat,
                                          IF op.occ > 0 THEN op.occ - 1 ELSE op.occ)
             IN  IF m.first = npos THEN Str(s)
                 ELSE Str(SubSeq(s, 1, m.first) \o op.rep \o
                          SubSeq(s, m.second + 1, Len(s)))

(* RegexpSubstr::operator(): the occurrence_-th match (compared with the   *)
(* 0-based match_idx, negative from the end), a null string when there is *)
(* none; get_sub_match of a literal pattern, which has no group, is "".    *)
RegexpSubstr(s, op) ==
    LET ms == MatchesFrom(s, op.pat, RegexStart(s, op.start))
        w == WrappedOccurrence(ms, op.occ)
    IN  IF w < 0 \/ w >= Len(ms) THEN NullStr
        ELSE IF op.sub THEN Str(<<>>)
        ELSE Str(op.pat)

(* The operators applied in one step: Reverse, Repeat, Concat (RCONCAT     *)
(* when reverse_order_), RegexpReplace, RegexpSubstr and NullOp.           *)
OpResult(op, s) ==
    CASE op.kind = "reverse"        -> Str(Reverse(s))
      [] op.kind = "repeat"         -> Str(RepeatStr(s, op.n))
      [] op.kind = "concat"         -> Str(IF op.rev THEN op.lit \o s ELSE s \o op.lit)
      [] op.kind = "regexp_replace" -> RegexpReplace(s, op)
      [] op.kind = "regexp_substr"  -> RegexpSubstr(s, op)
      [] op.kind = "null"           -> NullStr

(* CharLength::numericEval: the length as a BIGINT Datum.                  *)
NumericEval(op, s) == [kind |-> "int", val |-> Len(s)]

----------------------------------------------------------------------------
Init ==
    /\ input \in Inputs
    /\ ops \in Chains
    /\ idx = 1
    /\ modified = Str(input)
    /\ loop = NoLoop
    /\ out = NoOut
    /\ pc = "chain"

(* The call returns: operator() the string ("" for a null), numericEval    *)
(* the last operator's numericEval of it.                                  *)
Return(s) ==
    /\ pc' = "done"
    /\ out' = IF NumericChain(ops) THEN NumericEval(Last(ops), s) ELSE Str(s)

(* Mutant: the chain goes on past a null string.                          *)
ApplyOpIgnoresNull ==
    /\ pc = "chain"
    /\ idx <= ProducingOps(ops)
    /\ ops[idx].kind # "replace"
    /\ modified' = OpResult(ops[idx], modified.str)
    /\ idx' = idx + 1
    /\ UNCHANGED <<input, ops, loop, out, pc>>

(* modified_str = string_op->operator()(modified_str.str), then the null   *)
(* check: return "" (break, in numericEval) on a null string.              *)
ApplyOp ==
    /\ pc = "chain"
    /\ idx <= ProducingOps(ops)
    /\ ops[idx].kind # "replace"
    /\ modified' = OpResult(ops[idx], modified.str)
    /\ idx' = idx + 1
    /\ IF modified'.kind = "null" THEN Return(modified'.str)
       ELSE UNCHANGED <<out, pc>>
    /\ UNCHANGED <<input, ops, loop>>

(* Replace::operator(): replaced_str is a copy, search_start_index = 0.    *)
StartReplace ==
    /\ pc = "chain"
    /\ idx <= ProducingOps(ops)
    /\ ops[idx].kind = "replace"
    /\ loop' = [str |-> modified.str, from |-> 0]
    /\ pc' = "replace"
    /\ UNCHANGED <<input, ops, idx, modified, out>>

(* One iteration that finds the pattern: replace it and resume the search  *)
(* after the replacement.                                                  *)
ReplaceFound ==
    /\ pc = "replace"
    /\ LET pat == ops[idx].pat
           rep == ops[idx].rep
           k == Find(loop.str, pat, loop.from)
       IN  /\ k # npos
           /\ loop' = [str |-> SubSeq(loop.str, 1, k) \o rep \o
                               SubSeq(loop.str, k + Len(pat) + 1, Len(loop.str)),
                       from |-> k + Len(rep)]
    /\ UNCHANGED <<input, ops, idx, modified, out, pc>>

(* The search finds nothing: break, return replaced_str (never null).      *)
ReplaceDone ==
    /\ pc = "replace"
    /\ Find(loop.str, ops[idx].pat, loop.from) = npos
    /\ modified' = Str(loop.str)
    /\ idx' = idx + 1
    /\ loop' = NoLoop
    /\ pc' = "chain"
    /\ UNCHANGED <<input, ops, out>>

(* Every producing operator has run.                                       *)
ReturnChain ==
    /\ pc = "chain"
    /\ idx > ProducingOps(ops)
    /\ Return(modified.str)
    /\ UNCHANGED <<input, ops, idx, modified, loop>>

Next ==
    \/ ApplyOp
    \/ StartReplace
    \/ ReplaceFound
    \/ ReplaceDone
    \/ ReturnChain

(* One call runs on one thread and never waits.                            *)
Spec == Init /\ [][Next]_vars /\ WF_vars(Next)

----------------------------------------------------------------------------
(* Reference definitions, written from what the SQL functions return and   *)
(* independent of the code's find loops: a scan from the left that takes   *)
(* each occurrence of a (non-empty) pattern and continues after it.        *)
RECURSIVE ReplaceRef(_, _, _)
ReplaceRef(s, p, r) ==
    IF Len(s) < Len(p) THEN s
    ELSE IF SubSeq(s, 1, Len(p)) = p
         THEN r \o ReplaceRef(SubSeq(s, Len(p) + 1, Len(s)), p, r)
         ELSE <<Head(s)>> \o ReplaceRef(Tail(s), p, r)

(* The 0-based positions of those occurrences in s, offset by base.       *)
RECURSIVE OccurrencesRef(_, _, _)
OccurrencesRef(s, p, base) ==
    IF Len(s) < Len(p) THEN <<>>
    ELSE IF SubSeq(s, 1, Len(p)) = p
         THEN <<base>> \o OccurrencesRef(SubSeq(s, Len(p) + 1, Len(s)), p, base + Len(p))
         ELSE OccurrencesRef(Tail(s), p, base + 1)

(* The position a regexp function starts at: start_pos, from the end when  *)
(* negative, within the string.                                            *)
StartRef(s, start) ==
    IF start >= 0 THEN Min({start, Len(s)}) ELSE Max({Len(s) + start, 0})

(* REGEXP_REPLACE: all occurrences after the start (occurrence 0), or the  *)
(* n-th (the |n|-th from the last when n < 0); none such: unchanged.       *)
RegexpReplaceRef(s, op) ==
    LET from == StartRef(s, op.start)
        occ == OccurrencesRef(SubSeq(s, from + 1, Len(s)), op.pat, from)
        j == IF op.occ > 0 THEN op.occ ELSE Len(occ) + 1 + op.occ
    IN  IF op.occ = 0
        THEN SubSeq(s, 1, from) \o ReplaceRef(SubSeq(s, from + 1, Len(s)), op.pat, op.rep)
        ELSE IF j < 1 \/ j > Len(occ) THEN s
        ELSE SubSeq(s, 1, occ[j]) \o op.rep \o SubSeq(s, occ[j] + Len(op.pat) + 1, Len(s))

(* REGEXP_SUBSTR with occurrence_ counted from 0 (from the last when       *)
(* negative): the match, "" for a group of a pattern without groups, null  *)
(* when there is no such match.                                            *)
RegexpSubstrRef(s, op) ==
    LET occ == OccurrencesRef(SubSeq(s, StartRef(s, op.start) + 1, Len(s)), op.pat, 0)
        j == IF op.occ >= 0 THEN op.occ + 1 ELSE Len(occ) + 1 + op.occ
    IN  IF j < 1 \/ j > Len(occ) THEN NullStr
        ELSE Str(IF op.sub THEN <<>> ELSE op.pat)

(* The other operators are a single library call each.                     *)
OpRef(op, s) ==
    CASE op.kind = "replace"        -> Str(ReplaceRef(s, op.pat, op.rep))
      [] op.kind = "regexp_replace" -> Str(RegexpReplaceRef(s, op))
      [] op.kind = "regexp_substr"  -> RegexpSubstrRef(s, op)
      [] OTHER                      -> OpResult(op, s)

(* The chain's string: the operators in order, null as soon as one is.     *)
RECURSIVE ChainRef(_, _, _)
ChainRef(r, o, i) ==
    IF i > ProducingOps(o) \/ r.kind = "null" THEN r
    ELSE ChainRef(OpRef(o[i], r.str), o, i + 1)

(* A null string is returned as "" ("how we currently represent           *)
(* dictionary-encoded nulls", line 509); numericEval measures that "".    *)
Expected(s, o) ==
    LET r == ChainRef(Str(s), o, 1)
    IN  IF NumericChain(o) THEN [kind |-> "int", val |-> Len(r.str)]
        ELSE Str(r.str)

----------------------------------------------------------------------------
(* StringOps::operator() and numericEval return what the SQL functions of  *)
(* the chain compose to: Replace's loop, which rescans the string it has   *)
(* just rewritten, replaces exactly the non-overlapping occurrences of the *)
(* input; RegexpReplace and RegexpSubstr pick the occurrence they are      *)
(* asked for from a wrapped start and occurrence; and a null stops the     *)
(* chain.                                                                  *)
ChainMatchesReference == pc = "done" => out = Expected(input, ops)

(* Every call of StringOps::operator() returns: the operators' loops end.  *)
ChainReturns == <>(pc = "done")
=============================================================================
