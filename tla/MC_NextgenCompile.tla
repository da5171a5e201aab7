-------------------------- MODULE MC_NextgenCompile --------------------------
(* Small instance of NextgenCompile for TLC: one value, a 4-byte, an      *)
(* 8-byte and a string literal, an 8-byte literal range, and six plans:   *)
(* one that compiles, two whose project nodes share a literal,            *)
(* one whose last literal lands exactly on the last offset that fits, one  *)
(* with more literals than fit, and one with an operator that has no       *)
(* lowering.                                                               *)
EXTENDS NextgenCompile

CONSTANTS v1

MCValues == {v1}
MCTypes == {"INT", "BIGINT", "TEXT"}
MCLit(t) == [val |-> v1, type |-> t, enc |-> "NONE", dict |-> 1]
Source == [kind |-> "source", lits |-> <<>>]
Project(ls) == [kind |-> "project", lits |-> ls]
MCPlans ==
    { <<Source, Project(<<MCLit("INT"), MCLit("BIGINT")>>)>>,
      <<Source, Project(<<MCLit("INT")>>), Project(<<MCLit("INT"), MCLit("TEXT")>>)>>,
      <<Source, Project(<<MCLit("INT"), MCLit("BIGINT"), MCLit("TEXT")>>)>>,
      <<Source, Project(<<MCLit("TEXT"), MCLit("INT")>>), Project(<<MCLit("BIGINT")>>)>>,
      <<Source, Project(<<>>), Project(<<MCLit("BIGINT"), MCLit("BIGINT")>>)>>,
      <<Source, [kind |-> "unsupported", lits |-> <<>>]>> }
=============================================================================
