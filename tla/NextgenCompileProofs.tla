------------------------ MODULE NextgenCompileProofs ------------------------
(***************************************************************************)
(* Proofs about compile() composed with literal hoisting, for every set of *)
(* plans and every offset limit: compile() implements the safety part of  *)
(* its contract CompileAbstract (the fairness part of RefinesAbstract     *)
(* stays with TLC); the hoisting state it drives behaves as               *)
(* LiteralHoisting's own specification, so the theorems of                *)
(* LiteralHoistingProofs carry over; and the compile state is well typed. *)
(***************************************************************************)
EXTENDS NextgenCompile, SequenceTheorems, TLAPS

LHP == INSTANCE LiteralHoistingProofs

(* The nodes of a plan.                                                    *)
Node == [kind : Kinds, lits : Seq(LH!Lits)]

(* The inductive invariant: besides the types, the functions built so far  *)
(* are the prefix of the pipeline before the current node (also after a    *)
(* throw or an abort), the whole pipeline once the chain is done, and no   *)
(* module is handed out before finish.                                     *)
CInv ==
    /\ phase \in Phases
    /\ plan \in Plans
    /\ node \in 1 .. Len(plan)
    /\ lit \in Nat \ {0}
    /\ null_separate \in BOOLEAN
    /\ phase \in {"idle", "building"} => lowered = <<>> /\ node = 1 /\ lit = 1
    /\ phase \in {"consume", "failed", "aborted"} =>
          lowered = SubSeq(plan, 1, node - 1)
    /\ phase \in {"consumeNull", "ret", "finish", "returned"} => lowered = plan
    /\ phase # "returned" => returned = <<>>
    /\ phase = "returned" => returned = plan

(* A codegen(Constant) call with hoisting ends in one of the three         *)
(* outcomes of codegenHoistedConstants: accepted, "Too many literals", or  *)
(* a failed CHECK.                                                         *)
LEMMA HoistOutcome ==
    ASSUME NEW c, LH!codegenHoistedConstants(c)
    PROVE  status' \in {"ok", "too_many_literals", "check_failed"}
<1>0. status = "ok"
  BY DEF LH!codegenHoistedConstants
<1>1. CASE LH!EmitLiteralUse(c, LH!SlotOff(c))
  BY <1>0, <1>1 DEF LH!EmitLiteralUse, LH!codegenHoistedConstantsPlaceholders
<1>2. CASE status' = "too_many_literals"
  BY <1>2
<1>3. QED
  BY <1>1, <1>2 DEF LH!codegenHoistedConstants

(* LiteralHoisting as NextgenCompile instantiates it and as its proof      *)
(* module instantiates it are the same specification.                      *)
LEMMA SameHoisting ==
    /\ LHP!Init = LH!Init
    /\ LHP!Next = LH!Next
    /\ LHP!vars = lhvars
    /\ LHP!TypeOK = LH!TypeOK
BY DEF LHP!Init, LH!Init, LHP!Next, LH!Next, LHP!vars, LH!vars, lhvars,
       LHP!TypeOK, LH!TypeOK,
       LHP!SQLTypes, LH!SQLTypes, LHP!Encodings, LH!Encodings,
       LHP!Lits, LH!Lits, LHP!LoadKind, LH!LoadKind,
       LHP!Arity, LH!Arity, LHP!ScalarBytes, LH!ScalarBytes,
       LHP!LitBytes, LH!LitBytes, LHP!Shape, LH!Shape, LHP!Shapes, LH!Shapes,
       LHP!NoLoad, LH!NoLoad, LHP!NoSlot, LH!NoSlot, LHP!Key, LH!Key,
       LHP!Keys, LH!Keys, LHP!Slots, LH!Slots, LHP!SlotOff, LH!SlotOff,
       LHP!getOrAddLiteral, LH!getOrAddLiteral,
       LHP!NextLiteralBytes, LH!NextLiteralBytes, LHP!OffsetFits, LH!OffsetFits,
       LHP!codegenHoistedConstantsLoads, LH!codegenHoistedConstantsLoads,
       LHP!codegenHoistedConstantsPlaceholders,
       LH!codegenHoistedConstantsPlaceholders,
       LHP!EmitLiteralUse, LH!EmitLiteralUse,
       LHP!codegenHoistedConstants, LH!codegenHoistedConstants

(* LiteralHoisting's assumptions on its constants, as its proof module     *)
(* states them: its theorems apply here.                                   *)
LEMMA HoistingAssumptions ==
    /\ TypesUsed \subseteq LHP!SQLTypes
    /\ MaxLitOff \in Nat
BY HoistingAssumption DEF LHP!SQLTypes, LH!SQLTypes

(* The plans are sequences of at least two nodes.                          *)
LEMMA PlanFacts ==
    ASSUME NEW p \in Plans
    PROVE  p \in Seq(Node) /\ Len(p) >= 2
BY PlansAssumption DEF Node

LEMMA CInvInit == Init => CInv
<1> SUFFICES ASSUME Init PROVE CInv
  OBVIOUS
<1>1. Len(plan) >= 2
  BY PlanFacts DEF Init
<1>2. QED
  BY <1>1 DEF Init, CInv, Phases

(* The literal a project node codegens next is a literal of the model.     *)
LEMMA NextLiteral ==
    ASSUME CInv, lit <= Len(LitsOf(plan[node]))
    PROVE  LitsOf(plan[node])[lit] \in LH!Lits
<1>1. plan[node] \in Node
  BY PlanFacts DEF CInv
<1>2. LitsOf(plan[node]) \in Seq(LH!Lits)
  BY <1>1 DEF LitsOf, Node
<1>3. QED
  BY <1>2 DEF CInv

LEMMA ConsumeLiteralStep ==
    ASSUME CInv, consumeLiteral
    PROVE  CInv'
<1>1. status' \in {"ok", "too_many_literals", "check_failed"}
  BY HoistOutcome DEF consumeLiteral
<1>2. phase' \in {"consume", "failed", "aborted"}
  BY <1>1 DEF consumeLiteral
<1>3. QED
  BY <1>2 DEF consumeLiteral, CInv, Phases

LEMMA ConsumeNodeStep ==
    ASSUME CInv, consumeNode
    PROVE  CInv'
<1>1. plan \in Seq(Node) /\ Len(plan) >= 2
  BY PlanFacts DEF CInv
<1>2. node \in 1 .. Len(plan) /\ lowered = SubSeq(plan, 1, node - 1)
  BY DEF consumeNode, CInv
<1>3. lowered' = SubSeq(plan, 1, node)
  <2>1. SubSeq(plan, 1, node) = SubSeq(plan, 1, node - 1) \o <<plan[node]>>
    BY <1>1, <1>2, SubSeqRecursiveSecond
  <2>2. SubSeq(plan, 1, node - 1) \in Seq(Node)
    BY <1>1, <1>2, SubSeqProperties
  <2>3. QED
    BY <1>2, <2>1, <2>2, AppendIsConcat DEF consumeNode
<1>4. CASE node < Len(plan)
  BY <1>2, <1>3, <1>4 DEF consumeNode, CInv
<1>5. CASE ~(node < Len(plan))
  <2>1. node = Len(plan)
    BY <1>2, <1>5
  <2>2. SubSeq(plan, 1, Len(plan)) = plan
    BY <1>1, SubSeqFull
  <2>3. QED
    BY <1>3, <1>5, <2>1, <2>2 DEF consumeNode, CInv, Phases
<1>6. QED
  BY <1>4, <1>5

LEMMA CInvStep == CInv /\ [Next]_vars => CInv'
<1> SUFFICES ASSUME CInv, [Next]_vars PROVE CInv'
  OBVIOUS
<1>1. CASE compile
  BY <1>1 DEF compile, CInv, Phases
<1>2. CASE toOpPipeline
  <2>1. SubSeq(plan, 1, 0) = <<>>
    BY PlanFacts, SubSeqEmpty DEF CInv
  <2>2. QED
    BY <1>2, <2>1 DEF toOpPipeline, CInv, Phases
<1>3. CASE consumeLiteral
  BY <1>3, ConsumeLiteralStep
<1>4. CASE consumeNode
  BY <1>4, ConsumeNodeStep
<1>5. CASE consumeNull
  BY <1>5 DEF consumeNull, CInv, Phases
<1>6. CASE createReturn
  BY <1>6 DEF createReturn, CInv, Phases
<1>7. CASE finish
  BY <1>7 DEF finish, CInv, Phases
<1>8. CASE UNCHANGED vars
  BY <1>8 DEF vars, cvars, CInv
<1>9. QED
  BY <1>1, <1>2, <1>3, <1>4, <1>5, <1>6, <1>7, <1>8 DEF Next

(* Every step of compile() is a step of its contract or leaves the         *)
(* caller's view (phase, plan, returned module) unchanged.                 *)
LEMMA RefineStep ==
    CInv /\ [Next]_vars => [Abstract!ANext]_Abstract!avars
<1> SUFFICES ASSUME CInv, [Next]_vars
             PROVE  [Abstract!ANext]_Abstract!avars
  OBVIOUS
<1> USE DEF Abstract!ANext, Abstract!avars
<1>1. CASE compile
  BY <1>1 DEF compile, Abstract!ABegin, AbstractPhase, CInv
<1>2. CASE toOpPipeline
  BY <1>2 DEF toOpPipeline, Abstract!AFail, AbstractPhase, CInv
<1>3. CASE consumeLiteral
  <2>1. phase' \in {"consume", "failed", "aborted"}
    <3>1. status' \in {"ok", "too_many_literals", "check_failed"}
      BY <1>3, HoistOutcome DEF consumeLiteral
    <3>2. QED
      BY <3>1, <1>3 DEF consumeLiteral
  <2>2. QED
    BY <1>3, <2>1 DEF consumeLiteral, Abstract!AFail, AbstractPhase, CInv
<1>4. CASE consumeNode
  BY <1>4 DEF consumeNode, AbstractPhase
<1>5. CASE consumeNull
  BY <1>5 DEF consumeNull, AbstractPhase
<1>6. CASE createReturn
  BY <1>6 DEF createReturn, AbstractPhase
<1>7. CASE finish
  BY <1>7 DEF finish, Abstract!AReturn, AbstractPhase, Pipeline, CInv
<1>8. CASE UNCHANGED vars
  BY <1>8 DEF vars, cvars, AbstractPhase
<1>9. QED
  BY <1>1, <1>2, <1>3, <1>4, <1>5, <1>6, <1>7, <1>8 DEF Next

(* compile() implements the safety part of CompileAbstract: a returned     *)
(* module holds the code of the plan's whole pipeline in order, and an     *)
(* exception or an abort hands out no module (Nextgen.cpp:31-68).          *)
THEOREM CompileRefinesContract ==
    Spec => Abstract!AInit /\ [][Abstract!ANext]_Abstract!avars
<1>1. Init => Abstract!AInit
  BY DEF Init, Abstract!AInit, AbstractPhase
<1>2. Spec => []CInv
  BY CInvInit, CInvStep, PTL DEF Spec
<1>3. QED
  BY <1>1, <1>2, RefineStep, PTL DEF Spec
-----------------------------------------------------------------------------
(* Every step of compile() is a step of literal hoisting or leaves its      *)
(* state alone: only consumeLiteral calls codegen(Constant).               *)
LEMMA HoistingStep == CInv /\ [Next]_vars => [LH!Next]_lhvars
<1> SUFFICES ASSUME CInv, [Next]_vars PROVE [LH!Next]_lhvars
  OBVIOUS
<1>1. CASE consumeLiteral
  BY <1>1, NextLiteral DEF consumeLiteral, LH!Next
<1>2. CASE ~consumeLiteral
  BY <1>2 DEF Next, vars, compile, toOpPipeline, consumeNode, consumeNull,
              createReturn, finish
<1>3. QED
  BY <1>1, <1>2

(* The hoisting state that compile() drives through the translator chain   *)
(* behaves as LiteralHoisting's specification: the theorems proved about    *)
(* codegenHoistedConstants hold inside compile().                          *)
THEOREM HoistingRuns == Spec => LHP!Spec
<1>1. Init => LHP!Init
  BY SameHoisting DEF Init
<1>2. Spec => []CInv
  BY CInvInit, CInvStep, PTL DEF Spec
<1>3. CInv /\ [Next]_vars => [LHP!Next]_LHP!vars
  BY HoistingStep, SameHoisting DEF LHP!vars, lhvars
<1>4. QED
  BY <1>1, <1>2, <1>3, PTL DEF Spec, LHP!Spec

(* The compile state is well typed: the pools, loads and placeholders of   *)
(* hoisting, the phase, a node index inside the plan, and the functions    *)
(* built and the module returned are sequences of plan nodes.              *)
THEOREM TypeCorrect == Spec => []TypeOK
<1>1. Spec => []LH!TypeOK
  <2>1. LHP!TypeOK => LH!TypeOK
    BY SameHoisting
  <2>2. Spec => []LHP!TypeOK
    <3>1. LHP!Spec => []LHP!TypeOK
      BY HoistingAssumptions, LHP!TypeCorrect, PTL
    <3>2. QED
      BY <3>1, HoistingRuns
  <2>3. QED
    BY <2>1, <2>2, PTL
<1>2. Spec => []CInv
  BY CInvInit, CInvStep, PTL DEF Spec
<1>3. CInv /\ LH!TypeOK => TypeOK
  <2> SUFFICES ASSUME CInv, LH!TypeOK PROVE TypeOK
    OBVIOUS
  <2>1. plan \in Seq(Node)
    BY PlanFacts DEF CInv
  <2>2. lowered \in Seq(Node)
    <3>1. CASE phase \in {"consume", "failed", "aborted"}
      BY <2>1, <3>1, SubSeqProperties DEF CInv
    <3>2. CASE phase \in {"idle", "building"}
      BY <3>2, EmptySeq DEF CInv
    <3>3. CASE phase \in {"consumeNull", "ret", "finish", "returned"}
      BY <2>1, <3>3 DEF CInv
    <3>4. QED
      BY <3>1, <3>2, <3>3 DEF CInv, Phases
  <2>3. returned \in Seq(Node)
    BY <2>1, EmptySeq DEF CInv
  <2>4. QED
    BY <2>2, <2>3 DEF CInv, TypeOK, Node
<1>4. QED
  BY <1>1, <1>2, <1>3, PTL
=============================================================================
