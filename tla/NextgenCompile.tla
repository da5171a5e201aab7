--------------------------- MODULE NextgenCompile ---------------------------
(***************************************************************************)
(* The compile entry point of the nextgen code generator, composed with    *)
(* literal hoisting.                                                       *)
(*                                                                         *)
(* Source: src/cpp/src/cider/exec/nextgen/Nextgen.cpp, lines 31-68         *)
(*   (compile(): create the context and the module, run the builder        *)
(*   lambda inside JITFunctionBuilder::build, finish the module, hand it   *)
(*   to the context and return the context) and                            *)
(*   src/cpp/src/cider/exec/nextgen/operators/ProjectNode.h, lines 28-49   *)
(*   (ProjectNode, a ROW-valued node, and its translator with consume and  *)
(*   consumeNull).                                                         *)
(*                                                                         *)
(* parsers::toOpPipeline, Transformer::toTranslator and the bodies of      *)
(* consume/consumeNull are not under src/; they are modelled from the spec *)
(* (sections 4.1 and 4.2): the pipeline is the plan's nodes leaf to root,  *)
(* a node without a lowering makes toOpPipeline throw UnsupportedOperator, *)
(* the chain consumes the nodes in order, and a project node codegens      *)
(* each literal of its expressions through codegen(Constant), which is     *)
(* the action of LiteralHoisting. An exception leaves build() before       *)
(* module->finish(); a fatal CHECK aborts the process.                     *)
(***************************************************************************)
EXTENDS Integers, Sequences

CONSTANTS
    Values, DictIds, TypesUsed, MaxLitOff,  \* of LiteralHoisting
    Plans       \* execution units: sequences of nodes [kind, lits]

VARIABLES
    literals, literalBytes, loads, placeholders, status,  \* of LiteralHoisting
    phase,          \* where compile() is, see Phases
    plan,           \* the execution unit being compiled
    null_separate,  \* FLAGS_null_separate, read by the builder
    node,           \* the node of the pipeline being consumed
    lit,            \* the next literal of that node to codegen
    lowered,        \* the nodes whose code is in the function, in order
    returned        \* the module compile() handed out, or <<>>

LH == INSTANCE LiteralHoisting

lhvars == <<literals, literalBytes, loads, placeholders, status>>
cvars == <<phase, plan, null_separate, node, lit, lowered, returned>>
vars == <<lhvars, cvars>>

Kinds == {"source", "project", "unsupported"}
Phases == {"idle", "building", "consume", "consumeNull", "ret", "finish",
           "returned", "failed", "aborted"}

(* The pipeline toOpPipeline builds from a plan, leaf to root.             *)
Pipeline(p) == p

(* A project node codegens the literals of its output expressions.         *)
LitsOf(n) == IF n.kind = "project" THEN n.lits ELSE <<>>

(* LiteralHoisting's assumptions on the constants it shares with compile(): *)
(* the assumptions of an instantiated module are not inherited.            *)
ASSUME HoistingAssumption ==
    /\ MaxLitOff \in Nat
    /\ TypesUsed \subseteq LH!SQLTypes

ASSUME PlansAssumption ==
    \A p \in Plans :
        /\ p \in Seq([kind : Kinds, lits : Seq(LH!Lits)])
        \* the pipeline reads its rows from a source node first
        /\ Len(p) >= 2 /\ p[1].kind = "source"

(* compile() is called: make_unique<CodegenContext>, make_shared of the    *)
(* LLVMJITModule, then JITFunctionBuilder::build runs the builder lambda   *)
(* (setJITFunction, setCodegenOptions).                                    *)
compile ==
    /\ phase = "idle"
    /\ phase' = "building"
    /\ UNCHANGED <<lhvars, plan, null_separate, node, lit, lowered, returned>>

(* toOpPipeline(ra_exe_unit) and toTranslator(pipeline, codegen_options):  *)
(* an unsupported node throws out of build(), past module->finish().       *)
toOpPipeline ==
    /\ phase = "building"
    /\ IF \E i \in 1 .. Len(plan) : plan[i].kind = "unsupported"
       THEN phase' = "failed"
       ELSE phase' = "consume"
    /\ UNCHANGED <<lhvars, plan, null_separate, node, lit, lowered, returned>>

(* translator->consume: the current node codegens its next literal         *)
(* (codegen(Constant) with hoisting); "Too many literals" is an exception  *)
(* that leaves build(), a failed CHECK aborts.                             *)
consumeLiteral ==
    /\ phase = "consume"
    /\ lit <= Len(LitsOf(plan[node]))
    /\ LH!codegenHoistedConstants(LitsOf(plan[node])[lit])
    /\ phase' = IF status' = "ok" THEN "consume"
                 ELSE IF status' = "too_many_literals" THEN "failed"
                 ELSE "aborted"                       \* check_failed
    /\ lit' = lit + 1
    /\ UNCHANGED <<plan, null_separate, node, lowered, returned>>

(* Mutant: the chain passes on after the last node as well.              *)
consumeNodePastEnd ==
    /\ phase = "consume"
    /\ lit > Len(LitsOf(plan[node]))
    /\ lowered' = Append(lowered, plan[node])
    /\ node' = node + 1
    /\ lit' = 1
    /\ phase' = IF node < Len(plan) THEN phase
                ELSE IF null_separate THEN "consumeNull" ELSE "ret"
    /\ UNCHANGED <<lhvars, plan, null_separate, returned>>

(* The node's code is complete; consume passes on to its successor. After  *)
(* the last node the builder checks FLAGS_null_separate.                   *)
consumeNode ==
    /\ phase = "consume"
    /\ lit > Len(LitsOf(plan[node]))
    /\ lowered' = Append(lowered, plan[node])
    /\ IF node < Len(plan)
       THEN /\ node' = node + 1
            /\ lit' = 1
            /\ UNCHANGED phase
       ELSE /\ phase' = IF null_separate THEN "consumeNull" ELSE "ret"
            /\ UNCHANGED <<node, lit>>
    /\ UNCHANGED <<lhvars, plan, null_separate, returned>>

(* translator->getSuccessor()->consumeNull on the codegen context, bypassing *)
(* ArrowSourceNode.                                                        *)
consumeNull ==
    /\ phase = "consumeNull"
    /\ phase' = "ret"
    /\ UNCHANGED <<lhvars, plan, null_separate, node, lit, lowered, returned>>

(* createVariable(INT32, "ret", 0) and createReturn close the function;    *)
(* build() returns it.                                                     *)
createReturn ==
    /\ phase = "ret"
    /\ phase' = "finish"
    /\ UNCHANGED <<lhvars, plan, null_separate, node, lit, lowered, returned>>

(* Mutant: the module is finished and returned after an exception too.    *)
finishAfterFailure ==
    /\ phase \in {"finish", "failed"}
    /\ phase' = "returned"
    /\ returned' = lowered
    /\ UNCHANGED <<lhvars, plan, null_separate, node, lit, lowered>>

(* module->finish(); codegen_ctx->setJITModule(module); return codegen_ctx. *)
finish ==
    /\ phase = "finish"
    /\ phase' = "returned"
    /\ returned' = lowered
    /\ UNCHANGED <<lhvars, plan, null_separate, node, lit, lowered>>

Init ==
    /\ LH!Init
    /\ phase = "idle"
    /\ plan \in Plans
    /\ null_separate \in BOOLEAN
    /\ node = 1
    /\ lit = 1
    /\ lowered = <<>>
    /\ returned = <<>>

Next ==
    \/ compile
    \/ toOpPipeline
    \/ consumeLiteral
    \/ consumeNode
    \/ consumeNull
    \/ createReturn
    \/ finish

(* One compile() call runs on one thread without waiting: every enabled    *)
(* step is eventually taken.                                               *)
Spec == Init /\ [][Next]_vars /\ WF_vars(Next)

-----------------------------------------------------------------------------
(* compile() as its caller sees it: the abstract specification under the   *)
(* refinement mapping below.                                               *)
AbstractPhase ==
    IF phase \in {"idle", "returned", "failed", "aborted"} THEN phase
    ELSE "compiling"

Abstract == INSTANCE CompileAbstract
               WITH aphase <- AbstractPhase, aplan <- plan, amodule <- returned

(* Types of the compile state; LiteralHoisting's own type invariant is     *)
(* LH!TypeOK.                                                              *)
TypeOK ==
    /\ LH!TypeOK
    /\ phase \in Phases
    /\ plan \in Plans
    /\ null_separate \in BOOLEAN
    /\ node \in 1 .. Len(plan)
    /\ lit \in Nat \ {0}
    /\ lowered \in Seq([kind : Kinds, lits : Seq(LH!Lits)])
    /\ returned \in Seq([kind : Kinds, lits : Seq(LH!Lits)])

(* compile() implements its contract: every behaviour maps to one of       *)
(* CompileAbstract's, so a returned module always holds the code of the    *)
(* whole pipeline in order and an exception or abort returns nothing,      *)
(* and every call ends (Nextgen.cpp:31-68).                                *)
RefinesAbstract == Abstract!ASpec
=============================================================================
