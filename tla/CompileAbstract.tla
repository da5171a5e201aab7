--------------------------- MODULE CompileAbstract ---------------------------
(***************************************************************************)
(* What compile() promises its caller (spec section 4.5 and section 7):    *)
(* one call either returns a finished module holding the code of every     *)
(* node of the plan's pipeline, in pipeline order, or fails as a whole     *)
(* (an exception, or the fatal abort of a CHECK) and returns no module: no *)
(* partial or unfinished module is ever handed out.                        *)
(***************************************************************************)
CONSTANTS
    Plans,      \* the execution units the caller may compile
    Pipeline(_) \* the operator pipeline of a plan (the nodes it lowers)

VARIABLES
    aphase,     \* "idle", "compiling", "returned", "failed" or "aborted"
    aplan,      \* the plan being compiled
    amodule     \* the module handed to the caller, or <<>> when none

avars == <<aphase, aplan, amodule>>

AInit ==
    /\ aphase = "idle"
    /\ aplan \in Plans
    /\ amodule = <<>>

(* The caller calls compile(ra_exe_unit, codegen_options).                 *)
ABegin ==
    /\ aphase = "idle"
    /\ aphase' = "compiling"
    /\ UNCHANGED <<aplan, amodule>>

(* compile() returns the finished module of the whole pipeline.            *)
AReturn ==
    /\ aphase = "compiling"
    /\ aphase' = "returned"
    /\ amodule' = Pipeline(aplan)
    /\ UNCHANGED aplan

(* compile() throws, or the process aborts; no module is returned.         *)
AFail ==
    /\ aphase = "compiling"
    /\ aphase' \in {"failed", "aborted"}
    /\ UNCHANGED <<aplan, amodule>>

ANext == ABegin \/ AReturn \/ AFail

(* A call of compile() ends: it is synchronous and has no loop that waits. *)
ASpec == AInit /\ [][ANext]_avars /\ WF_avars(AReturn \/ AFail)
=============================================================================
