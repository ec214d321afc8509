----------------------------- MODULE KernelImage -----------------------------
(***************************************************************************)
(* Kernels as the SIMT executor sees them: a list of instructions, each    *)
(* expanded by its descriptor into micro-ops, and the control-flow graph   *)
(* that analyze_control_flow builds over them                              *)
(* (src/src/simt/control_flow_analysis.cpp).  PCs are instruction indices  *)
(* 0 .. n - 1; n is the exit node.                                         *)
(*                                                                         *)
(* The second half is the reference definition of post-dominators, by      *)
(* paths of the graph, that the iterative algorithm is compared with.      *)
(***************************************************************************)
EXTENDS Integers, Sequences

NoPc == -1

(* "exec" stands for every micro-op of the execution and memory units that *)
(* leaves the control state of the warp alone.  arg is the target of a BRA *)
(* (NoPc when its operand is no immediate) or the register a SETP writes.  *)
Uops  == [op : {"exec", "setp", "bra", "ret"}, arg : Nat \cup {NoPc}]

Insts == [uops : Seq(Uops), has_desc : BOOLEAN,
          pred : {"none", "pos", "neg"}, pred_id : Nat]

IsImage(k) == k.n \in Nat /\ k.insts \in [0 .. k.n - 1 -> Insts]

-----------------------------------------------------------------------------
(* classify_inst.                                                          *)

UopsAt(inst, op) == {i \in 1 .. Len(inst.uops) : inst.uops[i].op = op}
HasUop(inst, op) == UopsAt(inst, op) # {}

\* The target of the last BRA with an immediate operand, if there is one.
BraTarget(inst) ==
    LET imm == {i \in UopsAt(inst, "bra") : inst.uops[i].arg # NoPc}
    IN  IF imm = {} THEN NoPc
        ELSE inst.uops[CHOOSE i \in imm : \A j \in imm : j <= i].arg

\* A branch that may diverge: these get a reconvergence point.
IsPredBra(inst) == inst.has_desc /\ inst.pred # "none" /\ HasUop(inst, "bra")

-----------------------------------------------------------------------------
(* The CFG.                                                                *)

\* A potentially divergent branch needs a target inside the kernel.
BadTarget(k, pc) ==
    /\ IsPredBra(k.insts[pc]) /\ ~HasUop(k.insts[pc], "ret")
    /\ BraTarget(k.insts[pc]) \notin 0 .. k.n - 1

Succ(k, pc) ==
    LET inst == k.insts[pc]
        t    == BraTarget(inst)
    IN  IF ~inst.has_desc THEN {pc + 1}
        ELSE IF HasUop(inst, "ret") THEN {k.n}
        ELSE IF ~HasUop(inst, "bra") THEN {pc + 1}
        ELSE IF inst.pred # "none" THEN {t, pc + 1}
        ELSE IF t = NoPc THEN {pc + 1}
        ELSE IF t < k.n THEN {t} ELSE {k.n}

-----------------------------------------------------------------------------
(* Reference definitions.                                                  *)

\* Nodes reachable from pc by paths that avoid node m.
ReachAvoiding(k, pc, m) ==
    LET R[j \in Nat] ==
          IF j = 0 THEN {pc} \ {m}
          ELSE R[j - 1] \cup ((UNION {Succ(k, x) : x \in R[j - 1] \ {k.n}}) \ {m})
    IN  R[k.n + 1]

ReachesExit(k, pc) == k.n \in ReachAvoiding(k, pc, NoPc)

\* m lies on every path from pc to the exit.
PostDominates(k, m, pc) == m = pc \/ k.n \notin ReachAvoiding(k, pc, m)

StrictPostDoms(k, pc) == {m \in 0 .. k.n : m # pc /\ PostDominates(k, m, pc)}

\* The strict post-dominator of pc that all others post-dominate.
IsIpdom(k, m, pc) ==
    /\ m \in StrictPostDoms(k, pc)
    /\ \A d \in StrictPostDoms(k, pc) : PostDominates(k, d, m)
-----------------------------------------------------------------------------
(* A kernel with the table of reconvergence points that                    *)
(* analyze_control_flow makes for it.                                      *)

(* A table entry is present wherever analyze_control_flow puts one: at     *)
(* every predicated instruction with a BRA whose descriptor exists.        *)
KernelOK(k) ==
    /\ IsImage(k)
    /\ k.reconv \in [0 .. k.n - 1 -> 0 .. k.n \cup {NoPc}]
    /\ \A pc \in 0 .. k.n - 1 : IsPredBra(k.insts[pc]) => k.reconv[pc] # NoPc

(* The targets have been accepted, and an entry is the immediate           *)
(* post-dominator of every branch from which the exit can be reached.      *)
Analysed(k) ==
    \A pc \in 0 .. k.n - 1 :
      /\ ~BadTarget(k, pc)
      /\ IsPredBra(k.insts[pc]) /\ ReachesExit(k, pc) => IsIpdom(k, k.reconv[pc], pc)
=============================================================================
