----------------------------- MODULE LaneThreads -----------------------------
(***************************************************************************)
(* What a warp promises: its lanes behave like independent threads.  Each  *)
(* lane has its own pc and predicate registers and follows the kernel      *)
(* according to its own predicates alone.  That several lanes at the same  *)
(* pc may step together is all that is left of the warp.                   *)
(***************************************************************************)
EXTENDS KernelImage

CONSTANTS Lanes, NumPreds, Kernels

VARIABLES kernel, p, lane_pc

vars == <<kernel, p, lane_pc>>

Returned == -1    \* lane_pc of a lane that executed RET

Init ==
    /\ kernel \in Kernels
    /\ p = [r \in 0 .. NumPreds - 1 |-> [l \in Lanes |-> TRUE]]
    /\ lane_pc = [l \in Lanes |-> 0]

LanesAt(pc) == {l \in Lanes : lane_pc[l] = pc}

Runs(l, inst) == inst.pred = "none" \/ p[inst.pred_id][l] = (inst.pred = "pos")

\* Where a lane goes from instruction pc.
GoesTo(l, pc) ==
    LET inst == kernel.insts[pc]
    IN  IF ~Runs(l, inst) THEN pc + 1
        ELSE IF HasUop(inst, "ret") THEN Returned
        ELSE IF HasUop(inst, "bra") THEN BraTarget(inst)
        ELSE pc + 1

\* Some of the lanes at pc complete the instruction.
Move(pc) ==
    /\ \E S \in SUBSET LanesAt(pc) :
         lane_pc' = [l \in Lanes |-> IF l \in S THEN GoesTo(l, pc) ELSE lane_pc[l]]
    /\ UNCHANGED <<kernel, p>>

\* Lanes at a SETP that run it get a new value in its predicate register.
SetPred(pc) ==
    LET inst == kernel.insts[pc]
        r    == inst.uops[1].arg
    IN  /\ HasUop(inst, "setp") /\ r \in 0 .. NumPreds - 1
        /\ \E S \in SUBSET {l \in LanesAt(pc) : Runs(l, inst)} :
             \E v \in [S -> BOOLEAN] :
               p' = [p EXCEPT ![r] = [l \in Lanes |-> IF l \in S THEN v[l] ELSE @[l]]]
        /\ UNCHANGED <<kernel, lane_pc>>

Next == \E pc \in 0 .. kernel.n - 1 : Move(pc) \/ SetPred(pc)

Spec == Init /\ [][Next]_vars
=============================================================================
