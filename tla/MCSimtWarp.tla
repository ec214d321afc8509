----------------------------- MODULE MCSimtWarp -----------------------------
(***************************************************************************)
(* Kernels for model checking SimtWarp.  Their reconvergence tables are    *)
(* the immediate post-dominators, which is what ControlFlowAnalysis is     *)
(* checked to compute.                                                     *)
(***************************************************************************)
EXTENDS SimtWarpRefinement

I(op, arg)          == [uops |-> <<[op |-> op, arg |-> arg]>>, has_desc |-> TRUE,
                        pred |-> "none", pred_id |-> 0]
At(inst, pred, r)   == [inst EXCEPT !.pred = pred, !.pred_id = r]
Both(inst, op, arg) == [inst EXCEPT !.uops = Append(@, [op |-> op, arg |-> arg])]

Exec      == I("exec", NoPc)
Ret       == I("ret", NoPc)
Setp(r)   == I("setp", r)
Bra(t)    == I("bra", t)
If(r, t)  == At(Bra(t), "pos", r)
Ifn(r, t) == At(Bra(t), "neg", r)

Kernel(code) ==
    LET k == [n |-> Len(code), insts |-> [pc \in 0 .. Len(code) - 1 |-> code[pc + 1]]]
    IN  [n |-> k.n, insts |-> k.insts,
         reconv |-> [pc \in 0 .. k.n - 1 |->
                       IF IsPredBra(k.insts[pc])
                       THEN CHOOSE m \in 0 .. k.n : IsIpdom(k, m, pc) ELSE NoPc]]

\* if/else: both sides meet at 5.
Diamond == Kernel(<<Setp(0), If(0, 4), Exec, Bra(5), Exec, Ret>>)
\* Two nested ifs with different reconvergence points, 5 and 6.
NestedIf == Kernel(<<Setp(0), Ifn(0, 6), Setp(1), If(1, 5), Exec, Exec, Ret>>)
\* Two nested ifs that end at the same point, 5.
SharedJoin == Kernel(<<Setp(0), Ifn(0, 5), Setp(1), If(1, 5), Exec, Exec, Ret>>)
\* Lanes leave the loop 0-2 in different iterations.
Loop == Kernel(<<Setp(0), Exec, If(0, 0), Exec, Ret>>)
\* An if inside a loop.
LoopIf == Kernel(<<Setp(0), If(0, 3), Exec, Setp(1), If(1, 0), Ret>>)
\* Some lanes return while others go on; @p0 SETP p0 writes its own guard.
EarlyRet == Kernel(<<Setp(0), If(0, 4), At(Ret, "neg", 0), Exec,
                     At(Setp(0), "pos", 0), At(Ret, "pos", 0), Ret>>)
\* Two BRAs in one instruction, and a BRA with a RET in either order.
TwoBras   == Kernel(<<Setp(0), Both(If(0, 3), "bra", 2), Ret, Ret>>)
SameBras  == Kernel(<<Setp(0), Both(If(0, 3), "bra", 3), Exec, Ret>>)
BraRet    == Kernel(<<Setp(0), Both(If(0, 0), "ret", NoPc), Exec, Ret>>)
RetBra    == Kernel(<<Setp(0), Both(At(Ret, "pos", 0), "bra", 0), Exec, Ret>>)
\* Control errors: off the end on one path or all, a bad target, a branch
\* without target, a missing descriptor, predicate ids out of range.
OffEnd    == Kernel(<<Setp(0), If(0, 3), Ret, Exec>>)
Empty     == Kernel(<<>>)
FarBra    == Kernel(<<Setp(0), If(0, 3), Bra(9), Ret>>)
NoTarget  == Kernel(<<Bra(NoPc), Ret>>)
NoDesc    == Kernel(<<[Exec EXCEPT !.has_desc = FALSE], Ret>>)
PredOob1  == Kernel(<<At(Exec, "pos", 7), Ret>>)
PredOob2  == Kernel(<<Setp(7), Ret>>)

Structured == {Diamond, NestedIf, EarlyRet, SameBras, OffEnd, FarBra}
Faulty     == {Empty, NoTarget, NoDesc, PredOob1, PredOob2, TwoBras}

\* A divergent branch inside another one with the same reconvergence point.
Nested     == {SharedJoin, Loop}

MCKernels == Structured \cup Faulty \cup Nested \cup {LoopIf, BraRet, RetBra}
=============================================================================
