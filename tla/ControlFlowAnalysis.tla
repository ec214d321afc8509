------------------------- MODULE ControlFlowAnalysis -------------------------
(***************************************************************************)
(* analyze_control_flow (src/src/simt/control_flow_analysis.cpp), which    *)
(* gives every predicated BRA of a kernel its reconvergence point: build   *)
(* the CFG, iterate the post-dominator sets in place and in index order    *)
(* until a sweep changes nothing, then pick the immediate post-dominator   *)
(* of each predicated BRA.  One action per visit of a node.                *)
(***************************************************************************)
EXTENDS KernelImage, FiniteSets, FiniteSetsExt

CONSTANT Images   \* the kernels to analyse

ASSUME ImagesAssumption == \A k \in Images : IsImage(k)

VARIABLES kernel,   \* the kernel under analysis
          phase,    \* "build", "sweep", "ipdom", "done" or "failed"
          postdom,  \* post-dominator set of every node
          node,     \* node to visit next; n is the end of a pass
          changed,  \* did this sweep change a set?
          iters,    \* sweeps started
          reconv,   \* ControlFlowAnalysisResult::reconv_pc
          diag      \* ControlFlowAnalysisResult::diag

vars == <<kernel, phase, postdom, node, changed, iters, reconv, diag>>

Nodes    == 0 .. kernel.n
ExitNode == kernel.n
MaxIters == 4 * (kernel.n + 1) + 64

Init ==
    /\ kernel \in Images
    /\ phase = "build"
    /\ postdom = [i \in 0 .. kernel.n |-> IF i = kernel.n THEN {i} ELSE 0 .. kernel.n]
    /\ node = kernel.n /\ changed = TRUE /\ iters = 0
    /\ reconv = [pc \in 0 .. kernel.n - 1 |-> NoPc]
    /\ diag = "none"

Fail(d) == /\ phase' = "failed" /\ diag' = d
           /\ UNCHANGED <<kernel, postdom, node, changed, reconv>>

BuildCfg ==
    /\ phase = "build"
    /\ IF \E pc \in 0 .. kernel.n - 1 : BadTarget(kernel, pc)
       THEN Fail("E_RECONV_INVALID") /\ UNCHANGED iters
       ELSE /\ phase' = "sweep"
            /\ UNCHANGED <<kernel, postdom, node, changed, iters, reconv, diag>>

StartSweep ==
    /\ phase = "sweep" /\ node = ExitNode /\ changed
    /\ iters' = iters + 1
    /\ IF iters' > MaxIters
       THEN Fail("E_RECONV_INVALID")
       ELSE /\ changed' = FALSE /\ node' = 0
            /\ UNCHANGED <<kernel, phase, postdom, reconv, diag>>

\* {i} and what all successors of i agree on; the CFG leaves no node but the
\* exit without a successor.
NewSet(i) == {i} \cup {m \in Nodes : \A s \in Succ(kernel, i) : m \in postdom[s]}

\* Mutant: only the last node of a sweep decides whether it changed anything.
VisitNodeForgets ==
    /\ phase = "sweep" /\ node < ExitNode
    /\ postdom' = [postdom EXCEPT ![node] = NewSet(node)]
    /\ changed' = (NewSet(node) # postdom[node])
    /\ node' = node + 1
    /\ UNCHANGED <<kernel, phase, iters, reconv, diag>>

VisitNode ==
    /\ phase = "sweep" /\ node < ExitNode
    /\ postdom' = [postdom EXCEPT ![node] = NewSet(node)]
    /\ changed' = (changed \/ NewSet(node) # postdom[node])
    /\ node' = node + 1
    /\ UNCHANGED <<kernel, phase, iters, reconv, diag>>

EndSweeps ==
    /\ phase = "sweep" /\ node = ExitNode /\ ~changed
    /\ phase' = "ipdom" /\ node' = 0
    /\ UNCHANGED <<kernel, postdom, changed, iters, reconv, diag>>

\* Mutant: the exit is no reconvergence point.
CandidatesInside(pc) == postdom[pc] \ {pc, ExitNode}

Candidates(pc) == postdom[pc] \ {pc}

\* Mutant: the test is turned round and finds the furthest candidate.
ImmediatesFurthest(pc) ==
    {c \in Candidates(pc) : \A d \in Candidates(pc) \ {c} : d \notin postdom[c]}

\* Candidates that post-dominate no other candidate.
Immediates(pc) ==
    {c \in Candidates(pc) : \A d \in Candidates(pc) \ {c} : c \notin postdom[d]}

FindIpdom ==
    /\ phase = "ipdom" /\ node < ExitNode
    /\ IF IsPredBra(kernel.insts[node]) /\ Immediates(node) = {}
       THEN Fail("E_RECONV_MISS") /\ UNCHANGED iters
       ELSE /\ reconv' = IF IsPredBra(kernel.insts[node])
                         THEN [reconv EXCEPT ![node] = Min(Immediates(node))]
                         ELSE reconv
            /\ node' = node + 1
            /\ UNCHANGED <<kernel, phase, postdom, changed, iters, diag>>

Finish ==
    /\ phase = "ipdom" /\ node = ExitNode
    /\ phase' = "done"
    /\ UNCHANGED <<kernel, postdom, node, changed, iters, reconv, diag>>

Terminated == phase \in {"done", "failed"} /\ UNCHANGED vars

Next == BuildCfg \/ StartSweep \/ VisitNode \/ EndSweeps \/ FindIpdom \/ Finish \/ Terminated

Spec == Init /\ [][Next]_vars

-----------------------------------------------------------------------------
(* Properties.                                                             *)

(* When the in-place iteration stops, the set of every node is exactly the *)
(* set of nodes on all of its paths to the exit: stopping after an         *)
(* unchanged sweep loses nothing and the visiting order does not matter.   *)
FixpointIsPostDominance ==
    phase = "ipdom" =>
      \A pc \in Nodes : postdom[pc] = {m \in Nodes : PostDominates(kernel, m, pc)}

(* The reconvergence point found for a predicated BRA that can reach the   *)
(* exit is its immediate post-dominator, the first point that all its      *)
(* paths share.                                                            *)
ReconvIsIpdom ==
    \A pc \in 0 .. kernel.n - 1 :
      reconv[pc] # NoPc /\ ReachesExit(kernel, pc) => IsIpdom(kernel, reconv[pc], pc)

(* The analysis accepts a kernel with valid branch targets whenever each   *)
(* of its predicated BRAs can reach the exit, and then leaves no such BRA  *)
(* without a reconvergence point: the executor never meets E_RECONV_MISS.  *)
(* The guard against an iteration that does not converge never fires: a    *)
(* kernel of n instructions is done after at most n + 2 sweeps.            *)
AcceptsExitingKernels ==
    /\ iters <= kernel.n + 2
    /\ diag = "E_RECONV_MISS" =>
         \E pc \in 0 .. kernel.n - 1 :
           IsPredBra(kernel.insts[pc]) /\ ~ReachesExit(kernel, pc)
    /\ phase = "done" =>
         \A pc \in 0 .. kernel.n - 1 :
           IsPredBra(kernel.insts[pc]) <=> reconv[pc] # NoPc
=============================================================================
