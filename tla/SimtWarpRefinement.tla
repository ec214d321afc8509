-------------------------- MODULE SimtWarpRefinement --------------------------
(***************************************************************************)
(* The SIMT stack implements independent lanes: SimtWarp refines           *)
(* LaneThreads, a lane's pc being the pc of the frame that holds it.       *)
(***************************************************************************)
EXTENDS SimtWarp

(* As in every descriptor the repository ships, a SETP is the only         *)
(* micro-op of its instruction.                                            *)
ASSUME SetpAlone ==
    \A k \in Kernels : \A pc \in 0 .. k.n - 1 :
      HasUop(k.insts[pc], "setp") => Len(k.insts[pc].uops) = 1

(* A lane in no frame has run off the end of the kernel: normalize_stack   *)
(* pops its frame before it reports E_RECONV_INVALID.                      *)
LanePc ==
    [l \in Lanes |->
       LET holders == {i \in 1 .. Len(stack) : l \in stack[i].active}
       IN  IF l \in exited THEN -1
           ELSE IF holders = {} THEN kernel.n
           ELSE stack[CHOOSE i \in holders : TRUE].pc]

LT == INSTANCE LaneThreads WITH lane_pc <- LanePc

(* Divergence and reconvergence are invisible to a lane: whatever the      *)
(* stack does, each lane starts at instruction 0, follows the kernel by    *)
(* its own predicates and never runs an instruction it does not reach.     *)
LanesAreThreads == LT!Spec
=============================================================================
