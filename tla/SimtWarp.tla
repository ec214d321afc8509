------------------------------ MODULE SimtWarp ------------------------------
(***************************************************************************)
(* One warp executed by SimtExecutor::run (src/src/simt/simt.cpp): the     *)
(* SIMT stack, the lanes that have returned, and the instruction the warp  *)
(* is in.  Warps of a CTA share no state of this module, so one warp is    *)
(* the whole component.                                                    *)
(*                                                                         *)
(* A kernel is its instruction list (module KernelImage) and the table of  *)
(* reconvergence points that analyze_control_flow computed for it (module  *)
(* ControlFlowAnalysis).                                                   *)
(* Register and memory contents are abstracted away: what they decide here *)
(* is the value SETP writes to a lane's predicate, and whether an          *)
(* execution or memory micro-op faults.                                    *)
(***************************************************************************)
EXTENDS KernelImage, FiniteSets

CONSTANTS Lanes,     \* the lanes that are active when the warp starts
          NumPreds,  \* predicate registers per lane (8 in the code)
          Kernels    \* the kernels the warp may be launched with

VARIABLES kernel,   \* the kernel that was launched, never changed
          stack,    \* WarpState::simt_stack, top frame last
          exited,   \* WarpState::exited
          p,        \* WarpState::p, the predicate registers of every lane
          phase,    \* where in the instruction loop the warp is
          guard,    \* guard of the instruction's micro-ops
          ui,       \* index of the micro-op to execute next
          next_pc,  \* next_pc as set by the micro-ops so far, or NoPc
          split,    \* the pending split, or NoSplit
          diag      \* the diagnostic that ended the run, or NoDiag

vars == <<kernel, stack, exited, p, phase, guard, ui, next_pc, split, diag>>

instVars == <<guard, ui, next_pc, split>>

-----------------------------------------------------------------------------
(* Types.                                                                  *)

PCs     == Nat
Preds   == 0 .. NumPreds - 1
NoDiag  == "none"
Diags   == {"E_RECONV_INVALID", "E_PC_OOB", "E_DESC_MISS", "E_PRED_OOB",
            "E_RECONV_MISS", "E_NEXT_PC_CONFLICT", "E_UNIT"}
Phases  == {"normalize", "fetch", "uops", "done", "failed"}

Frames  == [pc : PCs, active : SUBSET Lanes, reconv_pc : PCs, is_join : BOOLEAN]
Splits  == [target_pc : PCs, reconv_pc : PCs,
            taken : SUBSET Lanes, fallthrough : SUBSET Lanes]
NoSplit == [target_pc |-> 0, reconv_pc |-> 0, taken |-> {}, fallthrough |-> {}]

(* SimtExecutor::run runs what analyze_control_flow accepts, with the      *)
(* table that it returns.                                                  *)
ASSUME KernelsAssumption == \A k \in Kernels : KernelOK(k)

ASSUME TablesAssumption == \A k \in Kernels : Analysed(k)

ASSUME NumPredsAssumption == NumPreds \in Nat

\* A CTA has as many warps as its threads fill, so none starts without a lane.
ASSUME LanesAssumption == IsFiniteSet(Lanes) /\ Lanes # {}

-----------------------------------------------------------------------------
(* Helpers.                                                                *)

Top    == stack[Len(stack)]
Pop(s) == SubSeq(s, 1, Len(s) - 1)
Inst   == kernel.insts[Top.pc]
Uop    == Inst.uops[ui]

\* Mutant: the lanes that returned are not masked out.
LiveUnmasked == Top.active

\* Lanes of the top frame that are still running.
Live == Top.active \ exited

\* The join frames of s that wait at pc.
JoinsAt(s, pc) == {j \in 1 .. Len(s) : s[j].is_join /\ s[j].pc = pc}

\* Does the instruction's predicate enable lane l?
EnabledFor(l) == p[Inst.pred_id][l] = (Inst.pred = "pos")

PredOob == Inst.pred # "none" /\ Inst.pred_id \notin Preds

\* Lanes the current micro-op executes for.
ExecMask == Top.active \cap guard

\* Lanes the current micro-op's guard turns off.
OffMask == Top.active \ guard

Fail(d) == /\ phase' = "failed"
           /\ diag' = d
           /\ UNCHANGED <<kernel, exited, guard, ui, next_pc, split>>

-----------------------------------------------------------------------------
Init ==
    /\ kernel \in Kernels
    /\ stack = <<[pc |-> 0, active |-> Lanes, reconv_pc |-> kernel.n, is_join |-> FALSE]>>
    /\ exited = {}
    /\ p = [r \in Preds |-> [l \in Lanes |-> TRUE]]
    /\ phase = "normalize"
    /\ guard = {} /\ ui = 1 /\ next_pc = NoPc /\ split = NoSplit
    /\ diag = NoDiag

(* normalize_stack, one action per way through its loop body.  Each pass   *)
(* first drops the lanes that returned from the top frame.                 *)

\* No frame left: every path has ended.
FinishWarp ==
    /\ phase = "normalize" /\ stack = <<>>
    /\ phase' = "done"
    /\ UNCHANGED <<kernel, stack, exited, p, diag>> /\ UNCHANGED instVars

\* Mutant: the loop goes on without popping the frame.
PopEmptyStays ==
    /\ phase = "normalize" /\ stack # <<>>
    /\ Live = {}
    /\ UNCHANGED vars

\* A path, or a join nobody arrived at, has no lane left.
PopEmpty ==
    /\ phase = "normalize" /\ stack # <<>>
    /\ Live = {}
    /\ stack' = Pop(stack)
    /\ UNCHANGED <<kernel, exited, p, phase, diag>> /\ UNCHANGED instVars

\* A join frame reaches the top and becomes an executable path.
ResumeJoin ==
    /\ phase = "normalize" /\ stack # <<>>
    /\ Live # {} /\ Top.is_join
    /\ stack' = [stack EXCEPT ![Len(stack)].active = Live, ![Len(stack)].is_join = FALSE]
    /\ phase' = "fetch"
    /\ UNCHANGED <<kernel, exited, p, diag>> /\ UNCHANGED instVars

AtReconv == /\ phase = "normalize" /\ stack # <<>>
            /\ Live # {} /\ ~Top.is_join
            /\ Top.pc = Top.reconv_pc

\* Mutant: the lanes that arrive replace those that already wait.
MergeReplaces ==
    /\ AtReconv
    /\ \E j \in JoinsAt(Pop(stack), Top.pc) :
         /\ \A k \in JoinsAt(Pop(stack), Top.pc) : k <= j
         /\ stack' = [Pop(stack) EXCEPT ![j].active = Live]
    /\ UNCHANGED <<kernel, exited, p, phase, diag>> /\ UNCHANGED instVars

\* A path arrives at its reconvergence point: its lanes move to the nearest
\* join frame that waits there.
MergeAtReconv ==
    /\ AtReconv
    /\ \E j \in JoinsAt(Pop(stack), Top.pc) :
         /\ \A k \in JoinsAt(Pop(stack), Top.pc) : k <= j
         /\ stack' = [Pop(stack) EXCEPT ![j].active = @ \cup Live]
    /\ UNCHANGED <<kernel, exited, p, phase, diag>> /\ UNCHANGED instVars

\* No join waits there; the frame has already been popped.
MergeMiss ==
    /\ AtReconv
    /\ JoinsAt(Pop(stack), Top.pc) = {}
    /\ stack' = Pop(stack)
    /\ Fail("E_RECONV_INVALID")
    /\ UNCHANGED p

\* The top frame is a path that can execute its next instruction.
SelectPath ==
    /\ phase = "normalize" /\ stack # <<>>
    /\ Live # {} /\ ~Top.is_join /\ Top.pc # Top.reconv_pc
    /\ stack' = [stack EXCEPT ![Len(stack)].active = Live]
    /\ phase' = "fetch"
    /\ UNCHANGED <<kernel, exited, p, diag>> /\ UNCHANGED instVars

-----------------------------------------------------------------------------
(* Fetch, descriptor lookup and instruction-level predication.             *)

FetchFault ==
    /\ phase = "fetch"
    /\ \/ Top.pc >= kernel.n /\ Fail("E_PC_OOB")
       \/ Top.pc < kernel.n /\ ~Inst.has_desc /\ Fail("E_DESC_MISS")
       \/ Top.pc < kernel.n /\ Inst.has_desc /\ PredOob /\ Fail("E_PRED_OOB")
    /\ UNCHANGED <<stack, p>>

Fetch ==
    /\ phase = "fetch"
    /\ Top.pc < kernel.n /\ Inst.has_desc /\ ~PredOob
    /\ guard' = IF Inst.pred = "none" THEN Lanes ELSE {l \in Top.active : EnabledFor(l)}
    /\ ui' = 1 /\ next_pc' = NoPc /\ split' = NoSplit
    /\ phase' = "uops"
    /\ UNCHANGED <<kernel, stack, exited, p, diag>>

-----------------------------------------------------------------------------
(* The micro-op loop, one action per micro-op.                             *)

AtUop(op) == phase = "uops" /\ ui <= Len(Inst.uops) /\ Uop.op = op

UopExec ==
    /\ AtUop("exec")
    /\ ui' = ui + 1
    /\ UNCHANGED <<kernel, stack, exited, p, phase, guard, next_pc, split, diag>>

\* SETP compares register values, which this module leaves open, for the
\* lanes in S and writes its predicate register.
SetpWrites(S) ==
    \E v \in [S -> BOOLEAN] :
      p' = [p EXCEPT ![Uop.arg] = [l \in Lanes |-> IF l \in S THEN v[l] ELSE @[l]]]

UopSetp ==
    /\ AtUop("setp") /\ Uop.arg \in Preds
    /\ SetpWrites(ExecMask)
    /\ ui' = ui + 1
    /\ UNCHANGED <<kernel, stack, exited, phase, guard, next_pc, split, diag>>

\* An execution or memory unit reports a diagnostic.  SETP walks its lanes in
\* order, so the lanes before the faulty one have been written.
UopFault ==
    /\ \/ AtUop("exec") /\ UNCHANGED p
       \/ AtUop("setp") /\ Uop.arg \notin Preds /\ UNCHANGED p
       \/ AtUop("setp") /\ Uop.arg \in Preds
          /\ \E S \in SUBSET ExecMask : (S = {} \/ S # ExecMask) /\ SetpWrites(S)
    /\ Fail("E_UNIT")
    /\ UNCHANGED stack

UopRet ==
    /\ AtUop("ret")
    /\ exited' = exited \cup ExecMask
    /\ stack' = [stack EXCEPT ![Len(stack)].active = @ \ guard]
    /\ ui' = ui + 1
    /\ UNCHANGED <<kernel, p, phase, guard, next_pc, split, diag>>

\* Mutants: a predicated branch splits even if no lane falls through; the
\* table is read at the next pc.
DivergentIfPredicated == ExecMask # {} /\ Inst.pred # "none"
ReconvMissOffByOne    == ExecMask # {} /\ OffMask # {}
                         /\ (Top.pc + 1 >= kernel.n \/ kernel.reconv[Top.pc + 1] = NoPc)

Divergent  == ExecMask # {} /\ OffMask # {}
ReconvMiss == Divergent /\ kernel.reconv[Top.pc] = NoPc
Conflict   == next_pc # NoPc /\ next_pc # Uop.arg

\* The control unit sets no next_pc when no lane takes the branch.
UopBraOff ==
    /\ AtUop("bra")
    /\ ExecMask = {}
    /\ ui' = ui + 1
    /\ UNCHANGED <<kernel, stack, exited, p, phase, guard, next_pc, split, diag>>

UopBra ==
    /\ AtUop("bra")
    /\ ExecMask # {} /\ Uop.arg # NoPc /\ ~ReconvMiss /\ ~Conflict
    /\ split' = IF Divergent
                THEN [target_pc |-> Uop.arg, reconv_pc |-> kernel.reconv[Top.pc],
                      taken |-> ExecMask, fallthrough |-> OffMask]
                ELSE split
    /\ next_pc' = Uop.arg
    /\ ui' = ui + 1
    /\ UNCHANGED <<kernel, stack, exited, p, phase, guard, diag>>

\* The target is no immediate, the divergence has no reconvergence point, or
\* an earlier micro-op of the instruction chose another target.
UopBraFault ==
    /\ AtUop("bra")
    /\ ExecMask # {}
    /\ Uop.arg = NoPc \/ ReconvMiss \/ Conflict
    /\ Fail(IF Uop.arg = NoPc THEN "E_UNIT"
            ELSE IF ReconvMiss THEN "E_RECONV_MISS" ELSE "E_NEXT_PC_CONFLICT")
    /\ UNCHANGED <<stack, p>>

-----------------------------------------------------------------------------
(* Commit: replace the path by a join and two paths, or advance its pc.    *)

\* Mutants: the fall-through path keeps all lanes; the join forgets the outer
\* reconvergence point; the masks of the paths are swapped; the taken path
\* runs to the outer reconvergence point.
SplitFramesOf(join_reconv, fall, taken, taken_reconv) ==
    <<[pc |-> split.reconv_pc, active |-> {}, reconv_pc |-> join_reconv, is_join |-> TRUE],
      [pc |-> Top.pc + 1, active |-> fall, reconv_pc |-> split.reconv_pc, is_join |-> FALSE],
      [pc |-> split.target_pc, active |-> taken, reconv_pc |-> taken_reconv, is_join |-> FALSE]>>
SplitFramesAllFall ==
    SplitFramesOf(Top.reconv_pc, Top.active, split.taken, split.reconv_pc)
SplitFramesJoinInner ==
    SplitFramesOf(split.reconv_pc, split.fallthrough, split.taken, split.reconv_pc)
SplitFramesSwapped ==
    SplitFramesOf(Top.reconv_pc, split.taken, split.fallthrough, split.reconv_pc)
SplitFramesOuter ==
    SplitFramesOf(Top.reconv_pc, split.fallthrough, split.taken, Top.reconv_pc)

SplitFrames ==
    <<[pc |-> split.reconv_pc, active |-> {},
       reconv_pc |-> Top.reconv_pc, is_join |-> TRUE],
      [pc |-> Top.pc + 1, active |-> split.fallthrough,
       reconv_pc |-> split.reconv_pc, is_join |-> FALSE],
      [pc |-> split.target_pc, active |-> split.taken,
       reconv_pc |-> split.reconv_pc, is_join |-> FALSE]>>

AtCommit == phase = "uops" /\ ui > Len(Inst.uops)

CommitSplit ==
    /\ AtCommit
    /\ split # NoSplit
    /\ stack' = Pop(stack) \o SplitFrames
    /\ phase' = "normalize"
    /\ UNCHANGED <<kernel, exited, p, diag>> /\ UNCHANGED instVars

CommitAdvance ==
    /\ AtCommit
    /\ split = NoSplit
    /\ stack' = [stack EXCEPT ![Len(stack)].pc =
                   IF next_pc # NoPc THEN next_pc ELSE @ + 1]
    /\ phase' = "normalize"
    /\ UNCHANGED <<kernel, exited, p, diag>> /\ UNCHANGED instVars

-----------------------------------------------------------------------------
Normalize == \/ FinishWarp \/ PopEmpty \/ ResumeJoin
             \/ MergeAtReconv \/ MergeMiss \/ SelectPath

Execute == \/ Fetch \/ FetchFault
           \/ UopExec \/ UopSetp \/ UopFault \/ UopRet
           \/ UopBraOff \/ UopBra \/ UopBraFault
           \/ CommitSplit \/ CommitAdvance

\* The run is over: the warp is done or a diagnostic ended it.
Terminated == phase \in {"done", "failed"} /\ UNCHANGED vars

Next == Normalize \/ Execute \/ Terminated

Spec == Init /\ [][Next]_vars

\* The executor thread keeps stepping the warp until it is done or failed.
FairSpec == Spec /\ WF_vars(Normalize \/ Execute)

-----------------------------------------------------------------------------
(* Properties.                                                             *)

(* Every variable of the warp keeps its type.                              *)
TypeOK ==
    /\ kernel \in Kernels
    /\ stack \in Seq(Frames)
    /\ exited \in SUBSET Lanes
    /\ p \in [Preds -> [Lanes -> BOOLEAN]]
    /\ phase \in Phases
    /\ guard \in SUBSET Lanes
    /\ ui \in Nat \ {0}
    /\ next_pc \in PCs \cup {NoPc}
    /\ split \in Splits
    /\ diag \in Diags \cup {NoDiag}

(* A lane that has not returned is on one path at a time: splits and       *)
(* merges never put a lane into two frames of the SIMT stack.              *)
NoLaneDuplicated ==
    \A i, j \in 1 .. Len(stack) :
      i # j => stack[i].active \cap stack[j].active \subseteq exited

(* No split, merge or pop loses a lane: as long as the run has not failed, *)
(* each lane is in some frame or has returned.                             *)
NoLaneLost ==
    phase # "failed" =>
      \A l \in Lanes : l \in exited \/ \E i \in 1 .. Len(stack) : l \in stack[i].active

(* The warp is done only when every lane has executed RET.                 *)
DoneMeansAllReturned == phase = "done" => exited = Lanes

(* A frame that is to reconverge before the exit has the join frame it     *)
(* will merge into further down the stack, still waiting.                  *)
JoinWaitsBelow ==
    \A i \in 1 .. Len(stack) :
      \/ stack[i].reconv_pc = kernel.n
      \/ \E j \in JoinsAt(stack, stack[i].reconv_pc) : j < i

(* Only a path that runs off the end of the kernel can find no join frame  *)
(* (E_RECONV_INVALID), and a divergent BRA always has its reconvergence    *)
(* point (no E_RECONV_MISS): no well-terminated kernel fails on either.    *)
ReconvDiagsOnlyAtExit ==
    /\ AtReconv /\ JoinsAt(Pop(stack), Top.pc) = {} => Top.pc = kernel.n
    /\ diag # "E_RECONV_MISS"

(* However often a loop diverges, the SIMT stack stays within one join and *)
(* one path frame for each lane that can be split off.                     *)
StackBounded == Len(stack) <= 2 * Cardinality(Lanes) - 1

\* No instruction runs for part of the lanes at a point where a join frame
\* still waits to collect them.  With nested joins at one pc it may.
ReconvergesBeforeExecuting ==
    phase \in {"fetch", "uops"} => JoinsAt(stack, Top.pc) = {}

\* Control only moves forward in the kernel.
LoopFree(k) == \A pc \in 0 .. k.n - 1 : \A i \in UopsAt(k.insts[pc], "bra") :
                 k.insts[pc].uops[i].arg > pc \/ k.insts[pc].uops[i].arg = NoPc

\* No branch is inside another one that has the same reconvergence point.
DistinctJoins(k) ==
    LoopFree(k) /\ \A a, b \in {pc \in 0 .. k.n - 1 : IsPredBra(k.insts[pc])} :
                     a # b => k.reconv[a] # k.reconv[b]

(* Where nested branches have different reconvergence points, lanes do     *)
(* meet at the join before anything runs there: a path is never resumed at *)
(* a pc for which normalize_stack still keeps a join frame.                *)
DistinctJoinsReconverge == DistinctJoins(kernel) => ReconvergesBeforeExecuting

(* RET is final: a lane that returned stays returned, and no later         *)
(* micro-op of the warp executes for it.                                   *)
ReturnedLanesFrozen ==
    [][\A l \in exited :
         /\ l \in exited'
         /\ \A r \in Preds : p'[r][l] = p[r][l]]_vars

(* A warp of a kernel without backward branches ends, whatever its lanes'  *)
(* predicates: neither normalize_stack nor the instruction loop spins.     *)
LoopFreeWarpEnds == LoopFree(kernel) ~> phase \in {"done", "failed"}
=============================================================================
