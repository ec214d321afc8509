------------------------------ MODULE ExecCore ------------------------------
(***************************************************************************)
(* ExecCore::step (src/src/units/exec_core.cpp): the arithmetic micro-ops  *)
(* on the register files of a warp, lane after lane, and the loads and     *)
(* stores of MemUnit::step (src/src/units/mem_unit.cpp) that need no       *)
(* allocated memory: parameters and the thread's own local memory.         *)
(*                                                                         *)
(* A warp is a record of r_u32 and r_u64, from the index of a register and *)
(* lane to a value (registers never written read as zero), p, the          *)
(* predicates, and local, the local memory of each lane.  The widths of    *)
(* the registers are parameters; floating-point operations are parameters  *)
(* on bit patterns.  The lanes of a warp are 0 .. WarpSize - 1.            *)
(***************************************************************************)
EXTENDS Integers, Sequences, SequencesExt, TLC

CONSTANTS Bits32, Bits64,  \* the widths of the registers: 32 and 64
          WarpSize,        \* lanes of the warp, at most Bits32
          PredCount,       \* predicate registers
          FAdd(_, _), FMul(_, _), FFma(_, _, _), FOfU32(_) \* f32 arithmetic

Word32 == 2 ^ Bits32
Word64 == 2 ^ Bits64

ASSUME ExecCoreAssumption ==
    /\ {Bits32, Bits64, WarpSize, PredCount} \subseteq Nat \ {0}
    /\ WarpSize <= Bits32 /\ Bits32 <= Bits64

Lanes   == 0 .. WarpSize - 1
LaneSeq == [i \in 1 .. WarpSize |-> i - 1]

\* A function that is 0 where it is not defined.
At0(f, i) == IF i \in DOMAIN f THEN f[i] ELSE 0

\* WarpState as a launch creates it.
NewWarp == [r_u32 |-> <<>>, r_u64 |-> <<>>, local |-> <<>>,
            p |-> [i \in 0 .. PredCount * WarpSize - 1 |-> TRUE]]

-----------------------------------------------------------------------------
(* Registers and operands.                                                 *)

Is64(type)  == type \in {"u64", "s64"}
Signed(type) == type \in {"s32", "s64"}

RegLaneIndex(id, lane) == id * WarpSize + lane

ReadRegLane(w, o, lane) ==
    At0(IF Is64(o.type) THEN w.r_u64 ELSE w.r_u32, RegLaneIndex(o.id, lane))

WriteRegLane(w, o, lane, v) ==
    LET i == RegLaneIndex(o.id, lane)
    IN  IF Is64(o.type) THEN [w EXCEPT !.r_u64 = (i :> v % Word64) @@ @]
                        ELSE [w EXCEPT !.r_u32 = (i :> v % Word32) @@ @]

\* The grid is one block, the block one row of WarpSize threads, one warp.
ReadSpecial(name, lane) ==
    CASE name \in {<<"l", "aneid">>, <<"t", "id", "x">>} -> lane
      [] name = <<"n", "tid", "x">>                      -> WarpSize
      [] name[1] = "n"                                   -> 1
      [] OTHER                                           -> 0

\* Operands of other kinds read as zero.
ReadOperandLane(w, o, lane) ==
    CASE o.kind = "imm"     -> o.off % Word64
      [] o.kind = "reg"     -> ReadRegLane(w, o, lane)
      [] o.kind = "special" -> ReadSpecial(o.name, lane)
      [] OTHER              -> 0

Low32(v) == v % Word32
AsSigned(v) == IF Low32(v) >= Word32 \div 2 THEN Low32(v) - Word32 ELSE Low32(v)

-----------------------------------------------------------------------------
(* The value a lane computes from its inputs a and b.                      *)

AddValue(type, a, b) == IF type = "f32" THEN FAdd(Low32(a), Low32(b)) ELSE a + b

\* The product of the low halves, whatever the type.
MulValue(type, a, b) ==
    IF type = "f32" THEN FMul(Low32(a), Low32(b))
    ELSE IF Signed(type) THEN AsSigned(a) * AsSigned(b)
    ELSE Low32(a) * Low32(b)

\* The count is taken modulo the width of the type or of the destination.
ShlValue(type, out, a, b) ==
    IF Is64(type) \/ Is64(out.type)
    THEN a * 2 ^ (Low32(b) % Bits64)
    ELSE Low32(a) * 2 ^ (Low32(b) % Bits32)

Compares == {"lt", "le", "gt", "ge", "eq", "ne"}

Holds(cmp, a, b) == CASE cmp = "lt" -> a < b  [] cmp = "le" -> a <= b
                      [] cmp = "gt" -> a > b  [] cmp = "ge" -> a >= b
                      [] cmp = "eq" -> a = b  [] cmp = "ne" -> a # b

\* Two halves are compared, whatever the type; without a flag it is lt.
Compared(type, flags, a, b) ==
    LET cmp    == IF flags \cap Compares = {} THEN "lt"
                  ELSE CHOOSE c \in flags \cap Compares : TRUE
        Val(v) == IF Signed(type) THEN AsSigned(v) ELSE Low32(v)
    IN  Holds(cmp, Val(a), Val(b))

-----------------------------------------------------------------------------
(* SHFL.                                                                   *)

\* shfl_width_from_clamp; a clamp operand stands for its bits 8 to 12.
ShflWidth(clamp) == Bits32 - (clamp % Bits32)

ShflSource(flags, lane, arg, width) ==
    LET base == lane - (lane % width)
        d    == arg % Bits32
    IN  IF "idx" \in flags THEN base + (d % width)
        ELSE IF lane - base + d < width THEN lane + d ELSE lane

InMask(mask, lane) == (mask \div 2 ^ lane) % 2 = 1

\* What a lane receives: the source lane's value if both are members.
ShflLane(uop, w, lane) ==
    LET In(i) == ReadOperandLane(w, uop.inputs[i], lane)
        src   == ShflSource(uop.flags, lane, Low32(In(2)), ShflWidth(Low32(In(3))))
        mask  == Low32(In(4))
    IN  IF InMask(mask, lane) /\ src \in Lanes /\ InMask(mask, src)
        THEN ReadOperandLane(w, uop.inputs[1], src) ELSE In(1)

-----------------------------------------------------------------------------
(* The step of a unit: the warp after it, or a diagnostic.                 *)

Ok(w)      == [diag |-> "none", warp |-> w]
Fail(d, w) == [diag |-> d, warp |-> w]

Arity == [op \in {"MOV", "CVT", "ADD", "MUL", "SHL", "SHFL", "FMA",
                  "WARP_REDUCE_ADD", "SETP", "LD"} |->
            CASE op \in {"ADD", "MUL", "SHL", "SETP"} -> 2 [] op = "SHFL" -> 4
              [] op = "FMA" -> 3 [] OTHER -> 1]

\* What is refused before any lane is served.
UopDiag(uop) ==
    IF uop.op = "ST" THEN IF Len(uop.inputs) = 2 /\ uop.outputs = <<>> THEN "none" ELSE "E_UOP_ARITY"
    ELSE IF uop.op \notin DOMAIN Arity THEN "E_UOP_UNSUPPORTED"
    ELSE IF Len(uop.outputs) # 1 \/ Len(uop.inputs) # Arity[uop.op] THEN "E_UOP_ARITY"
    ELSE CASE uop.op = "CVT" /\ (uop.outputs[1].type # "f32" \/ uop.inputs[1].type # "u32") ->
                "E_UOP_TYPE"
           [] uop.op \in {"FMA", "WARP_REDUCE_ADD"} /\ uop.type # "f32" -> "E_UOP_TYPE"
           [] uop.op = "SHFL" /\ ("down" \in uop.flags) = ("idx" \in uop.flags) -> "E_SHFL_MODE"
           [] uop.op = "SETP" /\ uop.outputs[1].kind # "pred" -> "E_OPERAND_KIND"
           [] uop.op = "SETP" /\ \E a, b \in uop.flags \cap Compares : a # b -> "E_SETP_FLAGS"
           [] uop.op = "SETP" /\ uop.outputs[1].id >= PredCount -> "E_PRED_OOB"
           [] OTHER -> "none"

\* The result of one lane, for all but WARP_REDUCE_ADD, SETP, LD and ST.
LaneValue(uop, w, lane) ==
    LET In(i) == ReadOperandLane(w, uop.inputs[i], lane) IN
    CASE uop.op = "MOV"  -> In(1)
      [] uop.op = "CVT"  -> FOfU32(Low32(In(1)))
      [] uop.op = "ADD"  -> AddValue(uop.type, In(1), In(2))
      [] uop.op = "MUL"  -> MulValue(uop.type, In(1), In(2))
      [] uop.op = "SHL"  -> ShlValue(uop.type, uop.outputs[1], In(1), In(2))
      [] uop.op = "FMA"  -> FFma(Low32(In(1)), Low32(In(2)), Low32(In(3)))
      [] uop.op = "SHFL" -> ShflLane(uop, w, lane)

\* f32 values summed up in the order of the lanes, from zero.
LaneSum(uop, w, mask) ==
    FoldLeft(LAMBDA s, lane : IF lane \in mask
                              THEN FAdd(s, Low32(ReadOperandLane(w, uop.inputs[1], lane))) ELSE s,
             0, LaneSeq)

\* What serving one lane makes of the warp; w is the warp before the first.
ExecLane(uop, w, mask, acc, lane) ==
    LET In(i) == ReadOperandLane(acc, uop.inputs[i], lane)
        out   == uop.outputs[1]
    IN  CASE uop.op = "SETP" ->
               [acc EXCEPT !.p[RegLaneIndex(out.id, lane)] =
                              Compared(uop.type, uop.flags, In(1), In(2))]
          [] uop.op = "WARP_REDUCE_ADD" -> WriteRegLane(acc, out, lane, LaneSum(uop, w, mask))
          [] OTHER -> WriteRegLane(acc, out, lane, LaneValue(uop, acc, lane))

\* The lanes of mask, which is exec_mask (the active lanes for which the
\* instruction's guard holds), one after the other, each on what the ones
\* before it left.
ExecStep(uop, w, mask) ==
    IF UopDiag(uop) # "none" THEN Fail(UopDiag(uop), w)
    ELSE Ok(FoldLeft(LAMBDA acc, lane : IF lane \in mask THEN ExecLane(uop, w, mask, acc, lane)
                                        ELSE acc, w, LaneSeq))

-----------------------------------------------------------------------------
(* Loads and stores.  param is what read_param_symbol yields: a value, or  *)
(* -1 for a miss.  Nothing is allocated in global memory, so that every    *)
(* access to it is refused (E_GLOBAL_MISS stands for E_GLOBAL_ALIGN too).  *)
(* A cell of local memory is four bytes.                                   *)

TypeSize(type) == IF Is64(type) THEN 2 ELSE 1

EvalAddr(w, o, lane) == (At0(w.r_u64, RegLaneIndex(o.id, lane)) + o.off) % Word64

ReadLocal(w, lane, a, n) ==
    At0(w.local, <<lane, a>>) + (IF n = 2 THEN At0(w.local, <<lane, a + 1>>) * Word32 ELSE 0)

WriteLocal(w, lane, a, n, v) ==
    LET lo == <<lane, a>> :> v % Word32
        hi == <<lane, a + 1>> :> (v \div Word32) % Word32
    IN  [w EXCEPT !.local = IF n = 2 THEN lo @@ hi @@ @ ELSE lo @@ @]

MemLane(uop, param, acc, lane) ==
    LET n == TypeSize(uop.type)
        a == EvalAddr(acc, uop.inputs[1], lane)
    IN  CASE uop.op = "ST"       -> WriteLocal(acc, lane, a, n, ReadOperandLane(acc, uop.inputs[2], lane))
          [] uop.space = "param" -> WriteRegLane(acc, uop.outputs[1], lane, param)
          [] uop.space = "local" -> WriteRegLane(acc, uop.outputs[1], lane, ReadLocal(acc, lane, a, n))

\* What is refused before any lane is served, or by the first of them.
MemDiag(uop, mask, param) ==
    IF UopDiag(uop) # "none" THEN UopDiag(uop)
    ELSE CASE uop.op = "LD" /\ uop.space = "param" ->
                IF uop.inputs[1].kind # "symbol" THEN "E_LD_PARAM_KIND"
                ELSE IF param = -1 THEN "E_PARAM_MISS" ELSE "none"
           [] uop.space \in {"global", "local"} /\ uop.inputs[1].kind # "addr" -> "E_KIND"
           [] uop.space = "global" -> IF mask = {} THEN "none" ELSE "E_GLOBAL_MISS"
           [] uop.space = "local"  -> "none"
           [] OTHER                -> "E_SPACE"

MemStep(uop, w, mask, param) ==
    IF MemDiag(uop, mask, param) # "none" THEN Fail(MemDiag(uop, mask, param), w)
    ELSE Ok(FoldLeft(LAMBDA acc, lane : IF lane \in mask THEN MemLane(uop, param, acc, lane)
                                        ELSE acc, w, LaneSeq))
=============================================================================
