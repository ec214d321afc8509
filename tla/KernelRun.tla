----------------------------- MODULE KernelRun ------------------------------
(***************************************************************************)
(* Kernels from their text to their registers: launches, one after the     *)
(* other, on one Runtime (src/src/runtime/runtime.cpp), each of which      *)
(* packs its arguments, parses and maps the text, sets the parameters of   *)
(* the address-space manager (src/src/memory/memory.cpp) and runs one warp *)
(* instruction by instruction, through PtxFrontEnd and ExecCore.  Arguments *)
(* come packed by the CUDA shim, by position                               *)
(* (src/cuda/src/cudart_shim/kernel_args_pack.cpp), by the workload runner, *)
(* by name (src/src/runtime/workload.cpp), or not at all.                  *)
(*                                                                         *)
(* The warp does not diverge here: branches are not predicated (SimtWarp   *)
(* has those); any other instruction may be.                               *)
(***************************************************************************)
EXTENDS PtxMeaning

CONSTANTS Texts,        \* the kernels to launch
          Launchings,   \* Launchings[t]: the ways to launch t: via, and args
          DevicePtrs,   \* pointers that is_valid_device_range accepts
          LaunchBound   \* bound: t is launched among the first LaunchBound[t]

ASSUME KernelRunAssumption ==
    \A t \in Texts : \A inst \in InstsOf(t) : inst.op \in {"bra", "ret"} => inst.pred = "none"

VARIABLES phase,         \* "idle" or "running"
          text,          \* the text of the current launch
          args,          \* how it is launched: via, args
          kernel,        \* kernel.insts: the instruction records
          param_layout,  \* of AddrSpaceManager, as are ...
          param_blob,    \* ... the words of the arguments
          warp,          \* the register files and the local memory
          pc,
          diag,          \* of the last launch
          launches,
          ref,           \* history: the text executed as it is meant ...
          covered        \* ... and whether it conforms

vars == <<phase, text, args, kernel, param_layout, param_blob, warp, pc, diag, launches, ref, covered>>

-----------------------------------------------------------------------------
(* Arguments.                                                              *)

\* The words of v, and of the blob with v at the place of parameter p.
Words(v, n) == [i \in 1 .. n |-> (v \div Word32 ^ (i - 1)) % Word32]

Put(blob, p, v) ==
    [i \in DOMAIN blob |-> IF i \in p.offset + 1 .. p.offset + p.size
                           THEN Words(v, p.size)[i - p.offset] ELSE blob[i]]

BlobSize(layout) == Max({0} \cup {p.offset + p.size : p \in ToSet(layout)})
Zeros(layout)    == [i \in 1 .. BlobSize(layout) |-> 0]

Null == -1

\* pack_kernel_args_mvp: the i-th parameter of the layout takes the i-th
\* argument; a .u64 must be a device pointer or zero.
PackPositional(layout, given) ==
    LET bad == {i \in DOMAIN layout :
                  \/ given[i] = Null
                  \/ layout[i].type = "u64" /\ given[i] # 0 /\ given[i] \notin DevicePtrs}
    IN  [diag |-> IF bad = {} THEN "none"
                  ELSE IF given[Min(bad)] = Null THEN "cudaErrorInvalidValue"
                  ELSE "cudaErrorInvalidDevicePointer",
         blob |-> IF bad = {} THEN FoldLeft(LAMBDA blob, i : Put(blob, layout[i], given[i]),
                                            Zeros(layout), [i \in DOMAIN layout |-> i])
                  ELSE <<>>]

\* The parameter a name means: the first of that name.
ParamOf(layout, n) == layout[Min({i \in DOMAIN layout : layout[i].name = n})]
ParamNames(layout) == {p.name : p \in ToSet(layout)}

\* pack_kernel_args: every argument names a parameter of its type, and no
\* parameter is left without one.
PackNamed(layout, given) ==
    LET ok == /\ DOMAIN given = ParamNames(layout)
              /\ \A n \in DOMAIN given : given[n].type = ParamOf(layout, n).type
    IN  [diag |-> IF ok THEN "none" ELSE "E_BAD_ARGS",
         blob |-> IF ok THEN FoldLeft(LAMBDA blob, n : Put(blob, ParamOf(layout, n), given[n].value),
                                      Zeros(layout), SetToSeq(DOMAIN given))
                  ELSE <<>>]

Pack(layout, a) ==
    CASE a.via = "shim"     -> PackPositional(layout, a.args)
      [] a.via = "workload" -> PackNamed(layout, a.args)
      [] a.via = "plain"    -> [diag |-> "none", blob |-> <<>>]

\* read_param_symbol.
ReadParamSymbol(layout, blob, name, n) ==
    LET off == ParamOf(layout, name[1]).offset
    IN  IF name[1] \notin ParamNames(layout) \/ off + n > Len(blob) THEN -1
        ELSE blob[off + 1] + (IF n = 2 THEN blob[off + 2] * Word32 ELSE 0)

-----------------------------------------------------------------------------
NoText == [params |-> <<>>, lines |-> <<>>]
NoArgs == [via |-> "none"]
NoRef  == Start(NoText)

Init ==
    /\ phase = "idle" /\ kernel = <<>> /\ pc = 0 /\ diag = "none" /\ launches = 0
    /\ text = NoText /\ args = NoArgs
    /\ param_layout = <<>> /\ param_blob = <<>>
    /\ warp = NewWarp /\ ref = NoRef /\ covered = FALSE

\* set_param_layout and set_param_blob.
SetParams(layout, blob) == param_layout' = layout /\ param_blob' = blob

\* A launch is refused before it has touched anything.
Refuse(d) ==
    /\ diag' = d
    /\ UNCHANGED <<phase, text, args, kernel, param_layout, param_blob, warp, pc, ref, covered>>

\* run_kernel_tokens_impl up to exec.run, with the parse and the packing that
\* its callers do before it.
Launch(t, a) ==
    /\ phase = "idle" /\ launches < LaunchBound[t]
    /\ launches' = launches + 1
    /\ IF Closing(t.lines) = {} THEN Refuse("E_ENTRY_NOT_FOUND")
       ELSE \E order \in SetToSeqs(DOMAIN RegAlias(Body(t))) :
              LET tokens == ParseTokens(t, order)
                  packed == Pack(tokens.params, a)
                  mapped == MapKernel(tokens.insts)
              IN  IF packed.diag # "none" THEN Refuse(packed.diag)
                  ELSE IF mapped.diag # "none" THEN Refuse(mapped.diag)
                  ELSE /\ SetParams(tokens.params, packed.blob)
                       /\ phase' = "running" /\ diag' = "none" /\ text' = t /\ args' = a
                       /\ kernel' = mapped.insts /\ warp' = NewWarp /\ pc' = 0
                       /\ ref' = Start(t) /\ covered' = Conforming(t)

\* The run is over; its registers and its local memory go with it.
End(d) ==
    /\ phase' = "idle" /\ diag' = d
    /\ text' = NoText /\ args' = NoArgs /\ ref' = NoRef /\ covered' = FALSE
    /\ kernel' = <<>> /\ warp' = NewWarp /\ pc' = 0
    /\ UNCHANGED <<param_layout, param_blob, launches>>

-----------------------------------------------------------------------------
(* The run loop on one instruction.                                        *)

Rec == kernel[pc + 1]

\* The lanes for which the guard of the instruction holds.
GuardMask ==
    {lane \in Lanes : \/ Rec.inst.pred = "none"
                      \/ (Rec.inst.pred = "pos") = warp.p[RegLaneIndex(Rec.inst.pred_id, lane)]}

PredOob == Rec.inst.pred # "none" /\ Rec.inst.pred_id >= PredCount

\* dispatch_uop: the unit by the kind of the micro-op.
UnitStep(uop, w) ==
    LET param == ReadParamSymbol(param_layout, param_blob, uop.inputs[1].name, TypeSize(uop.type))
    IN  IF uop.op \in {"LD", "ST"} THEN MemStep(uop, w, GuardMask, param)
                                   ELSE ExecStep(uop, w, GuardMask)

\* The micro-ops in order, up to the first that fails.
RunUops(uops) ==
    FoldLeft(LAMBDA r, uop : IF r.diag # "none" THEN r ELSE UnitStep(uop, r.warp), Ok(warp), uops)

\* The argument of that name.
Argument(name) ==
    IF args.via = "plain" THEN Null
    ELSE IF args.via = "workload" THEN args.args[name[1]].value
    ELSE args.args[Min({i \in DOMAIN text.params : text.params[i].name = name[1]})]

\* What the text means matters only for texts that conform; others do not
\* advance it.
Advance == IF covered THEN Execute(text, ref, Argument) ELSE ref

\* The kernel's last frame reconverges with nothing, a branch misses the
\* kernel, the instruction has no descriptor or its guard no predicate.
Fault ==
    /\ phase = "running"
    /\ \/ pc = Len(kernel) /\ End("E_RECONV_INVALID")
       \/ pc > Len(kernel) /\ End("E_PC_OOB")
       \/ pc < Len(kernel) /\ ~HasDesc(Rec) /\ End("E_DESC_MISS")
       \/ pc < Len(kernel) /\ HasDesc(Rec) /\ PredOob /\ End("E_PRED_OOB")

Ready == phase = "running" /\ pc < Len(kernel) /\ HasDesc(Rec) /\ ~PredOob

Branch ==
    /\ Ready /\ Expand(Rec)[1].op = "BRA"
    /\ pc' = Expand(Rec)[1].inputs[1].off
    /\ ref' = Advance
    /\ UNCHANGED <<phase, text, args, kernel, param_layout, param_blob, warp, diag, launches, covered>>

Return == Ready /\ Expand(Rec)[1].op = "RET" /\ End("none")

Compute ==
    /\ Ready /\ Expand(Rec)[1].op \notin {"BRA", "RET"}
    /\ LET r == RunUops(Expand(Rec))
       IN  IF r.diag # "none" THEN End(r.diag)
           ELSE /\ warp' = r.warp /\ pc' = pc + 1 /\ ref' = Advance
                /\ UNCHANGED <<phase, text, args, kernel, param_layout, param_blob, diag, launches, covered>>

Terminated ==
    phase = "idle" /\ (\A t \in Texts : launches >= LaunchBound[t]) /\ UNCHANGED vars

Next == \/ \E t \in Texts : \E a \in Launchings[t] : Launch(t, a)
        \/ Branch \/ Return \/ Compute \/ Fault
        \/ Terminated

Spec == Init /\ [][Next]_vars

-----------------------------------------------------------------------------
(* Properties.                                                             *)

StatementsBefore(i) == Cardinality({j \in Statements(text) : j < i})

(* Whatever the front end has made of the text, and whatever was launched  *)
(* before, the registers, predicates and local memory hold what the text   *)
(* means: named and numbered registers and the %f registers do not get in  *)
(* each other's way, an instruction is executed as the one form it has, a  *)
(* lane never sees a result of the same instruction in another lane, and   *)
(* ld.param reads the arguments of this launch, each parameter its own.    *)
RegistersMatchText ==
    covered =>
      /\ \A i \in Statements(text) :
           LET toks == text.lines[i].inst.toks
               rec  == kernel[StatementsBefore(i) + 1]
           IN  \A j \in DOMAIN toks, lane \in Lanes : toks[j].k \in {"reg", "addr"} =>
                 At0(ref.regs, <<Name(toks[j]), lane>>)
                   = ReadRegLane(warp, [rec.operands[j] EXCEPT !.kind = "reg"], lane)
      /\ \A id \in 0 .. PredCount - 1, lane \in Lanes :
           warp.p[RegLaneIndex(id, lane)] = IsTrue(ref, id, lane)
      /\ \A x \in DOMAIN warp.local \cup DOMAIN ref.stack : At0(warp.local, x) = At0(ref.stack, x)

(* The warp is about to execute the statement the text has come to: the    *)
(* label numbers that the first pass of the parser counts are the places   *)
(* of the instructions that the second pass keeps.                         *)
PcFollowsText == covered => pc = StatementsBefore(ref.line)

(* The shim refuses a launch, or what the kernel can load of a parameter is *)
(* the argument that the caller passed in its place.  It does not hold:    *)
(* parse_param_decl drops a parameter of any other type than .u32 and .u64, *)
(* and the ones after it take the arguments of the ones before.            *)
EveryParamItsArgument ==
    LET loadable == {i \in DOMAIN text.params :
                       /\ text.params[i].name \in ParamNames(param_layout)
                       /\ \A j \in 1 .. i - 1 : text.params[j].name # text.params[i].name}
    IN  phase = "running" /\ args.via = "shim" =>
          \A i \in loadable :
            LET p == ParamOf(param_layout, text.params[i].name)
            IN  ReadParamSymbol(param_layout, param_blob, <<p.name>>, p.size) = args.args[i]
=============================================================================
