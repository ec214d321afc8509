----------------------------- MODULE PtxMeaning -----------------------------
(***************************************************************************)
(* What the text of a kernel means, without any of the machinery of the    *)
(* front end: registers are told apart by their names, all lanes of an     *)
(* instruction read before any of them writes, a parameter is the argument *)
(* of that name, a branch goes to its label.  The reference that KernelRun *)
(* is compared with; none of it stands for code of the repository.         *)
(*                                                                         *)
(* A machine m is a record of line, the line of the text to execute next,  *)
(* regs, from register names and lanes to values, p, the predicates, and   *)
(* stack, from lanes and addresses to cells of the lane's own memory.      *)
(***************************************************************************)
EXTENDS PtxFrontEnd, ExecCore

\* The executable lines; the text ends with its last brace.
Statements(text) ==
    {i \in DOMAIN text.lines : IsInst(text.lines[i]) /\ text.lines[i].inst.op # ""}

NextStatement(text, i) == Min({j \in Statements(text) : j >= i} \cup {Len(text.lines)})

LabelLine(text, l) ==
    CHOOSE i \in DOMAIN text.lines : text.lines[i].line = "label" /\ text.lines[i].name = l

Start(text) == [line |-> NextStatement(text, 1), regs |-> <<>>, p |-> <<>>, stack |-> <<>>]

Name(t) == <<t.file, t.id, t.name>>

\* A named register has the width it is declared with.
IsWideReg(text, t) ==
    \/ t.file = "rd"
    \/ t.file = "named" /\ \E i \in DOMAIN text.lines :
         text.lines[i].line = "named" /\ text.lines[i].name = t.name /\ text.lines[i].type \in Types64

Width(type) == IF type \in Wide THEN Word64 ELSE Word32

Value(m, t, lane) ==
    CASE t.k = "imm"     -> t.off % Word64
      [] t.k = "reg"     -> At0(m.regs, <<Name(t), lane>>)
      [] t.k = "special" -> ReadSpecial(t.name, lane)
      [] OTHER           -> 0

\* A predicate that was never written holds.
IsTrue(m, id, lane) == <<id, lane>> \in DOMAIN m.p => m.p[<<id, lane>>]

Holding(m, inst) ==
    {lane \in Lanes : inst.pred = "none" \/ (inst.pred = "pos") = IsTrue(m, inst.pred_id, lane)}

\* A cell an address names in a lane.
Cell(m, t, lane, k) == <<lane, (At0(m.regs, <<Name(t), lane>>) + t.off + k) % Word64>>

\* The result of an instruction in one lane; arg(name) is an argument.
Result(m, inst, mask, arg(_), lane) ==
    LET V(i) == Value(m, inst.toks[i], lane)
        a    == V(2) % Width(inst.type)
        b    == V(3) % Width(inst.type)
        src  == ShflSource(inst.flags, lane, V(3), ShflWidth(V(4)))
    IN  CASE inst.op \in {"mov", "cvta"} -> V(2)
          [] inst.op = "cvt" -> FOfU32(V(2))
          [] inst.op = "add" -> IF inst.type = "f32" THEN FAdd(a, b) ELSE a + b
          [] inst.op = "mul" -> IF inst.type = "f32" THEN FMul(a, b)
                                ELSE IF inst.type = "s32" THEN AsSigned(a) * AsSigned(b) ELSE a * b
          [] inst.op = "shl" -> (a * 2 ^ b) % Width(inst.type)
          [] inst.op = "fma" -> FFma(a, b, V(4))
          [] inst.op = "warp_reduce_add" ->
               FoldLeft(LAMBDA s, l : IF l \in mask THEN FAdd(s, Value(m, inst.toks[2], l)) ELSE s,
                        0, LaneSeq)
          [] inst.op = "shfl" -> IF src \in Lanes /\ InMask(V(5), lane) /\ InMask(V(5), src)
                                 THEN Value(m, inst.toks[2], src) ELSE V(2)
          [] inst.op = "ld" /\ inst.toks[2].k = "symbol" -> arg(inst.toks[2].name) % Width(inst.type)
          [] inst.op = "ld" -> At0(m.stack, Cell(m, inst.toks[2], lane, 0))
               + (IF inst.type \in Wide THEN At0(m.stack, Cell(m, inst.toks[2], lane, 1)) * Word32 ELSE 0)

CompareOf(inst) ==
    IF inst.flags \cap Compares = {} THEN "lt" ELSE CHOOSE c \in inst.flags \cap Compares : TRUE

\* One instruction on all lanes at once.
Execute(text, m, arg(_)) ==
    LET inst == text.lines[m.line].inst
        mask == Holding(m, inst)
        next == NextStatement(text, m.line + 1)
        dst  == inst.toks[1]
        R(lane) == Result(m, inst, mask, arg, lane)
                     % (IF IsWideReg(text, dst) THEN Word64 ELSE Word32)
        V(i, lane) == Value(m, inst.toks[i], lane) % Width(inst.type)
        Num(i, lane) == IF inst.type = "s32" THEN AsSigned(V(i, lane)) ELSE V(i, lane)
        cells == IF inst.type \in Wide THEN {0, 1} ELSE {0}
    IN  CASE inst.op = "bra" -> [m EXCEPT !.line = NextStatement(text, LabelLine(text, dst.name))]
          [] inst.op = "ret" -> [m EXCEPT !.line = Len(text.lines)]
          [] inst.op = "setp" ->
               [m EXCEPT !.line = next,
                  !.p = [x \in {<<dst.id, lane>> : lane \in mask} |->
                           Holds(CompareOf(inst), Num(2, x[2]), Num(3, x[2]))] @@ @]
          [] inst.op = "st" ->
               [m EXCEPT !.line = next,
                  !.stack = [x \in {Cell(m, dst, lane, k) : lane \in mask, k \in cells} |->
                               LET k == CHOOSE k \in cells : x = Cell(m, dst, x[1], k)
                               IN  (V(2, x[1]) \div Word32 ^ k) % Word32] @@ @]
          [] OTHER ->
               [m EXCEPT !.line = next,
                  !.regs = [x \in {<<Name(dst), lane>> : lane \in mask} |-> R(x[2])] @@ @]

-----------------------------------------------------------------------------
(* Texts the comparison covers.                                            *)

InstsOf(text) == {text.lines[i].inst : i \in Statements(text)}
Toks(inst)    == {inst.toks[i] : i \in DOMAIN inst.toks}
Regs(text)    == {t \in UNION {Toks(i) : i \in InstsOf(text)} : t.k \in {"reg", "addr"}}

\* The declared names of the text, and what its operands begin with after the
\* percent sign.
NamedNames(text) == {text.lines[i].name : i \in NamedLines(text.lines)}
Spellings(text)  == {Spelling(t) : t \in UNION {Toks(i) : i \in InstsOf(text)}}

\* A name stands for one register only: it is not declared with two types, no
\* other operand of the text is the name with digits after it, and no special
\* register has that name.
NamesApart(text) ==
    /\ \A i, j \in NamedLines(text.lines) :
         text.lines[i].name = text.lines[j].name => text.lines[i].type = text.lines[j].type
    /\ \A n \in NamedNames(text), s \in Spellings(text) :
         IsPrefix(n, s) /\ n # s => ~(ToSet(SubSeq(s, Len(n) + 1, Len(s))) \subseteq DOMAIN DigitValue)
    /\ \A t \in UNION {Toks(i) : i \in InstsOf(text)} : t.k = "special" => t.name \notin NamedNames(text)

Declared(text, t) ==
    \E i \in DOMAIN text.lines :
      \/ t.file = "named" /\ text.lines[i].line = "named" /\ text.lines[i].name = t.name
      \/ t.file # "named" /\ text.lines[i].line = "range" /\ text.lines[i].file = t.file
                          /\ t.id < text.lines[i].count

\* A shuffle by index that overwrites the register it reads: the lanes read
\* what the lanes below them have received.
InPlaceShuffle(inst) == inst.op = "shfl" /\ "idx" \in inst.flags /\ inst.toks[1] = inst.toks[2]

ParamType(text, name) ==
    LET ps == {i \in DOMAIN text.params : <<text.params[i].name>> = name}
    IN  IF ps = {} THEN "" ELSE text.params[Min(ps)].type

\* The text keeps to the subset: one scope, registers declared and used at
\* their width, below the place of the %f registers, with names that cannot be
\* taken for each other, shifts by less than the width, and parameters of the
\* two supported types, loaded at their size.
Conforming(text) ==
    /\ Closing(text.lines) = {Len(text.lines)}
    /\ \A i \in DOMAIN text.lines : IsInst(text.lines[i]) => i \in Statements(text)
    /\ \A t \in Regs(text) : Declared(text, t)
    /\ NamesApart(text)
    /\ CountOf(text.lines, {"r"}) <= F32RegIdBias
    /\ NamedLines(text.lines) # {} =>
         RegU32Count(text.lines) + Cardinality(NamedLines(text.lines)) <= F32RegIdBias
    /\ \A inst \in InstsOf(text) :
         /\ inst.type \in Wide => \A t \in Toks(inst) : t.k = "reg" => IsWideReg(text, t)
         /\ ~InPlaceShuffle(inst)
         /\ inst.op = "shl" => inst.toks[3].off \in 0 .. (IF inst.type \in Wide THEN Bits64 ELSE Bits32) - 1
         /\ inst.op = "ld" /\ inst.toks[2].k = "symbol" =>
              ParamType(text, inst.toks[2].name) = inst.type
    /\ \A i \in DOMAIN text.params : text.params[i].type \in DOMAIN ParamSize
=============================================================================
