---------------------------- MODULE PtxFrontEnd -----------------------------
(***************************************************************************)
(* From the text of a PTX kernel to the micro-ops of its instructions: the *)
(* parser (src/src/frontend/parser.cpp), the PTX ISA mapper                *)
(* (src/src/instruction/ptx_isa.cpp), the descriptor registry and the      *)
(* expander (src/src/instruction/).                                        *)
(*                                                                         *)
(* A text is a record of params, the parameter declarations, and lines,    *)
(* the lines of the body.  Characters are abstracted to what the front end *)
(* tells apart: a line is a declaration of a register range or of a named  *)
(* register, a label, an instruction, a closing brace or something that is *)
(* skipped; an operand token is a register, a predicate, an immediate, a   *)
(* symbol, an address or a special register.  The names that follow a      *)
(* percent sign are kept as sequences of parts, because the declared ones  *)
(* are replaced textually: one text begins another when its parts do, as   *)
(* %SP begins %SPL and %t begins %tid.x.  Sizes and offsets of parameters  *)
(* are in units of four bytes.                                             *)
(***************************************************************************)
EXTENDS Integers, Sequences, FiniteSets, SequencesExt, FiniteSetsExt

CONSTANTS Isa,          \* entries_ of PtxIsaRegistry: op, type, kinds, ir_op
          Descs,        \* descs_ of DescriptorRegistry: opcode, type, kinds, uops
          F32RegIdBias  \* kF32RegIdBias: where the %f registers are kept

AnyType == ""   \* a type_mod that is a wildcard, or missing

\* Operand tokens.  off is the offset of an address or an immediate.
Tok(k, file, id, name, off) ==
    [k |-> k, file |-> file, id |-> id, name |-> name, off |-> off]

Reg(file, id)   == Tok("reg", file, id, <<>>, 0)         \* %r1, %rd1, %f1
Named(name)     == Tok("reg", "named", 0, name, 0)       \* %SP
At(base, off)   == [base EXCEPT !.k = "addr", !.off = off]
Pred(id)        == Tok("pred", "", id, <<>>, 0)
Imm(v)          == Tok("imm", "", 0, <<>>, v)
Symbol(name)    == Tok("symbol", "", 0, <<name>>, 0)     \* bare or in brackets
Special(name)   == Tok("special", "", 0, name, 0)        \* <<"t", "id", "x">> for %tid.x

\* The digits of a number below a hundred, and what a digit stands for.
Digits(n)  == (IF n < 10 THEN <<>> ELSE <<ToString(n \div 10)>>) \o <<ToString(n % 10)>>
DigitValue == [d \in {ToString(n) : n \in 0 .. 9} |-> CHOOSE n \in 0 .. 9 : ToString(n) = d]

-----------------------------------------------------------------------------
(* Parameters: parse_param_decl accepts two types and drops the others.    *)

ParamSize == [t \in {"u32", "u64"} |-> IF t = "u32" THEN 1 ELSE 2]

AlignUp(v, a) == IF v % a = 0 THEN v ELSE v + (a - (v % a))

\* The name, type, size and offset of every parameter kept.
ParamLayout(decls) ==
    LET ps  == SelectSeq(decls, LAMBDA p : p.type \in DOMAIN ParamSize)
        sz  == [i \in DOMAIN ps |-> ParamSize[ps[i].type]]
        End[i \in 0 .. Len(ps)] ==
            IF i = 0 THEN 0 ELSE AlignUp(End[i - 1], sz[i]) + sz[i]
    IN  [i \in DOMAIN ps |-> [name |-> ps[i].name, type |-> ps[i].type, size |-> sz[i],
                              offset |-> AlignUp(End[i - 1], sz[i])]]

-----------------------------------------------------------------------------
(* The body, in two passes.                                                *)

\* A line that is just a closing brace ends the kernel, nested or not.
Closing(lines) == {i \in DOMAIN lines : lines[i].line = "close"}
Body(text)     == SubSeq(text.lines, 1, Min(Closing(text.lines)) - 1)

CountOf(body, files) ==
    Max({0} \cup {body[i].count : i \in {j \in DOMAIN body :
                    body[j].line = "range" /\ body[j].file \in files}})

RegU32Count(body) == CountOf(body, {"r", "f"})
RegU64Count(body) == CountOf(body, {"rd"})

Types64 == {"b64", "u64"}
Types32 == {"b32", "u32", "f32"}

\* pending_named, without the types and the repetitions that get no number.
\* A name that begins with %r or %p does not count as one.
NamedLines(body) ==
    {i \in DOMAIN body : /\ body[i].line = "named" /\ body[i].type \in Types64 \cup Types32
                         /\ Head(body[i].name) \notin {"r", "p"}}
FirstNamed(body) ==
    {i \in NamedLines(body) : \A j \in NamedLines(body) : body[j].name = body[i].name => i <= j}

\* Mutant: a named register gets its number where it is declared.
NamedIdEarly(body, i) ==
    LET same == IF body[i].type \in Types64 THEN Types64 ELSE Types32
        seen == SubSeq(body, 1, i)
    IN  (IF same = Types64 THEN RegU64Count(seen) ELSE RegU32Count(seen))
          + Cardinality({j \in FirstNamed(seen) : j < i /\ body[j].type \in same})

\* The number of the register named in line i: after all numbered registers
\* of its width, in the order of the first declarations.
NamedId(body, i) ==
    LET same == IF body[i].type \in Types64 THEN Types64 ELSE Types32
    IN  (IF same = Types64 THEN RegU64Count(body) ELSE RegU32Count(body))
          + Cardinality({j \in FirstNamed(body) : j < i /\ body[j].type \in same})

\* reg_alias: the register each name stands for.
RegAlias(body) ==
    [n \in {body[i].name : i \in FirstNamed(body)} |->
       LET i == CHOOSE j \in FirstNamed(body) : body[j].name = n
       IN  Reg(IF body[i].type \in Types64 THEN "rd" ELSE "r", NamedId(body, i))]

\* What follows the percent sign of a token; no declared name occurs in the
\* tokens that are left out here.
Spelling(t) == CASE t.file = "named" \/ t.k = "special" -> t.name
                 [] t.file = "f"                        -> <<"f">> \o Digits(t.id)
                 [] OTHER                               -> <<>>

\* rewrite_named_regs: the first name, in the order in which the hash table
\* is traversed, that occurs in the token is replaced, whatever the token is.
\* What follows it stays and is read as further digits, or spoils the number.
RewriteNamed(order, alias, t) ==
    LET name == Spelling(t)
        hits == {i \in DOMAIN order : IsPrefix(order[i], name)}
        from == order[Min(hits)]
        rest == SubSeq(name, Len(from) + 1, Len(name))
        new  == [t EXCEPT !.k = IF t.k = "special" THEN "reg" ELSE t.k, !.name = <<>>]
    IN  IF hits = {} THEN t
        ELSE IF ToSet(rest) \subseteq DOMAIN DigitValue
             THEN [new EXCEPT !.file = alias[from].file,
                              !.id = FoldLeft(LAMBDA n, d : 10 * n + DigitValue[d],
                                              alias[from].id, rest)]
        ELSE [new EXCEPT !.file = "mangled"]

IsInst(l) == l.line = "inst"

\* Mutant: the label is counted as a line of its own.
PcOfLineLoose(body, i) ==
    Cardinality({j \in 1 .. i - 1 : IsInst(body[j]) \/ body[j].line = "label"})

\* Every line that is no declaration, label or brace counts as an instruction.
PcOfLine(body, i) == Cardinality({j \in 1 .. i - 1 : IsInst(body[j])})

\* label_to_pc.
LabelPc(body, l) ==
    PcOfLine(body, Max({i \in DOMAIN body : body[i].line = "label" /\ body[i].name = l}))

Labels(body) == {body[i].name : i \in {j \in DOMAIN body : body[j].line = "label"}}

SP == <<"SP">>

\* The text of the address contains the text of the alias when the digits of
\* a begin those of n (numbers of up to three digits).
StartsWith(n, a) == n = a \/ (a > 0 /\ \E k \in {10, 100} : n \div k = a)

\* Generic loads and stores through %SP are local.
SpaceOf(alias, inst, toks) ==
    IF /\ inst.op \in {"ld", "st"} /\ inst.space = "" /\ SP \in DOMAIN alias
       /\ \E i \in DOMAIN toks : toks[i].k = "addr" /\ toks[i].file = alias[SP].file
                                                    /\ StartsWith(toks[i].id, alias[SP].id)
    THEN "local" ELSE inst.space

\* The second pass on one instruction.
Tokenize(body, order, alias, inst) ==
    LET toks   == [i \in DOMAIN inst.toks |-> RewriteNamed(order, alias, inst.toks[i])]
        target == toks[1].name
    IN  [inst EXCEPT
           !.space = SpaceOf(alias, inst, toks),
           !.toks  = IF /\ inst.op = "bra" /\ Len(toks) = 1
                        /\ toks[1].k = "symbol" /\ target \in Labels(body)
                     THEN <<Imm(LabelPc(body, target))>> ELSE toks]

\* parse_ptx_text_tokens; lines without an opcode are counted but not kept.
ParseTokens(text, order) ==
    LET body == Body(text)
        kept == SelectSeq(body, LAMBDA l : IsInst(l) /\ l.inst.op # "")
    IN  [params |-> ParamLayout(text.params),
         insts  |-> [i \in DOMAIN kept |-> Tokenize(body, order, RegAlias(body), kept[i].inst)]]

-----------------------------------------------------------------------------
(* The mapper.                                                             *)

NoOperand   == [kind |-> "none", type |-> "", id |-> 0, off |-> 0, name |-> <<>>]
Mismatch    == [diag |-> "none", operand |-> NoOperand]
ParseFailed == [diag |-> "OPERAND_PARSE_FAIL", operand |-> NoOperand]
Parsed(o)   == [diag |-> "none", operand |-> o]

FileType == [f \in {"r", "rd", "f"} |->
               CASE f = "r" -> "u32" [] f = "rd" -> "u64" [] f = "f" -> "f32"]

Wide == {"u64", "s64", "b64"}

SpecialNames == {<<"l", "aneid">>, <<"w", "arpid">>}
                  \cup ({"t"} \X {"id"} \X {"x", "y", "z"})
                  \cup ({"n"} \X {"tid", "ctaid"} \X {"x", "y", "z"})
                  \cup ({"c"} \X {"taid"} \X {"x", "y", "z"})

\* A register: %f registers are kept in the 32-bit file from the bias on, and
\* in an instruction of 64 bits %rN means the N-th register of the other file.
RegOperand(t, type) ==
    [NoOperand EXCEPT
       !.kind = "reg",
       !.type = IF t.file = "r" /\ type \in Wide THEN "u64" ELSE FileType[t.file],
       !.id   = IF t.file = "f" THEN F32RegIdBias + t.id ELSE t.id]

\* The token begins as a register and ends otherwise.
BadRegister(t) == \/ t.file = "mangled"
                  \/ t.file = "named" /\ Head(t.name) \in {"r", "f"}

\* parse_operand_by_kind.
ParseOperand(kind, t, type) ==
    CASE kind = "reg" /\ t.k = "reg" /\ t.file \in DOMAIN FileType ->
           Parsed(RegOperand(t, type))
      [] kind = "reg" /\ t.k = "reg" /\ BadRegister(t) -> ParseFailed
      [] kind = "pred" /\ t.k = "reg" /\ t.file = "named" /\ Head(t.name) = "p" -> ParseFailed
      [] kind = "addr" /\ t.k = "addr" /\ t.file \in DOMAIN FileType ->
           Parsed([RegOperand(t, "u64") EXCEPT !.kind = "addr", !.type = "u64", !.off = t.off])
      [] kind = "imm" /\ t.k = "imm" -> Parsed([NoOperand EXCEPT !.kind = "imm", !.off = t.off])
      [] kind = "pred" /\ t.k = "pred" -> Parsed([NoOperand EXCEPT !.kind = "pred", !.id = t.id])
      [] kind = "symbol" /\ t.k = "symbol" ->
           Parsed([NoOperand EXCEPT !.kind = "symbol", !.name = t.name])
      [] kind = "special" /\ t.k = "special" ->
           IF t.name \in SpecialNames
           THEN Parsed([NoOperand EXCEPT !.kind = "special", !.type = "u32", !.name = t.name])
           ELSE IF Len(t.name) < 3 THEN Mismatch ELSE ParseFailed
      [] OTHER -> Mismatch

Candidates(inst) ==
    {i \in DOMAIN Isa : /\ Isa[i].op = inst.op /\ Len(Isa[i].kinds) = Len(inst.toks)
                        /\ Isa[i].type \in {AnyType, inst.type}}

ParseAs(inst, i) ==
    [j \in DOMAIN inst.toks |-> ParseOperand(Isa[i].kinds[j], inst.toks[j], inst.type)]

\* map_one: the only entry all of whose operands parse, or a diagnostic.
MapOne(inst) ==
    LET cands == Candidates(inst)
        parse == [i \in cands |-> ParseAs(inst, i)]
        fits  == {i \in cands : \A j \in DOMAIN inst.toks : parse[i][j].operand # NoOperand}
        \* the parse of an entry stops at its first operand that does not fit
        Fails(i) == \E j \in DOMAIN inst.toks :
                      /\ parse[i][j].diag # "none"
                      /\ \A k \in 1 .. j - 1 : parse[i][k].operand # NoOperand
        diag  == IF cands = {} THEN "DESC_NOT_FOUND"
                 ELSE IF fits = {} THEN IF \E i \in cands : Fails(i) THEN "OPERAND_PARSE_FAIL"
                                        ELSE "OPERAND_FORM_MISMATCH"
                 ELSE IF Cardinality(fits) > 1 THEN "DESC_AMBIGUOUS" ELSE "none"
    IN  [diag |-> diag, inst |-> inst,
         opcode   |-> IF diag = "none" THEN Isa[Min(fits)].ir_op ELSE "",
         operands |-> IF diag = "none"
                      THEN [j \in DOMAIN inst.toks |-> parse[Min(fits)][j].operand] ELSE <<>>]

\* map_kernel: the first diagnostic, or the instruction records.
MapKernel(insts) ==
    LET recs == [i \in DOMAIN insts |-> MapOne(insts[i])]
        bad  == {i \in DOMAIN recs : recs[i].diag # "none"}
    IN  [diag |-> IF bad = {} THEN "none" ELSE recs[Min(bad)].diag, insts |-> recs]

-----------------------------------------------------------------------------
(* Descriptors.                                                            *)

\* DescriptorRegistry::lookup: the first that matches.
Lookup(rec) ==
    {i \in DOMAIN Descs :
       /\ Descs[i].opcode = rec.opcode /\ Descs[i].type \in {AnyType, rec.inst.type}
       /\ Descs[i].kinds = [j \in DOMAIN rec.operands |-> rec.operands[j].kind]}

HasDesc(rec) == Lookup(rec) # {}

ValueType(t) == CASE t = "b32" -> "u32" [] t = "b64" -> "u64" [] t = AnyType -> "u32" [] OTHER -> t

\* Expander::expand: operand positions the instruction does not have are skipped.
Pick(rec, idx) ==
    LET have == SelectSeq(idx, LAMBDA k : k + 1 \in DOMAIN rec.operands)
    IN  [i \in DOMAIN have |-> rec.operands[have[i] + 1]]

Expand(rec) ==
    LET uops == Descs[Min(Lookup(rec))].uops
    IN  [i \in DOMAIN uops |->
           [op |-> uops[i].op, type |-> ValueType(rec.inst.type),
            space |-> IF rec.inst.space = "" THEN "global" ELSE rec.inst.space,
            flags |-> rec.inst.flags,
            inputs |-> Pick(rec, uops[i].in), outputs |-> Pick(rec, uops[i].out)]]
=============================================================================
