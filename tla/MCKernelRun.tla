---------------------------- MODULE MCKernelRun -----------------------------
(***************************************************************************)
(* KernelRun on the forms of assets/ptx_isa/demo_ptx64.json and            *)
(* assets/inst_desc/demo_desc.json that the texts use, with registers of   *)
(* four and eight bits and a warp of three lanes.                          *)
(***************************************************************************)
EXTENDS KernelRun

Form(op, type, kinds, ir) == [op |-> op, type |-> type, kinds |-> kinds, ir_op |-> ir]

RR  == <<"reg", "reg">>
RI  == <<"reg", "imm">>
RS  == <<"reg", "symbol">>
RA  == <<"reg", "addr">>
AR  == <<"addr", "reg">>
RRR == <<"reg", "reg", "reg">>
RRI == <<"reg", "reg", "imm">>

MCIsa == <<
    Form("mov", "u32", RI, "mov"), Form("mov", "u32", <<"reg", "special">>, "mov"),
    Form("mov", "u32", RS, "mov"), Form("mov", "u32", RR, "mov"),
    Form("mov", "u64", RR, "mov"), Form("mov", "u64", RS, "mov"), Form("mov", "u64", RI, "mov"),
    Form("mov", "f32", RR, "mov"), Form("mov", "f32", RI, "mov"),
    Form("cvta", "u64", RR, "mov"), Form("cvt", "u32", RR, "cvt"),
    Form("add", "u32", RRR, "add"), Form("add", "u32", RRI, "add"),
    Form("add", "u64", RRR, "add"), Form("add", "u64", RRI, "add"), Form("add", "f32", RRR, "add"),
    Form("ld", "u64", RS, "ld"), Form("ld", "u32", RS, "ld"),
    Form("ld", "u32", RA, "ld"), Form("ld", "u64", RA, "ld"),
    Form("st", "u32", AR, "st"), Form("st", "u64", AR, "st"),
    Form("mul", "u32", RRR, "mul"), Form("mul", "s32", RRR, "mul"), Form("mul", "u32", RRI, "mul"),
    Form("fma", "f32", <<"reg", "reg", "reg", "reg">>, "fma"),
    Form("warp_reduce_add", "f32", RR, "warp_reduce_add"),
    Form("setp", "s32", <<"pred", "reg", "imm">>, "setp"),
    Form("setp", "u32", <<"pred", "reg", "reg">>, "setp"),
    Form("shfl", "b32", <<"reg", "reg", "reg", "imm", "reg">>, "shfl"),
    Form("shfl", "b32", <<"reg", "reg", "imm", "imm", "reg">>, "shfl"),
    Form("shl", AnyType, RRI, "shl"), Form("bra", AnyType, <<"imm">>, "bra"),
    Form("ret", AnyType, <<>>, "ret")>>

\* Every IR operation has one descriptor per form, except mov.u32 (reg, symbol).
Uop(ir) == CASE ir = "ld" -> [op |-> "LD", in |-> <<1>>, out |-> <<0>>]
             [] ir = "st" -> [op |-> "ST", in |-> <<0, 1>>, out |-> <<>>]
             [] ir = "bra" -> [op |-> "BRA", in |-> <<0>>, out |-> <<>>]
             [] ir = "ret" -> [op |-> "RET", in |-> <<>>, out |-> <<>>]
             [] ir = "fma" -> [op |-> "FMA", in |-> <<1, 2, 3>>, out |-> <<0>>]
             [] ir = "shfl" -> [op |-> "SHFL", in |-> <<1, 2, 3, 4>>, out |-> <<0>>]
             [] ir = "setp" -> [op |-> "SETP", in |-> <<1, 2>>, out |-> <<0>>]
             [] ir = "mov" -> [op |-> "MOV", in |-> <<1>>, out |-> <<0>>]
             [] ir = "cvt" -> [op |-> "CVT", in |-> <<1>>, out |-> <<0>>]
             [] ir = "add" -> [op |-> "ADD", in |-> <<1, 2>>, out |-> <<0>>]
             [] ir = "mul" -> [op |-> "MUL", in |-> <<1, 2>>, out |-> <<0>>]
             [] ir = "shl" -> [op |-> "SHL", in |-> <<1, 2>>, out |-> <<0>>]
             [] ir = "warp_reduce_add" -> [op |-> "WARP_REDUCE_ADD", in |-> <<1>>, out |-> <<0>>]

MCDescs ==
    LET forms == SelectSeq(MCIsa, LAMBDA f : f # Form("mov", "u32", RS, "mov"))
    IN  [i \in DOMAIN forms |-> [opcode |-> forms[i].ir_op, type |-> forms[i].type,
                                 kinds |-> forms[i].kinds, uops |-> <<Uop(forms[i].ir_op)>>]]

\* Commutative and not associative, as f32 addition is.
MCFAdd(a, b)    == (2 * (a + b) + 1) % Word32
MCFMul(a, b)    == (3 * a * b + 1) % Word32
MCFFma(a, b, c) == (a * b + 5 * c) % Word32
MCFOfU32(a)     == (7 * a + 2) % Word32

-----------------------------------------------------------------------------
(* Lines.                                                                  *)

NoInst == [op |-> "", type |-> "", space |-> "", flags |-> {}, pred |-> "none", pred_id |-> 0,
           toks |-> <<>>]
Line(kind) == [line |-> kind, file |-> "", count |-> 0, type |-> "", name |-> <<>>, inst |-> NoInst]

RegRange(file, n)  == [Line("range") EXCEPT !.file = file, !.count = n]
NamedReg(type, n)  == [Line("named") EXCEPT !.type = type, !.name = n]
Label(l)        == [Line("label") EXCEPT !.name = <<l>>]
Close           == Line("close")
Skipped         == Line("other")
Blank           == [Line("inst") EXCEPT !.inst = NoInst]    \* a line with no opcode

Inst(op, type, toks) == [Line("inst") EXCEPT !.inst.op = op, !.inst.type = type, !.inst.toks = toks]
With(flag, l)  == [l EXCEPT !.inst.flags = {flag}]
In(space, l)   == [l EXCEPT !.inst.space = space]
If(id, l)      == [l EXCEPT !.inst.pred = "pos", !.inst.pred_id = id]
IfNot(id, l)   == [l EXCEPT !.inst.pred = "neg", !.inst.pred_id = id]
Ret            == Inst("ret", "", <<>>)
Bra(l)         == Inst("bra", "", <<Symbol(l)>>)
LdParam(type, r, n) == In("param", Inst("ld", type, <<r, Symbol(n)>>))

r0  == Reg("r", 0)
r1  == Reg("r", 1)
r2  == Reg("r", 2)
d0  == Reg("rd", 0)
d1  == Reg("rd", 1)
f0  == Reg("f", 0)
f1  == Reg("f", 1)
sp  == Named(SP)
spl == Named(<<"SP", "L">>)
xa  == Named(<<"a">>)
xax == Named(<<"a", "x">>)

Text(params, lines) == [params |-> params, lines |-> lines]
Decl(n, type) == [name |-> n, type |-> type]

-----------------------------------------------------------------------------
(* Texts.                                                                  *)

Ranges == <<RegRange("r", 3), RegRange("f", 2), RegRange("rd", 2)>>

\* All pairs of these, after a prologue that makes the lanes differ.
Pool == {
    Inst("mov", "u32", <<r2, r1>>),
    Inst("add", "u32", <<r1, r0, r1>>),
    If(0, Inst("add", "u32", <<r1, r1, Imm(-1)>>)),
    Inst("add", "u64", <<d0, d0, Imm(-1)>>),
    Inst("mul", "u32", <<d0, r1, r1>>),
    Inst("mul", "s32", <<d0, r1, r0>>),
    Inst("mul", "u32", <<r1, r1, Imm(5)>>),
    Inst("shl", "b64", <<d0, d0, Imm(5)>>),
    Inst("shl", "b32", <<r1, r1, Imm(2)>>),
    Inst("setp", "u32", <<Pred(0), r0, r1>>),
    With("ge", Inst("setp", "s32", <<Pred(0), r1, Imm(-2)>>)),
    With("down", Inst("shfl", "b32", <<r1, r1, Imm(1), Imm(0), r2>>)),
    With("idx", Inst("shfl", "b32", <<r2, r1, r0, Imm(2), r1>>)),
    With("idx", Inst("shfl", "b32", <<r0, r0, r1, Imm(0), r2>>)),
    Inst("cvt", "u32", <<f0, r1>>),
    IfNot(0, Inst("warp_reduce_add", "f32", <<f1, f0>>)),
    Inst("fma", "f32", <<f0, f0, f1, f0>>),
    Inst("add", "f32", <<f1, f0, f0>>),
    Inst("add", "u64", <<d0, d0, r1>>)}

Prologue == <<Inst("mov", "u32", <<r0, Special(<<"l", "aneid">>)>>), Inst("mul", "u32", <<r1, r0, Imm(5)>>),
              Inst("add", "u32", <<r1, r1, Imm(3)>>), Inst("mov", "u32", <<r2, Imm(7)>>),
              Inst("mov", "f32", <<f0, Imm(6)>>), Inst("mov", "u64", <<d0, Imm(77)>>)>>

Pairs == {Text(<<>>, Ranges \o Prologue \o <<i, j, Ret, Close>>) : i, j \in Pool}

\* Named registers declared before, between and after the numbered ones, in
\* both orders, with names that are prefixes of each other.
NamedDecls ==
    LET n == <<NamedReg("b64", SP), NamedReg("b64", <<"SP", "L">>)>>
        m == <<NamedReg("b32", <<"a">>), NamedReg("b32", <<"a", "x">>), NamedReg("b32", <<"a">>)>>
    IN  {n \o m \o Ranges, Ranges \o Reverse(n) \o m, m \o Ranges \o n, n \o Ranges \o m}

Stack == <<
    Inst("mov", "u64", <<spl, Symbol("depot")>>), Inst("cvta", "u64", <<sp, spl>>), Skipped,
    Inst("mov", "u32", <<r2, Special(<<"t", "id", "x">>)>>), Inst("mov", "u64", <<d1, Imm(99)>>),
    Inst("st", "u64", <<At(sp, 0), d1>>), Inst("st", "u32", <<At(sp, 2), r2>>),
    Inst("mov", "u32", <<xa, Imm(4)>>), Inst("add", "u32", <<xax, xa, r2>>),
    Inst("ld", "u64", <<d0, At(sp, 0)>>), Inst("ld", "u32", <<r0, At(sp, 2)>>),
    Inst("ld", "u32", <<d1, At(sp, 2)>>), Inst("add", "u32", <<r1, xax, r0>>),
    Inst("ld", "u32", <<r1, At(d0, 0)>>), Ret, Close>>

StackTexts == {Text(<<>>, ds \o Stack) : ds \in NamedDecls}

\* Named registers alone, without a range of either width, and one called %n
\* in a text that reads %tid.x or that reads %ntid.x.
OnlyNamed(n, special) ==
    LET x == Named(n)
        y == Named(<<"b">>)
        w == Named(<<"w">>)
    IN  <<NamedReg("b32", n), NamedReg("b64", <<"w">>), NamedReg("b32", <<"b">>),
          Inst("mov", "u32", <<x, Special(special)>>), Inst("add", "u32", <<y, x, Imm(3)>>),
          Inst("mul", "u32", <<w, y, y>>), Inst("add", "u32", <<x, x, y>>), Ret, Close>>

\* %f is declared, and %f1 is its number followed by a digit.
NamedF == <<NamedReg("b32", <<"f">>), RegRange("f", 2), Inst("cvt", "u32", <<f1, r0>>),
            Inst("mov", "u32", <<Named(<<"f">>), Imm(3)>>), Ret, Close>>

NamedTexts ==
    {Text(<<>>, ls) : ls \in {OnlyNamed(n, s) : n \in {<<"a">>, <<"n">>},
                                               s \in {<<"t", "id", "x">>, <<"n", "tid", "x">>}}
                              \cup {NamedF, OnlyNamed(<<"p", "tr">>, <<"t", "id", "x">>)}}

\* %h1 is a register, and %h followed by a digit.  The hash table of libstdc++
\* has these four names in an order in which %h comes before %h1.
CollidingTexts ==
    LET h  == Named(<<"h">>)
        b  == Named(<<"b">>)
        h1 == Named(<<"h", "1">>)
        ls == <<NamedReg("b64", <<"a">>), NamedReg("b32", <<"h">>), NamedReg("b32", <<"b">>),
                NamedReg("b32", <<"h", "1">>),
                Inst("mov", "u32", <<h, Imm(1)>>), Inst("mov", "u32", <<b, Imm(2)>>),
                Inst("add", "u32", <<h1, h, b>>), Ret, Close>>
    IN  {Text(<<>>, ls), Text(<<>>, Ranges \o ls)}

\* Branches forward and back, over blank lines, with a scope of its own, to a
\* label that is not there, and past the end.
Jumps ==
    LET m(v) == Inst("mov", "u32", <<r0, Imm(v)>>)
    IN  {<<Bra("L2"), Label("L1"), m(1), Ret, Label("L2"), Skipped, m(2), Bra("L1"), Close>>,
         <<Label("L0"), Bra("L1"), m(1), Label("L1"), m(2), Bra("L2"), m(3), Label("L2"), Close>>,
         <<Blank, Bra("L1"), m(1), Label("L1"), m(2), Ret, Close>>,
         <<Blank, Blank, Bra("L1"), Label("L1"), Close>>,
         <<m(1), Skipped, m(2), Close, m(3), Ret, Close>>,
         <<Bra("L9"), Ret, Close>>,
         <<If(3, m(1)), Ret, Close>>,
         <<Inst("mov", "u32", <<r0, Symbol("x")>>), Ret, Close>>,
         <<Inst("mov", "u32", <<r0, Special(<<"c", "lock">>)>>), Ret, Close>>,
         <<Inst("mov", "u32", <<r0, Special(<<"n", "smid", "x">>)>>), Ret, Close>>,
         <<Inst("sub", "u32", <<r0, r0, r0>>), Ret, Close>>,
         <<Inst("add", "u32", <<f0, Named(<<"q">>), r0>>), Ret, Close>>,
         <<m(1), Ret>>}

JumpTexts == {Text(<<>>, Ranges \o ls) : ls \in Jumps}

\* Parameters of both sizes, one of a type that is not supported, and one
\* name twice.
ParamLists == {<<Decl("n", "u32"), Decl("p", "u64"), Decl("m", "u32")>>,
               <<Decl("p", "u64"), Decl("n", "u32")>>,
               <<Decl("n", "u32"), Decl("x", "f32"), Decl("m", "u32")>>,
               <<Decl("n", "u32"), Decl("n", "u32")>>}

ParamLoads(ps) ==
    LET reg(i) == IF ps[i].type = "u64" THEN Reg("rd", i - 1) ELSE Reg("r", i - 1)
        ls == [i \in DOMAIN ps |-> LdParam(ps[i].type, reg(i), ps[i].name)]
    IN  Ranges \o SelectSeq(ls, LAMBDA l : l.inst.type # "f32") \o <<Ret, Close>>

ParamTexts == {Text(ps, ParamLoads(ps)) : ps \in ParamLists}

MCTexts == Pairs \cup StackTexts \cup NamedTexts \cup CollidingTexts \cup JumpTexts \cup ParamTexts

-----------------------------------------------------------------------------
(* Launches.                                                               *)

MCDevicePtrs == {0, 50}

Plain == [via |-> "plain", args |-> <<>>]

ValueOf(type, i) == CASE type = "u64" -> 50 [] type = "u32" -> i + 8 [] OTHER -> 1

ByShim(ps) ==
    LET good == [i \in DOMAIN ps |-> ValueOf(ps[i].type, i)]
    IN  {[via |-> "shim", args |-> g] : g \in {good, [good EXCEPT ![1] = Null],
             [i \in DOMAIN ps |-> 3]}}

ByName(ps) ==
    LET names == {ps[i].name : i \in DOMAIN ps}
        idx(n) == CHOOSE i \in DOMAIN ps : ps[i].name = n
        good == [n \in names |-> [type |-> ps[idx(n)].type, value |-> ValueOf(ps[idx(n)].type, idx(n))]]
    IN  {[via |-> "workload", args |-> g] :
           g \in {good, [n \in names \ {"n"} |-> good[n]], [good EXCEPT !["n"].type = "u64"]}}

MCLaunchBound == [t \in MCTexts |-> IF t \in Pairs THEN 1 ELSE 2]

MCLaunchings ==
    [t \in MCTexts |-> IF t.params = <<>> THEN {Plain}
                       ELSE {Plain} \cup ByShim(t.params) \cup ByName(t.params)]
=============================================================================
