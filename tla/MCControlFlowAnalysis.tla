------------------------ MODULE MCControlFlowAnalysis ------------------------
(***************************************************************************)
(* All kernels of at most MaxLen instructions over an instruction alphabet *)
(* with every way an instruction can direct control.                       *)
(***************************************************************************)
EXTENDS ControlFlowAnalysis

CONSTANT MaxLen

I(uops, pred, has_desc) ==
    [uops |-> uops, has_desc |-> has_desc, pred |-> pred, pred_id |-> 0]
U(op, arg) == [op |-> op, arg |-> arg]

\* targets is the set of branch targets; one that is >= n is out of range.
Alphabet(targets) ==
    {I(<<U("exec", NoPc)>>, "none", TRUE), I(<<U("ret", NoPc)>>, "none", TRUE)}
    \cup {I(<<U("bra", t)>>, pred, TRUE) : t \in targets, pred \in {"none", "pos"}}

\* Rarer shapes, for the short kernels only.
Oddities ==
    {I(<<U("bra", 0)>>, "pos", FALSE), I(<<U("ret", NoPc)>>, "neg", TRUE),
     I(<<U("bra", NoPc)>>, "none", TRUE), I(<<U("bra", NoPc)>>, "pos", TRUE),
     I(<<U("bra", 0), U("bra", 1)>>, "pos", TRUE),
     I(<<U("bra", 0), U("ret", NoPc)>>, "pos", TRUE)}

Kernels(n, alphabet) == {[n |-> n, insts |-> f] : f \in [0 .. n - 1 -> alphabet]}

MCImages ==
    UNION {Kernels(n, Alphabet(0 .. n)) : n \in 0 .. MaxLen - 1}
    \cup Kernels(MaxLen, Alphabet(0 .. MaxLen - 1))
    \cup Kernels(3, Alphabet(0 .. 2) \cup Oddities)
=============================================================================
