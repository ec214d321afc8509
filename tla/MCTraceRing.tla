---------------------------- MODULE MCTraceRing -----------------------------
(***************************************************************************)
(* TraceRing with rings that wrap, hold one event and hold none, and with  *)
(* tracing disabled.                                                       *)
(***************************************************************************)
EXTENDS TraceRing, TLC

MCCfgs == {[enabled |-> TRUE, trace_capacity |-> n] : n \in {0, 1, 3}}
            \cup {[enabled |-> FALSE, trace_capacity |-> 3]}

WorkerSymmetry == Permutations(Workers)
=============================================================================
