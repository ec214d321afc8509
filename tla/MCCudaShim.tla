----------------------------- MODULE MCCudaShim -----------------------------
(* Programs of few calls for CudaShim: two threads that call once each, at *)
(* the same time, and one that calls twice and nests its launches.       *)
EXTENDS CudaShim

MCBudgets == {[t1 |-> 1, t2 |-> 1, t3 |-> 0], [t1 |-> 0, t2 |-> 0, t3 |-> 2]}
MCMaxNest == [t1 |-> 1, t2 |-> 1, t3 |-> 2]
=============================================================================
