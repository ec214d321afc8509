----------------------------- MODULE MCWorkload -----------------------------
(***************************************************************************)
(* Workloads for TLC: every way to place up to two records and waits of    *)
(* two events in each of three streams, and some longer ones with kernels, *)
(* copies, syncs and commands the build phase refuses.                     *)
(***************************************************************************)
EXTENDS Workload

C(kind, e)    == [kind |-> kind, event |-> e, refs |-> "ok"]
Rec(e)        == C("event_record", e)
Wait(e)       == C("event_wait", e)
Kernel        == C("kernel", "a")
Copy          == C("copy", "a")
Sync          == C("sync", "a")
Bad(c, why)   == [c EXCEPT !.refs = why]

EventCmds == {Rec("a"), Rec("b"), Wait("a"), Wait("b")}
Short     == {<<>>} \cup {<<c>> : c \in EventCmds} \cup {<<c, d>> : c, d \in EventCmds}

EventPrograms == [Streams -> Short]

LongPrograms ==
  { \* a producer, a worker and a consumer
    << <<Copy, Kernel, Rec("a"), Copy>>, <<Wait("a"), Kernel, Rec("b")>>, <<Wait("b"), Copy, Sync>> >>,
    \* two streams that wait for each other
    << <<Wait("b"), Kernel, Rec("a")>>, <<Wait("a"), Kernel, Rec("b")>>, <<Copy, Sync>> >>,
    \* refused commands
    << <<Kernel, Bad(Copy, "ref")>>, <<Bad(Copy, "schema")>>, <<>> >>,
    << <<Copy>>, <<Sync, Bad(Kernel, "schema")>>, <<Bad(Kernel, "ref")>> >> }

MCPrograms == EventPrograms \cup LongPrograms
=============================================================================
