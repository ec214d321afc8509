---------------------------- MODULE MCSmWorkers -----------------------------
(***************************************************************************)
(* The configurations TLC runs SmWorkers with.                             *)
(***************************************************************************)
EXTENDS SmWorkers

\* Three SMs compete for one queue.
FifoConfig ==
    [sm_count |-> 3, parallel |-> TRUE, deterministic |-> FALSE,
     cta_scheduler |-> "fifo", warp_scheduler |-> "round_robin_interleave_step",
     max_steps |-> 2, num_ctas |-> 4, num_warps |-> 1]

\* A queue for each of two SMs, warps run one after the other.
QueuePerSmConfig ==
    [sm_count |-> 2, parallel |-> TRUE, deterministic |-> FALSE,
     cta_scheduler |-> "sm_round_robin", warp_scheduler |-> "in_order_run_to_completion",
     max_steps |-> 3, num_ctas |-> 4, num_warps |-> 2]

\* deterministic overrides parallel: one SM, three warps interleaved.
SerialConfig ==
    [sm_count |-> 2, parallel |-> TRUE, deterministic |-> TRUE,
     cta_scheduler |-> "fifo", warp_scheduler |-> "round_robin_interleave_step",
     max_steps |-> 5, num_ctas |-> 3, num_warps |-> 3]

AllConfigs == {FifoConfig, QueuePerSmConfig, SerialConfig}
=============================================================================
