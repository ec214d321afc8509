----------------------------- MODULE LaunchGrid -----------------------------
(***************************************************************************)
(* The geometry of a launch: how SimtExecutor::run                         *)
(* (src/src/simt/simt.cpp) cuts a grid of blocks into CTAs, warps and      *)
(* lanes, and how the memory unit (src/src/units/mem_unit.cpp) finds out   *)
(* from a warp and a lane which thread it works for.                       *)
(*                                                                         *)
(* A launch l is a record of grid_dim, block_dim (records x, y, z) and     *)
(* warp_size, the configuration's where the caller gave none.              *)
(***************************************************************************)
EXTENDS Integers

CONSTANTS WordLimit,   \* 2^64: one more than the largest std::uint64_t
          LaneBaseLimit, \* 2^32: one more than the largest std::uint32_t, the type of
                       \* a warp's number and of its first thread's place
          MaxWarpSize, \* 32, the width of a lane mask
          LocalStride  \* kLocalStride, the bytes of a thread's local window

ASSUME LaunchGridAssumption ==
    {WordLimit, LaneBaseLimit, MaxWarpSize, LocalStride} \subseteq Nat \ {0}

Dim3(X, Y, Z) == [x : X, y : Y, z : Z]

\* The coordinates inside a dimension.
Below(n) == {i \in 0 .. n : i < n}
Inside(d) == Dim3(Below(d.x), Below(d.y), Below(d.z))

-----------------------------------------------------------------------------
(* What run makes of a launch.                                             *)

Volume(d) == d.x * d.y * d.z

\* The diagnostic a launch is refused with.
LaunchDiag(l) ==
    IF Volume(l.grid_dim) = 0 \/ Volume(l.block_dim) = 0 THEN "E_LAUNCH_DIM"
    ELSE IF Volume(l.block_dim) >= WordLimit THEN "E_LAUNCH_OVERFLOW"
    ELSE IF l.warp_size = 0 \/ l.warp_size > MaxWarpSize THEN "E_WARP_SIZE"
    ELSE "none"

ThreadsPerBlock(l) == Volume(l.block_dim)

WarpCount(l) == (ThreadsPerBlock(l) + l.warp_size - 1) \div l.warp_size
WarpIds(l)   == Below(WarpCount(l))

\* The loop that sets up the warps of a CTA counts them in 32 bits: with more
\* warps than that it never ends.
SetUpEnds(l) == WarpCount(l) < LaneBaseLimit

\* lane_base_thread_linear, the product of two numbers of 32 bits.
LaneBase(l, w) == (w * l.warp_size) % LaneBaseLimit

\* The lanes of warp w that have a thread, as run counts them ...
LanesOn(l, w) ==
    LET remaining == IF ThreadsPerBlock(l) > LaneBase(l, w)
                     THEN ThreadsPerBlock(l) - LaneBase(l, w) ELSE 0
    IN  IF remaining >= l.warp_size THEN l.warp_size ELSE remaining

\* ... and the mask lane_mask_prefix turns the count into.
ActiveLanes(l, w) == Below(LanesOn(l, w))

\* The position of a CTA in the order of submission.
CtaLinear(l, id) == (id.z * l.grid_dim.y + id.y) * l.grid_dim.x + id.x

-----------------------------------------------------------------------------
(* What the memory unit makes of a warp and a lane.                        *)

\* Mutant: z is divided by the width of a row only.
TidRowwise(l, w, lane) ==
    LET i == LaneBase(l, w) + lane
    IN  [x |-> i % l.block_dim.x,
         y |-> (i \div l.block_dim.x) % l.block_dim.y,
         z |-> i \div l.block_dim.x]

\* The special registers tid.x, tid.y and tid.z.
Tid(l, w, lane) ==
    LET i == LaneBase(l, w) + lane
    IN  [x |-> i % l.block_dim.x,
         y |-> (i \div l.block_dim.x) % l.block_dim.y,
         z |-> i \div (l.block_dim.x * l.block_dim.y)]

\* Mutant: the CTAs are taken to be one warp apart.
ThreadLinearGlobalByWarp(l, id, w, lane) ==
    (id.x + l.grid_dim.x * (id.y + l.grid_dim.y * id.z)) * l.warp_size
      + LaneBase(l, w) + lane

ThreadLinearGlobal(l, id, w, lane) ==
    (id.x + l.grid_dim.x * (id.y + l.grid_dim.y * id.z)) * ThreadsPerBlock(l)
      + LaneBase(l, w) + lane

LocalEffectiveAddr(l, id, w, lane, a) ==
    (ThreadLinearGlobal(l, id, w, lane) * LocalStride + a) % WordLimit
=============================================================================
