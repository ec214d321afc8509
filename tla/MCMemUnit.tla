----------------------------- MODULE MCMemUnit ------------------------------
(***************************************************************************)
(* The launches and parameters TLC runs MemUnit with.                      *)
(***************************************************************************)
EXTENDS MemUnit, TLC

D(x, y, z) == [x |-> x, y |-> y, z |-> z]
L(g, b, w, c) == [grid_dim |-> g, block_dim |-> b, warp_size |-> w, cta_scheduler |-> c]

\* Two CTAs of two warps of one lane, and two CTAs of one warp of two lanes,
\* dealt out in both ways.
TwoWarps    == L(D(2, 1, 1), D(2, 1, 1), 1, "sm_round_robin")
TwoLanes(c) == L(D(1, 2, 1), D(1, 2, 1), 2, c)
LanesEither == {TwoLanes("fifo"), TwoLanes("sm_round_robin")}

\* Launches whose geometry is checked: also refused ones, three-dimensional
\* ones, and ones whose last warp is not full.
GeometryLaunches ==
    {L(D(gx, gy, 2), D(bx, by, bz), w, "fifo") :
       gx \in 0 .. 2, gy \in 1 .. 3, bx \in 1 .. 3, by \in 0 .. 2, bz \in 1 .. 2, w \in {0, 2, 3, 5}}

\* Blocks at and beyond the width of a place, LaneBaseLimit = 16: also some with
\* too many warps to count, and one refused for its volume.
WideLaunches ==
    {L(D(1, 1, 1), d, w, "fifo") :
       d \in {D(5, 3, 1), D(4, 4, 1), D(17, 1, 1), D(3, 3, 2), D(4, 4, 5)}, w \in 1 .. 4}

AllLaunches == {TwoWarps} \cup LanesEither \cup GeometryLaunches \cup WideLaunches

OpsOf == [l \in AllLaunches |-> CASE l = TwoWarps -> 3 [] l \in LanesEither -> 2 [] OTHER -> 0]

ParamLayout == ("n" :> [offset |-> 0, value |-> 14, size |-> 4])
                 @@ ("m" :> [offset |-> 4, value |-> 1, size |-> 2])

ASSUME WordsAssumption == WordSizes /\ ParamsApart /\ NoPadding
=============================================================================
