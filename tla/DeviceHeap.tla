------------------------------ MODULE DeviceHeap ------------------------------
(***************************************************************************)
(* What cudaMalloc, cudaFree and cudaMemcpy promise: a heap of disjoint    *)
(* blocks.  A new block reads as zero, its bytes change only when somebody *)
(* writes to that block, and a copy delivers the bytes as they are.        *)
(***************************************************************************)
EXTENDS Integers

CONSTANTS Addrs, AllocSizes, CopySizes, Values

VARIABLES heap,   \* the live blocks: base address -> bytes
          read    \* what the last copy to the host delivered

vars == <<heap, read>>

Empty == [i \in {} |-> 0]

Blocks         == DOMAIN heap
Range(a, n)    == a .. a + n - 1
Extent(b)      == {b + i : i \in DOMAIN heap[b]}
Bytes(a, n)    == [i \in 0 .. n - 1 |->
                     LET b == CHOOSE c \in Blocks : a + i \in Extent(c) IN heap[b][a + i - b]]
InBlock(a, n)  == \E b \in Blocks : Range(a, n) \subseteq Extent(b)

Init == heap = Empty /\ read = Empty

Alloc(b, n) ==
    /\ b \notin Blocks
    /\ \A c \in Blocks : Extent(c) \cap Range(b, n) = {}
    /\ heap' = [c \in Blocks \cup {b} |-> IF c = b THEN [i \in 0 .. n - 1 |-> 0] ELSE heap[c]]
    /\ UNCHANGED read

Free(b) ==
    /\ heap' = [c \in Blocks \ {b} |-> heap[c]]
    /\ UNCHANGED read

\* The n bytes of data are written from address a on, into one block.
Write(a, n, data) ==
    /\ InBlock(a, n)
    /\ heap' = [b \in Blocks |-> [i \in DOMAIN heap[b] |->
                  IF b + i \in Range(a, n) THEN data[b + i - a] ELSE heap[b][i]]]
    /\ UNCHANGED read

Read(a, n) ==
    /\ InBlock(a, n)
    /\ read' = Bytes(a, n)
    /\ UNCHANGED heap

Copy(dst, src, n) == InBlock(src, n) /\ Write(dst, n, Bytes(src, n))

Next ==
    \/ \E b \in Addrs, n \in AllocSizes : Alloc(b, n)
    \/ \E b \in Blocks : Free(b)
    \/ \E a \in Addrs, n \in CopySizes : Read(a, n)
    \/ \E a \in Addrs, n \in CopySizes : \E data \in [0 .. n - 1 -> Values] : Write(a, n, data)
    \/ \E a, s \in Addrs, n \in CopySizes : Copy(a, s, n)

Spec == Init /\ [][Next]_vars
=============================================================================
