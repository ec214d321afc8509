----------------------------- MODULE DeviceMemory -----------------------------
(***************************************************************************)
(* Device memory as a CUDA program sees it: the shim's table of            *)
(* allocations (src/cuda/src/cudart_shim/device_memory.cpp) in front of    *)
(* the core's address space (src/src/memory/memory.cpp), which hands out   *)
(* addresses and holds the bytes.  All operations run one at a time, under *)
(* the shim's global mutex and the address space's own.                    *)
(*                                                                         *)
(* Addresses and sizes are unsigned machine integers: AddrLimit stands for *)
(* 2^64.  Copies go through a host buffer of their own, which is not part  *)
(* of the state.  A call that fails changes nothing here and is no step;   *)
(* when it may succeed is what Accepted says.                              *)
(***************************************************************************)
EXTENDS Integers, FiniteSets

CONSTANTS AddrLimit,   \* addresses and sizes are below it
          HostLimit,   \* host_alloc throws for more bytes than this
          FirstAddr,   \* initial next_global_addr_ (0x1000)
          Align,       \* alignment cudaMalloc asks for (16)
          AllocSizes,  \* arguments of cudaMalloc
          CopySizes,   \* arguments of cudaMemcpy and of a kernel's store
          Values,      \* bytes written
          MaxAllocs    \* bound: calls of alloc_global

Addrs == 0 .. AddrLimit - 1

ASSUME DeviceMemoryAssumption ==
    /\ AddrLimit \in Nat \ {0} /\ HostLimit \in Nat /\ MaxAllocs \in Nat
    /\ FirstAddr \in Addrs \ {0} /\ Align \in Addrs \ {0}
    /\ AllocSizes \subseteq Addrs \ {0} /\ CopySizes \subseteq Addrs \ {0}

VARIABLES next_global_addr,  \* AddrSpaceManager::next_global_addr_
          core,              \* AddrSpaceManager::allocs_, a set of ranges
          global,            \* AddrSpaceManager::global_, the bytes written
          live,              \* DeviceMemory::allocs_, base -> bytes
          read               \* what the last device-to-host copy delivered

vars == <<next_global_addr, core, global, live, read>>

Empty == [i \in {} |-> 0]

-----------------------------------------------------------------------------
(* Arithmetic modulo AddrLimit, and the two range checks.                  *)

\* The sum of two machine integers.
Wrap(x) == IF x < AddrLimit THEN x ELSE x - AddrLimit

AlignUp(v) == IF v % Align = 0 THEN v ELSE Wrap(v + (Align - (v % Align)))

\* Mutant: the end of the range is not tested for overflow.
GlobalRangeUnguarded(addr, n) ==
    \E a \in core : addr >= a.base /\ Wrap(addr + n) <= Wrap(a.base + a.size)

\* global_range_allocated_nolock
GlobalRangeAllocated(addr, n) ==
    LET end == Wrap(addr + n)
    IN  /\ end >= addr
        /\ \E a \in core : LET a_end == Wrap(a.base + a.size)
                           IN  a_end >= a.base /\ addr >= a.base /\ end <= a_end

\* find_allocation_containing looks at the nearest base at or below ptr.
Nearest(ptr) == {b \in DOMAIN live : b <= ptr /\ \A c \in DOMAIN live : c <= ptr => c <= b}

\* Mutant: one byte too few.
ValidRangeOneLess(ptr, n) ==
    \E b \in Nearest(ptr) : ptr - b < live[b] /\ Wrap(ptr - b + n) < live[b]

\* is_valid_device_range
ValidRange(ptr, n) ==
    \E b \in Nearest(ptr) : ptr - b < live[b] /\ Wrap(ptr - b + n) <= live[b]

\* DeviceMemory::memcpy carries out a copy of n bytes from or to ptr.
Accepted(ptr, n) ==
    /\ ptr # 0                          \* else cudaErrorInvalidValue
    /\ ValidRange(ptr, n)               \* else cudaErrorInvalidDevicePointer
    /\ n <= HostLimit                   \* else host_alloc throws
    /\ GlobalRangeAllocated(ptr, n)     \* else memcpy_h2d or memcpy_d2h throws

\* read_global: unwritten bytes are 0.
ByteAt(a)           == IF a \in DOMAIN global THEN global[a] ELSE 0
ReadGlobal(addr, n) == [i \in 0 .. n - 1 |-> ByteAt(Wrap(addr + i))]

\* write_global
WriteGlobal(addr, data) ==
    LET written == {Wrap(addr + i) : i \in DOMAIN data}
    IN  global' = [a \in DOMAIN global \cup written |->
                     IF a \in written
                     THEN data[IF a >= addr THEN a - addr ELSE a + AddrLimit - addr]
                     ELSE global[a]]

-----------------------------------------------------------------------------
Init ==
    /\ next_global_addr = FirstAddr
    /\ core = {} /\ global = Empty /\ live = Empty /\ read = Empty

(* The CUDA calls that succeed.                                            *)

\* Where alloc_global puts the next block.
NextBase == AlignUp(next_global_addr)

\* Mutant: the address space notes the block before it aligns the address.
MallocAlignedLate(n) ==
    LET base == NextBase
    IN  /\ Cardinality(core) < MaxAllocs
        /\ next_global_addr' = Wrap(base + n)
        /\ core' = core \cup {[base |-> next_global_addr, size |-> n]}
        /\ live' = [b \in DOMAIN live \cup {base} |-> IF b = base THEN n ELSE live[b]]
        /\ UNCHANGED <<global, read>>

\* cudaMalloc(n): alloc_global bumps the address, the shim notes the block.
Malloc(n) ==
    LET base == NextBase
    IN  /\ Cardinality(core) < MaxAllocs
        /\ next_global_addr' = Wrap(base + n)
        /\ core' = core \cup {[base |-> base, size |-> n]}
        /\ live' = [b \in DOMAIN live \cup {base} |-> IF b = base THEN n ELSE live[b]]
        /\ UNCHANGED <<global, read>>

\* cudaFree(b): only the shim forgets the block.
Free(b) ==
    /\ live' = [c \in DOMAIN live \ {b} |-> live[c]]
    /\ UNCHANGED <<next_global_addr, core, global, read>>

CopyHtoD(dst, n) ==
    /\ Accepted(dst, n)
    /\ \E data \in [0 .. n - 1 -> Values] : WriteGlobal(dst, data)
    /\ UNCHANGED <<next_global_addr, core, live, read>>

CopyDtoH(src, n) ==
    /\ Accepted(src, n)
    /\ read' = ReadGlobal(src, n)
    /\ UNCHANGED <<next_global_addr, core, global, live>>

\* Mutant: the bytes are copied one by one, upwards, without a buffer.
CopyDtoDInPlace(dst, src, n) ==
    /\ Accepted(dst, n) /\ Accepted(src, n)
    /\ WriteGlobal(dst, [i \in 0 .. n - 1 |->
                           IF src < dst /\ dst <= src + i
                           THEN ByteAt(src + (i % (dst - src))) ELSE ByteAt(src + i)])
    /\ UNCHANGED <<next_global_addr, core, live, read>>

CopyDtoD(dst, src, n) ==
    /\ Accepted(dst, n) /\ Accepted(src, n)
    /\ WriteGlobal(dst, ReadGlobal(src, n))
    /\ UNCHANGED <<next_global_addr, core, live, read>>

\* One lane of a kernel stores n bytes; only the core's check applies.
KernelStore(addr, n) ==
    /\ addr % n = 0
    /\ GlobalRangeAllocated(addr, n)
    /\ \E data \in [0 .. n - 1 -> Values] : WriteGlobal(addr, data)
    /\ UNCHANGED <<next_global_addr, core, live, read>>

Next ==
    \/ \E n \in AllocSizes : Malloc(n)
    \/ \E b \in DOMAIN live : Free(b)
    \/ \E a \in Addrs, n \in CopySizes : CopyHtoD(a, n) \/ CopyDtoH(a, n) \/ KernelStore(a, n)
    \/ \E dst, src \in Addrs, n \in CopySizes : CopyDtoD(dst, src, n)

Spec == Init /\ [][Next]_vars

-----------------------------------------------------------------------------
(* Properties.                                                             *)

Ranges == [base : Addrs, size : Addrs \ {0}]

(* Addresses and sizes stay machine integers, and every block the shim     *)
(* knows is one the address space handed out.                              *)
TypeOK ==
    /\ next_global_addr \in Addrs
    /\ core \subseteq Ranges
    /\ DOMAIN global \subseteq Addrs
    /\ DOMAIN live \subseteq Addrs
    /\ \A b \in DOMAIN live : [base |-> b, size |-> live[b]] \in core

\* [ptr, ptr + n) lies in one live block, in true integers.
Inside(ptr, n) == \E b \in DOMAIN live : b <= ptr /\ ptr + n <= b + live[b]

(* No copy that is carried out leaves a live block, however large the      *)
(* sizes: where is_valid_device_range is fooled by off + bytes wrapping    *)
(* around, the address space's own check refuses.                          *)
CopiesStayInside == \A ptr \in Addrs, n \in Addrs \ {0} : Accepted(ptr, n) => Inside(ptr, n)

(* Conversely no copy inside a live block is refused, whatever was         *)
(* allocated and freed around it.                                          *)
InsideIsAccepted ==
    \A ptr \in Addrs, n \in Addrs \ {0} : Inside(ptr, n) /\ n <= HostLimit => Accepted(ptr, n)

(* As long as the addresses have not wrapped around, the two tables and    *)
(* the sparse bytes behind them behave like a heap of disjoint blocks: a   *)
(* new block is zero although nothing clears it, a freed one no longer     *)
(* reaches the program, and overlapping copies lose nothing.               *)
Heap == [b \in DOMAIN live |-> [i \in 0 .. live[b] - 1 |-> ByteAt(b + i)]]

DH == INSTANCE DeviceHeap WITH heap <- Heap

BehavesAsHeap == DH!Spec
=============================================================================
