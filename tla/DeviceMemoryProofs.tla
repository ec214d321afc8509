-------------------------- MODULE DeviceMemoryProofs --------------------------
(***************************************************************************)
(* Proofs about DeviceMemory, for every width of the addresses, every      *)
(* alignment and every sequence of calls: no copy leaves a live block, and *)
(* while the addresses do not wrap around the whole is a heap.             *)
(***************************************************************************)
EXTENDS DeviceMemory, FiniteSetTheorems, TLAPS

-----------------------------------------------------------------------------
(* Machine arithmetic stays within the machine's integers.                 *)

(* The sum of two machine integers is one.                                 *)
LEMMA WrapType ==
    ASSUME NEW x \in Addrs, NEW y \in 0 .. AddrLimit
    PROVE  Wrap(x + y) \in Addrs
BY DeviceMemoryAssumption DEF Addrs, Wrap

(* align_up returns an address.                                            *)
LEMMA AlignUpType ==
    ASSUME NEW v \in Addrs
    PROVE  AlignUp(v) \in Addrs
<1>1. v % Align \in 0 .. Align - 1
  BY DeviceMemoryAssumption DEF Addrs
<1> DEFINE r == v % Align
<1>2. Align - r \in 0 .. AddrLimit
  BY <1>1, DeviceMemoryAssumption DEF Addrs
<1> HIDE DEF r
<1>3. Wrap(v + (Align - r)) \in Addrs
  BY <1>2, WrapType
<1>4. QED
  BY <1>3 DEF AlignUp, r

(* write_global leaves only addresses in the sparse map.                   *)
LEMMA WriteGlobalType ==
    ASSUME NEW addr \in Addrs, NEW n \in CopySizes, NEW data,
           DOMAIN data = 0 .. n - 1, DOMAIN global \subseteq Addrs,
           WriteGlobal(addr, data)
    PROVE  (DOMAIN global)' \subseteq Addrs
<1>1. n \in 0 .. AddrLimit
  BY DeviceMemoryAssumption DEF Addrs
<1>2. \A i \in 0 .. n - 1 : i \in 0 .. AddrLimit
  BY <1>1, DeviceMemoryAssumption
<1>3. {Wrap(addr + i) : i \in DOMAIN data} \subseteq Addrs
  BY <1>2, WrapType
<1>4. (DOMAIN global)' = DOMAIN global \cup {Wrap(addr + i) : i \in DOMAIN data}
  BY DEF WriteGlobal
<1>5. QED
  BY <1>3, <1>4

-----------------------------------------------------------------------------
(* TypeOK is inductive.                                                    *)

LEMMA InitTypeOK == Init => TypeOK
BY DeviceMemoryAssumption DEF Init, TypeOK, Empty

(* cudaMalloc keeps the two tables in step.                                *)
LEMMA MallocTypeOK ==
    ASSUME TypeOK, NEW n \in AllocSizes, Malloc(n)
    PROVE  TypeOK'
<1> DEFINE base == NextBase
           blk  == [base |-> base, size |-> n]
<1>1. base \in Addrs
  BY AlignUpType DEF TypeOK, NextBase
<1>2. n \in Addrs \ {0} /\ n \in 0 .. AddrLimit
  BY DeviceMemoryAssumption DEF Addrs
<1>3. Wrap(base + n) \in Addrs
  BY <1>1, <1>2, WrapType
<1>4. /\ next_global_addr' = Wrap(base + n)
      /\ core' = core \cup {blk}
      /\ live' = [b \in DOMAIN live \cup {base} |-> IF b = base THEN n ELSE live[b]]
      /\ UNCHANGED <<global, read>>
  BY DEF Malloc
<1>5. blk \in Ranges
  BY <1>1, <1>2 DEF Ranges
<1> HIDE DEF base, blk
<1>6. core' \subseteq Ranges /\ (DOMAIN global)' \subseteq Addrs /\ next_global_addr' \in Addrs
  BY <1>3, <1>4, <1>5 DEF TypeOK
<1>7. DOMAIN live' = DOMAIN live \cup {base} /\ DOMAIN live' \subseteq Addrs
  BY <1>1, <1>4 DEF TypeOK
<1>8. ASSUME NEW b \in DOMAIN live' PROVE [base |-> b, size |-> live'[b]] \in core'
  <2>1. CASE b = base
    BY <2>1, <1>4, <1>7 DEF blk
  <2>2. CASE b # base
    BY <2>2, <1>4, <1>7 DEF TypeOK
  <2>3. QED
    BY <2>1, <2>2
<1>9. QED
  BY <1>6, <1>7, <1>8 DEF TypeOK

(* cudaFree only removes a block from the shim's table.                    *)
LEMMA FreeTypeOK ==
    ASSUME TypeOK, NEW b, Free(b)
    PROVE  TypeOK'
BY DEF TypeOK, Free

(* What a copy or a store writes is written at addresses.                  *)
LEMMA AccessTypeOK ==
    ASSUME TypeOK, UNCHANGED <<next_global_addr, core, live>>,
           (DOMAIN global)' \subseteq Addrs
    PROVE  TypeOK'
BY DEF TypeOK

(* Every call preserves TypeOK.                                            *)
LEMMA NextTypeOK == TypeOK /\ [Next]_vars => TypeOK'
<1> SUFFICES ASSUME TypeOK, [Next]_vars PROVE TypeOK'
  OBVIOUS
<1> USE DEF TypeOK
<1>1. ASSUME NEW n \in AllocSizes, Malloc(n) PROVE TypeOK'
  BY <1>1, MallocTypeOK
<1>2. ASSUME NEW b \in DOMAIN live, Free(b) PROVE TypeOK'
  BY <1>2, FreeTypeOK
<1>3. ASSUME NEW a \in Addrs, NEW n \in CopySizes, CopyHtoD(a, n) \/ KernelStore(a, n)
      PROVE  TypeOK'
  <2>1. PICK data \in [0 .. n - 1 -> Values] : WriteGlobal(a, data)
    BY <1>3 DEF CopyHtoD, KernelStore
  <2>2. (DOMAIN global)' \subseteq Addrs
    BY <2>1, WriteGlobalType
  <2>3. QED
    BY <1>3, <2>2, AccessTypeOK DEF CopyHtoD, KernelStore
<1>4. ASSUME NEW a \in Addrs, NEW n \in CopySizes, CopyDtoH(a, n) PROVE TypeOK'
  BY <1>4, AccessTypeOK DEF CopyDtoH
<1>5. ASSUME NEW dst \in Addrs, NEW src \in Addrs, NEW n \in CopySizes, CopyDtoD(dst, src, n)
      PROVE  TypeOK'
  <2>1. WriteGlobal(dst, ReadGlobal(src, n)) /\ DOMAIN ReadGlobal(src, n) = 0 .. n - 1
    BY <1>5 DEF CopyDtoD, ReadGlobal
  <2>2. (DOMAIN global)' \subseteq Addrs
    BY <2>1, WriteGlobalType
  <2>3. QED
    BY <1>5, <2>2, AccessTypeOK DEF CopyDtoD
<1>6. CASE UNCHANGED vars
  BY <1>6, AccessTypeOK DEF vars
<1>7. QED
  BY <1>1, <1>2, <1>3, <1>4, <1>5, <1>6 DEF Next

-----------------------------------------------------------------------------
(* The theorems.                                                           *)

(* Addresses stay machine integers, and each block in the shim's table is  *)
(* one that alloc_global handed out.                                       *)
THEOREM TypeCorrect == Spec => []TypeOK
BY InitTypeOK, NextTypeOK, PTL DEF Spec

(* The two range checks together are exact about the end of the range:     *)
(* if ptr + n wraps around, global_range_allocated_nolock refuses; if it   *)
(* does not, neither does the sum is_valid_device_range computes.          *)
LEMMA AcceptedIsInside ==
    ASSUME TypeOK, NEW ptr \in Addrs, NEW n \in Addrs \ {0}, Accepted(ptr, n)
    PROVE  Inside(ptr, n)
<1>1. PICK b \in Nearest(ptr) : ptr - b < live[b] /\ Wrap(ptr - b + n) <= live[b]
  BY DEF Accepted, ValidRange
<1>2. b \in DOMAIN live /\ b <= ptr /\ b \in Addrs
  BY <1>1 DEF Nearest, TypeOK
<1>3. live[b] \in Addrs
  <2>1. [base |-> b, size |-> live[b]] \in Ranges
    BY <1>2 DEF TypeOK
  <2>2. QED
    BY <2>1 DEF Ranges
<1>4. Wrap(ptr + n) >= ptr
  BY DEF Accepted, GlobalRangeAllocated
<1>5. ptr + n < AddrLimit
  BY <1>4, DeviceMemoryAssumption DEF Wrap, Addrs
<1>6. Wrap(ptr - b + n) = ptr - b + n
  BY <1>2, <1>5, DeviceMemoryAssumption DEF Wrap, Addrs
<1>7. ptr + n <= b + live[b]
  BY <1>1, <1>2, <1>3, <1>6, DeviceMemoryAssumption DEF Addrs
<1>8. QED
  BY <1>2, <1>7 DEF Inside

(* No copy that DeviceMemory::memcpy carries out leaves a live block, for  *)
(* every address width and every sequence of allocations, wrapped or not.  *)
THEOREM CopiesAreSafe == Spec => []CopiesStayInside
<1>1. TypeOK => CopiesStayInside
  BY AcceptedIsInside DEF CopiesStayInside
<1>2. QED
  BY <1>1, TypeCorrect, PTL

-----------------------------------------------------------------------------
(* While the addresses have not wrapped around.                            *)

\* The bump pointer does not pass the end of the address space.
Unwrapped ==
    \A n \in AllocSizes : Malloc(n) => next_global_addr <= NextBase /\ NextBase + n < AddrLimit

Apart(a, b) == a.base + a.size <= b.base \/ b.base + b.size <= a.base

\* Then blocks never overlap, freed ones included, and nothing has been
\* written beyond them.
BumpOK ==
    /\ next_global_addr >= FirstAddr
    /\ \A a \in core : FirstAddr <= a.base /\ a.base + a.size <= next_global_addr
    /\ \A a, b \in core : a = b \/ Apart(a, b)
    /\ \A x \in DOMAIN global : x < next_global_addr

IInv == TypeOK /\ BumpOK

\* What the shim's table says of a block.
LEMMA LiveBlock ==
    ASSUME IInv, NEW b \in DOMAIN live
    PROVE  /\ [base |-> b, size |-> live[b]] \in core
           /\ b \in Addrs /\ live[b] \in Addrs \ {0}
           /\ FirstAddr <= b /\ b + live[b] <= next_global_addr
           /\ next_global_addr < AddrLimit /\ AddrLimit \in Nat /\ FirstAddr \in Nat \ {0}
<1>1. [base |-> b, size |-> live[b]] \in core
  BY DEF IInv, TypeOK
<1>2. b \in Addrs /\ live[b] \in Addrs \ {0}
  BY <1>1 DEF IInv, TypeOK, Ranges
<1>3. FirstAddr <= b /\ b + live[b] <= next_global_addr
  BY <1>1 DEF IInv, BumpOK
<1>4. next_global_addr < AddrLimit /\ AddrLimit \in Nat /\ FirstAddr \in Nat \ {0}
  BY DeviceMemoryAssumption DEF IInv, TypeOK, Addrs
<1> QED BY <1>1, <1>2, <1>3, <1>4

LEMMA LiveApart ==
    ASSUME IInv, NEW b \in DOMAIN live, NEW c \in DOMAIN live, b # c
    PROVE  b + live[b] <= c \/ c + live[c] <= b
<1> DEFINE x == [base |-> b, size |-> live[b]]
           y == [base |-> c, size |-> live[c]]
<1>1. x \in core /\ y \in core /\ x # y
  BY LiveBlock
<1>2. Apart(x, y)
  <2> HIDE DEF x, y
  <2> QED BY <1>1 DEF IInv, BumpOK
<1> QED BY <1>2 DEF Apart

\* A copy inside a live block passes both checks.
LEMMA InsideAccepted ==
    ASSUME IInv, NEW ptr \in Addrs, NEW n \in Addrs \ {0}, Inside(ptr, n), n <= HostLimit
    PROVE  Accepted(ptr, n)
<1>1. PICK b \in DOMAIN live : b <= ptr /\ ptr + n <= b + live[b]
  BY DEF Inside
<1>2. /\ [base |-> b, size |-> live[b]] \in core
      /\ b \in Nat /\ live[b] \in Nat /\ ptr \in Nat /\ n \in Nat \ {0} /\ b > 0
      /\ b + live[b] < AddrLimit /\ live[b] < AddrLimit /\ AddrLimit \in Nat
  BY LiveBlock DEF IInv, TypeOK, Addrs
<1>3. b \in Nearest(ptr)
  <2> SUFFICES ASSUME NEW c \in DOMAIN live, c <= ptr, c # b PROVE c <= b
    BY <1>1, <1>2 DEF Nearest
  <2>1. c \in Nat /\ live[c] \in Nat
    <3>1. c \in Addrs /\ live[c] \in Addrs \ {0}
      BY LiveBlock
    <3> QED BY <3>1 DEF Addrs
  <2>2. b + live[b] <= c \/ c + live[c] <= b
    BY LiveApart
  <2> QED BY <1>1, <1>2, <2>1, <2>2
<1>4. ValidRange(ptr, n)
  <2>1. ptr - b < live[b] /\ Wrap(ptr - b + n) <= live[b]
    BY <1>1, <1>2 DEF Wrap
  <2> QED BY <1>3, <2>1 DEF ValidRange
<1>5. GlobalRangeAllocated(ptr, n)
  <2>1. Wrap(ptr + n) = ptr + n /\ Wrap(b + live[b]) = b + live[b]
    BY <1>1, <1>2 DEF Wrap
  <2> DEFINE a == [base |-> b, size |-> live[b]]
  <2>2. /\ a \in core /\ Wrap(a.base + a.size) >= a.base /\ ptr >= a.base
        /\ Wrap(ptr + n) <= Wrap(a.base + a.size)
    BY <1>1, <1>2, <2>1
  <2>3. Wrap(ptr + n) >= ptr
    BY <1>2, <2>1
  <2> HIDE DEF a
  <2> QED BY <2>2, <2>3 DEF GlobalRangeAllocated
<1> QED BY <1>1, <1>2, <1>4, <1>5 DEF Accepted

-----------------------------------------------------------------------------
(* What the calls do to the bytes.                                         *)

\* The core's check means what it says.
LEMMA AllocatedMeans ==
    ASSUME IInv, NEW addr \in Addrs, NEW n \in Addrs \ {0}, GlobalRangeAllocated(addr, n)
    PROVE  \E a \in core : a.base <= addr /\ addr + n <= a.base + a.size
<1>1. AddrLimit \in Nat /\ addr \in Nat /\ addr < AddrLimit /\ n \in Nat \ {0} /\ n < AddrLimit
  BY DeviceMemoryAssumption DEF Addrs
<1>2. PICK a \in core : Wrap(addr + n) >= addr /\ addr >= a.base
                        /\ Wrap(addr + n) <= Wrap(a.base + a.size)
  BY DEF GlobalRangeAllocated
<1>3. /\ a.base \in Nat /\ a.size \in Nat
      /\ a.base + a.size <= next_global_addr /\ next_global_addr \in Nat /\ next_global_addr < AddrLimit
  BY DeviceMemoryAssumption DEF IInv, TypeOK, BumpOK, Ranges, Addrs
<1>4. Wrap(a.base + a.size) = a.base + a.size /\ Wrap(addr + n) = addr + n
  BY <1>1, <1>2, <1>3 DEF Wrap
<1> QED BY <1>2, <1>4

\* write_global changes the bytes of the range and no others.
LEMMA WriteMeans ==
    ASSUME IInv, NEW addr \in Addrs, NEW n \in Addrs \ {0}, GlobalRangeAllocated(addr, n),
           NEW data, DOMAIN data = 0 .. n - 1, WriteGlobal(addr, data)
    PROVE  /\ \A x \in DOMAIN global' : x \in DOMAIN global \/ x < next_global_addr
           /\ \A x \in Nat : ByteAt(x)' = IF x \in addr .. addr + n - 1 THEN data[x - addr] ELSE ByteAt(x)
<1>0. addr \in Nat /\ n \in Nat \ {0}
  BY DEF Addrs
<1>1. addr + n <= next_global_addr /\ next_global_addr \in Nat /\ next_global_addr < AddrLimit
  <2>1. PICK a \in core : a.base <= addr /\ addr + n <= a.base + a.size
    BY AllocatedMeans
  <2>2. /\ a.base \in Nat /\ a.size \in Nat
        /\ a.base + a.size <= next_global_addr /\ next_global_addr \in Nat /\ next_global_addr < AddrLimit
    BY DeviceMemoryAssumption DEF IInv, TypeOK, BumpOK, Ranges, Addrs
  <2> QED BY <1>0, <2>1, <2>2
<1>2. \A i \in 0 .. n - 1 : Wrap(addr + i) = addr + i
  BY <1>0, <1>1, DeviceMemoryAssumption DEF Wrap
<1> DEFINE written == {Wrap(addr + i) : i \in DOMAIN data}
<1>3. written = addr .. addr + n - 1
  <2>1. ASSUME NEW x \in addr .. addr + n - 1 PROVE x \in written
    <3>1. x - addr \in 0 .. n - 1 /\ x = addr + (x - addr)
      BY <1>0
    <3>2. Wrap(addr + (x - addr)) = x
      BY <1>2, <3>1
    <3> QED BY <3>1, <3>2
  <2>2. ASSUME NEW i \in 0 .. n - 1 PROVE Wrap(addr + i) \in addr .. addr + n - 1
    BY <1>0, <1>2
  <2> QED BY <2>1, <2>2
<1>4. global' = [x \in DOMAIN global \cup written |->
                   IF x \in written
                   THEN data[IF x >= addr THEN x - addr ELSE x + AddrLimit - addr]
                   ELSE global[x]]
  BY DEF WriteGlobal
<1> HIDE DEF written
<1>5. /\ DOMAIN global' = DOMAIN global \cup (addr .. addr + n - 1)
      /\ \A x \in addr .. addr + n - 1 : global'[x] = data[x - addr]
      /\ \A x \in DOMAIN global : x \notin addr .. addr + n - 1 => global'[x] = global[x]
  BY <1>0, <1>3, <1>4
<1>6. \A x \in addr .. addr + n - 1 : x < next_global_addr
  BY <1>0, <1>1
<1>7. ASSUME NEW x \in Nat
      PROVE  ByteAt(x)' = IF x \in addr .. addr + n - 1 THEN data[x - addr] ELSE ByteAt(x)
  BY <1>5 DEF ByteAt
<1> QED BY <1>5, <1>6, <1>7

-----------------------------------------------------------------------------
(* BumpOK is inductive while the addresses do not wrap.                    *)

LEMMA MallocBumpOK ==
    ASSUME IInv, NEW n \in AllocSizes, Malloc(n),
           next_global_addr <= NextBase, NextBase + n < AddrLimit
    PROVE  BumpOK'
<1>1. NextBase \in Addrs /\ n \in Nat \ {0} /\ next_global_addr \in Nat /\ FirstAddr \in Nat
  BY AlignUpType, DeviceMemoryAssumption DEF IInv, TypeOK, NextBase, Addrs
<1> DEFINE blk == [base |-> NextBase, size |-> n]
<1>2. core' = core \cup {blk} /\ global' = global /\ next_global_addr' = NextBase + n
  BY <1>1 DEF Malloc, Wrap
<1> HIDE DEF NextBase
<1>3. blk.base = NextBase /\ blk.size = n /\ NextBase \in Nat
  BY <1>1 DEF Addrs
<1> HIDE DEF blk
<1>4. \A a \in core : a.base \in Nat /\ a.size \in Nat /\ FirstAddr <= a.base
                      /\ a.base + a.size <= next_global_addr
  BY DeviceMemoryAssumption DEF IInv, TypeOK, BumpOK, Ranges, Addrs
<1>5. \A a \in core : Apart(a, blk) /\ Apart(blk, a)
  BY <1>1, <1>3, <1>4 DEF Apart
<1>6. next_global_addr' >= FirstAddr /\ next_global_addr <= next_global_addr'
  BY <1>1, <1>2, <1>3 DEF IInv, BumpOK
<1>7. \A a \in core' : FirstAddr <= a.base /\ a.base + a.size <= next_global_addr'
  BY <1>1, <1>2, <1>3, <1>4 DEF IInv, BumpOK
<1>8. \A a, b \in core' : a = b \/ Apart(a, b)
  BY <1>2, <1>5 DEF IInv, BumpOK
<1>9. \A x \in DOMAIN global' : x < next_global_addr'
  BY <1>1, <1>2, <1>3 DEF IInv, TypeOK, BumpOK, Addrs
<1> QED BY <1>6, <1>7, <1>8, <1>9 DEF BumpOK

LEMMA WriteBumpOK ==
    ASSUME IInv, UNCHANGED <<next_global_addr, core>>,
           \A x \in DOMAIN global' : x \in DOMAIN global \/ x < next_global_addr
    PROVE  BumpOK'
BY DEF IInv, BumpOK, Apart

-----------------------------------------------------------------------------
(* The two tables and the bytes are a heap.                                *)

\* The heap that DeviceMemory stands for.
LEMMA HeapIs ==
    ASSUME IInv
    PROVE  /\ DOMAIN Heap = DOMAIN live
           /\ \A b \in DOMAIN live :
                /\ b \in Nat /\ live[b] \in Nat \ {0}
                /\ Heap[b] = [i \in 0 .. live[b] - 1 |-> ByteAt(b + i)]
                /\ DOMAIN Heap[b] = 0 .. live[b] - 1
                /\ DH!Extent(b) = b .. b + live[b] - 1
<1>1. DOMAIN Heap = DOMAIN live
  BY DEF Heap
<1>2. ASSUME NEW b \in DOMAIN live
      PROVE  /\ b \in Nat /\ live[b] \in Nat \ {0}
             /\ Heap[b] = [i \in 0 .. live[b] - 1 |-> ByteAt(b + i)]
             /\ DOMAIN Heap[b] = 0 .. live[b] - 1
             /\ DH!Extent(b) = b .. b + live[b] - 1
  <2>1. b \in Nat /\ live[b] \in Nat \ {0}
    <3>1. b \in Addrs /\ live[b] \in Addrs \ {0}
      BY LiveBlock
    <3> QED BY <3>1 DEF Addrs
  <2>2. Heap[b] = [i \in 0 .. live[b] - 1 |-> ByteAt(b + i)]
    BY DEF Heap
  <2>3. DOMAIN Heap[b] = 0 .. live[b] - 1
    BY <2>2
  <2>4. {b + i : i \in 0 .. live[b] - 1} = b .. b + live[b] - 1
    <3>1. ASSUME NEW x \in b .. b + live[b] - 1 PROVE x \in {b + i : i \in 0 .. live[b] - 1}
      <4>1. x - b \in 0 .. live[b] - 1 /\ x = b + (x - b)
        BY <2>1
      <4> QED BY <4>1
    <3>2. ASSUME NEW i \in 0 .. live[b] - 1 PROVE b + i \in b .. b + live[b] - 1
      BY <2>1
    <3> QED BY <3>1, <3>2
  <2> QED BY <2>1, <2>2, <2>3, <2>4 DEF DH!Extent
<1> QED BY <1>1, <1>2

\* A range inside a live block is one of the heap, and reads the same.
LEMMA InsideIsInBlock ==
    ASSUME IInv, NEW a \in Addrs, NEW n \in Addrs \ {0}, Inside(a, n)
    PROVE  DH!InBlock(a, n) /\ DH!Bytes(a, n) = ReadGlobal(a, n)
<1>1. PICK b \in DOMAIN live : b <= a /\ a + n <= b + live[b]
  BY DEF Inside
<1>2. /\ DOMAIN Heap = DOMAIN live /\ b \in Nat /\ live[b] \in Nat \ {0}
      /\ Heap[b] = [i \in 0 .. live[b] - 1 |-> ByteAt(b + i)]
      /\ \A c \in DOMAIN live : c \in Nat /\ live[c] \in Nat \ {0}
                                /\ DH!Extent(c) = c .. c + live[c] - 1
  BY HeapIs
<1>3. a \in Nat /\ n \in Nat \ {0} /\ AddrLimit \in Nat /\ b + live[b] < AddrLimit
  <2>1. next_global_addr \in Nat /\ b + live[b] <= next_global_addr /\ next_global_addr < AddrLimit
    <3>1. b + live[b] <= next_global_addr /\ next_global_addr < AddrLimit
      BY LiveBlock
    <3>2. next_global_addr \in Nat
      BY DEF IInv, TypeOK, Addrs
    <3> QED BY <3>1, <3>2
  <2> QED BY <1>2, <2>1, DeviceMemoryAssumption DEF Addrs
<1>4. DH!InBlock(a, n)
  <2>1. a .. a + n - 1 \subseteq DH!Extent(b)
    BY <1>1, <1>2, <1>3
  <2> QED BY <1>2, <2>1 DEF DH!InBlock, DH!Blocks, DH!Range
<1>5. ASSUME NEW i \in 0 .. n - 1
      PROVE  Heap[CHOOSE c \in DH!Blocks : a + i \in DH!Extent(c)]
                 [a + i - (CHOOSE c \in DH!Blocks : a + i \in DH!Extent(c))]
               = ByteAt(Wrap(a + i))
  <2> DEFINE c == CHOOSE c \in DH!Blocks : a + i \in DH!Extent(c)
  <2>1. a + i \in DH!Extent(b) /\ b \in DH!Blocks
    BY <1>1, <1>2, <1>3 DEF DH!Blocks
  <2>2. c \in DOMAIN live /\ a + i \in DH!Extent(c)
    BY <1>2, <2>1 DEF DH!Blocks
  <2> HIDE DEF c
  <2>3. c = b
    <3> SUFFICES ASSUME c # b PROVE FALSE
      OBVIOUS
    <3>1. b + live[b] <= c \/ c + live[c] <= b
      BY <2>2, LiveApart
    <3>2. a + i \in b .. b + live[b] - 1 /\ a + i \in c .. c + live[c] - 1
      BY <1>2, <2>1, <2>2
    <3>3. c \in Nat /\ live[c] \in Nat /\ b \in Nat /\ live[b] \in Nat
      BY <1>2, <1>3, <2>2
    <3>4. a + i \in Nat /\ a + i < b + live[b] /\ b <= a + i /\ a + i < c + live[c] /\ c <= a + i
      BY <3>2, <3>3
    <3> QED BY <3>1, <3>3, <3>4
  <2>4. Wrap(a + i) = a + i
    BY <1>1, <1>2, <1>3 DEF Wrap
  <2>5. a + i - b \in 0 .. live[b] - 1 /\ b + (a + i - b) = a + i
    BY <1>1, <1>2, <1>3
  <2>6. Heap[b][a + i - b] = ByteAt(a + i)
    BY <1>2, <2>5
  <2> QED BY <2>3, <2>4, <2>6 DEF c
<1>6. DH!Bytes(a, n) = ReadGlobal(a, n)
  BY <1>5, Zenon DEF DH!Bytes, ReadGlobal
<1> QED BY <1>4, <1>6

LEMMA MallocIsAlloc ==
    ASSUME IInv, NEW n \in AllocSizes, Malloc(n),
           next_global_addr <= NextBase, NextBase + n < AddrLimit
    PROVE  DH!Alloc(NextBase, n) /\ NextBase \in Addrs
<1>1. NextBase \in Addrs
  BY AlignUpType DEF IInv, TypeOK, NextBase
<1>2. NextBase \in Nat /\ n \in Nat \ {0} /\ next_global_addr \in Nat
  BY <1>1, DeviceMemoryAssumption DEF IInv, TypeOK, Addrs
<1>b. PICK base \in Nat : base = NextBase
  BY <1>2
<1>3. /\ live' = [b \in DOMAIN live \cup {base} |-> IF b = base THEN n ELSE live[b]]
      /\ global' = global /\ read' = read
  BY <1>b DEF Malloc
<1>4. /\ DOMAIN Heap = DOMAIN live
      /\ \A b \in DOMAIN live :
           /\ b \in Nat /\ live[b] \in Nat \ {0} /\ DH!Extent(b) = b .. b + live[b] - 1
           /\ Heap[b] = [i \in 0 .. live[b] - 1 |-> ByteAt(b + i)]
           /\ b + live[b] <= base
  <2>1. \A b \in DOMAIN live : b + live[b] <= next_global_addr
    BY LiveBlock
  <2> QED BY <1>2, <1>b, <2>1, HeapIs
<1>5. base \notin DOMAIN live /\ base \in Nat
  BY <1>2, <1>4
<1>6. \A b \in DOMAIN live : DH!Extent(b) \cap (base .. base + n - 1) = {}
  BY <1>2, <1>4, <1>5
<1>7. \A i \in 0 .. n - 1 : ByteAt(base + i)' = 0
  <2>1. ASSUME NEW i \in 0 .. n - 1 PROVE base + i \notin DOMAIN global
    BY <1>2, <1>b, <1>5 DEF IInv, TypeOK, BumpOK, Addrs
  <2> QED BY <1>3, <2>1 DEF ByteAt
<1>8. Heap' = [c \in DOMAIN live \cup {base} |->
                 IF c = base THEN [i \in 0 .. n - 1 |-> 0] ELSE Heap[c]]
  <2>1. Heap' = [c \in DOMAIN live \cup {base} |-> [i \in 0 .. live'[c] - 1 |-> ByteAt(c + i)']]
    BY <1>3 DEF Heap
  <2>2. [i \in 0 .. live'[base] - 1 |-> ByteAt(base + i)'] = [i \in 0 .. n - 1 |-> 0]
    BY <1>3, <1>7
  <2>3. ASSUME NEW c \in DOMAIN live
        PROVE  [i \in 0 .. live'[c] - 1 |-> ByteAt(c + i)'] = Heap[c]
    <3>1. live'[c] = live[c]
      BY <1>3, <1>5
    <3>2. \A i \in 0 .. live[c] - 1 : ByteAt(c + i)' = ByteAt(c + i)
      BY <1>3 DEF ByteAt
    <3> QED BY <1>4, <3>1, <3>2
  <2> QED BY <1>5, <2>1, <2>2, <2>3
<1> QED BY <1>1, <1>b, <1>3, <1>4, <1>5, <1>6, <1>8 DEF DH!Alloc, DH!Blocks, DH!Range

LEMMA FreeIsFree ==
    ASSUME IInv, NEW b \in DOMAIN live, Free(b)
    PROVE  DH!Free(b) /\ b \in DH!Blocks
<1>1. /\ live' = [c \in DOMAIN live \ {b} |-> live[c]]
      /\ global' = global /\ read' = read
  BY DEF Free
<1>2. DOMAIN Heap = DOMAIN live
  BY DEF Heap
<1>3. Heap' = [c \in DOMAIN live \ {b} |-> Heap[c]]
  <2>1. Heap' = [c \in DOMAIN live \ {b} |-> [i \in 0 .. live'[c] - 1 |-> ByteAt(c + i)']]
    BY <1>1 DEF Heap
  <2>2. ASSUME NEW c \in DOMAIN live \ {b}
        PROVE  [i \in 0 .. live'[c] - 1 |-> ByteAt(c + i)'] = Heap[c]
    <3>1. live'[c] = live[c]
      BY <1>1
    <3>2. \A i \in 0 .. live[c] - 1 : ByteAt(c + i)' = ByteAt(c + i)
      BY <1>1 DEF ByteAt
    <3> QED BY <3>1, <3>2 DEF Heap
  <2> QED BY <2>1, <2>2
<1> QED BY <1>1, <1>2, <1>3 DEF DH!Free, DH!Blocks

\* A store changes the heap as far as the range lies in a live block.
LEMMA WriteIsWrite ==
    ASSUME IInv, NEW a \in Addrs, NEW n \in Addrs \ {0}, Inside(a, n),
           GlobalRangeAllocated(a, n), NEW data, DOMAIN data = 0 .. n - 1,
           WriteGlobal(a, data), UNCHANGED <<live, read>>
    PROVE  DH!Write(a, n, data)
<1>1. DH!InBlock(a, n)
  BY InsideIsInBlock
<1>2. \A x \in Nat : ByteAt(x)' = IF x \in a .. a + n - 1 THEN data[x - a] ELSE ByteAt(x)
  BY WriteMeans
<1>3. /\ DOMAIN Heap = DOMAIN live
      /\ \A b \in DOMAIN live :
           /\ b \in Nat /\ live[b] \in Nat \ {0}
           /\ Heap[b] = [i \in 0 .. live[b] - 1 |-> ByteAt(b + i)]
           /\ DOMAIN Heap[b] = 0 .. live[b] - 1
  BY HeapIs
<1>4. Heap' = [b \in DOMAIN live |-> [i \in DOMAIN Heap[b] |->
                 IF b + i \in a .. a + n - 1 THEN data[b + i - a] ELSE Heap[b][i]]]
  <2>1. Heap' = [b \in DOMAIN live |-> [i \in 0 .. live[b] - 1 |-> ByteAt(b + i)']]
    BY DEF Heap
  <2>2. ASSUME NEW b \in DOMAIN live
        PROVE  [i \in 0 .. live[b] - 1 |-> ByteAt(b + i)']
                 = [i \in DOMAIN Heap[b] |->
                      IF b + i \in a .. a + n - 1 THEN data[b + i - a] ELSE Heap[b][i]]
    <3>1. ASSUME NEW i \in 0 .. live[b] - 1
          PROVE  ByteAt(b + i)' = IF b + i \in a .. a + n - 1 THEN data[b + i - a] ELSE Heap[b][i]
      <4>1. b + i \in Nat
        BY <1>3
      <4>2. Heap[b][i] = ByteAt(b + i)
        BY <1>3
      <4>3. a \in Nat /\ b \in Nat
        BY <1>3 DEF Addrs
      <4> QED BY <1>2, <4>1, <4>2, <4>3 DEF ByteAt
    <3> QED BY <1>3, <3>1
  <2> QED BY <2>1, <2>2
<1> QED BY <1>1, <1>3, <1>4 DEF DH!Write, DH!Blocks, DH!Range

\* A store into a freed block, which the core allows, does not reach the heap.
LEMMA WriteOutside ==
    ASSUME IInv, NEW a \in Addrs, NEW n \in Addrs \ {0}, ~Inside(a, n),
           GlobalRangeAllocated(a, n), NEW data, DOMAIN data = 0 .. n - 1,
           WriteGlobal(a, data), UNCHANGED <<live, read>>
    PROVE  UNCHANGED <<Heap, read>>
<1>1. PICK blk \in core : blk.base <= a /\ a + n <= blk.base + blk.size
  BY AllocatedMeans
<1>2. a \in Nat /\ n \in Nat \ {0} /\ blk.base \in Nat /\ blk.size \in Nat
  BY DEF IInv, TypeOK, Ranges, Addrs
<1>3. \A x \in Nat : ByteAt(x)' = IF x \in a .. a + n - 1 THEN data[x - a] ELSE ByteAt(x)
  BY WriteMeans
<1>4. \A b \in DOMAIN live : b \in Nat /\ live[b] \in Nat \ {0}
  BY HeapIs
<1>5. ASSUME NEW b \in DOMAIN live, NEW i \in 0 .. live[b] - 1
      PROVE  b + i \in Nat /\ b + i \notin a .. a + n - 1
  <2> DEFINE x == [base |-> b, size |-> live[b]]
  <2>1. x \in core
    BY LiveBlock
  <2>2. x.base = b /\ x.size = live[b]
    OBVIOUS
  <2> HIDE DEF x
  <2>3. x # blk
    BY <1>1, <2>2 DEF Inside
  <2>4. Apart(x, blk)
    BY <2>1, <2>3 DEF IInv, BumpOK
  <2>5. b + live[b] <= blk.base \/ blk.base + blk.size <= b
    BY <2>2, <2>4 DEF Apart
  <2>6. b \in Nat /\ i \in Nat /\ b <= b + i /\ b + i < b + live[b] /\ live[b] \in Nat
    BY <1>4
  <2>7. blk.base <= a /\ a + n <= blk.base + blk.size
    BY <1>1 DEF Inside
  <2>8. b + i < a \/ a + n <= b + i
    BY <1>2, <2>5, <2>6, <2>7
  <2> QED BY <1>2, <2>6, <2>8
<1>6. \A b \in DOMAIN live : \A i \in 0 .. live[b] - 1 : ByteAt(b + i)' = ByteAt(b + i)
  BY <1>3, <1>5
<1>7. Heap' = [b \in DOMAIN live |-> [i \in 0 .. live[b] - 1 |-> ByteAt(b + i)']]
  BY DEF Heap
<1>8. Heap' = Heap
  BY <1>6, <1>7 DEF Heap
<1> QED BY <1>8

\* Every call is a call of the heap, or none.
LEMMA StepIsHeapStep ==
    ASSUME IInv, Next, Unwrapped
    PROVE  BumpOK' /\ [DH!Next]_<<Heap, read>>
<1>0. \A n \in CopySizes : n \in Addrs \ {0}
  BY DeviceMemoryAssumption
<1>1. ASSUME NEW n \in AllocSizes, Malloc(n) PROVE BumpOK' /\ DH!Next
  <2>1. next_global_addr <= NextBase /\ NextBase + n < AddrLimit
    BY <1>1 DEF Unwrapped
  <2>2. BumpOK'
    BY <1>1, <2>1, MallocBumpOK
  <2>3. DH!Alloc(NextBase, n) /\ NextBase \in Addrs
    BY <1>1, <2>1, MallocIsAlloc
  <2> QED BY <2>2, <2>3 DEF DH!Next
<1>2. ASSUME NEW b \in DOMAIN live, Free(b) PROVE BumpOK' /\ DH!Next
  <2>1. BumpOK'
    BY <1>2, WriteBumpOK DEF Free
  <2>2. DH!Free(b) /\ b \in DH!Blocks
    BY <1>2, FreeIsFree
  <2> QED BY <2>1, <2>2 DEF DH!Next
<1>3. ASSUME NEW a \in Addrs, NEW n \in CopySizes, CopyHtoD(a, n) PROVE BumpOK' /\ DH!Next
  <2>1. PICK data \in [0 .. n - 1 -> Values] : WriteGlobal(a, data)
    BY <1>3 DEF CopyHtoD
  <2>2. Accepted(a, n) /\ GlobalRangeAllocated(a, n) /\ UNCHANGED <<next_global_addr, core, live, read>>
    BY <1>3 DEF CopyHtoD, Accepted
  <2>3. Inside(a, n)
    BY <1>0, <2>2, AcceptedIsInside DEF IInv
  <2>4. BumpOK'
    BY <1>0, <2>1, <2>2, WriteMeans, WriteBumpOK
  <2>5. DH!Write(a, n, data)
    BY <1>0, <2>1, <2>2, <2>3, WriteIsWrite
  <2> QED BY <2>1, <2>4, <2>5 DEF DH!Next
<1>4. ASSUME NEW a \in Addrs, NEW n \in CopySizes, CopyDtoH(a, n) PROVE BumpOK' /\ DH!Next
  <2>1. Accepted(a, n) /\ read' = ReadGlobal(a, n) /\ UNCHANGED <<next_global_addr, core, global, live>>
    BY <1>4 DEF CopyDtoH
  <2>2. Inside(a, n)
    BY <1>0, <2>1, AcceptedIsInside DEF IInv
  <2>3. BumpOK'
    BY <2>1, WriteBumpOK
  <2>4. Heap' = Heap
    BY <2>1 DEF Heap, ByteAt
  <2>5. DH!Read(a, n)
    BY <1>0, <2>1, <2>2, <2>4, InsideIsInBlock DEF DH!Read
  <2> QED BY <2>3, <2>5 DEF DH!Next
<1>5. ASSUME NEW a \in Addrs, NEW n \in CopySizes, KernelStore(a, n)
      PROVE  BumpOK' /\ [DH!Next]_<<Heap, read>>
  <2>1. PICK data \in [0 .. n - 1 -> Values] : WriteGlobal(a, data)
    BY <1>5 DEF KernelStore
  <2>2. GlobalRangeAllocated(a, n) /\ UNCHANGED <<next_global_addr, core, live, read>>
    BY <1>5 DEF KernelStore
  <2>3. BumpOK'
    BY <1>0, <2>1, <2>2, WriteMeans, WriteBumpOK
  <2>4. CASE Inside(a, n)
    <3>1. DH!Write(a, n, data)
      BY <1>0, <2>1, <2>2, <2>4, WriteIsWrite
    <3> QED BY <2>1, <2>3, <3>1 DEF DH!Next
  <2>5. CASE ~Inside(a, n)
    <3>1. UNCHANGED <<Heap, read>>
      BY <1>0, <2>1, <2>2, <2>5, WriteOutside
    <3> QED BY <2>3, <3>1
  <2> QED BY <2>4, <2>5
<1>6. ASSUME NEW dst \in Addrs, NEW src \in Addrs, NEW n \in CopySizes, CopyDtoD(dst, src, n)
      PROVE  BumpOK' /\ DH!Next
  <2>1. /\ Accepted(dst, n) /\ Accepted(src, n) /\ GlobalRangeAllocated(dst, n)
        /\ WriteGlobal(dst, ReadGlobal(src, n))
        /\ UNCHANGED <<next_global_addr, core, live, read>>
    BY <1>6 DEF CopyDtoD, Accepted
  <2>2. PICK data : data = ReadGlobal(src, n) /\ DOMAIN data = 0 .. n - 1
    <3>1. DOMAIN ReadGlobal(src, n) = 0 .. n - 1
      BY DEF ReadGlobal
    <3> QED BY <3>1
  <2>3. WriteGlobal(dst, data)
    BY <2>1, <2>2
  <2>4. Inside(dst, n) /\ Inside(src, n)
    BY <1>0, <2>1, AcceptedIsInside DEF IInv
  <2>5. BumpOK'
    BY <1>0, <2>1, <2>2, <2>3, WriteMeans, WriteBumpOK
  <2>6. DH!Write(dst, n, data)
    BY <1>0, <2>1, <2>2, <2>3, <2>4, WriteIsWrite
  <2>7. DH!InBlock(src, n) /\ DH!Bytes(src, n) = data
    BY <1>0, <2>2, <2>4, InsideIsInBlock
  <2> QED BY <2>5, <2>6, <2>7 DEF DH!Next, DH!Copy
<1> QED BY <1>1, <1>2, <1>3, <1>4, <1>5, <1>6 DEF Next

\* The same for all steps of the program.
LEMMA AnyStep ==
    ASSUME IInv, [Next]_vars, [Unwrapped]_vars
    PROVE  IInv' /\ [DH!Next]_<<Heap, read>>
<1>1. TypeOK'
  BY NextTypeOK DEF IInv
<1>2. CASE Next /\ Unwrapped
  BY <1>1, <1>2, StepIsHeapStep DEF IInv
<1>3. CASE UNCHANGED vars
  <2>1. BumpOK'
    BY <1>3, WriteBumpOK DEF vars
  <2>2. UNCHANGED <<Heap, read>>
    BY <1>3 DEF vars, Heap, ByteAt
  <2> QED BY <1>1, <2>1, <2>2 DEF IInv
<1> QED BY <1>2, <1>3

LEMMA InitOK == Init => IInv /\ DH!Init
<1> SUFFICES ASSUME Init PROVE IInv /\ DH!Init
  OBVIOUS
<1>1. TypeOK
  BY InitTypeOK
<1>2. BumpOK
  BY DeviceMemoryAssumption DEF Init, BumpOK, Empty, Addrs
<1>3. Heap = DH!Empty
  BY DEF Init, Heap, Empty, DH!Empty
<1> QED BY <1>1, <1>2, <1>3 DEF IInv, DH!Init, Init, Empty, DH!Empty

(* While alloc_global has not wrapped around, its blocks are disjoint, the *)
(* freed ones included, and no byte beyond the last has been written.      *)
THEOREM BlocksStayApart == Spec /\ [][Unwrapped]_vars => []IInv
<1>1. IInv /\ [Next]_vars /\ [Unwrapped]_vars => IInv'
  BY AnyStep
<1> QED BY <1>1, InitOK, PTL DEF Spec

(* Then no copy inside a live block is refused: find_allocation_containing *)
(* finds the right block whatever was allocated and freed around it, and   *)
(* neither range check is too strict at the end of the block.              *)
THEOREM CopiesAreServed == Spec /\ [][Unwrapped]_vars => []InsideIsAccepted
<1>1. IInv => InsideIsAccepted
  BY InsideAccepted DEF InsideIsAccepted
<1> QED BY <1>1, BlocksStayApart, PTL

(* And the shim's table and the core's address space with its sparse map   *)
(* of bytes implement a heap of disjoint blocks: cudaMalloc returns        *)
(* zeroed memory that nobody else has, a store through a stale pointer     *)
(* into a freed block reaches no live one, and a copy between overlapping  *)
(* ranges delivers what was there before.                                  *)
THEOREM ImplementsHeap == Spec /\ [][Unwrapped]_vars => BehavesAsHeap
<1>1. Init => DH!Init
  BY InitOK
<1>2. IInv /\ [Next]_vars /\ [Unwrapped]_vars => [DH!Next]_<<Heap, read>>
  BY AnyStep
<1> QED BY <1>1, <1>2, BlocksStayApart, PTL DEF Spec, DH!Spec, DH!vars, BehavesAsHeap

-----------------------------------------------------------------------------
(* When the addresses cannot wrap around.                                  *)

\* MaxAllocs blocks fit into the address space, the space that alignment
\* leaves free included; m bounds their sizes.
RoomFor(m) ==
    /\ m \in Nat /\ \A n \in AllocSizes : n <= m
    /\ FirstAddr + MaxAllocs * (m + Align) < AddrLimit

Roomy == \E m \in Nat : RoomFor(m)

\* What has been handed out so far.
UsedOK(m) ==
    /\ IsFiniteSet(core) /\ Cardinality(core) <= MaxAllocs
    /\ next_global_addr <= FirstAddr + Cardinality(core) * (m + Align)

LEMMA Product ==
    ASSUME NEW c \in Nat, NEW d \in Nat, NEW k \in Nat, c < d
    PROVE  c * k \in Nat /\ (c + 1) * k = c * k + k /\ (c + 1) * k <= d * k
<1>1. PICK e \in Nat : d = (c + 1) + e
  <2>1. d - (c + 1) \in Nat /\ d = (c + 1) + (d - (c + 1))
    OBVIOUS
  <2> QED BY <2>1
<1>2. c * k \in Nat /\ e * k \in Nat /\ (c + 1) * k = c * k + k
  OBVIOUS
<1>3. d * k = (c + 1) * k + e * k
  BY <1>1
<1> QED BY <1>2, <1>3

LEMMA RoomIsUnwrapped ==
    ASSUME IInv, NEW m, RoomFor(m), UsedOK(m), NEW n \in AllocSizes, Malloc(n)
    PROVE  /\ next_global_addr <= NextBase /\ NextBase + n < AddrLimit
           /\ NextBase + n <= FirstAddr + (Cardinality(core) + 1) * (m + Align)
           /\ Cardinality(core) + 1 <= MaxAllocs
<1> DEFINE c == Cardinality(core)
           k == m + Align
<1>1. c \in Nat /\ c < MaxAllocs
  BY FS_CardinalityType DEF UsedOK, Malloc
<1>2. /\ k \in Nat /\ MaxAllocs \in Nat /\ m \in Nat /\ n \in Nat /\ n <= m /\ Align \in Nat \ {0}
      /\ next_global_addr \in Nat /\ FirstAddr \in Nat /\ AddrLimit \in Nat
  BY DeviceMemoryAssumption DEF RoomFor, IInv, TypeOK, Addrs
<1>3. next_global_addr <= FirstAddr + c * k /\ FirstAddr + MaxAllocs * k < AddrLimit
  BY DEF RoomFor, UsedOK
<1> HIDE DEF c, k
<1>4. /\ c * k \in Nat /\ (c + 1) * k = c * k + k /\ (c + 1) * k <= MaxAllocs * k
      /\ (c + 1) * k \in Nat /\ MaxAllocs * k \in Nat
  <2>1. c * k \in Nat /\ (c + 1) * k = c * k + k /\ (c + 1) * k <= MaxAllocs * k
    BY <1>1, <1>2, Product
  <2>2. MaxAllocs * k \in Nat
    BY <1>2
  <2> QED BY <1>2, <2>1, <2>2
<1>5. next_global_addr + k < AddrLimit /\ next_global_addr + k <= FirstAddr + (c + 1) * k
  BY <1>2, <1>3, <1>4
<1>6. NextBase >= next_global_addr /\ NextBase <= next_global_addr + Align /\ NextBase \in Nat
  <2> DEFINE r == next_global_addr % Align
  <2>1. r \in 0 .. Align - 1
    BY <1>2
  <2> HIDE DEF r
  <2>2. Wrap(next_global_addr + (Align - r)) = next_global_addr + (Align - r)
    BY <1>2, <1>5, <2>1 DEF Wrap, k
  <2>3. NextBase = IF r = 0 THEN next_global_addr ELSE Wrap(next_global_addr + (Align - r))
    BY DEF NextBase, AlignUp, r
  <2> QED BY <1>2, <2>1, <2>2, <2>3
<1>7. NextBase + n <= next_global_addr + k
  BY <1>2, <1>6 DEF k
<1> HIDE DEF NextBase
<1>8. NextBase + n < AddrLimit /\ NextBase + n <= FirstAddr + (c + 1) * k
  BY <1>2, <1>4, <1>5, <1>6, <1>7
<1> QED BY <1>1, <1>2, <1>6, <1>8 DEF c, k

LEMMA RoomStep ==
    ASSUME IInv, NEW m, RoomFor(m), UsedOK(m), [Next]_vars
    PROVE  UsedOK(m)' /\ Unwrapped
<1>1. Unwrapped
  BY RoomIsUnwrapped DEF Unwrapped
<1>2. ASSUME NEW n \in AllocSizes, Malloc(n) PROVE UsedOK(m)'
  <2> DEFINE blk == [base |-> NextBase, size |-> n]
  <2>1. /\ next_global_addr <= NextBase /\ NextBase + n < AddrLimit
        /\ NextBase + n <= FirstAddr + (Cardinality(core) + 1) * (m + Align)
        /\ Cardinality(core) + 1 <= MaxAllocs
    BY <1>2, RoomIsUnwrapped
  <2>2. n \in Nat \ {0} /\ NextBase \in Nat /\ next_global_addr \in Nat
    BY AlignUpType, DeviceMemoryAssumption DEF IInv, TypeOK, NextBase, Addrs
  <2>3. core' = core \cup {blk} /\ next_global_addr' = NextBase + n
    BY <1>2, <2>1 DEF Malloc, Wrap
  <2> HIDE DEF NextBase
  <2>4. blk \notin core
    <3> SUFFICES ASSUME blk \in core PROVE FALSE
      OBVIOUS
    <3>1. blk.base + blk.size <= next_global_addr
      BY DEF IInv, BumpOK
    <3> QED BY <2>1, <2>2, <3>1
  <2> HIDE DEF blk
  <2>5. IsFiniteSet(core') /\ Cardinality(core') = Cardinality(core) + 1
    <3>1. IsFiniteSet(core)
      BY DEF UsedOK
    <3>2. IsFiniteSet(core \cup {blk}) /\ Cardinality(core \cup {blk}) = Cardinality(core) + 1
      BY <2>4, <3>1, FS_AddElement
    <3> QED BY <2>3, <3>2
  <2> QED BY <2>1, <2>3, <2>5 DEF UsedOK
<1>3. ASSUME UNCHANGED <<next_global_addr, core>> PROVE UsedOK(m)'
  BY <1>3 DEF UsedOK
<1>4. CASE \/ \E b \in DOMAIN live : Free(b)
           \/ \E a \in Addrs, n \in CopySizes : CopyHtoD(a, n) \/ CopyDtoH(a, n) \/ KernelStore(a, n)
           \/ \E dst, src \in Addrs, n \in CopySizes : CopyDtoD(dst, src, n)
           \/ UNCHANGED vars
  <2>1. UNCHANGED <<next_global_addr, core>>
    BY <1>4 DEF Free, CopyHtoD, CopyDtoH, KernelStore, CopyDtoD, vars
  <2> QED BY <1>1, <1>3, <2>1
<1> QED BY <1>1, <1>2, <1>4 DEF Next

(* In an address space with room for everything that is ever allocated the *)
(* addresses do not wrap around, so there the two theorems above need no   *)
(* hypothesis about the run: the shim and the address space are a heap.    *)
THEOREM RoomyIsHeap == Roomy => (Spec => BehavesAsHeap /\ []InsideIsAccepted)
<1> SUFFICES ASSUME NEW m \in Nat, RoomFor(m)
             PROVE  Spec => BehavesAsHeap /\ []InsideIsAccepted
  BY DEF Roomy
<1>1. Init => IInv /\ UsedOK(m)
  <2> SUFFICES ASSUME Init PROVE UsedOK(m)
    BY InitOK
  <2>1. IsFiniteSet(core) /\ Cardinality(core) = 0
    BY FS_EmptySet DEF Init
  <2>2. 0 * (m + Align) = 0 /\ FirstAddr \in Nat
    BY DeviceMemoryAssumption DEF Addrs
  <2> QED BY <2>1, <2>2, DeviceMemoryAssumption DEF Init, UsedOK
<1>2. IInv /\ UsedOK(m) /\ [Next]_vars => IInv' /\ UsedOK(m)' /\ Unwrapped
  BY RoomStep, AnyStep
<1>3. Spec => [][Unwrapped]_vars
  <2>1. IInv /\ UsedOK(m) /\ [Next]_vars => [Unwrapped]_vars
    BY <1>2
  <2> QED BY <1>1, <1>2, <2>1, PTL DEF Spec
<1> QED BY <1>3, CopiesAreServed, ImplementsHeap, PTL
=============================================================================
