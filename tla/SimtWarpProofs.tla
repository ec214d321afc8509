--------------------------- MODULE SimtWarpProofs ---------------------------
(***************************************************************************)
(* Proofs about SimtWarp, for every set of lanes, every kernel and every   *)
(* outcome of its predicates.                                              *)
(***************************************************************************)
EXTENDS SimtWarpRefinement, SequenceTheorems, FiniteSetTheorems, WellFoundedInduction, TLAPS

-----------------------------------------------------------------------------
(* Facts about the stack operations.                                       *)

(* Popping a nonempty stack keeps all frames but the last.                 *)
LEMMA PopFacts ==
    ASSUME NEW S, NEW s \in Seq(S), s # <<>>
    PROVE  /\ Len(s) \in Nat \ {0}
           /\ Pop(s) \in Seq(S)
           /\ Len(Pop(s)) = Len(s) - 1
           /\ \A i \in 1 .. Len(s) - 1 : Pop(s)[i] = s[i]
<1>1. Len(s) \in Nat \ {0}
  BY EmptySeq
<1>2. \A i \in 1 .. Len(s) - 1 : s[i] \in S
  BY <1>1, ElementOfSeq
<1> DEFINE m == Len(s) - 1
<1>0. Pop(s) = SubSeq(s, 1, m)
  BY DEF Pop
<1>3. m \in Nat /\ \A i \in 1 .. m : s[i] \in S
  BY <1>1, <1>2
<1> HIDE DEF m
<1>4. /\ SubSeq(s, 1, m) \in Seq(S)
      /\ Len(SubSeq(s, 1, m)) = IF 1 <= m THEN m - 1 + 1 ELSE 0
      /\ \A i \in 1 .. m - 1 + 1 : SubSeq(s, 1, m)[i] = s[1 + i - 1]
  BY <1>3, SubSeqProperties
<1>5. \A i \in 1 .. m : SubSeq(s, 1, m)[i] = s[i]
  BY <1>3, <1>4
<1>6. Len(SubSeq(s, 1, m)) = m
  BY <1>3, <1>4
<1>7. /\ Pop(s) \in Seq(S)
      /\ Len(Pop(s)) = m
      /\ \A i \in 1 .. m : Pop(s)[i] = s[i]
  BY <1>0, <1>4, <1>5, <1>6
<1>8. QED
  BY <1>1, <1>7 DEF m

(* Replacing one frame leaves the others alone.                            *)
LEMMA ReplaceFacts ==
    ASSUME NEW S, NEW s \in Seq(S), NEW n \in 1 .. Len(s), NEW e \in S
    PROVE  /\ [s EXCEPT ![n] = e] \in Seq(S)
           /\ Len([s EXCEPT ![n] = e]) = Len(s)
           /\ [s EXCEPT ![n] = e][n] = e
           /\ \A i \in 1 .. Len(s) : i # n => [s EXCEPT ![n] = e][i] = s[i]
BY ExceptSeq

(* A split pushes three frames.                                            *)
LEMMA PushThreeFacts ==
    ASSUME NEW S, NEW s \in Seq(S), NEW a \in S, NEW b \in S, NEW c \in S
    PROVE  LET t == s \o <<a, b, c>> IN
           /\ t \in Seq(S)
           /\ Len(t) = Len(s) + 3
           /\ \A i \in 1 .. Len(s) : t[i] = s[i]
           /\ t[Len(s) + 1] = a /\ t[Len(s) + 2] = b /\ t[Len(s) + 3] = c
<1> DEFINE u == <<a, b, c>>
<1>1. u \in Seq(S) /\ Len(u) = 3 /\ u[1] = a /\ u[2] = b /\ u[3] = c
  OBVIOUS
<1>2. Len(s) \in Nat
  BY LenProperties
<1>3. /\ s \o u \in Seq(S)
      /\ Len(s \o u) = Len(s) + 3
      /\ \A i \in 1 .. Len(s) + 3 : (s \o u)[i] = IF i <= Len(s) THEN s[i] ELSE u[i - Len(s)]
  BY <1>1, ConcatProperties
<1>4. /\ \A i \in 1 .. Len(s) : (s \o u)[i] = s[i]
      /\ (s \o u)[Len(s) + 1] = u[1]
      /\ (s \o u)[Len(s) + 2] = u[2]
      /\ (s \o u)[Len(s) + 3] = u[3]
  <2>1. \A i \in 1 .. Len(s) : (s \o u)[i] = s[i]
    BY <1>2, <1>3
  <2>2. \A k \in {1, 2, 3} : (s \o u)[Len(s) + k] = u[Len(s) + k - Len(s)]
    BY <1>2, <1>3
  <2>3. \A k \in {1, 2, 3} : Len(s) + k - Len(s) = k
    BY <1>2
  <2>4. QED
    BY <2>1, <2>2, <2>3
<1>5. QED
  BY <1>1, <1>3, <1>4

(* The fields of a frame, and updates of them.                             *)
LEMMA FrameFields ==
    ASSUME NEW f \in Frames
    PROVE  /\ f.pc \in PCs /\ f.reconv_pc \in PCs
           /\ f.active \in SUBSET Lanes /\ f.is_join \in BOOLEAN
BY DEF Frames

(* Giving a frame another lane mask leaves its other fields alone.         *)
LEMMA SetActive ==
    ASSUME NEW f \in Frames, NEW A \in SUBSET Lanes
    PROVE  LET g == [f EXCEPT !.active = A] IN
           /\ g \in Frames /\ g.active = A
           /\ g.pc = f.pc /\ g.reconv_pc = f.reconv_pc /\ g.is_join = f.is_join
BY DEF Frames

(* Giving a frame another pc leaves its other fields alone.                *)
LEMMA SetPc ==
    ASSUME NEW f \in Frames, NEW pc \in PCs
    PROVE  LET g == [f EXCEPT !.pc = pc] IN
           /\ g \in Frames /\ g.pc = pc
           /\ g.active = f.active /\ g.reconv_pc = f.reconv_pc /\ g.is_join = f.is_join
BY DEF Frames

(* Resuming a join frame changes its lane mask and its is_join flag only.  *)
LEMMA ClearJoin ==
    ASSUME NEW f \in Frames
    PROVE  LET g == [f EXCEPT !.is_join = FALSE] IN
           /\ g \in Frames /\ g.is_join = FALSE
           /\ g.pc = f.pc /\ g.active = f.active /\ g.reconv_pc = f.reconv_pc
BY DEF Frames

-----------------------------------------------------------------------------
(* The inductive invariant.                                                *)

\* While an instruction executes, its frame is a path of running lanes.
ExecutingOK ==
    phase \in {"fetch", "uops"} =>
      stack # <<>> /\ ~Top.is_join /\ Top.active \cap exited = {}

\* The instruction under execution exists and only a predicate masks lanes.
UopsOK ==
    phase = "uops" =>
      /\ Top.pc < kernel.n
      /\ Inst.has_desc
      /\ Inst.pred = "none" => guard = Lanes

\* The pending split divides the lanes of the path, up to returned ones.
SplitOK ==
    phase = "uops" /\ split # NoSplit =>
      /\ split.taken \cap split.fallthrough = {}
      /\ Top.active \subseteq split.taken \cup split.fallthrough
      /\ split.taken \cup split.fallthrough \subseteq Top.active \cup exited

IInv == /\ TypeOK
        /\ NoLaneDuplicated /\ NoLaneLost /\ JoinWaitsBelow
        /\ ExecutingOK /\ UopsOK /\ SplitOK
        /\ phase = "done" => stack = <<>>
        /\ diag # "E_RECONV_MISS"

-----------------------------------------------------------------------------
(* How the ways of changing the stack affect the invariant's stack part.   *)

StackInv == stack \in Seq(Frames) /\ NoLaneDuplicated /\ JoinWaitsBelow

(* The top frame of a nonempty stack.                                      *)
LEMMA TopFacts ==
    ASSUME stack \in Seq(Frames), stack # <<>>
    PROVE  /\ Len(stack) \in 1 .. Len(stack)
           /\ Top \in Frames
           /\ Top = stack[Len(stack)]
<1>1. Len(stack) \in Nat \ {0}
  BY EmptySeq
<1>2. Len(stack) \in 1 .. Len(stack)
  BY <1>1
<1>3. QED
  BY <1>2, ElementOfSeq DEF Top

(* Shrinking the top frame's lanes, moving its pc or turning it from a     *)
(* join into a path.                                                       *)
LEMMA ReplaceTop ==
    ASSUME StackInv, stack # <<>>, NEW e \in Frames,
           e.active \subseteq Top.active, e.reconv_pc = Top.reconv_pc,
           stack' = [stack EXCEPT ![Len(stack)] = e],
           exited \subseteq exited', kernel' = kernel
    PROVE  StackInv' /\ stack' # <<>> /\ Top' = e /\ Len(stack') = Len(stack)
           /\ \A i \in 1 .. Len(stack) : i # Len(stack) => stack'[i] = stack[i]
<1> DEFINE n == Len(stack)
<1>1. stack \in Seq(Frames) /\ n \in Nat \ {0} /\ n \in 1 .. n /\ Top = stack[n]
  BY TopFacts, EmptySeq DEF StackInv
<1>2. /\ stack' \in Seq(Frames) /\ Len(stack') = n /\ stack'[n] = e
      /\ \A i \in 1 .. n : i # n => stack'[i] = stack[i]
  BY <1>1, ReplaceFacts
<1>3. stack' # <<>> /\ Top' = e
  <2>1. Top' = stack'[n]
    BY <1>2 DEF Top
  <2>2. stack' # <<>>
    BY <1>1, <1>2, EmptySeq
  <2>3. QED
    BY <1>2, <2>1, <2>2
<1> HIDE DEF n
<1>4. \A i \in 1 .. n : stack'[i].active \subseteq stack[i].active
                         /\ stack'[i].reconv_pc = stack[i].reconv_pc
  BY <1>1, <1>2
<1>5. NoLaneDuplicated'
  <2>1. \A i, j \in 1 .. n : i # j => stack[i].active \cap stack[j].active \subseteq exited
    BY DEF StackInv, NoLaneDuplicated, n
  <2>2. \A i, j \in 1 .. n : i # j => stack'[i].active \cap stack'[j].active \subseteq exited'
    BY <1>4, <2>1
  <2>3. QED
    BY <1>2, <2>2 DEF NoLaneDuplicated
<1>6. JoinWaitsBelow'
  <2> SUFFICES ASSUME NEW i \in 1 .. n, stack'[i].reconv_pc # kernel.n
               PROVE  \E j \in JoinsAt(stack', stack'[i].reconv_pc) : j < i
    BY <1>2 DEF JoinWaitsBelow
  <2>1. PICK j \in JoinsAt(stack, stack[i].reconv_pc) : j < i
    BY <1>4 DEF StackInv, JoinWaitsBelow, n
  <2>2. j \in 1 .. n /\ stack[j].is_join /\ stack[j].pc = stack[i].reconv_pc
    BY <2>1 DEF JoinsAt, n
  <2>3. j # n
    BY <1>1, <2>1, <2>2
  <2>4. stack'[j] = stack[j]
    BY <1>2, <2>2, <2>3
  <2>5. j \in JoinsAt(stack', stack'[i].reconv_pc)
    BY <1>2, <1>4, <2>2, <2>4 DEF JoinsAt
  <2>6. QED
    BY <2>1, <2>5
<1>7. QED
  BY <1>2, <1>3, <1>5, <1>6 DEF StackInv, n

(* Popping the top frame.                                                  *)
LEMMA PopTop ==
    ASSUME StackInv, stack # <<>>, stack' = Pop(stack),
           exited' = exited, kernel' = kernel
    PROVE  StackInv'
<1> DEFINE n == Len(stack) - 1
<1>1. stack \in Seq(Frames)
  BY DEF StackInv
<1>2. /\ n \in Nat /\ Len(stack) = n + 1
      /\ stack' \in Seq(Frames) /\ Len(stack') = n
      /\ \A i \in 1 .. n : stack'[i] = stack[i]
  BY <1>1, PopFacts
<1> HIDE DEF n
<1>3. \A i \in 1 .. n : i \in 1 .. Len(stack)
  BY <1>2
<1>4. NoLaneDuplicated'
  BY <1>2, <1>3 DEF StackInv, NoLaneDuplicated
<1>5. JoinWaitsBelow'
  <2> SUFFICES ASSUME NEW i \in 1 .. n, stack[i].reconv_pc # kernel.n
               PROVE  \E j \in JoinsAt(stack', stack[i].reconv_pc) : j < i
    BY <1>2 DEF JoinWaitsBelow
  <2>1. PICK j \in JoinsAt(stack, stack[i].reconv_pc) : j < i
    BY <1>3 DEF StackInv, JoinWaitsBelow
  <2>2. j \in 1 .. n
    BY <1>2, <2>1 DEF JoinsAt
  <2>3. j \in JoinsAt(stack', stack[i].reconv_pc)
    BY <1>2, <2>1, <2>2 DEF JoinsAt
  <2>4. QED
    BY <2>1, <2>3
<1>6. QED
  BY <1>2, <1>4, <1>5 DEF StackInv

(* What a merge makes of the stack.                                        *)
LEMMA MergeShape ==
    ASSUME stack \in Seq(Frames), stack # <<>>, NEW j \in 1 .. Len(stack) - 1,
           stack' = [Pop(stack) EXCEPT ![j].active = @ \cup Live]
    PROVE  \E n \in Nat, e \in Frames :
             /\ Len(stack) = n + 1 /\ j \in 1 .. n
             /\ stack[j] \in Frames /\ Top \in Frames
             /\ Top = stack[n + 1]
             /\ e.active = stack[j].active \cup Live
             /\ e.pc = stack[j].pc /\ e.reconv_pc = stack[j].reconv_pc
             /\ e.is_join = stack[j].is_join
             /\ stack' \in Seq(Frames) /\ Len(stack') = n /\ stack'[j] = e
             /\ \A i \in 1 .. n : i # j => stack'[i] = stack[i]
<1> DEFINE n == Len(stack) - 1
           s == Pop(stack)
           A == stack[j].active \cup Live
           e == [stack[j] EXCEPT !.active = A]
           t == [s EXCEPT ![j] = e]
<1>1. stack \in Seq(Frames) /\ Top \in Frames /\ Top = stack[Len(stack)]
  BY TopFacts
<1>2. /\ n \in Nat /\ Len(stack) = n + 1 /\ s \in Seq(Frames) /\ Len(s) = n
      /\ \A i \in 1 .. n : s[i] = stack[i]
  BY <1>1, PopFacts
<1>3. stack[j] \in Frames /\ j \in 1 .. n /\ j \in 1 .. Len(s)
  BY <1>1, <1>2, ElementOfSeq
<1>4. A \in SUBSET Lanes
  BY <1>1, <1>3, FrameFields DEF Live
<1>5. /\ e \in Frames /\ e.active = A /\ e.pc = stack[j].pc
      /\ e.reconv_pc = stack[j].reconv_pc /\ e.is_join = stack[j].is_join
  BY <1>3, <1>4, SetActive
<1>6. stack' = t
  BY <1>2, <1>3
<1> HIDE DEF n, s, e
<1>7. /\ stack' \in Seq(Frames) /\ Len(stack') = n /\ stack'[j] = e
      /\ \A i \in 1 .. n : i # j => stack'[i] = stack[i]
  <2>1. /\ t \in Seq(Frames) /\ Len(t) = Len(s) /\ t[j] = e
        /\ \A i \in 1 .. Len(s) : i # j => t[i] = s[i]
    BY <1>2, <1>3, <1>5, ReplaceFacts
  <2> HIDE DEF t
  <2>2. QED
    BY <2>1, <1>2, <1>6
<1>8. QED
  BY <1>1, <1>2, <1>3, <1>5, <1>7

(* Moving the running lanes of the top frame into frame j below it.        *)
LEMMA MergeTop ==
    ASSUME StackInv, stack # <<>>, NEW j \in 1 .. Len(stack) - 1,
           stack' = [Pop(stack) EXCEPT ![j].active = @ \cup Live],
           exited' = exited, kernel' = kernel
    PROVE  /\ StackInv'
           /\ \A i \in 1 .. Len(stack) : \A l \in stack[i].active :
                l \in exited \/ \E k \in 1 .. Len(stack') : l \in stack'[k].active
<1> DEFINE A == stack[j].active \cup Live
<1>1. stack \in Seq(Frames)
  BY DEF StackInv
<1>2. PICK n \in Nat, e \in Frames :
             /\ Len(stack) = n + 1 /\ j \in 1 .. n
             /\ stack[j] \in Frames /\ Top \in Frames
             /\ Top = stack[n + 1]
             /\ e.active = A
             /\ e.pc = stack[j].pc /\ e.reconv_pc = stack[j].reconv_pc
             /\ e.is_join = stack[j].is_join
             /\ stack' \in Seq(Frames) /\ Len(stack') = n /\ stack'[j] = e
             /\ \A i \in 1 .. n : i # j => stack'[i] = stack[i]
  BY <1>1, MergeShape
<1>3. Top \in Frames /\ Top = stack[Len(stack)]
  BY <1>2
<1>4. stack[j] \in Frames /\ j \in 1 .. n
  BY <1>2
<1>5. A \in SUBSET Lanes /\ Live = Top.active \ exited
  BY <1>3, <1>4, FrameFields DEF Live
<1>6. /\ e \in Frames /\ e.active = A /\ e.pc = stack[j].pc
      /\ e.reconv_pc = stack[j].reconv_pc /\ e.is_join = stack[j].is_join
  BY <1>2
<1>7. /\ stack' \in Seq(Frames) /\ Len(stack') = n /\ stack'[j] = e
      /\ \A i \in 1 .. n : i # j => stack'[i] = stack[i]
  BY <1>2
<1>8. \A i, k \in 1 .. n + 1 : i # k => stack[i].active \cap stack[k].active \subseteq exited
  BY <1>2 DEF StackInv, NoLaneDuplicated
<1>9. NoLaneDuplicated'
  <2>1. \A k \in 1 .. n : k # j => A \cap stack[k].active \subseteq exited
    <3> SUFFICES ASSUME NEW k \in 1 .. n, k # j
                 PROVE  A \cap stack[k].active \subseteq exited
      OBVIOUS
    <3>1. stack[j].active \cap stack[k].active \subseteq exited
      BY <1>2, <1>4, <1>8
    <3>2. stack[n + 1].active \cap stack[k].active \subseteq exited
      BY <1>2, <1>8
    <3>3. Live \subseteq stack[n + 1].active
      BY <1>3, <1>2, <1>5
    <3>4. QED
      BY <3>1, <3>2, <3>3
  <2>2. \A i, k \in 1 .. n : i # k => stack'[i].active \cap stack'[k].active \subseteq exited
    <3> SUFFICES ASSUME NEW i \in 1 .. n, NEW k \in 1 .. n, i # k
                 PROVE  stack'[i].active \cap stack'[k].active \subseteq exited
      OBVIOUS
    <3>1. CASE i = j
      BY <3>1, <1>6, <1>7, <2>1
    <3>2. CASE k = j
      BY <3>2, <1>6, <1>7, <2>1
    <3>3. CASE i # j /\ k # j
      BY <3>3, <1>2, <1>7, <1>8
    <3>4. QED
      BY <3>1, <3>2, <3>3
  <2>3. QED
    BY <1>7, <2>2 DEF NoLaneDuplicated
<1>10. \A i \in 1 .. n : /\ stack'[i].pc = stack[i].pc
                         /\ stack'[i].is_join = stack[i].is_join
                         /\ stack'[i].reconv_pc = stack[i].reconv_pc
  BY <1>6, <1>7
<1>11. JoinWaitsBelow'
  <2> SUFFICES ASSUME NEW i \in 1 .. n, stack[i].reconv_pc # kernel.n
               PROVE  \E k \in JoinsAt(stack', stack[i].reconv_pc) : k < i
    BY <1>7, <1>10 DEF JoinWaitsBelow
  <2>1. PICK k \in JoinsAt(stack, stack[i].reconv_pc) : k < i
    BY <1>2 DEF StackInv, JoinWaitsBelow
  <2>2. k \in 1 .. n
    BY <1>2, <2>1 DEF JoinsAt
  <2>3. k \in JoinsAt(stack', stack[i].reconv_pc)
    BY <1>7, <1>10, <2>1, <2>2 DEF JoinsAt
  <2>4. QED
    BY <2>1, <2>3
<1>12. \A i \in 1 .. Len(stack) : \A l \in stack[i].active :
         l \in exited \/ \E k \in 1 .. Len(stack') : l \in stack'[k].active
  <2> SUFFICES ASSUME NEW i \in 1 .. n + 1, NEW l \in stack[i].active, l \notin exited
               PROVE  \E k \in 1 .. n : l \in stack'[k].active
    BY <1>2, <1>7
  <2>1. CASE i = n + 1
    BY <2>1, <1>3, <1>2, <1>4, <1>5, <1>6, <1>7
  <2>2. CASE i # n + 1
    <3>1. i \in 1 .. n
      BY <2>2, <1>2
    <3>2. l \in stack'[i].active
      BY <3>1, <1>6, <1>7
    <3>3. QED
      BY <3>1, <3>2
  <2>3. QED
    BY <2>1, <2>2
<1>13. QED
  BY <1>7, <1>9, <1>11, <1>12 DEF StackInv

(* Replacing the top frame by a join frame a, that takes over its          *)
(* reconvergence point, and two paths b and c that share out its lanes.    *)
LEMMA SplitStack ==
    ASSUME StackInv, NEW n \in Nat, Len(stack) = n + 1,
           NEW a \in Frames, NEW b \in Frames, NEW c \in Frames,
           a.active = {}, a.is_join, a.reconv_pc = stack[n + 1].reconv_pc,
           b.reconv_pc = a.pc, c.reconv_pc = a.pc,
           b.active \cap c.active = {},
           stack[n + 1].active \subseteq b.active \cup c.active,
           b.active \cup c.active \subseteq stack[n + 1].active \cup exited,
           stack' \in Seq(Frames), Len(stack') = n + 3,
           \A i \in 1 .. n : stack'[i] = stack[i],
           stack'[n + 1] = a, stack'[n + 2] = b, stack'[n + 3] = c,
           exited' = exited, kernel' = kernel
    PROVE  /\ StackInv'
           /\ \A i \in 1 .. Len(stack) : \A l \in stack[i].active :
                \E k \in 1 .. Len(stack') : l \in stack'[k].active
<1>1. \A i, k \in 1 .. n + 1 : i # k => stack[i].active \cap stack[k].active \subseteq exited
  BY DEF StackInv, NoLaneDuplicated
<1>2. \A i \in 1 .. n + 3 : i \in 1 .. n \/ i = n + 1 \/ i = n + 2 \/ i = n + 3
  OBVIOUS
<1>3. \A i \in 1 .. n : stack[i].active \cap (b.active \cup c.active) \subseteq exited
  <2> SUFFICES ASSUME NEW i \in 1 .. n
               PROVE  stack[i].active \cap (b.active \cup c.active) \subseteq exited
    OBVIOUS
  <2>1. stack[i].active \cap stack[n + 1].active \subseteq exited
    BY <1>1
  <2>2. QED
    BY <2>1
<1>4. NoLaneDuplicated'
  <2> SUFFICES ASSUME NEW i \in 1 .. n + 3, NEW k \in 1 .. n + 3, i < k
               PROVE  stack'[i].active \cap stack'[k].active \subseteq exited
    <3>1. \A i, k \in 1 .. n + 3 : i # k => i < k \/ k < i
      OBVIOUS
    <3>2. QED
      BY <3>1 DEF NoLaneDuplicated
  <2>1. CASE k \in 1 .. n
    BY <2>1, <1>1
  <2>2. CASE i = n + 1 \/ k = n + 1
    BY <2>2
  <2>3. CASE i \in 1 .. n /\ (k = n + 2 \/ k = n + 3)
    BY <2>3, <1>3
  <2>4. CASE i = n + 2 /\ k = n + 3
    BY <2>4
  <2>5. QED
    BY <1>2, <2>1, <2>2, <2>3, <2>4
<1>5. \A r : \A j \in JoinsAt(stack, r) : j \in 1 .. n => j \in JoinsAt(stack', r)
  BY DEF JoinsAt
<1>6. JoinWaitsBelow'
  <2> SUFFICES ASSUME NEW i \in 1 .. n + 3, stack'[i].reconv_pc # kernel.n
               PROVE  \E j \in JoinsAt(stack', stack'[i].reconv_pc) : j < i
    BY DEF JoinWaitsBelow
  <2>1. CASE i \in 1 .. n + 1
    <3>1. stack'[i].reconv_pc = stack[i].reconv_pc
      <4>1. CASE i \in 1 .. n
        BY <4>1
      <4>2. CASE i = n + 1
        BY <4>2
      <4>3. QED
        BY <4>1, <4>2, <2>1
    <3>2. PICK j \in JoinsAt(stack, stack[i].reconv_pc) : j < i
      BY <2>1, <3>1 DEF StackInv, JoinWaitsBelow
    <3>3. j \in 1 .. n
      BY <2>1, <3>2 DEF JoinsAt
    <3>4. QED
      BY <3>1, <3>2, <3>3, <1>5
  <2>2. CASE i = n + 2 \/ i = n + 3
    <3>1. stack'[i].reconv_pc = a.pc
      BY <2>2
    <3>2. n + 1 \in JoinsAt(stack', a.pc)
      BY DEF JoinsAt
    <3>3. n + 1 < i
      BY <2>2
    <3>4. QED
      BY <3>1, <3>2, <3>3
  <2>3. QED
    BY <2>1, <2>2
<1>7. \A i \in 1 .. Len(stack) : \A l \in stack[i].active :
         \E k \in 1 .. Len(stack') : l \in stack'[k].active
  <2> SUFFICES ASSUME NEW i \in 1 .. n + 1, NEW l \in stack[i].active
               PROVE  \E k \in 1 .. n + 3 : l \in stack'[k].active
    OBVIOUS
  <2>1. CASE i \in 1 .. n
    BY <2>1
  <2>2. CASE i = n + 1
    <3>1. l \in b.active \/ l \in c.active
      BY <2>2
    <3>2. n + 2 \in 1 .. n + 3 /\ n + 3 \in 1 .. n + 3
      OBVIOUS
    <3>3. QED
      BY <3>1, <3>2
  <2>3. QED
    BY <2>1, <2>2
<1>8. QED
  BY <1>4, <1>6, <1>7 DEF StackInv

(* What the commit of a pending split makes of the stack.                  *)
LEMMA SplitShape ==
    ASSUME stack \in Seq(Frames), stack # <<>>, split \in Splits, CommitSplit
    PROVE  \E n \in Nat, a \in Frames, b \in Frames, c \in Frames :
             /\ Len(stack) = n + 1 /\ Top = stack[n + 1]
             /\ a.active = {} /\ a.pc = split.reconv_pc /\ a.is_join
             /\ a.reconv_pc = Top.reconv_pc
             /\ b.active = split.fallthrough /\ b.reconv_pc = split.reconv_pc /\ ~b.is_join
             /\ b.pc = Top.pc + 1
             /\ c.active = split.taken /\ c.reconv_pc = split.reconv_pc /\ ~c.is_join
             /\ c.pc = split.target_pc
             /\ stack' \in Seq(Frames) /\ Len(stack') = n + 3
             /\ \A i \in 1 .. n : stack'[i] = stack[i]
             /\ stack'[n + 1] = a /\ stack'[n + 2] = b /\ stack'[n + 3] = c
<1> DEFINE n == Len(stack) - 1
           s == Pop(stack)
           a == SplitFrames[1]
           b == SplitFrames[2]
           c == SplitFrames[3]
<1>1. stack \in Seq(Frames) /\ Top \in Frames /\ Top = stack[Len(stack)]
  BY TopFacts
<1>2. /\ n \in Nat /\ Len(stack) = n + 1 /\ s \in Seq(Frames) /\ Len(s) = n
      /\ \A i \in 1 .. n : s[i] = stack[i]
  BY <1>1, PopFacts
<1>3. /\ split.taken \in SUBSET Lanes /\ split.fallthrough \in SUBSET Lanes
      /\ split.target_pc \in PCs /\ split.reconv_pc \in PCs
      /\ Top.pc \in PCs /\ Top.pc + 1 \in PCs /\ Top.reconv_pc \in PCs
  <2>1. /\ split.taken \in SUBSET Lanes /\ split.fallthrough \in SUBSET Lanes
        /\ split.target_pc \in PCs /\ split.reconv_pc \in PCs
    BY DEF Splits
  <2>2. Top.pc \in PCs /\ Top.reconv_pc \in PCs
    BY <1>1, FrameFields
  <2>3. Top.pc + 1 \in PCs
    BY <2>2 DEF PCs
  <2>4. QED
    BY <2>1, <2>2, <2>3
<1>4. /\ a \in Frames /\ b \in Frames /\ c \in Frames
      /\ SplitFrames = <<a, b, c>>
      /\ a.active = {} /\ a.pc = split.reconv_pc /\ a.is_join /\ a.reconv_pc = Top.reconv_pc
      /\ b.active = split.fallthrough /\ b.reconv_pc = split.reconv_pc /\ ~b.is_join
      /\ b.pc = Top.pc + 1
      /\ c.active = split.taken /\ c.reconv_pc = split.reconv_pc /\ ~c.is_join
      /\ c.pc = split.target_pc
  BY <1>3 DEF SplitFrames, Frames
<1> HIDE DEF n, s, a, b, c
<1>5. /\ stack' \in Seq(Frames) /\ Len(stack') = n + 3
      /\ \A i \in 1 .. n : stack'[i] = stack[i]
      /\ stack'[n + 1] = a /\ stack'[n + 2] = b /\ stack'[n + 3] = c
  <2> DEFINE t == s \o <<a, b, c>>
  <2>1. /\ t \in Seq(Frames) /\ Len(t) = Len(s) + 3
        /\ \A i \in 1 .. Len(s) : t[i] = s[i]
        /\ t[Len(s) + 1] = a /\ t[Len(s) + 2] = b /\ t[Len(s) + 3] = c
    BY <1>2, <1>4, PushThreeFacts
  <2>2. stack' = t
    BY <1>4 DEF s, CommitSplit
  <2> HIDE DEF t
  <2>3. QED
    BY <2>1, <2>2, <1>2
<1>6. Top = stack[n + 1]
  BY <1>1, <1>2
<1>7. QED
  BY <1>2, <1>4, <1>5, <1>6

(* The same, for the frames of a pending split.                            *)
LEMMA SplitTop ==
    ASSUME StackInv, stack # <<>>, split \in Splits,
           split.taken \cap split.fallthrough = {},
           Top.active \subseteq split.taken \cup split.fallthrough,
           split.taken \cup split.fallthrough \subseteq Top.active \cup exited,
           CommitSplit
    PROVE  /\ StackInv'
           /\ \A i \in 1 .. Len(stack) : \A l \in stack[i].active :
                \E k \in 1 .. Len(stack') : l \in stack'[k].active
<1>1. stack \in Seq(Frames)
  BY DEF StackInv
<1>2. PICK n \in Nat, a \in Frames, b \in Frames, c \in Frames :
             /\ Len(stack) = n + 1 /\ Top = stack[n + 1]
             /\ a.active = {} /\ a.pc = split.reconv_pc /\ a.is_join
             /\ a.reconv_pc = Top.reconv_pc
             /\ b.active = split.fallthrough /\ b.reconv_pc = split.reconv_pc
             /\ c.active = split.taken /\ c.reconv_pc = split.reconv_pc
             /\ stack' \in Seq(Frames) /\ Len(stack') = n + 3
             /\ \A i \in 1 .. n : stack'[i] = stack[i]
             /\ stack'[n + 1] = a /\ stack'[n + 2] = b /\ stack'[n + 3] = c
  BY <1>1, SplitShape
<1>3. exited' = exited /\ kernel' = kernel
  BY DEF CommitSplit
<1>4. /\ a.reconv_pc = stack[n + 1].reconv_pc
      /\ b.reconv_pc = a.pc /\ c.reconv_pc = a.pc
      /\ b.active \cap c.active = {}
      /\ stack[n + 1].active \subseteq b.active \cup c.active
      /\ b.active \cup c.active \subseteq stack[n + 1].active \cup exited
  BY <1>2
<1>5. QED
  BY <1>2, <1>3, <1>4, SplitStack

-----------------------------------------------------------------------------
(* The steps, one lemma for each way they treat the stack.                 *)

(* The instruction under execution and its parts have their types.         *)
LEMMA InstFacts ==
    ASSUME IInv, phase = "uops"
    PROVE  /\ stack \in Seq(Frames) /\ stack # <<>> /\ Top \in Frames
           /\ Top.pc \in 0 .. kernel.n - 1
           /\ Inst \in Insts
           /\ KernelOK(kernel)
<1>1. /\ stack \in Seq(Frames) /\ stack # <<>> /\ kernel \in Kernels /\ Top.pc < kernel.n
  BY DEF IInv, TypeOK, ExecutingOK, UopsOK
<1>2. Top \in Frames
  BY <1>1, TopFacts
<1>3. KernelOK(kernel)
  BY <1>1, KernelsAssumption
<1>4. Top.pc \in Nat /\ kernel.n \in Nat /\ kernel.insts \in [0 .. kernel.n - 1 -> Insts]
  BY <1>2, <1>3, FrameFields DEF KernelOK, IsImage, PCs
<1>5. Top.pc \in 0 .. kernel.n - 1
  BY <1>1, <1>4
<1>6. Inst \in Insts
  BY <1>4, <1>5 DEF Inst
<1>7. QED
  BY <1>1, <1>2, <1>3, <1>5, <1>6

(* The micro-op under execution has its type.                              *)
LEMMA UopFacts ==
    ASSUME IInv, phase = "uops", ui <= Len(Inst.uops)
    PROVE  Uop \in Uops
<1>1. Inst.uops \in Seq(Uops) /\ ui \in Nat \ {0}
  BY InstFacts DEF Insts, IInv, TypeOK
<1>2. ui \in 1 .. Len(Inst.uops)
  BY <1>1, LenProperties
<1>3. QED
  BY <1>1, <1>2, ElementOfSeq DEF Uop

(* A step that leaves the stack and the returned lanes alone.              *)
LEMMA StackUnchanged ==
    ASSUME IInv, UNCHANGED <<kernel, stack, exited>>
    PROVE  StackInv' /\ Top' = Top /\ Inst' = Inst
           /\ (phase # "failed" => NoLaneLost')
BY DEF IInv, TypeOK, StackInv, NoLaneDuplicated, NoLaneLost, JoinWaitsBelow, JoinsAt,
       Top, Inst

(* A step that ends the run with a diagnostic.                             *)
LEMMA FailStep ==
    ASSUME IInv, NEW d \in Diags, d # "E_RECONV_MISS", Fail(d),
           StackInv', p' \in [Preds -> [Lanes -> BOOLEAN]]
    PROVE  IInv'
<1>1. TypeOK'
  BY DEF IInv, TypeOK, StackInv, Fail, Phases
<1>2. phase' = "failed" /\ diag' = d
  BY DEF Fail
<1>3. QED
  BY <1>1, <1>2 DEF IInv, StackInv, NoLaneLost, ExecutingOK, UopsOK, SplitOK

(* The steps of normalize_stack.                                           *)
LEMMA NormalizeStep ==
    ASSUME IInv, Normalize
    PROVE  IInv'
<1>1. StackInv
  BY DEF IInv, TypeOK, StackInv
<1>2. CASE FinishWarp
  <2>1. StackInv' /\ NoLaneLost' /\ phase' = "done" /\ stack' = <<>>
    BY <1>2, StackUnchanged DEF FinishWarp
  <2>2. TypeOK' /\ diag' = diag
    BY <1>2, <2>1 DEF FinishWarp, instVars, IInv, TypeOK, Phases
  <2>3. QED
    BY <2>1, <2>2 DEF IInv, StackInv, ExecutingOK, UopsOK, SplitOK
<1>3. CASE PopEmpty
  <2>1. /\ phase = "normalize" /\ stack # <<>> /\ Live = {}
        /\ UNCHANGED <<kernel, exited, p, phase, diag, guard, ui, next_pc, split>>
    BY <1>3 DEF PopEmpty, instVars
  <2>2. StackInv'
    BY <1>1, <1>3, <2>1, PopTop DEF PopEmpty
  <2>3. NoLaneLost'
    <3>1. /\ stack \in Seq(Frames) /\ Len(stack) \in Nat \ {0}
          /\ stack' = Pop(stack)
          /\ Len(Pop(stack)) = Len(stack) - 1
          /\ \A i \in 1 .. Len(stack) - 1 : Pop(stack)[i] = stack[i]
      BY <1>1, <1>3, <2>1, PopFacts DEF StackInv, PopEmpty
    <3>2. stack[Len(stack)].active \subseteq exited
      BY <2>1 DEF Live, Top
    <3>3. \A l \in Lanes : l \in exited \/ \E i \in 1 .. Len(stack) : l \in stack[i].active
      BY <2>1 DEF IInv, NoLaneLost
    <3>4. SUFFICES ASSUME NEW l \in Lanes, l \notin exited
                   PROVE  \E i \in 1 .. Len(stack') : l \in stack'[i].active
      BY <2>1 DEF NoLaneLost
    <3>5. PICK i \in 1 .. Len(stack) : l \in stack[i].active
      BY <3>3, <3>4
    <3>6. i \in 1 .. Len(stack) - 1
      BY <3>1, <3>2, <3>4, <3>5
    <3>7. i \in 1 .. Len(stack') /\ l \in stack'[i].active
      BY <3>1, <3>5, <3>6
    <3>8. QED
      BY <3>7
  <2>4. QED
    BY <2>1, <2>2, <2>3 DEF IInv, TypeOK, StackInv, ExecutingOK, UopsOK, SplitOK
<1>4. CASE ResumeJoin \/ SelectPath
  <2> DEFINE f == [Top EXCEPT !.active = Live]
             e == IF Top.is_join THEN [f EXCEPT !.is_join = FALSE] ELSE f
  <2>1. /\ phase = "normalize" /\ stack # <<>> /\ phase' = "fetch"
        /\ UNCHANGED <<kernel, exited, p, diag, guard, ui, next_pc, split>>
    BY <1>4 DEF ResumeJoin, SelectPath, instVars
  <2>2. Top \in Frames /\ Top = stack[Len(stack)] /\ Len(stack) \in 1 .. Len(stack)
    BY <1>1, <2>1, TopFacts DEF StackInv
  <2>3. Live \in SUBSET Lanes /\ Live \subseteq Top.active /\ Live \cap exited = {}
    BY <2>2, FrameFields DEF Live
  <2>4. f \in Frames /\ f.active = Live /\ f.reconv_pc = Top.reconv_pc /\ f.is_join = Top.is_join
    BY <2>2, <2>3, SetActive
  <2>5. e \in Frames /\ e.active = Live /\ e.reconv_pc = Top.reconv_pc /\ ~e.is_join
    BY <2>4, ClearJoin
  <2>6. stack' = [stack EXCEPT ![Len(stack)] = e]
    <3>1. stack \in Seq(Frames)
      BY <1>1 DEF StackInv
    <3>2. CASE ResumeJoin
      BY <3>1, <3>2, <2>2 DEF ResumeJoin
    <3>3. CASE SelectPath
      BY <3>1, <3>3, <2>2 DEF SelectPath
    <3>4. QED
      BY <3>2, <3>3, <1>4
  <2> HIDE DEF e
  <2>7. StackInv' /\ stack' # <<>> /\ Top' = e /\ Len(stack') = Len(stack)
        /\ \A i \in 1 .. Len(stack) : i # Len(stack) => stack'[i] = stack[i]
    BY <1>1, <2>1, <2>3, <2>5, <2>6, ReplaceTop
  <2>8. NoLaneLost'
    <3>1. \A l \in Lanes : l \in exited \/ \E i \in 1 .. Len(stack) : l \in stack[i].active
      BY <2>1 DEF IInv, NoLaneLost
    <3>2. stack'[Len(stack)].active = stack[Len(stack)].active \ exited
      BY <2>2, <2>5, <2>7 DEF Top, Live
    <3>3. QED
      BY <3>1, <3>2, <2>1, <2>7 DEF NoLaneLost
  <2>9. ExecutingOK'
    BY <2>1, <2>3, <2>5, <2>7 DEF ExecutingOK
  <2>10. QED
    BY <2>1, <2>7, <2>8, <2>9 DEF IInv, TypeOK, StackInv, UopsOK, SplitOK, Phases
<1>5. CASE MergeAtReconv
  <2>1. /\ phase = "normalize" /\ stack # <<>>
        /\ UNCHANGED <<kernel, exited, p, phase, diag, guard, ui, next_pc, split>>
    BY <1>5 DEF MergeAtReconv, AtReconv, instVars
  <2>2. /\ stack \in Seq(Frames) /\ Len(stack) \in Nat \ {0}
        /\ Len(Pop(stack)) = Len(stack) - 1
    BY <1>1, <2>1, PopFacts DEF StackInv
  <2>3. PICK j \in JoinsAt(Pop(stack), Top.pc) :
               stack' = [Pop(stack) EXCEPT ![j].active = @ \cup Live]
    BY <1>5 DEF MergeAtReconv
  <2>4. j \in 1 .. Len(stack) - 1
    BY <2>2, <2>3 DEF JoinsAt
  <2>5. /\ StackInv'
        /\ \A i \in 1 .. Len(stack) : \A l \in stack[i].active :
             l \in exited \/ \E k \in 1 .. Len(stack') : l \in stack'[k].active
    BY <1>1, <2>1, <2>3, <2>4, MergeTop
  <2>6. NoLaneLost'
    BY <2>1, <2>5 DEF IInv, NoLaneLost
  <2>7. QED
    BY <2>1, <2>5, <2>6 DEF IInv, TypeOK, StackInv, ExecutingOK, UopsOK, SplitOK
<1>6. CASE MergeMiss
  <2>1. StackInv'
    BY <1>1, <1>6, PopTop DEF MergeMiss, AtReconv, Fail
  <2>2. Fail("E_RECONV_INVALID") /\ p' = p /\ p \in [Preds -> [Lanes -> BOOLEAN]]
    BY <1>6 DEF MergeMiss, IInv, TypeOK
  <2>3. "E_RECONV_INVALID" \in Diags
    BY DEF Diags
  <2>4. QED
    BY <2>1, <2>2, <2>3, FailStep
<1>7. QED
  BY <1>2, <1>3, <1>4, <1>5, <1>6 DEF Normalize

(* SETP writes Booleans, and only for the lanes it executes for.           *)
LEMMA SetpFacts ==
    ASSUME NEW S \in SUBSET Lanes, p \in [Preds -> [Lanes -> BOOLEAN]], SetpWrites(S)
    PROVE  /\ p' \in [Preds -> [Lanes -> BOOLEAN]]
           /\ \A r \in Preds : \A l \in Lanes \ S : p'[r][l] = p[r][l]
<1> DEFINE a == Uop.arg
<1>1. PICK v \in [S -> BOOLEAN] :
             p' = [p EXCEPT ![a] = [l \in Lanes |-> IF l \in S THEN v[l] ELSE p[a][l]]]
  BY DEF SetpWrites
<1> DEFINE w == [l \in Lanes |-> IF l \in S THEN v[l] ELSE p[a][l]]
<1>2. CASE a \in Preds
  <2>1. w \in [Lanes -> BOOLEAN] /\ \A l \in Lanes \ S : w[l] = p[a][l]
    BY <1>2
  <2> HIDE DEF w
  <2>2. p' = [p EXCEPT ![a] = w]
    BY <1>1 DEF w
  <2> HIDE DEF a
  <2>3. QED
    BY <1>2, <2>1, <2>2
<1>3. CASE a \notin Preds
  <2>1. p' = p
    BY <1>1, <1>3
  <2>2. QED
    BY <2>1
<1>4. QED
  BY <1>2, <1>3

(* The steps of an instruction that leave the stack alone.                 *)
LEMMA QuietStep ==
    ASSUME IInv, Fetch \/ UopExec \/ UopSetp \/ UopBraOff \/ UopBra
    PROVE  IInv'
<1>1. /\ UNCHANGED <<kernel, stack, exited, diag>>
      /\ phase \in {"fetch", "uops"} /\ phase' = "uops"
  BY DEF Fetch, UopExec, UopSetp, UopBraOff, UopBra, AtUop
<1>2. StackInv' /\ Top' = Top /\ Inst' = Inst /\ NoLaneLost'
  BY <1>1, StackUnchanged
<1>3. ExecutingOK'
  BY <1>1, <1>2 DEF IInv, ExecutingOK
<1>4. /\ Top \in Frames /\ guard \in SUBSET Lanes /\ ui \in Nat \ {0}
      /\ p \in [Preds -> [Lanes -> BOOLEAN]]
  BY <1>1, TopFacts DEF IInv, TypeOK, ExecutingOK
<1>5. Top.active \in SUBSET Lanes /\ ExecMask \in SUBSET Lanes /\ OffMask \in SUBSET Lanes
  BY <1>4, FrameFields DEF ExecMask, OffMask
<1>6. NoSplit \in Splits
  BY DEF NoSplit, Splits, PCs
<1>7. CASE Fetch
  <2>1. /\ guard' \in SUBSET Lanes /\ ui' = 1 /\ next_pc' = NoPc /\ split' = NoSplit
        /\ UNCHANGED p /\ Top.pc < kernel.n /\ Inst.has_desc
        /\ Inst.pred = "none" => guard' = Lanes
    BY <1>5, <1>7 DEF Fetch
  <2>2. TypeOK'
    BY <1>1, <1>2, <1>6, <2>1 DEF IInv, TypeOK, StackInv, Phases
  <2>3. UopsOK' /\ SplitOK'
    BY <1>1, <1>2, <2>1 DEF UopsOK, SplitOK
  <2>4. QED
    BY <1>1, <1>2, <1>3, <2>2, <2>3 DEF IInv, StackInv
<1>8. CASE UopExec \/ UopSetp \/ UopBraOff
  <2>1. UNCHANGED <<guard, next_pc, split>> /\ ui' = ui + 1 /\ phase = "uops"
    BY <1>8 DEF UopExec, UopSetp, UopBraOff, AtUop
  <2>2. p' \in [Preds -> [Lanes -> BOOLEAN]]
    BY <1>4, <1>5, <1>8, SetpFacts DEF UopExec, UopSetp, UopBraOff
  <2>3. TypeOK'
    BY <1>1, <1>2, <1>4, <2>1, <2>2 DEF IInv, TypeOK, StackInv, Phases
  <2>4. UopsOK' /\ SplitOK'
    BY <1>1, <1>2, <2>1 DEF IInv, UopsOK, SplitOK
  <2>5. QED
    BY <1>1, <1>2, <1>3, <2>3, <2>4 DEF IInv, StackInv
<1>9. CASE UopBra
  <2>1. /\ UNCHANGED <<guard, p>> /\ ui' = ui + 1 /\ phase = "uops"
        /\ next_pc' = Uop.arg /\ Uop.arg # NoPc /\ ui <= Len(Inst.uops)
        /\ ~ReconvMiss
        /\ split' = IF Divergent
                    THEN [target_pc |-> Uop.arg, reconv_pc |-> kernel.reconv[Top.pc],
                          taken |-> ExecMask, fallthrough |-> OffMask]
                    ELSE split
    BY <1>9 DEF UopBra, AtUop
  <2>2. Uop.arg \in PCs
    BY <2>1, UopFacts DEF Uops, PCs
  <2>3. Divergent => kernel.reconv[Top.pc] \in PCs
    <3>1. kernel.n \in Nat /\ Top.pc \in 0 .. kernel.n - 1
          /\ kernel.reconv \in [0 .. kernel.n - 1 -> 0 .. kernel.n \cup {NoPc}]
      BY <2>1, InstFacts DEF KernelOK, IsImage
    <3>2. kernel.reconv[Top.pc] \in 0 .. kernel.n \cup {NoPc}
      BY <3>1
    <3>3. QED
      BY <3>1, <3>2, <2>1 DEF ReconvMiss, PCs
  <2>4. split' \in Splits
    BY <1>5, <2>1, <2>2, <2>3 DEF Splits, IInv, TypeOK
  <2>5. TypeOK'
    BY <1>1, <1>2, <1>4, <2>1, <2>2, <2>4 DEF IInv, TypeOK, StackInv, Phases
  <2>6. UopsOK'
    BY <1>1, <1>2, <2>1 DEF IInv, UopsOK
  <2>7. SplitOK'
    <3>1. CASE Divergent
      <4>1. split'.taken = ExecMask /\ split'.fallthrough = OffMask
        BY <2>1, <3>1
      <4>2. QED
        BY <1>1, <1>2, <4>1 DEF SplitOK, ExecMask, OffMask
    <3>2. CASE ~Divergent
      BY <1>1, <1>2, <2>1, <3>2 DEF IInv, SplitOK
    <3>3. QED
      BY <3>1, <3>2
  <2>8. QED
    BY <1>1, <1>2, <1>3, <2>5, <2>6, <2>7 DEF IInv, StackInv
<1>10. QED
  BY <1>7, <1>8, <1>9

(* The steps of an instruction that end the run.                           *)
LEMMA FaultStep ==
    ASSUME IInv, FetchFault \/ UopFault \/ UopBraFault
    PROVE  IInv'
<1>1. UNCHANGED <<kernel, stack, exited>>
  BY DEF FetchFault, UopFault, UopBraFault, Fail
<1>2. StackInv'
  BY <1>1, StackUnchanged
<1>3. p \in [Preds -> [Lanes -> BOOLEAN]]
  BY DEF IInv, TypeOK
<1>4. CASE FetchFault
  <2>1. p' = p /\ (Fail("E_PC_OOB") \/ Fail("E_DESC_MISS") \/ Fail("E_PRED_OOB"))
    BY <1>4 DEF FetchFault
  <2>2. \A d \in {"E_PC_OOB", "E_DESC_MISS", "E_PRED_OOB"} : d \in Diags /\ d # "E_RECONV_MISS"
    BY DEF Diags
  <2>3. QED
    BY <1>2, <1>3, <2>1, <2>2, FailStep
<1>5. CASE UopFault
  <2>1. Fail("E_UNIT") /\ "E_UNIT" \in Diags
    BY <1>5 DEF UopFault, Diags
  <2>2. p' \in [Preds -> [Lanes -> BOOLEAN]]
    <3>1. CASE p' = p
      BY <1>3, <3>1
    <3>2. CASE AtUop("setp") /\ \E S \in SUBSET ExecMask : SetpWrites(S)
      <4>1. Top.active \in SUBSET Lanes
        BY <3>2, InstFacts, FrameFields DEF AtUop
      <4>2. PICK S \in SUBSET ExecMask : SetpWrites(S)
        BY <3>2
      <4>3. S \in SUBSET Lanes
        BY <4>1 DEF ExecMask
      <4>4. QED
        BY <1>3, <4>2, <4>3, SetpFacts
    <3>3. QED
      BY <1>5, <3>1, <3>2 DEF UopFault
  <2>3. QED
    BY <1>2, <2>1, <2>2, FailStep
<1>6. CASE UopBraFault
  <2>1. phase = "uops" /\ ui <= Len(Inst.uops) /\ Uop.op = "bra" /\ p' = p
    BY <1>6 DEF UopBraFault, AtUop
  <2>2. ~ReconvMiss
    <3> SUFFICES ASSUME Divergent
                 PROVE  kernel.reconv[Top.pc] # NoPc
      BY DEF ReconvMiss
    <3>1. Inst.pred # "none"
      <4>1. Top.active \in SUBSET Lanes
        BY <2>1, InstFacts, FrameFields
      <4>2. guard # Lanes
        BY <4>1 DEF Divergent, OffMask
      <4>3. QED
        BY <2>1, <4>2 DEF IInv, UopsOK
    <3>2. HasUop(Inst, "bra")
      <4>1. ui \in 1 .. Len(Inst.uops)
        BY <2>1, InstFacts, LenProperties DEF IInv, TypeOK, Insts
      <4>2. ui \in UopsAt(Inst, "bra")
        BY <2>1, <4>1 DEF UopsAt, Uop
      <4>3. QED
        BY <4>2 DEF HasUop
    <3>3. IsPredBra(Inst)
      BY <2>1, <3>1, <3>2 DEF IsPredBra, IInv, UopsOK
    <3>4. QED
      BY <2>1, <3>3, InstFacts DEF KernelOK, Inst
  <2>3. Fail("E_UNIT") \/ Fail("E_NEXT_PC_CONFLICT")
    BY <1>6, <2>2 DEF UopBraFault
  <2>4. \A d \in {"E_UNIT", "E_NEXT_PC_CONFLICT"} : d \in Diags /\ d # "E_RECONV_MISS"
    BY DEF Diags
  <2>5. QED
    BY <1>2, <1>3, <2>1, <2>3, <2>4, FailStep
<1>7. QED
  BY <1>4, <1>5, <1>6

(* The steps of an instruction that change the stack.                      *)
LEMMA StackStep ==
    ASSUME IInv, UopRet \/ CommitSplit \/ CommitAdvance
    PROVE  IInv'
<1>1. StackInv /\ stack # <<>> /\ phase = "uops" /\ Top.active \cap exited = {} /\ ~Top.is_join
  BY DEF IInv, TypeOK, StackInv, ExecutingOK, UopRet, CommitSplit, CommitAdvance, AtUop, AtCommit
<1>2. /\ stack \in Seq(Frames) /\ Top \in Frames /\ Top = stack[Len(stack)]
      /\ Len(stack) \in 1 .. Len(stack)
  BY <1>1, TopFacts DEF StackInv
<1>3. Top.active \in SUBSET Lanes /\ Top.pc \in PCs /\ Top.reconv_pc \in PCs
  BY <1>2, FrameFields
<1>4. \A l \in Lanes : l \in exited \/ \E i \in 1 .. Len(stack) : l \in stack[i].active
  BY <1>1 DEF IInv, NoLaneLost
<1>5. CASE UopRet
  <2> DEFINE A == Top.active \ guard
             e == [Top EXCEPT !.active = A]
  <2>1. /\ exited' = exited \cup ExecMask /\ ui' = ui + 1 /\ phase' = "uops"
        /\ UNCHANGED <<kernel, p, guard, next_pc, split, diag>>
    BY <1>1, <1>5 DEF UopRet
  <2>2. /\ e \in Frames /\ e.active = A /\ e.pc = Top.pc
        /\ e.reconv_pc = Top.reconv_pc /\ e.is_join = Top.is_join
    <3>1. A \in SUBSET Lanes
      BY <1>3
    <3> HIDE DEF A
    <3>2. QED
      BY <1>2, <3>1, SetActive
  <2>3. stack' = [stack EXCEPT ![Len(stack)] = e]
    BY <1>2, <1>5 DEF UopRet
  <2> HIDE DEF e
  <2>4. StackInv' /\ stack' # <<>> /\ Top' = e /\ Len(stack') = Len(stack)
        /\ \A i \in 1 .. Len(stack) : i # Len(stack) => stack'[i] = stack[i]
    BY <1>1, <2>1, <2>2, <2>3, ReplaceTop
  <2>5. ExecMask = Top.active \ A /\ ExecMask \subseteq Lanes
    BY <1>3 DEF ExecMask
  <2>6. NoLaneLost'
    <3>1. stack'[Len(stack)].active = A /\ stack[Len(stack)].active = Top.active
      BY <1>2, <2>2, <2>4 DEF Top
    <3>2. QED
      BY <1>4, <2>1, <2>4, <2>5, <3>1 DEF NoLaneLost
  <2>7. ExecutingOK'
    BY <1>1, <2>1, <2>2, <2>4, <2>5 DEF ExecutingOK
  <2>8. UopsOK'
    <3>1. Inst' = Inst
      BY <2>1, <2>2, <2>4 DEF Inst
    <3>2. QED
      BY <1>1, <2>1, <2>2, <2>4, <3>1 DEF IInv, UopsOK
  <2>9. SplitOK'
    BY <1>1, <2>1, <2>2, <2>4, <2>5 DEF IInv, SplitOK
  <2>10. TypeOK'
    BY <2>1, <2>4, <2>5 DEF IInv, TypeOK, StackInv, Phases
  <2>11. QED
    BY <2>1, <2>4, <2>6, <2>7, <2>8, <2>9, <2>10 DEF IInv, StackInv
<1>6. CASE CommitSplit
  <2>1. /\ split # NoSplit /\ phase' = "normalize"
        /\ UNCHANGED <<kernel, exited, p, diag, guard, ui, next_pc, split>>
    BY <1>6 DEF CommitSplit, instVars
  <2>2. /\ split \in Splits /\ split.taken \cap split.fallthrough = {}
        /\ Top.active \subseteq split.taken \cup split.fallthrough
        /\ split.taken \cup split.fallthrough \subseteq Top.active \cup exited
    BY <1>1, <2>1 DEF IInv, TypeOK, SplitOK
  <2>3. /\ StackInv'
        /\ \A i \in 1 .. Len(stack) : \A l \in stack[i].active :
             \E k \in 1 .. Len(stack') : l \in stack'[k].active
    BY <1>1, <1>6, <2>2, SplitTop
  <2>4. NoLaneLost'
    BY <1>4, <2>1, <2>3 DEF NoLaneLost
  <2>5. QED
    BY <2>1, <2>3, <2>4 DEF IInv, TypeOK, StackInv, ExecutingOK, UopsOK, SplitOK, Phases
<1>7. CASE CommitAdvance
  <2> DEFINE pc == IF next_pc # NoPc THEN next_pc ELSE Top.pc + 1
             e  == [Top EXCEPT !.pc = pc]
  <2>1. /\ phase' = "normalize"
        /\ UNCHANGED <<kernel, exited, p, diag, guard, ui, next_pc, split>>
    BY <1>7 DEF CommitAdvance, instVars
  <2>2. pc \in PCs
    BY <1>3 DEF IInv, TypeOK, PCs
  <2>3. e \in Frames /\ e.active = Top.active /\ e.reconv_pc = Top.reconv_pc
    BY <1>2, <2>2, SetPc
  <2>4. stack' = [stack EXCEPT ![Len(stack)] = e]
    BY <1>2, <1>7 DEF CommitAdvance
  <2> HIDE DEF e
  <2>5. StackInv' /\ stack' # <<>> /\ Top' = e /\ Len(stack') = Len(stack)
        /\ \A i \in 1 .. Len(stack) : i # Len(stack) => stack'[i] = stack[i]
    BY <1>1, <2>1, <2>3, <2>4, ReplaceTop
  <2>6. NoLaneLost'
    <3>1. stack'[Len(stack)].active = stack[Len(stack)].active
      BY <1>2, <2>3, <2>5 DEF Top
    <3>2. QED
      BY <1>4, <2>1, <2>5, <3>1 DEF NoLaneLost
  <2>7. QED
    BY <2>1, <2>5, <2>6 DEF IInv, TypeOK, StackInv, ExecutingOK, UopsOK, SplitOK, Phases
<1>8. QED
  BY <1>5, <1>6, <1>7

-----------------------------------------------------------------------------
(* The invariant is inductive.                                             *)

(* The invariant holds for a warp that run_one_cta has just set up.        *)
LEMMA InitIInv == Init => IInv
<1> SUFFICES ASSUME Init PROVE IInv
  OBVIOUS
<1> DEFINE f == [pc |-> 0, active |-> Lanes, reconv_pc |-> kernel.n, is_join |-> FALSE]
<1>1. kernel \in Kernels /\ kernel.n \in Nat
  BY KernelsAssumption DEF Init, KernelOK, IsImage
<1>2. f \in Frames /\ f.active = Lanes /\ f.reconv_pc = kernel.n
  BY <1>1 DEF Frames, PCs
<1>3. stack = <<f>>
  BY DEF Init
<1> HIDE DEF f
<1>4. stack \in Seq(Frames) /\ Len(stack) = 1 /\ stack[1] = f
  BY <1>2, <1>3
<1>5. TypeOK
  BY <1>1, <1>4 DEF Init, TypeOK, Phases, Splits, NoSplit, PCs
<1>6. NoLaneDuplicated /\ NoLaneLost /\ JoinWaitsBelow
  BY <1>2, <1>4 DEF NoLaneDuplicated, NoLaneLost, JoinWaitsBelow
<1>7. QED
  BY <1>5, <1>6 DEF Init, IInv, ExecutingOK, UopsOK, SplitOK, NoDiag

(* Every step of normalize_stack and of an instruction keeps it.           *)
LEMMA NextIInv == IInv /\ [Next]_vars => IInv'
<1> SUFFICES ASSUME IInv, [Next]_vars PROVE IInv'
  OBVIOUS
<1>1. CASE Normalize
  BY <1>1, NormalizeStep
<1>2. CASE Execute
  BY <1>2, QuietStep, FaultStep, StackStep DEF Execute
<1>3. CASE Terminated \/ UNCHANGED vars
  <2>1. UNCHANGED <<kernel, stack, exited, p, phase, guard, ui, next_pc, split, diag>>
    BY <1>3 DEF Terminated, vars
  <2>2. StackInv' /\ Top' = Top /\ Inst' = Inst
    BY <2>1, StackUnchanged
  <2>3. QED
    BY <2>1, <2>2 DEF IInv, TypeOK, StackInv, NoLaneLost, ExecutingOK, UopsOK, SplitOK
<1>4. QED
  BY <1>1, <1>2, <1>3 DEF Next

(* It holds throughout.                                                    *)
LEMMA SpecIInv == Spec => []IInv
BY InitIInv, NextIInv, PTL DEF Spec

(* A path finds no join at its reconvergence point only at the exit.       *)
LEMMA ReconvAtExit == IInv => ReconvDiagsOnlyAtExit
<1> SUFFICES ASSUME IInv, AtReconv, Top.pc # kernel.n
             PROVE  JoinsAt(Pop(stack), Top.pc) # {}
  BY DEF ReconvDiagsOnlyAtExit, IInv
<1>1. stack \in Seq(Frames) /\ stack # <<>> /\ Top.pc = Top.reconv_pc
  BY DEF IInv, TypeOK, AtReconv
<1>2. /\ Len(stack) \in Nat \ {0} /\ Top = stack[Len(stack)]
      /\ Len(Pop(stack)) = Len(stack) - 1
      /\ \A i \in 1 .. Len(stack) - 1 : Pop(stack)[i] = stack[i]
  BY <1>1, TopFacts, PopFacts
<1>3. PICK j \in JoinsAt(stack, Top.pc) : j < Len(stack)
  BY <1>1, <1>2 DEF IInv, JoinWaitsBelow
<1>4. j \in 1 .. Len(stack) - 1 /\ stack[j].is_join /\ stack[j].pc = Top.pc
  BY <1>2, <1>3 DEF JoinsAt
<1>5. QED
  BY <1>2, <1>4 DEF JoinsAt

-----------------------------------------------------------------------------
(* How deep the stack can get.                                             *)

\* The running lanes that frame i of stack s answers for, when those of x have
\* returned: its own and, for a join frame, the lanes it is going to collect.
Room(s, x, i) ==
    {l \in Lanes \ x : \E k \in i .. Len(s) : (k = i \/ s[i].is_join) /\ l \in s[k].active}

\* A frame lies the lower the more lanes it answers for: a split takes at least
\* one lane off each of the paths it pushes, and pushes two frames.
Fits(s, x) ==
    /\ Len(s) <= 2 * Cardinality(Lanes) - 1
    /\ \A i \in 1 .. Len(s) : i + 2 * Cardinality(Room(s, x, i)) <= 2 * Cardinality(Lanes) + 1

\* The paths of a pending split will fit.
SidesFit ==
    phase = "uops" /\ split # NoSplit =>
      \A side \in {split.taken, split.fallthrough} :
        side # {} /\ Len(stack) + 2 + 2 * Cardinality(side) <= 2 * Cardinality(Lanes) + 1

DepthInv == Fits(stack, exited) /\ SidesFit

(* Sets of lanes are finite, and a smaller one has no more lanes.          *)
LEMMA LaneCounts ==
    ASSUME NEW S \in SUBSET Lanes, NEW T \in SUBSET S
    PROVE  /\ Cardinality(S) \in Nat /\ Cardinality(T) \in Nat
           /\ Cardinality(T) <= Cardinality(S)
           /\ T # S => Cardinality(T) + 1 <= Cardinality(S)
           /\ S # {} => Cardinality(S) >= 1
<1>1. IsFiniteSet(S)
  BY LanesAssumption, FS_Subset
<1>2. IsFiniteSet(T) /\ Cardinality(T) <= Cardinality(S)
      /\ (Cardinality(S) = Cardinality(T) => S = T)
  BY <1>1, FS_Subset
<1>3. Cardinality(S) \in Nat /\ Cardinality(T) \in Nat /\ (Cardinality(S) = 0 <=> S = {})
  BY <1>1, <1>2, FS_CardinalityType, FS_EmptySet
<1>4. QED
  BY <1>2, <1>3

(* A stack fits if its frames answer for no more lanes than before.        *)
LEMMA FitsShrinks ==
    ASSUME NEW s, NEW x, NEW t, NEW y, Fits(s, x),
           Len(s) \in Nat, Len(t) \in Nat, Len(t) <= Len(s),
           \A i \in 1 .. Len(t) : Room(t, y, i) \subseteq Room(s, x, i)
    PROVE  Fits(t, y)
<1> DEFINE L == Cardinality(Lanes)
<1>1. L \in Nat
  BY LaneCounts
<1>2. ASSUME NEW i \in 1 .. Len(t)
      PROVE  i + 2 * Cardinality(Room(t, y, i)) <= 2 * L + 1
  <2>1. i \in 1 .. Len(s) /\ i \in Nat
    OBVIOUS
  <2>2. i + 2 * Cardinality(Room(s, x, i)) <= 2 * L + 1
    BY <2>1 DEF Fits
  <2>3. Room(s, x, i) \in SUBSET Lanes /\ Room(t, y, i) \in SUBSET Room(s, x, i)
    BY DEF Room
  <2>4. /\ Cardinality(Room(s, x, i)) \in Nat /\ Cardinality(Room(t, y, i)) \in Nat
        /\ Cardinality(Room(t, y, i)) <= Cardinality(Room(s, x, i))
    BY <2>3, LaneCounts
  <2>5. QED
    BY <1>1, <2>1, <2>2, <2>4
<1>3. Len(t) <= 2 * L - 1
  BY <1>1 DEF Fits
<1>4. QED
  BY <1>2, <1>3 DEF Fits

(* Dropping frames, lanes and join flags.                                  *)
LEMMA NarrowerFits ==
    ASSUME NEW s, NEW x, NEW t, NEW y, Fits(s, x), x \subseteq y,
           Len(s) \in Nat, Len(t) \in Nat, Len(t) <= Len(s),
           \A k \in 1 .. Len(t) : t[k].active \subseteq s[k].active,
           \A k \in 1 .. Len(t) : t[k].is_join => s[k].is_join
    PROVE  Fits(t, y)
<1>1. ASSUME NEW i \in 1 .. Len(t)
      PROVE  Room(t, y, i) \subseteq Room(s, x, i)
  <2> SUFFICES ASSUME NEW l \in Room(t, y, i)
               PROVE  l \in Room(s, x, i)
    OBVIOUS
  <2>1. /\ l \in Lanes \ y
        /\ \E k \in i .. Len(t) : (k = i \/ t[i].is_join) /\ l \in t[k].active
    BY DEF Room
  <2>2. PICK k \in i .. Len(t) : (k = i \/ t[i].is_join) /\ l \in t[k].active
    BY <2>1
  <2>3. k \in 1 .. Len(t) /\ k \in i .. Len(s)
    BY <2>2
  <2>4. l \in t[k].active /\ t[k].active \subseteq s[k].active
    BY <2>2, <2>3
  <2>5. k = i \/ s[i].is_join
    BY <2>2
  <2>6. l \in Lanes \ x
    BY <2>1
  <2>7. QED
    BY <2>3, <2>4, <2>5, <2>6 DEF Room
<1>2. QED
  BY <1>1, FitsShrinks

(* Moving running lanes of the last frame into a join frame j below it.    *)
LEMMA MergeFits ==
    ASSUME NEW s, NEW x, NEW t, NEW n \in Nat, NEW j \in 1 .. n, Fits(s, x),
           Len(s) = n + 1, Len(t) = n, s[j].is_join, t[j].is_join = s[j].is_join,
           t[j].active \subseteq s[j].active \cup s[n + 1].active,
           \A i \in 1 .. n : i # j => t[i] = s[i]
    PROVE  Fits(t, x)
<1>1. ASSUME NEW i \in 1 .. n
      PROVE  Room(t, x, i) \subseteq Room(s, x, i)
  <2> SUFFICES ASSUME NEW l \in Room(t, x, i)
               PROVE  l \in Room(s, x, i)
    OBVIOUS
  <2>1. /\ l \in Lanes \ x
        /\ \E k \in i .. n : (k = i \/ t[i].is_join) /\ l \in t[k].active
    BY DEF Room
  <2>2. PICK k \in i .. n : (k = i \/ t[i].is_join) /\ l \in t[k].active
    BY <2>1
  <2>3. k \in 1 .. n /\ k \in i .. n + 1 /\ n + 1 \in i .. n + 1
    BY <2>2
  <2>4. t[i].is_join => s[i].is_join
    BY DEF Room
  <2>5. CASE l \in s[k].active
    BY <2>1, <2>2, <2>3, <2>4, <2>5 DEF Room
  <2>6. CASE l \notin s[k].active
    <3>1. k = j /\ l \in s[n + 1].active
      BY <2>2, <2>3, <2>6
    <3>2. s[i].is_join
      BY <2>2, <2>4, <3>1
    <3>3. QED
      BY <2>1, <2>3, <3>1, <3>2 DEF Room
  <2>7. QED
    BY <2>5, <2>6
<1>2. QED
  BY <1>1, FitsShrinks

(* Replacing the last frame by a join and two paths whose lanes are among  *)
(* those it had.                                                           *)
LEMMA SplitFits ==
    ASSUME NEW s, NEW x, NEW t, NEW n \in Nat, Fits(s, x),
           Len(s) = n + 1, Len(t) = n + 3,
           \A i \in 1 .. n : t[i] = s[i],
           t[n + 1].active = {}, ~t[n + 2].is_join, ~t[n + 3].is_join,
           t[n + 2].active \in SUBSET Lanes, t[n + 3].active \in SUBSET Lanes,
           t[n + 2].active \cup t[n + 3].active \subseteq s[n + 1].active \cup x,
           \A side \in {t[n + 2].active, t[n + 3].active} :
             side # {} /\ n + 3 + 2 * Cardinality(side) <= 2 * Cardinality(Lanes) + 1
    PROVE  Fits(t, x)
<1> DEFINE L == Cardinality(Lanes)
<1>1. L \in Nat
  BY LaneCounts
<1>2. ASSUME NEW i \in 1 .. n + 1
      PROVE  i + 2 * Cardinality(Room(t, x, i)) <= 2 * L + 1
  <2>1. Room(t, x, i) \subseteq Room(s, x, i)
    <3> SUFFICES ASSUME NEW l \in Room(t, x, i)
                 PROVE  l \in Room(s, x, i)
      OBVIOUS
    <3>1. /\ l \in Lanes \ x
          /\ \E k \in i .. n + 3 : (k = i \/ t[i].is_join) /\ l \in t[k].active
      BY DEF Room
    <3>2. PICK k \in i .. n + 3 : (k = i \/ t[i].is_join) /\ l \in t[k].active
      BY <3>1
    <3>3. CASE k \in 1 .. n
      BY <3>1, <3>2, <3>3 DEF Room
    <3>4. CASE k \notin 1 .. n
      <4>1. k = n + 2 \/ k = n + 3
        BY <3>2, <3>4
      <4>2. l \in s[n + 1].active
        BY <3>1, <3>2, <4>1
      <4>3. i = n + 1 \/ s[i].is_join
        BY <3>2, <4>1
      <4>4. n + 1 \in i .. n + 1
        OBVIOUS
      <4>5. QED
        BY <3>1, <4>2, <4>3, <4>4 DEF Room
    <3>5. QED
      BY <3>3, <3>4
  <2>2. Room(s, x, i) \in SUBSET Lanes /\ Room(t, x, i) \in SUBSET Room(s, x, i)
    BY <2>1 DEF Room
  <2>3. /\ Cardinality(Room(s, x, i)) \in Nat /\ Cardinality(Room(t, x, i)) \in Nat
        /\ Cardinality(Room(t, x, i)) <= Cardinality(Room(s, x, i))
    BY <2>2, LaneCounts
  <2>4. i + 2 * Cardinality(Room(s, x, i)) <= 2 * L + 1
    BY DEF Fits
  <2>5. QED
    BY <1>1, <2>3, <2>4
<1>3. ASSUME NEW i \in {n + 2, n + 3}
      PROVE  /\ i + 2 * Cardinality(Room(t, x, i)) <= 2 * L + 1
             /\ n + 3 <= 2 * L - 1
  <2>1. /\ t[i].active \in SUBSET Lanes /\ t[i].active # {} /\ ~t[i].is_join
        /\ n + 3 + 2 * Cardinality(t[i].active) <= 2 * L + 1
    OBVIOUS
  <2>2. Room(t, x, i) \in SUBSET t[i].active
    BY <2>1 DEF Room
  <2>3. /\ Cardinality(t[i].active) \in Nat /\ Cardinality(t[i].active) >= 1
        /\ Cardinality(Room(t, x, i)) \in Nat
        /\ Cardinality(Room(t, x, i)) <= Cardinality(t[i].active)
    BY <2>1, <2>2, LaneCounts
  <2>4. QED
    BY <1>1, <2>1, <2>3
<1>4. \A i \in 1 .. n + 3 : i \in 1 .. n + 1 \/ i \in {n + 2, n + 3}
  OBVIOUS
<1>5. QED
  BY <1>2, <1>3, <1>4 DEF Fits

(* The steps that rewrite the top frame only leave it lanes it had, and    *)
(* never make a join of it.                                                *)
LEMMA TopNarrows ==
    ASSUME IInv, ResumeJoin \/ SelectPath \/ UopRet \/ CommitAdvance
    PROVE  /\ Len(stack') = Len(stack)
           /\ \A k \in 1 .. Len(stack) : stack'[k].active \subseteq stack[k].active
           /\ \A k \in 1 .. Len(stack) : stack'[k].is_join => stack[k].is_join
<1> DEFINE n == Len(stack)
<1>1. stack \in Seq(Frames) /\ stack # <<>>
  BY DEF IInv, TypeOK, ExecutingOK, ResumeJoin, SelectPath, UopRet, CommitAdvance,
         AtUop, AtCommit
<1>2. n \in 1 .. n /\ Top \in Frames /\ Top = stack[n]
  BY <1>1, TopFacts
<1>3. Live \in SUBSET Lanes /\ Top.active \ guard \in SUBSET Lanes
  BY <1>2, FrameFields DEF Live
<1>4. \E e \in Frames : /\ stack' = [stack EXCEPT ![n] = e]
                        /\ e.active \subseteq Top.active
                        /\ e.is_join => Top.is_join
  <2>1. CASE ResumeJoin
    <3> DEFINE f == [Top EXCEPT !.active = Live]
               e == [f EXCEPT !.is_join = FALSE]
    <3>1. f \in Frames /\ f.active = Live
      BY <1>2, <1>3, SetActive
    <3>2. e \in Frames /\ e.active = Live /\ ~e.is_join
      BY <3>1, ClearJoin
    <3>3. stack' = [stack EXCEPT ![n] = e]
      BY <1>1, <1>2, <2>1 DEF ResumeJoin
    <3>4. QED
      BY <3>2, <3>3 DEF Live
  <2>2. CASE SelectPath
    <3> DEFINE e == [Top EXCEPT !.active = Live]
    <3>1. e \in Frames /\ e.active = Live /\ e.is_join = Top.is_join
      BY <1>2, <1>3, SetActive
    <3>2. stack' = [stack EXCEPT ![n] = e]
      BY <1>2, <2>2 DEF SelectPath
    <3>3. QED
      BY <3>1, <3>2 DEF Live
  <2>3. CASE UopRet
    <3> DEFINE A == Top.active \ guard
               e == [Top EXCEPT !.active = A]
    <3>1. e \in Frames /\ e.active = A /\ e.is_join = Top.is_join
      <4>1. A \in SUBSET Lanes
        BY <1>3
      <4> HIDE DEF A
      <4>2. QED
        BY <1>2, <4>1, SetActive
    <3>2. stack' = [stack EXCEPT ![n] = e]
      BY <1>2, <2>3 DEF UopRet
    <3>3. QED
      BY <3>1, <3>2
  <2>4. CASE CommitAdvance
    <3> DEFINE pc == IF next_pc # NoPc THEN next_pc ELSE Top.pc + 1
               e  == [Top EXCEPT !.pc = pc]
    <3>1. pc \in PCs
      BY <1>2, FrameFields DEF IInv, TypeOK, PCs
    <3>2. e \in Frames /\ e.active = Top.active /\ e.is_join = Top.is_join
      BY <1>2, <3>1, SetPc
    <3>3. stack' = [stack EXCEPT ![n] = e]
      BY <1>2, <2>4 DEF CommitAdvance
    <3>4. QED
      BY <3>2, <3>3
  <2>5. QED
    BY <2>1, <2>2, <2>3, <2>4
<1>5. PICK e \in Frames : /\ stack' = [stack EXCEPT ![n] = e]
                          /\ e.active \subseteq Top.active
                          /\ e.is_join => Top.is_join
  BY <1>4
<1>6. /\ Len(stack') = n /\ stack'[n] = e
      /\ \A i \in 1 .. n : i # n => stack'[i] = stack[i]
  BY <1>1, <1>2, <1>5, ReplaceFacts
<1>7. QED
  BY <1>2, <1>5, <1>6

(* A pending split divides running lanes of a stack that fits, so the      *)
(* paths it is going to push fit as well.                                  *)
LEMMA BranchFits ==
    ASSUME IInv, DepthInv, UopBra
    PROVE  SidesFit'
<1>1. /\ phase = "uops" /\ UNCHANGED stack
      /\ split' = IF Divergent
                  THEN [target_pc |-> Uop.arg, reconv_pc |-> kernel.reconv[Top.pc],
                        taken |-> ExecMask, fallthrough |-> OffMask]
                  ELSE split
  BY DEF UopBra, AtUop
<1>2. CASE ~Divergent
  BY <1>1, <1>2 DEF DepthInv, SidesFit
<1>3. CASE Divergent
  <2> DEFINE n == Len(stack)
             L == Cardinality(Lanes)
             R == Room(stack, exited, n)
  <2>1. stack \in Seq(Frames) /\ stack # <<>> /\ Top.active \cap exited = {}
    BY <1>1 DEF IInv, TypeOK, ExecutingOK
  <2>2. n \in Nat \ {0} /\ n \in 1 .. n /\ Top = stack[n] /\ Top \in Frames
    BY <2>1, TopFacts, EmptySeq
  <2>3. Top.active \in SUBSET Lanes
    BY <2>2, FrameFields
  <2>4. R \in SUBSET Lanes /\ Top.active \subseteq R
    <3>1. \A l \in Top.active : l \in Lanes \ exited /\ n \in n .. n /\ l \in stack[n].active
      BY <2>1, <2>2, <2>3
    <3>2. QED
      BY <3>1 DEF Room
  <2>5. ASSUME NEW side \in {ExecMask, OffMask}
        PROVE  side # {} /\ n + 2 + 2 * Cardinality(side) <= 2 * L + 1
    <3>1. side # {} /\ side \in SUBSET R /\ side # R
      BY <1>3, <2>4 DEF Divergent, ExecMask, OffMask
    <3>2. /\ Cardinality(R) \in Nat /\ Cardinality(side) \in Nat
          /\ Cardinality(side) + 1 <= Cardinality(R)
      BY <2>4, <3>1, LaneCounts
    <3>3. n + 2 * Cardinality(R) <= 2 * L + 1
      BY <2>2 DEF DepthInv, Fits
    <3>4. L \in Nat
      BY LaneCounts
    <3> HIDE DEF n, L, R
    <3>5. QED
      BY <2>2, <3>1, <3>2, <3>3, <3>4
  <2>6. split'.taken = ExecMask /\ split'.fallthrough = OffMask
    BY <1>1, <1>3
  <2>7. \A side \in {split'.taken, split'.fallthrough} :
          side # {} /\ Len(stack') + 2 + 2 * Cardinality(side) <= 2 * L + 1
    BY <1>1, <2>5, <2>6
  <2>8. QED
    BY <2>7 DEF SidesFit
<1>4. QED
  BY <1>2, <1>3

(* The steps that change the stack keep it within bounds.                  *)
LEMMA StackFits ==
    ASSUME IInv, DepthInv, [Next]_vars
    PROVE  Fits(stack', exited')
<1>1. stack \in Seq(Frames) /\ Fits(stack, exited) /\ Len(stack) \in Nat
  BY LenProperties DEF IInv, TypeOK, DepthInv
<1>2. CASE UNCHANGED <<stack, exited>>
  BY <1>1, <1>2
<1>3. CASE PopEmpty \/ MergeMiss
  <2>1. stack # <<>> /\ stack' = Pop(stack) /\ exited' = exited
    BY <1>3 DEF PopEmpty, MergeMiss, AtReconv, Fail
  <2>2. /\ Len(stack') = Len(stack) - 1 /\ Len(stack) \in Nat \ {0}
        /\ \A i \in 1 .. Len(stack) - 1 : stack'[i] = stack[i]
    BY <1>1, <2>1, PopFacts
  <2>3. /\ Len(stack') \in Nat /\ Len(stack') <= Len(stack)
        /\ \A i \in 1 .. Len(stack') : stack'[i] = stack[i]
    BY <2>2
  <2>4. QED
    BY <1>1, <2>1, <2>3, NarrowerFits
<1>4. CASE ResumeJoin \/ SelectPath \/ UopRet \/ CommitAdvance
  <2>1. exited \subseteq exited'
    BY <1>4 DEF ResumeJoin, SelectPath, UopRet, CommitAdvance
  <2>2. /\ Len(stack') = Len(stack)
        /\ \A k \in 1 .. Len(stack) : stack'[k].active \subseteq stack[k].active
        /\ \A k \in 1 .. Len(stack) : stack'[k].is_join => stack[k].is_join
    BY <1>4, TopNarrows
  <2>3. Len(stack') \in Nat /\ Len(stack') <= Len(stack)
    BY <1>1, <2>2
  <2>4. QED
    BY <1>1, <2>1, <2>2, <2>3, NarrowerFits
<1>5. CASE MergeAtReconv
  <2>1. stack # <<>> /\ exited' = exited
    BY <1>5 DEF MergeAtReconv, AtReconv
  <2>2. /\ Len(stack) \in Nat \ {0} /\ Len(Pop(stack)) = Len(stack) - 1
        /\ \A i \in 1 .. Len(stack) - 1 : Pop(stack)[i] = stack[i]
    BY <1>1, <2>1, PopFacts
  <2>3. PICK j \in JoinsAt(Pop(stack), Top.pc) :
               stack' = [Pop(stack) EXCEPT ![j].active = @ \cup Live]
    BY <1>5 DEF MergeAtReconv
  <2>4. j \in 1 .. Len(stack) - 1 /\ stack[j].is_join
    BY <2>2, <2>3 DEF JoinsAt
  <2>5. PICK n \in Nat, e \in Frames :
               /\ Len(stack) = n + 1 /\ j \in 1 .. n
               /\ stack[j] \in Frames /\ Top \in Frames
               /\ Top = stack[n + 1]
               /\ e.active = stack[j].active \cup Live
               /\ e.pc = stack[j].pc /\ e.reconv_pc = stack[j].reconv_pc
               /\ e.is_join = stack[j].is_join
               /\ stack' \in Seq(Frames) /\ Len(stack') = n /\ stack'[j] = e
               /\ \A i \in 1 .. n : i # j => stack'[i] = stack[i]
    BY <1>1, <2>1, <2>3, <2>4, MergeShape
  <2>6. /\ stack'[j].is_join = stack[j].is_join
        /\ stack'[j].active \subseteq stack[j].active \cup stack[n + 1].active
    BY <2>5 DEF Live
  <2>7. Fits(stack', exited)
    BY <1>1, <2>4, <2>5, <2>6, MergeFits
  <2>8. QED
    BY <2>1, <2>7
<1>6. CASE CommitSplit
  <2>1. /\ phase = "uops" /\ split # NoSplit /\ exited' = exited /\ stack # <<>>
        /\ split \in Splits
    BY <1>6 DEF CommitSplit, AtCommit, IInv, TypeOK, ExecutingOK
  <2>2. PICK n \in Nat, a \in Frames, b \in Frames, c \in Frames :
               /\ Len(stack) = n + 1 /\ Top = stack[n + 1]
               /\ a.active = {}
               /\ b.active = split.fallthrough /\ ~b.is_join
               /\ c.active = split.taken /\ ~c.is_join
               /\ Len(stack') = n + 3
               /\ \A i \in 1 .. n : stack'[i] = stack[i]
               /\ stack'[n + 1] = a /\ stack'[n + 2] = b /\ stack'[n + 3] = c
    BY <1>1, <1>6, <2>1, SplitShape
  <2>3. split.taken \in SUBSET Lanes /\ split.fallthrough \in SUBSET Lanes
    BY <2>1 DEF Splits
  <2>4. split.fallthrough \cup split.taken \subseteq stack[n + 1].active \cup exited
    BY <2>1, <2>2 DEF IInv, SplitOK
  <2>5. \A side \in {split.fallthrough, split.taken} :
          side # {} /\ n + 3 + 2 * Cardinality(side) <= 2 * Cardinality(Lanes) + 1
    <3> SUFFICES ASSUME NEW side \in {split.fallthrough, split.taken}
                 PROVE  side # {} /\ n + 3 + 2 * Cardinality(side) <= 2 * Cardinality(Lanes) + 1
      OBVIOUS
    <3>1. side # {} /\ Len(stack) + 2 + 2 * Cardinality(side) <= 2 * Cardinality(Lanes) + 1
      BY <2>1 DEF DepthInv, SidesFit
    <3>2. Len(stack) + 2 = n + 3
      BY <2>2
    <3>3. QED
      BY <3>1, <3>2
  <2>6. /\ stack'[n + 1].active = {} /\ ~stack'[n + 2].is_join /\ ~stack'[n + 3].is_join
        /\ stack'[n + 2].active = split.fallthrough /\ stack'[n + 3].active = split.taken
    BY <2>2
  <2>7. Fits(stack', exited)
    BY <1>1, <2>2, <2>3, <2>4, <2>5, <2>6, SplitFits
  <2>8. QED
    BY <2>1, <2>7
<1>7. QED
  BY <1>2, <1>3, <1>4, <1>5, <1>6
     DEF Next, Normalize, Execute, Terminated, vars, FinishWarp, Fetch, FetchFault, UopExec,
         UopSetp, UopFault, UopBraOff, UopBra, UopBraFault, Fail

(* The bound holds at the start and every step keeps it.                   *)
LEMMA SpecDepth == Spec => []DepthInv
<1>1. Init => DepthInv
  <2> SUFFICES ASSUME Init PROVE DepthInv
    OBVIOUS
  <2>1. Len(stack) = 1 /\ phase = "normalize" /\ exited = {}
    BY DEF Init
  <2>2. Cardinality(Lanes) \in Nat /\ Cardinality(Lanes) >= 1
    BY LanesAssumption, LaneCounts
  <2>3. \A i \in 1 .. Len(stack) : i + 2 * Cardinality(Room(stack, exited, i))
                                     <= 2 * Cardinality(Lanes) + 1
    <3> SUFFICES ASSUME NEW i \in 1 .. Len(stack)
                 PROVE  i + 2 * Cardinality(Room(stack, exited, i)) <= 2 * Cardinality(Lanes) + 1
      OBVIOUS
    <3>1. Room(stack, exited, i) \in SUBSET Lanes
      BY DEF Room
    <3>2. /\ Cardinality(Room(stack, exited, i)) \in Nat
          /\ Cardinality(Room(stack, exited, i)) <= Cardinality(Lanes)
      BY <3>1, LaneCounts
    <3>3. i = 1
      BY <2>1
    <3>4. QED
      BY <2>2, <3>2, <3>3
  <2>4. QED
    BY <2>1, <2>2, <2>3 DEF DepthInv, Fits, SidesFit
<1>2. IInv /\ DepthInv /\ [Next]_vars => DepthInv'
  <2> SUFFICES ASSUME IInv, DepthInv, [Next]_vars PROVE DepthInv'
    OBVIOUS
  <2>1. Fits(stack, exited)'
    <3>1. Fits(stack', exited')
      BY StackFits
    <3>2. QED
      BY <3>1, Zenon DEF Fits, Room
  <2>2. SidesFit'
    <3>1. CASE UopBra
      BY <3>1, BranchFits
    <3>2. CASE UopRet
      <4>1. phase = "uops" /\ UNCHANGED <<phase, split>> /\ Len(stack') = Len(stack)
        BY <3>2, TopNarrows DEF UopRet, AtUop
      <4>2. QED
        BY <4>1 DEF DepthInv, SidesFit
    <3>3. CASE UNCHANGED <<phase, split, stack>>
      BY <3>3 DEF DepthInv, SidesFit
    <3>4. CASE phase' # "uops" \/ split' = NoSplit
      BY <3>4 DEF SidesFit
    <3>5. QED
      BY <3>1, <3>2, <3>3, <3>4
         DEF Next, Normalize, Execute, Terminated, vars, FinishWarp, PopEmpty, ResumeJoin,
             MergeAtReconv, AtReconv, MergeMiss, SelectPath, Fetch, FetchFault, UopExec,
             UopSetp, UopFault, UopBraOff, UopBraFault, CommitSplit, CommitAdvance, AtUop, Fail
  <2>3. QED
    BY <2>1, <2>2 DEF DepthInv
<1>3. QED
  BY <1>1, <1>2, SpecIInv, PTL DEF Spec

-----------------------------------------------------------------------------
(* The theorems.                                                           *)

(* Every variable of the warp keeps its type: SimtExecutor::run never      *)
(* builds an ill-formed frame, mask or pending split.                      *)
THEOREM TypeCorrect == Spec => []TypeOK
<1>1. IInv => TypeOK
  BY DEF IInv
<1>2. QED
  BY <1>1, SpecIInv, PTL

(* normalize_stack and the commit of a split keep the lanes of the frames  *)
(* apart, so no lane executes an instruction twice.                        *)
THEOREM LanesStayApart == Spec => []NoLaneDuplicated
<1>1. IInv => NoLaneDuplicated
  BY DEF IInv
<1>2. QED
  BY <1>1, SpecIInv, PTL

(* Splits, merges and pops lose no running lane.                           *)
THEOREM LanesAreKept == Spec => []NoLaneLost
<1>1. IInv => NoLaneLost
  BY DEF IInv
<1>2. QED
  BY <1>1, SpecIInv, PTL

(* A warp whose stack has become empty (wc.done) has all lanes returned.   *)
THEOREM DoneIsComplete == Spec => []DoneMeansAllReturned
<1>1. IInv => DoneMeansAllReturned
  <2> SUFFICES ASSUME IInv, phase = "done" PROVE exited = Lanes
    BY DEF DoneMeansAllReturned
  <2>1. stack = <<>> /\ exited \in SUBSET Lanes
    BY DEF IInv, TypeOK
  <2>2. Len(stack) = 0
    BY <2>1
  <2>3. \A l \in Lanes : l \in exited
    BY <2>2 DEF IInv, NoLaneLost
  <2>4. QED
    BY <2>1, <2>3
<1>2. QED
  BY <1>1, SpecIInv, PTL

(* The join frame a path will merge into waits below it in simt_stack.     *)
THEOREM JoinsWait == Spec => []JoinWaitsBelow
<1>1. IInv => JoinWaitsBelow
  BY DEF IInv
<1>2. QED
  BY <1>1, SpecIInv, PTL

(* E_RECONV_MISS never happens, and E_RECONV_INVALID only to a path that   *)
(* runs off the end of the kernel.                                         *)
THEOREM ReconvDiagsExplained == Spec => []ReconvDiagsOnlyAtExit
BY ReconvAtExit, SpecIInv, PTL

(* However a kernel branches and loops, normalize_stack and the splits     *)
(* never pile up more than 2n - 1 frames for a warp of n lanes.            *)
THEOREM StackStaysBounded == Spec => []StackBounded
<1>1. DepthInv => StackBounded
  BY DEF DepthInv, Fits, StackBounded
<1>2. QED
  BY <1>1, SpecDepth, PTL

(* No step takes back a RET, and no SETP writes a predicate of a lane that *)
(* has returned.                                                           *)
THEOREM ReturnsAreFinal == Spec => ReturnedLanesFrozen
<1> DEFINE Frozen == \A l \in exited : /\ l \in exited'
                                       /\ \A r \in Preds : p'[r][l] = p[r][l]
<1>1. IInv /\ [Next]_vars => [Frozen]_vars
  <2> SUFFICES ASSUME IInv, Next PROVE Frozen
    BY DEF Frozen
  <2>1. exited \subseteq exited'
    BY DEF Next, Normalize, Execute, Terminated, vars, FinishWarp, PopEmpty, ResumeJoin,
           MergeAtReconv, MergeMiss, SelectPath, Fetch, FetchFault, UopExec, UopSetp,
           UopFault, UopRet, UopBraOff, UopBra, UopBraFault, CommitSplit, CommitAdvance, Fail
  <2>2. CASE UopSetp \/ UopFault
    <3>1. phase = "uops"
      BY <2>2 DEF UopSetp, UopFault, AtUop
    <3>2. Top.active \in SUBSET Lanes /\ Top.active \cap exited = {}
      BY <3>1, InstFacts, FrameFields DEF IInv, ExecutingOK
    <3>3. p \in [Preds -> [Lanes -> BOOLEAN]] /\ exited \in SUBSET Lanes
      BY DEF IInv, TypeOK
    <3>4. p' = p \/ \E S \in SUBSET ExecMask : SetpWrites(S)
      BY <2>2 DEF UopSetp, UopFault
    <3>5. ASSUME NEW S \in SUBSET ExecMask, SetpWrites(S)
          PROVE  \A r \in Preds : \A l \in exited : p'[r][l] = p[r][l]
      <4>1. S \in SUBSET Lanes /\ exited \subseteq Lanes \ S
        BY <3>2, <3>3 DEF ExecMask
      <4>2. QED
        BY <4>1, <3>3, <3>5, SetpFacts
    <3>6. QED
      BY <2>1, <3>4, <3>5
  <2>3. CASE ~(UopSetp \/ UopFault)
    <3>1. p' = p
      BY <2>3 DEF Next, Normalize, Execute, Terminated, vars, FinishWarp, PopEmpty, ResumeJoin,
           MergeAtReconv, MergeMiss, SelectPath, Fetch, FetchFault, UopExec,
           UopRet, UopBraOff, UopBra, UopBraFault, CommitSplit, CommitAdvance
    <3>2. QED
      BY <2>1, <3>1
  <2>4. QED
    BY <2>2, <2>3
<1>2. QED
  BY <1>1, SpecIInv, PTL DEF Spec, ReturnedLanesFrozen

-----------------------------------------------------------------------------
(* Lanes as threads: the account that an instruction keeps of its lanes.   *)

\* What the guard says of the path's lanes, until a SETP has written.
GuardOK ==
    phase = "uops" /\ (ui = 1 \/ ~HasUop(Inst, "setp")) =>
      \A l \in Top.active : l \in guard <=> LT!Runs(l, Inst)

\* What the control unit has done so far: lanes still execute only if nothing
\* returned them, and then every branch has set next_pc; the pending split
\* has the lanes that execute on one side and the others on the other one.
BranchOK ==
    phase = "uops" =>
      /\ ExecMask # {} =>
           \A i \in 1 .. Len(Inst.uops) : i < ui =>
             /\ Inst.uops[i].op # "ret"
             /\ Inst.uops[i].op = "bra" => next_pc # NoPc /\ Inst.uops[i].arg = next_pc
      /\ next_pc # NoPc => HasUop(Inst, "bra")
      /\ split = NoSplit /\ next_pc # NoPc => OffMask = {}
      /\ split # NoSplit => /\ next_pc # NoPc /\ split.target_pc = next_pc
                            /\ split.taken \subseteq guard
                            /\ split.fallthrough \cap guard = {}

LanesInv == GuardOK /\ BranchOK

(* The micro-op under execution is one of the instruction's.               *)
LEMMA UopHere ==
    ASSUME IInv, phase = "uops", ui <= Len(Inst.uops)
    PROVE  /\ ui \in 1 .. Len(Inst.uops) /\ Len(Inst.uops) \in Nat
           /\ Uop = Inst.uops[ui] /\ HasUop(Inst, Uop.op)
<1>1. Len(Inst.uops) \in Nat /\ ui \in Nat \ {0}
  BY InstFacts, LenProperties DEF IInv, TypeOK, Insts
<1>2. ui \in 1 .. Len(Inst.uops)
  BY <1>1
<1>3. QED
  BY <1>1, <1>2 DEF Uop, UopsAt, HasUop

(* RET takes the lanes it executes for off the top frame.                  *)
LEMMA RetTop ==
    ASSUME IInv, UopRet
    PROVE  /\ Len(stack') = Len(stack)
           /\ \A i \in 1 .. Len(stack) : /\ stack'[i].pc = stack[i].pc
                                         /\ i # Len(stack) => stack'[i] = stack[i]
           /\ Top'.active = Top.active \ guard /\ Top'.pc = Top.pc /\ Inst' = Inst
<1> DEFINE A == Top.active \ guard
           e == [Top EXCEPT !.active = A]
<1>1. StackInv /\ stack # <<>> /\ kernel' = kernel /\ exited \subseteq exited'
  BY DEF IInv, TypeOK, StackInv, ExecutingOK, UopRet, AtUop
<1>2. /\ stack \in Seq(Frames) /\ Top \in Frames /\ Top = stack[Len(stack)]
      /\ Len(stack) \in 1 .. Len(stack)
  BY <1>1, TopFacts DEF StackInv
<1>3. e \in Frames /\ e.active = A /\ e.pc = Top.pc /\ e.reconv_pc = Top.reconv_pc
  <2>1. A \in SUBSET Lanes
    BY <1>2, FrameFields
  <2>2. Top \in Frames
    BY <1>2
  <2> HIDE DEF A
  <2>3. QED
    BY <2>1, <2>2 DEF Frames
<1>4. stack' = [stack EXCEPT ![Len(stack)] = e]
  BY <1>2 DEF UopRet
<1> HIDE DEF e
<1>5. Top' = e /\ Len(stack') = Len(stack)
      /\ \A i \in 1 .. Len(stack) : i # Len(stack) => stack'[i] = stack[i]
  BY <1>1, <1>3, <1>4, ReplaceTop
<1>6. stack'[Len(stack)].pc = stack[Len(stack)].pc
  BY <1>2, <1>3, <1>5 DEF Top
<1>7. Inst' = Inst
  BY <1>1, <1>3, <1>5 DEF Inst
<1>8. QED
  BY <1>3, <1>5, <1>6, <1>7

(* The account holds before the first instruction.                         *)
LEMMA InitLanes == Init => LanesInv
BY DEF Init, LanesInv, GuardOK, BranchOK

(* Micro-ops that leave the control state alone keep it.                   *)
LEMMA UopLanes ==
    ASSUME IInv, LanesInv, UopExec \/ UopSetp \/ UopBraOff
    PROVE  LanesInv'
<1>1. /\ phase = "uops" /\ ui <= Len(Inst.uops) /\ ui' = ui + 1
      /\ UNCHANGED <<kernel, stack, guard, next_pc, split>>
  BY DEF UopExec, UopSetp, UopBraOff, AtUop
<1>2. /\ ui \in Nat \ {0} /\ Top' = Top /\ Inst' = Inst /\ ExecMask' = ExecMask /\ OffMask' = OffMask
  BY <1>1 DEF IInv, TypeOK, Top, Inst, ExecMask, OffMask
<1>3. GuardOK'
  <2>1. CASE UopSetp
    <3>1. HasUop(Inst, "setp") /\ ui' # 1
      BY <1>1, <1>2, <2>1, UopHere DEF UopSetp, AtUop
    <3>2. QED
      BY <1>2, <3>1 DEF GuardOK
  <2>2. CASE UopExec \/ UopBraOff
    <3>1. ui' # 1 /\ p' = p
      BY <1>1, <1>2, <2>2 DEF UopExec, UopBraOff
    <3>2. QED
      BY <1>1, <1>2, <3>1 DEF LanesInv, GuardOK, LT!Runs
  <2>3. QED
    BY <2>1, <2>2
<1>4. BranchOK'
  <2>1. ASSUME ExecMask # {}, NEW i \in 1 .. Len(Inst.uops), i < ui + 1
        PROVE  /\ Inst.uops[i].op # "ret"
               /\ Inst.uops[i].op = "bra" => next_pc # NoPc /\ Inst.uops[i].arg = next_pc
    <3>1. i < ui \/ i = ui
      BY <1>2, <2>1, UopHere, <1>1
    <3>2. CASE i < ui
      BY <1>1, <2>1, <3>2 DEF LanesInv, BranchOK
    <3>3. CASE i = ui
      BY <2>1, <3>3 DEF UopExec, UopSetp, UopBraOff, AtUop, Uop
    <3>4. QED
      BY <3>1, <3>2, <3>3
  <2>2. QED
    BY <1>1, <1>2, <2>1 DEF LanesInv, BranchOK
<1>5. QED
  BY <1>3, <1>4 DEF LanesInv

(* BRA sets next_pc, and the split if lanes stay behind.                   *)
LEMMA BraLanes ==
    ASSUME IInv, LanesInv, UopBra
    PROVE  LanesInv'
<1>1. /\ phase = "uops" /\ ui <= Len(Inst.uops) /\ ui' = ui + 1 /\ Uop.op = "bra"
      /\ ExecMask # {} /\ Uop.arg # NoPc /\ next_pc' = Uop.arg
      /\ next_pc # NoPc => next_pc = Uop.arg
      /\ UNCHANGED <<kernel, stack, p, guard>>
  BY DEF UopBra, AtUop, Conflict
<1>2. /\ ui \in Nat \ {0} /\ Top' = Top /\ Inst' = Inst /\ ExecMask' = ExecMask /\ OffMask' = OffMask
  BY <1>1 DEF IInv, TypeOK, Top, Inst, ExecMask, OffMask
<1>3. GuardOK'
  <2>1. ui' # 1
    BY <1>1, <1>2
  <2>2. QED
    BY <1>1, <1>2, <2>1 DEF LanesInv, GuardOK, LT!Runs
<1>4. BranchOK'
  <2>1. ASSUME NEW i \in 1 .. Len(Inst.uops), i < ui + 1
        PROVE  /\ Inst.uops[i].op # "ret"
               /\ Inst.uops[i].op = "bra" => Inst.uops[i].arg = Uop.arg
    <3>1. i < ui \/ i = ui
      BY <1>2, <2>1, UopHere, <1>1
    <3>2. CASE i < ui
      BY <1>1, <2>1, <3>2 DEF LanesInv, BranchOK
    <3>3. CASE i = ui
      BY <1>1, <3>3 DEF Uop
    <3>4. QED
      BY <3>1, <3>2, <3>3
  <2>2. HasUop(Inst, "bra")
    BY <1>1, UopHere
  <2>3. CASE Divergent
    <3>1. split' = [target_pc |-> Uop.arg, reconv_pc |-> kernel.reconv[Top.pc],
                    taken |-> ExecMask, fallthrough |-> OffMask]
      BY <2>3 DEF UopBra
    <3>2. /\ split'.target_pc = Uop.arg /\ split'.taken = ExecMask /\ split'.fallthrough = OffMask
          /\ split' # NoSplit
      BY <1>1, <3>1 DEF NoSplit
    <3>3. ExecMask \subseteq guard /\ OffMask \cap guard = {}
      BY DEF ExecMask, OffMask
    <3>4. QED
      BY <1>1, <1>2, <2>1, <2>2, <3>2, <3>3 DEF BranchOK
  <2>4. CASE ~Divergent
    <3>1. split' = split /\ OffMask = {}
      BY <1>1, <2>4 DEF UopBra, Divergent
    <3>2. split # NoSplit => /\ split.target_pc = Uop.arg /\ split.taken \subseteq guard
                             /\ split.fallthrough \cap guard = {}
      BY <1>1 DEF LanesInv, BranchOK
    <3>3. QED
      BY <1>1, <1>2, <2>1, <2>2, <3>1, <3>2 DEF BranchOK
  <2>5. QED
    BY <2>3, <2>4
<1>5. QED
  BY <1>3, <1>4 DEF LanesInv

(* After RET, nothing executes any more.                                   *)
LEMMA RetLanes ==
    ASSUME IInv, LanesInv, UopRet
    PROVE  LanesInv'
<1>1. /\ phase = "uops" /\ ui' = ui + 1 /\ ui <= Len(Inst.uops) /\ Uop.op = "ret"
      /\ UNCHANGED <<kernel, p, guard, next_pc, split>>
  BY DEF UopRet, AtUop
<1>2. Top'.active = Top.active \ guard /\ Inst' = Inst
  BY RetTop
<1>3. ExecMask' = {} /\ OffMask' = OffMask
  BY <1>1, <1>2 DEF ExecMask, OffMask
<1>4. GuardOK'
  <2>1. ui' # 1
    BY <1>1 DEF IInv, TypeOK
  <2>2. \A l : LT!Runs(l, Inst)' <=> LT!Runs(l, Inst)
    BY <1>1, <1>2 DEF LT!Runs
  <2>3. QED
    BY <1>1, <1>2, <2>1, <2>2 DEF LanesInv, GuardOK
<1>5. BranchOK'
  BY <1>1, <1>2, <1>3 DEF LanesInv, BranchOK
<1>6. QED
  BY <1>4, <1>5 DEF LanesInv

(* Fetch sets the guard.                                                   *)
LEMMA FetchLanes ==
    ASSUME IInv, Fetch
    PROVE  LanesInv'
<1>1. /\ ui' = 1 /\ next_pc' = NoPc /\ split' = NoSplit /\ UNCHANGED <<kernel, stack, p>>
      /\ guard' = IF Inst.pred = "none" THEN Lanes ELSE {l \in Top.active : EnabledFor(l)}
  BY DEF Fetch
<1>2. Top' = Top /\ Inst' = Inst
  BY <1>1 DEF Top, Inst
<1>3. Top.active \in SUBSET Lanes
  <2>1. stack \in Seq(Frames) /\ stack # <<>>
    BY DEF IInv, TypeOK, ExecutingOK, Fetch
  <2>2. QED
    BY <2>1, TopFacts, FrameFields
<1>4. \A l \in Top.active : l \in guard' <=> LT!Runs(l, Inst)'
  BY <1>1, <1>2, <1>3 DEF LT!Runs, EnabledFor
<1>5. BranchOK'
  BY <1>1, <1>2 DEF BranchOK, IInv, TypeOK
<1>6. QED
  BY <1>2, <1>4, <1>5 DEF LanesInv, GuardOK

(* Every step keeps the account.                                           *)
LEMMA StepLanes == IInv /\ LanesInv /\ [Next]_vars => LanesInv'
<1> SUFFICES ASSUME IInv, LanesInv, [Next]_vars PROVE LanesInv'
  OBVIOUS
<1>1. CASE phase' # "uops"
  BY <1>1 DEF LanesInv, GuardOK, BranchOK
<1>2. CASE Fetch
  BY <1>2, FetchLanes
<1>3. CASE UopExec \/ UopSetp \/ UopBraOff
  BY <1>3, UopLanes
<1>4. CASE UopBra
  BY <1>4, BraLanes
<1>5. CASE UopRet
  BY <1>5, RetLanes
<1>6. CASE UNCHANGED vars
  <2>1. /\ UNCHANGED <<kernel, stack, p, phase, guard, ui, next_pc, split>>
    BY <1>6 DEF vars
  <2>2. Top' = Top /\ Inst' = Inst /\ ExecMask' = ExecMask /\ OffMask' = OffMask
    BY <2>1 DEF Top, Inst, ExecMask, OffMask
  <2>3. QED
    BY <2>1, <2>2 DEF LanesInv, GuardOK, BranchOK, LT!Runs
<1>7. QED
  BY <1>1, <1>2, <1>3, <1>4, <1>5, <1>6
     DEF Next, Normalize, Execute, Terminated, FinishWarp, PopEmpty, ResumeJoin, MergeAtReconv,
         AtReconv, MergeMiss, SelectPath, FetchFault, UopFault, UopBraFault, Fail, CommitSplit,
         CommitAdvance

-----------------------------------------------------------------------------
(* Where the lanes are.                                                    *)

\* LanePc of lane l for a stack s, returned lanes x and a kernel of n.
PcIn(s, x, n, l) ==
    LET holders == {i \in 1 .. Len(s) : l \in s[i].active}
    IN  IF l \in x THEN -1
        ELSE IF holders = {} THEN n
        ELSE s[CHOOSE i \in holders : TRUE].pc

Apart(s, x) == \A i, j \in 1 .. Len(s) : i # j => s[i].active \cap s[j].active \subseteq x

\* Lane l runs, in a frame at pc.
StandsAt(s, x, l, pc) ==
    l \notin x /\ \E i \in 1 .. Len(s) : l \in s[i].active /\ s[i].pc = pc

(* A lane's pc is that of any frame it stands in: there is only one.       *)
LEMMA PcOfStanding ==
    ASSUME NEW s, NEW x, NEW n, NEW l, NEW pc, Apart(s, x), StandsAt(s, x, l, pc)
    PROVE  PcIn(s, x, n, l) = pc
<1> DEFINE holders == {i \in 1 .. Len(s) : l \in s[i].active}
<1>1. PICK i \in 1 .. Len(s) : l \in s[i].active /\ s[i].pc = pc
  BY DEF StandsAt
<1>2. l \notin x
  BY DEF StandsAt
<1>3. i \in holders /\ \A j \in holders : j = i
  BY <1>1, <1>2 DEF Apart
<1>4. PcIn(s, x, n, l) = s[CHOOSE j \in holders : TRUE].pc
  BY <1>2, <1>3 DEF PcIn
<1> HIDE DEF holders
<1>5. (CHOOSE j \in holders : TRUE) = i
  BY <1>3
<1>6. QED
  BY <1>1, <1>4, <1>5

(* The refinement mapping, before and after a step.                        *)
LEMMA LanePcs ==
    /\ LanePc  = [l \in Lanes |-> PcIn(stack, exited, kernel.n, l)]
    /\ LanePc' = [l \in Lanes |-> PcIn(stack', exited', kernel'.n, l)]
BY DEF LanePc, PcIn

\* A step takes the lanes of every frame to frames with the same pc.
Follows ==
    \A i \in 1 .. Len(stack) : \A l \in stack[i].active \ exited :
      \E k \in 1 .. Len(stack') : l \in stack'[k].active /\ stack'[k].pc = stack[i].pc

(* Such a step is none for the threads.                                    *)
LEMMA NobodyMoves ==
    ASSUME IInv, IInv', phase # "failed", UNCHANGED <<kernel, exited, p>>, Follows
    PROVE  UNCHANGED LT!vars
<1>1. Apart(stack, exited) /\ Apart(stack', exited')
  BY DEF IInv, NoLaneDuplicated, Apart
<1>2. ASSUME NEW l \in Lanes
      PROVE  PcIn(stack', exited', kernel'.n, l) = PcIn(stack, exited, kernel.n, l)
  <2>1. CASE l \in exited
    BY <2>1 DEF PcIn
  <2>2. CASE l \notin exited
    <3>1. PICK i \in 1 .. Len(stack) : l \in stack[i].active
      BY <2>2 DEF IInv, NoLaneLost
    <3>2. StandsAt(stack, exited, l, stack[i].pc) /\ StandsAt(stack', exited', l, stack[i].pc)
      BY <2>2, <3>1 DEF StandsAt, Follows
    <3>3. QED
      BY <1>1, <3>2, PcOfStanding
  <2>3. QED
    BY <2>1, <2>2
<1>3. LanePc' = LanePc
  BY <1>2, LanePcs
<1>4. QED
  BY <1>3 DEF LT!vars

(* normalize_stack moves no lane: choosing the top frame keeps its pc.     *)
LEMMA PickedTop ==
    ASSUME IInv, ResumeJoin \/ SelectPath
    PROVE  Follows
<1> DEFINE n == Len(stack)
           f == [Top EXCEPT !.active = Live]
           e == IF Top.is_join THEN [f EXCEPT !.is_join = FALSE] ELSE f
<1>1. stack \in Seq(Frames) /\ stack # <<>>
  BY DEF IInv, TypeOK, ResumeJoin, SelectPath
<1>2. n \in 1 .. n /\ Top \in Frames /\ Top = stack[n]
  BY <1>1, TopFacts
<1>3. Live \in SUBSET Lanes
  BY <1>2, FrameFields DEF Live
<1>4. f \in Frames /\ f.active = Live /\ f.pc = Top.pc /\ f.is_join = Top.is_join
  <2>1. Top \in Frames
    BY <1>2
  <2>2. QED
    BY <1>3, <2>1 DEF Frames
<1>5. e \in Frames /\ e.active = Live /\ e.pc = Top.pc
  BY <1>4, ClearJoin
<1>6. stack' = [stack EXCEPT ![n] = e]
  <2>1. CASE ResumeJoin
    BY <1>1, <1>2, <2>1 DEF ResumeJoin
  <2>2. CASE SelectPath
    BY <1>1, <1>2, <2>2 DEF SelectPath
  <2>3. QED
    BY <2>1, <2>2
<1> HIDE DEF e
<1>7. /\ Len(stack') = n /\ stack'[n] = e
      /\ \A i \in 1 .. n : i # n => stack'[i] = stack[i]
  BY <1>1, <1>2, <1>5, <1>6, ReplaceFacts
<1>8. ASSUME NEW i \in 1 .. n, NEW l \in stack[i].active \ exited
      PROVE  i \in 1 .. Len(stack') /\ l \in stack'[i].active /\ stack'[i].pc = stack[i].pc
  <2>1. CASE i = n
    BY <1>2, <1>5, <1>7, <1>8, <2>1 DEF Live
  <2>2. CASE i # n
    BY <1>7, <1>8, <2>2
  <2>3. QED
    BY <2>1, <2>2
<1>9. QED
  BY <1>8 DEF Follows

(* A frame is dropped when all its lanes have returned.                    *)
LEMMA Popped ==
    ASSUME IInv, PopEmpty
    PROVE  Follows
<1>1. stack \in Seq(Frames) /\ stack # <<>> /\ stack' = Pop(stack) /\ Live = {}
  BY DEF IInv, TypeOK, PopEmpty
<1>2. /\ Len(stack) \in Nat \ {0} /\ Len(stack') = Len(stack) - 1
      /\ \A i \in 1 .. Len(stack) - 1 : stack'[i] = stack[i]
  BY <1>1, PopFacts
<1>3. ASSUME NEW i \in 1 .. Len(stack), NEW l \in stack[i].active \ exited
      PROVE  i \in 1 .. Len(stack') /\ l \in stack'[i].active /\ stack'[i].pc = stack[i].pc
  <2>1. i # Len(stack)
    BY <1>1, <1>3 DEF Live, Top
  <2>2. i \in 1 .. Len(stack) - 1
    BY <1>2, <2>1
  <2>3. QED
    BY <1>2, <1>3, <2>2
<1>4. QED
  BY <1>3 DEF Follows

(* The lanes of a path join others that wait at the same pc.               *)
LEMMA Merged ==
    ASSUME IInv, MergeAtReconv
    PROVE  Follows
<1>1. stack \in Seq(Frames) /\ stack # <<>>
  BY DEF IInv, TypeOK, MergeAtReconv, AtReconv
<1>2. /\ Len(stack) \in Nat \ {0} /\ Len(Pop(stack)) = Len(stack) - 1
      /\ \A i \in 1 .. Len(stack) - 1 : Pop(stack)[i] = stack[i]
  BY <1>1, PopFacts
<1>3. PICK j \in JoinsAt(Pop(stack), Top.pc) :
             stack' = [Pop(stack) EXCEPT ![j].active = @ \cup Live]
  BY DEF MergeAtReconv
<1>4. j \in 1 .. Len(stack) - 1 /\ stack[j].pc = Top.pc
  BY <1>2, <1>3 DEF JoinsAt
<1>5. PICK n \in Nat, e \in Frames :
             /\ Len(stack) = n + 1 /\ j \in 1 .. n
             /\ stack[j] \in Frames /\ Top \in Frames
             /\ Top = stack[n + 1]
             /\ e.active = stack[j].active \cup Live
             /\ e.pc = stack[j].pc /\ e.reconv_pc = stack[j].reconv_pc
             /\ e.is_join = stack[j].is_join
             /\ stack' \in Seq(Frames) /\ Len(stack') = n /\ stack'[j] = e
             /\ \A i \in 1 .. n : i # j => stack'[i] = stack[i]
  BY <1>1, <1>3, <1>4, MergeShape
<1>6. ASSUME NEW i \in 1 .. Len(stack), NEW l \in stack[i].active \ exited
      PROVE  \E k \in 1 .. Len(stack') : l \in stack'[k].active /\ stack'[k].pc = stack[i].pc
  <2>1. CASE i = n + 1
    <3>1. l \in stack'[j].active /\ stack'[j].pc = stack[i].pc
      BY <1>4, <1>5, <1>6, <2>1 DEF Live
    <3>2. QED
      BY <1>5, <3>1
  <2>2. CASE i # n + 1
    <3>1. i \in 1 .. n
      BY <1>5, <2>2
    <3>2. l \in stack'[i].active /\ stack'[i].pc = stack[i].pc
      BY <1>5, <1>6, <3>1
    <3>3. QED
      BY <1>5, <3>1, <3>2
  <2>3. QED
    BY <2>1, <2>2
<1>7. QED
  BY <1>6 DEF Follows

(* Lanes that find no join are at the end of the kernel, and stay there.   *)
LEMMA MissMovesNobody ==
    ASSUME IInv, MergeMiss
    PROVE  UNCHANGED LT!vars
<1>1. /\ stack \in Seq(Frames) /\ stack # <<>> /\ stack' = Pop(stack)
      /\ phase # "failed" /\ UNCHANGED <<kernel, exited, p>>
  BY DEF IInv, TypeOK, MergeMiss, AtReconv, Fail
<1>2. /\ Len(stack) \in Nat \ {0} /\ Len(stack') = Len(stack) - 1
      /\ \A i \in 1 .. Len(stack) - 1 : stack'[i] = stack[i]
  BY <1>1, PopFacts
<1>3. Top.pc = kernel.n
  BY ReconvAtExit DEF ReconvDiagsOnlyAtExit, MergeMiss
<1>4. Apart(stack, exited)
  BY DEF IInv, NoLaneDuplicated, Apart
<1>5. Apart(stack', exited')
  BY <1>1, <1>2, <1>4 DEF Apart
<1>6. ASSUME NEW l \in Lanes
      PROVE  PcIn(stack', exited', kernel'.n, l) = PcIn(stack, exited, kernel.n, l)
  <2>1. CASE l \in exited
    BY <1>1, <2>1 DEF PcIn
  <2>2. CASE l \notin exited
    <3>1. PICK i \in 1 .. Len(stack) : l \in stack[i].active
      BY <1>1, <2>2 DEF IInv, NoLaneLost
    <3>2. StandsAt(stack, exited, l, stack[i].pc)
      BY <2>2, <3>1 DEF StandsAt
    <3>3. PcIn(stack, exited, kernel.n, l) = stack[i].pc
      BY <1>4, <3>2, PcOfStanding
    <3>4. CASE i = Len(stack)
      <4>1. \A k \in 1 .. Len(stack') : l \notin stack'[k].active
        <5> SUFFICES ASSUME NEW k \in 1 .. Len(stack'), l \in stack'[k].active PROVE FALSE
          OBVIOUS
        <5>1. k \in 1 .. Len(stack) /\ k # i /\ l \in stack[k].active
          BY <1>2, <3>4
        <5>2. QED
          BY <1>4, <2>2, <3>1, <5>1 DEF Apart
      <4>2. {k \in 1 .. Len(stack') : l \in stack'[k].active} = {}
        BY <4>1
      <4>3. PcIn(stack', exited', kernel'.n, l) = kernel.n
        BY <1>1, <2>2, <4>2 DEF PcIn
      <4>4. QED
        BY <1>3, <3>3, <3>4, <4>3 DEF Top
    <3>5. CASE i # Len(stack)
      <4>1. i \in 1 .. Len(stack')
        BY <1>2, <3>5
      <4>2. StandsAt(stack', exited', l, stack[i].pc)
        BY <1>1, <1>2, <2>2, <3>1, <4>1 DEF StandsAt
      <4>3. QED
        BY <1>5, <3>3, <4>2, PcOfStanding
    <3>6. QED
      BY <3>4, <3>5
  <2>3. QED
    BY <2>1, <2>2
<1>7. LanePc' = LanePc
  BY <1>1, <1>6, LanePcs
<1>8. QED
  BY <1>1, <1>7 DEF LT!vars

(* The lanes of the path under execution are at its pc.                    *)
LEMMA PathLanes ==
    ASSUME IInv, phase = "uops"
    PROVE  /\ Top.pc \in 0 .. kernel.n - 1 /\ kernel.insts[Top.pc] = Inst
           /\ Top.active \subseteq LT!LanesAt(Top.pc)
           /\ Top.active \subseteq Lanes \ exited
<1>1. /\ stack \in Seq(Frames) /\ stack # <<>> /\ Top \in Frames /\ Top.pc \in 0 .. kernel.n - 1
      /\ Top.active \cap exited = {}
  BY InstFacts DEF IInv, ExecutingOK
<1>2. Len(stack) \in 1 .. Len(stack) /\ Top = stack[Len(stack)]
  BY <1>1, TopFacts
<1>3. Top.active \subseteq Lanes
  BY <1>1, FrameFields
<1>4. Apart(stack, exited)
  BY DEF IInv, NoLaneDuplicated, Apart
<1>5. ASSUME NEW l \in Top.active PROVE LanePc[l] = Top.pc
  <2>1. StandsAt(stack, exited, l, Top.pc)
    BY <1>1, <1>2 DEF StandsAt
  <2>2. PcIn(stack, exited, kernel.n, l) = Top.pc
    BY <1>4, <2>1, PcOfStanding
  <2>3. QED
    BY <1>3, <2>2, LanePcs
<1>6. QED
  BY <1>1, <1>3, <1>5 DEF LT!LanesAt, Inst

(* RET ends the threads that run it.                                       *)
LEMMA ReturnMoves ==
    ASSUME IInv, IInv', LanesInv, UopRet
    PROVE  LT!Move(Top.pc)
<1>1. /\ phase = "uops" /\ ui <= Len(Inst.uops) /\ Uop.op = "ret"
      /\ exited' = exited \cup ExecMask /\ UNCHANGED <<kernel, p>>
  BY DEF UopRet, AtUop
<1>2. /\ Top.pc \in 0 .. kernel.n - 1 /\ kernel.insts[Top.pc] = Inst
      /\ Top.active \subseteq LT!LanesAt(Top.pc) /\ Top.active \subseteq Lanes \ exited
      /\ kernel \in Kernels
  BY <1>1, PathLanes DEF IInv, TypeOK
<1>3. ui \in 1 .. Len(Inst.uops) /\ Len(Inst.uops) \in Nat /\ HasUop(Inst, "ret")
  BY <1>1, UopHere
<1>4. ASSUME HasUop(Inst, "setp") PROVE ui = 1
  <2>1. Len(Inst.uops) = 1
    BY <1>2, <1>4, SetpAlone
  <2>2. ui \in 1 .. 1
    BY <1>3, <2>1
  <2>3. QED
    BY <2>2
<1>5. ASSUME NEW l \in ExecMask PROVE LT!GoesTo(l, Top.pc) = -1
  <2>1. LT!Runs(l, Inst)
    BY <1>1, <1>4, <1>5 DEF LanesInv, GuardOK, ExecMask
  <2>2. QED
    BY <1>2, <1>3, <2>1 DEF LT!GoesTo, LT!HasUop, LT!UopsAt, HasUop, UopsAt, LT!Returned
<1>6. Apart(stack, exited) /\ Apart(stack', exited')
  BY DEF IInv, NoLaneDuplicated, Apart
<1>7. ASSUME NEW l \in Lanes
      PROVE  PcIn(stack', exited', kernel'.n, l) =
               IF l \in ExecMask THEN -1 ELSE PcIn(stack, exited, kernel.n, l)
  <2>1. CASE l \in ExecMask
    BY <1>1, <2>1 DEF PcIn
  <2>2. CASE l \notin ExecMask /\ l \in exited
    BY <1>1, <2>2 DEF PcIn
  <2>3. CASE l \notin ExecMask /\ l \notin exited
    <3>1. PICK i \in 1 .. Len(stack) : l \in stack[i].active
      BY <1>1, <2>3 DEF IInv, NoLaneLost
    <3>2. i \in 1 .. Len(stack') /\ l \in stack'[i].active /\ stack'[i].pc = stack[i].pc
      <4>1. CASE i = Len(stack)
        BY <2>3, <3>1, <4>1, RetTop DEF Top, ExecMask
      <4>2. CASE i # Len(stack)
        BY <3>1, <4>2, RetTop
      <4>3. QED
        BY <4>1, <4>2
    <3>3. StandsAt(stack, exited, l, stack[i].pc) /\ StandsAt(stack', exited', l, stack[i].pc)
      BY <1>1, <2>3, <3>1, <3>2 DEF StandsAt
    <3>4. QED
      BY <1>6, <2>3, <3>3, PcOfStanding
  <2>4. QED
    BY <2>1, <2>2, <2>3
<1>8. LanePc' = [l \in Lanes |-> IF l \in ExecMask THEN LT!GoesTo(l, Top.pc) ELSE LanePc[l]]
  BY <1>5, <1>7, LanePcs
<1>9. ExecMask \in SUBSET LT!LanesAt(Top.pc)
  BY <1>2 DEF ExecMask
<1>10. QED
  BY <1>1, <1>8, <1>9 DEF LT!Move

(* SETP writes the register for threads at it that run it.                 *)
LEMMA SetpIsSetPred ==
    ASSUME IInv, LanesInv, AtUop("setp"), Uop.arg \in Preds, NEW S \in SUBSET ExecMask,
           SetpWrites(S), UNCHANGED <<kernel, stack, exited>>
    PROVE  LT!SetPred(Top.pc)
<1>1. phase = "uops" /\ ui <= Len(Inst.uops) /\ Uop.op = "setp"
  BY DEF AtUop
<1>2. /\ Top.pc \in 0 .. kernel.n - 1 /\ kernel.insts[Top.pc] = Inst
      /\ Top.active \subseteq LT!LanesAt(Top.pc)
      /\ kernel \in Kernels
  BY <1>1, PathLanes DEF IInv, TypeOK
<1>3. ui \in 1 .. Len(Inst.uops) /\ HasUop(Inst, "setp") /\ Uop = Inst.uops[ui]
  BY <1>1, UopHere
<1>4. ui = 1
  <2>1. Len(Inst.uops) = 1
    BY <1>2, <1>3, SetpAlone
  <2>2. QED
    BY <1>3, <2>1
<1>5. \A l \in S : l \in LT!LanesAt(Top.pc) /\ LT!Runs(l, Inst)
  BY <1>1, <1>2, <1>4 DEF LanesInv, GuardOK, ExecMask
<1>6. S \in SUBSET {l \in LT!LanesAt(Top.pc) : LT!Runs(l, Inst)}
  BY <1>5
<1>7. LanePc' = LanePc
  BY DEF LanePc
<1>8. \E v \in [S -> BOOLEAN] :
        p' = [p EXCEPT ![Inst.uops[1].arg] = [l \in Lanes |-> IF l \in S THEN v[l] ELSE @[l]]]
  BY <1>3, <1>4 DEF SetpWrites
<1>9. LT!HasUop(Inst, "setp") /\ Inst.uops[1].arg \in 0 .. NumPreds - 1
  BY <1>3, <1>4 DEF LT!HasUop, LT!UopsAt, HasUop, UopsAt, Preds
<1> DEFINE Writes(inst) ==
             \E T \in SUBSET {l \in LT!LanesAt(Top.pc) : LT!Runs(l, inst)} : \E v \in [T -> BOOLEAN] :
               p' = [p EXCEPT ![inst.uops[1].arg] = [l \in Lanes |-> IF l \in T THEN v[l] ELSE @[l]]]
<1>10. Writes(Inst)
  BY <1>6, <1>8, Zenon
<1>11. UNCHANGED <<kernel, LanePc>>
  BY <1>7
<1>12. QED
  <2> DEFINE i == kernel.insts[Top.pc]
  <2>1. i = Inst
    BY <1>2
  <2>2. LT!HasUop(i, "setp") /\ i.uops[1].arg \in 0 .. NumPreds - 1
    BY <1>9, <2>1
  <2>3. Writes(i)
    <3> HIDE DEF Writes, i
    <3>1. QED
      BY <1>10, <2>1
  <2>4. QED
    BY <1>11, <2>2, <2>3, Zenon DEF LT!SetPred

(* A finite set of positions has a last one.                               *)
LEMMA LastPosition ==
    ASSUME NEW n \in Nat, NEW T, T \subseteq 1 .. n, T # {}
    PROVE  \E i \in T : \A j \in T : j <= i
<1> DEFINE R == {ss \in Nat \X Nat : ss[1] < ss[2]}
           D == {n - i : i \in T}
<1>1. R = OpToRel(<, Nat)
  BY Zenon DEF OpToRel
<1>2. IsWellFoundedOn(R, Nat)
  BY <1>1, NatLessThanWellFounded, Zenon
<1>0. \A i \in T : i \in Nat /\ n - i \in Nat
  OBVIOUS
<1>3. D \subseteq Nat /\ D # {}
  BY <1>0
<1>4. PICK d \in D : \A e \in D : ~(<<e, d>> \in R)
  <2> HIDE DEF R, D
  <2>1. QED
    BY <1>2, <1>3, WFMin
<1>5. PICK i \in T : d = n - i
  OBVIOUS
<1>6. ASSUME NEW j \in T PROVE j <= i
  <2>1. n - j \in D /\ n - j \in Nat /\ n - i \in Nat
    OBVIOUS
  <2>2. ~(n - j < n - i)
    BY <1>4, <1>5, <2>1
  <2>3. QED
    BY <2>2
<1>7. QED
  BY <1>6

(* An instruction whose branches agree goes where they say.                *)
LEMMA AgreedTarget ==
    ASSUME NEW inst \in Insts, NEW t, t # NoPc, HasUop(inst, "bra"),
           \A i \in UopsAt(inst, "bra") : inst.uops[i].arg = t
    PROVE  BraTarget(inst) = t
<1> DEFINE imm == {i \in UopsAt(inst, "bra") : inst.uops[i].arg # NoPc}
<1>1. Len(inst.uops) \in Nat
  BY LenProperties DEF Insts
<1>2. imm \subseteq 1 .. Len(inst.uops) /\ imm # {}
  BY DEF UopsAt, HasUop
<1>3. \E i \in imm : \A j \in imm : j <= i
  <2> HIDE DEF imm
  <2>1. QED
    BY <1>1, <1>2, LastPosition
<1> DEFINE last == CHOOSE i \in imm : \A j \in imm : j <= i
<1>4. last \in imm
  <2> HIDE DEF imm
  <2>1. QED
    BY <1>3
<1>5. BraTarget(inst) = inst.uops[last].arg
  BY <1>2 DEF BraTarget
<1> HIDE DEF last
<1>6. QED
  BY <1>4, <1>5

(* LaneThreads reads a kernel as SimtWarp does.                            *)
LEMMA SameImages ==
    ASSUME NEW inst
    PROVE  /\ \A op : LT!HasUop(inst, op) <=> HasUop(inst, op)
           /\ LT!BraTarget(inst) = BraTarget(inst)
<1>1. \A op : LT!UopsAt(inst, op) = UopsAt(inst, op)
  BY DEF LT!UopsAt, UopsAt
<1>2. LT!NoPc = NoPc
  BY DEF LT!NoPc, NoPc
<1> DEFINE imm  == {i \in UopsAt(inst, "bra") : inst.uops[i].arg # NoPc}
           imm2 == {i \in LT!UopsAt(inst, "bra") : inst.uops[i].arg # LT!NoPc}
           Target(S, none) == IF S = {} THEN none
                              ELSE inst.uops[CHOOSE i \in S : \A j \in S : j <= i].arg
<1>3. LT!BraTarget(inst) = BraTarget(inst)
  <2>1. imm = imm2
    BY <1>1, <1>2
  <2>2. BraTarget(inst) = Target(imm, NoPc) /\ LT!BraTarget(inst) = Target(imm2, LT!NoPc)
    BY Zenon DEF LT!BraTarget, BraTarget
  <2> HIDE DEF imm, imm2, Target
  <2>3. QED
    BY <1>2, <2>1, <2>2
<1>4. QED
  BY <1>1, <1>3 DEF LT!HasUop, HasUop

(* At the end of an instruction, each lane of the path goes where a thread *)
(* would.                                                                  *)
LEMMA ThreadGoes ==
    ASSUME IInv, LanesInv, AtCommit, NEW l \in Top.active
    PROVE  LT!GoesTo(l, Top.pc) =
             IF split = NoSplit THEN IF next_pc # NoPc THEN next_pc ELSE Top.pc + 1
             ELSE IF l \in split.taken THEN split.target_pc ELSE Top.pc + 1
<1>1. phase = "uops" /\ ui > Len(Inst.uops)
  BY DEF AtCommit
<1>2. /\ Top.pc \in 0 .. kernel.n - 1 /\ kernel.insts[Top.pc] = Inst /\ kernel \in Kernels
      /\ Inst \in Insts /\ Len(Inst.uops) \in Nat /\ ui \in Nat
  BY <1>1, PathLanes, InstFacts, LenProperties DEF IInv, TypeOK, Insts
<1>3. /\ next_pc # NoPc => HasUop(Inst, "bra")
      /\ split = NoSplit /\ next_pc # NoPc => OffMask = {}
      /\ split # NoSplit => /\ next_pc # NoPc /\ split.target_pc = next_pc
                            /\ split.taken \subseteq guard
                            /\ split.fallthrough \cap guard = {}
  BY <1>1 DEF LanesInv, BranchOK
<1>4. LT!GoesTo(l, Top.pc) = IF ~LT!Runs(l, Inst) THEN Top.pc + 1
                             ELSE IF HasUop(Inst, "ret") THEN -1
                             ELSE IF HasUop(Inst, "bra") THEN BraTarget(Inst)
                             ELSE Top.pc + 1
  BY <1>2, SameImages DEF LT!GoesTo, LT!Returned
<1>5. CASE HasUop(Inst, "setp")
  <2>1. Len(Inst.uops) = 1
    BY <1>2, <1>5, SetpAlone
  <2>2. ~HasUop(Inst, "ret") /\ ~HasUop(Inst, "bra")
    BY <1>5, <2>1 DEF HasUop, UopsAt
  <2>3. QED
    BY <1>3, <1>4, <2>2
<1>6. CASE ~HasUop(Inst, "setp") /\ l \notin guard
  <2>1. ~LT!Runs(l, Inst)
    BY <1>1, <1>6 DEF LanesInv, GuardOK
  <2>2. split = NoSplit => next_pc = NoPc
    BY <1>3, <1>6 DEF OffMask
  <2>3. QED
    BY <1>3, <1>4, <1>6, <2>1, <2>2
<1>7. CASE ~HasUop(Inst, "setp") /\ l \in guard
  <2>1. LT!Runs(l, Inst) /\ ExecMask # {}
    BY <1>1, <1>7 DEF LanesInv, GuardOK, ExecMask
  <2>2. \A i \in 1 .. Len(Inst.uops) :
          /\ Inst.uops[i].op # "ret"
          /\ Inst.uops[i].op = "bra" => next_pc # NoPc /\ Inst.uops[i].arg = next_pc
    BY <1>1, <1>2, <2>1 DEF LanesInv, BranchOK
  <2>3. ~HasUop(Inst, "ret")
    BY <2>2 DEF HasUop, UopsAt
  <2>4. CASE HasUop(Inst, "bra")
    <3>1. \A i \in UopsAt(Inst, "bra") : next_pc # NoPc /\ Inst.uops[i].arg = next_pc
      BY <2>2 DEF UopsAt
    <3>2. next_pc # NoPc
      BY <2>4, <3>1 DEF HasUop
    <3>3. BraTarget(Inst) = next_pc
      BY <1>2, <2>4, <3>1, <3>2, AgreedTarget
    <3>4. split # NoSplit => l \in split.taken
      BY <1>1, <1>3, <1>7 DEF IInv, SplitOK
    <3>5. QED
      BY <1>3, <1>4, <2>1, <2>3, <2>4, <3>2, <3>3, <3>4
  <2>5. CASE ~HasUop(Inst, "bra")
    BY <1>3, <1>4, <2>1, <2>3, <2>5
  <2>6. QED
    BY <2>4, <2>5
<1>8. QED
  BY <1>5, <1>6, <1>7

(* What a commit makes of the path and of the frames below it.             *)
LEMMA CommitPlaces ==
    ASSUME IInv, CommitSplit \/ CommitAdvance
    PROVE  /\ \A i \in 1 .. Len(stack) : i # Len(stack) => i \in 1 .. Len(stack') /\ stack'[i] = stack[i]
           /\ \A l \in Top.active \ exited : \E k \in 1 .. Len(stack') :
                /\ l \in stack'[k].active
                /\ stack'[k].pc =
                     IF split = NoSplit THEN IF next_pc # NoPc THEN next_pc ELSE Top.pc + 1
                     ELSE IF l \in split.taken THEN split.target_pc ELSE Top.pc + 1
<1>1. stack \in Seq(Frames) /\ stack # <<>> /\ phase = "uops" /\ split \in Splits
  BY DEF IInv, TypeOK, ExecutingOK, CommitSplit, CommitAdvance, AtCommit
<1>2. /\ Len(stack) \in 1 .. Len(stack) /\ Len(stack) \in Nat
      /\ Top = stack[Len(stack)] /\ Top \in Frames /\ Top.pc \in PCs
  BY <1>1, TopFacts, FrameFields, LenProperties
<1>3. CASE CommitAdvance
  <2> DEFINE pc == IF next_pc # NoPc THEN next_pc ELSE Top.pc + 1
             e  == [Top EXCEPT !.pc = pc]
  <2>1. pc \in PCs
    BY <1>2 DEF IInv, TypeOK, PCs
  <2>2. e \in Frames /\ e.active = Top.active /\ e.pc = pc
    <3> HIDE DEF pc
    <3>1. QED
      BY <1>2, <2>1, SetPc
  <2>3. stack' = [stack EXCEPT ![Len(stack)] = e]
    BY <1>2, <1>3 DEF CommitAdvance
  <2>4. split = NoSplit
    BY <1>3 DEF CommitAdvance
  <2> HIDE DEF e
  <2>5. /\ Len(stack') = Len(stack) /\ stack'[Len(stack)] = e
        /\ \A i \in 1 .. Len(stack) : i # Len(stack) => stack'[i] = stack[i]
    BY <1>1, <1>2, <2>2, <2>3, ReplaceFacts
  <2>6. Len(stack) \in 1 .. Len(stack')
    BY <1>2, <2>5
  <2>7. QED
    BY <2>2, <2>4, <2>5, <2>6
<1>4. CASE CommitSplit
  <2> DEFINE s == Pop(stack)
             n == Len(s)
             a == SplitFrames[1]
             b == SplitFrames[2]
             c == SplitFrames[3]
  <2>1. /\ s \in Seq(Frames) /\ Len(s) = Len(stack) - 1
        /\ \A i \in 1 .. Len(stack) - 1 : s[i] = stack[i]
    BY <1>1, PopFacts
  <2>2. /\ a \in Frames /\ b \in Frames /\ c \in Frames /\ SplitFrames = <<a, b, c>>
        /\ b.active = split.fallthrough /\ b.pc = Top.pc + 1
        /\ c.active = split.taken /\ c.pc = split.target_pc
    <3>1. Top.pc + 1 \in PCs /\ Top.reconv_pc \in PCs
      BY <1>2, FrameFields DEF PCs
    <3>2. QED
      BY <1>1, <1>2, <3>1 DEF SplitFrames, Frames, Splits
  <2>3. split # NoSplit /\ stack' = s \o <<a, b, c>>
    BY <1>4, <2>2 DEF CommitSplit
  <2> HIDE DEF s, a, b, c
  <2>4. /\ Len(stack') = n + 3 /\ \A i \in 1 .. n : stack'[i] = s[i]
        /\ stack'[n + 2] = b /\ stack'[n + 3] = c
    BY <2>1, <2>2, <2>3, PushThreeFacts
  <2>5. n \in Nat
    BY <1>2, <2>1
  <2>6. ASSUME NEW i \in 1 .. Len(stack), i # Len(stack)
        PROVE  i \in 1 .. Len(stack') /\ stack'[i] = stack[i]
    BY <1>2, <2>1, <2>4, <2>6
  <2>7. ASSUME NEW l \in Top.active \ exited
        PROVE  \E k \in 1 .. Len(stack') :
                 /\ l \in stack'[k].active
                 /\ stack'[k].pc = IF l \in split.taken THEN split.target_pc ELSE Top.pc + 1
    <3>1. l \in split.taken \/ l \in split.fallthrough
      BY <1>1, <2>3 DEF IInv, SplitOK
    <3>2. n + 2 \in 1 .. Len(stack') /\ n + 3 \in 1 .. Len(stack')
      BY <2>4, <2>5
    <3>3. CASE l \in split.taken
      BY <2>2, <2>4, <3>2, <3>3
    <3>4. CASE l \notin split.taken
      BY <2>2, <2>4, <3>1, <3>2, <3>4
    <3>5. QED
      BY <3>3, <3>4
  <2>8. QED
    BY <2>3, <2>6, <2>7
<1>5. QED
  BY <1>3, <1>4

(* A commit moves the threads of the path, each by its own predicate.      *)
LEMMA CommitMoves ==
    ASSUME IInv, IInv', LanesInv, CommitSplit \/ CommitAdvance
    PROVE  LT!Move(Top.pc)
<1>1. AtCommit /\ phase = "uops" /\ UNCHANGED <<kernel, exited, p>>
  BY DEF CommitSplit, CommitAdvance, AtCommit
<1>2. Top.active \subseteq LT!LanesAt(Top.pc) /\ Top.active \subseteq Lanes \ exited
  BY <1>1, PathLanes
<1>3. Apart(stack, exited) /\ Apart(stack', exited')
  BY DEF IInv, NoLaneDuplicated, Apart
<1>4. ASSUME NEW l \in Lanes
      PROVE  PcIn(stack', exited', kernel'.n, l) =
               IF l \in Top.active THEN LT!GoesTo(l, Top.pc)
               ELSE PcIn(stack, exited, kernel.n, l)
  <2>1. CASE l \in Top.active
    <3> DEFINE to == IF split = NoSplit THEN IF next_pc # NoPc THEN next_pc ELSE Top.pc + 1
                     ELSE IF l \in split.taken THEN split.target_pc ELSE Top.pc + 1
    <3>1. LT!GoesTo(l, Top.pc) = to
      BY <1>1, <2>1, ThreadGoes
    <3>2. StandsAt(stack', exited', l, to)
      <4> HIDE DEF to
      <4>1. l \notin exited'
        BY <1>1, <1>2, <2>1
      <4>2. \E k \in 1 .. Len(stack') : l \in stack'[k].active /\ stack'[k].pc = to
        BY <1>2, <2>1, CommitPlaces DEF to
      <4>3. QED
        BY <4>1, <4>2 DEF StandsAt
    <3> HIDE DEF to
    <3>3. PcIn(stack', exited', kernel'.n, l) = to
      BY <1>3, <3>2, PcOfStanding
    <3>4. QED
      BY <2>1, <3>1, <3>3
  <2>2. CASE l \in exited
    BY <1>1, <1>2, <2>2 DEF PcIn
  <2>3. CASE l \notin Top.active /\ l \notin exited
    <3>1. PICK i \in 1 .. Len(stack) : l \in stack[i].active
      BY <1>1, <2>3 DEF IInv, NoLaneLost
    <3>2. i # Len(stack)
      BY <2>3, <3>1 DEF Top
    <3>3. i \in 1 .. Len(stack') /\ stack'[i] = stack[i]
      BY <3>2, CommitPlaces
    <3>4. StandsAt(stack, exited, l, stack[i].pc) /\ StandsAt(stack', exited', l, stack[i].pc)
      BY <1>1, <2>3, <3>1, <3>3 DEF StandsAt
    <3>5. QED
      BY <1>3, <2>3, <3>4, PcOfStanding
  <2>4. QED
    BY <2>1, <2>2, <2>3
<1>5. LanePc' = [l \in Lanes |-> IF l \in Top.active THEN LT!GoesTo(l, Top.pc) ELSE LanePc[l]]
  BY <1>4, LanePcs
<1>6. QED
  BY <1>1, <1>2, <1>5 DEF LT!Move

(* Every step of the warp is a step of the threads, or none.               *)
LEMMA StepOfThreads ==
    IInv /\ IInv' /\ LanesInv /\ [Next]_vars => [LT!Next]_(LT!vars)
<1> SUFFICES ASSUME IInv, IInv', LanesInv, [Next]_vars
             PROVE  LT!Next \/ UNCHANGED LT!vars
  OBVIOUS
<1>1. CASE UNCHANGED <<kernel, stack, exited, p>>
  BY <1>1 DEF LT!vars, LanePc
<1>2. CASE PopEmpty \/ ResumeJoin \/ SelectPath \/ MergeAtReconv
  <2>1. phase # "failed" /\ UNCHANGED <<kernel, exited, p>>
    BY <1>2 DEF PopEmpty, ResumeJoin, SelectPath, MergeAtReconv, AtReconv
  <2>2. Follows
    BY <1>2, Popped, PickedTop, Merged
  <2>3. QED
    BY <2>1, <2>2, NobodyMoves
<1>3. CASE MergeMiss
  BY <1>3, MissMovesNobody
<1>4. CASE UopRet \/ CommitSplit \/ CommitAdvance
  <2>1. LT!Move(Top.pc)
    BY <1>4, ReturnMoves, CommitMoves
  <2>2. Top.pc \in 0 .. kernel.n - 1
    BY <1>4, PathLanes DEF UopRet, CommitSplit, CommitAdvance, AtUop, AtCommit
  <2>3. QED
    BY <2>1, <2>2 DEF LT!Next
<1>5. CASE UopSetp \/ (UopFault /\ ~UNCHANGED p)
  <2>1. /\ AtUop("setp") /\ Uop.arg \in Preds /\ UNCHANGED <<kernel, stack, exited>>
        /\ \E S \in SUBSET ExecMask : SetpWrites(S)
    BY <1>5 DEF UopSetp, UopFault, Fail
  <2>2. LT!SetPred(Top.pc)
    BY <2>1, SetpIsSetPred
  <2>3. Top.pc \in 0 .. kernel.n - 1
    BY <2>1, PathLanes DEF AtUop
  <2>4. QED
    BY <2>2, <2>3 DEF LT!Next
<1>6. CASE Fetch \/ UopExec \/ UopBraOff \/ UopBra \/ FinishWarp
  BY <1>1, <1>6 DEF Fetch, UopExec, UopBraOff, UopBra, FinishWarp
<1>7. CASE FetchFault \/ UopBraFault
  BY <1>1, <1>7 DEF FetchFault, UopBraFault, Fail
<1>8. CASE UopFault /\ UNCHANGED p
  BY <1>1, <1>8 DEF UopFault, Fail
<1>9. CASE Terminated \/ UNCHANGED vars
  BY <1>1, <1>9 DEF Terminated, vars
<1>10. CASE Normalize
  BY <1>2, <1>3, <1>6, <1>10 DEF Normalize
<1>11. CASE Execute
  <2>1. UopSetp \/ UopFault => LT!Next \/ UNCHANGED LT!vars
    BY <1>5, <1>8
  <2>2. QED
    BY <1>4, <1>6, <1>7, <1>11, <2>1 DEF Execute
<1>12. QED
  BY <1>9, <1>10, <1>11 DEF Next

(* Divergence and reconvergence are invisible to a lane: the SIMT stack    *)
(* with its splits, joins and merges implements independent threads, for   *)
(* every kernel whose SETPs are alone in their instruction and every       *)
(* number of lanes.                                                        *)
THEOREM LanesRunAsThreads == Spec => LanesAreThreads
<1>1. Init => LT!Init
  <2> SUFFICES ASSUME Init PROVE LT!Init
    OBVIOUS
  <2>1. /\ Apart(stack, exited)
        /\ \A l \in Lanes : StandsAt(stack, exited, l, 0)
    BY DEF Init, Apart, StandsAt
  <2>2. \A l \in Lanes : PcIn(stack, exited, kernel.n, l) = 0
    BY <2>1, PcOfStanding
  <2>3. LanePc = [l \in Lanes |-> 0]
    BY <2>2, LanePcs
  <2>4. QED
    BY <2>3 DEF Init, LT!Init, Preds
<1>2. Spec => []LanesInv
  BY InitLanes, StepLanes, SpecIInv, PTL DEF Spec
<1>3. QED
  BY <1>1, <1>2, StepOfThreads, SpecIInv, PTL DEF Spec, LT!Spec, LanesAreThreads

-----------------------------------------------------------------------------
(* Where joins wait, in kernels of which control only moves on and of      *)
(* which no two branches reconverge at one point.                          *)

(* The lemmas about paths of ControlFlowAnalysisProofs; they mention no    *)
(* variable of the analysis.                                               *)
Paths == INSTANCE ControlFlowAnalysisProofs
         WITH Images <- {}, postdom <- <<>>, node <- 0, changed <- FALSE, iters <- 0, reconv <- <<>>

\* The analysis and the executor mean the same paths.
LEMMA SamePaths ==
    /\ \A k : Paths!IsImage(k) <=> IsImage(k)
    /\ \A k, pc : Paths!BadTarget(k, pc) <=> BadTarget(k, pc)
    /\ \A k, pc : Paths!Succ(k, pc) = Succ(k, pc)
    /\ \A k, pc : Paths!ReachesExit(k, pc) <=> ReachesExit(k, pc)
    /\ \A k, m, pc : Paths!PostDominates(k, m, pc) <=> PostDominates(k, m, pc)
<1>1. \A k : Paths!IsImage(k) <=> IsImage(k)
  BY DEF Paths!IsImage, IsImage, Paths!Insts, Insts, Paths!Uops, Uops, Paths!NoPc, NoPc
<1>2. \A k, pc : Paths!BadTarget(k, pc) <=> BadTarget(k, pc)
  BY DEF Paths!BadTarget, BadTarget, Paths!IsPredBra, IsPredBra, Paths!BraTarget, BraTarget,
         Paths!HasUop, HasUop, Paths!UopsAt, UopsAt, Paths!NoPc, NoPc
<1>3. \A k, pc : Paths!Succ(k, pc) = Succ(k, pc)
  BY DEF Paths!Succ, Succ, Paths!BraTarget, BraTarget, Paths!HasUop, HasUop,
         Paths!UopsAt, UopsAt, Paths!NoPc, NoPc
<1>4. \A k, pc, m : Paths!ReachAvoiding(k, pc, m) = ReachAvoiding(k, pc, m)
  BY ZenonT(60) DEF Paths!ReachAvoiding, ReachAvoiding, Paths!Succ, Succ, Paths!BraTarget,
                    BraTarget, Paths!HasUop, HasUop, Paths!UopsAt, UopsAt, Paths!NoPc, NoPc
<1>5. Paths!NoPc = NoPc
  BY DEF Paths!NoPc, NoPc
<1>6. QED
  BY <1>1, <1>2, <1>3, <1>4, <1>5
     DEF Paths!ReachesExit, ReachesExit, Paths!PostDominates, PostDominates

\* What there is to know of the paths of such a kernel.
LEMMA ForwardPaths ==
    ASSUME NEW k \in Kernels, LoopFree(k)
    PROVE  /\ \A x \in 0 .. k.n - 1 : \A y \in Succ(k, x) : y > x
           /\ \A x \in 0 .. k.n : ReachesExit(k, x)
           /\ \A x, m \in 0 .. k.n : PostDominates(k, m, x) => x <= m
           /\ \A x \in 0 .. k.n - 1, m \in 0 .. k.n : m # x /\ PostDominates(k, m, x) =>
                \A y \in Succ(k, x) : y \in 0 .. k.n /\ PostDominates(k, m, y)
<1>1. IsImage(k) /\ k.n \in Nat /\ \A pc \in 0 .. k.n - 1 : ~BadTarget(k, pc)
  BY KernelsAssumption, TablesAssumption DEF KernelOK, Analysed, IsImage
<1>2. ASSUME NEW x \in 0 .. k.n - 1, NEW y \in Succ(k, x) PROVE y > x
  <2> DEFINE inst == k.insts[x]
             t    == BraTarget(inst)
  <2>1. inst \in Insts
    BY <1>1 DEF IsImage
  <2>2. t = NoPc \/ t > x
    <3> DEFINE imm == {i \in UopsAt(inst, "bra") : inst.uops[i].arg # NoPc}
    <3>1. Len(inst.uops) \in Nat /\ imm \subseteq 1 .. Len(inst.uops)
      BY <2>1, LenProperties DEF Insts, UopsAt
    <3>2. \A i \in imm : inst.uops[i].arg > x
      BY DEF LoopFree
    <3> DEFINE last == CHOOSE i \in imm : \A j \in imm : j <= i
    <3>3. CASE imm # {}
      <4>1. \E i \in imm : \A j \in imm : j <= i
        <5> HIDE DEF imm
        <5>1. QED
          BY <3>1, <3>3, LastPosition
      <4>2. last \in imm
        <5> HIDE DEF imm
        <5>1. QED
          BY <4>1
      <4>3. t = inst.uops[last].arg
        BY <3>3 DEF BraTarget
      <4> HIDE DEF last, imm, t
      <4>4. QED
        BY <3>2, <4>2, <4>3
    <3>4. CASE imm = {}
      BY <3>4 DEF BraTarget
    <3>5. QED
      BY <3>3, <3>4
  <2>3. ~BadTarget(k, x)
    BY <1>1
  <2>4. Succ(k, x) = IF ~inst.has_desc THEN {x + 1}
          ELSE IF HasUop(inst, "ret") THEN {k.n}
          ELSE IF ~HasUop(inst, "bra") THEN {x + 1}
          ELSE IF inst.pred # "none" THEN {t, x + 1}
          ELSE IF t = NoPc THEN {x + 1}
          ELSE IF t < k.n THEN {t} ELSE {k.n}
    BY DEF Succ
  <2>5. IsPredBra(inst) /\ ~HasUop(inst, "ret") => t # NoPc
    BY <1>1, <2>3 DEF BadTarget, NoPc
  <2> HIDE DEF inst, t
  <2>6. QED
    BY <1>1, <1>2, <2>2, <2>4, <2>5 DEF IsPredBra
<1>3. /\ Paths!IsImage(k) /\ \A pc \in 0 .. k.n - 1 : ~Paths!BadTarget(k, pc)
      /\ \A x \in 0 .. k.n - 1 : \A y \in Paths!Succ(k, x) : y > x
  BY <1>1, <1>2, SamePaths
<1>4. /\ \A x \in 0 .. k.n : Paths!ReachesExit(k, x)
      /\ \A x, m \in 0 .. k.n : Paths!PostDominates(k, m, x) => x <= m
      /\ \A x \in 0 .. k.n - 1, m \in 0 .. k.n : m # x /\ Paths!PostDominates(k, m, x) =>
           \A y \in Paths!Succ(k, x) : y \in 0 .. k.n /\ Paths!PostDominates(k, m, y)
  BY <1>3, Paths!ForwardPostDominance
<1>5. QED
  BY <1>2, <1>4, SamePaths

\* m is ahead of a path at pc: the end of the kernel, or a point that the path
\* has to pass.
Ahead(k, m, pc) == m = k.n \/ (pc \in 0 .. k.n /\ PostDominates(k, m, pc))

\* A frame is to meet the others at a point ahead of it, no further than any
\* join that waits below it.
MeetsAhead(k, s) ==
    \A i \in 1 .. Len(s) :
      /\ s[i].reconv_pc <= k.n /\ Ahead(k, s[i].reconv_pc, s[i].pc)
      /\ \A j \in 1 .. i - 1 : s[j].is_join => s[i].reconv_pc <= s[j].pc

\* A join waits before the joins below it, short of the point where its own
\* lanes are to meet others, for a branch that all frames above have left
\* behind.
JoinsNest(k, s) ==
    \A i \in 1 .. Len(s) : s[i].is_join =>
      /\ s[i].pc = k.n \/ s[i].pc < s[i].reconv_pc
      /\ \A j \in 1 .. i - 1 : s[j].is_join => s[i].pc < s[j].pc
      /\ \E b \in 0 .. k.n - 1 : /\ IsPredBra(k.insts[b]) /\ k.reconv[b] = s[i].pc
                                 /\ \A j \in i + 1 .. Len(s) : b < s[j].pc

Nested(k, s) == MeetsAhead(k, s) /\ JoinsNest(k, s)

\* t is s with some of the upper frames gone and some joins resumed.
Thinner(s, t) ==
    /\ Len(t) \in Nat /\ Len(t) <= Len(s)
    /\ \A i \in 1 .. Len(t) : /\ t[i].pc = s[i].pc /\ t[i].reconv_pc = s[i].reconv_pc
                              /\ t[i].is_join => s[i].is_join

\* normalize_stack keeps the order of the joins.
LEMMA ThinnerNests ==
    ASSUME NEW k, NEW s, NEW t, Len(s) \in Nat, Thinner(s, t), Nested(k, s)
    PROVE  Nested(k, t)
<1>1. \A i \in 1 .. Len(t) : i \in 1 .. Len(s) /\ \A j \in 1 .. i - 1 : j \in 1 .. Len(t)
  BY DEF Thinner
<1>2. MeetsAhead(k, t)
  BY <1>1 DEF Nested, MeetsAhead, Thinner
<1>3. ASSUME NEW i \in 1 .. Len(t), t[i].is_join
      PROVE  /\ t[i].pc = k.n \/ t[i].pc < t[i].reconv_pc
             /\ \A j \in 1 .. i - 1 : t[j].is_join => t[i].pc < t[j].pc
             /\ \E b \in 0 .. k.n - 1 : /\ IsPredBra(k.insts[b]) /\ k.reconv[b] = t[i].pc
                                        /\ \A j \in i + 1 .. Len(t) : b < t[j].pc
  <2>1. /\ i \in 1 .. Len(s) /\ s[i].is_join
        /\ t[i].pc = s[i].pc /\ t[i].reconv_pc = s[i].reconv_pc
    BY <1>1, <1>3 DEF Thinner
  <2>2. PICK b \in 0 .. k.n - 1 : /\ IsPredBra(k.insts[b]) /\ k.reconv[b] = s[i].pc
                                  /\ \A j \in i + 1 .. Len(s) : b < s[j].pc
    BY <2>1 DEF Nested, JoinsNest
  <2>3. \A j \in i + 1 .. Len(t) : j \in i + 1 .. Len(s) /\ j \in 1 .. Len(t)
    BY DEF Thinner
  <2>4. \A j \in i + 1 .. Len(t) : b < t[j].pc
    BY <2>2, <2>3 DEF Thinner
  <2>5. \A j \in 1 .. i - 1 : t[j].is_join => s[j].is_join /\ t[j].pc = s[j].pc
    BY <1>1 DEF Thinner
  <2>6. \A j \in 1 .. i - 1 : t[j].is_join => t[i].pc < t[j].pc
    BY <2>1, <2>5 DEF Nested, JoinsNest
  <2>7. QED
    BY <2>1, <2>2, <2>4, <2>6 DEF Nested, JoinsNest
<1>4. QED
  BY <1>2, <1>3 DEF Nested, JoinsNest

\* A path goes on, to a point from which it still meets the others.
LEMMA AdvanceNests ==
    ASSUME NEW k, NEW s, NEW t, NEW n \in Nat, Len(s) = n + 1, Len(t) = n + 1, Nested(k, s),
           \A i \in 1 .. n : t[i] = s[i],
           s[n + 1].pc \in Nat, t[n + 1].pc \in Nat, k.n \in Nat,
           ~t[n + 1].is_join, t[n + 1].reconv_pc = s[n + 1].reconv_pc,
           s[n + 1].pc < t[n + 1].pc, Ahead(k, s[n + 1].reconv_pc, t[n + 1].pc)
    PROVE  Nested(k, t)
<1>1. \A i \in 1 .. n + 1 : (i \in 1 .. n \/ i = n + 1) /\ \A j \in 1 .. i - 1 : j \in 1 .. n
  OBVIOUS
<1>2. MeetsAhead(k, t)
  BY <1>1 DEF Nested, MeetsAhead
<1>3. ASSUME NEW i \in 1 .. n, t[i].is_join
      PROVE  /\ t[i].pc = k.n \/ t[i].pc < t[i].reconv_pc
             /\ \A j \in 1 .. i - 1 : t[j].is_join => t[i].pc < t[j].pc
             /\ \E b \in 0 .. k.n - 1 : /\ IsPredBra(k.insts[b]) /\ k.reconv[b] = t[i].pc
                                        /\ \A j \in i + 1 .. n + 1 : b < t[j].pc
  <2>1. i \in 1 .. Len(s) /\ s[i].is_join /\ t[i] = s[i]
    BY <1>3
  <2>2. PICK b \in 0 .. k.n - 1 : /\ IsPredBra(k.insts[b]) /\ k.reconv[b] = s[i].pc
                                  /\ \A j \in i + 1 .. n + 1 : b < s[j].pc
    BY <2>1 DEF Nested, JoinsNest
  <2>3. b < s[n + 1].pc
    BY <2>2
  <2>4. \A j \in i + 1 .. n + 1 : b < t[j].pc
    <3> SUFFICES ASSUME NEW j \in i + 1 .. n + 1 PROVE b < t[j].pc
      OBVIOUS
    <3>1. CASE j = n + 1
      BY <2>3, <3>1
    <3>2. CASE j # n + 1
      BY <2>2, <3>2
    <3>3. QED
      BY <3>1, <3>2
  <2>5. \A j \in 1 .. i - 1 : t[j] = s[j]
    OBVIOUS
  <2>6. QED
    BY <2>1, <2>2, <2>4, <2>5 DEF Nested, JoinsNest
<1>4. QED
  BY <1>1, <1>2, <1>3 DEF Nested, JoinsNest

\* The frames of a stack of which three have been pushed.
LEMMA ThreeOnTop ==
    ASSUME NEW n \in Nat
    PROVE  \A i \in 1 .. n + 3 :
             /\ i \in 1 .. n \/ i = n + 1 \/ i = n + 2 \/ i = n + 3
             /\ \A j \in 1 .. i - 1 : j \in 1 .. n \/ j = n + 1 \/ j = n + 2
OBVIOUS

\* A path splits for branch b, before whose point of reconvergence the joins
\* below do not wait.
LEMMA SplitNests ==
    ASSUME NEW k, NEW s, NEW t, NEW n \in Nat, Len(s) = n + 1, Len(t) = n + 3, Nested(k, s),
           \A i \in 1 .. n : t[i] = s[i] /\ s[i].pc \in Nat, k.n \in Nat,
           NEW b \in 0 .. k.n - 1, IsPredBra(k.insts[b]), s[n + 1].pc = b,
           NEW m \in 0 .. k.n, k.reconv[b] = m, b < m,
           NEW r \in Nat, s[n + 1].reconv_pc = r, m = k.n \/ m < r, Ahead(k, r, m),
           \A j \in 1 .. n : s[j].is_join => m < s[j].pc,
           t[n + 1].is_join, t[n + 1].pc = m, t[n + 1].reconv_pc = r,
           ~t[n + 2].is_join, t[n + 2].pc \in Nat, t[n + 2].reconv_pc = m,
           b < t[n + 2].pc, Ahead(k, m, t[n + 2].pc),
           ~t[n + 3].is_join, t[n + 3].pc \in Nat, t[n + 3].reconv_pc = m,
           b < t[n + 3].pc, Ahead(k, m, t[n + 3].pc)
    PROVE  Nested(k, t)
<1>1. \A i \in 1 .. n + 3 : i \in 1 .. n \/ i = n + 1 \/ i = n + 2 \/ i = n + 3
  BY ThreeOnTop
<1>2. r <= k.n /\ \A j \in 1 .. n : s[j].is_join => r <= s[j].pc
  <2>1. n + 1 \in 1 .. Len(s)
    OBVIOUS
  <2>2. QED
    BY <2>1 DEF Nested, MeetsAhead
<1>3. MeetsAhead(k, t)
  <2> SUFFICES ASSUME NEW i \in 1 .. n + 3
               PROVE  /\ t[i].reconv_pc <= k.n /\ Ahead(k, t[i].reconv_pc, t[i].pc)
                      /\ \A j \in 1 .. i - 1 : t[j].is_join => t[i].reconv_pc <= t[j].pc
    BY DEF MeetsAhead
  <2>1. CASE i \in 1 .. n
    BY <2>1 DEF Nested, MeetsAhead
  <2>2. CASE i = n + 1
    BY <1>2, <2>2
  <2>3. CASE i = n + 2 \/ i = n + 3
    <3>1. \A j \in 1 .. i - 1 : j \in 1 .. n \/ j = n + 1 \/ j = n + 2
      BY ThreeOnTop
    <3>2. \A j \in 1 .. i - 1 : t[j].is_join => m <= t[j].pc
      <4>1. ASSUME NEW j \in 1 .. n, t[j].is_join PROVE m <= t[j].pc
        <5>1. t[j] = s[j] /\ s[j].pc \in Nat
          OBVIOUS
        <5>2. m < s[j].pc /\ m \in Nat
          BY <4>1, <5>1
        <5>3. QED
          BY ONLY <5>1, <5>2
      <4>2. m <= t[n + 1].pc
        OBVIOUS
      <4>3. \A j : j = n + 2 => ~t[j].is_join
        OBVIOUS
      <4>4. QED
        BY ONLY <3>1, <4>1, <4>2, <4>3
    <3>3. QED
      BY <2>3, <3>2
  <2>4. QED
    BY <1>1, <2>1, <2>2, <2>3
<1>4. ASSUME NEW i \in 1 .. n + 3, t[i].is_join
      PROVE  /\ t[i].pc = k.n \/ t[i].pc < t[i].reconv_pc
             /\ \A j \in 1 .. i - 1 : t[j].is_join => t[i].pc < t[j].pc
             /\ \E a \in 0 .. k.n - 1 : /\ IsPredBra(k.insts[a]) /\ k.reconv[a] = t[i].pc
                                        /\ \A j \in i + 1 .. n + 3 : a < t[j].pc
  <2>1. CASE i \in 1 .. n
    <3>1. i \in 1 .. Len(s) /\ s[i].is_join /\ t[i] = s[i]
      BY <1>4, <2>1
    <3>2. PICK a \in 0 .. k.n - 1 : /\ IsPredBra(k.insts[a]) /\ k.reconv[a] = s[i].pc
                                    /\ \A j \in i + 1 .. n + 1 : a < s[j].pc
      BY <3>1 DEF Nested, JoinsNest
    <3>3. n + 1 \in i + 1 .. n + 1
      BY ONLY <2>1, n \in Nat
    <3>4. a < b
      BY <3>2, <3>3, SMTT(30)
    <3>5. \A j \in i + 1 .. n + 3 : a < t[j].pc
      <4> SUFFICES ASSUME NEW j \in i + 1 .. n + 3 PROVE a < t[j].pc
        OBVIOUS
      <4>1. CASE j \in 1 .. n
        BY <3>2, <4>1
      <4>2. CASE j = n + 1 \/ j = n + 2 \/ j = n + 3
        BY <3>4, <4>2
      <4>3. QED
        BY <2>1, <4>1, <4>2
    <3>6. \A j \in 1 .. i - 1 : t[j] = s[j]
      BY <2>1
    <3>7. QED
      BY <3>1, <3>2, <3>5, <3>6 DEF Nested, JoinsNest
  <2>2. CASE i = n + 1
    <3>1. \A j \in i + 1 .. n + 3 : j = n + 2 \/ j = n + 3
      BY <2>2
    <3>2. \A j \in i + 1 .. n + 3 : b < t[j].pc
      BY <3>1
    <3>3. \A j \in 1 .. i - 1 : t[j].is_join => m < t[j].pc
      BY <2>2
    <3>4. QED
      BY <2>2, <3>2, <3>3
  <2>3. QED
    BY <1>1, <1>4, <2>1, <2>2
<1>5. QED
  BY <1>3, <1>4 DEF Nested, JoinsNest

\* normalize_stack and the micro-ops take frames away, resume joins and move no
\* pc.
LEMMA StackThins ==
    ASSUME IInv, [Next]_vars, ~CommitSplit, ~CommitAdvance
    PROVE  Thinner(stack, stack')
<1>0. stack \in Seq(Frames) /\ Len(stack) \in Nat
  BY LenProperties DEF IInv, TypeOK
<1>1. CASE stack' = stack
  BY <1>0, <1>1 DEF Thinner
<1>2. CASE PopEmpty \/ MergeMiss
  <2>1. stack # <<>> /\ stack' = Pop(stack)
    BY <1>2 DEF PopEmpty, MergeMiss, AtReconv
  <2>2. Len(stack) \in Nat \ {0} /\ Len(stack') = Len(stack) - 1
        /\ \A i \in 1 .. Len(stack) - 1 : stack'[i] = stack[i]
    BY <1>0, <2>1, PopFacts
  <2>3. QED
    BY <2>2 DEF Thinner
<1>3. CASE MergeAtReconv
  <2>1. PICK j \in 1 .. Len(stack) - 1 :
          stack # <<>> /\ stack' = [Pop(stack) EXCEPT ![j].active = @ \cup Live]
    <3>1. stack # <<>>
      BY <1>3 DEF MergeAtReconv, AtReconv
    <3>2. Len(Pop(stack)) = Len(stack) - 1
      BY <1>0, <3>1, PopFacts
    <3>3. QED
      BY <1>3, <3>1, <3>2 DEF MergeAtReconv, JoinsAt
  <2>2. PICK n \in Nat, e \in Frames :
             /\ Len(stack) = n + 1 /\ j \in 1 .. n
             /\ stack[j] \in Frames /\ Top \in Frames
             /\ Top = stack[n + 1]
             /\ e.active = stack[j].active \cup Live
             /\ e.pc = stack[j].pc /\ e.reconv_pc = stack[j].reconv_pc
             /\ e.is_join = stack[j].is_join
             /\ stack' \in Seq(Frames) /\ Len(stack') = n /\ stack'[j] = e
             /\ \A i \in 1 .. n : i # j => stack'[i] = stack[i]
    BY <1>0, <2>1, MergeShape
  <2>3. QED
    BY <2>2 DEF Thinner
<1>4. CASE ResumeJoin \/ SelectPath \/ UopRet
  <2> DEFINE n == Len(stack)
             A == IF UopRet THEN Top.active \ guard ELSE Live
             f == [Top EXCEPT !.active = A]
             e == IF ResumeJoin THEN [f EXCEPT !.is_join = FALSE] ELSE f
  <2>1. stack # <<>>
    BY <1>4 DEF IInv, ExecutingOK, ResumeJoin, SelectPath, UopRet, AtUop
  <2>2. n \in 1 .. n /\ Top \in Frames /\ Top = stack[n]
    BY <1>0, <2>1, TopFacts
  <2>3. A \in SUBSET Lanes
    BY <2>2, FrameFields DEF Live
  <2>4. f \in Frames /\ f.pc = Top.pc /\ f.reconv_pc = Top.reconv_pc /\ f.is_join = Top.is_join
    <3>1. Top \in Frames
      BY <2>2
    <3> HIDE DEF A
    <3>2. QED
      BY <2>3, <3>1, SetActive
  <2>5. /\ e \in Frames /\ e.pc = Top.pc /\ e.reconv_pc = Top.reconv_pc
        /\ e.is_join => Top.is_join
    <3> HIDE DEF f
    <3>1. QED
      BY <2>4, ClearJoin
  <2>6. stack' = [stack EXCEPT ![n] = e]
    <3>1. CASE ResumeJoin
      <4>1. ~UopRet
        BY <3>1 DEF ResumeJoin, UopRet, AtUop
      <4>2. QED
        BY <2>2, <3>1, <4>1 DEF ResumeJoin
    <3>2. CASE SelectPath
      <4>1. ~UopRet /\ ~ResumeJoin
        BY <3>2 DEF SelectPath, ResumeJoin, UopRet, AtUop
      <4>2. QED
        BY <2>2, <3>2, <4>1 DEF SelectPath
    <3>3. CASE UopRet
      <4>1. ~ResumeJoin
        BY <3>3 DEF ResumeJoin, UopRet, AtUop
      <4>2. QED
        BY <2>2, <3>3, <4>1 DEF UopRet
    <3>4. QED
      BY <1>4, <3>1, <3>2, <3>3
  <2> HIDE DEF e
  <2>7. /\ Len(stack') = n /\ stack'[n] = e
        /\ \A i \in 1 .. n : i # n => stack'[i] = stack[i]
    BY <1>0, <2>2, <2>5, <2>6, ReplaceFacts
  <2>8. QED
    BY <1>0, <2>2, <2>5, <2>7 DEF Thinner
<1>5. QED
  BY <1>1, <1>2, <1>3, <1>4
     DEF Next, Normalize, Execute, Terminated, vars, FinishWarp, Fetch, FetchFault, UopExec,
         UopSetp, UopFault, UopBraOff, UopBra, UopBraFault

\* What the choice of a branch rests on: a path that executes has lanes; unless
\* it returns some, they execute what no predicate masks and whatever has set
\* next_pc, which is the target of a branch; and only a predicated branch
\* splits, for its own table entry.
ChoiceOK ==
    /\ phase = "fetch" => Top.active # {}
    /\ phase = "uops" =>
         /\ (Inst.pred = "none" \/ next_pc # NoPc) /\ ~HasUop(Inst, "ret") => ExecMask # {}
         /\ next_pc # NoPc => \E i \in UopsAt(Inst, "bra") : Inst.uops[i].arg = next_pc
         /\ split # NoSplit => IsPredBra(Inst) /\ split.reconv_pc = kernel.reconv[Top.pc]

LEMMA StepChoice == IInv /\ ChoiceOK /\ [Next]_vars => ChoiceOK'
<1> SUFFICES ASSUME IInv, ChoiceOK, [Next]_vars PROVE ChoiceOK'
  OBVIOUS
<1>1. CASE ResumeJoin \/ SelectPath
  <2>1. stack \in Seq(Frames) /\ stack # <<>> /\ Live # {} /\ phase' = "fetch"
    BY <1>1 DEF IInv, TypeOK, ResumeJoin, SelectPath
  <2>2. Len(stack) \in 1 .. Len(stack) /\ Top \in Frames /\ Top = stack[Len(stack)]
    BY <2>1, TopFacts
  <2>3. Len(stack') = Len(stack) /\ stack'[Len(stack)].active = Live
    BY <1>1, <2>1, <2>2 DEF ResumeJoin, SelectPath, Frames
  <2>4. QED
    BY <2>1, <2>3 DEF ChoiceOK, Top
<1>2. CASE Fetch
  <2>1. /\ Top' = Top /\ Inst' = Inst /\ phase' = "uops" /\ split' = NoSplit /\ next_pc' = NoPc
        /\ Inst.pred = "none" => guard' = Lanes
    BY <1>2 DEF Fetch, Top, Inst
  <2>2. Top.active # {} /\ Top.active \subseteq Lanes
    <3>1. stack \in Seq(Frames) /\ stack # <<>>
      BY <1>2 DEF IInv, TypeOK, ExecutingOK, Fetch
    <3>2. QED
      BY <1>2, <3>1, TopFacts, FrameFields DEF ChoiceOK, Fetch
  <2>3. Inst.pred = "none" => ExecMask' # {}
    BY <2>1, <2>2 DEF ExecMask
  <2>4. QED
    BY <2>1, <2>3 DEF ChoiceOK
<1>3. CASE UopExec \/ UopSetp \/ UopBraOff \/ UNCHANGED vars
  <2>1. UNCHANGED <<kernel, stack, phase, guard, next_pc, split>>
    BY <1>3 DEF UopExec, UopSetp, UopBraOff, vars
  <2>2. Top' = Top /\ Inst' = Inst /\ ExecMask' = ExecMask
    BY <2>1 DEF Top, Inst, ExecMask
  <2>3. QED
    BY <2>1, <2>2 DEF ChoiceOK
<1>4. CASE UopBra
  <2>1. /\ UNCHANGED <<kernel, stack, phase, guard>> /\ phase = "uops" /\ ExecMask # {}
        /\ Uop.op = "bra" /\ ui <= Len(Inst.uops)
        /\ split' = IF Divergent
                    THEN [target_pc |-> Uop.arg, reconv_pc |-> kernel.reconv[Top.pc],
                          taken |-> ExecMask, fallthrough |-> OffMask]
                    ELSE split
    BY <1>4 DEF UopBra, AtUop
  <2>2. Top' = Top /\ Inst' = Inst /\ ExecMask' = ExecMask
    BY <2>1 DEF Top, Inst, ExecMask
  <2>3. \E i \in UopsAt(Inst, "bra") : Inst.uops[i].arg = next_pc'
    <3>1. ui \in UopsAt(Inst, "bra") /\ Inst.uops[ui].arg = Uop.arg
      BY <2>1, UopHere DEF UopsAt
    <3>2. QED
      BY <1>4, <3>1 DEF UopBra
  <2>4. CASE Divergent
    <3>1. split'.reconv_pc = kernel.reconv[Top.pc]
      BY <2>1, <2>4
    <3>2. Top.active \subseteq Lanes
      BY <2>1, InstFacts, FrameFields
    <3>3. Inst.pred # "none"
      BY <2>1, <2>4, <3>2 DEF Divergent, OffMask, IInv, UopsOK
    <3>4. HasUop(Inst, "bra")
      BY <2>1, UopHere
    <3>5. IsPredBra(Inst)
      BY <2>1, <3>3, <3>4 DEF IsPredBra, IInv, UopsOK
    <3>6. QED
      BY <2>1, <2>2, <2>3, <3>1, <3>5 DEF ChoiceOK
  <2>5. CASE ~Divergent
    BY <2>1, <2>2, <2>5, <2>3 DEF ChoiceOK
  <2>6. QED
    BY <2>4, <2>5
<1>5. CASE UopRet
  <2>1. /\ phase = "uops" /\ phase' = phase /\ UNCHANGED <<kernel, next_pc, split>>
        /\ Uop.op = "ret" /\ ui <= Len(Inst.uops)
    BY <1>5 DEF UopRet, AtUop
  <2>2. HasUop(Inst, "ret") /\ Inst' = Inst /\ Top'.pc = Top.pc
    BY <1>5, <2>1, UopHere, RetTop
  <2>3. QED
    BY <2>1, <2>2 DEF ChoiceOK
<1>6. CASE phase' \notin {"fetch", "uops"}
  BY <1>6 DEF ChoiceOK
<1>7. QED
  BY <1>1, <1>2, <1>3, <1>4, <1>5, <1>6
     DEF Next, Normalize, Execute, Terminated, FinishWarp, PopEmpty, MergeAtReconv,
         AtReconv, MergeMiss, FetchFault, UopFault, UopBraFault, Fail, CommitSplit, CommitAdvance

\* An executing path has no join at its pc, and has not yet met the others.
RunsOK ==
    phase \in {"fetch", "uops"} =>
      /\ JoinsAt(stack, Top.pc) = {}
      /\ Top.pc < kernel.n => Top.pc # Top.reconv_pc

NestInv == ChoiceOK /\ (DistinctJoins(kernel) => Nested(kernel, stack) /\ RunsOK)

\* Control may go from pc to y, or else to the end.
Onward(k, pc, y) == y \in Succ(k, pc) \/ k.n \in Succ(k, pc)

\* What a path has to pass is ahead of it after the next instruction.
LEMMA GoesAhead ==
    ASSUME NEW k \in Kernels, LoopFree(k), NEW pc \in 0 .. k.n - 1, NEW r \in Nat,
           r <= k.n, r # pc, Ahead(k, r, pc), NEW y, Onward(k, pc, y)
    PROVE  Ahead(k, r, y)
<1>1. k.n \in Nat
  BY KernelsAssumption DEF KernelOK, IsImage
<1>2. CASE r # k.n
  <2>1. r \in 0 .. k.n /\ PostDominates(k, r, pc)
    BY <1>1, <1>2 DEF Ahead
  <2>2. \A z \in Succ(k, pc) : z \in 0 .. k.n /\ PostDominates(k, r, z) /\ z <= r
    BY <2>1, ForwardPaths
  <2>3. k.n \notin Succ(k, pc)
    BY <1>1, <1>2, <2>2
  <2>4. QED
    BY <2>2, <2>3 DEF Ahead, Onward
<1>3. QED
  BY <1>2 DEF Ahead

\* Control goes along the edges that the analysis has drawn.
LEMMA GoesOnward ==
    ASSUME IInv, LanesInv, ChoiceOK, AtCommit
    PROVE  /\ next_pc # NoPc => Onward(kernel, Top.pc, next_pc)
           /\ next_pc = NoPc \/ IsPredBra(Inst) => Onward(kernel, Top.pc, Top.pc + 1)
<1> DEFINE t == BraTarget(Inst)
<1>1. /\ phase = "uops" /\ ui > Len(Inst.uops) /\ Len(Inst.uops) \in Nat /\ ui \in Nat
      /\ Inst \in Insts /\ Inst.has_desc /\ kernel.n \in Nat
  BY InstFacts, LenProperties DEF AtCommit, Insts, IInv, TypeOK, UopsOK, KernelOK, IsImage
<1>2. Succ(kernel, Top.pc) =
        IF HasUop(Inst, "ret") THEN {kernel.n}
        ELSE IF ~HasUop(Inst, "bra") THEN {Top.pc + 1}
        ELSE IF Inst.pred # "none" THEN {t, Top.pc + 1}
        ELSE IF t = NoPc THEN {Top.pc + 1}
        ELSE IF t < kernel.n THEN {t} ELSE {kernel.n}
  BY <1>1 DEF Succ, Inst
<1>3. CASE HasUop(Inst, "ret")
  BY <1>2, <1>3 DEF Onward
<1>4. CASE ~HasUop(Inst, "ret") /\ ~HasUop(Inst, "bra")
  BY <1>1, <1>2, <1>4 DEF Onward, LanesInv, BranchOK, IsPredBra
<1>5. CASE ~HasUop(Inst, "ret") /\ HasUop(Inst, "bra")
  <2>1. ExecMask # {} => next_pc # NoPc /\ \A i \in UopsAt(Inst, "bra") : Inst.uops[i].arg = next_pc
    <3>1. \A i \in UopsAt(Inst, "bra") :
            i \in 1 .. Len(Inst.uops) /\ i < ui /\ Inst.uops[i].op = "bra"
      BY <1>1 DEF UopsAt
    <3>2. QED
      BY <1>1, <1>5, <3>1 DEF LanesInv, BranchOK, HasUop
  <2>2. next_pc # NoPc => t = next_pc
    <3>1. next_pc # NoPc => ExecMask # {}
      BY <1>1, <1>5 DEF ChoiceOK
    <3>2. QED
      BY <1>1, <1>5, <2>1, <3>1, AgreedTarget
  <2>3. Inst.pred = "none" => next_pc # NoPc
    BY <1>1, <1>5, <2>1 DEF ChoiceOK
  <2> HIDE DEF t
  <2>4. QED
    BY <1>1, <1>2, <1>5, <2>2, <2>3 DEF Onward, IsPredBra
<1>6. QED
  BY <1>3, <1>4, <1>5

\* And it goes forward.
LEMMA GoesForward ==
    ASSUME IInv, ChoiceOK, LoopFree(kernel), phase = "uops", next_pc # NoPc
    PROVE  next_pc \in Nat /\ next_pc > Top.pc
<1>1. PICK i \in UopsAt(Inst, "bra") : Inst.uops[i].arg = next_pc
  BY DEF ChoiceOK
<1>2. Top.pc \in 0 .. kernel.n - 1
  BY InstFacts
<1>3. QED
  BY <1>1, <1>2 DEF LoopFree, Inst, IInv, TypeOK, PCs

\* It holds before the first instruction.
LEMMA InitNest == Init => NestInv
<1> SUFFICES ASSUME Init PROVE NestInv
  OBVIOUS
<1> DEFINE f == [pc |-> 0, active |-> Lanes, reconv_pc |-> kernel.n, is_join |-> FALSE]
<1>1. kernel.n \in Nat
  BY KernelsAssumption DEF Init, KernelOK, IsImage
<1>2. f.reconv_pc = kernel.n /\ ~f.is_join
  OBVIOUS
<1>3. stack = <<f>>
  BY DEF Init
<1> HIDE DEF f
<1>4. Len(stack) = 1 /\ stack[1] = f
  BY <1>3
<1>5. \A i \in 1 .. Len(stack) : stack[i] = f
  BY <1>4
<1>6. MeetsAhead(kernel, stack)
  BY <1>1, <1>2, <1>4, <1>5 DEF MeetsAhead, Ahead
<1>7. JoinsNest(kernel, stack)
  BY <1>2, <1>5 DEF JoinsNest
<1>8. QED
  BY <1>6, <1>7 DEF Init, NestInv, ChoiceOK, RunsOK, Nested

\* The path that executes: where it is to meet the others is ahead of it, and
\* still is after the instruction.
LEMMA PathGoes ==
    ASSUME IInv, Nested(kernel, stack), RunsOK, LoopFree(kernel), phase = "uops"
    PROVE  LET r == Top.reconv_pc
           IN  /\ Top.pc \in 0 .. kernel.n - 1 /\ Top = stack[Len(stack)] /\ ~Top.is_join
               /\ r \in 0 .. kernel.n /\ Ahead(kernel, r, Top.pc) /\ r # Top.pc
               /\ \A j \in 1 .. Len(stack) - 1 : stack[j].is_join => r <= stack[j].pc
               /\ \A y : Onward(kernel, Top.pc, y) => Ahead(kernel, r, y)
<1> DEFINE r == Top.reconv_pc
<1>1. /\ stack \in Seq(Frames) /\ stack # <<>> /\ Top \in Frames /\ kernel \in Kernels
      /\ Top.pc \in 0 .. kernel.n - 1 /\ kernel.n \in Nat
  BY InstFacts DEF IInv, TypeOK, KernelOK, IsImage
<1>2. Top = stack[Len(stack)] /\ Len(stack) \in 1 .. Len(stack) /\ r \in Nat /\ ~Top.is_join
  BY <1>1, TopFacts, FrameFields DEF PCs, IInv, ExecutingOK
<1>3. /\ r <= kernel.n /\ Ahead(kernel, r, Top.pc)
      /\ \A j \in 1 .. Len(stack) - 1 : stack[j].is_join => r <= stack[j].pc
  BY <1>2 DEF Nested, MeetsAhead
<1>4. r # Top.pc
  BY <1>1 DEF RunsOK
<1>5. \A y : Onward(kernel, Top.pc, y) => Ahead(kernel, r, y)
  <2> HIDE DEF r
  <2>1. QED
    BY <1>1, <1>2, <1>3, <1>4, GoesAhead
<1>6. QED
  BY <1>1, <1>2, <1>3, <1>4, <1>5

\* An instruction that does not split moves its path on.
LEMMA AdvanceStep ==
    ASSUME IInv, LanesInv, ChoiceOK, LoopFree(kernel), Nested(kernel, stack), RunsOK, CommitAdvance
    PROVE  Nested(kernel, stack')
<1> DEFINE pc == IF next_pc # NoPc THEN next_pc ELSE Top.pc + 1
           e  == [Top EXCEPT !.pc = pc]
           n  == Len(stack) - 1
<1>1. /\ stack \in Seq(Frames) /\ stack # <<>> /\ Top \in Frames /\ AtCommit /\ phase = "uops"
      /\ kernel.n \in Nat /\ Top.pc \in 0 .. kernel.n - 1
  BY InstFacts DEF CommitAdvance, AtCommit, KernelOK, IsImage
<1>2. Len(stack) \in 1 .. Len(stack) /\ Len(stack) \in Nat /\ Top = stack[Len(stack)]
  BY <1>1, TopFacts, LenProperties
<1>3. pc \in Nat /\ pc > Top.pc
  BY <1>1, GoesForward
<1>4. Onward(kernel, Top.pc, pc)
  BY <1>1, GoesOnward
<1>5. Ahead(kernel, Top.reconv_pc, pc) /\ ~Top.is_join
  <2> HIDE DEF pc
  <2>1. QED
    BY <1>1, <1>4, PathGoes
<1>6. stack' = [stack EXCEPT ![Len(stack)] = e]
  BY <1>2 DEF CommitAdvance
<1>7. e \in Frames /\ e.pc = pc /\ e.reconv_pc = Top.reconv_pc /\ e.is_join = Top.is_join
  <2> HIDE DEF pc
  <2>1. QED
    BY <1>1, <1>3, SetPc DEF PCs
<1> HIDE DEF e, pc
<1>8. /\ Len(stack') = Len(stack) /\ stack'[Len(stack)] = e
      /\ \A i \in 1 .. Len(stack) : i # Len(stack) => stack'[i] = stack[i]
  BY <1>1, <1>2, <1>6, <1>7, ReplaceFacts
<1>9. /\ n \in Nat /\ Len(stack) = n + 1 /\ \A i \in 1 .. n : stack'[i] = stack[i]
      /\ stack[n + 1] = Top /\ stack'[n + 1] = e /\ Len(stack') = n + 1
  BY <1>2, <1>8
<1> HIDE DEF n
<1>10. Top.pc \in Nat /\ e.pc \in Nat /\ Top.pc < e.pc
  BY <1>1, <1>3, <1>7
<1>11. QED
  BY <1>1, <1>5, <1>7, <1>9, <1>10, AdvanceNests

\* The point where a divergent branch reconverges: ahead of the branch, not
\* beyond where its path is to meet the others, and short of every join that
\* waits.
LEMMA SplitMeets ==
    ASSUME IInv, ChoiceOK, DistinctJoins(kernel), Nested(kernel, stack), RunsOK, AtCommit,
           split # NoSplit
    PROVE  LET m == split.reconv_pc
               r == Top.reconv_pc
           IN  /\ IsPredBra(Inst) /\ m = kernel.reconv[Top.pc]
               /\ m \in 0 .. kernel.n /\ Top.pc < m /\ PostDominates(kernel, m, Top.pc)
               /\ Ahead(kernel, r, m) /\ (m = kernel.n \/ m < r)
               /\ \A j \in 1 .. Len(stack) - 1 : stack[j].is_join => m < stack[j].pc
<1> DEFINE m == split.reconv_pc
           r == Top.reconv_pc
           b == Top.pc
<1>1. /\ phase = "uops" /\ kernel \in Kernels /\ LoopFree(kernel) /\ kernel.n \in Nat
      /\ stack \in Seq(Frames) /\ stack # <<>>
  BY InstFacts DEF AtCommit, IInv, TypeOK, DistinctJoins, KernelOK, IsImage
<1>2. IsPredBra(Inst) /\ m = kernel.reconv[b]
  BY <1>1 DEF ChoiceOK
<1>3. /\ b \in 0 .. kernel.n - 1 /\ Top = stack[Len(stack)] /\ ~Top.is_join
      /\ r \in 0 .. kernel.n /\ Ahead(kernel, r, b) /\ r # b
      /\ \A j \in 1 .. Len(stack) - 1 : stack[j].is_join => r <= stack[j].pc
  BY <1>1, PathGoes
<1>4. ReachesExit(kernel, b)
  BY <1>1, <1>3, ForwardPaths
<1>5. m \in StrictPostDoms(kernel, b) /\ \A d \in StrictPostDoms(kernel, b) : PostDominates(kernel, d, m)
  BY <1>1, <1>2, <1>3, <1>4, TablesAssumption DEF Analysed, Inst, IsIpdom
<1>6. m \in 0 .. kernel.n /\ m # b /\ PostDominates(kernel, m, b)
  BY <1>5 DEF StrictPostDoms
<1>7. b < m
  <2>1. b \in 0 .. kernel.n
    BY <1>1, <1>3
  <2>2. b <= m
    BY <1>1, <1>6, <2>1, ForwardPaths
  <2>3. QED
    BY <1>3, <1>6, <2>2
<1>8. Ahead(kernel, r, m) /\ m <= r
  <2>1. CASE r = kernel.n
    BY <1>6, <2>1 DEF Ahead
  <2>2. CASE r # kernel.n
    <3>1. r \in StrictPostDoms(kernel, b)
      BY <1>3, <2>2 DEF Ahead, StrictPostDoms
    <3>2. PostDominates(kernel, r, m)
      BY <1>5, <3>1
    <3>3. m <= r
      BY <1>1, <1>3, <1>6, <3>2, ForwardPaths
    <3>4. QED
      BY <1>6, <3>2, <3>3 DEF Ahead
  <2>3. QED
    BY <2>1, <2>2
<1>9. Len(stack) \in Nat /\ Len(stack) \in 1 .. Len(stack)
  BY <1>1, TopFacts, LenProperties
<1>10. ASSUME NEW j \in 1 .. Len(stack) - 1, stack[j].is_join
       PROVE  m < stack[j].pc
  <2>1. j \in 1 .. Len(stack) /\ Len(stack) \in j + 1 .. Len(stack)
    BY <1>9
  <2>2. PICK a \in 0 .. kernel.n - 1 : /\ IsPredBra(kernel.insts[a]) /\ kernel.reconv[a] = stack[j].pc
                                       /\ \A i \in j + 1 .. Len(stack) : a < stack[i].pc
    BY <1>10, <2>1 DEF Nested, JoinsNest
  <2>3. a < b
    BY <1>3, <2>1, <2>2
  <2>4. stack[j].pc # m
    <3>1. IsPredBra(kernel.insts[b])
      BY <1>2 DEF Inst
    <3>2. a # b
      BY <1>3, <2>3
    <3>3. QED
      BY <1>2, <1>3, <2>2, <3>1, <3>2 DEF DistinctJoins
  <2>5. r <= stack[j].pc /\ stack[j].pc \in Nat
    BY <1>1, <1>3, <1>10, <2>1, ElementOfSeq, FrameFields DEF PCs
  <2>6. QED
    BY <1>3, <1>6, <1>8, <2>4, <2>5
<1>11. m = kernel.n \/ m < r
  <2>1. CASE r = kernel.n
    BY <1>1, <1>6, <2>1
  <2>2. CASE r # kernel.n
    <3>1. PICK j \in JoinsAt(stack, r) : j < Len(stack)
      BY <1>3, <1>9, <2>2 DEF IInv, JoinWaitsBelow
    <3>2. j \in 1 .. Len(stack) - 1 /\ stack[j].is_join /\ stack[j].pc = r
      BY <1>9, <3>1 DEF JoinsAt
    <3>3. QED
      BY <1>10, <3>2
  <2>3. QED
    BY <2>1, <2>2
<1>12. QED
  BY <1>2, <1>6, <1>7, <1>8, <1>10, <1>11

\* A divergent branch adds the join of its own point of reconvergence.
LEMMA SplitStep ==
    ASSUME IInv, LanesInv, ChoiceOK, DistinctJoins(kernel), Nested(kernel, stack), RunsOK,
           CommitSplit
    PROVE  Nested(kernel, stack')
<1> DEFINE m == split.reconv_pc
           r == Top.reconv_pc
<1>1. /\ stack \in Seq(Frames) /\ stack # <<>> /\ split \in Splits /\ split # NoSplit /\ AtCommit
      /\ phase = "uops" /\ LoopFree(kernel) /\ kernel \in Kernels /\ kernel.n \in Nat
  BY InstFacts DEF CommitSplit, AtCommit, IInv, TypeOK, DistinctJoins, KernelOK, IsImage
<1>2. PICK n \in Nat, a \in Frames, b \in Frames, c \in Frames :
             /\ Len(stack) = n + 1 /\ Top = stack[n + 1]
             /\ a.active = {} /\ a.pc = split.reconv_pc /\ a.is_join
             /\ a.reconv_pc = Top.reconv_pc
             /\ b.active = split.fallthrough /\ b.reconv_pc = split.reconv_pc /\ ~b.is_join
             /\ b.pc = Top.pc + 1
             /\ c.active = split.taken /\ c.reconv_pc = split.reconv_pc /\ ~c.is_join
             /\ c.pc = split.target_pc
             /\ stack' \in Seq(Frames) /\ Len(stack') = n + 3
             /\ \A i \in 1 .. n : stack'[i] = stack[i]
             /\ stack'[n + 1] = a /\ stack'[n + 2] = b /\ stack'[n + 3] = c
  BY <1>1, SplitShape
<1>3. /\ IsPredBra(Inst) /\ m = kernel.reconv[Top.pc]
      /\ m \in 0 .. kernel.n /\ Top.pc < m /\ PostDominates(kernel, m, Top.pc)
      /\ Ahead(kernel, r, m) /\ (m = kernel.n \/ m < r)
      /\ \A j \in 1 .. Len(stack) - 1 : stack[j].is_join => m < stack[j].pc
  BY <1>1, SplitMeets
<1>4. /\ Top.pc \in 0 .. kernel.n - 1 /\ r \in 0 .. kernel.n
  BY <1>1, PathGoes
<1>5. split.target_pc = next_pc /\ next_pc # NoPc
  BY <1>1 DEF LanesInv, BranchOK
<1>6. Onward(kernel, Top.pc, split.target_pc) /\ Onward(kernel, Top.pc, Top.pc + 1)
  BY <1>1, <1>3, <1>5, GoesOnward
<1>7. \A y : Onward(kernel, Top.pc, y) => Ahead(kernel, m, y)
  <2>1. Ahead(kernel, m, Top.pc) /\ m \in Nat /\ m <= kernel.n /\ m # Top.pc
    BY <1>1, <1>3, <1>4 DEF Ahead
  <2> HIDE DEF m
  <2>2. QED
    BY <1>1, <1>4, <2>1, GoesAhead
<1>8. split.target_pc \in Nat /\ split.target_pc > Top.pc
  BY <1>1, <1>5, GoesForward
<1>9. \A i \in 1 .. n : stack[i].pc \in Nat
  BY <1>1, <1>2, ElementOfSeq, FrameFields DEF PCs
<1>10. IsPredBra(kernel.insts[Top.pc]) /\ \A j \in 1 .. n : stack[j].is_join => m < stack[j].pc
  BY <1>2, <1>3 DEF Inst
<1>11. Ahead(kernel, m, split.target_pc) /\ Ahead(kernel, m, Top.pc + 1)
  BY <1>6, <1>7
<1>12. /\ a.pc = m /\ a.reconv_pc = r /\ b.reconv_pc = m /\ c.reconv_pc = m
       /\ r \in Nat /\ Top.pc < Top.pc + 1 /\ Top.pc + 1 \in Nat
       /\ Top.pc < split.target_pc
  BY <1>2, <1>4, <1>8
<1> HIDE DEF m, r
<1>13. /\ stack[n + 1].pc = Top.pc /\ stack[n + 1].reconv_pc = r
       /\ stack'[n + 1].is_join /\ stack'[n + 1].pc = m /\ stack'[n + 1].reconv_pc = r
       /\ ~stack'[n + 2].is_join /\ stack'[n + 2].pc = Top.pc + 1 /\ stack'[n + 2].reconv_pc = m
       /\ ~stack'[n + 3].is_join /\ stack'[n + 3].pc = split.target_pc /\ stack'[n + 3].reconv_pc = m
       /\ Len(stack) = n + 1 /\ Len(stack') = n + 3 /\ \A i \in 1 .. n : stack'[i] = stack[i]
  BY <1>2, <1>12 DEF r
<1>14. m \in 0 .. kernel.n /\ kernel.reconv[Top.pc] = m /\ Top.pc < m /\ (m = kernel.n \/ m < r)
       /\ Ahead(kernel, r, m)
  BY <1>3 DEF m, r
<1>15. /\ \A i \in 1 .. n : stack'[i] = stack[i] /\ stack[i].pc \in Nat
       /\ stack'[n + 2].pc \in Nat /\ Top.pc < stack'[n + 2].pc
       /\ stack'[n + 3].pc \in Nat /\ Top.pc < stack'[n + 3].pc
       /\ Ahead(kernel, m, stack'[n + 2].pc) /\ Ahead(kernel, m, stack'[n + 3].pc)
  BY <1>8, <1>9, <1>11, <1>12, <1>13
<1>16. QED
  BY <1>1, <1>4, <1>10, <1>12, <1>13, <1>14, <1>15, SplitNests

\* What is picked to run has no join at its pc.
LEMMA StepRuns ==
    ASSUME IInv, LoopFree(kernel), Nested(kernel, stack), RunsOK, [Next]_vars
    PROVE  RunsOK'
<1>1. CASE ResumeJoin \/ SelectPath
  <2>0. /\ stack \in Seq(Frames) /\ stack # <<>> /\ Live # {} /\ kernel' = kernel
        /\ kernel \in Kernels /\ kernel.n \in Nat /\ KernelOK(kernel)
    BY <1>1, KernelsAssumption DEF IInv, TypeOK, ResumeJoin, SelectPath, KernelOK, IsImage
  <2>1. /\ Len(stack) \in 1 .. Len(stack) /\ Top \in Frames /\ Top = stack[Len(stack)]
        /\ Len(stack) \in Nat /\ Top.pc \in Nat /\ Top.reconv_pc \in Nat
    BY <2>0, TopFacts, LenProperties, FrameFields DEF PCs
  <2>2. /\ Len(stack') = Len(stack)
        /\ stack'[Len(stack)].pc = Top.pc /\ stack'[Len(stack)].reconv_pc = Top.reconv_pc
        /\ ~stack'[Len(stack)].is_join
        /\ \A i \in 1 .. Len(stack) : i # Len(stack) => stack'[i] = stack[i]
    BY <1>1, <2>0, <2>1 DEF ResumeJoin, SelectPath, Frames
  <2>3. Top'.pc = Top.pc /\ Top'.reconv_pc = Top.reconv_pc
    BY <2>2 DEF Top
  <2>4. ASSUME NEW j \in 1 .. Len(stack) - 1, stack[j].is_join
        PROVE  stack[j].pc # Top.pc
    <3>0. j \in 1 .. Len(stack)
      BY <2>1
    <3>1. stack[j].pc \in Nat /\ stack[j].pc <= kernel.n
      <4>1. PICK b \in 0 .. kernel.n - 1 :
              IsPredBra(kernel.insts[b]) /\ kernel.reconv[b] = stack[j].pc
        BY <2>4, <3>0 DEF Nested, JoinsNest
      <4>2. kernel.reconv[b] \in 0 .. kernel.n
        BY <2>0, <4>1 DEF KernelOK
      <4>3. QED
        BY <4>1, <4>2
    <3>2. CASE ResumeJoin
      <4>1. Top.is_join
        BY <3>2 DEF ResumeJoin
      <4>2. Top.pc < stack[j].pc
        BY <2>1, <2>4, <4>1 DEF Nested, JoinsNest
      <4>3. QED
        BY <2>1, <3>1, <4>2
    <3>3. CASE SelectPath
      <4>1. Top.pc # Top.reconv_pc
        BY <3>3 DEF SelectPath
      <4>2. /\ Top.reconv_pc <= kernel.n /\ Ahead(kernel, Top.reconv_pc, Top.pc)
            /\ Top.reconv_pc <= stack[j].pc
        BY <2>1, <2>4 DEF Nested, MeetsAhead
      <4>3. CASE Top.reconv_pc = kernel.n
        BY <2>0, <2>1, <3>1, <4>1, <4>2, <4>3
      <4>4. CASE Top.reconv_pc # kernel.n
        <5>1. Top.pc \in 0 .. kernel.n /\ PostDominates(kernel, Top.reconv_pc, Top.pc)
          BY <4>2, <4>4 DEF Ahead
        <5>2. Top.reconv_pc \in 0 .. kernel.n
          BY <2>0, <2>1, <4>2
        <5>3. Top.pc <= Top.reconv_pc
          BY <2>0, <5>1, <5>2, ForwardPaths
        <5>4. QED
          BY <2>1, <3>1, <4>1, <4>2, <5>3
      <4>5. QED
        BY <4>3, <4>4
    <3>4. QED
      BY <1>1, <3>2, <3>3
  <2>5. \A j \in 1 .. Len(stack') : stack'[j].is_join => stack'[j].pc # Top.pc
    BY <2>1, <2>2, <2>4
  <2>6. JoinsAt(stack', Top'.pc) = {}
    BY <2>3, <2>5 DEF JoinsAt
  <2>7. Top.pc < kernel.n => Top.pc # Top.reconv_pc
    <3>1. CASE ResumeJoin
      <4>1. Top.is_join
        BY <3>1 DEF ResumeJoin
      <4>2. Top.pc = kernel.n \/ Top.pc < Top.reconv_pc
        BY <2>1, <4>1 DEF Nested, JoinsNest
      <4>3. QED
        BY <2>0, <2>1, <4>2
    <3>2. CASE SelectPath
      BY <3>2 DEF SelectPath
    <3>3. QED
      BY <1>1, <3>1, <3>2
  <2>8. QED
    BY <2>0, <2>3, <2>6, <2>7 DEF RunsOK
<1>2. CASE UopRet
  <2>1. /\ phase = "uops" /\ kernel' = kernel /\ stack # <<>> /\ stack \in Seq(Frames)
    BY <1>2 DEF UopRet, AtUop, IInv, TypeOK, ExecutingOK
  <2>2. Thinner(stack, stack') /\ Len(stack') = Len(stack)
    BY <1>2, StackThins, RetTop DEF UopRet, AtUop, CommitSplit, CommitAdvance, AtCommit, Next, Execute
  <2>3. Len(stack) \in 1 .. Len(stack)
    BY <2>1, TopFacts
  <2>4. Top'.pc = Top.pc /\ Top'.reconv_pc = Top.reconv_pc
    BY <2>2, <2>3 DEF Thinner, Top
  <2>5. JoinsAt(stack', Top'.pc) \subseteq JoinsAt(stack, Top.pc)
    BY <2>2, <2>4 DEF Thinner, JoinsAt
  <2>6. QED
    BY <2>1, <2>4, <2>5 DEF RunsOK
<1>3. CASE UNCHANGED <<kernel, stack>> /\ phase \in {"fetch", "uops"}
  BY <1>3 DEF RunsOK, JoinsAt, Top
<1>4. CASE phase' \notin {"fetch", "uops"}
  BY <1>4 DEF RunsOK
<1>5. QED
  BY <1>1, <1>2, <1>3, <1>4
     DEF Next, Normalize, Execute, Terminated, vars, FinishWarp, PopEmpty, MergeAtReconv,
         AtReconv, MergeMiss, FetchFault, Fetch, UopExec, UopSetp, UopBraOff, UopBra, AtUop,
         UopFault, UopBraFault, Fail, CommitSplit, CommitAdvance

\* Every step keeps the joins in order.
LEMMA StepNest == IInv /\ LanesInv /\ NestInv /\ [Next]_vars => NestInv'
<1> SUFFICES ASSUME IInv, LanesInv, NestInv, [Next]_vars PROVE NestInv'
  OBVIOUS
<1>1. ChoiceOK'
  BY StepChoice DEF NestInv
<1>2. kernel' = kernel
  BY DEF Next, Normalize, Execute, Terminated, vars, FinishWarp, PopEmpty, ResumeJoin,
         MergeAtReconv, MergeMiss, SelectPath, Fetch, FetchFault, UopExec, UopSetp,
         UopFault, UopRet, UopBraOff, UopBra, UopBraFault, CommitSplit, CommitAdvance, Fail
<1>3. ASSUME DistinctJoins(kernel) PROVE Nested(kernel, stack') /\ RunsOK'
  <2>1. Nested(kernel, stack) /\ RunsOK /\ ChoiceOK /\ LoopFree(kernel)
    BY <1>3 DEF NestInv, DistinctJoins
  <2>2. RunsOK'
    BY <2>1, StepRuns
  <2>3. CASE CommitSplit
    BY <1>3, <2>1, <2>2, <2>3, SplitStep
  <2>4. CASE CommitAdvance
    BY <2>1, <2>2, <2>4, AdvanceStep
  <2>5. CASE ~CommitSplit /\ ~CommitAdvance
    <3>1. Thinner(stack, stack')
      BY <2>5, StackThins
    <3>2. Len(stack) \in Nat
      BY LenProperties DEF IInv, TypeOK
    <3>3. QED
      BY <2>1, <2>2, <3>1, <3>2, ThinnerNests
  <2>6. QED
    BY <2>2, <2>3, <2>4, <2>5
<1>4. QED
  BY <1>1, <1>2, <1>3 DEF NestInv

(* Where the branches of a kernel that only goes forward reconverge at     *)
(* different points, normalize_stack never hands run() a pc at which a     *)
(* join still waits for lanes: no instruction runs for a part of the lanes *)
(* that the join is there to collect.                                      *)
THEOREM JoinsReconverge == Spec => []DistinctJoinsReconverge
<1>1. NestInv => DistinctJoinsReconverge
  BY DEF NestInv, RunsOK, DistinctJoinsReconverge, ReconvergesBeforeExecuting
<1>2. Spec => []LanesInv
  BY InitLanes, StepLanes, SpecIInv, PTL DEF Spec
<1>3. QED
  BY <1>1, <1>2, InitNest, StepNest, SpecIInv, PTL DEF Spec
=============================================================================
