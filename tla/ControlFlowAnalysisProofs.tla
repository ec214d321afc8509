---------------------- MODULE ControlFlowAnalysisProofs ----------------------
(***************************************************************************)
(* The analysis of ControlFlowAnalysis computes post-dominators, for every *)
(* kernel: what it stops with is the set of points on all paths to the     *)
(* exit, what it picks is the immediate post-dominator, and it is done     *)
(* after n + 2 sweeps.                                                     *)
(*                                                                         *)
(* The set of nodes reached without passing m is the least one that is     *)
(* closed under successors other than m.  That much needs induction over   *)
(* the steps of a path; it is done with sets of numbers, since the library *)
(* states induction for operators.  All later arguments about paths are    *)
(* arguments about closed sets.                                            *)
(***************************************************************************)
EXTENDS ControlFlowAnalysis, FiniteSetTheorems, WellFoundedInduction, TLAPS

-----------------------------------------------------------------------------
(* Natural numbers and iteration.                                          *)

\* A set of natural numbers has a least element.
LEMMA NatMin ==
    ASSUME NEW T, T \subseteq Nat, T # {}
    PROVE  \E x \in T : \A y \in T : x <= y
<1> DEFINE R == {ss \in Nat \X Nat : ss[1] < ss[2]}
<1>1. R = OpToRel(<, Nat)
  BY Zenon DEF OpToRel
<1>2. IsWellFoundedOn(R, Nat)
  BY <1>1, NatLessThanWellFounded, Zenon
<1>3. PICK x \in T : \A y \in T : ~(<<y, x>> \in R)
  <2> HIDE DEF R
  <2> QED BY <1>2, WFMin
<1>4. ASSUME NEW y \in T PROVE x <= y
  <2>1. <<y, x>> \notin R
    BY <1>3
  <2> QED BY <2>1
<1> QED BY <1>4

\* Induction.
LEMMA SetInduction ==
    ASSUME NEW T, 0 \in T, \A n \in Nat : n \in T => n + 1 \in T
    PROVE  Nat \subseteq T
<1> SUFFICES ASSUME Nat \ T # {} PROVE FALSE
  OBVIOUS
<1>1. PICK x \in Nat \ T : \A y \in Nat \ T : x <= y
  BY NatMin
<1>2. x - 1 \in Nat /\ x - 1 \in T
  BY <1>1
<1> QED BY <1>1, <1>2

\* The first n steps of the iteration of step from x0.
Chain(S, x0, step, n, g) ==
    /\ g \in [0 .. n -> S] /\ g[0] = x0
    /\ \A i \in 0 .. n - 1 : g[i + 1] = step[g[i]]

\* A function can be iterated.
LEMMA Iteration ==
    ASSUME NEW S, NEW x0 \in S, NEW step \in [S -> S]
    PROVE  \E f \in [Nat -> S] : f[0] = x0 /\ \A n \in Nat : f[n + 1] = step[f[n]]
<1> DEFINE C(n, g) == Chain(S, x0, step, n, g)
<1>1. \A n \in Nat : \E g : C(n, g)
  <2> DEFINE T == {n \in Nat : \E g : C(n, g)}
  <2>1. 0 \in T
    <3>1. C(0, [i \in 0 .. 0 |-> x0])
      BY DEF Chain
    <3> QED BY <3>1
  <2>2. ASSUME NEW n \in Nat, n \in T PROVE n + 1 \in T
    <3>1. PICK g : C(n, g)
      BY <2>2
    <3> DEFINE h == [i \in 0 .. n + 1 |-> IF i = n + 1 THEN step[g[n]] ELSE g[i]]
    <3>2. C(n + 1, h)
      BY <3>1 DEF Chain
    <3> QED BY <3>2
  <2> HIDE DEF C
  <2> QED BY <2>1, <2>2, SetInduction
<1>2. \A n \in Nat : \A g, h, m : C(n, g) /\ m \in Nat /\ n <= m /\ C(m, h) => g[n] = h[n]
  <2> DEFINE T == {n \in Nat : \A g, h, m : C(n, g) /\ m \in Nat /\ n <= m /\ C(m, h) => g[n] = h[n]}
  <2>1. 0 \in T
    BY DEF Chain
  <2>2. ASSUME NEW n \in Nat, n \in T PROVE n + 1 \in T
    <3> SUFFICES ASSUME NEW g, NEW h, NEW m \in Nat, C(n + 1, g), n + 1 <= m, C(m, h)
                 PROVE  g[n + 1] = h[n + 1]
      OBVIOUS
    <3> DEFINE r == [i \in 0 .. n |-> g[i]]
    <3>1. C(n, r) /\ r[n] = g[n]
      BY DEF Chain
    <3>2. g[n] = h[n]
      <4>1. r[n] = h[n]
        <5> HIDE DEF C, r
        <5> QED BY <2>2, <3>1
      <4> QED BY <3>1, <4>1
    <3>3. g[n + 1] = step[g[n]] /\ h[n + 1] = step[h[n]]
      BY DEF Chain
    <3> QED BY <3>2, <3>3
  <2> HIDE DEF C
  <2> QED BY <2>1, <2>2, SetInduction
<1> DEFINE f == [n \in Nat |-> CHOOSE y : \E g : C(n, g) /\ y = g[n]]
<1>3. ASSUME NEW n \in Nat, NEW g, C(n, g) PROVE f[n] = g[n]
  <2>1. \E h : C(n, h) /\ f[n] = h[n]
    <3> HIDE DEF C
    <3> QED BY <1>3
  <2> HIDE DEF C, f
  <2> QED BY <1>2, <1>3, <2>1
<1>4. ASSUME NEW n \in Nat PROVE f[n] \in S
  <2>1. PICK g : C(n, g)
    BY <1>1
  <2>2. g[n] \in S
    BY <2>1 DEF Chain
  <2> HIDE DEF C, f
  <2> QED BY <1>3, <2>1, <2>2
<1>5. f \in [Nat -> S]
  BY <1>4
<1>6. f[0] = x0
  <2>1. PICK g : C(0, g)
    BY <1>1
  <2>2. g[0] = x0
    BY <2>1 DEF Chain
  <2> HIDE DEF C, f
  <2> QED BY <1>3, <2>1, <2>2
<1>7. ASSUME NEW n \in Nat PROVE f[n + 1] = step[f[n]]
  <2>1. PICK g : C(n + 1, g)
    BY <1>1
  <2> DEFINE r == [i \in 0 .. n |-> g[i]]
  <2>2. C(n, r) /\ r[n] = g[n] /\ g[n + 1] = step[g[n]]
    BY <2>1 DEF Chain
  <2> HIDE DEF C, f, r
  <2> QED BY <1>3, <2>1, <2>2
<1> HIDE DEF f
<1> QED BY <1>5, <1>6, <1>7

\* An iteration that only adds elements of a finite set comes to rest.
LEMMA ComesToRest ==
    ASSUME NEW S, IsFiniteSet(S), NEW step \in [SUBSET S -> SUBSET S],
           \A X \in SUBSET S : X \subseteq step[X],
           NEW f \in [Nat -> SUBSET S], \A n \in Nat : f[n + 1] = step[f[n]]
    PROVE  f[Cardinality(S) + 1] = f[Cardinality(S)]
<1> DEFINE N == Cardinality(S)
           T == {n \in Nat : Cardinality(f[n]) >= n \/ f[n + 1] = f[n]}
<1>1. N \in Nat
  BY FS_CardinalityType
<1>2. \A n \in Nat : f[n] \subseteq S /\ IsFiniteSet(f[n]) /\ Cardinality(f[n]) \in Nat
  BY FS_Subset, FS_CardinalityType
<1>3. 0 \in T
  BY <1>2
<1>4. ASSUME NEW n \in Nat, n \in T PROVE n + 1 \in T
  <2>1. f[n + 1] = step[f[n]] /\ f[(n + 1) + 1] = step[f[n + 1]] /\ f[n] \subseteq f[n + 1]
    BY <1>2
  <2>2. CASE f[n + 1] = f[n]
    BY <2>1, <2>2
  <2>3. CASE f[n + 1] # f[n]
    <3>1. Cardinality(f[n]) < Cardinality(f[n + 1])
      <4>1. /\ IsFiniteSet(f[n + 1]) /\ f[n] \in SUBSET f[n + 1]
            /\ Cardinality(f[n]) \in Nat /\ Cardinality(f[n + 1]) \in Nat
        BY <1>2, <2>1
      <4>2. /\ Cardinality(f[n]) <= Cardinality(f[n + 1])
            /\ Cardinality(f[n + 1]) = Cardinality(f[n]) => f[n + 1] = f[n]
        BY <4>1, FS_Subset
      <4> QED BY <2>3, <4>1, <4>2
    <3>2. Cardinality(f[n]) >= n
      BY <1>4, <2>3
    <3>3. Cardinality(f[n + 1]) >= n + 1
      BY <1>2, <3>1, <3>2
    <3> QED BY <3>3
  <2> QED BY <2>2, <2>3
<1>5. Nat \subseteq T
  <2> HIDE DEF T
  <2> QED BY <1>3, <1>4, SetInduction
<1>6. CASE Cardinality(f[N]) >= N
  <2>1. f[N] = S
    <3>1. f[N] \in SUBSET S /\ Cardinality(f[N]) \in Nat
      BY <1>1, <1>2
    <3>2. Cardinality(f[N]) <= N /\ (N = Cardinality(f[N]) => S = f[N])
      BY <3>1, FS_Subset
    <3> QED BY <1>1, <1>6, <3>1, <3>2
  <2>2. S \subseteq step[S] /\ step[S] \subseteq S
    OBVIOUS
  <2> QED BY <1>1, <2>1, <2>2
<1> QED BY <1>1, <1>5, <1>6
-----------------------------------------------------------------------------
(* Reachability.                                                           *)

\* The edges of the CFG stay inside it.
GoodCfg(k) == k.n \in Nat /\ \A x \in 0 .. k.n - 1 : Succ(k, x) \subseteq 0 .. k.n

\* No edge leads out of D but to m.
Closed(k, m, D) == \A x \in D \ {k.n} : Succ(k, x) \ {m} \subseteq D

\* What ReachAvoiding computes is the least closed set.
LEMMA ReachIsLeast ==
    ASSUME NEW k, GoodCfg(k), NEW pc \in 0 .. k.n, NEW m
    PROVE  /\ ReachAvoiding(k, pc, m) \subseteq (0 .. k.n) \ {m}
           /\ {pc} \ {m} \subseteq ReachAvoiding(k, pc, m)
           /\ Closed(k, m, ReachAvoiding(k, pc, m))
           /\ \A D : {pc} \ {m} \subseteq D /\ Closed(k, m, D)
                  => ReachAvoiding(k, pc, m) \subseteq D
<1> DEFINE R[j \in Nat] ==
             IF j = 0 THEN {pc} \ {m}
             ELSE R[j - 1] \cup ((UNION {Succ(k, x) : x \in R[j - 1] \ {k.n}}) \ {m})
           S == (0 .. k.n) \ {m}
           Next1(X) == X \cup ((UNION {Succ(k, x) : x \in X \ {k.n}}) \ {m})
           step == [X \in SUBSET S |-> Next1(X)]
<1>1. ReachAvoiding(k, pc, m) = R[k.n + 1]
  BY DEF ReachAvoiding
<1>2. step \in [SUBSET S -> SUBSET S]
  <2>1. ASSUME NEW X \in SUBSET S PROVE Next1(X) \in SUBSET S
    <3>1. ASSUME NEW x \in X \ {k.n} PROVE Succ(k, x) \subseteq 0 .. k.n
      <4>1. x \in 0 .. k.n - 1
        BY DEF GoodCfg
      <4> QED BY <4>1 DEF GoodCfg
    <3> QED BY <3>1
  <2> HIDE DEF S, Next1
  <2> QED BY <2>1
<1>3. {pc} \ {m} \in SUBSET S
  OBVIOUS
<1>4. PICK f \in [Nat -> SUBSET S] : f[0] = {pc} \ {m} /\ \A j \in Nat : f[j + 1] = step[f[j]]
  <2> DEFINE P == SUBSET S
  <2>1. \A x0 \in P : \A g \in [P -> P] :
          \E f \in [Nat -> P] : f[0] = x0 /\ \A j \in Nat : f[j + 1] = g[f[j]]
    <3> HIDE DEF P
    <3> QED BY Iteration
  <2>2. step \in [P -> P] /\ {pc} \ {m} \in P
    BY <1>2, <1>3
  <2> HIDE DEF P, step
  <2>3. \E f \in [Nat -> P] : f[0] = {pc} \ {m} /\ \A j \in Nat : f[j + 1] = step[f[j]]
    BY <2>1, <2>2
  <2> QED BY <2>3 DEF P
<1>5. f = [j \in Nat |-> IF j = 0 THEN {pc} \ {m} ELSE Next1(f[j - 1])]
  <2>1. ASSUME NEW j \in Nat, j # 0 PROVE f[j] = Next1(f[j - 1])
    <3>1. j - 1 \in Nat /\ (j - 1) + 1 = j
      BY <2>1
    <3>2. f[(j - 1) + 1] = step[f[j - 1]] /\ f[j - 1] \in SUBSET S
      BY <1>4, <3>1
    <3>3. step[f[j - 1]] = Next1(f[j - 1])
      <4> HIDE DEF S, Next1, R
      <4> QED BY <3>2
    <3> QED BY <3>1, <3>2, <3>3
  <2> HIDE DEF Next1
  <2> QED BY <1>4, <2>1
<1>6. R = [j \in Nat |-> IF j = 0 THEN {pc} \ {m} ELSE Next1(R[j - 1])]
  <2>1. R = CHOOSE g : g = [j \in Nat |-> IF j = 0 THEN {pc} \ {m} ELSE Next1(g[j - 1])]
    OBVIOUS
  <2> HIDE DEF R, Next1
  <2> QED BY <1>5, <2>1
<1>7. R[0] = {pc} \ {m} /\ \A j \in Nat : R[j + 1] = Next1(R[j])
  <2>1. R[0] = {pc} \ {m}
    <3> HIDE DEF R, Next1
    <3> QED BY <1>6
  <2>2. ASSUME NEW j \in Nat PROVE R[j + 1] = Next1(R[j])
    <3>1. j + 1 \in Nat /\ j + 1 # 0 /\ (j + 1) - 1 = j
      OBVIOUS
    <3>2. R[j + 1] = Next1(R[(j + 1) - 1])
      <4> HIDE DEF R, Next1
      <4> QED BY <1>6, <3>1
    <3> QED BY <3>1, <3>2
  <2> QED BY <2>1, <2>2
<1> HIDE DEF R
\* Nodes only.
<1>8. \A j \in Nat : R[j] \in SUBSET S
  <2> DEFINE T == {j \in Nat : R[j] \in SUBSET S}
  <2>1. 0 \in T
    BY <1>3, <1>7
  <2>2. ASSUME NEW j \in Nat, j \in T PROVE j + 1 \in T
    <3>1. Next1(R[j]) \in SUBSET S
      <4>1. step[R[j]] = Next1(R[j]) /\ step[R[j]] \in SUBSET S
        BY <1>2, <2>2
      <4> QED BY <4>1
    <3>2. R[j + 1] = Next1(R[j])
      BY <1>7
    <3>3. R[j + 1] \in SUBSET S
      <4> HIDE DEF Next1, S
      <4> QED BY <3>1, <3>2
    <3> QED BY <3>3
  <2> HIDE DEF T
  <2>3. Nat \subseteq T
    BY <2>1, <2>2, SetInduction
  <2> QED BY <2>3 DEF T
\* The last round of the iteration adds nothing.
<1>9. Next1(R[k.n + 1]) = R[k.n + 1]
  <2> DEFINE N == Cardinality(0 .. k.n)
             all == 0 .. k.n
             step2 == [X \in SUBSET all |-> X \cup (Next1(X) \cap all)]
             f2 == [j \in Nat |-> R[j]]
  <2>1. IsFiniteSet(all) /\ N = k.n + 1
    BY FS_Interval DEF GoodCfg
  <2>2. step2 \in [SUBSET all -> SUBSET all] /\ \A X \in SUBSET all : X \subseteq step2[X]
    OBVIOUS
  <2>3. f2 \in [Nat -> SUBSET all]
    BY <1>8
  <2>4. ASSUME NEW j \in Nat PROVE f2[j + 1] = step2[f2[j]]
    <3>1. R[j + 1] = Next1(R[j])
      BY <1>7
    <3>2. R[j] \in SUBSET S /\ R[j + 1] \in SUBSET S
      <4> HIDE DEF S
      <4> QED BY <1>8
    <3>3. R[j] \in SUBSET all /\ R[j + 1] \in SUBSET all
      BY <3>2
    <3>4. R[j] \subseteq Next1(R[j])
      OBVIOUS
    <3>5. R[j] \cup (Next1(R[j]) \cap all) = R[j + 1]
      <4> HIDE DEF Next1, all
      <4> QED BY <3>1, <3>3, <3>4
    <3>6. step2[R[j]] = R[j] \cup (Next1(R[j]) \cap all)
      <4> HIDE DEF Next1, all
      <4> QED BY <3>3
    <3>7. f2[j] = R[j] /\ f2[j + 1] = R[j + 1]
      OBVIOUS
    <3> HIDE DEF step2, f2
    <3> QED BY <3>5, <3>6, <3>7
  <2>5. f2[N + 1] = f2[N]
    <3> HIDE DEF all, step2, f2
    <3> QED BY <2>1, <2>2, <2>3, <2>4, ComesToRest DEF all
  <2>6. k.n + 1 \in Nat /\ k.n + 1 + 1 \in Nat
    BY DEF GoodCfg
  <2> HIDE DEF Next1
  <2> QED BY <1>7, <2>1, <2>5, <2>6
\* It starts at pc, and stays inside whatever is closed.
<1>10. \A D : {pc} \ {m} \subseteq D /\ Closed(k, m, D)
           => \A j \in Nat : {pc} \ {m} \subseteq R[j] /\ R[j] \subseteq D
  <2> SUFFICES ASSUME NEW D, {pc} \ {m} \subseteq D, Closed(k, m, D)
               PROVE  \A j \in Nat : {pc} \ {m} \subseteq R[j] /\ R[j] \subseteq D
    OBVIOUS
  <2> DEFINE T == {j \in Nat : {pc} \ {m} \subseteq R[j] /\ R[j] \subseteq D}
  <2>1. 0 \in T
    BY <1>7
  <2>2. ASSUME NEW j \in Nat, j \in T PROVE j + 1 \in T
    <3>1. R[j + 1] = Next1(R[j])
      BY <1>7
    <3>2. {pc} \ {m} \subseteq R[j] /\ R[j] \subseteq D
      BY <2>2
    <3>3. R[j] \subseteq Next1(R[j])
      OBVIOUS
    <3>4. Next1(R[j]) \subseteq D
      BY <3>2 DEF Closed
    <3> HIDE DEF Next1
    <3> QED BY <3>1, <3>2, <3>3, <3>4
  <2> HIDE DEF T
  <2>3. Nat \subseteq T
    BY <2>1, <2>2, SetInduction
  <2> QED BY <2>3 DEF T
<1>11. k.n + 1 \in Nat
  BY DEF GoodCfg
<1>12. R[k.n + 1] \subseteq S
  <2> HIDE DEF S
  <2> QED BY <1>8, <1>11
<1>13. Closed(k, m, R[k.n + 1])
  BY <1>9 DEF Closed
<1>14. {pc} \ {m} \subseteq R[k.n + 1]
  <2>1. Closed(k, m, 0 .. k.n)
    <3>1. ASSUME NEW x \in (0 .. k.n) \ {k.n} PROVE Succ(k, x) \subseteq 0 .. k.n
      <4>1. x \in 0 .. k.n - 1
        BY DEF GoodCfg
      <4> QED BY <4>1 DEF GoodCfg
    <3> QED BY <3>1 DEF Closed
  <2> QED BY <1>10, <1>11, <2>1
<1> QED
  <2> HIDE DEF Next1
  <2> QED BY <1>1, <1>10, <1>11, <1>12, <1>13, <1>14

\* The exit can be reached from pc without passing m.
Avoids(k, pc, m) == k.n \in ReachAvoiding(k, pc, m)

\* What is closed and contains pc contains the exit.
LEMMA AvoidsEnds ==
    ASSUME NEW k, GoodCfg(k), NEW pc \in 0 .. k.n, NEW m, Avoids(k, pc, m),
           NEW D, pc # m => pc \in D, Closed(k, m, D)
    PROVE  k.n \in D
<1>1. {pc} \ {m} \subseteq D
  OBVIOUS
<1> QED BY <1>1, ReachIsLeast DEF Avoids

\* No path begins where it must not pass.
LEMMA AvoidsElsewhere ==
    ASSUME NEW k, GoodCfg(k), NEW pc \in 0 .. k.n, NEW m, Avoids(k, pc, m)
    PROVE  pc # m /\ k.n # m
<1>1. pc # m
  <2> SUFFICES ASSUME pc = m PROVE FALSE
    OBVIOUS
  <2>1. Closed(k, m, {})
    BY DEF Closed
  <2>2. k.n \in {}
    BY <2>1, AvoidsEnds
  <2> QED BY <2>2
<1>2. k.n # m
  BY ReachIsLeast DEF Avoids
<1> QED BY <1>1, <1>2

LEMMA AvoidsAtExit ==
    ASSUME NEW k, GoodCfg(k), NEW m, m # k.n
    PROVE  Avoids(k, k.n, m)
<1>1. k.n \in 0 .. k.n
  BY DEF GoodCfg
<1> QED BY <1>1, ReachIsLeast DEF Avoids

\* A path can be prolonged at its beginning ...
LEMMA AvoidsBack ==
    ASSUME NEW k, GoodCfg(k), NEW pc \in 0 .. k.n - 1, NEW m, pc # m,
           NEW s \in Succ(k, pc), Avoids(k, s, m)
    PROVE  Avoids(k, pc, m)
<1>1. pc \in 0 .. k.n /\ pc # k.n /\ s \in 0 .. k.n
  BY DEF GoodCfg
<1> DEFINE D == ReachAvoiding(k, pc, m)
<1>2. pc \in D /\ Closed(k, m, D)
  BY <1>1, ReachIsLeast
<1>3. s # m => s \in D
  BY <1>1, <1>2 DEF Closed
<1> HIDE DEF D
<1>4. k.n \in D
  BY <1>1, <1>2, <1>3, AvoidsEnds
<1> QED BY <1>4 DEF D, Avoids

\* ... and is one from a successor on.
LEMMA AvoidsForth ==
    ASSUME NEW k, GoodCfg(k), NEW pc \in 0 .. k.n - 1, NEW m, Avoids(k, pc, m)
    PROVE  \E s \in Succ(k, pc) : Avoids(k, s, m)
<1>1. pc \in 0 .. k.n /\ pc # k.n /\ Succ(k, pc) \subseteq 0 .. k.n
  BY DEF GoodCfg
<1> DEFINE D == {x \in 0 .. k.n : \E s \in Succ(k, pc) : x \in ReachAvoiding(k, s, m)}
<1>2. Closed(k, m, D \cup {pc})
  <2> SUFFICES ASSUME NEW x \in (D \cup {pc}) \ {k.n}, NEW y \in Succ(k, x), y # m
               PROVE  y \in D
    BY DEF Closed
  <2>1. CASE x = pc
    <3>1. y \in 0 .. k.n /\ y \in ReachAvoiding(k, y, m)
      BY <1>1, <2>1, ReachIsLeast
    <3> QED BY <2>1, <3>1
  <2>2. CASE x \in D
    <3>1. PICK s \in Succ(k, pc) : x \in ReachAvoiding(k, s, m)
      BY <2>2
    <3>2. Closed(k, m, ReachAvoiding(k, s, m)) /\ ReachAvoiding(k, s, m) \subseteq 0 .. k.n
      BY <1>1, ReachIsLeast
    <3>3. y \in ReachAvoiding(k, s, m)
      BY <3>1, <3>2 DEF Closed
    <3> QED BY <3>2, <3>3
  <2> QED BY <2>1, <2>2
<1>3. k.n \in D \cup {pc}
  <2> HIDE DEF D
  <2> QED BY <1>1, <1>2, AvoidsEnds
<1> QED BY <1>1, <1>3 DEF Avoids

-----------------------------------------------------------------------------
(* Post-dominance is an order, and total on the post-dominators of a point *)
(* from which the exit is reached.                                         *)

\* d passes c, and from c on e is passed: then d passes e.
LEMMA PassesTransitively ==
    ASSUME NEW k, GoodCfg(k), NEW c \in 0 .. k.n, NEW d \in 0 .. k.n, NEW e,
           ~Avoids(k, d, c), ~Avoids(k, c, e), c # e
    PROVE  ~Avoids(k, d, e)
<1> SUFFICES ASSUME Avoids(k, d, e) PROVE FALSE
  OBVIOUS
<1> DEFINE Rdc == ReachAvoiding(k, d, c)
           Rde == ReachAvoiding(k, d, e)
           Rce == ReachAvoiding(k, c, e)
           D == (Rdc \cap Rde) \cup Rce
<1>1. Closed(k, c, Rdc) /\ Closed(k, e, Rde) /\ Closed(k, e, Rce) /\ c \in Rce
      /\ (d # c => d \in Rdc) /\ (d # e => d \in Rde)
  BY ReachIsLeast
<1>2. Closed(k, e, D)
  <2> HIDE DEF Rdc, Rde, Rce
  <2> QED BY <1>1 DEF Closed
<1>3. d # e => d \in D
  BY <1>1
<1>4. k.n \in D
  <2> HIDE DEF D
  <2> QED BY <1>2, <1>3, AvoidsEnds
<1> QED BY <1>4 DEF Avoids

\* Two points cannot each wait for the other.
LEMMA PassesAntisymmetrically ==
    ASSUME NEW k, GoodCfg(k), NEW c \in 0 .. k.n, NEW d \in 0 .. k.n, c # d,
           ~Avoids(k, c, d), ~Avoids(k, d, c)
    PROVE  ~Avoids(k, c, NoPc)
<1> SUFFICES ASSUME Avoids(k, c, NoPc) PROVE FALSE
  OBVIOUS
<1> DEFINE Rdc == ReachAvoiding(k, d, c)
           Rcd == ReachAvoiding(k, c, d)
           D == Rdc \cup Rcd
<1>1. Closed(k, c, Rdc) /\ Closed(k, d, Rcd) /\ c \in Rcd /\ d \in Rdc
  BY ReachIsLeast
<1>2. Closed(k, NoPc, D)
  <2> HIDE DEF Rdc, Rcd
  <2> QED BY <1>1 DEF Closed
<1>3. k.n \in D
  <2> HIDE DEF D, Rcd, Rdc
  <2>1. c \in D
    BY <1>1 DEF D
  <2> QED BY <1>2, <2>1, AvoidsEnds
<1> QED BY <1>3 DEF Avoids

\* A point that pc must pass reaches the exit if pc does.
LEMMA PassedReachesExit ==
    ASSUME NEW k, GoodCfg(k), NEW pc \in 0 .. k.n, NEW c \in 0 .. k.n,
           ~Avoids(k, pc, c), Avoids(k, pc, NoPc)
    PROVE  Avoids(k, c, NoPc)
<1> DEFINE Rpc == ReachAvoiding(k, pc, c)
           Rc == ReachAvoiding(k, c, NoPc)
           D == Rpc \cup Rc
<1>1. Closed(k, c, Rpc) /\ Closed(k, NoPc, Rc) /\ (pc # c => pc \in Rpc) /\ (c # NoPc => c \in Rc)
  BY ReachIsLeast
<1>2. c # NoPc
  BY DEF NoPc
<1>3. Closed(k, NoPc, D)
  <2> HIDE DEF Rpc, Rc
  <2> QED BY <1>1, <1>2 DEF Closed
<1>4. pc \in D
  <2> HIDE DEF Rpc, Rc
  <2> QED BY <1>1, <1>2
<1>5. k.n \in D
  <2> HIDE DEF D
  <2> QED BY <1>3, <1>4, AvoidsEnds
<1> QED BY <1>5 DEF Avoids

\* Of two points that pc must pass, one must pass the other.
LEMMA PassedAreOrdered ==
    ASSUME NEW k, GoodCfg(k), NEW pc \in 0 .. k.n, NEW c \in 0 .. k.n, NEW d \in 0 .. k.n,
           pc # c, pc # d, c # d,
           ~Avoids(k, pc, c), ~Avoids(k, pc, d), Avoids(k, pc, NoPc)
    PROVE  ~Avoids(k, c, d) \/ ~Avoids(k, d, c)
<1> SUFFICES ASSUME Avoids(k, c, d), Avoids(k, d, c) PROVE FALSE
  OBVIOUS
<1> DEFINE A == ReachAvoiding(k, pc, c)
           B == ReachAvoiding(k, pc, d)
<1>1. /\ pc \in A /\ Closed(k, c, A) /\ c \notin A /\ k.n \notin A
      /\ pc \in B /\ Closed(k, d, B) /\ d \notin B /\ k.n \notin B
  BY ReachIsLeast DEF Avoids
<1> HIDE DEF A, B
<1>2. d \notin A
  <2> SUFFICES ASSUME d \in A PROVE FALSE
    OBVIOUS
  <2>1. k.n \in A
    BY <1>1, AvoidsEnds
  <2> QED BY <1>1, <2>1
<1>3. c \notin B
  <2> SUFFICES ASSUME c \in B PROVE FALSE
    OBVIOUS
  <2>1. k.n \in B
    BY <1>1, AvoidsEnds
  <2> QED BY <1>1, <2>1
<1>4. Closed(k, NoPc, A \cap B)
  BY <1>1, <1>2, <1>3 DEF Closed
<1>5. k.n \in A \cap B
  BY <1>1, <1>4, AvoidsEnds
<1> QED BY <1>1, <1>5

\* If control only moves on, the exit is reached from behind m without m.
LEMMA ForwardReaches ==
    ASSUME NEW k, GoodCfg(k), \A x \in 0 .. k.n - 1 : \A y \in Succ(k, x) : y > x,
           \A x \in 0 .. k.n - 1 : Succ(k, x) # {},
           NEW pc \in 0 .. k.n, NEW m \in Int, m < pc
    PROVE  Avoids(k, pc, m)
<1> SUFFICES ASSUME ~Avoids(k, pc, m) PROVE FALSE
  OBVIOUS
<1> DEFINE A == ReachAvoiding(k, pc, m)
           D == {x \in A : x >= pc}
<1>1. k.n \in Nat /\ pc \in Nat
  BY DEF GoodCfg
<1>2. A \subseteq 0 .. k.n /\ pc \in A /\ Closed(k, m, A) /\ k.n \notin A
  BY <1>1, ReachIsLeast DEF Avoids
<1> HIDE DEF A
<1> DEFINE T == {k.n - x : x \in D}
<1>3. T \subseteq Nat /\ T # {}
  BY <1>1, <1>2
<1>4. PICK t \in T : \A u \in T : t <= u
  <2> HIDE DEF T
  <2> QED BY <1>3, NatMin
<1>5. PICK x \in D : t = k.n - x
  OBVIOUS
<1>6. x \in 0 .. k.n - 1 /\ x \in A /\ x >= pc
  BY <1>1, <1>2, <1>5
<1>7. PICK y \in Succ(k, x) : y > x
  BY <1>6
<1>8. y \in 0 .. k.n
  BY <1>6 DEF GoodCfg
<1>9. y # m /\ y >= pc
  BY <1>1, <1>6, <1>7, <1>8
<1>10. y \in A
  BY <1>1, <1>2, <1>6, <1>9 DEF Closed
<1>11. k.n - y \in T
  BY <1>9, <1>10
<1>12. k.n - x <= k.n - y
  BY <1>4, <1>5, <1>11
<1> QED BY <1>1, <1>6, <1>7, <1>8, <1>12

\* A point stays ahead until it is passed.
LEMMA StaysAhead ==
    ASSUME NEW k, GoodCfg(k), NEW x \in 0 .. k.n - 1, NEW m, m # x, PostDominates(k, m, x),
           NEW y \in Succ(k, x)
    PROVE  PostDominates(k, m, y)
<1>1. ~Avoids(k, x, m)
  BY DEF PostDominates, Avoids
<1>2. ~Avoids(k, y, m)
  BY <1>1, AvoidsBack
<1> QED BY <1>2 DEF PostDominates, Avoids

-----------------------------------------------------------------------------
(* How far a point is from the exit.                                       *)

StepBack(k, m, X) ==
    X \cup {x \in 0 .. k.n - 1 : x # m /\ \E s \in Succ(k, x) : s \in X}

\* Level(k, m)[j]: the points with a path of at most j edges that avoids m.
IsLevel(k, m, f) ==
    /\ f \in [Nat -> SUBSET (0 .. k.n)]
    /\ f[0] = {k.n} \ {m}
    /\ \A j \in Nat : f[j + 1] = StepBack(k, m, f[j])

Level(k, m) == CHOOSE f : IsLevel(k, m, f)

LEMMA LevelExists ==
    ASSUME NEW k, k.n \in Nat, NEW m
    PROVE  IsLevel(k, m, Level(k, m))
<1> DEFINE P == SUBSET (0 .. k.n)
           step == [X \in P |-> StepBack(k, m, X)]
<1>1. step \in [P -> P] /\ {k.n} \ {m} \in P
  BY DEF StepBack
<1>2. \A x0 \in P : \A g \in [P -> P] :
        \E f \in [Nat -> P] : f[0] = x0 /\ \A j \in Nat : f[j + 1] = g[f[j]]
  <2> HIDE DEF P
  <2> QED BY Iteration
<1>3. PICK f \in [Nat -> P] : f[0] = {k.n} \ {m} /\ \A j \in Nat : f[j + 1] = step[f[j]]
  <2> HIDE DEF P, step
  <2> QED BY <1>1, <1>2
<1>4. IsLevel(k, m, f)
  <2>1. ASSUME NEW j \in Nat PROVE f[j + 1] = StepBack(k, m, f[j])
    <3>1. f[j] \in P
      OBVIOUS
    <3> HIDE DEF P
    <3> QED BY <1>3, <3>1
  <2> QED BY <1>3, <2>1 DEF IsLevel
<1> QED BY <1>4 DEF Level

\* The levels grow; a point of one has a successor in the one before.
LEMMA LevelStep ==
    ASSUME NEW k, GoodCfg(k), NEW m, NEW j \in Nat
    PROVE  /\ Level(k, m)[j] \subseteq Level(k, m)[j + 1]
           /\ m \notin Level(k, m)[j] /\ Level(k, m)[j] \subseteq 0 .. k.n
           /\ \A x \in Level(k, m)[j + 1] :
                x = k.n \/ (x \in 0 .. k.n - 1 /\ x # m /\ \E s \in Succ(k, x) : s \in Level(k, m)[j])
<1> DEFINE f == Level(k, m)
           Ok(i) == /\ m \notin f[i]
                    /\ \A x \in f[i + 1] :
                         x = k.n \/ (x \in 0 .. k.n - 1 /\ x # m /\ \E s \in Succ(k, x) : s \in f[i])
           T == {i \in Nat : Ok(i)}
<1>1. IsLevel(k, m, f)
  BY LevelExists DEF GoodCfg
<1> HIDE DEF f
<1>2. \A i \in Nat : f[i + 1] = StepBack(k, m, f[i])
  BY <1>1 DEF IsLevel
<1>3. 0 \in T
  BY <1>1, <1>2 DEF IsLevel, StepBack
<1>4. ASSUME NEW i \in Nat, i \in T PROVE i + 1 \in T
  <2>1. f[i + 1] = StepBack(k, m, f[i]) /\ f[(i + 1) + 1] = StepBack(k, m, f[i + 1])
    BY <1>2
  <2>2. m \notin f[i + 1]
    BY <1>4, <2>1 DEF StepBack
  <2>3. ASSUME NEW x \in f[(i + 1) + 1], x # k.n
        PROVE  x \in 0 .. k.n - 1 /\ x # m /\ \E s \in Succ(k, x) : s \in f[i + 1]
    <3>1. CASE x \in f[i + 1]
      <4>1. x \in 0 .. k.n - 1 /\ x # m /\ \E s \in Succ(k, x) : s \in f[i]
        BY <1>4, <2>3, <3>1
      <4> QED BY <2>1, <4>1 DEF StepBack
    <3>2. CASE x \notin f[i + 1]
      BY <2>1, <2>3, <3>2 DEF StepBack
    <3> QED BY <3>1, <3>2
  <2> QED BY <2>2, <2>3
<1>5. Nat \subseteq T
  <2> HIDE DEF T
  <2> QED BY <1>3, <1>4, SetInduction
<1>6. Ok(j)
  BY <1>5
<1>7. f[j] \subseteq f[j + 1]
  BY <1>2 DEF StepBack
<1>8. f[j] \subseteq 0 .. k.n
  BY <1>1 DEF IsLevel
<1> QED BY <1>6, <1>7, <1>8 DEF f

\* A path need not be longer than n + 1.
LEMMA LevelsEnd ==
    ASSUME NEW k, GoodCfg(k), NEW m, NEW pc \in 0 .. k.n, Avoids(k, pc, m)
    PROVE  pc \in Level(k, m)[k.n + 1]
<1> DEFINE f == Level(k, m)
           all == 0 .. k.n
           step == [X \in SUBSET all |-> StepBack(k, m, X)]
<1>1. IsLevel(k, m, f) /\ k.n \in Nat /\ k.n + 1 \in Nat
  BY LevelExists DEF GoodCfg
<1>2. IsFiniteSet(all) /\ Cardinality(all) = k.n + 1
  <2>1. PICK last \in Nat : last = k.n
    BY <1>1
  <2>2. IsFiniteSet(0 .. last) /\ Cardinality(0 .. last) = last + 1
    BY FS_Interval
  <2> QED BY <2>1, <2>2
<1> HIDE DEF f
<1>3. step \in [SUBSET all -> SUBSET all] /\ \A X \in SUBSET all : X \subseteq step[X]
  <2>1. ASSUME NEW X \in SUBSET all
        PROVE  StepBack(k, m, X) \in SUBSET all /\ X \subseteq StepBack(k, m, X)
    <3>1. 0 .. k.n - 1 \subseteq all
      BY <1>1
    <3> HIDE DEF all
    <3> QED BY <3>1 DEF StepBack
  <2> HIDE DEF all
  <2> QED BY <2>1
<1>4. f \in [Nat -> SUBSET all]
  BY <1>1 DEF IsLevel
<1>5. ASSUME NEW j \in Nat PROVE f[j + 1] = step[f[j]]
  <2>1. f[j + 1] = StepBack(k, m, f[j]) /\ f[j] \in SUBSET all
    BY <1>1, <1>4 DEF IsLevel
  <2> HIDE DEF all
  <2> QED BY <2>1
<1>6. f[(k.n + 1) + 1] = f[k.n + 1]
  <2> HIDE DEF all, step
  <2>1. f[Cardinality(all) + 1] = f[Cardinality(all)]
    BY <1>2, <1>3, <1>4, <1>5, ComesToRest
  <2> QED BY <1>2, <2>1
<1>7. StepBack(k, m, f[k.n + 1]) = f[k.n + 1]
  BY <1>1, <1>6 DEF IsLevel
<1> DEFINE D == {x \in all : x # m /\ x \notin f[k.n + 1]}
<1>8. Closed(k, m, D)
  <2> SUFFICES ASSUME NEW x \in D \ {k.n}, NEW s \in Succ(k, x), s # m PROVE s \in D
    BY DEF Closed
  <2>1. x \in 0 .. k.n - 1
    BY <1>1
  <2>2. s \in 0 .. k.n
    BY <2>1 DEF GoodCfg
  <2>3. s \notin f[k.n + 1]
    BY <1>7, <2>1 DEF StepBack
  <2> QED BY <2>2, <2>3
<1>9. k.n \notin D
  <2> SUFFICES ASSUME k.n # m PROVE k.n \in f[k.n + 1]
    OBVIOUS
  <2> DEFINE T == {j \in Nat : k.n \in f[j]}
  <2>1. 0 \in T
    BY <1>1 DEF IsLevel
  <2>2. ASSUME NEW j \in Nat, j \in T PROVE j + 1 \in T
    BY <1>1, <2>2 DEF IsLevel, StepBack
  <2>3. Nat \subseteq T
    <3> HIDE DEF T
    <3> QED BY <2>1, <2>2, SetInduction
  <2> QED BY <1>1, <2>3
<1>10. pc # m
  BY AvoidsElsewhere
<1>11. pc \notin D
  <2> HIDE DEF D
  <2> QED BY <1>8, <1>9, AvoidsEnds
<1> QED BY <1>10, <1>11 DEF f

-----------------------------------------------------------------------------
(* The CFG that BuildCfg accepts.                                          *)

\* A finite set of positions has a last one.
LEMMA LastPosition ==
    ASSUME NEW n \in Nat, NEW T, T \subseteq 1 .. n, T # {}
    PROVE  \E i \in T : \A j \in T : j <= i
<1> DEFINE D == {n - i : i \in T}
<1>0. \A i \in T : i \in Nat /\ n - i \in Nat
  OBVIOUS
<1>1. D \subseteq Nat /\ D # {}
  BY <1>0
<1>2. PICK d \in D : \A e \in D : d <= e
  <2> HIDE DEF D
  <2> QED BY <1>1, NatMin
<1>3. PICK i \in T : d = n - i
  OBVIOUS
<1>4. ASSUME NEW j \in T PROVE j <= i
  <2>1. n - i <= n - j
    BY <1>2, <1>3
  <2>2. i \in Nat /\ j \in Nat
    BY <1>0
  <2> HIDE DEF D
  <2> QED BY <2>1, <2>2
<1> QED BY <1>4

LEMMA BraTargetType == ASSUME NEW inst \in Insts PROVE BraTarget(inst) \in Nat \cup {NoPc}
<1> DEFINE imm == {i \in UopsAt(inst, "bra") : inst.uops[i].arg # NoPc}
<1>1. inst.uops \in Seq(Uops) /\ Len(inst.uops) \in Nat
  BY DEF Insts
<1>2. imm \subseteq 1 .. Len(inst.uops)
  BY DEF UopsAt
<1>3. CASE imm = {}
  BY <1>3 DEF BraTarget
<1>4. CASE imm # {}
  <2>1. \E i \in imm : \A j \in imm : j <= i
    <3> HIDE DEF imm
    <3> QED BY <1>1, <1>2, <1>4, LastPosition
  <2> DEFINE i == CHOOSE i \in imm : \A j \in imm : j <= i
  <2>2. i \in imm
    <3> HIDE DEF imm
    <3> QED BY <2>1
  <2>3. BraTarget(inst) = inst.uops[i].arg
    BY <1>4 DEF BraTarget
  <2> HIDE DEF i
  <2>4. inst.uops[i] \in Uops
    BY <1>1, <1>2, <2>2
  <2> QED BY <2>3, <2>4 DEF Uops
<1> QED BY <1>3, <1>4

\* What build_cfg does not refuse is a graph on the nodes.
LEMMA AcceptedIsGood ==
    ASSUME NEW k, IsImage(k), \A pc \in 0 .. k.n - 1 : ~BadTarget(k, pc)
    PROVE  GoodCfg(k)
<1>1. k.n \in Nat
  BY DEF IsImage
<1>2. ASSUME NEW x \in 0 .. k.n - 1 PROVE Succ(k, x) \subseteq 0 .. k.n
  <2> DEFINE inst == k.insts[x]
             t == BraTarget(inst)
  <2>1. inst \in Insts /\ t \in Nat \cup {NoPc}
    BY BraTargetType DEF IsImage
  <2>2. x + 1 \in 0 .. k.n /\ k.n \in 0 .. k.n
    BY <1>1
  <2>3. IsPredBra(inst) /\ ~HasUop(inst, "ret") => t \in 0 .. k.n
    BY <1>1 DEF BadTarget
  <2>4. t # NoPc /\ t < k.n => t \in 0 .. k.n
    BY <1>1, <2>1
  <2>5. Succ(k, x) = IF ~inst.has_desc THEN {x + 1}
          ELSE IF HasUop(inst, "ret") THEN {k.n}
          ELSE IF ~HasUop(inst, "bra") THEN {x + 1}
          ELSE IF inst.pred # "none" THEN {t, x + 1}
          ELSE IF t = NoPc THEN {x + 1}
          ELSE IF t < k.n THEN {t} ELSE {k.n}
    BY DEF Succ
  <2> HIDE DEF t, inst
  <2> QED BY <2>2, <2>3, <2>4, <2>5 DEF IsPredBra
<1> QED BY <1>1, <1>2 DEF GoodCfg

\* Of an accepted kernel in which control only moves on: the exit is reached
\* from everywhere, what is ahead has a higher pc, and stays ahead until it is
\* passed.
LEMMA ForwardPostDominance ==
    ASSUME NEW k, IsImage(k), \A pc \in 0 .. k.n - 1 : ~BadTarget(k, pc),
           \A x \in 0 .. k.n - 1 : \A y \in Succ(k, x) : y > x
    PROVE  /\ \A x \in 0 .. k.n : ReachesExit(k, x)
           /\ \A x, m \in 0 .. k.n : PostDominates(k, m, x) => x <= m
           /\ \A x \in 0 .. k.n - 1, m \in 0 .. k.n : m # x /\ PostDominates(k, m, x) =>
                \A y \in Succ(k, x) : y \in 0 .. k.n /\ PostDominates(k, m, y)
<1>1. GoodCfg(k) /\ k.n \in Nat
  BY AcceptedIsGood DEF GoodCfg
<1>2. \A x : Succ(k, x) # {}
  BY DEF Succ
<1>3. ASSUME NEW x \in 0 .. k.n PROVE ReachesExit(k, x)
  <2>1. NoPc \in Int /\ NoPc < x
    BY <1>1 DEF NoPc
  <2> QED BY <1>1, <1>2, <2>1, ForwardReaches DEF ReachesExit, Avoids
<1>4. ASSUME NEW x \in 0 .. k.n, NEW m \in 0 .. k.n, PostDominates(k, m, x) PROVE x <= m
  <2> SUFFICES ASSUME m < x PROVE FALSE
    BY <1>1
  <2>1. m \in Int /\ m # x
    BY <1>1
  <2>2. Avoids(k, x, m)
    BY <1>1, <1>2, <2>1, ForwardReaches
  <2> QED BY <1>4, <2>1, <2>2 DEF PostDominates, Avoids
<1>5. ASSUME NEW x \in 0 .. k.n - 1, NEW m \in 0 .. k.n, m # x, PostDominates(k, m, x),
             NEW y \in Succ(k, x)
      PROVE  y \in 0 .. k.n /\ PostDominates(k, m, y)
  BY <1>1, <1>5, StaysAhead DEF GoodCfg
<1> QED BY <1>3, <1>4, <1>5

-----------------------------------------------------------------------------
(* The inductive invariant.                                                *)

TypeOK ==
    /\ kernel \in Images
    /\ phase \in {"build", "sweep", "ipdom", "done", "failed"}
    /\ postdom \in [Nodes -> SUBSET Nodes]
    /\ node \in Nodes
    /\ changed \in BOOLEAN
    /\ iters \in Nat
    /\ reconv \in [0 .. kernel.n - 1 -> Nodes \cup {NoPc}]
    /\ diag \in {"none", "E_RECONV_INVALID", "E_RECONV_MISS"}

\* Past BuildCfg the CFG is a graph; before it nothing has been done.
PhaseOK ==
    /\ phase \in {"sweep", "ipdom", "done"} => GoodCfg(kernel)
    /\ phase = "build" => iters = 0 /\ node = ExitNode /\ changed
    /\ diag = "E_RECONV_MISS" => phase = "failed"

\* Every point removed from a set has a path that avoids it.
ShapeOK ==
    /\ postdom[ExitNode] = {ExitNode}
    /\ GoodCfg(kernel) =>
         \A x, m \in Nodes : m \notin postdom[x] => Avoids(kernel, x, m)

\* The equation a set satisfies when it was visited last.
Settled(x) == postdom[x] = NewSet(x)

StableOK ==
    /\ phase = "sweep" /\ ~changed => \A x \in 0 .. kernel.n - 1 : x < node => Settled(x)
    /\ phase \in {"ipdom", "done"} => \A x \in 0 .. kernel.n - 1 : Settled(x)

\* After j sweeps the sets are right about all paths of at most j edges.
SweepOK ==
    phase = "sweep" =>
      /\ iters = 0 => node = ExitNode /\ changed
      /\ \A m \in Nodes :
           /\ \A x \in Nodes : (x < node \/ x = ExitNode) /\ x \in Level(kernel, m)[iters]
                => m \notin postdom[x]
           /\ iters > 0 => \A x \in Nodes : x \in Level(kernel, m)[iters - 1]
                => m \notin postdom[x]

\* So after n + 1 of them nothing is left to change.
ItersOK ==
    /\ iters <= kernel.n + 2
    /\ phase = "sweep" /\ iters = kernel.n + 2 => ~changed

\* What has been found so far.
ResultOK ==
    /\ ReconvIsIpdom
    /\ \A pc \in 0 .. kernel.n - 1 :
         /\ reconv[pc] # NoPc => IsPredBra(kernel.insts[pc])
         /\ phase \in {"ipdom", "done"} /\ pc < node /\ IsPredBra(kernel.insts[pc])
              => reconv[pc] # NoPc
    /\ phase = "done" => node = ExitNode
    /\ diag = "E_RECONV_MISS" =>
         \E pc \in 0 .. kernel.n - 1 :
           IsPredBra(kernel.insts[pc]) /\ ~ReachesExit(kernel, pc)

IInv == /\ TypeOK /\ PhaseOK /\ ShapeOK /\ StableOK /\ SweepOK /\ ItersOK /\ ResultOK

-----------------------------------------------------------------------------
(* What the sets are worth when they no longer change.                     *)

LEMMA KernelFacts ==
    ASSUME TypeOK
    PROVE  /\ IsImage(kernel) /\ kernel.n \in Nat /\ ExitNode \in Nodes
           /\ Nodes \subseteq Nat /\ 0 .. kernel.n - 1 \subseteq Nodes
           /\ \A x \in Nodes : x = ExitNode \/ x \in 0 .. kernel.n - 1
BY ImagesAssumption DEF TypeOK, IsImage, Nodes, ExitNode

\* The sets are exact.
Exact == \A x, m \in Nodes : m \in postdom[x] <=> PostDominates(kernel, m, x)

LEMMA SettledIsExact ==
    ASSUME TypeOK, ShapeOK, GoodCfg(kernel), \A x \in 0 .. kernel.n - 1 : Settled(x)
    PROVE  Exact
<1>0. kernel.n \in Nat /\ ExitNode \in Nodes /\ \A x \in Nodes : x = ExitNode \/ x \in 0 .. kernel.n - 1
  BY KernelFacts
<1> SUFFICES ASSUME NEW pc \in Nodes, NEW m \in Nodes
             PROVE  m \in postdom[pc] <=> PostDominates(kernel, m, pc)
  BY DEF Exact
<1>1. pc \in postdom[pc]
  BY <1>0 DEF ShapeOK, Settled, NewSet
<1>2. ASSUME m \in postdom[pc], m # pc, Avoids(kernel, pc, m) PROVE FALSE
  <2> DEFINE D == {x \in Nodes : x # m /\ m \in postdom[x]}
  <2>1. Closed(kernel, m, D)
    <3> SUFFICES ASSUME NEW x \in D \ {kernel.n}, NEW s \in Succ(kernel, x), s # m PROVE s \in D
      BY DEF Closed
    <3>1. x \in 0 .. kernel.n - 1 /\ x # m /\ m \in postdom[x]
      BY <1>0 DEF ExitNode
    <3>2. m \in NewSet(x)
      BY <3>1 DEF Settled
    <3>3. m \in postdom[s]
      BY <3>1, <3>2 DEF NewSet
    <3>4. s \in Nodes
      BY <3>1 DEF GoodCfg, Nodes
    <3> QED BY <3>3, <3>4
  <2>2. pc \in D /\ pc \in 0 .. kernel.n
    BY <1>2 DEF Nodes
  <2>3. kernel.n \in D
    <3> HIDE DEF D
    <3> QED BY <1>2, <2>1, <2>2, AvoidsEnds
  <2> QED BY <2>3 DEF ShapeOK, ExitNode
<1>3. m \notin postdom[pc] => Avoids(kernel, pc, m)
  BY DEF ShapeOK
<1> QED BY <1>1, <1>2, <1>3 DEF PostDominates, Avoids

LEMMA ExactCandidates ==
    ASSUME TypeOK, Exact, NEW pc \in Nodes, NEW c \in Candidates(pc)
    PROVE  c \in 0 .. kernel.n /\ c \in Nodes /\ c # pc /\ ~Avoids(kernel, pc, c)
BY DEF Candidates, Exact, TypeOK, PostDominates, Avoids, Nodes

\* A candidate that post-dominates no other is the immediate one.
LEMMA ImmediateIsIpdom ==
    ASSUME TypeOK, GoodCfg(kernel), Exact, NEW pc \in Nodes, NEW c \in Immediates(pc),
           ReachesExit(kernel, pc)
    PROVE  IsIpdom(kernel, c, pc)
<1>0. pc \in 0 .. kernel.n /\ Nodes = 0 .. kernel.n
  BY DEF Nodes
<1>1. c \in Candidates(pc) /\ \A d \in Candidates(pc) \ {c} : c \notin postdom[d]
  BY DEF Immediates
<1>2. c \in Nodes /\ c # pc /\ ~Avoids(kernel, pc, c)
  BY <1>1, ExactCandidates
<1>3. c \in StrictPostDoms(kernel, pc)
  BY <1>0, <1>2 DEF StrictPostDoms, PostDominates, Avoids
<1>4. ASSUME NEW d \in StrictPostDoms(kernel, pc) PROVE PostDominates(kernel, d, c)
  <2>1. d \in Nodes /\ d # pc /\ PostDominates(kernel, d, pc)
    BY <1>0 DEF StrictPostDoms
  <2>2. ~Avoids(kernel, pc, d)
    BY <2>1 DEF PostDominates, Avoids
  <2>3. d \in Candidates(pc)
    BY <2>1 DEF Candidates, Exact
  <2>4. CASE d # c
    <3>1. Avoids(kernel, d, c)
      <4>1. c \notin postdom[d]
        BY <1>1, <2>3, <2>4
      <4> QED BY <1>2, <2>1, <4>1 DEF Exact, PostDominates, Avoids
    <3>2. ~Avoids(kernel, c, d)
      BY <1>0, <1>2, <2>1, <2>2, <2>4, <3>1, PassedAreOrdered DEF ReachesExit, Avoids
    <3> QED BY <3>2 DEF PostDominates, Avoids
  <2>5. CASE d = c
    BY <2>5 DEF PostDominates
  <2> QED BY <2>4, <2>5
<1> QED BY <1>3, <1>4 DEF IsIpdom

\* A point has at most one.
LEMMA IpdomIsUnique ==
    ASSUME NEW k, GoodCfg(k), NEW pc \in 0 .. k.n, ReachesExit(k, pc),
           NEW c, IsIpdom(k, c, pc), NEW d, IsIpdom(k, d, pc)
    PROVE  c = d
<1>1. /\ c \in 0 .. k.n /\ c # pc /\ ~Avoids(k, pc, c)
      /\ d \in 0 .. k.n /\ d # pc /\ ~Avoids(k, pc, d)
  BY DEF IsIpdom, StrictPostDoms, PostDominates, Avoids
<1>2. (c # d => ~Avoids(k, d, c)) /\ (c # d => ~Avoids(k, c, d))
  BY DEF IsIpdom, PostDominates, Avoids
<1>3. Avoids(k, c, NoPc)
  BY <1>1, PassedReachesExit DEF ReachesExit, Avoids
<1> QED BY <1>1, <1>2, <1>3, PassesAntisymmetrically

\* There is one wherever the exit can be reached.
LEMMA ImmediateExists ==
    ASSUME TypeOK, GoodCfg(kernel), Exact, NEW pc \in 0 .. kernel.n - 1,
           ReachesExit(kernel, pc)
    PROVE  Immediates(pc) # {}
<1>0. /\ kernel.n \in Nat /\ kernel.n \in Nodes /\ pc \in Nodes /\ pc # kernel.n
      /\ Nodes = 0 .. kernel.n
  BY KernelFacts DEF Nodes, ExitNode
<1>1. kernel.n \in Candidates(pc)
  <2>1. ~Avoids(kernel, pc, kernel.n)
    BY <1>0, AvoidsElsewhere
  <2> QED BY <1>0, <2>1 DEF Candidates, Exact, PostDominates, Avoids
<1>2. \A x \in Nodes : postdom[x] \in SUBSET (0 .. kernel.n)
  BY <1>0 DEF TypeOK
<1>3. IsFiniteSet(0 .. kernel.n)
  BY <1>0, FS_Interval
<1>4. \A x \in Nodes : IsFiniteSet(postdom[x]) /\ Cardinality(postdom[x]) \in Nat
                       /\ Cardinality(postdom[x]) <= Cardinality(0 .. kernel.n)
  BY <1>2, <1>3, FS_Subset, FS_CardinalityType
<1> DEFINE Big == Cardinality(0 .. kernel.n)
           T == {Big - Cardinality(postdom[x]) : x \in Candidates(pc)}
<1>5. Big \in Nat
  BY <1>3, FS_CardinalityType
<1>6. \A x \in Candidates(pc) : x \in Nodes
  BY <1>0, ExactCandidates
<1> HIDE DEF Big
<1>7. T \subseteq Nat /\ T # {}
  BY <1>1, <1>4, <1>5, <1>6 DEF Big
<1>8. PICK d \in T : \A e \in T : d <= e
  <2> HIDE DEF T
  <2> QED BY <1>7, NatMin
<1>9. PICK c \in Candidates(pc) : d = Big - Cardinality(postdom[c])
  OBVIOUS
<1>10. ASSUME NEW b \in Candidates(pc), b # c PROVE c \notin postdom[b]
  <2> SUFFICES ASSUME c \in postdom[b] PROVE FALSE
    OBVIOUS
  <2>1. /\ b \in Nodes /\ b # pc /\ ~Avoids(kernel, pc, b)
        /\ c \in Nodes /\ c # pc /\ ~Avoids(kernel, pc, c)
    BY <1>0, <1>9, <1>10, ExactCandidates
  <2>2. ~Avoids(kernel, b, c)
    BY <1>10, <2>1 DEF Exact, PostDominates, Avoids
  <2>3. Avoids(kernel, b, NoPc) /\ Avoids(kernel, c, NoPc)
    BY <1>0, <2>1, PassedReachesExit DEF ReachesExit, Avoids
  <2>4. Avoids(kernel, c, b)
    BY <1>0, <1>10, <2>1, <2>2, <2>3, PassesAntisymmetrically
  <2>5. b \notin postdom[c] /\ b \in postdom[b]
    BY <1>10, <2>1, <2>4 DEF Exact, PostDominates, Avoids
  <2>6. postdom[c] \subseteq postdom[b]
    <3> SUFFICES ASSUME NEW e \in postdom[c] PROVE e \in postdom[b]
      OBVIOUS
    <3>1. e \in Nodes
      BY <1>0, <1>2, <2>1
    <3>2. CASE e = c
      BY <3>2
    <3>3. CASE e # c
      <4>1. ~Avoids(kernel, c, e)
        BY <2>1, <3>1, <3>3 DEF Exact, PostDominates, Avoids
      <4>2. ~Avoids(kernel, b, e)
        BY <1>0, <2>1, <2>2, <3>3, <4>1, PassesTransitively
      <4> QED BY <2>1, <3>1, <4>2 DEF Exact, PostDominates, Avoids
    <3> QED BY <3>2, <3>3
  <2>7. Cardinality(postdom[c]) < Cardinality(postdom[b])
    <3>1. IsFiniteSet(postdom[b]) /\ postdom[c] \in SUBSET postdom[b] /\ postdom[c] # postdom[b]
      BY <1>4, <2>1, <2>5, <2>6
    <3>2. /\ Cardinality(postdom[c]) <= Cardinality(postdom[b])
          /\ Cardinality(postdom[b]) # Cardinality(postdom[c])
      BY <3>1, FS_Subset
    <3> QED BY <1>4, <2>1, <3>2
  <2>8. d <= Big - Cardinality(postdom[b])
    BY <1>8, <1>10
  <2>9. Cardinality(postdom[b]) \in Nat /\ Cardinality(postdom[c]) \in Nat
    BY <1>4, <2>1
  <2> HIDE DEF T
  <2> QED BY <1>5, <1>9, <2>7, <2>8, <2>9
<1> QED BY <1>9, <1>10 DEF Immediates

LEMMA MinIsOne ==
    ASSUME TypeOK, NEW pc \in Nodes, Immediates(pc) # {}
    PROVE  Min(Immediates(pc)) \in Immediates(pc) /\ Min(Immediates(pc)) \in Nodes
<1>1. Immediates(pc) \subseteq Nodes /\ Nodes \subseteq Nat
  BY KernelFacts DEF Immediates, Candidates, TypeOK
<1>2. \E x \in Immediates(pc) : \A y \in Immediates(pc) : x <= y
  BY <1>1, NatMin
<1> QED BY <1>1, <1>2 DEF Min
-----------------------------------------------------------------------------
(* The steps.                                                              *)

LEMMA InitOK == Init => IInv
<1> SUFFICES ASSUME Init PROVE IInv
  OBVIOUS
<1>1. IsImage(kernel) /\ kernel.n \in Nat
  BY ImagesAssumption DEF Init, IsImage
<1>2. TypeOK
  BY <1>1 DEF Init, TypeOK, Nodes
<1>3. PhaseOK /\ StableOK /\ SweepOK /\ ItersOK
  BY <1>1 DEF Init, PhaseOK, StableOK, SweepOK, ItersOK, ExitNode
<1>4. ShapeOK
  <2>1. postdom[ExitNode] = {ExitNode}
    BY <1>1 DEF Init, ExitNode
  <2>2. ASSUME GoodCfg(kernel), NEW x \in Nodes, NEW m \in Nodes, m \notin postdom[x]
        PROVE  Avoids(kernel, x, m)
    <3>1. x = kernel.n /\ m # kernel.n
      BY <1>1, <2>2 DEF Init, Nodes
    <3> QED BY <2>2, <3>1, AvoidsAtExit
  <2> QED BY <2>1, <2>2 DEF ShapeOK
<1>5. ResultOK
  BY <1>1 DEF Init, ResultOK, ReconvIsIpdom
<1> QED BY <1>2, <1>3, <1>4, <1>5 DEF IInv

\* What a step that leaves the kernel and the sets alone keeps.
LEMMA SameSets ==
    ASSUME UNCHANGED <<kernel, postdom>>
    PROVE  /\ Nodes' = Nodes /\ ExitNode' = ExitNode
           /\ ShapeOK' <=> ShapeOK
           /\ \A x : Settled(x)' <=> Settled(x)
BY DEF Nodes, ExitNode, ShapeOK, Settled, NewSet

LEMMA BuildCfgStep == IInv /\ BuildCfg => IInv'
<1> SUFFICES ASSUME IInv, BuildCfg PROVE IInv'
  OBVIOUS
<1>1. UNCHANGED <<kernel, postdom, node, changed, iters, reconv>> /\ phase = "build"
  BY DEF BuildCfg, Fail
<1>2. Nodes' = Nodes /\ ExitNode' = ExitNode /\ ShapeOK'
  BY <1>1, SameSets DEF IInv
<1>3. phase' \in {"sweep", "failed"} /\ diag' \in {"none", "E_RECONV_INVALID", diag}
      /\ diag' # "E_RECONV_MISS"
  BY <1>1 DEF BuildCfg, Fail, IInv, PhaseOK
<1>4. IsImage(kernel) /\ kernel.n \in Nat
  BY KernelFacts DEF IInv
<1>5. phase' = "sweep" => GoodCfg(kernel)
  BY <1>4, AcceptedIsGood DEF BuildCfg, Fail
<1>6. iters = 0 /\ node = ExitNode /\ changed
  BY <1>1 DEF IInv, PhaseOK
<1>7. TypeOK'
  BY <1>1, <1>2, <1>3 DEF IInv, TypeOK
<1>8. PhaseOK'
  BY <1>1, <1>3, <1>5 DEF PhaseOK
<1>9. StableOK' /\ ItersOK'
  BY <1>1, <1>3, <1>4, <1>6 DEF StableOK, ItersOK
<1>10. SweepOK'
  <2>1. ASSUME NEW m \in Nodes, NEW x \in Nodes, x \in Level(kernel, m)[0]
        PROVE  m \notin postdom[x]
    <3>1. x = kernel.n /\ x # m
      BY <1>4, <2>1, LevelExists DEF IsLevel
    <3> QED BY <3>1 DEF IInv, ShapeOK, ExitNode
  <2> QED BY <1>1, <1>2, <1>6, <2>1 DEF SweepOK
<1>11. ResultOK'
  BY <1>1, <1>3 DEF IInv, ResultOK, ReconvIsIpdom
<1> QED BY <1>2, <1>7, <1>8, <1>9, <1>10, <1>11 DEF IInv

LEMMA StartSweepStep == IInv /\ StartSweep => IInv'
<1> SUFFICES ASSUME IInv, StartSweep PROVE IInv'
  OBVIOUS
<1>1. IsImage(kernel) /\ kernel.n \in Nat /\ Nodes \subseteq Nat /\ iters \in Nat /\ 0 \in Nodes
  BY KernelFacts DEF IInv, TypeOK, Nodes
<1>2. phase = "sweep" /\ node = ExitNode /\ changed /\ GoodCfg(kernel)
  BY DEF StartSweep, IInv, PhaseOK
<1>3. iters + 1 <= kernel.n + 2
  BY <1>1, <1>2 DEF IInv, ItersOK
<1>4. /\ iters' = iters + 1 /\ changed' = FALSE /\ node' = 0
      /\ UNCHANGED <<kernel, phase, postdom, reconv, diag>>
  BY <1>1, <1>3 DEF StartSweep, MaxIters
<1>5. Nodes' = Nodes /\ ExitNode' = ExitNode /\ ShapeOK'
  BY <1>4, SameSets DEF IInv
<1>6. TypeOK'
  <2>1. iters' \in Nat /\ node' \in Nodes'
    BY <1>1, <1>4, <1>5
  <2>2. changed' \in BOOLEAN
    BY <1>4
  <2> QED BY <1>4, <1>5, <2>1, <2>2 DEF IInv, TypeOK
<1>7. PhaseOK' /\ ItersOK'
  BY <1>1, <1>2, <1>3, <1>4 DEF IInv, PhaseOK, ItersOK
<1>8. StableOK'
  BY <1>1, <1>2, <1>4 DEF StableOK
<1>9. SweepOK'
  <2> SUFFICES ASSUME NEW m \in Nodes, NEW x \in Nodes
               PROVE  /\ (x < 0 \/ x = ExitNode) /\ x \in Level(kernel, m)[iters + 1]
                           => m \notin postdom[x]
                      /\ x \in Level(kernel, m)[iters] => m \notin postdom[x]
    <3>1. iters' = iters + 1 /\ iters' # 0 /\ iters' - 1 = iters
      BY <1>1, <1>4
    <3> QED BY <1>4, <1>5, <3>1 DEF SweepOK
  <2>1. x \in Nat /\ (x < node \/ x = ExitNode)
    BY <1>1, <1>2 DEF Nodes, ExitNode
  <2>2. x \in Level(kernel, m)[iters] => m \notin postdom[x]
    BY <1>2, <2>1 DEF IInv, SweepOK
  <2>3. ASSUME x = ExitNode, x \in Level(kernel, m)[iters + 1] PROVE m \notin postdom[x]
    <3>1. m \notin Level(kernel, m)[iters + 1]
      BY <1>1, <1>2, LevelStep
    <3> QED BY <2>3, <3>1 DEF IInv, ShapeOK
  <2> QED BY <2>1, <2>2, <2>3
<1>10. ResultOK'
  BY <1>2, <1>4 DEF IInv, ResultOK, ReconvIsIpdom
<1> QED BY <1>5, <1>6, <1>7, <1>8, <1>9, <1>10 DEF IInv

\* What a visit takes out of a set.
LEMMA NewSetIs ==
    ASSUME TypeOK, GoodCfg(kernel), NEW i \in 0 .. kernel.n - 1, NEW m \in Nodes
    PROVE  m \notin NewSet(i) <=> m # i /\ \E s \in Succ(kernel, i) : m \notin postdom[s]
BY DEF NewSet

LEMMA VisitNodeStep == IInv /\ VisitNode => IInv'
<1> SUFFICES ASSUME IInv, VisitNode PROVE IInv'
  OBVIOUS
<1>1. /\ TypeOK /\ kernel.n \in Nat /\ Nodes \subseteq Nat /\ iters \in Nat
      /\ 0 .. kernel.n - 1 \subseteq Nodes
      /\ \A x \in Nodes : x = ExitNode \/ x \in 0 .. kernel.n - 1
  BY KernelFacts DEF IInv, TypeOK
<1>2. phase = "sweep" /\ GoodCfg(kernel) /\ node \in 0 .. kernel.n - 1 /\ node + 1 \in Nodes
      /\ node \in Nodes /\ node # ExitNode
  BY <1>1 DEF VisitNode, IInv, PhaseOK, TypeOK, Nodes, ExitNode
<1>3. \A s \in Succ(kernel, node) : s \in Nodes
  BY <1>2 DEF GoodCfg, Nodes
<1>4. /\ postdom' = [postdom EXCEPT ![node] = NewSet(node)]
      /\ changed' = (changed \/ NewSet(node) # postdom[node])
      /\ node' = node + 1 /\ UNCHANGED <<kernel, phase, iters, reconv, diag>>
  BY DEF VisitNode
<1>5. Nodes' = Nodes /\ ExitNode' = ExitNode
  BY <1>4 DEF Nodes, ExitNode
<1>6. NewSet(node) \subseteq Nodes
  BY <1>2 DEF NewSet
<1>7. /\ postdom'[node] = NewSet(node)
      /\ \A x \in Nodes : x # node => postdom'[x] = postdom[x]
  BY <1>1, <1>2, <1>4 DEF TypeOK
<1>8. TypeOK'
  <2>1. postdom' \in [Nodes -> SUBSET Nodes]
    BY <1>1, <1>4, <1>6 DEF TypeOK
  <2> QED BY <1>1, <1>2, <1>4, <1>5, <2>1 DEF TypeOK
<1>9. PhaseOK'
  BY <1>2, <1>4 DEF IInv, PhaseOK
<1>10. ShapeOK'
  <2>1. postdom'[ExitNode] = {ExitNode}
    BY <1>2, <1>7, KernelFacts, <1>1 DEF IInv, ShapeOK
  <2>2. ASSUME NEW x \in Nodes, NEW m \in Nodes, m \notin postdom'[x]
        PROVE  Avoids(kernel, x, m)
    <3>1. CASE x = node
      <4>1. PICK s \in Succ(kernel, node) : m # node /\ m \notin postdom[s]
        BY <1>1, <1>2, <1>7, <2>2, <3>1, NewSetIs
      <4>2. Avoids(kernel, s, m)
        BY <1>2, <1>3, <4>1 DEF IInv, ShapeOK
      <4> QED BY <1>2, <3>1, <4>1, <4>2, AvoidsBack
    <3>2. CASE x # node
      BY <1>2, <1>7, <2>2, <3>2 DEF IInv, ShapeOK
    <3> QED BY <3>1, <3>2
  <2> QED BY <1>4, <1>5, <2>1, <2>2 DEF ShapeOK
\* The first sweep has begun, and the point visited has the sets of its
\* successors right about all paths of at most iters - 1 edges.
<1>11. iters - 1 \in Nat /\ (iters - 1) + 1 = iters
  BY <1>1, <1>2 DEF IInv, SweepOK
<1>12. ASSUME NEW m \in Nodes, node \in Level(kernel, m)[iters]
       PROVE  m \notin NewSet(node)
  <2>1. PICK s \in Succ(kernel, node) : node # m /\ s \in Level(kernel, m)[iters - 1]
    BY <1>2, <1>11, <1>12, LevelStep DEF ExitNode
  <2>2. m \notin postdom[s]
    BY <1>2, <1>3, <1>11, <2>1 DEF IInv, SweepOK
  <2> QED BY <1>1, <1>2, <2>1, <2>2, NewSetIs
<1>13. SweepOK'
  <2> SUFFICES ASSUME NEW m \in Nodes, NEW x \in Nodes
               PROVE  /\ (x < node + 1 \/ x = ExitNode) /\ x \in Level(kernel, m)[iters]
                           => m \notin postdom'[x]
                      /\ x \in Level(kernel, m)[iters - 1] => m \notin postdom'[x]
    BY <1>1, <1>4, <1>5, <1>11 DEF SweepOK
  <2>1. CASE x = node
    <3>1. x \in Level(kernel, m)[iters - 1] => x \in Level(kernel, m)[iters]
      BY <1>2, <1>11, LevelStep
    <3> QED BY <1>7, <1>12, <2>1, <3>1
  <2>2. CASE x # node
    <3>1. postdom'[x] = postdom[x] /\ (x < node + 1 => x < node)
      BY <1>1, <1>2, <1>7, <2>2
    <3>2. /\ (x < node \/ x = ExitNode) /\ x \in Level(kernel, m)[iters] => m \notin postdom[x]
          /\ x \in Level(kernel, m)[iters - 1] => m \notin postdom[x]
      BY <1>2, <1>11 DEF IInv, SweepOK
    <3> QED BY <3>1, <3>2
  <2> QED BY <2>1, <2>2
<1>14. StableOK'
  <2> SUFFICES ASSUME ~changed', NEW x \in 0 .. kernel.n - 1, x < node + 1 PROVE Settled(x)'
    BY <1>2, <1>4 DEF StableOK
  <2>1. ~changed /\ NewSet(node) = postdom[node]
    BY <1>4
  <2>2. postdom' = postdom
    BY <1>1, <1>2, <1>4, <2>1 DEF TypeOK
  <2>3. Settled(x)' <=> Settled(x)
    BY <1>4, <2>2, SameSets
  <2>4. x = node \/ x < node
    BY <1>1, <1>2
  <2> QED BY <1>2, <2>1, <2>3, <2>4 DEF IInv, StableOK, Settled
<1>15. ItersOK'
  <2> SUFFICES ASSUME iters = kernel.n + 2 PROVE NewSet(node) = postdom[node]
    BY <1>2, <1>4 DEF IInv, ItersOK
  <2>1. \A x, m \in Nodes : m \notin postdom[x] <=> Avoids(kernel, x, m)
    <3> SUFFICES ASSUME NEW x \in Nodes, NEW m \in Nodes, Avoids(kernel, x, m)
                 PROVE  m \notin postdom[x]
      BY <1>2 DEF IInv, ShapeOK
    <3>1. x \in Level(kernel, m)[kernel.n + 1]
      BY <1>2, LevelsEnd DEF Nodes
    <3>2. kernel.n + 1 = iters - 1
      BY <1>1
    <3> QED BY <1>2, <1>11, <3>1, <3>2 DEF IInv, SweepOK
  <2>2. ASSUME NEW m \in Nodes PROVE m \notin NewSet(node) <=> m \notin postdom[node]
    <3>1. CASE m \notin NewSet(node)
      <4>1. PICK s \in Succ(kernel, node) : m # node /\ m \notin postdom[s]
        BY <1>1, <1>2, <3>1, NewSetIs
      <4>2. Avoids(kernel, node, m)
        BY <1>2, <1>3, <2>1, <4>1, AvoidsBack
      <4> QED BY <1>2, <2>1, <3>1, <4>2
    <3>2. CASE m \notin postdom[node]
      <4>1. Avoids(kernel, node, m) /\ node \in 0 .. kernel.n
        BY <1>2, <2>1, <3>2 DEF Nodes
      <4>2. PICK s \in Succ(kernel, node) : Avoids(kernel, s, m)
        BY <1>2, <4>1, AvoidsForth
      <4>3. m # node
        BY <1>2, <4>1, AvoidsElsewhere
      <4> QED BY <1>1, <1>2, <1>3, <2>1, <3>2, <4>2, <4>3, NewSetIs
    <3> QED BY <3>1, <3>2
  <2>3. postdom[node] \subseteq Nodes
    BY <1>1, <1>2 DEF TypeOK
  <2> QED BY <1>6, <2>2, <2>3
<1>16. ResultOK'
  BY <1>2, <1>4 DEF IInv, ResultOK, ReconvIsIpdom
<1> QED BY <1>8, <1>9, <1>10, <1>13, <1>14, <1>15, <1>16 DEF IInv

LEMMA EndSweepsStep == IInv /\ EndSweeps => IInv'
<1> SUFFICES ASSUME IInv, EndSweeps PROVE IInv'
  OBVIOUS
<1>1. IsImage(kernel) /\ kernel.n \in Nat /\ iters \in Nat /\ 0 \in Nodes
  BY KernelFacts DEF IInv, TypeOK, Nodes
<1>2. /\ phase = "sweep" /\ node = ExitNode /\ ~changed /\ GoodCfg(kernel)
      /\ phase' = "ipdom" /\ node' = 0
      /\ UNCHANGED <<kernel, postdom, changed, iters, reconv, diag>>
  BY DEF EndSweeps, IInv, PhaseOK
<1>3. Nodes' = Nodes /\ ExitNode' = ExitNode /\ ShapeOK' /\ \A x : Settled(x)' <=> Settled(x)
  BY <1>2, SameSets DEF IInv
<1>4. TypeOK' /\ PhaseOK' /\ SweepOK' /\ ItersOK'
  BY <1>1, <1>2, <1>3 DEF IInv, TypeOK, PhaseOK, SweepOK, ItersOK
<1>5. StableOK'
  <2>1. \A x \in 0 .. kernel.n - 1 : Settled(x)
    BY <1>1, <1>2 DEF IInv, StableOK, ExitNode
  <2> QED BY <1>2, <1>3, <2>1 DEF StableOK
<1>6. ResultOK'
  BY <1>1, <1>2 DEF IInv, ResultOK, ReconvIsIpdom
<1> QED BY <1>3, <1>4, <1>5, <1>6 DEF IInv

LEMMA FindIpdomStep == IInv /\ FindIpdom => IInv'
<1> SUFFICES ASSUME IInv, FindIpdom PROVE IInv'
  OBVIOUS
<1>1. /\ TypeOK /\ kernel.n \in Nat /\ iters \in Nat /\ Nodes \subseteq Nat
      /\ NoPc \notin Nat
  BY KernelFacts DEF IInv, TypeOK, NoPc
<1>2. /\ phase = "ipdom" /\ node \in 0 .. kernel.n - 1 /\ node \in Nodes
      /\ node + 1 \in Nodes /\ GoodCfg(kernel)
  BY <1>1 DEF FindIpdom, IInv, PhaseOK, TypeOK, Nodes, ExitNode
<1>3. Exact
  BY <1>1, <1>2, SettledIsExact DEF IInv, StableOK
<1> DEFINE pb == IsPredBra(kernel.insts[node])
<1>4. CASE pb /\ Immediates(node) = {}
  <2>1. /\ phase' = "failed" /\ diag' = "E_RECONV_MISS"
        /\ UNCHANGED <<kernel, postdom, node, changed, reconv, iters>>
    BY <1>4 DEF FindIpdom, Fail
  <2>2. Nodes' = Nodes /\ ExitNode' = ExitNode /\ ShapeOK'
    BY <2>1, SameSets DEF IInv
  <2>3. ~ReachesExit(kernel, node)
    BY <1>1, <1>2, <1>3, <1>4, ImmediateExists
  <2>4. TypeOK' /\ PhaseOK' /\ StableOK' /\ SweepOK' /\ ItersOK'
    BY <1>1, <2>1, <2>2 DEF IInv, TypeOK, PhaseOK, StableOK, SweepOK, ItersOK
  <2>5. ResultOK'
    BY <1>2, <1>4, <2>1, <2>3 DEF IInv, ResultOK, ReconvIsIpdom
  <2> QED BY <2>2, <2>4, <2>5 DEF IInv
<1>5. CASE ~(pb /\ Immediates(node) = {})
  <2>1. /\ reconv' = IF pb THEN [reconv EXCEPT ![node] = Min(Immediates(node))] ELSE reconv
        /\ node' = node + 1
        /\ UNCHANGED <<kernel, phase, postdom, changed, iters, diag>>
    BY <1>5 DEF FindIpdom
  <2>2. Nodes' = Nodes /\ ExitNode' = ExitNode /\ ShapeOK' /\ \A x : Settled(x)' <=> Settled(x)
    BY <2>1, SameSets DEF IInv
  <2>3. ASSUME pb
        PROVE  /\ reconv'[node] \in Immediates(node) /\ reconv'[node] \in Nodes
               /\ reconv' \in [0 .. kernel.n - 1 -> Nodes \cup {NoPc}]
               /\ \A pc \in 0 .. kernel.n - 1 : pc # node => reconv'[pc] = reconv[pc]
    <3>1. Min(Immediates(node)) \in Immediates(node) /\ Min(Immediates(node)) \in Nodes
      BY <1>1, <1>2, <1>5, <2>3, MinIsOne
    <3>2. reconv \in [0 .. kernel.n - 1 -> Nodes \cup {NoPc}]
      BY DEF IInv, TypeOK
    <3>3. reconv' = [reconv EXCEPT ![node] = Min(Immediates(node))]
      BY <2>1, <2>3
    <3> QED BY <1>2, <3>1, <3>2, <3>3
  <2>4. TypeOK'
    <3>1. reconv' \in [0 .. kernel.n - 1 -> Nodes \cup {NoPc}]
      <4>1. CASE pb
        BY <2>3, <4>1
      <4>2. CASE ~pb
        BY <2>1, <4>2 DEF IInv, TypeOK
      <4> QED BY <4>1, <4>2
    <3> QED BY <1>2, <2>1, <2>2, <3>1 DEF IInv, TypeOK
  <2>5. PhaseOK' /\ SweepOK' /\ ItersOK'
    BY <1>2, <2>1, <2>2 DEF IInv, PhaseOK, SweepOK, ItersOK
  <2>6. StableOK'
    BY <1>2, <2>1, <2>2 DEF IInv, StableOK
  <2>7. ResultOK'
    <3> SUFFICES ASSUME NEW pc \in 0 .. kernel.n - 1
                 PROVE  /\ reconv'[pc] # NoPc /\ ReachesExit(kernel, pc)
                             => IsIpdom(kernel, reconv'[pc], pc)
                        /\ reconv'[pc] # NoPc => IsPredBra(kernel.insts[pc])
                        /\ pc < node + 1 /\ IsPredBra(kernel.insts[pc]) => reconv'[pc] # NoPc
      BY <1>2, <2>1, <2>2 DEF IInv, ResultOK, ReconvIsIpdom
    <3>1. CASE pc = node /\ pb
      <4>1. ReachesExit(kernel, pc) => IsIpdom(kernel, reconv'[pc], pc)
        BY <1>1, <1>2, <1>3, <2>3, <3>1, ImmediateIsIpdom
      <4> QED BY <1>1, <2>3, <3>1, <4>1
    <3>2. CASE ~(pc = node /\ pb)
      <4>1. reconv'[pc] = reconv[pc]
        BY <2>1, <2>3, <3>2
      <4>2. pc < node + 1 /\ IsPredBra(kernel.insts[pc]) => pc < node
        BY <1>1, <1>2, <3>2
      <4> QED BY <1>2, <4>1, <4>2 DEF IInv, ResultOK, ReconvIsIpdom
    <3> QED BY <3>1, <3>2
  <2> QED BY <2>2, <2>4, <2>5, <2>6, <2>7 DEF IInv
<1> QED BY <1>4, <1>5

LEMMA FinishStep == IInv /\ Finish => IInv'
<1> SUFFICES ASSUME IInv, Finish PROVE IInv'
  OBVIOUS
<1>1. /\ phase = "ipdom" /\ phase' = "done" /\ node = ExitNode
      /\ UNCHANGED <<kernel, postdom, node, changed, iters, reconv, diag>>
  BY DEF Finish
<1>2. Nodes' = Nodes /\ ExitNode' = ExitNode /\ ShapeOK' /\ \A x : Settled(x)' <=> Settled(x)
  BY <1>1, SameSets DEF IInv
<1>3. TypeOK' /\ PhaseOK' /\ StableOK' /\ SweepOK' /\ ItersOK'
  BY <1>1, <1>2 DEF IInv, TypeOK, PhaseOK, StableOK, SweepOK, ItersOK
<1>4. ResultOK'
  BY <1>1, <1>2 DEF IInv, ResultOK, ReconvIsIpdom
<1> QED BY <1>2, <1>3, <1>4 DEF IInv

LEMMA StutterStep == IInv /\ UNCHANGED vars => IInv'
<1> SUFFICES ASSUME IInv, UNCHANGED vars PROVE IInv'
  OBVIOUS
<1>1. UNCHANGED <<kernel, phase, postdom, node, changed, iters, reconv, diag>>
  BY DEF vars
<1>2. Nodes' = Nodes /\ ExitNode' = ExitNode /\ ShapeOK' /\ \A x : Settled(x)' <=> Settled(x)
  BY <1>1, SameSets DEF IInv
<1>3. TypeOK' /\ PhaseOK' /\ StableOK' /\ SweepOK' /\ ItersOK'
  BY <1>1, <1>2 DEF IInv, TypeOK, PhaseOK, StableOK, SweepOK, ItersOK
<1>4. ResultOK'
  BY <1>1, <1>2 DEF IInv, ResultOK, ReconvIsIpdom
<1> QED BY <1>2, <1>3, <1>4 DEF IInv

-----------------------------------------------------------------------------
(* The theorems.                                                           *)

(* Throughout an analysis, for any kernel: every point removed from a set  *)
(* has a path that avoids it, a set settled in an unchanged sweep stays    *)
(* settled, and after j sweeps of update in place the sets are right about *)
(* all paths of at most j edges.                                           *)
THEOREM Invariance == Spec => []IInv
<1>1. IInv /\ [Next]_vars => IInv'
  BY BuildCfgStep, StartSweepStep, VisitNodeStep, EndSweepsStep, FindIpdomStep, FinishStep,
     StutterStep DEF Next, Terminated
<1> QED BY <1>1, InitOK, PTL DEF Spec

(* The loop over the sets in analyze_control_flow stops with the           *)
(* post-dominators of the kernel, whatever its graph and however its nodes *)
(* are numbered.                                                           *)
THEOREM SetsArePostDominators == Spec => []FixpointIsPostDominance
<1>1. IInv => FixpointIsPostDominance
  <2> SUFFICES ASSUME IInv, phase = "ipdom", NEW pc \in Nodes
               PROVE  postdom[pc] = {m \in Nodes : PostDominates(kernel, m, pc)}
    BY DEF FixpointIsPostDominance
  <2>1. Exact
    BY SettledIsExact DEF IInv, PhaseOK, StableOK
  <2>2. postdom[pc] \subseteq Nodes
    BY DEF IInv, TypeOK
  <2> QED BY <2>1, <2>2 DEF Exact
<1> QED BY <1>1, Invariance, PTL

(* The pc that the analysis stores in reconv_pc for a predicated BRA is    *)
(* the branch's immediate post-dominator: the first point that all its     *)
(* paths to the exit share.  There is only one (IpdomIsUnique): the code   *)
(* takes the smallest candidate, but has no choice to make.                *)
THEOREM ReconvergenceIsIpdom == Spec => []ReconvIsIpdom
<1>1. IInv => ReconvIsIpdom
  BY DEF IInv, ResultOK
<1> QED BY <1>1, Invariance, PTL

(* A kernel with valid targets whose predicated BRAs can reach the exit is *)
(* accepted, every predicated BRA of an accepted kernel has its            *)
(* reconvergence point, and the iteration ends within n + 2 sweeps, far    *)
(* from max_iters.                                                         *)
THEOREM ExitingKernelsAreAccepted == Spec => []AcceptsExitingKernels
<1>1. IInv => AcceptsExitingKernels
  BY KernelFacts DEF IInv, ItersOK, ResultOK, AcceptsExitingKernels, ExitNode
<1> QED BY <1>1, Invariance, PTL

(* The analysis never stops for want of convergence: once the graph is     *)
(* built, E_RECONV_INVALID is not raised any more.                         *)
THEOREM IterationConverges == Spec => [][phase = "sweep" => phase' # "failed"]_vars
<1>1. IInv /\ [Next]_vars => [phase = "sweep" => phase' # "failed"]_vars
  <2> SUFFICES ASSUME IInv, Next, phase = "sweep" PROVE phase' # "failed"
    OBVIOUS
  <2>1. CASE StartSweep
    <3>1. kernel.n \in Nat /\ iters \in Nat /\ iters <= kernel.n + 2
      BY KernelFacts DEF IInv, TypeOK, ItersOK
    <3>2. MaxIters \in Nat /\ iters + 1 <= MaxIters
      BY <3>1 DEF MaxIters
    <3> QED BY <2>1, <3>1, <3>2 DEF StartSweep
  <2>2. CASE VisitNode \/ EndSweeps
    BY <2>2 DEF VisitNode, EndSweeps
  <2>3. ~BuildCfg /\ ~FindIpdom /\ ~Finish /\ ~Terminated
    BY DEF BuildCfg, FindIpdom, Finish, Terminated
  <2> QED BY <2>1, <2>2, <2>3 DEF Next
<1> QED BY <1>1, Invariance, PTL DEF Spec
\* A table added to a kernel does not change its paths.
LEMMA TableKeepsPaths ==
    ASSUME NEW k, GoodCfg(k), NEW t, t.n = k.n, t.insts = k.insts
    PROVE  /\ \A pc : BadTarget(t, pc) <=> BadTarget(k, pc)
           /\ \A pc \in 0 .. k.n : ReachesExit(t, pc) <=> ReachesExit(k, pc)
           /\ \A m, pc \in 0 .. k.n : IsIpdom(t, m, pc) <=> IsIpdom(k, m, pc)
<1>1. \A pc : BadTarget(t, pc) <=> BadTarget(k, pc)
  BY DEF BadTarget
<1>2. \A x : Succ(t, x) = Succ(k, x)
  BY DEF Succ
<1>3. GoodCfg(t) /\ \A m, D : Closed(t, m, D) <=> Closed(k, m, D)
  BY <1>2 DEF GoodCfg, Closed
<1>4. ASSUME NEW pc \in 0 .. k.n, NEW m PROVE ReachAvoiding(t, pc, m) = ReachAvoiding(k, pc, m)
  <2> DEFINE A == ReachAvoiding(k, pc, m)
             B == ReachAvoiding(t, pc, m)
  <2>1. {pc} \ {m} \subseteq A /\ Closed(k, m, A)
        /\ \A D : {pc} \ {m} \subseteq D /\ Closed(k, m, D) => A \subseteq D
    BY ReachIsLeast
  <2>2. {pc} \ {m} \subseteq B /\ Closed(t, m, B)
        /\ \A D : {pc} \ {m} \subseteq D /\ Closed(t, m, D) => B \subseteq D
    BY <1>3, ReachIsLeast
  <2> HIDE DEF A, B
  <2>3. A = B
    BY <1>3, <2>1, <2>2
  <2> QED BY <2>3 DEF A, B
<1>5. \A m, pc \in 0 .. k.n : PostDominates(t, m, pc) <=> PostDominates(k, m, pc)
  BY <1>4 DEF PostDominates
<1>6. \A pc \in 0 .. k.n : StrictPostDoms(t, pc) = StrictPostDoms(k, pc)
  BY <1>5 DEF StrictPostDoms
<1>7. \A m, pc \in 0 .. k.n : IsIpdom(t, m, pc) <=> IsIpdom(k, m, pc)
  <2>1. \A pc \in 0 .. k.n : StrictPostDoms(k, pc) \subseteq 0 .. k.n
    BY DEF StrictPostDoms
  <2> QED BY <1>5, <1>6, <2>1 DEF IsIpdom
<1> QED BY <1>1, <1>4, <1>7 DEF ReachesExit

(* A kernel that analyze_control_flow accepts, with the table it returns,  *)
(* is one that SimtWarp assumes: the executor's two assumptions about its  *)
(* kernels are what the analysis guarantees.                               *)
THEOREM AcceptedKernelsRun ==
    Spec => [](phase = "done" =>
                 LET k == [n |-> kernel.n, insts |-> kernel.insts, reconv |-> reconv]
                 IN  KernelOK(k) /\ Analysed(k))
<1> DEFINE k == [n |-> kernel.n, insts |-> kernel.insts, reconv |-> reconv]
           Accepted == phase \in {"sweep", "ipdom", "done"} =>
                         \A pc \in 0 .. kernel.n - 1 : ~BadTarget(kernel, pc)
<1>1. Init => Accepted
  BY DEF Init
<1>2. Accepted /\ [Next]_vars => Accepted'
  BY DEF Next, vars, BuildCfg, StartSweep, VisitNode, EndSweeps, FindIpdom, Finish, Terminated, Fail
<1>3. IInv /\ Accepted /\ phase = "done" => KernelOK(k) /\ Analysed(k)
  <2> SUFFICES ASSUME IInv, Accepted, phase = "done" PROVE KernelOK(k) /\ Analysed(k)
    OBVIOUS
  <2>1. k.n = kernel.n /\ k.insts = kernel.insts /\ k.reconv = reconv
    OBVIOUS
  <2>2. TypeOK /\ ReconvIsIpdom /\ AcceptsExitingKernels /\ IsImage(kernel) /\ GoodCfg(kernel)
    BY KernelFacts DEF IInv, PhaseOK, ItersOK, ResultOK, AcceptsExitingKernels, ExitNode
  <2> HIDE DEF k
  <2>3. KernelOK(k)
    BY <2>1, <2>2 DEF KernelOK, IsImage, TypeOK, Nodes, AcceptsExitingKernels
  <2>4. /\ \A pc : BadTarget(k, pc) <=> BadTarget(kernel, pc)
        /\ \A pc \in 0 .. kernel.n : ReachesExit(k, pc) <=> ReachesExit(kernel, pc)
        /\ \A m, pc \in 0 .. kernel.n : IsIpdom(k, m, pc) <=> IsIpdom(kernel, m, pc)
    BY <2>1, <2>2, TableKeepsPaths
  <2>5. ASSUME NEW pc \in 0 .. k.n - 1, pc \in 0 .. k.n
        PROVE  /\ ~BadTarget(k, pc)
               /\ IsPredBra(k.insts[pc]) /\ ReachesExit(k, pc) => IsIpdom(k, k.reconv[pc], pc)
    <3>1. ~BadTarget(k, pc)
      BY <2>4, <2>1 DEF Accepted
    <3>2. ASSUME IsPredBra(k.insts[pc]), ReachesExit(k, pc) PROVE IsIpdom(k, k.reconv[pc], pc)
      <4>1. reconv[pc] # NoPc
        BY <2>1, <2>2, <3>2 DEF AcceptsExitingKernels
      <4>2. ReachesExit(kernel, pc)
        BY <2>4, <2>1, <2>5, <3>2
      <4>3. IsIpdom(kernel, reconv[pc], pc) /\ reconv[pc] \in 0 .. kernel.n
        BY <2>1, <2>2, <4>1, <4>2 DEF ReconvIsIpdom, IsIpdom, StrictPostDoms
      <4> QED BY <2>4, <2>1, <2>5, <4>3
    <3> QED BY <3>1, <3>2
  <2>6. \A pc \in 0 .. k.n - 1 : pc \in 0 .. k.n
    BY <2>1, <2>2 DEF IsImage
  <2> QED BY <2>3, <2>5, <2>6 DEF Analysed
<1> HIDE DEF k, Accepted
<1>4. Spec => [](phase = "done" => KernelOK(k) /\ Analysed(k))
  BY <1>1, <1>2, <1>3, Invariance, PTL DEF Spec
<1> QED BY <1>4 DEF k
=============================================================================
