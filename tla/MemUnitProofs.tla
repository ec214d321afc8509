---------------------------- MODULE MemUnitProofs ----------------------------
(***************************************************************************)
(* For every launch: the lanes the memory unit serves are the threads of   *)
(* the grid, each once; a thread's window of local memory is its own as    *)
(* long as the accesses of the workers do not race; and no load returns a  *)
(* torn word.                                                              *)
(***************************************************************************)
EXTENDS MemUnit, WellFoundedInduction, TLAPS

-----------------------------------------------------------------------------
(* Numbers written in mixed radix.                                         *)

LEMMA DivMod ==
    ASSUME NEW a \in Nat, NEW n \in Nat \ {0}
    PROVE  a \div n \in Nat /\ a % n \in 0 .. n - 1 /\ a = (a \div n) * n + (a % n)
BY SMT

LEMMA Digits ==
    ASSUME NEW n \in Nat \ {0}, NEW q \in Nat, NEW r \in 0 .. n - 1
    PROVE  /\ q * n + r \in Nat
           /\ (q * n + r) \div n = q /\ (q * n + r) % n = r
BY SMT

\* Dividing twice is dividing by the product.
DivTwice(a, n, m) == n * m \in Nat \ {0} /\ (a \div n) \div m = a \div (n * m)

LEMMA DivDiv ==
    ASSUME NEW a \in Nat, NEW n \in Nat \ {0}, NEW m \in Nat \ {0}
    PROVE  DivTwice(a, n, m)
BY SMT DEF DivTwice

(* A row that starts before another one ends before the other starts.      *)
LEMMA RowsApart ==
    ASSUME NEW a \in Nat, NEW b \in Nat, NEW n \in Nat, a < b
    PROVE  a * n \in Nat /\ b * n \in Nat /\ a * n + n <= b * n
<1>1. PICK d \in Nat : b = a + 1 + d
  BY b - a - 1 \in Nat
<1>2. b * n = a * n + n + d * n
  BY <1>1
<1>3. d * n \in Nat /\ a * n \in Nat
  OBVIOUS
<1> QED BY <1>2, <1>3

LEMMA SameDigits ==
    ASSUME NEW n \in Nat \ {0}, NEW q \in Nat, NEW r \in 0 .. n - 1,
           NEW u \in Nat, NEW v \in 0 .. n - 1, q * n + r = u * n + v
    PROVE  q = u /\ r = v
<1>1. q = (q * n + r) \div n /\ r = (q * n + r) % n
  BY Digits
<1>2. u = (u * n + v) \div n /\ v = (u * n + v) % n
  BY Digits
<1> QED BY <1>1, <1>2

(* A number below m rows of n starts in one of the m rows.                 *)
LEMMA InRow ==
    ASSUME NEW n \in Nat \ {0}, NEW m \in Nat, NEW a \in Nat
    PROVE  /\ m * n \in Nat
           /\ a < m * n <=> a \div n < m
<1>1. PICK q \in Nat, r \in 0 .. n - 1 : q = a \div n /\ r = a % n /\ a = q * n + r
  BY DivMod
<1>2. CASE q < m
  BY <1>1, <1>2, RowsApart
<1>3. CASE m < q
  BY <1>1, <1>3, RowsApart
<1>4. CASE m = q
  <2>1. PICK x \in Nat : x = q * n
    OBVIOUS
  <2> QED BY <1>1, <1>4, <2>1
<1> QED BY <1>1, <1>2, <1>3, <1>4

\* n is the number of the place x, y, z in an X by Y by Z box, x running fastest.
IsPlace(X, Y, Z, n, x, y, z) ==
    /\ n = (z * Y + y) * X + x /\ n < X * Y * Z
    /\ n % X = x /\ (n \div X) % Y = y /\ n \div (X * Y) = z

(* Three coordinates make one number, and the number gives them back.      *)
LEMMA Placed ==
    ASSUME NEW X \in Nat \ {0}, NEW Y \in Nat \ {0}, NEW Z \in Nat,
           NEW x \in 0 .. X - 1, NEW y \in 0 .. Y - 1, NEW z \in 0 .. Z - 1
    PROVE  \E n \in Nat : IsPlace(X, Y, Z, n, x, y, z)
<1>1. PICK m \in Nat : m = z * Y + y /\ m \div Y = z /\ m % Y = y
  BY Digits
<1>2. PICK n \in Nat : n = m * X + x /\ n \div X = m /\ n % X = x
  BY <1>1, Digits
<1>3. DivTwice(n, X, Y)
  BY DivDiv, Zenon
<1>4. X * Y \in Nat \ {0} /\ n \div (X * Y) = z
  BY <1>1, <1>2, <1>3, Zenon DEF DivTwice
<1>5. n < Z * (X * Y)
  BY <1>4, InRow
<1>6. Z * (X * Y) = X * Y * Z
  BY <1>4
<1>7. n = (z * Y + y) * X + x /\ (n \div X) % Y = y
  BY <1>1, <1>2, Zenon
<1> QED BY <1>2, <1>4, <1>5, <1>6, <1>7, Zenon DEF IsPlace

LEMMA Spotted ==
    ASSUME NEW X \in Nat \ {0}, NEW Y \in Nat \ {0}, NEW Z \in Nat,
           NEW n \in Nat, n < X * Y * Z
    PROVE  \E x \in 0 .. X - 1, y \in 0 .. Y - 1, z \in 0 .. Z - 1 : IsPlace(X, Y, Z, n, x, y, z)
<1>1. PICK m \in Nat, x \in 0 .. X - 1 : m = n \div X /\ x = n % X /\ n = m * X + x
  BY DivMod
<1>2. PICK z \in Nat, y \in 0 .. Y - 1 : z = m \div Y /\ y = m % Y /\ m = z * Y + y
  BY DivMod
<1>3. DivTwice(n, X, Y)
  BY DivDiv, Zenon
<1>4. X * Y \in Nat \ {0} /\ n \div (X * Y) = z
  BY <1>1, <1>2, <1>3, Zenon DEF DivTwice
<1>5. Z * (X * Y) = X * Y * Z
  BY <1>4
<1>6. z < Z
  BY <1>4, <1>5, InRow
<1>7. z \in 0 .. Z - 1
  BY <1>6
<1>8. n = (z * Y + y) * X + x /\ n % X = x /\ (n \div X) % Y = y
  BY <1>1, <1>2, Zenon
<1> QED BY <1>4, <1>7, <1>8, Zenon DEF IsPlace

-----------------------------------------------------------------------------
(* The geometry of a launch.                                               *)

Whole == Dim3(Nat \ {0}, Nat \ {0}, Nat \ {0})

\* The number of a coordinate, x running fastest, and the coordinate of a number.
Linear(d, id) == (id.z * d.y + id.y) * d.x + id.x
Spot(d, n)    == [x |-> n % d.x, y |-> (n \div d.x) % d.y, z |-> n \div (d.x * d.y)]

LEMMA BelowIs ==
    ASSUME NEW n \in Nat
    PROVE  Below(n) = 0 .. n - 1
BY DEF Below

(* A launch that is not refused has threads in every direction.            *)
LEMMA LaunchIsWhole ==
    ASSUME NEW l \in Launches, LaunchDiag(l) = "none"
    PROVE  /\ l.grid_dim \in Whole /\ l.block_dim \in Whole /\ l.warp_size \in Nat \ {0}
           /\ Volume(l.grid_dim) \in Nat \ {0} /\ ThreadsPerBlock(l) \in Nat \ {0}
<1>1. /\ l.grid_dim \in Dim3(Nat, Nat, Nat) /\ l.block_dim \in Dim3(Nat, Nat, Nat)
      /\ l.warp_size \in Nat
  BY MemUnitAssumption
<1>2. /\ Volume(l.grid_dim) # 0 /\ Volume(l.block_dim) # 0 /\ l.warp_size # 0
  BY DEF LaunchDiag
<1>3. ASSUME NEW d \in Dim3(Nat, Nat, Nat), Volume(d) # 0
      PROVE  d \in Whole /\ Volume(d) \in Nat \ {0}
  <2>1. PICK x \in Nat, y \in Nat, z \in Nat : d = [x |-> x, y |-> y, z |-> z]
    BY DEF Dim3
  <2>2. Volume(d) = x * y * z
    BY <2>1 DEF Volume
  <2>3. x * y * z \in Nat /\ x * y * z # 0
    BY <1>3, <2>2
  <2>4. x # 0 /\ y # 0 /\ z # 0
    BY <2>3
  <2> QED BY <2>1, <2>2, <2>3, <2>4 DEF Whole, Dim3
<1> QED BY <1>1, <1>2, <1>3 DEF ThreadsPerBlock

(* Numbers below the volume of a box are its coordinates, one to one.      *)
LEMMA BoxNumbers ==
    ASSUME NEW d \in Whole
    PROVE  /\ \A id \in Inside(d) :
                Linear(d, id) \in Nat /\ Linear(d, id) < Volume(d) /\ Spot(d, Linear(d, id)) = id
           /\ \A n \in Nat : n < Volume(d) =>
                Spot(d, n) \in Inside(d) /\ Linear(d, Spot(d, n)) = n
<1>1. PICK X \in Nat \ {0}, Y \in Nat \ {0}, Z \in Nat \ {0} : d = [x |-> X, y |-> Y, z |-> Z]
  BY DEF Whole, Dim3
<1>2. Volume(d) = X * Y * Z
  BY <1>1 DEF Volume
<1>3. Inside(d) = [x : 0 .. X - 1, y : 0 .. Y - 1, z : 0 .. Z - 1]
  <2>1. Below(X) = 0 .. X - 1 /\ Below(Y) = 0 .. Y - 1 /\ Below(Z) = 0 .. Z - 1
    BY BelowIs
  <2> QED BY <1>1, <2>1 DEF Inside, Dim3
<1>4. ASSUME NEW id \in Inside(d)
      PROVE  Linear(d, id) \in Nat /\ Linear(d, id) < Volume(d) /\ Spot(d, Linear(d, id)) = id
  <2>1. PICK x \in 0 .. X - 1, y \in 0 .. Y - 1, z \in 0 .. Z - 1 : id = [x |-> x, y |-> y, z |-> z]
    BY <1>3
  <2>2. Z \in Nat
    OBVIOUS
  <2>3. PICK n \in Nat : IsPlace(X, Y, Z, n, x, y, z)
    BY <2>2, Placed, Zenon
  <2>4. Linear(d, id) = (z * Y + y) * X + x
    BY <1>1, <2>1 DEF Linear
  <2>5. Spot(d, n) = [x |-> n % X, y |-> (n \div X) % Y, z |-> n \div (X * Y)]
    BY <1>1 DEF Spot
  <2> QED BY <1>2, <2>1, <2>3, <2>4, <2>5, Zenon DEF IsPlace
<1>5. ASSUME NEW n \in Nat, n < Volume(d)
      PROVE  Spot(d, n) \in Inside(d) /\ Linear(d, Spot(d, n)) = n
  <2>1. n < X * Y * Z /\ Z \in Nat
    BY <1>2, <1>5
  <2>2. PICK x \in 0 .. X - 1, y \in 0 .. Y - 1, z \in 0 .. Z - 1 : IsPlace(X, Y, Z, n, x, y, z)
    BY <2>1, Spotted, Zenon
  <2>3. Spot(d, n) = [x |-> x, y |-> y, z |-> z]
    BY <1>1, <2>2, Zenon DEF Spot, IsPlace
  <2>4. Spot(d, n) \in Inside(d)
    BY <1>3, <2>3
  <2>5. Linear(d, Spot(d, n)) = (z * Y + y) * X + x
    BY <1>1, <2>3 DEF Linear
  <2> QED BY <2>2, <2>4, <2>5, Zenon DEF IsPlace
<1> QED BY <1>4, <1>5

(* The n-th CTA submitted has coordinates of the grid, and every           *)
(* coordinate is that of one CTA.                                          *)
LEMMA CtaIds ==
    ASSUME launch \in Launches, LaunchDiag(launch) = "none"
    PROVE  /\ NumCtas \in Nat \ {0}
           /\ \A n \in Below(NumCtas) :
                CtaId(n) \in Inside(launch.grid_dim) /\ CtaLinear(launch, CtaId(n)) = n
           /\ \A id \in Inside(launch.grid_dim) : \E n \in Below(NumCtas) : CtaId(n) = id
<1> DEFINE d == launch.grid_dim
<1>1. d \in Whole /\ NumCtas \in Nat \ {0} /\ NumCtas = Volume(d)
  BY LaunchIsWhole DEF NumCtas
<1>2. \A id : CtaLinear(launch, id) = Linear(d, id)
  BY DEF CtaLinear, Linear
<1>3. ASSUME NEW n \in Below(NumCtas)
      PROVE  CtaId(n) \in Inside(d) /\ CtaLinear(launch, CtaId(n)) = n
  <2>1. n \in Nat /\ n < Volume(d)
    BY <1>1, BelowIs
  <2>2. Spot(d, n) \in Inside(d) /\ CtaLinear(launch, Spot(d, n)) = n
    BY <1>1, <1>2, <2>1, BoxNumbers
  <2> QED BY <2>2, Zenon DEF CtaId
<1>4. ASSUME NEW id \in Inside(d)
      PROVE  \E n \in Below(NumCtas) : CtaId(n) = id
  <2>1. PICK n \in Nat : n = Linear(d, id) /\ n < Volume(d) /\ Spot(d, n) = id
    BY <1>1, BoxNumbers
  <2>2. n \in Below(NumCtas)
    BY <1>1, <2>1, BelowIs
  <2>3. PICK c \in Inside(d) : c = CtaId(n) /\ Linear(d, c) = n
    BY <1>2, <1>3, <2>2
  <2>4. Spot(d, Linear(d, c)) = c
    BY <1>1, BoxNumbers
  <2> QED BY <2>1, <2>2, <2>3, <2>4
<1> QED BY <1>1, <1>3, <1>4

\* The position of a thread in its block.
Slot(t) == LaneBase(launch, t[2]) + t[3]

(* The lanes with a thread are as many as the block has threads, in order. *)
LEMMA Slots ==
    ASSUME launch \in Launches, LaunchDiag(launch) = "none", NarrowBlock
    PROVE  /\ \A w \in WarpIds(launch) : LaneBase(launch, w) = w * launch.warp_size
           /\ \A w \in WarpIds(launch) : \A lane \in ActiveLanes(launch, w) :
                /\ w \in Nat /\ lane \in 0 .. launch.warp_size - 1
                /\ LaneBase(launch, w) + lane \in 0 .. ThreadsPerBlock(launch) - 1
           /\ \A i \in 0 .. ThreadsPerBlock(launch) - 1 :
                \E w \in WarpIds(launch) : \E lane \in ActiveLanes(launch, w) :
                  LaneBase(launch, w) + lane = i
<1>1. PICK S \in Nat \ {0}, T \in Nat \ {0} : S = launch.warp_size /\ T = ThreadsPerBlock(launch)
  BY LaunchIsWhole
<1>2. T + S - 1 \in Nat
  OBVIOUS
<1>3. PICK W \in Nat, r \in 0 .. S - 1 : W = (T + S - 1) \div S /\ T + S - 1 = W * S + r
  BY <1>2, DivMod
<1>4. WarpIds(launch) = 0 .. W - 1
  BY <1>1, <1>3, BelowIs DEF WarpIds, WarpCount
<1>8. ASSUME NEW w \in 0 .. W - 1
      PROVE  LaneBase(launch, w) = w * S
  <2>1. PICK M \in Nat \ {0} : M = LaneBaseLimit /\ T <= M
    BY <1>1, LaunchGridAssumption DEF NarrowBlock
  <2>2. PICK b \in Nat, e \in Nat : b = w * S /\ e = W * S
    OBVIOUS
  <2>3. b + S <= e
    <3>1. w \in Nat /\ w < W
      OBVIOUS
    <3> QED BY <2>2, <3>1, RowsApart
  <2>4. e = T + S - 1 - r /\ b < M
    <3>1. e = T + S - 1 - r
      BY <1>3, <2>2
    <3> QED BY <2>1, <2>3, <3>1
  <2>5. b % M = b
    BY <2>1, <2>4
  <2> QED BY <1>1, <2>1, <2>2, <2>5, Zenon DEF LaneBase
<1>5. ASSUME NEW w \in 0 .. W - 1
      PROVE  /\ w * S \in Nat
             /\ ActiveLanes(launch, w) = {lane \in 0 .. S - 1 : w * S + lane < T}
  <2>1. PICK b \in Nat : b = w * S
    OBVIOUS
  <2>2. PICK n \in Nat : /\ n = LanesOn(launch, w)
                         /\ n = IF T > b THEN IF T - b >= S THEN S ELSE T - b ELSE 0
    <3> DEFINE left == IF T > b THEN T - b ELSE 0
    <3>1. LanesOn(launch, w) = IF left >= S THEN S ELSE left
      BY <1>8, <1>1, <2>1, Zenon DEF LanesOn
    <3>2. left \in Nat /\ (T > b => left = T - b) /\ (~(T > b) => left = 0)
      OBVIOUS
    <3> HIDE DEF left
    <3>3. LanesOn(launch, w) \in Nat
      BY <3>1, <3>2
    <3>4. LanesOn(launch, w) = IF T > b THEN IF T - b >= S THEN S ELSE T - b ELSE 0
      BY <3>1, <3>2
    <3> QED BY <3>3, <3>4, Zenon
  <2>3. ActiveLanes(launch, w) = 0 .. n - 1
    BY <2>2, BelowIs DEF ActiveLanes
  <2>4. 0 .. n - 1 = {lane \in 0 .. S - 1 : b + lane < T}
    BY <2>2
  <2> QED BY <2>1, <2>3, <2>4
<1>6. ASSUME NEW i \in 0 .. T - 1
      PROVE  \E w \in WarpIds(launch) : \E lane \in ActiveLanes(launch, w) : LaneBase(launch, w) + lane = i
  <2>0. i \in Nat
    OBVIOUS
  <2>1. PICK w \in Nat, lane \in 0 .. S - 1 : i = w * S + lane
    <3>1. i \div S \in Nat /\ i % S \in 0 .. S - 1 /\ i = (i \div S) * S + (i % S)
      BY <2>0, DivMod
    <3> QED BY <3>1, Zenon
  <2>2. w < W
    <3> SUFFICES ASSUME W <= w PROVE FALSE
      BY <1>3
    <3>1. PICK a \in Nat, b \in Nat : a = W * S /\ b = w * S
      OBVIOUS
    <3>2. a <= b
      BY <3>1, RowsApart
    <3> QED BY <1>3, <2>1, <3>1, <3>2
  <2>3. w \in 0 .. W - 1 /\ lane \in ActiveLanes(launch, w)
    BY <1>5, <2>1, <2>2
  <2> QED BY <1>8, <1>4, <2>1, <2>3
<1>7. ASSUME NEW w \in WarpIds(launch), NEW lane \in ActiveLanes(launch, w)
      PROVE  /\ w \in Nat /\ lane \in 0 .. S - 1
             /\ LaneBase(launch, w) + lane \in 0 .. T - 1
  <2>1. w \in Nat /\ w \in 0 .. W - 1
    BY <1>4
  <2>2. lane \in {l \in 0 .. S - 1 : w * S + l < T} /\ w * S \in Nat
    BY <1>5, <1>7, <2>1
  <2>3. LaneBase(launch, w) = w * S
    BY <1>8, <2>1
  <2> QED BY <2>1, <2>2, <2>3
<1> QED BY <1>8, <1>1, <1>4, <1>6, <1>7

(* A thread is its CTA and its position there; every position is taken.    *)
LEMMA ThreadsAre ==
    ASSUME launch \in Launches, LaunchDiag(launch) = "none", NarrowBlock
    PROVE  /\ \A t \in Threads :
                /\ t[1] \in Below(NumCtas) /\ t[1] \in Nat
                /\ t[2] \in WarpIds(launch) /\ t[3] \in ActiveLanes(launch, t[2])
                /\ Slot(t) \in 0 .. ThreadsPerBlock(launch) - 1
                /\ Tid(launch, t[2], t[3]) = Spot(launch.block_dim, Slot(t))
           /\ \A t, u \in Threads : t[1] = u[1] /\ Slot(t) = Slot(u) => t = u
           /\ \A n \in Below(NumCtas) : \A i \in 0 .. ThreadsPerBlock(launch) - 1 :
                \E t \in Threads : t[1] = n /\ Slot(t) = i
<1>1. PICK S \in Nat \ {0}, N \in Nat \ {0} : S = launch.warp_size /\ N = NumCtas
  BY LaunchIsWhole DEF NumCtas
<1>2. Below(S) = 0 .. S - 1 /\ Below(N) = 0 .. N - 1
  BY BelowIs
<1>3. \A t \in Threads :
        /\ t[1] \in Below(NumCtas) /\ t[2] \in WarpIds(launch)
        /\ t[3] \in ActiveLanes(launch, t[2]) /\ t = <<t[1], t[2], t[3]>>
  BY DEF Threads
<1>4. \A w \in WarpIds(launch) : \A lane \in ActiveLanes(launch, w) :
        /\ w \in Nat /\ lane \in 0 .. S - 1
        /\ LaneBase(launch, w) + lane \in 0 .. ThreadsPerBlock(launch) - 1
  BY <1>1, Slots
<1>5. \A t : Tid(launch, t[2], t[3]) = Spot(launch.block_dim, Slot(t))
  BY Zenon DEF Tid, Spot, Slot
<1>6. ASSUME NEW t \in Threads, NEW u \in Threads, t[1] = u[1], Slot(t) = Slot(u)
      PROVE  t = u
  <2>1. PICK w \in Nat, a \in 0 .. S - 1 : w = t[2] /\ a = t[3]
    BY <1>3, <1>4
  <2>2. PICK v \in Nat, b \in 0 .. S - 1 : v = u[2] /\ b = u[3]
    BY <1>3, <1>4
  <2>3. w * S + a = v * S + b
    <3>1. LaneBase(launch, t[2]) = w * S /\ LaneBase(launch, u[2]) = v * S
      BY <1>1, <1>3, <2>1, <2>2, Slots
    <3> QED BY <1>6, <2>1, <2>2, <3>1 DEF Slot
  <2>4. w = v /\ a = b
    BY <2>3, SameDigits
  <2> QED BY <1>3, <1>6, <2>1, <2>2, <2>4
<1>7. ASSUME NEW n \in Below(NumCtas), NEW i \in 0 .. ThreadsPerBlock(launch) - 1
      PROVE  \E t \in Threads : t[1] = n /\ Slot(t) = i
  <2>1. PICK w \in WarpIds(launch) : \E lane \in ActiveLanes(launch, w) : LaneBase(launch, w) + lane = i
    BY Slots
  <2>2. PICK lane \in ActiveLanes(launch, w) : LaneBase(launch, w) + lane = i
    BY <2>1
  <2>3. lane \in Below(launch.warp_size)
    BY <1>1, <1>2, <1>4
  <2>4. <<n, w, lane>> \in Threads
    BY <2>3 DEF Threads
  <2>5. Slot(<<n, w, lane>>) = i
    BY <2>2 DEF Slot
  <2> QED BY <2>4, <2>5
<1>8. \A t \in Threads : Slot(t) \in 0 .. ThreadsPerBlock(launch) - 1 /\ t[1] \in Nat
  BY <1>1, <1>2, <1>3, <1>4 DEF Slot
<1> QED BY <1>3, <1>5, <1>6, <1>7, <1>8

-----------------------------------------------------------------------------
(* The launch is fixed, and runs only when it is not refused.              *)

ModeOK ==
    /\ launch \in Launches
    /\ mode \in {"launching", "running", "refused", "endless"}
    /\ mode = "running" => LaunchDiag(launch) = "none"

LEMMA Frame ==
    ASSUME NEW s \in Sms, Worker(s)
    PROVE  launch' = launch /\ mode' = mode
BY DEF Worker, NextCta, Begin, Malformed, LoadParam, GlobalFault, GlobalLoad, GlobalStore,
       LocalFault, LocalEnter, LocalLoad, LocalStore, EndUop

LEMMA LaunchFixed == ModeOK /\ [Next]_vars => ModeOK' /\ launch' = launch
<1> SUFFICES ASSUME ModeOK, [Next]_vars PROVE ModeOK' /\ launch' = launch
  OBVIOUS
<1>1. CASE Launch
  BY <1>1 DEF Launch, ModeOK
<1>2. CASE \E s \in Sms : Worker(s)
  BY <1>2, Frame DEF ModeOK
<1>3. CASE UNCHANGED vars
  BY <1>3 DEF ModeOK, vars
<1> QED BY <1>1, <1>2, <1>3 DEF Next, Terminated

(* The threads of a launch that runs, by the coordinates of their CTA and  *)
(* of their place in it, are the whole grid, each once, whatever the       *)
(* dimensions and the width of a warp, when the places of a block's        *)
(* threads fit 32 bits: run and the special registers of the memory unit   *)
(* cut the grid the same way.                                              *)
THEOREM EveryThreadOnce == Spec => []ThreadsCoverGrid
<1>1. Init => ModeOK
  BY DEF Init, ModeOK
<1>2. ModeOK => ThreadsCoverGrid
  <2> SUFFICES ASSUME ModeOK, mode = "running", NarrowBlock PROVE EachThreadOnce
    BY DEF ThreadsCoverGrid, Submitted
  <2> DEFINE g == launch.grid_dim
             b == launch.block_dim
  <2>1. launch \in Launches /\ LaunchDiag(launch) = "none"
    BY DEF ModeOK
  <2>2. PICK T \in Nat \ {0} : T = ThreadsPerBlock(launch) /\ T = Volume(b) /\ b \in Whole
    BY <2>1, LaunchIsWhole DEF ThreadsPerBlock
  <2>3. \A t \in Threads : Name(t) = <<CtaId(t[1]), Spot(b, Slot(t))>>
    BY <2>1, ThreadsAre DEF Name
  <2>4. ASSUME NEW t \in Threads PROVE Name(t) \in Inside(g) \X Inside(b)
    <3>1. CtaId(t[1]) \in Inside(g)
      BY <2>1, ThreadsAre, CtaIds
    <3>2. Slot(t) \in Nat /\ Slot(t) < Volume(b)
      BY <2>1, <2>2, ThreadsAre
    <3>3. Spot(b, Slot(t)) \in Inside(b)
      BY <2>2, <3>2, BoxNumbers
    <3> QED BY <2>3, <3>1, <3>3
  <2>5. ASSUME NEW id \in Inside(g), NEW at \in Inside(b)
        PROVE  \E t \in Threads : Name(t) = <<id, at>>
    <3>1. PICK n \in Below(NumCtas) : CtaId(n) = id
      BY <2>1, CtaIds
    <3>2. PICK i \in Nat : i = Linear(b, at) /\ i < Volume(b) /\ Spot(b, i) = at
      BY <2>2, BoxNumbers
    <3>3. i \in 0 .. ThreadsPerBlock(launch) - 1
      BY <2>2, <3>2
    <3>4. PICK t \in Threads : t[1] = n /\ Slot(t) = i
      BY <2>1, <3>3, ThreadsAre
    <3> QED BY <2>3, <3>1, <3>2, <3>4
  <2>6. ASSUME NEW t \in Threads, NEW u \in Threads, Name(t) = Name(u)
        PROVE  t = u
    <3>1. CtaId(t[1]) = CtaId(u[1]) /\ Spot(b, Slot(t)) = Spot(b, Slot(u))
      BY <2>3, <2>6
    <3>2. t[1] = u[1]
      BY <2>1, <3>1, ThreadsAre, CtaIds
    <3>3. /\ Slot(t) \in Nat /\ Slot(t) < Volume(b)
          /\ Slot(u) \in Nat /\ Slot(u) < Volume(b)
      BY <2>1, <2>2, ThreadsAre
    <3>4. Linear(b, Spot(b, Slot(t))) = Slot(t) /\ Linear(b, Spot(b, Slot(u))) = Slot(u)
      BY <2>2, <3>3, BoxNumbers
    <3>5. Slot(t) = Slot(u)
      BY <3>1, <3>4
    <3> QED BY <2>1, <3>2, <3>5, ThreadsAre
  <2>7. {Name(t) : t \in Threads} = Inside(g) \X Inside(b)
    BY <2>4, <2>5
  <2> QED BY <2>6, <2>7, Zenon DEF EachThreadOnce
<1> QED BY <1>1, <1>2, LaunchFixed, PTL DEF Spec

-----------------------------------------------------------------------------
(* Windows of local memory.                                                *)

\* Neither the places of a block's threads nor the addresses of local memory
\* wrap around.
WindowsFit ==
    NarrowBlock /\ NumCtas * ThreadsPerBlock(launch) * LocalStride <= WordLimit

\* The number of a thread in the launch.
Number(t) == t[1] * ThreadsPerBlock(launch) + Slot(t)

(* Threads have numbers of their own, and a thread's window is the row of  *)
(* its number: run and the memory unit count the CTAs the same way.        *)
LEMMA Windows ==
    ASSUME launch \in Launches, LaunchDiag(launch) = "none", WindowsFit
    PROVE  /\ \A t \in Threads : Number(t) \in Nat
           /\ \A t, u \in Threads : Number(t) = Number(u) => t = u
           /\ \A t \in Threads : \A k \in Below(LocalStride) :
                LocalAddr(t, k) = Number(t) * LocalStride + k
<1>1. PICK T \in Nat \ {0}, N \in Nat \ {0}, R \in Nat \ {0} :
             T = ThreadsPerBlock(launch) /\ N = NumCtas /\ R = LocalStride
  BY LaunchIsWhole, LaunchGridAssumption DEF NumCtas
<1>0. NarrowBlock
  BY DEF WindowsFit
<1>2. /\ Below(R) = 0 .. R - 1 /\ Below(N) = 0 .. N - 1
      /\ WordLimit \in Nat \ {0} /\ N * T * R <= WordLimit
  BY <1>1, BelowIs, LaunchGridAssumption DEF WindowsFit
<1>3. ASSUME NEW t \in Threads
      PROVE  \E n \in 0 .. N - 1, i \in 0 .. T - 1 :
               n = t[1] /\ i = Slot(t) /\ Number(t) = n * T + i
  BY <1>0, <1>1, <1>2, ThreadsAre DEF Number
<1>4. ASSUME NEW t \in Threads, NEW u \in Threads, Number(t) = Number(u)
      PROVE  t = u
  <2>1. PICK n \in 0 .. N - 1, i \in 0 .. T - 1 : n = t[1] /\ i = Slot(t) /\ Number(t) = n * T + i
    BY <1>3
  <2>2. PICK m \in 0 .. N - 1, j \in 0 .. T - 1 : m = u[1] /\ j = Slot(u) /\ Number(u) = m * T + j
    BY <1>3
  <2>3. n \in Nat /\ m \in Nat /\ n * T + i = m * T + j
    <3>1. n \in Nat /\ m \in Nat
      OBVIOUS
    <3>2. n * T + i = m * T + j
      BY <1>4, <2>1, <2>2, Zenon
    <3> QED BY <3>1, <3>2
  <2>4. n = m /\ i = j
    BY <2>3, SameDigits
  <2> QED BY <1>0, <2>1, <2>2, <2>4, ThreadsAre
<1>5. ASSUME NEW t \in Threads, NEW k \in Below(LocalStride)
      PROVE  LocalAddr(t, k) = Number(t) * LocalStride + k
  <2>1. PICK n \in 0 .. N - 1, i \in 0 .. T - 1 : n = t[1] /\ i = Slot(t) /\ Number(t) = n * T + i
    BY <1>3
  <2>2. PICK e \in Nat : e = n * T + i /\ e < N * T
    <3>1. n \in Nat /\ N \in Nat /\ n < N
      OBVIOUS
    <3>2. n * T \in Nat /\ N * T \in Nat /\ n * T + T <= N * T
      BY <3>1, RowsApart
    <3> QED BY <3>2
  <2>3. ThreadLinearGlobal(launch, CtaId(n), t[2], t[3]) = e
    <3>1. n \in Below(NumCtas)
      BY <1>1, <1>2
    <3>2. CtaId(n) \in Inside(launch.grid_dim) /\ CtaLinear(launch, CtaId(n)) = n
      BY <3>1, CtaIds
    <3>3. launch.grid_dim \in Whole
      BY LaunchIsWhole
    <3>4. PICK X \in Nat, Y \in Nat, x \in Nat, y \in Nat, z \in Nat :
                 /\ X = launch.grid_dim.x /\ Y = launch.grid_dim.y
                 /\ x = CtaId(n).x /\ y = CtaId(n).y /\ z = CtaId(n).z
      BY <3>2, <3>3 DEF Whole, Inside, Dim3, Below
    <3>5. x + X * (y + Y * z) = (z * Y + y) * X + x
      OBVIOUS
    <3>6. (z * Y + y) * X + x = n
      BY <3>2, <3>4 DEF CtaLinear
    <3>7. ThreadLinearGlobal(launch, CtaId(n), t[2], t[3]) = n * T + LaneBase(launch, t[2]) + t[3]
      BY <1>1, <3>4, <3>5, <3>6, Zenon DEF ThreadLinearGlobal
    <3>8. LaneBase(launch, t[2]) \in Nat /\ t[3] \in Nat
      <4>1. t[2] \in WarpIds(launch) /\ t[3] \in ActiveLanes(launch, t[2])
        BY <1>0, ThreadsAre
      <4>2. t[2] \in Nat /\ t[3] \in Nat /\ LaneBase(launch, t[2]) = t[2] * launch.warp_size
        BY <1>0, <4>1, Slots DEF WarpIds, Below, ActiveLanes
      <4> QED BY <4>2, LaunchIsWhole
    <3> QED BY <2>1, <2>2, <3>7, <3>8 DEF Slot
  <2>4. PICK k0 \in 0 .. R - 1 : k0 = k
    BY <1>1, <1>2
  <2>5. PICK a \in Nat : a = e * R + k0 /\ a < WordLimit
    <3>1. N * T \in Nat
      OBVIOUS
    <3>2. e * R \in Nat /\ e * R + R <= (N * T) * R
      BY <2>2, <3>1, RowsApart
    <3> QED BY <1>2, <3>2
  <2>6. LocalAddr(t, k) = a % WordLimit
    BY <1>1, <2>1, <2>3, <2>4, <2>5, Zenon DEF LocalAddr, LocalEffectiveAddr
  <2>7. a % WordLimit = a
    BY <1>2, <2>5
  <2> QED BY <1>1, <2>1, <2>2, <2>4, <2>5, <2>6, <2>7, Zenon
<1> QED BY <1>3, <1>4, <1>5

(* What a byte is after a store.                                           *)
LEMMA Written ==
    ASSUME NEW mem, NEW a \in Nat, NEW bytes, Len(bytes) \in Nat, NEW x \in Nat
    PROVE  /\ x \in a .. a + Len(bytes) - 1 =>
                ByteAt(WriteSparse(mem, a, bytes), x) = bytes[x - a + 1]
           /\ x \notin a .. a + Len(bytes) - 1 =>
                ByteAt(WriteSparse(mem, a, bytes), x) = ByteAt(mem, x)
BY DEF ByteAt, WriteSparse

LEMMA Packed ==
    ASSUME NEW v, NEW n \in Nat
    PROVE  Len(PackLe(v, n)) = n
BY DEF PackLe


\* Every byte of every window is what its thread stored there.
Holds(mem, m) ==
    \A t \in Threads : \A k \in Below(LocalStride) : ByteAt(mem, LocalAddr(t, k)) = m[t][k]

\* Every thread has its window.
HasWindows(m) ==
    DOMAIN m = Threads /\ \A t \in Threads : Below(LocalStride) \subseteq DOMAIN m[t]

LEMMA StoreKeepsWindows ==
    ASSUME NEW m, HasWindows(m), NEW t \in Threads, NEW off, NEW bytes
    PROVE  HasWindows([m EXCEPT ![t] = WriteSparse(@, off, bytes)])
BY DEF HasWindows, WriteSparse

(* A store into a window changes that window alone, and changes it as the  *)
(* thread's own copy is changed.                                           *)
LEMMA StoreInWindow ==
    ASSUME launch \in Launches, LaunchDiag(launch) = "none", WindowsFit,
           NEW mem, NEW m, HasWindows(m), Holds(mem, m),
           NEW t \in Threads, NEW off \in Nat, NEW bytes,
           Len(bytes) \in Nat \ {0}, off + Len(bytes) <= LocalStride
    PROVE  Holds(WriteSparse(mem, LocalAddr(t, off), bytes),
                 [m EXCEPT ![t] = WriteSparse(@, off, bytes)])
<1> DEFINE new == [m EXCEPT ![t] = WriteSparse(@, off, bytes)]
<1>1. PICK R \in Nat \ {0}, n \in Nat \ {0} : R = LocalStride /\ n = Len(bytes) /\ off + n <= R
  BY LaunchGridAssumption
<1>2. Below(LocalStride) = 0 .. R - 1
  BY <1>1, BelowIs
<1>4. new[t] = WriteSparse(m[t], off, bytes)
  BY DEF HasWindows
<1>5. \A u \in Threads : u # t => new[u] = m[u]
  BY DEF HasWindows
<1> HIDE DEF new
<1>6. PICK b \in Nat : b = Number(t) * R
  BY <1>1, Windows
<1>7. \A k \in 0 .. R - 1 : LocalAddr(t, k) = b + k
  BY <1>1, <1>2, <1>6, Windows
<1>8. LocalAddr(t, off) = b + off
  BY <1>1, <1>7
<1>9. PICK mem2 : mem2 = WriteSparse(mem, LocalAddr(t, off), bytes)
  OBVIOUS
<1>10. ASSUME NEW x \in Nat
       PROVE  /\ x \in b + off .. b + off + n - 1 => ByteAt(mem2, x) = bytes[x - (b + off) + 1]
              /\ x \notin b + off .. b + off + n - 1 => ByteAt(mem2, x) = ByteAt(mem, x)
  <2>1. PICK a \in Nat : a = b + off
    OBVIOUS
  <2> Len(bytes) \in Nat
    OBVIOUS
  <2>2. /\ x \in a .. a + Len(bytes) - 1 =>
             ByteAt(WriteSparse(mem, a, bytes), x) = bytes[x - a + 1]
        /\ x \notin a .. a + Len(bytes) - 1 =>
             ByteAt(WriteSparse(mem, a, bytes), x) = ByteAt(mem, x)
    BY Written
  <2> QED BY <1>1, <1>8, <1>9, <2>1, <2>2, Zenon
<1>11. ASSUME NEW u \in Threads, NEW k \in 0 .. R - 1
       PROVE  ByteAt(mem2, LocalAddr(u, k)) = new[u][k]
  <2>1. ByteAt(mem, LocalAddr(u, k)) = m[u][k] /\ k \in DOMAIN m[u]
    BY <1>2 DEF Holds, HasWindows
  <2>2. CASE u = t
    <3>1. b + k \in Nat /\ LocalAddr(t, k) = b + k
      BY <1>7
    <3>2. WriteSparse(m[t], off, bytes)[k]
            = IF k \in off .. off + n - 1 THEN bytes[k - off + 1] ELSE m[t][k]
      BY <1>1, <2>1, <2>2 DEF WriteSparse
    <3>3. CASE k \in off .. off + n - 1
      <4>1. b + k \in b + off .. b + off + n - 1 /\ (b + k) - (b + off) + 1 = k - off + 1
        BY <3>3
      <4> QED BY <1>4, <1>10, <2>2, <3>1, <3>2, <3>3, <4>1
    <3>4. CASE k \notin off .. off + n - 1
      <4>1. b + k \notin b + off .. b + off + n - 1
        BY <3>4
      <4> QED BY <1>4, <1>10, <2>1, <2>2, <3>1, <3>2, <3>4, <4>1
    <3> QED BY <3>3, <3>4
  <2>3. CASE u # t
    <3>1. PICK p \in Nat, q \in Nat : p = Number(t) /\ q = Number(u) /\ p # q
      BY <2>3, Windows
    <3>2. PICK c \in Nat : c = q * R
      BY <3>1
    <3>3. LocalAddr(u, k) = c + k /\ b = p * R
      BY <1>1, <1>2, <1>6, <3>1, <3>2, Windows
    <3>4. b + R <= c \/ c + R <= b
      <4>1. CASE p < q
        BY <3>2, <3>3, <4>1, RowsApart
      <4>2. CASE q < p
        BY <3>2, <3>3, <4>2, RowsApart
      <4> QED BY <3>1, <4>1, <4>2
    <3>5. c + k \in Nat /\ c + k \notin b + off .. b + off + n - 1
      BY <1>1, <3>4
    <3> QED BY <1>5, <1>10, <2>1, <2>3, <3>3, <3>5
  <2> QED BY <2>2, <2>3
<1>12. Holds(mem2, new)
  BY <1>2, <1>11 DEF Holds
<1> QED BY <1>9, <1>12 DEF new

(* A load from a window reads what the thread's own copy has.              *)
LEMMA LoadFromWindow ==
    ASSUME launch \in Launches, LaunchDiag(launch) = "none", WindowsFit,
           NEW mem, NEW m, HasWindows(m), Holds(mem, m),
           NEW t \in Threads, NEW off \in Nat, NEW n \in Nat \ {0}, off + n <= LocalStride
    PROVE  /\ ReadSparse(mem, LocalAddr(t, off), n) = ReadSparse(m[t], off, n)
           /\ Len(ReadSparse(mem, LocalAddr(t, off), n)) = n
<1>1. PICK R \in Nat \ {0} : R = LocalStride /\ off + n <= R
  BY LaunchGridAssumption
<1>2. Below(LocalStride) = 0 .. R - 1
  BY <1>1, BelowIs
<1>3. PICK b \in Nat : b = Number(t) * R
  BY <1>1, Windows
<1>4. \A k \in 0 .. R - 1 : LocalAddr(t, k) = b + k
  BY <1>1, <1>2, <1>3, Windows
<1>5. ASSUME NEW i \in 1 .. n
      PROVE  ByteAt(mem, LocalAddr(t, off) + i - 1) = ByteAt(m[t], off + i - 1)
  <2>1. PICK k \in 0 .. R - 1 : k = off + i - 1
    BY <1>1
  <2>2. off \in 0 .. R - 1
    BY <1>1
  <2>3. LocalAddr(t, off) = b + off /\ LocalAddr(t, k) = b + k
    BY <1>4, <2>2
  <2>4. LocalAddr(t, off) + i - 1 = LocalAddr(t, k)
    BY <2>1, <2>3
  <2>5. ByteAt(mem, LocalAddr(t, k)) = m[t][k] /\ k \in DOMAIN m[t]
    BY <1>2 DEF Holds, HasWindows
  <2> QED BY <2>1, <2>4, <2>5, Zenon DEF ByteAt
<1> QED BY <1>5 DEF ReadSparse

-----------------------------------------------------------------------------
(* The inductive invariant behind LocalIsPrivate.                          *)

\* A micro-op under way: an access is that of a lane still to be served, and
\* stays inside its window.
Accesses == [off : LocalAddrs, value : Values, race : BOOLEAN]

Uop(o) ==
    /\ o = [kind |-> o.kind, space |-> o.space, size |-> o.size,
            warp |-> o.warp, lanes |-> o.lanes, access |-> o.access]
    /\ o.kind \in {"ld", "st"} /\ o.size \in Sizes
    /\ o.warp \in WarpIds(launch) /\ o.lanes \subseteq ActiveLanes(launch, o.warp)
    /\ o.access # NoAccess =>
         o.access \in Accesses /\ o.lanes # {} /\ o.access.off + o.size <= LocalStride

OpOK(o, n) == o \in {NoOp, Faulted} \/ (Uop(o) /\ n \in Below(NumCtas))

OpsOK == DOMAIN op = Sms /\ \A s \in Sms : OpOK(op[s], cur[s])

\* CTA n is nobody's but worker s's: it has left the queue, and no other
\* worker runs it.
Given(n, s) == n \notin todo /\ \A o \in Sms \ {s} : cur[o] # n

CurOK ==
    /\ DOMAIN cur = Sms /\ todo \subseteq Below(NumCtas)
    /\ \A s \in Sms : HasCta(s) => Given(cur[s], s)

\* What a worker has loaded from local memory was for a thread of its own, and
\* it has started no store since.
Own(r, s) == r.thread \in Threads /\ Given(r.thread[1], s)
GotOK ==
    /\ DOMAIN got = Sms
    /\ \A s \in Sms : got[s].space = "local" => op[s].kind # "st" /\ Own(got[s], s)

\* A race that a worker was in is on record.
Disturbed(o) == o.kind \in {"ld", "st"} /\ o.access # NoAccess /\ o.access.race
RaceOK == \A s \in Sms : Disturbed(op[s]) => raced

\* Windows are given out when the launch starts.
MineOK ==
    IF mode = "running" THEN HasWindows(mine)
    ELSE /\ op = [s \in Sms |-> NoOp] /\ got = [s \in Sms |-> NoLoad]
         /\ cur = [s \in Sms |-> NoCta] /\ todo = {}
         /\ mine = [t \in {} |-> 0] /\ local = [a \in {} |-> 0]

Loaded(r, m) ==
    \E k \in LocalAddrs : /\ k + r.size <= LocalStride
                          /\ r.value = UnpackLe(ReadSparse(m[r.thread], k, r.size))

\* WindowsKept, worker by worker.
Kept ==
    mode = "running" /\ ~raced =>
      /\ Holds(local, mine)
      /\ \A s \in Sms : got[s].space = "local" => Loaded(got[s], mine)

LocalInv == OpsOK /\ CurOK /\ GotOK /\ RaceOK /\ MineOK /\ Kept

IInv == ModeOK /\ (WindowsFit => LocalInv)

LEMMA InitInv == Init => IInv
<1> SUFFICES ASSUME Init PROVE IInv
  OBVIOUS
<1>1. ModeOK
  BY DEF Init, ModeOK
<1>3. OpsOK
  BY DEF Init, OpsOK, OpOK
<1>4. CurOK
  BY DEF Init, CurOK, HasCta, NoCta, Below
<1>5. GotOK
  BY DEF Init, GotOK, NoLoad
<1>6. RaceOK
  BY DEF Init, RaceOK, Disturbed, NoOp
<1>7. MineOK
  BY DEF Init, MineOK
<1>8. Kept
  BY DEF Init, Kept
<1> QED BY <1>1, <1>3, <1>4, <1>5, <1>6, <1>7, <1>8 DEF IInv, LocalInv

LEMMA InvPrivate == IInv /\ WindowsFit => LocalIsPrivate
<1> SUFFICES ASSUME IInv, WindowsFit, ~raced PROVE WindowsKept
  BY DEF LocalIsPrivate
<1>1. ModeOK /\ GotOK /\ MineOK /\ Kept
  BY DEF IInv, LocalInv
<1>2. CASE mode = "running"
  <2>1. DOMAIN mine = Threads /\ Holds(local, mine)
    BY <1>1, <1>2 DEF MineOK, HasWindows, Kept
  <2>2. ASSUME NEW r \in Loads, r.space = "local" PROVE Loaded(r, mine)
    <3>1. PICK s \in Sms : r = got[s]
      BY DEF Loads
    <3> QED BY <1>1, <1>2, <2>2, <3>1 DEF Kept
  <2> QED BY <2>1, <2>2, Zenon DEF WindowsKept, Holds, Loaded
<1>3. CASE mode # "running"
  <2>1. Loads = {}
    BY <1>1, <1>3 DEF Loads, MineOK
  <2>2. DOMAIN mine = {}
    BY <1>1, <1>3 DEF MineOK
  <2> QED BY <2>1, <2>2, Zenon DEF WindowsKept
<1> QED BY <1>2, <1>3

(* The geometry does not change in a step.                                 *)
LEMMA SameGeometry ==
    ASSUME launch' = launch
    PROVE  /\ NumCtas' = NumCtas /\ Threads' = Threads
           /\ (WindowsFit' <=> WindowsFit)
           /\ \A t, k : LocalAddr(t, k)' = LocalAddr(t, k)
           /\ \A o, n : OpOK(o, n)' <=> OpOK(o, n)
           /\ \A mem, m : Holds(mem, m)' <=> Holds(mem, m)
           /\ \A m : HasWindows(m)' <=> HasWindows(m)
<1>1. NumCtas' = NumCtas
  BY DEF NumCtas
<1>2. Threads' = Threads
  BY <1>1 DEF Threads
<1>3. \A t, k : LocalAddr(t, k)' = LocalAddr(t, k)
  BY DEF LocalAddr, CtaId
<1>4. WindowsFit' <=> WindowsFit
  BY <1>1 DEF WindowsFit, NarrowBlock
<1>5. \A o, n : OpOK(o, n)' <=> OpOK(o, n)
  BY <1>1, Zenon DEF OpOK, Uop, NoOp, Faulted, NoAccess, Accesses
<1>7. \A mem, m : Holds(mem, m)' <=> Holds(mem, m)
  BY <1>2, <1>3, Zenon DEF Holds
<1>8. \A m : HasWindows(m)' <=> HasWindows(m)
  BY <1>2, Zenon DEF HasWindows
<1> QED BY <1>1, <1>2, <1>3, <1>4, <1>5, <1>7, <1>8

(* CTAs stay with their workers when one worker takes a CTA from the queue *)
(* or has no more.                                                         *)
LEMMA CtasStay ==
    ASSUME launch' = launch, CurOK, NEW s \in Sms, DOMAIN cur' = Sms, todo' \subseteq todo,
           \A o \in Sms \ {s} : cur'[o] = cur[o],
           \/ cur'[s] = cur[s] \/ cur'[s] \in todo \ todo' \/ cur'[s] \notin Below(NumCtas)
    PROVE  CurOK' /\ \A r : \A o \in Sms : Own(r, o) => Own(r, o)'
<1>1. NumCtas' = NumCtas /\ Threads' = Threads /\ Sms' = Sms
  BY SameGeometry
<1>2. ASSUME NEW o \in Sms, NEW n \in Below(NumCtas), Given(n, o) PROVE Given(n, o)'
  BY <1>2 DEF Given
<1>3. ASSUME NEW o \in Sms, cur'[o] \in Below(NumCtas) PROVE Given(cur[o], o)'
  <2>1. CASE cur'[o] = cur[o]
    BY <1>2, <1>3, <2>1 DEF CurOK, HasCta
  <2>2. CASE cur'[o] # cur[o]
    <3>1. o = s /\ cur'[s] \in todo /\ cur'[s] \notin todo'
      BY <1>3, <2>2
    <3>2. ASSUME NEW p \in Sms \ {s} PROVE cur[p] # cur'[s]
      BY <1>3, <3>1 DEF CurOK, HasCta, Given
    <3> QED BY <3>1, <3>2 DEF Given
  <2> QED BY <2>1, <2>2
<1>4. CurOK'
  BY <1>1, <1>3 DEF CurOK, HasCta
<1>5. ASSUME NEW r, NEW o \in Sms, Own(r, o) PROVE Own(r, o)'
  <2>1. r.thread[1] \in Below(NumCtas)
    BY <1>5 DEF Own, Threads
  <2>2. Given(r.thread[1], o)'
    BY <1>2, <1>5, <2>1 DEF Own
  <2> QED BY <1>1, <1>5, <2>2 DEF Own
<1> QED BY <1>4, <1>5

\* A set of numbers has a least one.
LEMMA NatMin ==
    ASSUME NEW T, T \subseteq Nat, T # {}
    PROVE  \E x \in T : \A y \in T : x <= y
<1> DEFINE R == {ss \in Nat \X Nat : ss[1] < ss[2]}
<1>1. R = OpToRel(<, Nat)
  BY Zenon DEF OpToRel
<1>2. IsWellFoundedOn(R, Nat)
  BY <1>1, NatLessThanWellFounded, Zenon
<1>3. PICK x \in T : \A y \in T : ~(<<y, x>> \in R)
  <2> HIDE DEF R
  <2> QED BY <1>2, WFMin
<1>4. ASSUME NEW y \in T PROVE x <= y
  <2>1. <<y, x>> \notin R
    BY <1>3
  <2> QED BY <2>1
<1> QED BY <1>4


(* The lane a worker serves is one of the mask, and its thread is one of a *)
(* CTA of the worker.                                                      *)
LEMMA OnLane ==
    ASSUME ModeOK, NarrowBlock, mode = "running", LocalInv, NEW s \in Sms,
           op[s].kind \in {"ld", "st"}, op[s].lanes # {}
    PROVE  /\ Uop(op[s]) /\ Lane(s) \in op[s].lanes
           /\ Thread(s) \in Threads /\ Thread(s)[1] = cur[s]
           /\ Given(Thread(s)[1], s)
<1>1. launch \in Launches /\ LaunchDiag(launch) = "none"
  BY DEF ModeOK
<1>2. Uop(op[s]) /\ cur[s] \in Below(NumCtas)
  BY DEF LocalInv, OpsOK, OpOK, NoOp, Faulted
<1>3. op[s].warp \in WarpIds(launch) /\ op[s].lanes \subseteq ActiveLanes(launch, op[s].warp)
  BY <1>2 DEF Uop
<1>4. op[s].lanes \subseteq Nat
  BY <1>3 DEF ActiveLanes, Below
<1>5. Lane(s) \in op[s].lanes
  <2>1. \E l \in op[s].lanes : \A m \in op[s].lanes : l <= m
    BY <1>4, NatMin
  <2> QED BY <2>1 DEF Lane
<1>6. Given(cur[s], s)
  BY <1>2 DEF LocalInv, CurOK, HasCta
<1>7. Lane(s) \in Below(launch.warp_size)
  <2>1. Lane(s) \in 0 .. launch.warp_size - 1
    BY <1>1, <1>3, <1>5, Slots
  <2>2. launch.warp_size \in Nat
    BY <1>1, LaunchIsWhole
  <2> QED BY <2>1, <2>2, BelowIs
<1>8. Thread(s) \in Threads
  BY <1>2, <1>3, <1>5, <1>7 DEF Threads, Thread
<1>9. Thread(s)[1] = cur[s]
  BY DEF Thread
<1> QED BY <1>2, <1>5, <1>6, <1>8, <1>9

\* A worker that is not in the middle of an access.
Resting(o, n) ==
    \/ o \in {NoOp, Faulted}
    \/ Uop(o) /\ n \in Below(NumCtas) /\ o.access = NoAccess

(* A step that leaves the windows alone and its worker between accesses.   *)
LEMMA OwnStep ==
    ASSUME ModeOK, mode = "running", LocalInv, NEW s \in Sms,
           launch' = launch, mode' = mode, mine' = mine, local' = local, raced' = raced,
           DOMAIN op' = Sms, DOMAIN got' = Sms, DOMAIN cur' = Sms, todo' \subseteq todo,
           \A o \in Sms \ {s} : op'[o] = op[o] /\ cur'[o] = cur[o] /\ got'[o] = got[o],
           \/ cur'[s] = cur[s] \/ cur'[s] \in todo \ todo' \/ cur'[s] \notin Below(NumCtas),
           Resting(op'[s], cur'[s]),
           got'[s].space = "local" =>
             op'[s].kind # "st" /\ Own(got'[s], s) /\ (~raced => Loaded(got'[s], mine))
    PROVE  LocalInv'
<1>1. OpsOK'
  <2>1. ASSUME NEW o \in Sms PROVE OpOK(op'[o], cur'[o])
    <3>1. CASE o = s
      BY <3>1 DEF Resting, OpOK
    <3>2. CASE o # s
      BY <3>2 DEF LocalInv, OpsOK
    <3> QED BY <3>1, <3>2
  <2> QED BY <2>1, SameGeometry DEF OpsOK
<1>2. CurOK' /\ \A r : \A o \in Sms : Own(r, o) => Own(r, o)'
  BY CtasStay DEF LocalInv
<1>3. GotOK'
  <2>1. ASSUME NEW o \in Sms, got'[o].space = "local"
        PROVE  op'[o].kind # "st" /\ Own(got'[o], o)
    BY <2>1 DEF LocalInv, GotOK
  <2> QED BY <1>2, <2>1 DEF GotOK
<1>4. RaceOK'
  <2>1. ASSUME NEW o \in Sms, Disturbed(op'[o]) PROVE raced
    <3>1. CASE o = s
      BY <2>1, <3>1 DEF Resting, Disturbed, NoOp, Faulted
    <3>2. CASE o # s
      BY <2>1, <3>2 DEF LocalInv, RaceOK
    <3> QED BY <3>1, <3>2
  <2> QED BY <2>1 DEF RaceOK, Disturbed
<1>5. MineOK'
  BY SameGeometry DEF LocalInv, MineOK
<1>6. Kept'
  <2>1. ASSUME NEW o \in Sms, ~raced, got'[o].space = "local" PROVE Loaded(got'[o], mine)
    <3>1. CASE o = s
      BY <2>1, <3>1
    <3>2. CASE o # s
      BY <2>1, <3>2 DEF LocalInv, Kept
    <3> QED BY <3>1, <3>2
  <2>2. ~raced => Holds(local, mine)
    BY DEF LocalInv, Kept
  <2> QED BY <2>1, <2>2, SameGeometry DEF Kept, Loaded
<1> QED BY <1>1, <1>2, <1>3, <1>4, <1>5, <1>6 DEF LocalInv

\* Serving a lane leaves the micro-op well formed and between accesses.
LEMMA Served ==
    ASSUME NEW s \in Sms, DOMAIN op = Sms, Uop(op[s]), ServeLane(s)
    PROVE  /\ DOMAIN op' = Sms /\ \A o \in Sms \ {s} : op'[o] = op[o]
           /\ Uop(op'[s]) /\ op'[s].access = NoAccess /\ op'[s].kind = op[s].kind
<1>1. op'[s] = [op[s] EXCEPT !.lanes = @ \ {Lane(s)}, !.access = NoAccess]
  BY DEF ServeLane
<1>2. /\ op'[s].kind = op[s].kind /\ op'[s].size = op[s].size /\ op'[s].warp = op[s].warp
      /\ op'[s].lanes \subseteq op[s].lanes /\ op'[s].access = NoAccess
      /\ op'[s] = [kind |-> op'[s].kind, space |-> op'[s].space, size |-> op'[s].size,
                   warp |-> op'[s].warp, lanes |-> op'[s].lanes, access |-> op'[s].access]
  BY <1>1 DEF Uop
<1>3. Uop(op'[s])
  BY <1>2 DEF Uop
<1>4. DOMAIN op' = Sms /\ \A o \in Sms \ {s} : op'[o] = op[o]
  BY DEF ServeLane
<1> QED BY <1>2, <1>3, <1>4

(* The worker takes a CTA, issues a micro-op, faults, or has to do with    *)
(* global memory and the parameters.                                       *)
LEMMA OtherSteps ==
    ASSUME ModeOK, mode = "running", LocalInv, NEW s \in Sms,
           \/ NextCta(s) \/ Begin(s) \/ Malformed(s) \/ LoadParam(s)
           \/ GlobalFault(s) \/ GlobalLoad(s) \/ GlobalStore(s) \/ LocalFault(s) \/ EndUop(s)
    PROVE  LocalInv'
<1>1. launch' = launch /\ mode' = mode
  BY Frame DEF Worker
<1>2. /\ DOMAIN op = Sms /\ OpOK(op[s], cur[s]) /\ DOMAIN got = Sms
      /\ DOMAIN cur = Sms
  BY DEF LocalInv, OpsOK, CurOK, GotOK
<1>3. got[s].space = "local" =>
        op[s].kind # "st" /\ Own(got[s], s) /\ (~raced => Loaded(got[s], mine))
  BY DEF LocalInv, GotOK, Kept
<1>4. CASE NextCta(s)
  <2>1. /\ op[s] = NoOp /\ op' = op /\ got' = got
        /\ mine' = mine /\ local' = local /\ raced' = raced
    BY <1>4 DEF NextCta, Idle
  <2>2. \/ \E n \in todo : cur' = [cur EXCEPT ![s] = n] /\ todo' = todo \ {n}
        \/ cur' = [cur EXCEPT ![s] = NumCtas] /\ todo' = todo
    BY <1>4 DEF NextCta, Queue
  <2>3. NumCtas \notin Below(NumCtas)
    BY DEF Below
  <2>4. /\ DOMAIN cur' = Sms /\ todo' \subseteq todo
        /\ \A o \in Sms \ {s} : cur'[o] = cur[o]
        /\ cur'[s] \in todo \ todo' \/ cur'[s] \notin Below(NumCtas)
    BY <1>2, <2>2, <2>3
  <2>5. Resting(op[s], cur'[s])
    BY <2>1 DEF Resting
  <2> QED BY <1>1, <1>2, <1>3, <2>1, <2>4, <2>5, OwnStep
<1>5. CASE Begin(s)
  <2>1. /\ cur' = cur /\ todo' = todo /\ mine' = mine /\ local' = local /\ raced' = raced
        /\ got' = [got EXCEPT ![s] = NoLoad] /\ cur[s] \in Below(NumCtas)
    BY <1>5 DEF Begin, HasCta
  <2>2. PICK kind \in {"ld", "st"}, space \in {"param", "global", "local"}, n \in Sizes,
             w \in WarpIds(launch) : \E mask \in SUBSET ActiveLanes(launch, w) :
               op' = [op EXCEPT ![s] = [kind |-> kind, space |-> space, size |-> n,
                                        warp |-> w, lanes |-> mask, access |-> NoAccess]]
    BY <1>5 DEF Begin
  <2>3. PICK mask \in SUBSET ActiveLanes(launch, w) :
               op' = [op EXCEPT ![s] = [kind |-> kind, space |-> space, size |-> n,
                                        warp |-> w, lanes |-> mask, access |-> NoAccess]]
    BY <2>2
  <2>4. /\ DOMAIN op' = Sms /\ \A o \in Sms \ {s} : op'[o] = op[o]
        /\ op'[s] = [kind |-> kind, space |-> space, size |-> n,
                     warp |-> w, lanes |-> mask, access |-> NoAccess]
    BY <1>2, <2>3
  <2>5. Uop(op'[s]) /\ op'[s].access = NoAccess
    BY <2>4 DEF Uop
  <2>6. /\ DOMAIN got' = Sms /\ \A o \in Sms \ {s} : got'[o] = got[o]
        /\ got'[s].space # "local"
    BY <1>2, <2>1 DEF NoLoad
  <2>7. Resting(op'[s], cur'[s])
    BY <2>1, <2>5 DEF Resting
  <2> QED BY <1>1, <1>2, <2>1, <2>4, <2>6, <2>7, OwnStep
<1>6. CASE Malformed(s) \/ GlobalFault(s) \/ LocalFault(s)
  <2>1. /\ op' = [op EXCEPT ![s] = Faulted] /\ got' = got /\ cur' = cur /\ todo' = todo
        /\ mine' = mine /\ local' = local /\ raced' = raced
    BY <1>6 DEF Malformed, GlobalFault, LocalFault, Fault
  <2>2. /\ DOMAIN op' = Sms /\ \A o \in Sms \ {s} : op'[o] = op[o]
        /\ op'[s] = Faulted /\ op'[s].kind # "st"
    BY <1>2, <2>1 DEF Faulted
  <2>3. Resting(op'[s], cur'[s])
    BY <2>2 DEF Resting
  <2> QED BY <1>1, <1>2, <1>3, <2>1, <2>2, <2>3, OwnStep
<1>7. CASE LoadParam(s)
  <2>1. /\ cur' = cur /\ todo' = todo /\ mine' = mine /\ local' = local /\ raced' = raced
        /\ op[s].space = "param"
    BY <1>7 DEF LoadParam, In
  <2>2. op' = [op EXCEPT ![s] = NoOp] \/ op' = [op EXCEPT ![s] = Faulted]
    BY <1>7 DEF LoadParam, Fault
  <2>3. /\ DOMAIN op' = Sms /\ \A o \in Sms \ {s} : op'[o] = op[o]
        /\ op'[s] \in {NoOp, Faulted} /\ op'[s].kind # "st"
    BY <1>2, <2>2 DEF NoOp, Faulted
  <2>4. \/ got' = got
        \/ \E v, n : got' = [got EXCEPT ![s] = [space |-> "param", thread |-> Thread(s),
                                                value |-> v, size |-> n]]
    BY <1>7, <2>1 DEF LoadParam, Receive
  <2>5. /\ DOMAIN got' = Sms /\ \A o \in Sms \ {s} : got'[o] = got[o]
        /\ got'[s].space = "local" => got'[s] = got[s]
    BY <1>2, <2>4
  <2>6. Resting(op'[s], cur'[s])
    BY <2>3 DEF Resting
  <2>7. got'[s].space = "local" =>
          op'[s].kind # "st" /\ Own(got'[s], s) /\ (~raced => Loaded(got'[s], mine))
    BY <1>3, <2>3, <2>5
  <2> QED BY <1>1, <1>2, <2>1, <2>3, <2>5, <2>6, <2>7, OwnStep
<1>8. CASE GlobalLoad(s) \/ GlobalStore(s)
  <2>1. /\ cur' = cur /\ todo' = todo /\ mine' = mine /\ local' = local /\ raced' = raced
        /\ op[s].kind \in {"ld", "st"} /\ op[s].space = "global" /\ ServeLane(s)
    BY <1>8 DEF GlobalLoad, GlobalStore, In
  <2>2. Uop(op[s]) /\ cur[s] \in Below(NumCtas)
    BY <1>2, <2>1 DEF OpOK, NoOp, Faulted
  <2>3. /\ DOMAIN op' = Sms /\ \A o \in Sms \ {s} : op'[o] = op[o]
        /\ Uop(op'[s]) /\ op'[s].access = NoAccess /\ op'[s].kind = op[s].kind
    BY <1>2, <2>1, <2>2, Served
  <2>4. \/ got' = got /\ op[s].kind = "st"
        \/ \E v, n : got' = [got EXCEPT ![s] = [space |-> "global", thread |-> Thread(s),
                                                value |-> v, size |-> n]]
    BY <1>8, <2>1 DEF GlobalLoad, GlobalStore, Receive
  <2>5. /\ DOMAIN got' = Sms /\ \A o \in Sms \ {s} : got'[o] = got[o]
        /\ got'[s].space # "local"
    BY <1>2, <1>3, <2>4
  <2>6. Resting(op'[s], cur'[s])
    BY <2>1, <2>2, <2>3 DEF Resting
  <2> QED BY <1>1, <1>2, <2>1, <2>3, <2>5, <2>6, OwnStep
<1>9. CASE EndUop(s)
  <2>1. /\ op' = [op EXCEPT ![s] = NoOp] /\ got' = got /\ cur' = cur /\ todo' = todo
        /\ mine' = mine /\ local' = local /\ raced' = raced
    BY <1>9 DEF EndUop
  <2>2. /\ DOMAIN op' = Sms /\ \A o \in Sms \ {s} : op'[o] = op[o]
        /\ op'[s] = NoOp /\ op'[s].kind # "st"
    BY <1>2, <2>1 DEF NoOp
  <2>3. Resting(op'[s], cur'[s])
    BY <2>2 DEF Resting
  <2> QED BY <1>1, <1>2, <1>3, <2>1, <2>2, <2>3, OwnStep
<1> QED BY <1>4, <1>5, <1>6, <1>7, <1>8, <1>9

(* A lane loads from its window.                                           *)
LEMMA LoadStep ==
    ASSUME ModeOK, WindowsFit, mode = "running", LocalInv, NEW s \in Sms, LocalLoad(s)
    PROVE  LocalInv'
<1>1. launch' = launch /\ mode' = mode
  BY Frame DEF Worker
<1>2. /\ DOMAIN op = Sms /\ OpOK(op[s], cur[s]) /\ DOMAIN got = Sms
      /\ DOMAIN cur = Sms
  BY DEF LocalInv, OpsOK, CurOK, GotOK
<1>3. /\ cur' = cur /\ todo' = todo /\ mine' = mine /\ local' = local /\ raced' = raced
      /\ op[s].kind = "ld" /\ op[s].space = "local" /\ op[s].access # NoAccess /\ ServeLane(s)
  BY DEF LocalLoad, In
<1>4. Uop(op[s]) /\ cur[s] \in Below(NumCtas)
  BY <1>2, <1>3 DEF OpOK, NoOp, Faulted
<1>5. /\ DOMAIN op' = Sms /\ \A o \in Sms \ {s} : op'[o] = op[o]
      /\ Uop(op'[s]) /\ op'[s].access = NoAccess /\ op'[s].kind = "ld"
  BY <1>2, <1>3, <1>4, Served
<1>6. /\ op[s].lanes # {} /\ op[s].access.off \in LocalAddrs /\ op[s].size \in Sizes
      /\ op[s].access.off + op[s].size <= LocalStride
  BY <1>3, <1>4 DEF Uop, Accesses
<1>7. Thread(s) \in Threads /\ Given(Thread(s)[1], s)
  BY <1>3, <1>6, OnLane DEF WindowsFit
<1>8. PICK off \in LocalAddrs, n \in Sizes : off = op[s].access.off /\ n = op[s].size
  BY <1>6
<1>9. off \in Nat /\ n \in Nat \ {0} /\ off + n <= LocalStride
  BY <1>6, <1>8, MemUnitAssumption
<1>10. PICK bytes : /\ got' = [got EXCEPT ![s] = [space |-> "local", thread |-> Thread(s),
                                                  value |-> UnpackLe(bytes), size |-> Len(bytes)]]
                    /\ \/ bytes = ReadSparse(local, LocalAddr(Thread(s), off), n)
                       \/ op[s].access.race
  BY <1>3, <1>8 DEF LocalLoad, Receive
<1>11. /\ DOMAIN got' = Sms /\ \A o \in Sms \ {s} : got'[o] = got[o]
       /\ got'[s] = [space |-> "local", thread |-> Thread(s),
                     value |-> UnpackLe(bytes), size |-> Len(bytes)]
  BY <1>2, <1>10
<1>12. Own(got'[s], s)
  BY <1>7, <1>11 DEF Own
<1>13. ASSUME ~raced PROVE Loaded(got'[s], mine)
  <2>1. ~op[s].access.race
    BY <1>3, <1>13 DEF LocalInv, RaceOK, Disturbed
  <2>2. HasWindows(mine) /\ Holds(local, mine)
    BY <1>13 DEF LocalInv, MineOK, Kept
  <2>3. launch \in Launches /\ LaunchDiag(launch) = "none"
    BY DEF ModeOK
  <2>4. bytes = ReadSparse(mine[Thread(s)], off, n) /\ Len(bytes) = n
    BY <1>7, <1>9, <1>10, <2>1, <2>2, <2>3, LoadFromWindow
  <2>5. /\ got'[s].thread = Thread(s) /\ got'[s].value = UnpackLe(bytes)
        /\ got'[s].size = Len(bytes)
    BY <1>11
  <2>6. /\ off + got'[s].size <= LocalStride
        /\ got'[s].value = UnpackLe(ReadSparse(mine[got'[s].thread], off, got'[s].size))
    BY <1>9, <2>4, <2>5, Zenon
  <2> QED BY <2>6, Zenon DEF Loaded
<1>14. Resting(op'[s], cur'[s])
  BY <1>3, <1>4, <1>5 DEF Resting
<1> QED BY <1>1, <1>2, <1>3, <1>5, <1>11, <1>12, <1>13, <1>14, OwnStep

(* A lane stores in its window, which no other worker has loaded from.     *)
LEMMA StoreStep ==
    ASSUME ModeOK, WindowsFit, mode = "running", LocalInv, NEW s \in Sms, LocalStore(s)
    PROVE  LocalInv'
<1>1. launch' = launch /\ mode' = mode
  BY Frame DEF Worker
<1>2. /\ DOMAIN op = Sms /\ OpOK(op[s], cur[s]) /\ DOMAIN got = Sms
  BY DEF LocalInv, OpsOK, GotOK
<1>3. /\ cur' = cur /\ todo' = todo /\ got' = got /\ raced' = raced
      /\ op[s].kind = "st" /\ op[s].space = "local" /\ op[s].access # NoAccess /\ ServeLane(s)
  BY DEF LocalStore, In
<1>4. Uop(op[s]) /\ cur[s] \in Below(NumCtas)
  BY <1>2, <1>3 DEF OpOK, NoOp, Faulted
<1>5. /\ DOMAIN op' = Sms /\ \A o \in Sms \ {s} : op'[o] = op[o]
      /\ Uop(op'[s]) /\ op'[s].access = NoAccess /\ op'[s].kind = "st"
  BY <1>2, <1>3, <1>4, Served
<1>6. /\ op[s].lanes # {} /\ op[s].access.off \in LocalAddrs /\ op[s].size \in Sizes
      /\ op[s].access.off + op[s].size <= LocalStride
  BY <1>3, <1>4 DEF Uop, Accesses
<1>7. Thread(s) \in Threads /\ Given(Thread(s)[1], s)
  BY <1>3, <1>6, OnLane DEF WindowsFit
<1>8. PICK t \in Threads, off \in LocalAddrs, n \in Sizes :
             t = Thread(s) /\ off = op[s].access.off /\ n = op[s].size
  BY <1>6, <1>7
<1>9. off \in Nat /\ n \in Nat \ {0} /\ off + n <= LocalStride
  BY <1>6, <1>8, MemUnitAssumption
<1>10. PICK bytes : bytes = PackLe(op[s].access.value, n)
  OBVIOUS
<1>11. Len(bytes) = n
  BY <1>9, <1>10, Packed
<1>12. /\ mine' = [mine EXCEPT ![t] = WriteSparse(@, off, bytes)]
       /\ \/ local' = WriteSparse(local, LocalAddr(t, off), bytes)
          \/ op[s].access.race
  BY <1>8, <1>10 DEF LocalStore
<1>13. HasWindows(mine) /\ HasWindows(mine')
  BY <1>12, StoreKeepsWindows DEF LocalInv, MineOK
<1>14. OpsOK'
  <2>1. ASSUME NEW o \in Sms PROVE OpOK(op'[o], cur'[o])
    <3>1. CASE o = s
      BY <1>3, <1>4, <1>5, <3>1 DEF OpOK
    <3>2. CASE o # s
      BY <1>3, <1>5, <3>2 DEF LocalInv, OpsOK
    <3> QED BY <3>1, <3>2
  <2> QED BY <1>1, <1>5, <2>1, SameGeometry DEF OpsOK
<1>15. CurOK' /\ \A r : \A o \in Sms : Own(r, o) => Own(r, o)'
  BY <1>1, <1>3, CtasStay DEF LocalInv, CurOK
<1>16. GotOK'
  <2>1. ASSUME NEW o \in Sms, got[o].space = "local"
        PROVE  o # s /\ op'[o].kind # "st" /\ Own(got[o], o)
    BY <1>3, <1>5, <2>1 DEF LocalInv, GotOK
  <2> QED BY <1>2, <1>3, <1>15, <2>1 DEF GotOK
<1>17. RaceOK'
  <2>1. ASSUME NEW o \in Sms, Disturbed(op'[o]) PROVE raced
    <3>1. CASE o = s
      BY <1>5, <2>1, <3>1 DEF Disturbed
    <3>2. CASE o # s
      BY <1>5, <2>1, <3>2 DEF LocalInv, RaceOK
    <3> QED BY <3>1, <3>2
  <2> QED BY <1>3, <2>1 DEF RaceOK, Disturbed
<1>18. MineOK'
  BY <1>1, <1>13, SameGeometry DEF MineOK
<1>19. Kept'
  <2> SUFFICES ASSUME ~raced
               PROVE  /\ Holds(local', mine')
                      /\ \A o \in Sms : got[o].space = "local" => Loaded(got[o], mine')
    BY <1>1, <1>3, SameGeometry DEF Kept, Loaded
  <2>1. ~op[s].access.race
    BY <1>3 DEF LocalInv, RaceOK, Disturbed
  <2>2. Holds(local, mine)
    BY DEF LocalInv, Kept
  <2>3. launch \in Launches /\ LaunchDiag(launch) = "none"
    BY DEF ModeOK
  <2>4. Holds(WriteSparse(local, LocalAddr(t, off), bytes),
              [mine EXCEPT ![t] = WriteSparse(@, off, bytes)])
    BY <1>9, <1>11, <1>13, <2>2, <2>3, StoreInWindow
  <2>5. ASSUME NEW o \in Sms, got[o].space = "local" PROVE Loaded(got[o], mine')
    <3>1. o # s /\ Own(got[o], o)
      BY <1>3, <2>5 DEF LocalInv, GotOK
    <3>2. got[o].thread # t
      <4>1. cur[s] # got[o].thread[1] /\ t[1] = cur[s]
        BY <1>8, <3>1 DEF Own, Given, Thread
      <4> QED BY <4>1
    <3>3. mine'[got[o].thread] = mine[got[o].thread]
      BY <1>12, <1>13, <3>1, <3>2 DEF Own, HasWindows
    <3>4. Loaded(got[o], mine)
      BY <2>5 DEF LocalInv, Kept
    <3> QED BY <3>3, <3>4, Zenon DEF Loaded
  <2> QED BY <1>12, <2>1, <2>4, <2>5, Zenon
<1> QED BY <1>14, <1>15, <1>16, <1>17, <1>18, <1>19 DEF LocalInv

(* An access begins; the accesses it races with are disturbed.             *)
LEMMA EnterStep ==
    ASSUME ModeOK, WindowsFit, mode = "running", LocalInv, NEW s \in Sms, LocalEnter(s)
    PROVE  LocalInv'
<1> DEFINE stores == Accessing(s, "st")
           hit    == IF op[s].kind = "st" THEN stores \cup Accessing(s, "ld") ELSE {}
<1>1. launch' = launch /\ mode' = mode
  BY Frame DEF Worker
<1>2. /\ cur' = cur /\ todo' = todo /\ got' = got /\ mine' = mine /\ local' = local
      /\ op[s].kind \in {"ld", "st"} /\ op[s].lanes # {}
      /\ raced' = (raced \/ stores \cup hit # {})
  BY DEF LocalEnter, In
<1>3. \A o \in Sms : OpOK(op[o], cur[o])
  BY DEF LocalInv, OpsOK
<1>4. Uop(op[s]) /\ cur[s] \in Below(NumCtas)
  BY <1>2, <1>3 DEF OpOK, NoOp, Faulted
<1>5. PICK a \in LocalAddrs, v \in Values :
        /\ a + op[s].size <= LocalStride
        /\ op' = [o \in Sms |->
             IF o = s THEN [op[s] EXCEPT !.access = [off |-> a, value |-> v, race |-> stores # {}]]
             ELSE IF o \in hit THEN [op[o] EXCEPT !.access.race = TRUE]
             ELSE op[o]]
  BY DEF LocalEnter
<1>6. \A o \in hit : /\ o \in Sms /\ o # s /\ op[o].kind \in {"ld", "st"}
                     /\ op[o].access # NoAccess
  BY DEF Accessing, In
<1> HIDE DEF stores, hit
<1>7. PICK race \in BOOLEAN : race = (stores # {})
  OBVIOUS
<1>8. /\ DOMAIN op' = Sms
      /\ op'[s] = [op[s] EXCEPT !.access = [off |-> a, value |-> v, race |-> race]]
      /\ \A o \in hit : op'[o] = [op[o] EXCEPT !.access.race = TRUE]
      /\ \A o \in Sms : o # s /\ o \notin hit => op'[o] = op[o]
  BY <1>5, <1>6, <1>7
<1>9. Uop(op'[s]) /\ op'[s].kind = op[s].kind /\ op'[s].access.race = race
  <2>1. [off |-> a, value |-> v, race |-> race] \in Accesses
    BY DEF Accesses
  <2>2. /\ op'[s].kind = op[s].kind /\ op'[s].size = op[s].size /\ op'[s].warp = op[s].warp
        /\ op'[s].lanes = op[s].lanes
        /\ op'[s].access = [off |-> a, value |-> v, race |-> race]
        /\ op'[s] = [kind |-> op'[s].kind, space |-> op'[s].space, size |-> op'[s].size,
                     warp |-> op'[s].warp, lanes |-> op'[s].lanes, access |-> op'[s].access]
    BY <1>4, <1>8 DEF Uop
  <2>3. op'[s].access.off + op'[s].size <= LocalStride
    BY <1>5, <2>2
  <2> QED BY <1>2, <1>4, <2>1, <2>2, <2>3 DEF Uop
<1>10. ASSUME NEW o \in hit
       PROVE  /\ Uop(op[o]) /\ Uop(op'[o]) /\ op'[o].kind = op[o].kind /\ cur[o] \in Below(NumCtas)
  <2>1. Uop(op[o]) /\ cur[o] \in Below(NumCtas)
    BY <1>3, <1>6 DEF OpOK, NoOp, Faulted
  <2>2. PICK acc : acc = op[o].access
    OBVIOUS
  <2>3. /\ acc \in Accesses /\ op[o].lanes # {}
        /\ acc.off + op[o].size <= LocalStride
    BY <1>6, <2>1, <2>2 DEF Uop
  <2>4. [acc EXCEPT !.race = TRUE] \in Accesses /\ [acc EXCEPT !.race = TRUE].off = acc.off
    BY <2>3 DEF Accesses
  <2>5. /\ op'[o].kind = op[o].kind /\ op'[o].size = op[o].size /\ op'[o].warp = op[o].warp
        /\ op'[o].lanes = op[o].lanes
        /\ op'[o].access = [acc EXCEPT !.race = TRUE]
        /\ op'[o] = [kind |-> op'[o].kind, space |-> op'[o].space, size |-> op'[o].size,
                     warp |-> op'[o].warp, lanes |-> op'[o].lanes, access |-> op'[o].access]
    <3>1. op'[o] = [op[o] EXCEPT !.access = [acc EXCEPT !.race = TRUE]]
      BY <1>8, <2>2, Zenon
    <3>2. PICK x : x = [acc EXCEPT !.race = TRUE]
      OBVIOUS
    <3>3. op'[o] = [op[o] EXCEPT !.access = x]
      BY <3>1, <3>2, Zenon
    <3> QED BY <2>1, <3>2, <3>3 DEF Uop
  <2>6. Uop(op'[o])
    BY <2>1, <2>3, <2>4, <2>5 DEF Uop
  <2> QED BY <2>1, <2>5, <2>6
<1>11. \A o \in Sms : op'[o].kind = op[o].kind
  BY <1>8, <1>9, <1>10
<1>12. OpsOK'
  <2>1. ASSUME NEW o \in Sms PROVE OpOK(op'[o], cur'[o])
    <3>1. CASE o = s
      BY <1>2, <1>4, <1>9, <3>1 DEF OpOK
    <3>2. CASE o \in hit
      BY <1>2, <1>10, <3>2 DEF OpOK
    <3>3. CASE o # s /\ o \notin hit
      BY <1>2, <1>3, <1>8, <3>3
    <3> QED BY <3>1, <3>2, <3>3
  <2> QED BY <1>1, <1>8, <2>1, SameGeometry DEF OpsOK
<1>13. CurOK' /\ \A r : \A o \in Sms : Own(r, o) => Own(r, o)'
  BY <1>1, <1>2, CtasStay DEF LocalInv, CurOK
<1>14. GotOK'
  <2>1. ASSUME NEW o \in Sms, got[o].space = "local"
        PROVE  op'[o].kind # "st" /\ Own(got[o], o)
    BY <1>11, <2>1 DEF LocalInv, GotOK
  <2>2. DOMAIN got = Sms
    BY DEF LocalInv, GotOK
  <2> QED BY <1>2, <1>13, <2>1, <2>2 DEF GotOK
<1>15. RaceOK'
  <2>1. ASSUME NEW o \in Sms, Disturbed(op'[o]) PROVE raced'
    <3>1. CASE o = s
      BY <1>2, <1>7, <1>9, <2>1, <3>1 DEF Disturbed
    <3>2. CASE o \in hit
      BY <1>2, <3>2
    <3>3. CASE o # s /\ o \notin hit
      BY <1>2, <1>8, <2>1, <3>3 DEF LocalInv, RaceOK
    <3> QED BY <3>1, <3>2, <3>3
  <2> QED BY <2>1 DEF RaceOK, Disturbed
<1>16. MineOK'
  BY <1>1, <1>2, SameGeometry DEF LocalInv, MineOK
<1>17. Kept'
  <2>1. ~raced' => ~raced
    BY <1>2
  <2>2. ~raced => /\ Holds(local, mine)
                  /\ \A o \in Sms : got[o].space = "local" => Loaded(got[o], mine)
    BY DEF LocalInv, Kept
  <2> QED BY <1>1, <1>2, <2>1, <2>2, SameGeometry DEF Kept, Loaded
<1> QED BY <1>12, <1>13, <1>14, <1>15, <1>16, <1>17 DEF LocalInv

(* The launch starts: nothing is in local memory, nobody has loaded.       *)
LEMMA LaunchStep ==
    ASSUME ModeOK, WindowsFit, LocalInv, Launch
    PROVE  LocalInv'
<1>1. /\ mode = "launching" /\ launch' = launch /\ cur' = cur /\ op' = op /\ got' = got
      /\ local' = local /\ raced' = raced /\ todo' \in {todo, Below(NumCtas)}
  BY DEF Launch
<1>2. /\ op = [s \in Sms |-> NoOp] /\ got = [s \in Sms |-> NoLoad]
      /\ cur = [s \in Sms |-> NoCta] /\ todo = {}
      /\ mine = [t \in {} |-> 0] /\ local = [a \in {} |-> 0]
  BY <1>1 DEF LocalInv, MineOK
<1>3. OpsOK'
  BY <1>1, SameGeometry DEF LocalInv, OpsOK
<1>4. CurOK'
  <2>1. NumCtas' = NumCtas /\ Sms' = Sms /\ NoCta \notin Below(NumCtas)
    BY <1>1, SameGeometry DEF NoCta, Below
  <2>2. \A s \in Sms : cur'[s] = NoCta
    BY <1>1, <1>2
  <2> QED BY <1>1, <1>2, <2>1, <2>2 DEF CurOK, HasCta
<1>5. GotOK' /\ \A s \in Sms : got'[s].space # "local"
  BY <1>1, <1>2 DEF GotOK, NoLoad
<1>6. RaceOK'
  BY <1>1 DEF LocalInv, RaceOK, Disturbed
<1>7. CASE mode' = "running"
  <2>1. mine' = [t \in Threads |-> [k \in Below(LocalStride) |-> 0]]
    BY <1>7 DEF Launch
  <2>2. HasWindows(mine')
    BY <2>1 DEF HasWindows
  <2>3. Holds(local', mine')
    BY <1>1, <1>2, <2>1 DEF Holds, ByteAt
  <2>4. MineOK' /\ Kept'
    BY <1>1, <1>5, <1>7, <2>2, <2>3, SameGeometry DEF MineOK, Kept
  <2> QED BY <1>3, <1>4, <1>5, <1>6, <2>4 DEF LocalInv
<1>8. CASE mode' # "running"
  <2>1. mine' = mine /\ todo' = todo
    BY <1>8 DEF Launch
  <2>2. MineOK' /\ Kept'
    BY <1>1, <1>2, <1>8, <2>1 DEF MineOK, Kept
  <2> QED BY <1>3, <1>4, <1>5, <1>6, <2>2 DEF LocalInv
<1> QED BY <1>7, <1>8

LEMMA NextInv == IInv /\ [Next]_vars => IInv'
<1> SUFFICES ASSUME IInv, [Next]_vars PROVE IInv'
  OBVIOUS
<1>1. ModeOK /\ ModeOK' /\ launch' = launch
  BY LaunchFixed DEF IInv
<1>2. WindowsFit' <=> WindowsFit
  BY <1>1, SameGeometry
<1>3. ASSUME WindowsFit PROVE LocalInv'
  <2>1. LocalInv
    BY <1>3 DEF IInv
  <2>2. CASE Launch
    BY <1>1, <1>3, <2>1, <2>2, LaunchStep
  <2>3. ASSUME NEW s \in Sms, Worker(s) PROVE LocalInv'
    <3>1. mode = "running"
      <4>1. Idle(s) \/ op[s].kind \in {"ld", "st"}
        BY <2>3 DEF Worker, NextCta, Begin, Malformed, LoadParam, GlobalFault, GlobalLoad,
                    GlobalStore, LocalFault, LocalEnter, LocalLoad, LocalStore, EndUop, In
      <4>2. mode # "running" => op[s] = NoOp
        BY <2>1 DEF LocalInv, MineOK
      <4> QED BY <4>1, <4>2 DEF Idle, NoOp
    <3>2. CASE LocalEnter(s)
      BY <1>1, <1>3, <2>1, <3>1, <3>2, EnterStep
    <3>3. CASE LocalLoad(s)
      BY <1>1, <1>3, <2>1, <3>1, <3>3, LoadStep
    <3>4. CASE LocalStore(s)
      BY <1>1, <1>3, <2>1, <3>1, <3>4, StoreStep
    <3> QED BY <1>1, <2>1, <2>3, <3>1, <3>2, <3>3, <3>4, OtherSteps DEF Worker
  <2>4. CASE UNCHANGED vars
    <3>1. /\ launch' = launch /\ mode' = mode /\ op' = op /\ got' = got
          /\ cur' = cur /\ todo' = todo /\ mine' = mine /\ local' = local /\ raced' = raced
      BY <2>4 DEF vars
    <3>2. OpsOK'
      BY <2>1, <3>1, SameGeometry DEF LocalInv, OpsOK
    <3>3. CurOK' /\ GotOK'
      <4>1. \A n, s : Given(n, s)' <=> Given(n, s)
        BY <3>1 DEF Given
      <4> QED BY <2>1, <3>1, <4>1, SameGeometry DEF LocalInv, CurOK, HasCta, GotOK, Own
    <3>4. RaceOK' /\ MineOK' /\ Kept'
      BY <2>1, <3>1, SameGeometry DEF LocalInv, RaceOK, Disturbed, MineOK, Kept, Loaded
    <3> QED BY <3>2, <3>3, <3>4 DEF LocalInv
  <2> QED BY <2>2, <2>3, <2>4 DEF Next, Terminated
<1> QED BY <1>1, <1>2, <1>3 DEF IInv

(* As long as the places of a block's threads fit 32 bits and the addresses *)
(* of local memory the address space, and no accesses of two workers have  *)
(* raced on the unlocked local_, every window holds what its thread stored *)
(* and loads return it: whatever the launch, the CTA scheduler, the number *)
(* of workers, the sizes, the addresses and the interleaving.              *)
THEOREM WindowsStayPrivate == Spec => [](WindowsFit => LocalIsPrivate)
<1>1. IInv => (WindowsFit => LocalIsPrivate)
  BY InvPrivate
<1> QED BY InitInv, NextInv, <1>1, PTL DEF Spec

-----------------------------------------------------------------------------
(* Bytes as digits.                                                        *)

\* Induction.
LEMMA SetInduction ==
    ASSUME NEW T, 0 \in T, \A n \in Nat : n \in T => n + 1 \in T
    PROVE  Nat \subseteq T
<1> SUFFICES ASSUME Nat \ T # {} PROVE FALSE
  OBVIOUS
<1>1. PICK x \in Nat \ T : \A y \in Nat \ T : x <= y
  BY NatMin
<1>2. x - 1 \in Nat /\ x - 1 \in T
  BY <1>1
<1> QED BY <1>1, <1>2

\* The first n powers of B.
Powers(B, n, g) ==
    /\ g \in [0 .. n -> Nat \ {0}] /\ g[0] = 1
    /\ \A i \in 1 .. n : g[i] = B * g[i - 1]

LEMMA PowersExist ==
    ASSUME NEW B \in Nat \ {0}
    PROVE  \A n \in Nat : \E g : Powers(B, n, g)
<1> DEFINE T == {n \in Nat : \E g : Powers(B, n, g)}
<1>1. 0 \in T
  <2>1. Powers(B, 0, [i \in 0 .. 0 |-> 1])
    BY DEF Powers
  <2> QED BY <2>1
<1>2. ASSUME NEW n \in Nat, n \in T PROVE n + 1 \in T
  <2>1. PICK g : Powers(B, n, g)
    BY <1>2
  <2>2. PICK a \in Nat \ {0} : a = g[n]
    BY <2>1 DEF Powers
  <2>3. PICK c \in Nat \ {0} : c = B * a
    OBVIOUS
  <2> DEFINE h == [i \in 0 .. n + 1 |-> IF i = n + 1 THEN c ELSE g[i]]
  <2>4. h \in [0 .. n + 1 -> Nat \ {0}] /\ h[0] = 1
    BY <2>1 DEF Powers
  <2>5. ASSUME NEW i \in 1 .. n + 1 PROVE h[i] = B * h[i - 1]
    <3>1. CASE i = n + 1
      BY <2>2, <2>3, <3>1
    <3>2. CASE i # n + 1
      <4>1. i \in 1 .. n /\ h[i] = g[i] /\ h[i - 1] = g[i - 1]
        BY <3>2
      <4> QED BY <2>1, <4>1 DEF Powers
    <3> QED BY <3>1, <3>2
  <2>6. Powers(B, n + 1, h)
    BY <2>4, <2>5 DEF Powers
  <2> QED BY <2>6
<1> HIDE DEF T
<1>3. Nat \subseteq T
  BY <1>1, <1>2, SetInduction
<1> QED BY <1>3 DEF T

LEMMA PowersAgree ==
    ASSUME NEW B \in Nat \ {0}, NEW n \in Nat, NEW g, Powers(B, n, g), NEW m \in Nat, NEW h,
           Powers(B, m, h)
    PROVE  \A i \in Nat : i <= n /\ i <= m => g[i] = h[i]
<1> DEFINE T == {i \in Nat : i <= n /\ i <= m => g[i] = h[i]}
<1>1. 0 \in T
  BY DEF Powers
<1>2. ASSUME NEW i \in Nat, i \in T PROVE i + 1 \in T
  <2> SUFFICES ASSUME i + 1 <= n, i + 1 <= m PROVE g[i + 1] = h[i + 1]
    OBVIOUS
  <2>1. i + 1 \in 1 .. n /\ i + 1 \in 1 .. m /\ (i + 1) - 1 = i
    OBVIOUS
  <2>2. g[i + 1] = B * g[i] /\ h[i + 1] = B * h[i]
    BY <2>1 DEF Powers
  <2> QED BY <1>2, <2>2
<1> HIDE DEF T
<1>3. Nat \subseteq T
  BY <1>1, <1>2, SetInduction
<1> QED BY <1>3 DEF T

\* The weights are the powers of ByteBase.
LEMMA WeightFacts ==
    /\ Weight[0] = 1
    /\ \A n \in Nat : Weight[n] \in Nat \ {0} /\ Weight[n + 1] = ByteBase * Weight[n]
<1>1. PICK B \in Nat \ {0} : B = ByteBase
  BY MemUnitAssumption
<1> DEFINE w == [n \in Nat |-> CHOOSE y : \E g : Powers(B, n, g) /\ y = g[n]]
<1>2. ASSUME NEW n \in Nat PROVE \E g : Powers(B, n, g) /\ w[n] = g[n]
  BY PowersExist
<1> HIDE DEF w
<1>3. w[0] = 1
  BY <1>2 DEF Powers
<1>4. ASSUME NEW n \in Nat PROVE w[n] \in Nat \ {0} /\ w[n + 1] = B * w[n]
  <2>1. PICK g : Powers(B, n, g) /\ w[n] = g[n]
    BY <1>2
  <2>2. PICK h : Powers(B, n + 1, h) /\ w[n + 1] = h[n + 1]
    BY <1>2
  <2>3. g[n] = h[n]
    BY <2>1, <2>2, PowersAgree
  <2>4. n + 1 \in 1 .. n + 1 /\ (n + 1) - 1 = n /\ n \in 0 .. n
    OBVIOUS
  <2>5. h[n + 1] = B * h[n] /\ g[n] \in Nat \ {0}
    BY <2>1, <2>2, <2>4 DEF Powers
  <2> QED BY <2>1, <2>2, <2>3, <2>5
<1> DEFINE r(f) == [i \in Nat |-> IF i = 0 THEN 1 ELSE B * f[i - 1]]
<1>5. w = r(w)
  <2>1. DOMAIN w = Nat /\ w = [n \in Nat |-> w[n]]
    BY DEF w
  <2>2. ASSUME NEW n \in Nat PROVE w[n] = r(w)[n]
    <3>1. CASE n = 0
      BY <1>3, <3>1
    <3>2. CASE n # 0
      <4>1. n - 1 \in Nat /\ (n - 1) + 1 = n
        BY <3>2
      <4>2. w[(n - 1) + 1] = B * w[n - 1]
        BY <1>4, <4>1
      <4> QED BY <3>2, <4>1, <4>2
    <3> QED BY <3>1, <3>2
  <2> QED BY <2>1, <2>2
<1>6. Weight = CHOOSE f : f = r(f)
  BY <1>1 DEF Weight
<1> HIDE DEF r
<1>7. Weight = r(Weight)
  BY <1>5, <1>6
<1>8. \A n \in Nat : Weight[n] = IF n = 0 THEN 1 ELSE B * Weight[n - 1]
  <2>1. PICK v : v = Weight
    OBVIOUS
  <2>2. v = [i \in Nat |-> IF i = 0 THEN 1 ELSE B * v[i - 1]]
    BY <1>7, <2>1 DEF r
  <2>3. \A n \in Nat : v[n] = IF n = 0 THEN 1 ELSE B * v[n - 1]
    BY <2>2
  <2> QED BY <2>1, <2>3
<1>9. \A n \in Nat : Weight[n + 1] = B * Weight[n]
  BY <1>8
<1>10. \A n \in Nat : Weight[n] \in Nat \ {0}
  <2> DEFINE T == {n \in Nat : Weight[n] \in Nat \ {0}}
  <2>1. 0 \in T
    BY <1>8
  <2>2. ASSUME NEW n \in Nat, n \in T PROVE n + 1 \in T
    <3>1. PICK a \in Nat \ {0} : a = Weight[n]
      BY <2>2
    <3>2. B * a \in Nat \ {0}
      OBVIOUS
    <3> QED BY <1>9, <3>1, <3>2
  <2> HIDE DEF T
  <2>3. Nat \subseteq T
    BY <2>1, <2>2, SetInduction
  <2> QED BY <2>3 DEF T
<1> QED BY <1>1, <1>8, <1>9, <1>10

LEMMA WeightSum ==
    ASSUME NEW p \in Nat, NEW q \in Nat
    PROVE  Weight[p + q] = Weight[p] * Weight[q]
<1>1. PICK B \in Nat \ {0} : B = ByteBase
  BY MemUnitAssumption
<1>2. PICK a \in Nat \ {0} : a = Weight[p]
  BY WeightFacts
<1> DEFINE T == {n \in Nat : Weight[p + n] = a * Weight[n]}
<1>3. 0 \in T
  BY <1>2, WeightFacts
<1>4. ASSUME NEW n \in Nat, n \in T PROVE n + 1 \in T
  <2>1. PICK b \in Nat \ {0} : b = Weight[n]
    BY WeightFacts
  <2>2. Weight[p + n] = a * b
    BY <1>4, <2>1
  <2>3. Weight[n + 1] = B * b
    BY <1>1, <2>1, WeightFacts
  <2>4. PICK m \in Nat : m = p + n
    OBVIOUS
  <2>5. Weight[m + 1] = B * Weight[m] /\ m + 1 = p + (n + 1)
    BY <1>1, <2>4, WeightFacts
  <2>6. B * (a * b) = a * (B * b)
    OBVIOUS
  <2> QED BY <2>2, <2>3, <2>4, <2>5, <2>6
<1> HIDE DEF T
<1>5. Nat \subseteq T
  BY <1>3, <1>4, SetInduction
<1> QED BY <1>2, <1>5 DEF T

\* A byte of a number by its place.
DigitAt(v, j) == (v \div Weight[j]) % ByteBase

LEMMA DigitIs ==
    ASSUME NEW v \in Nat, NEW j \in Nat
    PROVE  DigitAt(v, j) \in 0 .. ByteBase - 1
<1>1. PICK B \in Nat \ {0}, a \in Nat \ {0} : B = ByteBase /\ a = Weight[j]
  BY MemUnitAssumption, WeightFacts
<1>2. PICK q \in Nat : q = v \div a
  BY DivMod
<1> QED BY <1>1, <1>2, DivMod DEF DigitAt

\* Cutting a number off above a byte does not change the byte.
LEMMA LowDigits ==
    ASSUME NEW v \in Nat, NEW m \in Nat, NEW j \in Nat, j < m
    PROVE  v % Weight[m] \in Nat /\ DigitAt(v % Weight[m], j) = DigitAt(v, j)
<1>1. PICK B \in Nat \ {0}, a \in Nat \ {0}, r \in Nat \ {0} :
        B = ByteBase /\ a = Weight[j] /\ r = Weight[m - j - 1]
  <2>1. m - j - 1 \in Nat
    OBVIOUS
  <2> QED BY <2>1, MemUnitAssumption, WeightFacts
<1>2. PICK w \in Nat \ {0} : w = Weight[m] /\ w = r * (B * a)
  <2>1. m - j - 1 \in Nat /\ m = (m - j - 1) + (j + 1) /\ j + 1 \in Nat
    OBVIOUS
  <2>2. Weight[(m - j - 1) + (j + 1)] = Weight[m - j - 1] * Weight[j + 1]
    BY <2>1, WeightSum
  <2>3. Weight[j + 1] = B * a
    BY <1>1, WeightFacts
  <2> QED BY <1>1, <2>1, <2>2, <2>3, WeightFacts
<1>3. PICK q \in Nat, y \in 0 .. w - 1 : y = v % w /\ v = q * w + y
  <2>1. v \in Nat
    OBVIOUS
  <2>2. v \div w \in Nat /\ v % w \in 0 .. w - 1 /\ v = (v \div w) * w + (v % w)
    BY <2>1, DivMod
  <2> QED BY <2>2, Zenon
<1>4. PICK s \in Nat, t \in 0 .. a - 1 : s = y \div a /\ y = s * a + t
  <2>1. y \in Nat
    OBVIOUS
  <2>2. y \div a \in Nat /\ y % a \in 0 .. a - 1 /\ y = (y \div a) * a + (y % a)
    BY <2>1, DivMod
  <2> QED BY <2>2, Zenon
<1>5. PICK u \in Nat, z \in 0 .. B - 1 : z = s % B /\ s = u * B + z
  <2>1. s \in Nat
    OBVIOUS
  <2>2. s \div B \in Nat /\ s % B \in 0 .. B - 1 /\ s = (s \div B) * B + (s % B)
    BY <2>1, DivMod
  <2> QED BY <2>2, Zenon
<1>6. PICK e \in Nat : e = q * r + u
  OBVIOUS
<1>7. PICK f \in Nat : f = e * B + z /\ f % B = z
  BY <1>6, Digits
<1>8. v = f * a + t
  <2>1. v = q * (r * (B * a)) + ((u * B + z) * a + t)
    BY <1>2, <1>3, <1>4, <1>5
  <2>2. f * a + t = ((q * r + u) * B + z) * a + t
    BY <1>6, <1>7
  <2>3. q * (r * (B * a)) + ((u * B + z) * a + t) = ((q * r + u) * B + z) * a + t
    OBVIOUS
  <2> QED BY <2>1, <2>2, <2>3
<1>9. v \div a = f
  BY <1>8, Digits
<1>10. DigitAt(v, j) = z
  BY <1>1, <1>7, <1>9, Zenon DEF DigitAt
<1>11. DigitAt(y, j) = z
  BY <1>1, <1>4, <1>5, Zenon DEF DigitAt
<1> QED BY <1>2, <1>3, <1>10, <1>11

\* Cutting bytes off below moves the others down.
LEMMA HighDigits ==
    ASSUME NEW v \in Nat, NEW p \in Nat
    PROVE  /\ v \div Weight[p] \in Nat
           /\ \A j \in Nat : DigitAt(v \div Weight[p], j) = DigitAt(v, p + j)
<1>1. PICK a \in Nat \ {0} : a = Weight[p]
  BY WeightFacts
<1>2. PICK d \in Nat : d = v \div a
  BY DivMod
<1>3. ASSUME NEW j \in Nat PROVE DigitAt(d, j) = DigitAt(v, p + j)
  <2>1. PICK b \in Nat \ {0} : b = Weight[j]
    BY WeightFacts
  <2>2. Weight[p + j] = a * b
    BY <1>1, <2>1, WeightSum
  <2>3. DivTwice(v, a, b)
    BY DivDiv, Zenon
  <2>4. d \div b = v \div (a * b)
    BY <1>2, <2>3 DEF DivTwice
  <2> QED BY <2>1, <2>2, <2>4 DEF DigitAt
<1> QED BY <1>1, <1>2, <1>3

\* The bytes of a word of a number are those of the number.
LEMMA WordDigits ==
    ASSUME NEW v \in Nat, NEW p \in Nat, NEW m \in Nat
    PROVE  /\ (v \div Weight[p]) % Weight[m] \in 0 .. Weight[m] - 1
           /\ \A j \in Nat : j < m =>
                DigitAt((v \div Weight[p]) % Weight[m], j) = DigitAt(v, p + j)
<1>1. PICK w \in Nat \ {0} : w = Weight[m]
  BY WeightFacts
<1>2. PICK d \in Nat : /\ d = v \div Weight[p]
                       /\ \A j \in Nat : DigitAt(d, j) = DigitAt(v, p + j)
  <2>1. /\ v \div Weight[p] \in Nat
        /\ \A j \in Nat : DigitAt(v \div Weight[p], j) = DigitAt(v, p + j)
    BY HighDigits
  <2> QED BY <2>1, Zenon
<1>3. d % w \in 0 .. w - 1
  BY DivMod
<1>4. ASSUME NEW j \in Nat, j < m
      PROVE  DigitAt(d % w, j) = DigitAt(v, p + j)
  BY <1>1, <1>2, <1>4, LowDigits
<1> QED BY <1>1, <1>2, <1>3, <1>4

\* The last of m + 1 bytes.
LEMMA TopDigit ==
    ASSUME NEW v \in Nat, NEW m \in Nat
    PROVE  v % Weight[m + 1] = DigitAt(v, m) * Weight[m] + (v % Weight[m])
<1>1. PICK B \in Nat \ {0}, a \in Nat \ {0} : B = ByteBase /\ a = Weight[m]
  BY MemUnitAssumption, WeightFacts
<1>2. PICK w \in Nat \ {0} : w = Weight[m + 1] /\ w = B * a
  BY <1>1, WeightFacts
<1>3. PICK q \in Nat, t \in 0 .. a - 1 : q = v \div a /\ t = v % a /\ v = q * a + t
  BY DivMod
<1>4. PICK u \in Nat, z \in 0 .. B - 1 : z = q % B /\ q = u * B + z
  BY DivMod
<1>5. PICK y \in Nat : y = z * a + t
  BY <1>4
<1>6. y < w
  <2>1. z \in Nat /\ z < B
    BY <1>4
  <2>2. z * a \in Nat /\ z * a + a <= B * a
    BY <2>1, RowsApart
  <2> QED BY <1>2, <1>3, <1>5, <2>2
<1>7. v = u * w + y
  <2>1. v = (u * B + z) * a + t
    BY <1>3, <1>4
  <2>2. (u * B + z) * a + t = u * (B * a) + (z * a + t)
    OBVIOUS
  <2> QED BY <1>2, <1>5, <2>1, <2>2
<1>8. v % w = y
  BY <1>6, <1>7, Digits
<1>9. DigitAt(v, m) = z
  BY <1>1, <1>3, <1>4, Zenon DEF DigitAt
<1> QED BY <1>1, <1>2, <1>3, <1>5, <1>8, <1>9

\* Numbers with the same m lowest bytes are the same up to there.
LEMMA SameNumber ==
    ASSUME NEW v \in Nat, NEW x \in Nat, NEW m \in Nat,
           \A j \in 0 .. m - 1 : DigitAt(v, j) = DigitAt(x, j)
    PROVE  v % Weight[m] = x % Weight[m]
<1> DEFINE T == {n \in Nat : n <= m => v % Weight[n] = x % Weight[n]}
<1>1. 0 \in T
  <2>1. Weight[0] = 1 /\ v % 1 = 0 /\ x % 1 = 0
    BY WeightFacts
  <2> QED BY <2>1
<1>2. ASSUME NEW n \in Nat, n \in T PROVE n + 1 \in T
  <2> SUFFICES ASSUME n + 1 <= m PROVE v % Weight[n + 1] = x % Weight[n + 1]
    OBVIOUS
  <2>1. v % Weight[n] = x % Weight[n] /\ DigitAt(v, n) = DigitAt(x, n)
    BY <1>2
  <2>2. PICK d : d = DigitAt(v, n) * Weight[n] + (v % Weight[n])
    OBVIOUS
  <2>3. v % Weight[n + 1] = d
    BY <2>2, TopDigit
  <2>4. d = DigitAt(x, n) * Weight[n] + (x % Weight[n])
    BY <2>1, <2>2
  <2>5. x % Weight[n + 1] = d
    BY <2>4, TopDigit
  <2> QED BY <2>3, <2>5
<1> HIDE DEF T
<1>3. Nat \subseteq T
  BY <1>1, <1>2, SetInduction
<1> QED BY <1>3 DEF T

\* The numbers that unpack_le goes through on the first n of some bytes.
Sums(bytes, n, f) ==
    /\ f \in [0 .. n -> Nat] /\ f[0] = 0
    /\ \A i \in 1 .. n : f[i] = f[i - 1] + bytes[i] * Weight[i - 1]

LEMMA SumsExist ==
    ASSUME NEW n \in Nat, NEW bytes, \A i \in 1 .. n : bytes[i] \in Nat
    PROVE  \E f : Sums(bytes, n, f)
<1> DEFINE T == {m \in Nat : m <= n => \E f : Sums(bytes, m, f)}
<1>1. 0 \in T
  <2>1. Sums(bytes, 0, [i \in 0 .. 0 |-> 0])
    BY DEF Sums
  <2> QED BY <2>1
<1>2. ASSUME NEW m \in Nat, m \in T PROVE m + 1 \in T
  <2> SUFFICES ASSUME m + 1 <= n PROVE \E f : Sums(bytes, m + 1, f)
    OBVIOUS
  <2>1. PICK f : Sums(bytes, m, f)
    BY <1>2
  <2>2. PICK a \in Nat, b \in Nat, w \in Nat : a = f[m] /\ b = bytes[m + 1] /\ w = Weight[m]
    <3>1. m \in 0 .. m /\ m + 1 \in 1 .. n
      OBVIOUS
    <3>2. f[m] \in Nat /\ bytes[m + 1] \in Nat
      BY <2>1, <3>1 DEF Sums
    <3>3. Weight[m] \in Nat
      BY WeightFacts
    <3> QED BY <3>2, <3>3, Zenon
  <2>3. PICK c \in Nat : c = a + b * w
    OBVIOUS
  <2> DEFINE h == [i \in 0 .. m + 1 |-> IF i = m + 1 THEN c ELSE f[i]]
  <2>4. h \in [0 .. m + 1 -> Nat] /\ h[0] = 0
    BY <2>1 DEF Sums
  <2>5. ASSUME NEW i \in 1 .. m + 1 PROVE h[i] = h[i - 1] + bytes[i] * Weight[i - 1]
    <3>1. CASE i = m + 1
      <4>1. i - 1 = m /\ h[i] = c /\ h[i - 1] = f[m]
        BY <3>1
      <4> QED BY <2>2, <2>3, <3>1, <4>1, Zenon
    <3>2. CASE i # m + 1
      <4>1. i \in 1 .. m /\ h[i] = f[i] /\ h[i - 1] = f[i - 1]
        BY <3>2
      <4> QED BY <2>1, <4>1, Zenon DEF Sums
    <3> QED BY <3>1, <3>2
  <2>6. Sums(bytes, m + 1, h)
    BY <2>4, <2>5 DEF Sums
  <2> QED BY <2>6
<1> HIDE DEF T
<1>3. Nat \subseteq T
  BY <1>1, <1>2, SetInduction
<1> QED BY <1>3 DEF T

\* unpack_le takes the last of them.
LEMMA UnpackSums ==
    ASSUME NEW n \in Nat, NEW bytes, Len(bytes) = n, \A i \in 1 .. n : bytes[i] \in Nat
    PROVE  \E f : Sums(bytes, n, f) /\ UnpackLe(bytes) = f[n]
<1> DEFINE r(f) == [i \in 0 .. n |-> IF i = 0 THEN 0 ELSE f[i - 1] + bytes[i] * Weight[i - 1]]
<1>1. PICK g : Sums(bytes, n, g)
  BY SumsExist
<1>2. g = r(g)
  <2>1. DOMAIN g = 0 .. n /\ g = [i \in 0 .. n |-> g[i]]
    BY <1>1 DEF Sums
  <2>2. ASSUME NEW i \in 0 .. n PROVE g[i] = r(g)[i]
    <3>1. CASE i = 0
      BY <1>1, <3>1 DEF Sums
    <3>2. CASE i # 0
      <4>1. i \in 1 .. n
        BY <3>2
      <4>2. g[i] = g[i - 1] + bytes[i] * Weight[i - 1]
        BY <1>1, <4>1, Zenon DEF Sums
      <4> QED BY <3>2, <4>2, Zenon
    <3> QED BY <3>1, <3>2
  <2> QED BY <2>1, <2>2, Zenon
<1> DEFINE f == CHOOSE h : h = r(h)
<1>3. UnpackLe(bytes) = f[n]
  BY Zenon DEF UnpackLe
<1> HIDE DEF r
<1>4. f = r(f)
  BY <1>2, Zenon
<1> HIDE DEF f
<1>5. DOMAIN f = 0 .. n /\ f[0] = 0 /\ \A i \in 1 .. n : f[i] = f[i - 1] + bytes[i] * Weight[i - 1]
  <2>1. PICK v : v = f
    OBVIOUS
  <2>2. v = [i \in 0 .. n |-> IF i = 0 THEN 0 ELSE v[i - 1] + bytes[i] * Weight[i - 1]]
    BY <1>4, <2>1, Zenon DEF r
  <2>3. DOMAIN v = 0 .. n /\ \A i \in 0 .. n : v[i] = IF i = 0 THEN 0 ELSE v[i - 1] + bytes[i] * Weight[i - 1]
    BY <2>2, Zenon
  <2>4. ASSUME NEW i \in 1 .. n PROVE v[i] = v[i - 1] + bytes[i] * Weight[i - 1]
    <3>1. i \in 0 .. n /\ i # 0
      OBVIOUS
    <3> QED BY <2>3, <3>1, Zenon
  <2>5. 0 \in 0 .. n
    OBVIOUS
  <2> QED BY <2>1, <2>3, <2>4, <2>5, Zenon
<1>6. \A i \in 0 .. n : f[i] \in Nat
  <2> DEFINE T == {i \in Nat : i <= n => f[i] \in Nat}
  <2>1. 0 \in T
    BY <1>5
  <2>2. ASSUME NEW i \in Nat, i \in T PROVE i + 1 \in T
    <3> SUFFICES ASSUME i + 1 <= n PROVE f[i + 1] \in Nat
      OBVIOUS
    <3>1. i + 1 \in 1 .. n /\ (i + 1) - 1 = i
      OBVIOUS
    <3>2. PICK a \in Nat, b \in Nat, w \in Nat : a = f[i] /\ b = bytes[i + 1] /\ w = Weight[i]
      <4>1. f[i] \in Nat /\ bytes[i + 1] \in Nat
        BY <2>2, <3>1
      <4>2. Weight[i] \in Nat
        BY WeightFacts
      <4> QED BY <4>1, <4>2, Zenon
    <3>3. f[i + 1] = a + b * w
      BY <1>5, <3>1, <3>2, Zenon
    <3>4. a + b * w \in Nat
      OBVIOUS
    <3> QED BY <3>3, <3>4
  <2> HIDE DEF T
  <2>3. Nat \subseteq T
    BY <2>1, <2>2, SetInduction
  <2> QED BY <2>3 DEF T
<1>7. f \in [0 .. n -> Nat]
  <2>1. f = [i \in 0 .. n |-> f[i]]
    BY <1>4, Zenon DEF r
  <2> QED BY <1>6, <2>1
<1>8. Sums(bytes, n, f)
  BY <1>5, <1>7 DEF Sums
<1> QED BY <1>3, <1>8

\* It puts every byte in its place.
LEMMA Unpacked ==
    ASSUME NEW n \in Nat, NEW bytes, Len(bytes) = n,
           \A i \in 1 .. n : bytes[i] \in 0 .. ByteBase - 1
    PROVE  /\ UnpackLe(bytes) \in Nat
           /\ \A j \in 0 .. n - 1 : DigitAt(UnpackLe(bytes), j) = bytes[j + 1]
<1>1. PICK B \in Nat \ {0} : B = ByteBase
  BY MemUnitAssumption
<1>2. \A i \in 1 .. n : bytes[i] \in Nat
  BY <1>1
<1>3. PICK f : Sums(bytes, n, f) /\ UnpackLe(bytes) = f[n]
  BY <1>2, UnpackSums
<1> DEFINE T == {m \in Nat : m <= n => /\ f[m] \in 0 .. Weight[m] - 1
                                       /\ \A j \in 0 .. m - 1 : DigitAt(f[m], j) = bytes[j + 1]}
<1>4. 0 \in T
  <2>1. f[0] = 0 /\ Weight[0] = 1
    BY <1>3, WeightFacts DEF Sums
  <2> QED BY <2>1
<1>5. ASSUME NEW m \in Nat, m \in T PROVE m + 1 \in T
  <2> SUFFICES ASSUME m + 1 <= n
               PROVE  /\ f[m + 1] \in 0 .. Weight[m + 1] - 1
                      /\ \A j \in 0 .. m : DigitAt(f[m + 1], j) = bytes[j + 1]
    OBVIOUS
  <2>1. m + 1 \in 1 .. n /\ (m + 1) - 1 = m
    OBVIOUS
  <2>2. PICK w \in Nat \ {0} : w = Weight[m]
    BY WeightFacts
  <2>3. PICK a \in 0 .. w - 1, b \in 0 .. B - 1 : a = f[m] /\ b = bytes[m + 1]
    BY <1>1, <1>5, <2>1, <2>2
  <2>4. PICK s \in Nat : s = b * w + a /\ s \div w = b /\ s % w = a
    <3>1. b \in Nat
      OBVIOUS
    <3>2. b * w + a \in Nat /\ (b * w + a) \div w = b /\ (b * w + a) % w = a
      BY <3>1, Digits
    <3> QED BY <3>2, Zenon
  <2>5. f[m + 1] = s
    <3>1. f[m + 1] = a + b * w
      BY <1>3, <2>1, <2>2, <2>3, Zenon DEF Sums
    <3> QED BY <2>4, <3>1
  <2>6. s < Weight[m + 1]
    <3>1. b \in Nat /\ b < B
      OBVIOUS
    <3>2. b * w \in Nat /\ b * w + w <= B * w
      BY <3>1, RowsApart
    <3>3. Weight[m + 1] = B * w
      BY <1>1, <2>2, WeightFacts
    <3> QED BY <2>4, <3>2, <3>3
  <2>7. DigitAt(s, m) = b
    <3>1. b % B = b
      OBVIOUS
    <3> QED BY <1>1, <2>2, <2>4, <3>1 DEF DigitAt
  <2>8. ASSUME NEW j \in 0 .. m, j # m PROVE DigitAt(s, j) = bytes[j + 1]
    <3>1. j \in Nat /\ j < m /\ j \in 0 .. m - 1
      BY <2>8
    <3>2. DigitAt(s % Weight[m], j) = DigitAt(s, j)
      BY <3>1, LowDigits
    <3>3. DigitAt(a, j) = bytes[j + 1]
      BY <1>5, <2>1, <2>3, <3>1
    <3> QED BY <2>2, <2>4, <3>2, <3>3
  <2>9. \A j \in 0 .. m : DigitAt(s, j) = bytes[j + 1]
    BY <2>3, <2>7, <2>8
  <2>10. Weight[m + 1] \in Nat
    <3>1. m + 1 \in Nat
      OBVIOUS
    <3> QED BY <3>1, WeightFacts
  <2> QED BY <2>5, <2>6, <2>9, <2>10
<1> HIDE DEF T
<1>6. Nat \subseteq T
  BY <1>4, <1>5, SetInduction
<1>7. /\ f[n] \in 0 .. Weight[n] - 1
      /\ \A j \in 0 .. n - 1 : DigitAt(f[n], j) = bytes[j + 1]
  BY <1>6 DEF T
<1> QED BY <1>3, <1>7

LEMMA PackDigits ==
    ASSUME NEW v, NEW n \in Nat, NEW j \in 0 .. n - 1
    PROVE  PackLe(v, n)[j + 1] = DigitAt(v, j)
<1>1. j + 1 \in 1 .. n /\ (j + 1) - 1 = j
  OBVIOUS
<1> QED BY <1>1, Zenon DEF PackLe, DigitAt

-----------------------------------------------------------------------------
(* Words of memory.                                                        *)

LEMMA SmallIs ==
    ASSUME Sizes # {}
    PROVE  SmallSize \in Sizes /\ SmallSize \in Nat \ {0}
<1>1. Sizes \subseteq Nat \ {0}
  BY MemUnitAssumption
<1>2. \E x \in Sizes : \A y \in Sizes : x <= y
  BY <1>1, NatMin
<1>3. SmallSize \in Sizes
  BY <1>2, Zenon DEF SmallSize
<1> QED BY <1>1, <1>3

\* The words of a value of s words.
LEMMA PartsAre ==
    ASSUME NEW K \in Nat \ {0}, K = SmallSize, NEW s \in Nat, NEW v \in Nat
    PROVE  Parts(v, K * s) = {(v \div Weight[K * i]) % Weight[K] : i \in 0 .. s - 1}
<1>1. (K * s) \div K = s /\ K * s \in Nat
  <2>1. s * K + 0 = K * s /\ 0 \in 0 .. K - 1
    OBVIOUS
  <2> QED BY <2>1, Digits
<1>2. Below(s) = 0 .. s - 1
  BY BelowIs
<1> QED BY <1>1, <1>2, Zenon DEF Parts

\* They are words, and their bytes are those of the value.
LEMMA PartIs ==
    ASSUME NEW K \in Nat \ {0}, NEW v \in Nat, NEW i \in Nat
    PROVE  LET x == (v \div Weight[K * i]) % Weight[K]
           IN  /\ x \in Nat /\ x < Weight[K]
               /\ \A j \in 0 .. K - 1 : DigitAt(x, j) = DigitAt(v, K * i + j)
<1>1. PICK p \in Nat : p = K * i
  OBVIOUS
<1>2. PICK w \in Nat \ {0} : w = Weight[K]
  BY WeightFacts
<1>3. PICK x : x = (v \div Weight[p]) % w
  OBVIOUS
<1>4. K \in Nat
  OBVIOUS
<1>5. x \in 0 .. w - 1
  BY <1>2, <1>3, <1>4, WordDigits
<1>6. \A j \in Nat : j < K => DigitAt(x, j) = DigitAt(v, p + j)
  BY <1>2, <1>3, <1>4, WordDigits
<1> QED BY <1>1, <1>2, <1>3, <1>5, <1>6

\* Values of one of the smallest accesses.
WordSet(S) == \A x \in S : x \in Nat /\ x < Weight[SmallSize]

\* These bytes are s words of S.
Composed(bytes, s, S) ==
    /\ s \in Nat /\ Len(bytes) = SmallSize * s
    /\ \A i \in 0 .. s - 1 : \E x \in S :
         \A j \in 0 .. SmallSize - 1 : bytes[SmallSize * i + j + 1] = DigitAt(x, j)

\* A load of s words gives the words it reads.
LEMMA WordsRead ==
    ASSUME SmallSize \in Nat \ {0}, NEW s, NEW bytes, NEW S, WordSet(S), Composed(bytes, s, S)
    PROVE  Parts(UnpackLe(bytes), Len(bytes)) \subseteq S
<1> PICK K \in Nat \ {0} : K = SmallSize
  OBVIOUS
<1> USE DEF WordSet, Composed
<1>1. PICK n \in Nat : n = K * s
  OBVIOUS
<1>2. ASSUME NEW i \in 1 .. n PROVE bytes[i] \in 0 .. ByteBase - 1
  <2>1. PICK a \in Nat : a = i - 1
    OBVIOUS
  <2>2. PICK q \in Nat, r \in 0 .. K - 1 : q = a \div K /\ a = q * K + r
    <3>1. a \div K \in Nat /\ a % K \in 0 .. K - 1 /\ a = (a \div K) * K + (a % K)
      BY DivMod
    <3> QED BY <3>1, Zenon
  <2>3. q < s
    <3>1. a < s * K
      BY <1>1, <2>1
    <3> QED BY <2>2, <3>1, InRow
  <2>4. q \in 0 .. s - 1
    BY <2>3
  <2>5. PICK x \in S : \A j \in 0 .. K - 1 : bytes[K * q + j + 1] = DigitAt(x, j)
    BY <2>4, Zenon
  <2>6. i = K * q + r + 1
    BY <2>1, <2>2
  <2>7. bytes[i] = DigitAt(x, r)
    BY <2>5, <2>6, Zenon
  <2>8. x \in Nat /\ r \in Nat
    BY <2>5
  <2> QED BY <2>7, <2>8, DigitIs
<1>3. PICK v \in Nat : /\ v = UnpackLe(bytes)
                       /\ \A j \in 0 .. n - 1 : DigitAt(v, j) = bytes[j + 1]
  BY <1>1, <1>2, Unpacked
<1>4. ASSUME NEW i \in 0 .. s - 1 PROVE (v \div Weight[K * i]) % Weight[K] \in S
  <2>1. PICK p \in Nat : p = K * i /\ p + K <= n
    <3>1. i \in Nat /\ i < s
      OBVIOUS
    <3>2. i * K \in Nat /\ i * K + K <= s * K
      BY <3>1, RowsApart
    <3> QED BY <1>1, <3>2
  <2>2. PICK x \in S : \A j \in 0 .. K - 1 : bytes[p + j + 1] = DigitAt(x, j)
    BY <2>1
  <2>3. x \in Nat /\ x < Weight[K]
    BY <2>2
  <2>4. PICK w \in Nat \ {0} : w = Weight[K]
    BY WeightFacts
  <2>5. PICK d \in Nat : /\ d = v \div Weight[p]
                         /\ \A j \in Nat : DigitAt(d, j) = DigitAt(v, p + j)
    <3>1. /\ v \div Weight[p] \in Nat
          /\ \A j \in Nat : DigitAt(v \div Weight[p], j) = DigitAt(v, p + j)
      BY HighDigits
    <3> QED BY <3>1, Zenon
  <2>6. ASSUME NEW j \in 0 .. K - 1 PROVE DigitAt(d, j) = DigitAt(x, j)
    <3>1. p + j \in 0 .. n - 1
      BY <2>1
    <3>2. DigitAt(v, p + j) = bytes[p + j + 1]
      BY <1>3, <3>1
    <3>3. j \in Nat
      OBVIOUS
    <3>4. DigitAt(d, j) = DigitAt(v, p + j)
      BY <2>5, <3>3, Zenon
    <3>5. bytes[p + j + 1] = DigitAt(x, j)
      BY <2>2, Zenon
    <3> QED BY <3>2, <3>4, <3>5
  <2>7. d % Weight[K] = x % Weight[K]
    BY <2>3, <2>6, SameNumber
  <2>8. x % w = x
    BY <2>3, <2>4
  <2> QED BY <2>1, <2>2, <2>4, <2>5, <2>7, <2>8
<1>5. Parts(v, K * s) = {(v \div Weight[K * i]) % Weight[K] : i \in 0 .. s - 1}
  BY PartsAre
<1>6. Parts(v, K * s) \subseteq S
  BY <1>4, <1>5
<1> QED BY <1>3, <1>6

\* What words of global memory may be: those stored so far, and zero.
StoredWords == {0} \cup UNION {Parts(x.value, x.size) : x \in stored}

StoredOK == \A x \in stored : x.value \in Nat /\ x.size \in Sizes

\* Every word of a memory is one of the words in S.
WordsFrom(mem, S) ==
    \A m \in Nat : \E x \in S :
      \A j \in 0 .. SmallSize - 1 : ByteAt(mem, SmallSize * m + j) = DigitAt(x, j)

\* An access starts with a word and has a number of words.
LEMMA SizeInWords ==
    ASSUME WordSizes, NEW n \in Sizes
    PROVE  /\ SmallSize \in Nat \ {0} /\ n \in Nat
           /\ \E s \in Nat : n = SmallSize * s
           /\ \A a \in Nat : Aligned(a, n) => \E m \in Nat : a = SmallSize * m
<1>1. PICK K \in Nat \ {0} : K = SmallSize
  BY SmallIs
<1>2. n \in Nat \ {0} /\ n % K = 0
  BY <1>1, MemUnitAssumption DEF WordSizes
<1>3. PICK s \in Nat : n = s * K
  <2>1. n \div K \in Nat /\ n = (n \div K) * K + (n % K)
    BY <1>2, DivMod
  <2>2. PICK s \in Nat : s = n \div K
    BY <2>1
  <2> QED BY <1>2, <2>1, <2>2
<1>4. ASSUME NEW a \in Nat, Aligned(a, n) PROVE \E m \in Nat : a = K * m
  <2>1. a \div n \in Nat /\ a = (a \div n) * n + (a % n)
    BY <1>2, DivMod
  <2>2. PICK q \in Nat : a = q * n
    <3>1. PICK q \in Nat : q = a \div n
      BY <2>1
    <3>2. a % n = 0
      BY <1>4 DEF Aligned
    <3>3. a = q * n
      BY <1>2, <2>1, <3>1, <3>2
    <3> QED BY <3>3
  <2>3. PICK m \in Nat : m = q * s
    OBVIOUS
  <2>4. a = K * m
    <3>1. q * (s * K) = K * (q * s)
      OBVIOUS
    <3> QED BY <1>3, <2>2, <2>3, <3>1
  <2> QED BY <2>4
<1>5. n = K * s
  BY <1>3
<1> QED BY <1>1, <1>2, <1>4, <1>5

LEMMA StoredAre ==
    ASSUME WordSizes, Sizes # {}, StoredOK
    PROVE  WordSet(StoredWords)
<1>1. PICK K \in Nat \ {0} : K = SmallSize
  BY SmallIs
<1>2. 0 < Weight[K]
  BY WeightFacts
<1>3. ASSUME NEW y \in stored, NEW x \in Parts(y.value, y.size)
      PROVE  x \in Nat /\ x < Weight[K]
  <2>1. PICK v \in Nat : v = y.value
    BY DEF StoredOK
  <2>2. PICK s \in Nat : y.size = K * s
    BY <1>1, SizeInWords DEF StoredOK
  <2>3. PICK i \in 0 .. s - 1 : x = (v \div Weight[K * i]) % Weight[K]
    <3>1. Parts(v, K * s) = {(v \div Weight[K * h]) % Weight[K] : h \in 0 .. s - 1}
      BY <1>1, PartsAre
    <3>2. x \in Parts(v, K * s)
      BY <1>3, <2>1, <2>2
    <3> QED BY <3>1, <3>2, Zenon
  <2>4. i \in Nat
    OBVIOUS
  <2> QED BY <2>3, <2>4, PartIs
<1> QED BY <1>1, <1>2, <1>3 DEF StoredWords, WordSet

\* A load from global memory.
LEMMA WholeRead ==
    ASSUME WordSizes, NEW mem, NEW S, WordSet(S), WordsFrom(mem, S),
           NEW a \in Nat, NEW n \in Sizes, Aligned(a, n)
    PROVE  LET bytes == ReadSparse(mem, a, n)
           IN  Parts(UnpackLe(bytes), Len(bytes)) \subseteq S
<1>1. PICK K \in Nat \ {0} : K = SmallSize
  BY SizeInWords
<1>2. PICK s \in Nat, m \in Nat : n = K * s /\ a = K * m /\ n \in Nat
  BY <1>1, SizeInWords
<1> DEFINE bytes == ReadSparse(mem, a, n)
<1>3. Len(bytes) = K * s /\ \A i \in 1 .. K * s : bytes[i] = ByteAt(mem, a + i - 1)
  BY <1>2 DEF ReadSparse
<1> HIDE DEF bytes
<1>4. ASSUME NEW i \in 0 .. s - 1
      PROVE  \E x \in S : \A j \in 0 .. K - 1 : bytes[K * i + j + 1] = DigitAt(x, j)
  <2>1. m + i \in Nat
    OBVIOUS
  <2>2. PICK x \in S : \A j \in 0 .. K - 1 : ByteAt(mem, K * (m + i) + j) = DigitAt(x, j)
    BY <1>1, <2>1 DEF WordsFrom
  <2>3. ASSUME NEW j \in 0 .. K - 1 PROVE bytes[K * i + j + 1] = DigitAt(x, j)
    <3>1. PICK p \in Nat : p = K * i /\ p + K <= K * s
      <4>1. i \in Nat /\ i < s
        OBVIOUS
      <4>2. i * K \in Nat /\ i * K + K <= s * K
        BY <4>1, RowsApart
      <4> QED BY <4>2
    <3>2. p + j + 1 \in 1 .. K * s
      BY <3>1
    <3>3. bytes[p + j + 1] = ByteAt(mem, a + (p + j + 1) - 1)
      BY <1>3, <3>2, Zenon
    <3>4. a + (p + j + 1) - 1 = K * (m + i) + j
      BY <1>2, <3>1
    <3> QED BY <2>2, <3>1, <3>3, <3>4, Zenon
  <2> QED BY <2>3
<1>5. Composed(bytes, s, S)
  BY <1>1, <1>3, <1>4 DEF Composed
<1>6. Parts(UnpackLe(bytes), Len(bytes)) \subseteq S
  BY <1>1, <1>5, WordsRead
<1> QED BY <1>6 DEF bytes

\* A store to global memory.
LEMMA WholeWrite ==
    ASSUME WordSizes, NEW mem, NEW S, WordsFrom(mem, S),
           NEW a \in Nat, NEW n \in Sizes, Aligned(a, n),
           NEW v \in Nat, NEW R, S \subseteq R, Parts(v, n) \subseteq R
    PROVE  WordsFrom(WriteSparse(mem, a, PackLe(v, n)), R)
<1>1. PICK K \in Nat \ {0} : K = SmallSize
  BY SizeInWords
<1>2. PICK s \in Nat, b \in Nat : n = K * s /\ a = K * b /\ n \in Nat
  BY <1>1, SizeInWords
<1> DEFINE bytes == PackLe(v, n)
           mem2  == WriteSparse(mem, a, bytes)
<1>3. Len(bytes) = n
  BY <1>2, Packed
<1> HIDE DEF bytes
<1>4. ASSUME NEW x \in Nat
      PROVE  /\ x \in a .. a + n - 1 => ByteAt(mem2, x) = bytes[x - a + 1]
             /\ x \notin a .. a + n - 1 => ByteAt(mem2, x) = ByteAt(mem, x)
  BY <1>2, <1>3, Written
<1> HIDE DEF mem2
<1>5. ASSUME NEW m \in Nat
      PROVE  \E x \in R : \A j \in 0 .. K - 1 : ByteAt(mem2, K * m + j) = DigitAt(x, j)
  <2>1. PICK c \in Nat : c = K * m
    OBVIOUS
  <2>2. CASE m \in b .. b + s - 1
    <3>1. PICK i \in 0 .. s - 1 : i = m - b
      BY <2>2
    <3>2. PICK x \in Parts(v, K * s) : \A j \in 0 .. K - 1 : DigitAt(x, j) = DigitAt(v, K * i + j)
      <4>1. PICK x : x = (v \div Weight[K * i]) % Weight[K]
        OBVIOUS
      <4>2. x \in Parts(v, K * s)
        <5>1. Parts(v, K * s) = {(v \div Weight[K * h]) % Weight[K] : h \in 0 .. s - 1}
          BY <1>1, PartsAre
        <5> QED BY <4>1, <5>1, Zenon
      <4>3. i \in Nat
        OBVIOUS
      <4>4. \A j \in 0 .. K - 1 :
              DigitAt((v \div Weight[K * i]) % Weight[K], j) = DigitAt(v, K * i + j)
        BY <4>3, PartIs, Zenon
      <4> QED BY <4>1, <4>2, <4>4, Zenon
    <3>3. PICK p \in Nat : p = K * i /\ p + K <= n
      <4>1. i \in Nat /\ i < s
        OBVIOUS
      <4>2. i * K \in Nat /\ i * K + K <= s * K
        BY <4>1, RowsApart
      <4> QED BY <1>2, <4>2
    <3>4. c = a + p
      BY <1>2, <2>1, <3>1, <3>3
    <3>5. ASSUME NEW j \in 0 .. K - 1 PROVE ByteAt(mem2, c + j) = DigitAt(x, j)
      <4>1. c + j \in Nat /\ c + j \in a .. a + n - 1 /\ (c + j) - a + 1 = (p + j) + 1
        BY <1>2, <3>3, <3>4
      <4>2. ByteAt(mem2, c + j) = bytes[(p + j) + 1]
        BY <1>4, <4>1
      <4>3. p + j \in 0 .. n - 1
        BY <1>2, <3>3
      <4>4. bytes[(p + j) + 1] = DigitAt(v, p + j)
        BY <1>2, <4>3, PackDigits DEF bytes
      <4> QED BY <3>2, <3>3, <4>2, <4>4
    <3> QED BY <1>2, <2>1, <3>2, <3>5
  <2>3. CASE m \notin b .. b + s - 1
    <3>1. PICK x \in S : \A j \in 0 .. K - 1 : ByteAt(mem, K * m + j) = DigitAt(x, j)
      BY <1>1 DEF WordsFrom
    <3>2. c + K <= a \/ a + n <= c
      <4>1. CASE m < b
        <5>1. m * K + K <= b * K
          BY <4>1, RowsApart
        <5> QED BY <1>2, <2>1, <5>1
      <4>2. CASE b + s <= m
        <5>1. (b + s) * K <= m * K
          <6>1. CASE b + s = m
            BY <6>1
          <6>2. CASE b + s < m
            BY <6>2, RowsApart
          <6> QED BY <4>2, <6>1, <6>2
        <5>2. (b + s) * K = K * b + K * s
          OBVIOUS
        <5> QED BY <1>2, <2>1, <5>1, <5>2
      <4> QED BY <2>3, <4>1, <4>2
    <3>3. ASSUME NEW j \in 0 .. K - 1 PROVE ByteAt(mem2, c + j) = DigitAt(x, j)
      <4>1. c + j \in Nat /\ c + j \notin a .. a + n - 1
        BY <1>2, <3>2
      <4>2. ByteAt(mem2, c + j) = ByteAt(mem, c + j)
        BY <1>4, <4>1
      <4> QED BY <2>1, <3>1, <4>2
    <3> QED BY <2>1, <3>1, <3>3
  <2> QED BY <2>2, <2>3
<1>6. WordsFrom(mem2, R)
  BY <1>1, <1>5 DEF WordsFrom
<1> QED BY <1>6 DEF mem2, bytes

\* The words of the arguments packed for the launch, and what else is in the
\* blob.
ParamWords == UNION {Parts(Params[p].value, Params[p].size) : p \in DOMAIN Params}
BlobWords  == IF NoPadding THEN ParamWords ELSE {0} \cup ParamWords

\* Where a parameter lies, in words.
LEMMA ParamInWords ==
    ASSUME ParamsApart, NEW K \in Nat \ {0}, K = SmallSize, NEW p \in DOMAIN Params
    PROVE  /\ {Params[p].offset, Params[p].value, Params[p].size} \subseteq Nat
           /\ \E o \in Nat, s \in Nat : Params[p].offset = K * o /\ Params[p].size = K * s
<1>1. PICK o \in Nat, s \in Nat, v \in Nat :
        o = Params[p].offset /\ s = Params[p].size /\ v = Params[p].value
  BY DEF ParamsApart
<1>2. o % K = 0 /\ s % K = 0
  BY <1>1 DEF ParamsApart
<1>3. ASSUME NEW a \in Nat, a % K = 0 PROVE \E q \in Nat : a = K * q
  <2>1. a \div K \in Nat /\ a = (a \div K) * K + (a % K)
    BY DivMod
  <2>2. PICK q \in Nat : q = a \div K
    BY <2>1
  <2> QED BY <1>3, <2>1, <2>2
<1>4. (\E q \in Nat : o = K * q) /\ \E q \in Nat : s = K * q
  BY <1>2, <1>3
<1> QED BY <1>1, <1>4

\* A byte of a parameter is one of its argument.
LEMMA ParamByteIs ==
    ASSUME ParamsApart, NEW p \in DOMAIN Params, NEW c \in Nat,
           c \in Params[p].offset .. Params[p].offset + Params[p].size - 1
    PROVE  ParamByte(c) = DigitAt(Params[p].value, c - Params[p].offset)
<1> DEFINE In0(q) == c \in Params[q].offset .. Params[q].offset + Params[q].size - 1
<1>1. ASSUME NEW q \in DOMAIN Params, In0(q) PROVE q = p
  <2> SUFFICES ASSUME q # p PROVE FALSE
    OBVIOUS
  <2>1. PICK a \in Nat, b \in Nat, d \in Nat, e \in Nat :
          /\ a = Params[p].offset /\ b = Params[p].size
          /\ d = Params[q].offset /\ e = Params[q].size
    BY DEF ParamsApart
  <2>2. a + b <= d \/ d + e <= a
    BY <2>1 DEF ParamsApart
  <2>3. c \in a .. a + b - 1 /\ c \in d .. d + e - 1
    BY <1>1, <2>1
  <2> QED BY <2>2, <2>3
<1>2. In0(p)
  OBVIOUS
<1>3. (CHOOSE q \in DOMAIN Params : In0(q)) = p
  <2> HIDE DEF In0
  <2> QED BY <1>1, <1>2, Zenon
<1>4. ParamByte(c) = PackLe(Params[p].value, Params[p].size)[c - Params[p].offset + 1]
  BY <1>2, <1>3, Zenon DEF ParamByte
<1>5. PICK a \in Nat, n \in Nat, v \in Nat :
        a = Params[p].offset /\ n = Params[p].size /\ v = Params[p].value
  BY DEF ParamsApart
<1>6. c - a \in 0 .. n - 1
  BY <1>5
<1>7. PackLe(v, n)[(c - a) + 1] = DigitAt(v, c - a)
  BY <1>6, PackDigits
<1> QED BY <1>4, <1>5, <1>7, Zenon

\* A word of the blob lies in a parameter, or no byte of it does.
LEMMA BlobWord ==
    ASSUME ParamsApart, NEW K \in Nat \ {0}, K = SmallSize, NEW w \in Nat
    PROVE  \/ \E q \in DOMAIN Params : /\ Params[q].offset <= K * w
                                      /\ K * (w + 1) <= Params[q].offset + Params[q].size
           \/ \A c \in K * w .. K * w + K - 1 : ParamByte(c) = 0
<1> SUFFICES ASSUME NEW c \in K * w .. K * w + K - 1, ParamByte(c) # 0
             PROVE  \E q \in DOMAIN Params : /\ Params[q].offset <= K * w
                                           /\ K * (w + 1) <= Params[q].offset + Params[q].size
  OBVIOUS
<1>1. PICK q \in DOMAIN Params : c \in Params[q].offset .. Params[q].offset + Params[q].size - 1
  BY DEF ParamByte
<1>2. PICK o \in Nat, t \in Nat : Params[q].offset = K * o /\ Params[q].size = K * t
  BY ParamInWords
<1>3. PICK d \in Nat, e \in Nat, a \in Nat : d = K * o /\ e = K * t /\ a = K * w
  OBVIOUS
<1>4. d <= c /\ c < d + e /\ a <= c /\ c < a + K
  BY <1>1, <1>2, <1>3
<1>5. d <= a
  <2> SUFFICES ASSUME w < o PROVE FALSE
    <3>1. CASE o = w
      BY <1>3, <3>1
    <3>2. CASE o < w
      BY <1>3, <3>2, RowsApart
    <3> QED BY <3>1, <3>2
  <2>1. w * K + K <= o * K
    BY RowsApart
  <2> QED BY <1>3, <1>4, <2>1
<1>6. a + K <= d + e
  <2>1. w < o + t
    <3> SUFFICES ASSUME o + t <= w PROVE FALSE
      OBVIOUS
    <3>1. (o + t) * K <= w * K
      <4>1. CASE o + t = w
        BY <4>1
      <4>2. CASE o + t < w
        BY <4>2, RowsApart
      <4> QED BY <4>1, <4>2
    <3>2. (o + t) * K = d + e
      BY <1>3
    <3> QED BY <1>3, <1>4, <3>1, <3>2
  <2>2. o + t \in Nat
    OBVIOUS
  <2>3. w * K + K <= (o + t) * K
    BY <2>1, <2>2, RowsApart
  <2>4. (o + t) * K = d + e
    BY <1>3
  <2> QED BY <1>3, <2>3, <2>4
<1>7. K * (w + 1) = a + K
  BY <1>3
<1> QED BY <1>2, <1>3, <1>5, <1>6, <1>7

\* The word of a parameter is one of its argument.
LEMMA ParamWord ==
    ASSUME ParamsApart, NEW K \in Nat \ {0}, K = SmallSize, NEW w \in Nat, NEW q \in DOMAIN Params,
           Params[q].offset <= K * w, K * (w + 1) <= Params[q].offset + Params[q].size
    PROVE  \E x \in ParamWords : \A j \in 0 .. K - 1 : ParamByte(K * w + j) = DigitAt(x, j)
<1>1. PICK o \in Nat, t \in Nat : Params[q].offset = K * o /\ Params[q].size = K * t
  BY ParamInWords
<1>2. PICK v \in Nat : v = Params[q].value
  BY ParamInWords
<1>3. PICK a \in Nat : a = K * w /\ a + K = K * (w + 1)
  OBVIOUS
<1>4. PICK d \in Nat, e \in Nat : d = K * o /\ e = K * t /\ d <= a /\ a + K <= d + e
  BY <1>1, <1>3
<1>5. PICK h \in 0 .. t - 1 : w = o + h
  <2>1. o <= w
    <3> SUFFICES ASSUME w < o PROVE FALSE
      OBVIOUS
    <3>1. w * K + K <= o * K
      BY RowsApart
    <3> QED BY <1>3, <1>4, <3>1
  <2>2. w < o + t
    <3> SUFFICES ASSUME o + t <= w PROVE FALSE
      OBVIOUS
    <3>1. (o + t) * K <= w * K
      <4>1. CASE o + t = w
        BY <4>1
      <4>2. CASE o + t < w
        BY <4>2, RowsApart
      <4> QED BY <4>1, <4>2
    <3>2. (o + t) * K = d + e
      BY <1>4
    <3> QED BY <1>3, <1>4, <3>1, <3>2
  <2>3. w - o \in 0 .. t - 1
    BY <2>1, <2>2
  <2> QED BY <2>3
<1>6. PICK x : x = (v \div Weight[K * h]) % Weight[K]
  OBVIOUS
<1>7. x \in ParamWords
  <2>1. Parts(v, K * t) = {(v \div Weight[K * z]) % Weight[K] : z \in 0 .. t - 1}
    BY PartsAre
  <2>2. x \in Parts(v, K * t)
    BY <1>6, <2>1, Zenon
  <2> QED BY <1>1, <1>2, <2>2, Zenon DEF ParamWords
<1>8. \A j \in 0 .. K - 1 : DigitAt(x, j) = DigitAt(v, K * h + j)
  <2>1. h \in Nat /\ v \in Nat /\ K \in Nat \ {0}
    OBVIOUS
  <2>2. \A j \in 0 .. K - 1 :
          DigitAt((v \div Weight[K * h]) % Weight[K], j) = DigitAt(v, K * h + j)
    BY ONLY <2>1, PartIs, Zenon
  <2> QED BY <1>6, <2>2, Zenon
<1>9. ASSUME NEW j \in 0 .. K - 1 PROVE ParamByte(K * w + j) = DigitAt(x, j)
  <2>1. PICK c \in Nat : c = a + j
    OBVIOUS
  <2>2. c \in d .. d + e - 1
    BY <1>4, <2>1
  <2>3. c \in Params[q].offset .. Params[q].offset + Params[q].size - 1
    BY <1>1, <1>4, <2>2
  <2>4. ParamByte(c) = DigitAt(Params[q].value, c - Params[q].offset)
    BY <2>3, ParamByteIs
  <2>5. c - d = K * h + j
    <3>1. K * (o + h) = K * o + K * h
      OBVIOUS
    <3> QED BY <1>3, <1>4, <1>5, <2>1, <3>1
  <2> QED BY <1>1, <1>2, <1>3, <1>4, <1>8, <2>1, <2>4, <2>5, Zenon
<1> QED BY <1>7, <1>9

LEMMA ZeroDigits ==
    ASSUME NEW j \in Nat
    PROVE  DigitAt(0, j) = 0
<1>1. PICK w \in Nat \ {0}, B \in Nat \ {0} : w = Weight[j] /\ B = ByteBase
  <2>1. Weight[j] \in Nat \ {0}
    BY WeightFacts
  <2> QED BY <2>1, MemUnitAssumption
<1>2. 0 \div w = 0 /\ 0 % B = 0
  <2>1. 0 * w + 0 = 0 /\ 0 * B + 0 = 0 /\ 0 \in 0 .. w - 1 /\ 0 \in 0 .. B - 1
    OBVIOUS
  <2> QED BY <2>1, Digits
<1> QED BY <1>1, <1>2 DEF DigitAt

\* A load of a parameter.
LEMMA WholeParam ==
    ASSUME WordSizes, ParamsApart, NEW p, NEW n \in Sizes, ParamFound(p, n)
    PROVE  Parts(UnpackLe(ReadParam(p, n)), Len(ReadParam(p, n))) \subseteq BlobWords
<1>1. PICK K \in Nat \ {0} : K = SmallSize
  BY SizeInWords
<1>2. PICK s \in Nat : n = K * s /\ n \in Nat
  BY <1>1, SizeInWords
<1>3. PICK m \in Nat : p \in DOMAIN Params /\ Params[p].offset = K * m
  BY <1>1, ParamInWords DEF ParamFound
<1>4. PICK a \in Nat : a = K * m /\ a + n <= BlobSize
  BY <1>3 DEF ParamFound
<1> DEFINE bytes == ReadParam(p, n)
<1>5. Len(bytes) = n /\ \A i \in 1 .. n : bytes[i] = ParamByte(a + i - 1)
  BY <1>2, <1>3, <1>4 DEF ReadParam
<1> HIDE DEF bytes
<1>6. ASSUME NEW q \in DOMAIN Params, NEW x \in Parts(Params[q].value, Params[q].size)
      PROVE  x \in Nat /\ x < Weight[K]
  <2>1. PICK t \in Nat, v \in Nat : Params[q].size = K * t /\ v = Params[q].value
    BY <1>1, ParamInWords
  <2>2. PICK h \in 0 .. t - 1 : x = (v \div Weight[K * h]) % Weight[K]
    <3>1. Parts(v, K * t) = {(v \div Weight[K * h]) % Weight[K] : h \in 0 .. t - 1}
      BY <1>1, PartsAre
    <3>2. x \in Parts(v, K * t)
      BY <1>6, <2>1
    <3> QED BY <3>1, <3>2, Zenon
  <2>3. h \in Nat
    OBVIOUS
  <2> QED BY <2>2, <2>3, PartIs
<1>7. WordSet(BlobWords)
  <2>1. 0 < Weight[K]
    BY WeightFacts
  <2>2. \A x \in ParamWords : x \in Nat /\ x < Weight[K]
    BY <1>6 DEF ParamWords
  <2> QED BY <1>1, <2>1, <2>2 DEF WordSet, BlobWords
<1>8. ASSUME NEW i \in 0 .. s - 1
      PROVE  \E x \in BlobWords : \A j \in 0 .. K - 1 : bytes[K * i + j + 1] = DigitAt(x, j)
  <2>1. PICK r \in Nat : r = K * i /\ r + K <= n
    <3>1. i \in Nat /\ i < s
      OBVIOUS
    <3>2. i * K \in Nat /\ i * K + K <= s * K
      BY <3>1, RowsApart
    <3> QED BY <1>2, <3>2
  <2>2. PICK w \in Nat : w = m + i /\ K * w = a + r /\ K * (w + 1) = a + r + K
    BY <1>4, <2>1
  <2>3. ASSUME NEW j \in 0 .. K - 1 PROVE bytes[K * i + j + 1] = ParamByte(K * w + j)
    <3>1. r + j + 1 \in 1 .. n /\ a + (r + j + 1) - 1 = K * w + j
      BY <1>2, <2>1, <2>2
    <3>2. bytes[r + j + 1] = ParamByte(a + (r + j + 1) - 1)
      BY <1>5, <3>1, Zenon
    <3> QED BY <2>1, <3>1, <3>2, Zenon
  <2>4. CASE \E q \in DOMAIN Params : /\ Params[q].offset <= K * w
                                     /\ K * (w + 1) <= Params[q].offset + Params[q].size
    <3>1. PICK x \in ParamWords : \A j \in 0 .. K - 1 : ParamByte(K * w + j) = DigitAt(x, j)
      BY <1>1, <2>4, ParamWord
    <3>2. x \in BlobWords
      BY DEF BlobWords
    <3> QED BY <2>3, <3>1, <3>2
  <2>5. CASE ~NoPadding /\ \A c \in K * w .. K * w + K - 1 : ParamByte(c) = 0
    <3>1. 0 \in BlobWords
      BY <2>5 DEF BlobWords
    <3>2. ASSUME NEW j \in 0 .. K - 1 PROVE bytes[K * i + j + 1] = DigitAt(0, j)
      <4>1. K * w + j \in K * w .. K * w + K - 1 /\ j \in Nat
        BY <2>2
      <4> QED BY <2>3, <2>5, <4>1, ZeroDigits
    <3> QED BY <3>1, <3>2
  <2>6. NoPadding => \E q \in DOMAIN Params : /\ Params[q].offset <= K * w
                                             /\ K * (w + 1) <= Params[q].offset + Params[q].size
    <3> SUFFICES ASSUME NoPadding
                 PROVE  \E q \in DOMAIN Params : /\ Params[q].offset <= K * w
                                               /\ K * (w + 1) <= Params[q].offset + Params[q].size
      OBVIOUS
    <3>1. PICK B \in Nat : B = BlobSize
      BY DEF NoPadding
    <3>2. K * (w + 1) <= B
      BY <1>2, <1>4, <2>1, <2>2, <3>1
    <3>3. w <= K * w
      <4>1. PICK k \in Nat : K = k + 1
        BY K - 1 \in Nat
      <4>2. K * w = k * w + w /\ k * w \in Nat
        BY <4>1
      <4> QED BY <4>2
    <3>4. w \in 0 .. BlobSize
      BY <2>2, <3>1, <3>2, <3>3
    <3> QED BY <1>1, <3>1, <3>2, <3>4 DEF NoPadding
  <2> QED BY <1>1, <2>4, <2>5, <2>6, BlobWord
<1>9. Composed(bytes, s, BlobWords)
  BY <1>1, <1>2, <1>5, <1>8 DEF Composed
<1>10. Parts(UnpackLe(bytes), Len(bytes)) \subseteq BlobWords
  BY <1>1, <1>7, <1>9, WordsRead
<1> QED BY <1>10 DEF bytes

-----------------------------------------------------------------------------
(* The inductive invariant behind LoadsAreWhole.                           *)

\* A micro-op under way has one of the sizes.
SizesOK ==
    /\ DOMAIN op = Sms /\ DOMAIN got = Sms
    /\ \A s \in Sms : \/ op[s] \in {NoOp, Faulted}
                      \/ "size" \in DOMAIN op[s] /\ op[s].size \in Sizes

\* LoadsAreWhole, worker by worker.
WholeLoad(r) ==
    /\ r.space = "global" => Parts(r.value, r.size) \subseteq StoredWords
    /\ r.space = "param" => Parts(r.value, r.size) \subseteq BlobWords

LoadsOK == \A s \in Sms : WholeLoad(got[s])

\* Every word of global memory is one that a store has left there.
GlobalWhole == Sizes # {} => WordsFrom(global, StoredWords)

WholeInv ==
    /\ SizesOK /\ StoredOK
    /\ WordSizes => GlobalWhole /\ (ParamsApart => LoadsOK)

LEMMA WholeInit == Init => WholeInv
<1> SUFFICES ASSUME Init PROVE WholeInv
  OBVIOUS
<1>1. SizesOK /\ StoredOK
  BY DEF Init, SizesOK, StoredOK
<1>2. LoadsOK
  BY DEF Init, LoadsOK, WholeLoad, NoLoad
<1>3. GlobalWhole
  <2> SUFFICES ASSUME Sizes # {} PROVE WordsFrom(global, StoredWords)
    BY DEF GlobalWhole
  <2>1. PICK K \in Nat \ {0} : K = SmallSize
    BY SmallIs
  <2>2. ASSUME NEW j \in 0 .. K - 1 PROVE DigitAt(0, j) = 0
    BY ZeroDigits
  <2>3. \A a : ByteAt(global, a) = 0
    BY DEF Init, ByteAt
  <2>4. 0 \in StoredWords
    BY DEF StoredWords
  <2> QED BY <2>1, <2>2, <2>3, <2>4 DEF WordsFrom
<1> QED BY <1>1, <1>2, <1>3 DEF WholeInv

\* LoadsAreWhole, but that a load of a parameter may see gaps of the layout.
WholeUpToPadding ==
    \A r \in Loads :
      /\ r.space = "global" => Parts(r.value, r.size) \subseteq StoredWords
      /\ r.space = "param" => Parts(r.value, r.size) \subseteq {0} \cup ParamWords

LEMMA WholeInvHolds ==
    WholeInv => (WordSizes /\ ParamsApart => WholeUpToPadding /\ (NoPadding => LoadsAreWhole))
<1> SUFFICES ASSUME WholeInv, WordSizes, ParamsApart
             PROVE  WholeUpToPadding /\ (NoPadding => LoadsAreWhole)
  OBVIOUS
<1>1. \A r \in Loads : WholeLoad(r)
  BY DEF Loads, WholeInv, LoadsOK
<1>2. BlobWords \subseteq {0} \cup ParamWords /\ (NoPadding => BlobWords = ParamWords)
  BY DEF BlobWords
<1>3. WholeUpToPadding
  BY <1>1, <1>2, Zenon DEF WholeUpToPadding, WholeLoad
<1>4. NoPadding => LoadsAreWhole
  BY <1>1, <1>2, Zenon DEF LoadsAreWhole, WholeLoad, StoredWords, ParamWords
<1> QED BY <1>3, <1>4

\* A store adds words and takes none away.
LEMMA MoreStored ==
    ASSUME NEW x, stored' = stored \cup {x}
    PROVE  StoredWords' = StoredWords \cup Parts(x.value, x.size)
BY DEF StoredWords, Parts

LEMMA SizeOfUop ==
    ASSUME SizesOK, NEW s \in Sms, NEW spc, In(s, spc)
    PROVE  "size" \in DOMAIN op[s] /\ op[s].size \in Sizes
BY DEF SizesOK, In, NoOp, Faulted

LEMMA OneUop ==
    ASSUME SizesOK, NEW s \in Sms, NEW o, op' = [op EXCEPT ![s] = o], DOMAIN got' = Sms,
           o \in {NoOp, Faulted} \/ ("size" \in DOMAIN o /\ o.size \in Sizes)
    PROVE  SizesOK'
BY DEF SizesOK

LEMMA ServeKeepsSizes ==
    ASSUME SizesOK, NEW s \in Sms, NEW spc, In(s, spc), ServeLane(s), DOMAIN got' = Sms
    PROVE  SizesOK'
<1>1. "size" \in DOMAIN op[s] /\ op[s].size \in Sizes
  BY SizeOfUop
<1>2. PICK o : o = [[op[s] EXCEPT !.lanes = @ \ {Lane(s)}] EXCEPT !.access = NoAccess]
  OBVIOUS
<1>3. "size" \in DOMAIN o /\ o.size \in Sizes
  BY <1>1, <1>2
<1>4. op' = [op EXCEPT ![s] = o]
  BY <1>2 DEF ServeLane, SizesOK
<1> QED BY <1>3, <1>4, OneUop

\* A step that neither loads nor stores, or not in global memory.
LEMMA QuietStep ==
    ASSUME WholeInv, UNCHANGED <<global, stored>>, SizesOK',
           \A s \in Sms : \/ got'[s] = got[s] \/ got'[s] = NoLoad
                          \/ got'[s].space \notin {"global", "param"}
    PROVE  WholeInv'
<1>1. StoredWords' = StoredWords /\ BlobWords' = BlobWords
  BY DEF StoredWords
<1>2. StoredOK' /\ (GlobalWhole => GlobalWhole')
  BY <1>1 DEF WholeInv, StoredOK, GlobalWhole, WordsFrom
<1>3. ASSUME LoadsOK, NEW s \in Sms PROVE WholeLoad(got[s])'
  <2>1. WholeLoad(got[s])
    BY <1>3 DEF LoadsOK
  <2>2. CASE got'[s] = got[s]
    BY <1>1, <2>1, <2>2, Zenon DEF WholeLoad
  <2>3. CASE got'[s].space # "global" /\ got'[s].space # "param"
    BY <2>3, Zenon DEF WholeLoad
  <2>4. got'[s] = got[s] \/ (got'[s].space # "global" /\ got'[s].space # "param")
    BY DEF NoLoad
  <2> QED BY <2>2, <2>3, <2>4
<1> QED BY <1>2, <1>3 DEF WholeInv, LoadsOK

\* A worker receives what it has loaded.
LEMMA LoadIsWhole ==
    ASSUME WholeInv, UNCHANGED <<global, stored>>, SizesOK',
           NEW s \in Sms, NEW bytes, Receive(s, bytes),
           NEW S, op[s].space \in {"global", "param"},
           S = IF op[s].space = "global" THEN StoredWords ELSE BlobWords,
           WordSizes /\ ParamsApart => Parts(UnpackLe(bytes), Len(bytes)) \subseteq S
    PROVE  WholeInv'
<1>1. StoredWords' = StoredWords /\ BlobWords' = BlobWords
  BY DEF StoredWords
<1>2. StoredOK' /\ (GlobalWhole => GlobalWhole')
  BY <1>1 DEF WholeInv, StoredOK, GlobalWhole, WordsFrom
<1>3. ASSUME WordSizes, ParamsApart, LoadsOK, NEW o \in Sms PROVE WholeLoad(got[o])'
  <2>1. CASE o = s
    <3>1. /\ got'[o].space = op[s].space /\ got'[o].value = UnpackLe(bytes)
          /\ got'[o].size = Len(bytes)
      BY <2>1 DEF Receive, WholeInv, SizesOK
    <3>2. Parts(got'[o].value, got'[o].size) \subseteq S
      BY <1>3, <3>1, Zenon
    <3> QED BY <1>1, <3>1, <3>2 DEF WholeLoad
  <2>2. CASE o # s
    <3>1. got'[o] = got[o] /\ WholeLoad(got[o])
      BY <1>3, <2>2 DEF Receive, WholeInv, SizesOK, LoadsOK
    <3> QED BY <1>1, <3>1, Zenon DEF WholeLoad
  <2> QED BY <2>1, <2>2
<1> QED BY <1>2, <1>3 DEF WholeInv, LoadsOK

LEMMA WholeNext == WholeInv /\ [Next]_vars => WholeInv'
<1> SUFFICES ASSUME WholeInv, [Next]_vars PROVE WholeInv'
  OBVIOUS
<1>0. SizesOK /\ StoredOK
  BY DEF WholeInv
<1>1. CASE UNCHANGED vars \/ Terminated \/ Launch
  <2>1. UNCHANGED <<op, got, global, stored>>
    BY <1>1 DEF vars, Terminated, Launch
  <2>2. SizesOK'
    BY <1>0, <2>1 DEF SizesOK
  <2> QED BY <2>1, <2>2, QuietStep
<1>2. ASSUME NEW s \in Sms, Worker(s) PROVE WholeInv'
  <2>1. CASE NextCta(s)
    <3>1. UNCHANGED <<op, got, global, stored>>
      BY <2>1 DEF NextCta
    <3>2. SizesOK'
      BY <1>0, <3>1 DEF SizesOK
    <3> QED BY <3>1, <3>2, QuietStep
  <2>2. CASE Begin(s)
    <3>1. UNCHANGED <<global, stored>> /\ got' = [got EXCEPT ![s] = NoLoad]
      BY <2>2 DEF Begin
    <3>2. DOMAIN got' = Sms /\ \A o \in Sms : got'[o] = got[o] \/ got'[o] = NoLoad
      BY <1>0, <3>1 DEF SizesOK
    <3>3. PICK o : op' = [op EXCEPT ![s] = o] /\ "size" \in DOMAIN o /\ o.size \in Sizes
      <4>1. PICK kind \in {"ld", "st"}, space \in {"param", "global", "local"}, n \in Sizes,
                 w \in WarpIds(launch) : \E mask \in SUBSET ActiveLanes(launch, w) :
              op' = [op EXCEPT ![s] = [kind |-> kind, space |-> space, size |-> n,
                                       warp |-> w, lanes |-> mask, access |-> NoAccess]]
        BY <2>2, Zenon DEF Begin
      <4> PICK mask \in SUBSET ActiveLanes(launch, w) :
            op' = [op EXCEPT ![s] = [kind |-> kind, space |-> space, size |-> n,
                                     warp |-> w, lanes |-> mask, access |-> NoAccess]]
        BY <4>1
      <4>2. PICK o : o = [kind |-> kind, space |-> space, size |-> n,
                          warp |-> w, lanes |-> mask, access |-> NoAccess]
        OBVIOUS
      <4>3. "size" \in DOMAIN o /\ o.size = n
        BY <4>2
      <4> QED BY <4>1, <4>2, <4>3
    <3>4. SizesOK'
      BY <1>0, <3>2, <3>3, OneUop
    <3> QED BY <3>1, <3>2, <3>4, QuietStep
  <2>3. CASE Malformed(s) \/ GlobalFault(s) \/ LocalFault(s) \/ EndUop(s)
    <3>1. UNCHANGED <<got, global, stored>>
      BY <2>3 DEF Malformed, GlobalFault, LocalFault, EndUop
    <3>2. op' = [op EXCEPT ![s] = Faulted] \/ op' = [op EXCEPT ![s] = NoOp]
      BY <2>3 DEF Malformed, GlobalFault, LocalFault, EndUop, Fault
    <3>3. DOMAIN got' = Sms
      BY <1>0, <3>1 DEF SizesOK
    <3>4. SizesOK'
      BY <1>0, <3>2, <3>3, OneUop
    <3> QED BY <3>1, <3>4, QuietStep
  <2>4. CASE LoadParam(s)
    <3>1. UNCHANGED <<global, stored>> /\ In(s, "param")
      BY <2>4 DEF LoadParam
    <3>2. PICK n \in Sizes : n = op[s].size
      BY <1>0, <3>1, SizeOfUop
    <3>3. PICK p \in DOMAIN Params \cup {"unknown"} :
            IF ParamFound(p, n)
            THEN /\ IF op[s].lanes = {} THEN UNCHANGED got ELSE Receive(s, ReadParam(p, n))
                 /\ op' = [op EXCEPT ![s] = NoOp]
            ELSE Fault(s) /\ UNCHANGED got
      BY <2>4, <3>2 DEF LoadParam
    <3>4. op' = [op EXCEPT ![s] = Faulted] \/ op' = [op EXCEPT ![s] = NoOp]
      BY <3>3 DEF Fault
    <3>5. DOMAIN got' = Sms
      BY <1>0, <3>3 DEF SizesOK, Receive
    <3>6. SizesOK'
      BY <1>0, <3>4, <3>5, OneUop
    <3>7. CASE UNCHANGED got
      BY <3>1, <3>6, <3>7, QuietStep
    <3>8. CASE ParamFound(p, n) /\ Receive(s, ReadParam(p, n))
      <4>1. WordSizes /\ ParamsApart =>
              Parts(UnpackLe(ReadParam(p, n)), Len(ReadParam(p, n))) \subseteq BlobWords
        BY <3>8, WholeParam
      <4>2. op[s].space = "param"
        BY <3>1 DEF In
      <4> QED BY <3>1, <3>6, <3>8, <4>1, <4>2, LoadIsWhole
    <3> QED BY <3>3, <3>7, <3>8
  <2>5. CASE GlobalLoad(s)
    <3>1. UNCHANGED <<global, stored>> /\ In(s, "global") /\ ServeLane(s)
      BY <2>5 DEF GlobalLoad
    <3>2. PICK n \in Sizes : n = op[s].size
      BY <1>0, <3>1, SizeOfUop
    <3>3. PICK a \in GlobalAddrs : Aligned(a, n) /\ Receive(s, ReadSparse(global, a, n))
      BY <2>5, <3>2 DEF GlobalLoad
    <3>4. DOMAIN got' = Sms
      BY <1>0, <3>3 DEF SizesOK, Receive
    <3>5. SizesOK'
      BY <1>0, <3>1, <3>4, ServeKeepsSizes
    <3>6. ASSUME WordSizes, ParamsApart
          PROVE  Parts(UnpackLe(ReadSparse(global, a, n)), Len(ReadSparse(global, a, n)))
                   \subseteq StoredWords
      <4>1. WordsFrom(global, StoredWords)
        BY <3>6 DEF WholeInv, GlobalWhole
      <4>2. WordSet(StoredWords) /\ a \in Nat
        BY <1>0, <3>6, StoredAre, MemUnitAssumption
      <4> QED BY <3>3, <3>6, <4>1, <4>2, WholeRead
    <3>7. op[s].space = "global"
      BY <3>1 DEF In
    <3> QED BY <3>1, <3>3, <3>5, <3>6, <3>7, LoadIsWhole
  <2>6. CASE GlobalStore(s)
    <3>1. UNCHANGED got /\ In(s, "global") /\ ServeLane(s)
      BY <2>6 DEF GlobalStore
    <3>2. PICK n \in Sizes : n = op[s].size
      BY <1>0, <3>1, SizeOfUop
    <3>3. PICK a \in GlobalAddrs, v \in Values :
            /\ Aligned(a, n) /\ global' = WriteSparse(global, a, PackLe(v, n))
            /\ stored' = stored \cup {[value |-> v, size |-> n]}
      BY <2>6, <3>2 DEF GlobalStore
    <3>4. a \in Nat /\ v \in Nat
      BY MemUnitAssumption
    <3>5. SizesOK'
      BY <1>0, <3>1, ServeKeepsSizes DEF SizesOK
    <3>6. StoredOK'
      BY <1>0, <3>3, <3>4 DEF StoredOK
    <3>7. StoredWords' = StoredWords \cup Parts(v, n)
      <4>1. PICK x : x = [value |-> v, size |-> n]
        OBVIOUS
      <4>2. x.value = v /\ x.size = n
        BY <4>1
      <4>3. stored' = stored \cup {x}
        BY <3>3, <4>1
      <4>4. StoredWords' = StoredWords \cup Parts(x.value, x.size)
        BY <4>3, MoreStored
      <4> QED BY <4>2, <4>4, Zenon
    <3>8. ASSUME WordSizes PROVE GlobalWhole'
      <4>1. WordsFrom(global, StoredWords)
        BY <3>8 DEF WholeInv, GlobalWhole
      <4>2. WordsFrom(WriteSparse(global, a, PackLe(v, n)), StoredWords')
        BY <3>3, <3>4, <3>7, <3>8, <4>1, WholeWrite
      <4> QED BY <3>3, <4>2 DEF GlobalWhole, WordsFrom
    <3>9. ASSUME LoadsOK PROVE LoadsOK'
      BY <3>1, <3>7, <3>9 DEF LoadsOK, WholeLoad, BlobWords
    <3> QED BY <3>5, <3>6, <3>8, <3>9 DEF WholeInv
  <2>7. CASE LocalEnter(s)
    <3>1. UNCHANGED <<got, global, stored>> /\ In(s, "local")
      BY <2>7 DEF LocalEnter
    <3>2. SizesOK'
      <4> DEFINE stores == Accessing(s, "st")
                 hit    == IF op[s].kind = "st" THEN stores \cup Accessing(s, "ld") ELSE {}
      <4>1. \A o \in hit : In(o, "local") /\ o \in Sms
        BY DEF Accessing
      <4>2. PICK a \in LocalAddrs, v \in Values :
              op' = [o \in Sms |->
                     IF o = s THEN [op[s] EXCEPT !.access = [off |-> a, value |-> v, race |-> stores # {}]]
                     ELSE IF o \in hit THEN [op[o] EXCEPT !.access.race = TRUE]
                     ELSE op[o]]
        BY <2>7 DEF LocalEnter
      <4> HIDE DEF stores, hit
      <4>3. ASSUME NEW o \in Sms
            PROVE  \/ op'[o] = op[o]
                   \/ In(o, "local") /\ \E acc : op'[o] = [op[o] EXCEPT !.access = acc]
        <5>1. CASE o = s
          <6>1. op'[o] = [op[o] EXCEPT !.access = [off |-> a, value |-> v, race |-> stores # {}]]
            BY <4>2, <5>1, Zenon
          <6> QED BY <3>1, <5>1, <6>1, Zenon
        <5>2. CASE o # s /\ o \in hit
          <6>1. op'[o] = [op[o] EXCEPT !.access.race = TRUE]
            BY <4>2, <5>2, Zenon
          <6>2. op'[o] = [op[o] EXCEPT !.access = [op[o].access EXCEPT !.race = TRUE]]
            BY <6>1, Zenon
          <6> QED BY <4>1, <5>2, <6>2, Zenon
        <5>3. CASE o # s /\ o \notin hit
          BY <4>2, <5>3, Zenon
        <5> QED BY <5>1, <5>2, <5>3
      <4>4. ASSUME NEW o \in Sms, In(o, "local"), NEW acc, op'[o] = [op[o] EXCEPT !.access = acc]
            PROVE  "size" \in DOMAIN op'[o] /\ op'[o].size \in Sizes
        <5>1. "size" \in DOMAIN op[o] /\ op[o].size \in Sizes
          BY <1>0, <4>4, SizeOfUop
        <5>2. PICK x : x = op[o]
          OBVIOUS
        <5>3. "size" \in DOMAIN [x EXCEPT !.access = acc] /\ [x EXCEPT !.access = acc].size = x.size
          BY <5>1, <5>2
        <5> QED BY <4>4, <5>1, <5>2, <5>3, Zenon
      <4>5. DOMAIN op' = Sms /\ DOMAIN got' = Sms
        BY <1>0, <3>1, <4>2 DEF SizesOK
      <4>6. ASSUME NEW o \in Sms
            PROVE  \/ op'[o] \in {NoOp, Faulted}
                   \/ "size" \in DOMAIN op'[o] /\ op'[o].size \in Sizes
        BY <1>0, <4>3, <4>4, Zenon DEF SizesOK
      <4> QED BY <4>5, <4>6, Zenon DEF SizesOK, NoOp, Faulted
    <3> QED BY <3>1, <3>2, QuietStep
  <2>8. CASE LocalLoad(s) \/ LocalStore(s)
    <3>1. UNCHANGED <<global, stored>> /\ In(s, "local") /\ ServeLane(s)
      BY <2>8 DEF LocalLoad, LocalStore
    <3>2. UNCHANGED got \/ \E bytes : Receive(s, bytes)
      BY <2>8 DEF LocalLoad, LocalStore
    <3>3. /\ DOMAIN got' = Sms
          /\ \A o \in Sms : got'[o] = got[o] \/ got'[o].space \notin {"global", "param"}
      BY <1>0, <3>1, <3>2 DEF Receive, SizesOK, In
    <3>4. SizesOK'
      BY <1>0, <3>1, <3>3, ServeKeepsSizes
    <3> QED BY <3>1, <3>3, <3>4, QuietStep
  <2> QED BY <1>2, <2>1, <2>2, <2>3, <2>4, <2>5, <2>6, <2>7, <2>8 DEF Worker
<1> QED BY <1>1, <1>2 DEF Next

(* Sizes are multiples of the smallest one, and the layout of the          *)
(* parameters is aligned and without overlap, as the parser makes it. Then *)
(* every word that a load of global memory returns is a word of one stored *)
(* value, or zero, however the stores and loads of the workers interleave  *)
(* and whatever sizes they mix; and every word of a parameter load is a    *)
(* word of an argument, or padding. Where the layout has no padding, that  *)
(* is LoadsAreWhole.                                                       *)
THEOREM LoadsStayWhole ==
    Spec => [](WordSizes /\ ParamsApart => WholeUpToPadding /\ (NoPadding => LoadsAreWhole))
<1> QED BY WholeInit, WholeNext, WholeInvHolds, PTL DEF Spec
=============================================================================
