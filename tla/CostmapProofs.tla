----------------------------- MODULE CostmapProofs ---------------------------
(***************************************************************************)
(* Proofs about Costmap, for all layers' cells, settings, clouds and       *)
(* methods: the dilation follows its obstacles (DilationFollowsObstacles), *)
(* the voxels match the cells where the rays come last (VoxelsMatchCells), *)
(* and a subscriber's copy misses no obstacle (NoObstacleMissed).          *)
(*                                                                         *)
(* The clearing methods, the rays of a scan and the voxels of a ray are    *)
(* folds.  FoldStays says that a set which no step of a fold leads out of  *)
(* is not left by the fold: that each voxel, ray, method and cloud keeps   *)
(* such a set of grids is what most of the lemmas below show.              *)
(***************************************************************************)
EXTENDS Costmap, WellFoundedInduction, TLAPS

-----------------------------------------------------------------------------
(* Least and greatest elements; what a fold over a sequence gives. *)

\* A set of naturals has a least element.
LEMMA LeastNatural ==
    ASSUME NEW I \in SUBSET Nat, I # {}
    PROVE  \E m \in I : \A i \in I : m <= i
<1>1. PICK m \in I : \A i \in I : ~(<<i, m>> \in OpToRel(<, Nat))
  BY NatLessThanWellFounded, WFMin
<1>2. ASSUME NEW i \in I PROVE m <= i
  <2>1. m \in Nat /\ i \in Nat
    OBVIOUS
  <2>2. i < m => <<i, m>> \in OpToRel(<, Nat)
    BY <2>1 DEF OpToRel
  <2>3. ~(i < m)
    BY <1>1, <2>2, Zenon
  <2> QED BY <2>1, <2>3
<1> QED BY <1>2

LEMMA MinIsLeast ==
    ASSUME NEW I \in SUBSET Nat, I # {}
    PROVE  Min(I) \in I /\ \A i \in I : Min(I) <= i
<1>1. \E m \in I : \A i \in I : m <= i
  BY LeastNatural
<1> QED BY <1>1 DEF Min

LEMMA MaxIsGreatest ==
    ASSUME NEW I \in SUBSET Int, I # {}, NEW b \in Int, \A i \in I : i <= b
    PROVE  Max(I) \in I /\ \A i \in I : i <= Max(I)
<1> DEFINE J == {j \in Nat : b - j \in I}
<1>1. J # {}
  <2>1. PICK i \in I : TRUE
    OBVIOUS
  <2>2. b - i \in Nat /\ b - (b - i) = i
    OBVIOUS
  <2> QED BY <2>2
<1>2. PICK m \in J : \A j \in J : m <= j
  BY <1>1, LeastNatural
<1>3. b - m \in I
  BY <1>2
<1>4. ASSUME NEW i \in I PROVE b - m >= i
  <2>1. b - i \in Nat /\ b - (b - i) = i
    OBVIOUS
  <2>2. b - i \in J
    BY <2>1
  <2>3. m <= b - i
    BY <1>2, <2>2
  <2> QED BY <2>1, <2>3
<1> HIDE DEF J
<1>5. \E x \in I : \A y \in I : x >= y
  BY <1>3, <1>4
<1>6. Max(I) \in I /\ \A y \in I : Max(I) >= y
  BY <1>5 DEF Max
<1> QED BY <1>6

-----------------------------------------------------------------------------
\* f folds the entries of seq with indices in s, the last of them outermost.
Folds(f, n, step, base, seq) ==
    \A s \in SUBSET (1..n) :
        f[s] = IF s = {} THEN base ELSE step[<<f[s \ {Max(s)}], seq[Max(s)]>>]

LEMMA MaxOfIndices ==
    ASSUME NEW n \in Nat, NEW s \in SUBSET (1..n), s # {}
    PROVE  Max(s) \in s /\ \A i \in s : i <= Max(s)
<1>1. s \in SUBSET Int /\ \A i \in s : i <= n
  OBVIOUS
<1> QED BY <1>1, MaxIsGreatest

\* There is such a function, with values in V.
HasFold(V, n, step, base, seq) ==
    \E f \in [SUBSET (1..n) -> V] : Folds(f, n, step, base, seq)

\* There is one when each step leads from V to V: the least length without one would
\* have one.
LEMMA FoldExists ==
    ASSUME NEW V, NEW X, NEW step \in [V \X X -> V], NEW base \in V, NEW n \in Nat,
           NEW seq, \A i \in 1..n : seq[i] \in X
    PROVE  HasFold(V, n, step, base, seq)
<1> DEFINE Without == {k \in 0..n : ~HasFold(V, k, step, base, seq)}
<1>1. HasFold(V, 0, step, base, seq)
  <2> DEFINE f == [s \in SUBSET (1..0) |-> base]
  <2>1. f \in [SUBSET (1..0) -> V]
    OBVIOUS
  <2>2. \A s \in SUBSET (1..0) : s = {}
    OBVIOUS
  <2>3. Folds(f, 0, step, base, seq)
    BY <2>2 DEF Folds
  <2> HIDE DEF f
  <2> QED BY <2>1, <2>3 DEF HasFold
<1>2. ASSUME NEW k \in Nat, k + 1 \in 1..n, HasFold(V, k, step, base, seq)
      PROVE  HasFold(V, k + 1, step, base, seq)
  <2>0. PICK f \in [SUBSET (1..k) -> V] : Folds(f, k, step, base, seq)
    BY <1>2 DEF HasFold
  <2> DEFINE g == [s \in SUBSET (1..(k + 1)) |->
                      IF k + 1 \in s THEN step[<<f[s \ {k + 1}], seq[k + 1]>>] ELSE f[s]]
  <2>1. ASSUME NEW s \in SUBSET (1..(k + 1))
        PROVE  s \ {k + 1} \in SUBSET (1..k) /\ (k + 1 \notin s => s \in SUBSET (1..k))
    BY <2>1
  <2>2. g \in [SUBSET (1..(k + 1)) -> V]
    <3>1. ASSUME NEW s \in SUBSET (1..(k + 1))
          PROVE  (IF k + 1 \in s THEN step[<<f[s \ {k + 1}], seq[k + 1]>>] ELSE f[s]) \in V
      <4>1. CASE k + 1 \in s
        <5>1. f[s \ {k + 1}] \in V /\ seq[k + 1] \in X
          BY <1>2, <2>0, <2>1
        <5> QED BY <4>1, <5>1
      <4>2. CASE k + 1 \notin s
        BY <2>1, <4>2
      <4> QED BY <4>1, <4>2
    <3> QED BY <3>1
  <2>3. ASSUME NEW s \in SUBSET (1..(k + 1)), k + 1 \notin s
        PROVE  g[s] = f[s]
    BY <2>3
  <2>4. ASSUME NEW s \in SUBSET (1..(k + 1)), k + 1 \in s
        PROVE  g[s] = step[<<f[s \ {k + 1}], seq[k + 1]>>]
    BY <2>4
  <2> HIDE DEF g
  <2>5. ASSUME NEW s \in SUBSET (1..(k + 1))
        PROVE  g[s] = IF s = {} THEN base ELSE step[<<g[s \ {Max(s)}], seq[Max(s)]>>]
    <3>1. CASE k + 1 \in s
      <4>1. s # {} /\ Max(s) \in s /\ \A i \in s : i <= Max(s)
        BY <3>1, MaxOfIndices, k + 1 \in Nat
      <4>2. Max(s) = k + 1
        <5>1. Max(s) \in 1..(k + 1) /\ k + 1 <= Max(s)
          BY <3>1, <4>1
        <5> QED BY <5>1
      <4>3. s \ {k + 1} \in SUBSET (1..(k + 1)) /\ k + 1 \notin s \ {k + 1}
        BY <2>1
      <4>4. g[s \ {k + 1}] = f[s \ {k + 1}]
        BY <2>3, <4>3
      <4>5. g[s] = step[<<f[s \ {k + 1}], seq[k + 1]>>]
        BY <2>4, <3>1
      <4>6. g[s] = step[<<g[s \ {Max(s)}], seq[Max(s)]>>]
        BY <4>2, <4>4, <4>5
      <4> QED BY <4>1, <4>6
    <3>2. CASE k + 1 \notin s
      <4>1. s \in SUBSET (1..k) /\ g[s] = f[s]
        BY <2>1, <2>3, <3>2
      <4>2. f[s] = IF s = {} THEN base ELSE step[<<f[s \ {Max(s)}], seq[Max(s)]>>]
        BY <2>0, <4>1 DEF Folds
      <4>3. s \ {Max(s)} \in SUBSET (1..(k + 1)) /\ k + 1 \notin s \ {Max(s)}
        BY <3>2
      <4>4. g[s \ {Max(s)}] = f[s \ {Max(s)}]
        BY <2>3, <4>3
      <4> QED BY <4>1, <4>2, <4>4
    <3> QED BY <3>1, <3>2
  <2>6. Folds(g, k + 1, step, base, seq)
    BY <2>5 DEF Folds
  <2> QED BY <2>2, <2>6 DEF HasFold
<1>3. Without \in SUBSET Nat /\ \A m \in Without : m \in 0..n /\ m # 0
  BY <1>1
<1>4. ASSUME NEW m \in Without PROVE \E k \in Without : ~(m <= k)
  <2>1. m \in 0..n /\ m # 0 /\ ~HasFold(V, m, step, base, seq)
    BY <1>3
  <2>2. m - 1 \in Nat /\ m - 1 \in 0..n /\ (m - 1) + 1 = m /\ m \in 1..n /\ ~(m <= m - 1)
    BY <2>1
  <2>3. ~HasFold(V, m - 1, step, base, seq)
    BY <1>2, <2>1, <2>2
  <2> QED BY <2>2, <2>3
<1>5. Without = {}
  <2> HIDE DEF Without
  <2>1. Without # {} => \E m \in Without : \A k \in Without : m <= k
    BY <1>3, LeastNatural
  <2> QED BY <1>4, <2>1
<1> QED BY <1>5

\* What holds of the base and is kept by each step holds of the result.
LEMMA FoldStays ==
    ASSUME NEW V, NEW n \in Nat, NEW f, f[{}] \in V,
           \A s \in SUBSET (1..n) : s # {} /\ f[s \ {Max(s)}] \in V => f[s] \in V
    PROVE  f[1..n] \in V
<1> DEFINE Wrong == {k \in 0..n : f[1..k] \notin V}
<1>1. 0 \notin Wrong
  <2>1. 1..0 = {}
    OBVIOUS
  <2> QED BY <2>1
<1>2. SUFFICES ASSUME Wrong # {} PROVE FALSE
  <2>1. n \notin Wrong
    BY <1>2
  <2> QED BY <2>1
<1>3. PICK m \in Wrong : \A k \in Wrong : m <= k
  <2>1. Wrong \in SUBSET Nat
    OBVIOUS
  <2> HIDE DEF Wrong
  <2> QED BY <1>2, <2>1, LeastNatural
<1>4. m \in 1..n /\ m - 1 \in 0..n /\ ~(m <= m - 1)
  BY <1>1, <1>3
<1>5. f[1..(m - 1)] \in V
  BY <1>3, <1>4
<1>6. 1..m \in SUBSET (1..n) /\ 1..m # {} /\ m \in 1..m /\ m \in Nat
  BY <1>4
<1>7. Max(1..m) \in 1..m /\ \A i \in 1..m : i <= Max(1..m)
  BY <1>4, <1>6, MaxOfIndices
<1>8. Max(1..m) = m
  BY <1>4, <1>7, <1>6
<1>9. (1..m) \ {m} = 1..(m - 1)
  BY <1>4
<1> QED BY <1>3, <1>5, <1>6, <1>8, <1>9

-----------------------------------------------------------------------------
(* Rays through the voxels. *)

\* A set that no voxel of a ray leads out of is not left by the ray.
LEMMA ClearRayStays ==
    ASSUME NEW V, NEW n \in Nat, NEW ray, DOMAIN ray = 1..n, NEW g \in V, NEW t,
           \A h \in V, i \in 1..n : ClearVoxelAt(h, ray[i], t) \in V
    PROVE  ClearRay(g, ray, t) \in V
<1> DEFINE X == {ray[i] : i \in 1..n}
           step == [a \in V \X X |-> ClearVoxelAt(a[1], a[2], t)]
           Body(f) == [s \in SUBSET (1..n) |->
                         IF s = {} THEN g ELSE ClearVoxelAt(f[s \ {Max(s)}], ray[Max(s)], t)]
           f == CHOOSE h : h = Body(h)
<1>1. ClearRay(g, ray, t) = f[1..n]
  BY DEF ClearRay, FoldLeft, MapThenFoldSet
<1>2. step \in [V \X X -> V] /\ \A i \in 1..n : ray[i] \in X
  OBVIOUS
<1>3. ASSUME NEW h \in V, NEW i \in 1..n
      PROVE  step[<<h, ray[i]>>] = ClearVoxelAt(h, ray[i], t)
  OBVIOUS
<1> HIDE DEF X, step
<1>4. PICK h \in [SUBSET (1..n) -> V] : Folds(h, n, step, g, ray)
  BY <1>2, FoldExists DEF HasFold
<1>5. ASSUME NEW s \in SUBSET (1..n)
      PROVE  h[s] = IF s = {} THEN g ELSE ClearVoxelAt(h[s \ {Max(s)}], ray[Max(s)], t)
  <2>1. s # {} => Max(s) \in 1..n /\ h[s \ {Max(s)}] \in V
    BY MaxOfIndices
  <2> QED BY <1>3, <1>4, <2>1 DEF Folds
<1>6. h = Body(h)
  BY <1>5
<1>7. f = Body(f)
  BY <1>6
<1>8. f[{}] = g
  BY <1>7
<1>9. ASSUME NEW s \in SUBSET (1..n), s # {}, f[s \ {Max(s)}] \in V
      PROVE  f[s] \in V
  <2>1. f[s] = ClearVoxelAt(f[s \ {Max(s)}], ray[Max(s)], t)
    BY <1>7, <1>9
  <2>2. Max(s) \in 1..n
    BY <1>9, MaxOfIndices
  <2> HIDE DEF f
  <2> QED BY <1>9, <2>1, <2>2
<1> HIDE DEF f
<1>10. f[1..n] \in V
  BY <1>8, <1>9, FoldStays
<1> QED BY <1>1, <1>10

-----------------------------------------------------------------------------
(* Values of cells, and dilation. *)

\* What a cell holds, a layer, and thresholds in force.
CellValues == [low : 0..NoLow, high : Int, low_age : Nat, high_age : Nat,
               has_dilated : BOOLEAN, dilated_val : -1..100]
Layers == [Cells -> CellValues]
Settings == {t \in [thresh : Nat, thresh_max : Nat] : t.thresh < t.thresh_max}

\* What Dilate takes from a cell for those around it.
Share(cell, t) == (4 * GetGridCellValue(cell, t)) \div 5

LEMMA Quotients ==
    ASSUME NEW a \in Nat, NEW b \in Nat, a <= b, NEW d \in Nat, d > 0
    PROVE  a \div d \in Nat /\ a \div d <= b \div d
<1>1. a \div d \in Int /\ b \div d \in Int /\ a % d \in 0..(d - 1) /\ b % d \in 0..(d - 1)
  OBVIOUS
<1>2. a = d * (a \div d) + (a % d) /\ b = d * (b \div d) + (b % d)
  OBVIOUS
<1> DEFINE q == a \div d
           p == b \div d
<1>3. q \in Int /\ p \in Int /\ d * q <= a /\ a < d * q + d /\ d * p <= b /\ b < d * p + d
  BY <1>1, <1>2
<1> HIDE DEF q, p
<1>4. q >= 0
  <2>1. q <= -1 => d * q <= d * (-1)
    BY <1>3
  <2> QED BY <1>3, <2>1
<1>5. q <= p
  <2>1. p + 1 <= q => d * (p + 1) <= d * q
    BY <1>3
  <2>2. d * (p + 1) = d * p + d
    BY <1>3
  <2> QED BY <1>3, <2>1, <2>2
<1> QED BY <1>3, <1>4, <1>5 DEF q, p

\* Values of cells are percentages, or unknown.
LEMMA ValueInRange ==
    ASSUME NEW cell \in CellValues, NEW t \in Settings
    PROVE  /\ Height(cell) \in Int
           /\ GetGridCellValue(cell, t) \in -1..100 /\ Share(cell, t) \in -1..80
<1>1. cell.low \in 0..NoLow /\ cell.high \in Int
  BY DEF CellValues
<1>2. t.thresh \in Nat /\ t.thresh_max \in Nat /\ t.thresh_max - t.thresh \in Nat
      /\ t.thresh_max - t.thresh > 0
  BY DEF Settings
<1>3. Height(cell) \in Int
  BY <1>1 DEF Height, NoLow
<1>4. CASE PastSlopeThreshold(cell, t)
  <2>1. 100 * Height(cell) \in Nat
    BY <1>2, <1>3, <1>4 DEF PastSlopeThreshold
  <2>2. (100 * Height(cell)) \div (t.thresh_max - t.thresh) \in Nat
    BY <1>2, <2>1, Quotients
  <2>3. GetGridCellValue(cell, t) \in -1..100
    BY <2>2 DEF GetGridCellValue, Smaller
  <2> QED BY <1>3, <2>3 DEF Share
<1>5. CASE ~PastSlopeThreshold(cell, t)
  <2>1. GetGridCellValue(cell, t) \in {-1, 0}
    BY <1>5 DEF GetGridCellValue
  <2> QED BY <1>3, <2>1 DEF Share
<1> QED BY <1>4, <1>5

\* A steeper cell has no lower value.
LEMMA ValueOfHigher ==
    ASSUME NEW cell \in CellValues, NEW higher \in CellValues, NEW t \in Settings,
           PastSlopeThreshold(cell, t), Filled(cell) => Filled(higher),
           Height(cell) <= Height(higher)
    PROVE  /\ PastSlopeThreshold(higher, t)
           /\ GetGridCellValue(cell, t) <= GetGridCellValue(higher, t)
           /\ Share(cell, t) <= Share(higher, t)
<1>1. t.thresh \in Nat /\ t.thresh_max \in Nat /\ t.thresh_max - t.thresh \in Nat
      /\ t.thresh_max - t.thresh > 0
  BY DEF Settings
<1>2. Height(cell) \in Int /\ Height(higher) \in Int
      /\ GetGridCellValue(cell, t) \in -1..100 /\ GetGridCellValue(higher, t) \in -1..100
  BY ValueInRange
<1>3. PastSlopeThreshold(higher, t)
  BY <1>1, <1>2 DEF PastSlopeThreshold
<1>4. GetGridCellValue(cell, t) <= GetGridCellValue(higher, t)
  <2>1. CASE Filled(cell)
    <3>1. 100 * Height(cell) \in Nat /\ 100 * Height(higher) \in Nat
          /\ 100 * Height(cell) <= 100 * Height(higher)
      BY <1>1, <1>2 DEF PastSlopeThreshold
    <3>2. (100 * Height(cell)) \div (t.thresh_max - t.thresh) \in Nat
          /\ (100 * Height(higher)) \div (t.thresh_max - t.thresh) \in Nat
          /\ (100 * Height(cell)) \div (t.thresh_max - t.thresh)
                <= (100 * Height(higher)) \div (t.thresh_max - t.thresh)
      BY <1>1, <3>1, Quotients
    <3> QED BY <1>3, <2>1, <3>2 DEF GetGridCellValue, Smaller
  <2>2. CASE ~Filled(cell)
    BY <1>2, <2>2 DEF GetGridCellValue
  <2> QED BY <2>1, <2>2
<1> QED BY <1>2, <1>3, <1>4 DEF Share

-----------------------------------------------------------------------------
LEMMA AroundInCells == \A n \in Cells : Around[n] \subseteq Cells
  BY DEF Around

\* Cells that differ in their dilation only.
SameHeights(a, b) ==
    a.low = b.low /\ a.high = b.high /\ a.low_age = b.low_age /\ a.high_age = b.high_age

LEMMA SameValues ==
    ASSUME NEW a, NEW b, SameHeights(a, b), NEW t
    PROVE  /\ Filled(a) = Filled(b) /\ Height(a) = Height(b)
           /\ PastSlopeThreshold(a, t) = PastSlopeThreshold(b, t)
           /\ GetGridCellValue(a, t) = GetGridCellValue(b, t) /\ Share(a, t) = Share(b, t)
  BY DEF SameHeights, Filled, Height, PastSlopeThreshold, GetGridCellValue, Share

\* A cell dilated anew holds the highest share of the obstacles around it.
LEMMA Dilated ==
    ASSUME NEW cs \in Layers, NEW C \in SUBSET Cells, NEW t \in Settings
    PROVE  /\ Dilate(cs, C, t) \in Layers
           /\ \A n \in Cells :
                 /\ SameHeights(Dilate(cs, C, t)[n], cs[n])
                 /\ Dilate(cs, C, t)[n].dilated_val >= cs[n].dilated_val
                 /\ \A c \in C \cap Around[n] :
                       Dilate(cs, C, t)[n].dilated_val >= Share(cs[c], t)
                 /\ \/ Dilate(cs, C, t)[n].dilated_val = cs[n].dilated_val
                    \/ \E c \in C \cap Around[n] :
                          Dilate(cs, C, t)[n].dilated_val = Share(cs[c], t)
<1> DEFINE Vals(n) == {Share(cs[c], t) : c \in C \cap Around[n]} \cup {cs[n].dilated_val}
           d == [n \in Cells |-> [cs[n] EXCEPT !.has_dilated = @ \/ n \in C,
                                               !.dilated_val = Max(Vals(n))]]
<1>1. Dilate(cs, C, t) = d
  <2> DEFINE vals == {<<c, Share(cs[c], t)>> : c \in C}
             Shares(n) == {v[2] : v \in {w \in vals : w[1] \in Around[n]}}
  <2>1. ASSUME NEW n \in Cells
        PROVE  Shares(n) \cup {cs[n].dilated_val} = Vals(n)
    <3> DEFINE Near == {Share(cs[c], t) : c \in C \cap Around[n]}
    <3>1. ASSUME NEW x \in Shares(n) PROVE x \in Near
      <4>1. PICK v \in vals : v[1] \in Around[n] /\ x = v[2]
        BY <3>1
      <4>2. PICK c \in C : v = <<c, Share(cs[c], t)>>
        BY <4>1
      <4> QED BY <4>1, <4>2
    <3>2. ASSUME NEW c \in C \cap Around[n] PROVE Share(cs[c], t) \in Shares(n)
      <4>1. <<c, Share(cs[c], t)>> \in {w \in vals : w[1] \in Around[n]}
        OBVIOUS
      <4>2. <<c, Share(cs[c], t)>>[2] = Share(cs[c], t)
        OBVIOUS
      <4> HIDE DEF vals
      <4> QED BY <4>1, <4>2
    <3>3. Shares(n) = Near
      <4>1. \A x \in Near : \E c \in C \cap Around[n] : x = Share(cs[c], t)
        OBVIOUS
      <4> HIDE DEF Shares, Near
      <4> QED BY <3>1, <3>2, <4>1
    <3> QED BY <3>3
  <2>2. Dilate(cs, C, t) =
           [n \in Cells |-> [cs[n] EXCEPT !.has_dilated = @ \/ n \in C,
                                          !.dilated_val = Max(Shares(n) \cup {@})]]
    BY DEF Dilate, Share
  <2> HIDE DEF Shares, Vals
  <2> QED BY <2>1, <2>2
<1>2. ASSUME NEW n \in Cells
      PROVE  /\ Vals(n) \in SUBSET (-1..100) /\ Max(Vals(n)) \in Vals(n)
             /\ \A v \in Vals(n) : v <= Max(Vals(n))
  <2>1. Vals(n) \in SUBSET (-1..100)
    <3>1. \A c \in C : Share(cs[c], t) \in -1..80
      BY ValueInRange DEF Layers
    <3>2. cs[n].dilated_val \in -1..100
      BY DEF Layers, CellValues
    <3> QED BY <3>1, <3>2
  <2>2. Vals(n) # {}
    OBVIOUS
  <2> HIDE DEF Vals
  <2>3. Vals(n) \in SUBSET Int /\ \A v \in Vals(n) : v <= 100
    BY <2>1
  <2> QED BY <2>1, <2>2, <2>3, MaxIsGreatest
<1>3. ASSUME NEW n \in Cells
      PROVE  d[n] = [cs[n] EXCEPT !.has_dilated = @ \/ n \in C, !.dilated_val = Max(Vals(n))]
  OBVIOUS
<1>4. ASSUME NEW n \in Cells
      PROVE  /\ d[n] \in CellValues /\ SameHeights(d[n], cs[n])
             /\ d[n].dilated_val = Max(Vals(n))
  <2>1. Max(Vals(n)) \in -1..100
    BY <1>2
  <2>2. cs[n] \in CellValues
    BY DEF Layers
  <2> HIDE DEF d, Vals
  <2>3. d[n] \in CellValues
    BY <1>3, <2>1, <2>2 DEF CellValues
  <2> QED BY <1>3, <2>2, <2>3 DEF CellValues, SameHeights
<1>5. d \in Layers
  <2>1. d = [n \in Cells |-> d[n]]
    OBVIOUS
  <2> HIDE DEF d, Vals
  <2> QED BY <1>4, <2>1 DEF Layers
<1>6. ASSUME NEW n \in Cells
      PROVE  /\ d[n].dilated_val >= cs[n].dilated_val
             /\ \A c \in C \cap Around[n] : d[n].dilated_val >= Share(cs[c], t)
             /\ \/ d[n].dilated_val = cs[n].dilated_val
                \/ \E c \in C \cap Around[n] : d[n].dilated_val = Share(cs[c], t)
  <2> DEFINE m == Max(Vals(n))
  <2>1. cs[n].dilated_val \in Vals(n) /\ \A c \in C \cap Around[n] : Share(cs[c], t) \in Vals(n)
    OBVIOUS
  <2>2. m = cs[n].dilated_val \/ \E c \in C \cap Around[n] : m = Share(cs[c], t)
    <3>1. m \in Vals(n)
      BY <1>2
    <3> HIDE DEF m
    <3> QED BY <3>1
  <2>3. \A v \in Vals(n) : v \in Int /\ m \in Int /\ v <= m
    <3>1. Vals(n) \in SUBSET (-1..100) /\ m \in Vals(n) /\ \A v \in Vals(n) : v <= m
      BY <1>2
    <3> HIDE DEF d, Vals, m
    <3> QED BY <3>1
  <2>4. d[n].dilated_val = m
    BY <1>4
  <2> HIDE DEF d, Vals, m
  <2> QED BY <2>1, <2>2, <2>3, <2>4
<1> HIDE DEF d, Vals
<1> QED BY <1>1, <1>4, <1>5, <1>6

-----------------------------------------------------------------------------
(* The dilation follows the obstacles: what is lowered. *)

\* The dilation of the cells cs follows its obstacles (DilationFollowsObstacles, of any
\* layer and thresholds).
Follows(cs, t) ==
    \A n \in Cells :
        /\ cs[n].dilated_val > 0 => \E o \in Around[n] : PastSlopeThreshold(cs[o], t)
        /\ \A o \in Around[n] :
              PastSlopeThreshold(cs[o], t) => cs[n].dilated_val >= Share(cs[o], t)

LEMMA FollowsIsInvariant ==
    DilationFollowsObstacles <=> Follows(cells, thresholds)
  BY AroundInCells DEF DilationFollowsObstacles, Follows, Obstacles, Share

\* The cells were lowered, and those that stopped being obstacles are among C.
Lowered(before, cs, C, t) ==
    \A n \in Cells :
        /\ cs[n].dilated_val = before[n].dilated_val
        /\ PastSlopeThreshold(cs[n], t) =>
              PastSlopeThreshold(before[n], t) /\ Share(cs[n], t) <= Share(before[n], t)
        /\ PastSlopeThreshold(before[n], t) /\ n \notin C => PastSlopeThreshold(cs[n], t)

\* RemoveDilation renews what those cells had around them, and nothing else.
LEMMA Undilated ==
    ASSUME NEW cs \in Layers, NEW C \in SUBSET Cells, NEW t
    PROVE  /\ RemoveDilation(cs, C, t) \in Layers
           /\ \A n \in Cells :
                 /\ SameHeights(RemoveDilation(cs, C, t)[n], cs[n])
                 /\ RemoveDilation(cs, C, t)[n].dilated_val =
                       IF /\ cs[n].dilated_val > 0 /\ Around[n] \cap C # {}
                          /\ \A o \in Around[n] : ~PastSlopeThreshold(cs[o], t)
                       THEN 0 ELSE cs[n].dilated_val
<1> DEFINE bare == {n \in Cells : Around[n] \cap C # {} /\ Around[n] \cap Obstacles(cs, t) = {}}
           val(n) == IF cs[n].dilated_val > 0 /\ n \in bare THEN 0 ELSE cs[n].dilated_val
           r == [n \in Cells |-> [cs[n] EXCEPT !.has_dilated = @ /\ n \notin C,
                                               !.dilated_val = val(n)]]
<1>1. RemoveDilation(cs, C, t) = r
  BY DEF RemoveDilation
<1>2. ASSUME NEW n \in Cells
      PROVE  n \in bare <=> /\ Around[n] \cap C # {}
                            /\ \A o \in Around[n] : ~PastSlopeThreshold(cs[o], t)
  BY AroundInCells DEF Obstacles
<1> HIDE DEF bare
<1>3. ASSUME NEW n \in Cells
      PROVE  /\ r[n] \in CellValues /\ SameHeights(r[n], cs[n])
             /\ r[n].dilated_val = val(n)
  <2>1. cs[n] \in CellValues /\ val(n) \in -1..100
    BY DEF Layers, CellValues
  <2> HIDE DEF val
  <2>2. r[n] = [cs[n] EXCEPT !.has_dilated = @ /\ n \notin C, !.dilated_val = val(n)]
    OBVIOUS
  <2> HIDE DEF r
  <2>3. r[n] \in CellValues
    BY <2>1, <2>2 DEF CellValues
  <2> QED BY <2>1, <2>2, <2>3 DEF CellValues, SameHeights
<1>4. r \in Layers
  <2>1. r = [n \in Cells |-> r[n]]
    OBVIOUS
  <2> HIDE DEF r, val
  <2> QED BY <1>3, <2>1 DEF Layers
<1> HIDE DEF r
<1> QED BY <1>1, <1>2, <1>3, <1>4

\* Lowered cells and a renewed dilation around them follow.
LEMMA LoweredFollows ==
    ASSUME NEW before \in Layers, NEW cs \in Layers, NEW C \in SUBSET Cells,
           NEW t \in Settings, Follows(before, t), Lowered(before, cs, C, t)
    PROVE  Follows(RemoveDilation(cs, C, t), t)
<1> DEFINE r == RemoveDilation(cs, C, t)
<1>1. ASSUME NEW n \in Cells
      PROVE  /\ PastSlopeThreshold(r[n], t) = PastSlopeThreshold(cs[n], t)
             /\ Share(r[n], t) = Share(cs[n], t)
             /\ r[n].dilated_val =
                   IF /\ cs[n].dilated_val > 0 /\ Around[n] \cap C # {}
                      /\ \A o \in Around[n] : ~PastSlopeThreshold(cs[o], t)
                   THEN 0 ELSE cs[n].dilated_val
  BY Undilated, SameValues
<1> HIDE DEF r
<1>2. ASSUME NEW n \in Cells, r[n].dilated_val > 0
      PROVE  \E o \in Around[n] : PastSlopeThreshold(r[o], t)
  <2>1. cs[n].dilated_val > 0 /\ r[n].dilated_val = cs[n].dilated_val
    BY <1>1, <1>2
  <2>2. CASE \E o \in Around[n] : PastSlopeThreshold(cs[o], t)
    BY <1>1, <2>2, AroundInCells
  <2>3. CASE Around[n] \cap C = {}
    <3>1. before[n].dilated_val > 0
      BY <2>1 DEF Lowered
    <3>2. PICK o \in Around[n] : PastSlopeThreshold(before[o], t)
      BY <3>1 DEF Follows
    <3>3. o \in Cells /\ o \notin C
      BY <2>3, AroundInCells
    <3>4. PastSlopeThreshold(cs[o], t)
      BY <3>2, <3>3 DEF Lowered
    <3> QED BY <1>1, <3>3, <3>4
  <2> QED BY <1>1, <1>2, <2>1, <2>2, <2>3
<1>3. ASSUME NEW n \in Cells, NEW o \in Around[n], PastSlopeThreshold(r[o], t)
      PROVE  r[n].dilated_val >= Share(r[o], t)
  <2>1. o \in Cells /\ PastSlopeThreshold(cs[o], t)
    BY <1>1, <1>3, AroundInCells
  <2>2. r[n].dilated_val = before[n].dilated_val
    BY <1>1, <2>1 DEF Lowered
  <2>3. before[n].dilated_val >= Share(before[o], t) /\ Share(cs[o], t) <= Share(before[o], t)
    BY <2>1 DEF Follows, Lowered
  <2>4. before[n].dilated_val \in Int
    BY DEF Layers, CellValues
  <2>5. Share(before[o], t) \in Int /\ Share(cs[o], t) \in Int
    <3>1. before[o] \in CellValues /\ cs[o] \in CellValues
      BY <2>1 DEF Layers
    <3>2. Share(before[o], t) \in -1..80 /\ Share(cs[o], t) \in -1..80
      BY <3>1, ValueInRange
    <3> QED BY <3>2
  <2>6. Share(r[o], t) = Share(cs[o], t)
    BY <1>1, <2>1
  <2> QED BY <2>2, <2>3, <2>4, <2>5, <2>6
<1> QED BY <1>2, <1>3 DEF Follows, r

\* The same, of cells lowered one field at a time.
LEMMA LowerFollows ==
    ASSUME NEW before \in Layers, NEW cs \in Layers,
           NEW t \in Settings, Follows(before, t), Lowered(before, cs, {}, t)
    PROVE  Follows(cs, t)
<1>1. ASSUME NEW n \in Cells, cs[n].dilated_val > 0
      PROVE  \E o \in Around[n] : PastSlopeThreshold(cs[o], t)
  <2>1. PICK o \in Around[n] : PastSlopeThreshold(before[o], t)
    BY <1>1 DEF Follows, Lowered
  <2> QED BY <2>1, AroundInCells DEF Lowered
<1>2. ASSUME NEW n \in Cells, NEW o \in Around[n], PastSlopeThreshold(cs[o], t)
      PROVE  cs[n].dilated_val >= Share(cs[o], t)
  <2>1. o \in Cells
    BY AroundInCells
  <2>2. before[n].dilated_val >= Share(before[o], t) /\ Share(cs[o], t) <= Share(before[o], t)
        /\ cs[n].dilated_val = before[n].dilated_val
    BY <1>2, <2>1 DEF Follows, Lowered
  <2>3. before[n].dilated_val \in Int
    BY DEF Layers, CellValues
  <2>4. before[o] \in CellValues /\ cs[o] \in CellValues
    BY <2>1 DEF Layers
  <2>5. Share(before[o], t) \in -1..80 /\ Share(cs[o], t) \in -1..80
    BY <2>4, ValueInRange
  <2> QED BY <2>2, <2>3, <2>5
<1> QED BY <1>1, <1>2 DEF Follows

-----------------------------------------------------------------------------
(* The dilation follows the obstacles: cells that age, and channels. *)

\* The scans there may be, and the grids whose dilation follows.
Scans == UNION {sc.scans \cup sc.clear_scans : sc \in Scenarios}
GridData == [cells : Layers, voxels : [Cells -> SUBSET (0..(NVoxels - 1))]]
FollowingGrids(t) == {g \in GridData : Follows(g.cells, t)}

LEMMA EmptiedCell ==
    ASSUME NEW cell \in CellValues, NEW t \in Settings
    PROVE  /\ ResetHeight(cell) \in CellValues /\ ~PastSlopeThreshold(ResetHeight(cell), t)
           /\ ~Filled(ResetHeight(cell))
           /\ ResetHeight(cell).dilated_val = cell.dilated_val
           /\ ResetHeight(cell).has_dilated = cell.has_dilated
<1>1. ResetHeight(cell) = [cell EXCEPT !.low = NoLow, !.high = NoHigh]
  BY DEF ResetHeight
<1>0. NoLow \in 0..NoLow /\ NoHigh \in Int
  BY DEF NoLow, NoHigh
<1> DEFINE empty == [cell EXCEPT !.low = NoLow, !.high = NoHigh]
<1>2. empty \in CellValues
  BY <1>0 DEF CellValues
<1>4. empty.low = NoLow /\ empty.high = NoHigh /\ empty.dilated_val = cell.dilated_val
      /\ empty.has_dilated = cell.has_dilated
  BY DEF CellValues
<1> HIDE DEF empty
<1>3. t.thresh \in Nat
  BY DEF Settings
<1> QED BY <1>1, <1>2, <1>3, <1>4
     DEF PastSlopeThreshold, Height, Filled, empty, NoLow, NoHigh

\* Cells that are emptied, as ClearCells empties them.
LEMMA ClearedFollows ==
    ASSUME NEW t \in Settings, NEW g \in FollowingGrids(t), NEW C \in SUBSET Cells
    PROVE  ClearCells(g, C, t) \in FollowingGrids(t)
<1> DEFINE cs == ResetCells(g.cells, C)
<1>1. g.cells \in Layers /\ Follows(g.cells, t)
      /\ g.voxels \in [Cells -> SUBSET (0..(NVoxels - 1))]
  BY DEF FollowingGrids, GridData
<1>2. ASSUME NEW n \in Cells
      PROVE  /\ cs[n] \in CellValues /\ cs[n].dilated_val = g.cells[n].dilated_val
             /\ n \notin C => cs[n] = g.cells[n]
             /\ PastSlopeThreshold(cs[n], t) => cs[n] = g.cells[n]
  <2>1. g.cells[n] \in CellValues
    BY <1>1 DEF Layers
  <2>2. cs[n] = IF n \in C THEN ResetHeight(g.cells[n]) ELSE g.cells[n]
    BY DEF ResetCells
  <2> HIDE DEF cs
  <2> QED BY <2>1, <2>2, EmptiedCell
<1>3. cs \in Layers
  <2>1. cs = [n \in Cells |-> cs[n]]
    BY DEF ResetCells
  <2> HIDE DEF cs
  <2> QED BY <1>2, <2>1 DEF Layers
<1>4. Lowered(g.cells, cs, C, t)
  <2>1. \A n \in Cells : Share(g.cells[n], t) \in -1..80
    BY <1>1, ValueInRange DEF Layers
  <2> HIDE DEF cs
  <2>2. ASSUME NEW n \in Cells, PastSlopeThreshold(cs[n], t)
        PROVE  Share(cs[n], t) <= Share(g.cells[n], t)
    <3>1. cs[n] = g.cells[n] /\ Share(g.cells[n], t) \in Int
      BY <1>2, <2>1, <2>2
    <3> QED BY <3>1
  <2> QED BY <1>2, <2>2 DEF Lowered
<1> HIDE DEF cs
<1>5. RemoveDilation(cs, C, t) \in Layers /\ Follows(RemoveDilation(cs, C, t), t)
  BY <1>1, <1>3, <1>4, LoweredFollows, Undilated
<1>6. [n \in Cells |-> IF n \in C THEN {} ELSE g.voxels[n]] \in [Cells -> SUBSET (0..(NVoxels - 1))]
  BY <1>1
<1>7. ClearCells(g, C, t) = [cells |-> RemoveDilation(cs, C, t),
                             voxels |-> [n \in Cells |-> IF n \in C THEN {} ELSE g.voxels[n]]]
  BY DEF ClearCells, cs
<1> QED BY <1>5, <1>6, <1>7 DEF FollowingGrids, GridData

\* Cells that get older and drop what is too old.
LEMMA AgedFollows ==
    ASSUME NEW t \in Settings, NEW g \in FollowingGrids(t), NEW dt \in Nat
    PROVE  [g EXCEPT !.cells = [n \in Cells |-> AgeCell(@[n], dt)]] \in FollowingGrids(t)
<1> DEFINE aged == [g EXCEPT !.cells = [n \in Cells |-> AgeCell(@[n], dt)]]
           cs == [n \in Cells |-> AgeCell(g.cells[n], dt)]
<1>1. g.cells \in Layers /\ Follows(g.cells, t) /\ g \in GridData
  BY DEF FollowingGrids, GridData
<1>2. MaxPointAge \in Nat
  BY CostmapAssumption
<1>3. ASSUME NEW n \in Cells
      PROVE  /\ cs[n] \in CellValues /\ cs[n].low = g.cells[n].low /\ cs[n].high = g.cells[n].high
             /\ cs[n].dilated_val = g.cells[n].dilated_val
  <2>1. g.cells[n] \in CellValues
    BY <1>1 DEF Layers
  <2>2. cs[n] = AgeCell(g.cells[n], dt)
    OBVIOUS
  <2>3. \A a \in Nat : Smaller(a + dt, MaxPointAge + 1) \in Nat
    BY <1>2 DEF Smaller
  <2> HIDE DEF cs
  <2> QED BY <2>1, <2>2, <2>3 DEF AgeCell, CellValues
<1>4. cs \in Layers
  <2>1. cs = [n \in Cells |-> cs[n]]
    OBVIOUS
  <2> HIDE DEF cs
  <2> QED BY <1>3, <2>1 DEF Layers
<1>5. Lowered(g.cells, cs, {}, t)
  <2> HIDE DEF cs
  <2>1. ASSUME NEW n \in Cells
        PROVE  /\ PastSlopeThreshold(cs[n], t) = PastSlopeThreshold(g.cells[n], t)
               /\ Share(cs[n], t) = Share(g.cells[n], t) /\ Share(cs[n], t) \in Int
    <3>1. Share(cs[n], t) \in -1..80
      BY <1>3, ValueInRange
    <3>2. Share(cs[n], t) = Share(g.cells[n], t)
      BY <1>3 DEF Share, GetGridCellValue, Filled, Height, PastSlopeThreshold
    <3> QED BY <1>3, <3>1, <3>2 DEF PastSlopeThreshold, Height
  <2> QED BY <1>3, <2>1 DEF Lowered
<1>6. Follows(cs, t)
  BY <1>1, <1>4, <1>5, LowerFollows
<1>7. aged = [cells |-> cs, voxels |-> g.voxels]
  BY <1>1 DEF GridData
<1> HIDE DEF cs
<1>8. aged \in FollowingGrids(t)
  <2> HIDE DEF aged
  <2> QED BY <1>1, <1>4, <1>6, <1>7 DEF FollowingGrids, GridData
<1> QED BY <1>8

LEMMA TimedFollows ==
    ASSUME NEW t \in Settings, NEW g \in FollowingGrids(t), NEW dt \in Nat
    PROVE  ClearByTime(g, dt, t) \in FollowingGrids(t)
<1> DEFINE aged == [g EXCEPT !.cells = [n \in Cells |-> AgeCell(@[n], dt)]]
           old == {n \in Cells : \/ aged.cells[n].low_age > MaxPointAge
                                 \/ aged.cells[n].high_age > MaxPointAge}
<1>1. aged \in FollowingGrids(t)
  BY AgedFollows
<1>2. ClearByTime(g, dt, t) = ClearCells(aged, old, t)
  BY DEF ClearByTime
<1>3. old \in SUBSET Cells
  OBVIOUS
<1> HIDE DEF aged, old
<1> QED BY <1>1, <1>2, <1>3, ClearedFollows

LEMMA ChannelFollows ==
    ASSUME NEW t \in Settings, NEW g \in FollowingGrids(t), NEW scan
    PROVE  ClearByChannel(g, scan, t) \in FollowingGrids(t)
<1> DEFINE ground == {<<p.x, p.y>> : p \in {q \in Range(scan.points) : q.ground /\ InGrid(q)}}
<1>1. ground \in SUBSET Cells
  BY DEF InGrid
<1>2. ClearByChannel(g, scan, t) = ClearCells(g, ground, t)
  BY DEF ClearByChannel
<1> HIDE DEF ground
<1> QED BY <1>1, <1>2, ClearedFollows

-----------------------------------------------------------------------------
(* The dilation follows the obstacles: what a ray cuts off. *)

\* What a ray does to the voxel at c, when it does something.
VoxelCut(g, v) ==
    LET c == <<v[1], v[2]>>
    IN  /\ c \in Cells /\ Filled(g.cells[c])
        /\ TopVoxelIndex(g.cells[c].high) - (IF BelowOnly THEN 1 ELSE 0) >= v[3]
        /\ v[3] \in 0..(NVoxels - 1)

\* The voxels of the column that the ray leaves, those of them below it, and the cell.
VoxelsLeft(g, v) ==
    LET c == <<v[1], v[2]>>
    IN  g.voxels[c] \ (v[3]..Smaller(TopVoxelIndex(g.cells[c].high), NVoxels - 1))
VoxelsBelow(g, v) ==
    LET c == <<v[1], v[2]>>
    IN  {z \in VoxelsLeft(g, v) : z < v[3] /\ z >= Voxel(g.cells[c].low)}
CellCut(g, v) ==
    LET cell == g.cells[<<v[1], v[2]>>]
    IN  IF VoxelsBelow(g, v) = {} THEN ResetHeight(cell)
        ELSE [cell EXCEPT !.high = 2 * (Max(VoxelsBelow(g, v)) + 1)]

LEMMA TopIsInt == \A h \in Int : TopVoxelIndex(h) \in Int /\ 2 * TopVoxelIndex(h) <= h - 1
                                 /\ h - 1 <= 2 * TopVoxelIndex(h) + 1
  BY DEF TopVoxelIndex

\* ClearVoxelAt in these terms.
LEMMA ClearVoxelCases ==
    ASSUME NEW t \in Settings, NEW g \in GridData, NEW v
    PROVE  /\ ~VoxelCut(g, v) => ClearVoxelAt(g, v, t) = g
           /\ VoxelCut(g, v) =>
                 LET c == <<v[1], v[2]>>
                     cs == [g.cells EXCEPT ![c] = CellCut(g, v)]
                 IN  ClearVoxelAt(g, v, t) =
                        [cells |-> IF /\ PastSlopeThreshold(g.cells[c], t)
                                      /\ ~PastSlopeThreshold(CellCut(g, v), t)
                                   THEN RemoveDilation(cs, {c}, t) ELSE cs,
                         voxels |-> [g.voxels EXCEPT ![c] = VoxelsLeft(g, v)]]
<1> DEFINE c == <<v[1], v[2]>>
           cs == [g.cells EXCEPT ![c] = CellCut(g, v)]
           top == TopVoxelIndex(g.cells[c].high)
           skip == \/ c \notin Cells \/ ~Filled(g.cells[c])
                   \/ top - (IF BelowOnly THEN 1 ELSE 0) < v[3] \/ v[3] \notin 0..(NVoxels - 1)
<1>1. ClearVoxelAt(g, v, t) =
        IF skip THEN g
        ELSE [cells |-> IF /\ PastSlopeThreshold(g.cells[c], t)
                           /\ ~PastSlopeThreshold(CellCut(g, v), t)
                        THEN RemoveDilation(cs, {c}, t) ELSE cs,
              voxels |-> [g.voxels EXCEPT ![c] = VoxelsLeft(g, v)]]
  BY DEF ClearVoxelAt, CellCut, VoxelsBelow, VoxelsLeft
<1>2. skip <=> ~VoxelCut(g, v)
  <2>1. CASE c \in Cells /\ v[3] \in 0..(NVoxels - 1)
    <3>1. top \in Int
      BY <2>1, TopIsInt DEF GridData, Layers, CellValues
    <3>2. v[3] \in Int
      BY <2>1
    <3> HIDE DEF top
    <3>3. top - (IF BelowOnly THEN 1 ELSE 0) < v[3]
             <=> ~(top - (IF BelowOnly THEN 1 ELSE 0) >= v[3])
      BY <3>1, <3>2
    <3> QED BY <3>3 DEF VoxelCut, top
  <2>2. CASE ~(c \in Cells /\ v[3] \in 0..(NVoxels - 1))
    BY <2>2 DEF VoxelCut
  <2> QED BY <2>1, <2>2
<1> HIDE DEF skip, cs
<1>3. ASSUME ~VoxelCut(g, v) PROVE ClearVoxelAt(g, v, t) = g
  BY <1>1, <1>2, <1>3
<1>4. ASSUME VoxelCut(g, v)
      PROVE ClearVoxelAt(g, v, t) =
         [cells |-> IF /\ PastSlopeThreshold(g.cells[c], t)
                           /\ ~PastSlopeThreshold(CellCut(g, v), t)
                        THEN RemoveDilation(cs, {c}, t) ELSE cs,
              voxels |-> [g.voxels EXCEPT ![c] = VoxelsLeft(g, v)]]
  BY <1>1, <1>2, <1>4
<1> QED BY <1>3, <1>4 DEF cs

\* What remains of the cell is not higher than it was.
LEMMA CutIsLower ==
    ASSUME NEW t \in Settings, NEW g \in GridData, NEW v, VoxelCut(g, v)
    PROVE  LET c == <<v[1], v[2]>> IN
           /\ c \in Cells /\ CellCut(g, v) \in CellValues
           /\ CellCut(g, v).dilated_val = g.cells[c].dilated_val
           /\ VoxelsLeft(g, v) \in SUBSET (0..(NVoxels - 1))
           /\ \/ /\ VoxelsBelow(g, v) = {} /\ CellCut(g, v) = ResetHeight(g.cells[c])
                 /\ ~Filled(CellCut(g, v)) /\ ~PastSlopeThreshold(CellCut(g, v), t)
              \/ /\ Max(VoxelsBelow(g, v)) \in VoxelsBelow(g, v)
                 /\ \A z \in VoxelsBelow(g, v) : z <= Max(VoxelsBelow(g, v))
                 /\ CellCut(g, v).high = 2 * (Max(VoxelsBelow(g, v)) + 1)
                 /\ CellCut(g, v).low = g.cells[c].low
                 /\ CellCut(g, v).high <= g.cells[c].high
<1> DEFINE c == <<v[1], v[2]>>
           cell == g.cells[c]
           top == TopVoxelIndex(cell.high)
           below == VoxelsBelow(g, v)
<1>1. c \in Cells /\ v[3] \in 0..(NVoxels - 1) /\ v[3] \in Int
  BY DEF VoxelCut
<1>2. cell \in CellValues /\ g.voxels[c] \in SUBSET (0..(NVoxels - 1))
  BY <1>1 DEF GridData, Layers
<1>3. cell.high \in Int /\ top \in Int /\ 2 * top <= cell.high - 1
  BY <1>2, TopIsInt DEF CellValues
<1>4. top >= v[3]
  <2> HIDE DEF top
  <2> QED BY <1>1, <1>3 DEF VoxelCut, top
<1>5. VoxelsLeft(g, v) \in SUBSET (0..(NVoxels - 1))
  BY <1>2 DEF VoxelsLeft
<1>6. below \in SUBSET Int /\ (\A z \in below : z <= v[3] - 1) /\ v[3] - 1 \in Int
  <2>1. \A z \in VoxelsLeft(g, v) : z \in Int
    BY <1>5
  <2> QED BY <1>1, <2>1 DEF VoxelsBelow
<1>7. CASE below = {}
  <2>1. CellCut(g, v) = ResetHeight(cell)
    BY <1>7 DEF CellCut
  <2> HIDE DEF cell
  <2> QED BY <1>1, <1>2, <1>5, <1>7, <2>1, EmptiedCell DEF cell
<1>8. CASE below # {}
  <2> DEFINE m == Max(below)
  <2> HIDE DEF below, cell, top
  <2>1. m \in below /\ \A z \in below : z <= m
    BY <1>6, <1>8, MaxIsGreatest
  <2>2. m \in Int /\ m <= v[3] - 1
    BY <1>6, <2>1
  <2> HIDE DEF m
  <2>3. CellCut(g, v) = [cell EXCEPT !.high = 2 * (m + 1)]
    BY <1>8 DEF CellCut, below, cell, m
  <2>4. 2 * (m + 1) \in Int /\ 2 * (m + 1) <= cell.high
    BY <1>1, <1>3, <1>4, <2>2
  <2>5. CellCut(g, v) \in CellValues
    BY <1>2, <2>3, <2>4 DEF CellValues
  <2>6. CellCut(g, v).high = 2 * (m + 1) /\ CellCut(g, v).low = cell.low
        /\ CellCut(g, v).dilated_val = cell.dilated_val
    BY <1>2, <2>3 DEF CellValues
  <2> QED BY <1>1, <1>5, <2>1, <2>4, <2>5, <2>6 DEF below, cell, m
<1> QED BY <1>7, <1>8

LEMMA FollowingGrid ==
    ASSUME NEW t, NEW cs \in Layers, Follows(cs, t),
           NEW vs \in [Cells -> SUBSET (0..(NVoxels - 1))]
    PROVE  [cells |-> cs, voxels |-> vs] \in FollowingGrids(t)
  BY DEF FollowingGrids, GridData

LEMMA ClearVoxelFollows ==
    ASSUME NEW t \in Settings, NEW g \in FollowingGrids(t), NEW v
    PROVE  ClearVoxelAt(g, v, t) \in FollowingGrids(t)
<1> DEFINE c == <<v[1], v[2]>>
           cut == CellCut(g, v)
           cs == [g.cells EXCEPT ![c] = cut]
<1>1. g \in GridData /\ g.cells \in Layers /\ Follows(g.cells, t)
      /\ g.voxels \in [Cells -> SUBSET (0..(NVoxels - 1))]
  BY DEF FollowingGrids, GridData
<1>2. CASE ~VoxelCut(g, v)
  BY <1>1, <1>2, ClearVoxelCases
<1>3. CASE VoxelCut(g, v)
  <2>1. c \in Cells /\ cut \in CellValues /\ cut.dilated_val = g.cells[c].dilated_val
        /\ VoxelsLeft(g, v) \in SUBSET (0..(NVoxels - 1))
    BY <1>1, <1>3, CutIsLower
  <2>2. g.cells[c] \in CellValues
    BY <1>1, <2>1 DEF Layers
  <2>3. PastSlopeThreshold(cut, t) => /\ PastSlopeThreshold(g.cells[c], t)
                                      /\ Share(cut, t) <= Share(g.cells[c], t)
    <3>1. SUFFICES ASSUME PastSlopeThreshold(cut, t)
                   PROVE  /\ PastSlopeThreshold(g.cells[c], t)
                          /\ Share(cut, t) <= Share(g.cells[c], t)
      OBVIOUS
    <3>2. cut.low = g.cells[c].low /\ cut.high <= g.cells[c].high
      BY <1>1, <1>3, <3>1, CutIsLower
    <3> HIDE DEF cut
    <3>3. (Filled(cut) => Filled(g.cells[c])) /\ Height(cut) <= Height(g.cells[c])
      BY <2>1, <2>2, <3>2 DEF Filled, Height, CellValues
    <3> QED BY <2>1, <2>2, <3>1, <3>3, ValueOfHigher
  <2> DEFINE vs == [g.voxels EXCEPT ![c] = VoxelsLeft(g, v)]
  <2>10. ClearVoxelAt(g, v, t) =
            [cells |-> IF PastSlopeThreshold(g.cells[c], t) /\ ~PastSlopeThreshold(cut, t)
                       THEN RemoveDilation(cs, {c}, t) ELSE cs,
             voxels |-> vs]
    BY <1>1, <1>3, ClearVoxelCases
  <2> HIDE DEF cut
  <2>4. \A n \in Cells : cs[n] = IF n = c THEN cut ELSE g.cells[n]
    BY <1>1, <2>1 DEF Layers
  <2>5. cs \in Layers
    BY <1>1, <2>1 DEF Layers
  <2>6. ASSUME NEW C \in SUBSET Cells,
               PastSlopeThreshold(g.cells[c], t) /\ ~PastSlopeThreshold(cut, t) => c \in C
        PROVE  Lowered(g.cells, cs, C, t)
    <3>1. ASSUME NEW n \in Cells
          PROVE  Share(g.cells[n], t) \in Int
      <4>1. Share(g.cells[n], t) \in -1..80
        BY <1>1, ValueInRange DEF Layers
      <4> QED BY <4>1
    <3> HIDE DEF cs
    <3> QED BY <2>1, <2>3, <2>4, <2>6, <3>1 DEF Lowered
  <2>7. vs \in [Cells -> SUBSET (0..(NVoxels - 1))]
    BY <1>1, <2>1
  <2> HIDE DEF cs, vs, c
  <2>8. CASE PastSlopeThreshold(g.cells[c], t) /\ ~PastSlopeThreshold(cut, t)
    <3>1. Lowered(g.cells, cs, {c}, t) /\ {c} \in SUBSET Cells
      BY <2>1, <2>6
    <3>2. RemoveDilation(cs, {c}, t) \in Layers /\ Follows(RemoveDilation(cs, {c}, t), t)
      BY <1>1, <2>5, <3>1, LoweredFollows, Undilated
    <3>3. ClearVoxelAt(g, v, t) = [cells |-> RemoveDilation(cs, {c}, t), voxels |-> vs]
      BY <2>8, <2>10
    <3> QED BY <2>7, <3>2, <3>3, FollowingGrid
  <2>9. CASE ~(PastSlopeThreshold(g.cells[c], t) /\ ~PastSlopeThreshold(cut, t))
    <3>1. Lowered(g.cells, cs, {}, t)
      BY <2>6, <2>9
    <3>2. Follows(cs, t)
      BY <1>1, <2>5, <3>1, LowerFollows
    <3>3. ClearVoxelAt(g, v, t) = [cells |-> cs, voxels |-> vs]
      BY <2>9, <2>10
    <3> QED BY <2>5, <2>7, <3>2, <3>3, FollowingGrid
  <2> QED BY <2>8, <2>9
<1> QED BY <1>2, <1>3

-----------------------------------------------------------------------------
(* Traced rays, and the clearing methods in their order. *)

Places == Int \X Int \X Int

\* A ray is a sequence.
LEMMA RayLength ==
    ASSUME NEW start \in Places, NEW end \in Places
    PROVE  \E m \in Nat : DOMAIN RaytraceLine(start, end) = 1..m
<1> DEFINE d == [i \in 1..3 |-> AbsDiff(start[i], end[i])]
           dm == Max(Range(d))
           At(k) == [i \in 1..3 |-> LET moved == (2 * d[i] * k + dm) \div (2 * dm)
                                    IN  IF end[i] > start[i] THEN start[i] + moved
                                        ELSE start[i] - moved]
           there == {k \in 1..dm : At(k)[1] = end[1] /\ At(k)[2] = end[2]}
<1>1. RaytraceLine(start, end) =
        IF there = {} THEN <<>> ELSE [k \in 1..(Min(there) - 1) |-> At(k)]
  BY DEF RaytraceLine
<1>2. there \in SUBSET (1..dm)
  OBVIOUS
<1>3. d[1] \in Int /\ d[2] \in Int /\ d[3] \in Int
  BY DEF AbsDiff, Places
<1>4. dm \in Int
  <2> DEFINE R == {d[1], d[2], d[3]}
  <2>1. Range(d) = R
    BY DEF Range
  <2>2. R \in SUBSET Int /\ R # {}
    BY <1>3
  <2>3. \E b \in Int : \A i \in R : i <= b
    <3>1. d[1] + d[2] + d[3] >= d[1] /\ d[1] + d[2] + d[3] >= d[2] /\ d[1] + d[2] + d[3] >= d[3]
      BY DEF AbsDiff, Places
    <3>2. d[1] + d[2] + d[3] \in Int /\ \A i \in R : i <= d[1] + d[2] + d[3]
      BY <1>3, <3>1
    <3> HIDE DEF R, d
    <3> QED BY <3>2
  <2> HIDE DEF R, d
  <2>4. Max(R) \in R
    BY <2>2, <2>3, MaxIsGreatest
  <2> QED BY <2>1, <2>2, <2>4
<1> HIDE DEF d, dm, At, there
<1>5. CASE there = {}
  <2>1. DOMAIN RaytraceLine(start, end) = 1..0
    BY <1>1, <1>5
  <2> QED BY <2>1
<1>6. CASE there # {}
  <2>1. there \in SUBSET Nat
    BY <1>2, <1>4
  <2>2. Min(there) \in there
    BY <1>6, <2>1, MinIsLeast
  <2>3. Min(there) - 1 \in Nat
    <3>1. Min(there) \in 1..dm
      BY <1>2, <2>2
    <3> QED BY <1>4, <3>1
  <2>4. DOMAIN RaytraceLine(start, end) = 1..(Min(there) - 1)
    BY <1>1, <1>6
  <2> QED BY <2>3, <2>4
<1> QED BY <1>5, <1>6

\* The ray of one point.
TraceRay(g, scan, p, t) ==
    IF ~InGrid(p) THEN g
    ELSE ClearRay(g, RaytraceLine(scan.origin, <<p.x, p.y, Voxel(p.h)>>), t)

\* A set that no ray leads out of is not left by the rays of a scan.
LEMMA TraceRaysStays ==
    ASSUME NEW V, NEW scan, NEW n \in Nat, DOMAIN scan.points = 1..n, NEW g \in V, NEW t,
           \A h \in V, i \in 1..n : TraceRay(h, scan, scan.points[i], t) \in V
    PROVE  TraceRays(g, scan, t) \in V
<1> DEFINE ps == scan.points
           X == {ps[i] : i \in 1..n}
           step == [a \in V \X X |-> TraceRay(a[1], scan, a[2], t)]
           Body(f) == [s \in SUBSET (1..n) |->
                         IF s = {} THEN g ELSE TraceRay(f[s \ {Max(s)}], scan, ps[Max(s)], t)]
           f == CHOOSE h : h = Body(h)
<1>1. TraceRays(g, scan, t) = f[1..n]
  BY DEF TraceRays, TraceRay, FoldLeft, MapThenFoldSet
<1>2. step \in [V \X X -> V] /\ \A i \in 1..n : ps[i] \in X
  OBVIOUS
<1>3. ASSUME NEW h \in V, NEW i \in 1..n
      PROVE  step[<<h, ps[i]>>] = TraceRay(h, scan, ps[i], t)
  OBVIOUS
<1> HIDE DEF X, step
<1>4. PICK h \in [SUBSET (1..n) -> V] : Folds(h, n, step, g, ps)
  BY <1>2, FoldExists DEF HasFold
<1>5. ASSUME NEW s \in SUBSET (1..n)
      PROVE  h[s] = IF s = {} THEN g ELSE TraceRay(h[s \ {Max(s)}], scan, ps[Max(s)], t)
  <2>1. s # {} => Max(s) \in 1..n /\ h[s \ {Max(s)}] \in V
    BY MaxOfIndices
  <2> QED BY <1>3, <1>4, <2>1 DEF Folds
<1>6. h = Body(h)
  BY <1>5
<1>7. f = Body(f)
  BY <1>6
<1>8. f[{}] = g
  BY <1>7
<1>9. ASSUME NEW s \in SUBSET (1..n), s # {}, f[s \ {Max(s)}] \in V
      PROVE  f[s] \in V
  <2>1. f[s] = TraceRay(f[s \ {Max(s)}], scan, ps[Max(s)], t)
    BY <1>7, <1>9
  <2>2. Max(s) \in 1..n
    BY <1>9, MaxOfIndices
  <2> HIDE DEF f
  <2> QED BY <1>9, <2>1, <2>2
<1> HIDE DEF f
<1>10. f[1..n] \in V
  BY <1>8, <1>9, FoldStays
<1> QED BY <1>1, <1>10

\* What is left of g after the clearing methods with the indices in s.
MethodFold(f, n, g, scan, dt, t) ==
    /\ ClearOccupancy(g, scan, dt, t) = f[1..n] /\ f[{}] = g
    /\ \A s \in SUBSET (1..n) :
          s # {} => f[s] = ClearBy(Methods[Max(s)], f[s \ {Max(s)}], scan, dt, t)
IsMethodFold(n, g, scan, dt, t) == \E f : MethodFold(f, n, g, scan, dt, t)

\* ClearOccupancy by its definition: the clearing methods in their order.
LEMMA ClearOccupancyFolds ==
    ASSUME NEW V, NEW n \in Nat, DOMAIN Methods = 1..n, NEW g \in V,
           NEW scan, NEW dt, NEW t,
           \A h \in V, i \in 1..n : ClearBy(Methods[i], h, scan, dt, t) \in V
    PROVE  IsMethodFold(n, g, scan, dt, t)
<1> DEFINE X == {Methods[i] : i \in 1..n}
           step == [a \in V \X X |-> ClearBy(a[2], a[1], scan, dt, t)]
           Body(f) == [s \in SUBSET (1..n) |->
                         IF s = {} THEN g ELSE ClearBy(Methods[Max(s)], f[s \ {Max(s)}], scan, dt, t)]
           f == CHOOSE h : h = Body(h)
<1>1. ClearOccupancy(g, scan, dt, t) = f[1..n]
  BY DEF ClearOccupancy, FoldLeft, MapThenFoldSet
<1>2. step \in [V \X X -> V] /\ \A i \in 1..n : Methods[i] \in X
  OBVIOUS
<1>3. ASSUME NEW h \in V, NEW i \in 1..n
      PROVE  step[<<h, Methods[i]>>] = ClearBy(Methods[i], h, scan, dt, t)
  OBVIOUS
<1> HIDE DEF X, step
<1>4. PICK h \in [SUBSET (1..n) -> V] : Folds(h, n, step, g, Methods)
  BY <1>2, FoldExists DEF HasFold
<1>5. ASSUME NEW s \in SUBSET (1..n)
      PROVE  h[s] = IF s = {} THEN g ELSE ClearBy(Methods[Max(s)], h[s \ {Max(s)}], scan, dt, t)
  <2>1. s # {} => Max(s) \in 1..n /\ h[s \ {Max(s)}] \in V
    BY MaxOfIndices
  <2> QED BY <1>3, <1>4, <2>1 DEF Folds
<1>6. h = Body(h)
  BY <1>5
<1>7. f = Body(f)
  BY <1>6
<1>8. f[{}] = g
  BY <1>7
<1>9. ASSUME NEW s \in SUBSET (1..n), s # {}
      PROVE  f[s] = ClearBy(Methods[Max(s)], f[s \ {Max(s)}], scan, dt, t)
  BY <1>7, <1>9
<1> HIDE DEF f
<1>10. MethodFold(f, n, g, scan, dt, t)
  BY <1>1, <1>8, <1>9 DEF MethodFold
<1> QED BY <1>10 DEF IsMethodFold

\* A set that no method leads out of is not left by the clearing.
LEMMA ClearOccupancyStays ==
    ASSUME NEW V, NEW n \in Nat, DOMAIN Methods = 1..n, NEW g \in V,
           NEW scan, NEW dt, NEW t,
           \A h \in V, i \in 1..n : ClearBy(Methods[i], h, scan, dt, t) \in V
    PROVE  ClearOccupancy(g, scan, dt, t) \in V
<1>1. PICK f : MethodFold(f, n, g, scan, dt, t)
  BY ClearOccupancyFolds DEF IsMethodFold
<1>2. ASSUME NEW s \in SUBSET (1..n), s # {}, f[s \ {Max(s)}] \in V
      PROVE  f[s] \in V
  <2>1. Max(s) \in 1..n
    BY <1>2, MaxOfIndices
  <2> QED BY <1>1, <1>2, <2>1 DEF MethodFold
<1>4. f[{}] \in V
  BY <1>1 DEF MethodFold
<1>3. f[1..n] \in V
  BY <1>2, <1>4, FoldStays
<1> QED BY <1>1, <1>3 DEF MethodFold

\* The last method sees what the others left, a grid of V.
LastSees(V, n, g, scan, dt, t) ==
    \E h \in V : ClearOccupancy(g, scan, dt, t) = ClearBy(Methods[n], h, scan, dt, t)

LEMMA LastMethod ==
    ASSUME NEW U, NEW V \in SUBSET U, NEW n \in Nat, n > 0, DOMAIN Methods = 1..n, NEW g \in V,
           NEW scan, NEW dt, NEW t,
           \A h \in U, i \in 1..n : ClearBy(Methods[i], h, scan, dt, t) \in U,
           \A h \in V, i \in 1..(n - 1) : ClearBy(Methods[i], h, scan, dt, t) \in V
    PROVE  LastSees(V, n, g, scan, dt, t)
<1>1. g \in U
  OBVIOUS
<1>2. PICK f : MethodFold(f, n, g, scan, dt, t)
  BY <1>1, ClearOccupancyFolds DEF IsMethodFold
<1>3. ASSUME NEW s \in SUBSET (1..(n - 1)), s # {}, f[s \ {Max(s)}] \in V
      PROVE  f[s] \in V
  <2>1. n - 1 \in Nat /\ s \in SUBSET (1..n)
    OBVIOUS
  <2>2. Max(s) \in 1..(n - 1)
    BY <1>3, <2>1, MaxOfIndices
  <2>3. f[s] = ClearBy(Methods[Max(s)], f[s \ {Max(s)}], scan, dt, t)
    BY <1>2, <1>3, <2>1 DEF MethodFold
  <2> QED BY <1>3, <2>2, <2>3
<1>4. n - 1 \in Nat /\ f[{}] \in V
  BY <1>2 DEF MethodFold
<1>5. f[1..(n - 1)] \in V
  BY <1>3, <1>4, FoldStays
<1>6. 1..n \in SUBSET (1..n) /\ 1..n # {}
  <2>1. 1 \in 1..n
    OBVIOUS
  <2> QED BY <2>1
<1>7. Max(1..n) \in 1..n /\ \A i \in 1..n : i <= Max(1..n)
  BY <1>6, MaxOfIndices
<1>8. Max(1..n) = n
  BY <1>7
<1>9. (1..n) \ {n} = 1..(n - 1)
  OBVIOUS
<1>10. ClearOccupancy(g, scan, dt, t) = ClearBy(Methods[n], f[1..(n - 1)], scan, dt, t)
  BY <1>2, <1>6, <1>8, <1>9 DEF MethodFold
<1> QED BY <1>5, <1>10 DEF LastSees

-----------------------------------------------------------------------------
(* The dilation follows the obstacles: a scan that clears. *)

LEMMA ScanTypes ==
    ASSUME NEW scan \in Scans
    PROVE  /\ scan.points \in Seq(Points) /\ scan.origin \in Places
           /\ Len(scan.points) \in Nat /\ DOMAIN scan.points = 1..Len(scan.points)
           /\ \A i \in 1..Len(scan.points) : scan.points[i] \in Points
<1>1. PICK sc \in Scenarios : scan \in sc.scans \cup sc.clear_scans
  BY DEF Scans
<1>2. scan.points \in Seq(Points) /\ scan.origin \in Places
  BY <1>1, CostmapAssumption DEF Places
<1> QED BY <1>2

LEMMA MethodTypes ==
    /\ Len(Methods) \in Nat /\ DOMAIN Methods = 1..Len(Methods)
    /\ \A i \in 1..Len(Methods) : Methods[i] \in {"time", "raytrace", "channel_threshold"}
  BY CostmapAssumption

\* A set of grids that no voxel of a ray leads out of is not left by a ray.
LEMMA TraceRayStays ==
    ASSUME NEW V, NEW t, NEW scan \in Scans, NEW g \in V, NEW p \in Points,
           \A h \in V : \A v : ClearVoxelAt(h, v, t) \in V
    PROVE  TraceRay(g, scan, p, t) \in V
<1> DEFINE end == <<p.x, p.y, Voxel(p.h)>>
           ray == RaytraceLine(scan.origin, end)
<1>1. end \in Places /\ scan.origin \in Places
  BY ScanTypes DEF Points, Places, Voxel
<1> HIDE DEF end
<1>2. PICK m \in Nat : DOMAIN ray = 1..m
  BY <1>1, RayLength
<1> HIDE DEF ray
<1>3. ClearRay(g, ray, t) \in V
  BY <1>2, ClearRayStays
<1> QED BY <1>3 DEF TraceRay, ray, end

LEMMA TracedStays ==
    ASSUME NEW V, NEW t, NEW scan \in Scans, NEW g \in V,
           \A h \in V : \A v : ClearVoxelAt(h, v, t) \in V
    PROVE  TraceRays(g, scan, t) \in V
<1>1. \A h \in V, i \in 1..Len(scan.points) : TraceRay(h, scan, scan.points[i], t) \in V
  BY ScanTypes, TraceRayStays
<1> QED BY <1>1, ScanTypes, TraceRaysStays

LEMMA RaysFollow ==
    ASSUME NEW t \in Settings, NEW scan \in Scans, NEW g \in FollowingGrids(t)
    PROVE  ClearByRays(g, scan, t) \in FollowingGrids(t)
<1> DEFINE h == TraceRays(g, scan, t)
           Seen(n) == {Voxel(p.h) : p \in {q \in Range(scan.points) : <<q.x, q.y>> = n}}
           vs == [n \in Cells |-> h.voxels[n] \cup (Seen(n) \cap 0..(NVoxels - 1))]
<1>1. h \in FollowingGrids(t)
  BY TracedStays, ClearVoxelFollows
<1>2. ClearByRays(g, scan, t) = [h EXCEPT !.voxels = vs]
  BY DEF ClearByRays
<1> HIDE DEF h, Seen
<1>3. h \in GridData /\ Follows(h.cells, t)
  BY <1>1 DEF FollowingGrids
<1>4. vs \in [Cells -> SUBSET (0..(NVoxels - 1))] /\ h.cells \in Layers
  BY <1>3 DEF GridData
<1> HIDE DEF vs
<1>5. [h EXCEPT !.voxels = vs] = [cells |-> h.cells, voxels |-> vs]
  BY <1>3 DEF GridData
<1> QED BY <1>2, <1>3, <1>4, <1>5, FollowingGrid

LEMMA OccupancyClearedFollows ==
    ASSUME NEW t \in Settings, NEW scan \in Scans, NEW g \in FollowingGrids(t), NEW dt \in Nat
    PROVE  ClearOccupancy(g, scan, dt, t) \in FollowingGrids(t)
<1>1. ASSUME NEW h \in FollowingGrids(t), NEW i \in 1..Len(Methods)
      PROVE  ClearBy(Methods[i], h, scan, dt, t) \in FollowingGrids(t)
  <2>1. Methods[i] \in {"time", "raytrace", "channel_threshold"}
    BY MethodTypes
  <2>2. CASE Methods[i] = "time"
    BY <2>2, TimedFollows DEF ClearBy
  <2>3. CASE Methods[i] = "raytrace"
    BY <2>3, RaysFollow DEF ClearBy
  <2>4. CASE Methods[i] = "channel_threshold"
    BY <2>4, ChannelFollows DEF ClearBy
  <2> QED BY <2>1, <2>2, <2>3, <2>4
<1> QED BY <1>1, MethodTypes, ClearOccupancyStays

-----------------------------------------------------------------------------
(* The dilation follows the obstacles: points that are added. *)

\* The heights of the points that fall into a cell.
HeightsIn(scan, n) == {p.h : p \in {q \in Range(scan.points) : <<q.x, q.y>> = n}}

\* AddPoints before the dilation: heights, and the cells with a slope that the points
\* raised.
RaisedCells(cs, scan) ==
    [n \in Cells |->
        IF n \in Hit(scan)
        THEN [cs[n] EXCEPT
                 !.low = Smaller(@, Min(HeightsIn(scan, n))),
                 !.low_age = IF Min(HeightsIn(scan, n)) < cs[n].low THEN 0 ELSE @,
                 !.high = Larger(@, Max(HeightsIn(scan, n))),
                 !.high_age = IF Max(HeightsIn(scan, n)) > cs[n].high THEN 0 ELSE @]
        ELSE cs[n]]

SteeperCells(cs, scan, t) ==
    {c \in Hit(scan) : /\ PastSlopeThreshold(RaisedCells(cs, scan)[c], t)
                       /\ \/ ~RaisedCells(cs, scan)[c].has_dilated
                          \/ Height(RaisedCells(cs, scan)[c]) > Height(cs[c])}

LEMMA AddedByDilation ==
    \A cs, scan, t : AddOccupancy(cs, scan, t) =
        Dilate(RaisedCells(cs, scan), SteeperCells(cs, scan, t), t)
  BY DEF AddOccupancy, RaisedCells, SteeperCells, HeightsIn

LEMMA HitHeights ==
    ASSUME NEW scan \in Scans, NEW n \in Hit(scan)
    PROVE  LET H == HeightsIn(scan, n) IN
           /\ n \in Cells
           /\ H \in SUBSET (0..(NoLow - 1))
           /\ Min(H) \in H /\ Max(H) \in H /\ \A h \in H : Min(H) <= h /\ h <= Max(H)
<1> DEFINE H == HeightsIn(scan, n)
<1>1. \A q \in Range(scan.points) : q \in Points
  BY ScanTypes DEF Range
<1>2. PICK q \in Range(scan.points) : InGrid(q) /\ n = <<q.x, q.y>>
  BY DEF Hit
<1>3. n \in Cells /\ q.h \in H
  BY <1>2 DEF InGrid, HeightsIn
<1>4. H \in SUBSET (0..(NoLow - 1))
  BY <1>1 DEF HeightsIn, Points
<1> HIDE DEF H
<1>5. H \in SUBSET Nat /\ H # {} /\ H \in SUBSET Int /\ NoLow \in Int /\ \A h \in H : h <= NoLow
  BY <1>3, <1>4 DEF NoLow
<1>6. Min(H) \in H /\ \A h \in H : Min(H) <= h
  BY <1>5, MinIsLeast
<1>7. Max(H) \in H /\ \A h \in H : h <= Max(H)
  BY <1>5, MaxIsGreatest
<1> QED BY <1>3, <1>4, <1>6, <1>7 DEF H

\* Raising changes heights only, and takes none of them back.
LEMMA RaisedCell ==
    ASSUME NEW cs \in Layers, NEW scan \in Scans, NEW n \in Cells
    PROVE  LET raised == RaisedCells(cs, scan)[n] IN
           /\ raised \in CellValues
           /\ raised.dilated_val = cs[n].dilated_val
           /\ raised.has_dilated = cs[n].has_dilated
           /\ raised.low <= cs[n].low /\ raised.high >= cs[n].high
           /\ n \notin Hit(scan) => raised = cs[n]
<1> DEFINE raised == RaisedCells(cs, scan)[n]
           lo == Min(HeightsIn(scan, n))
           hi == Max(HeightsIn(scan, n))
<1>1. cs[n] \in CellValues
  BY DEF Layers
<1>2. CASE n \notin Hit(scan)
  <2>1. raised = cs[n]
    BY <1>2 DEF RaisedCells
  <2>2. cs[n].low <= cs[n].low /\ cs[n].high >= cs[n].high
    BY <1>1 DEF CellValues
  <2> HIDE DEF raised
  <2> QED BY <1>1, <2>1, <2>2 DEF raised
<1>3. CASE n \in Hit(scan)
  <2>1. lo \in 0..(NoLow - 1) /\ hi \in 0..(NoLow - 1)
    BY <1>3, HitHeights
  <2>2. raised = [cs[n] EXCEPT
                     !.low = Smaller(@, lo), !.low_age = IF lo < cs[n].low THEN 0 ELSE @,
                     !.high = Larger(@, hi), !.high_age = IF hi > cs[n].high THEN 0 ELSE @]
    BY <1>3 DEF RaisedCells
  <2> DEFINE low == Smaller(cs[n].low, lo)
             high == Larger(cs[n].high, hi)
             low_age == IF lo < cs[n].low THEN 0 ELSE cs[n].low_age
             high_age == IF hi > cs[n].high THEN 0 ELSE cs[n].high_age
  <2>3. raised = [cs[n] EXCEPT !.low = low, !.low_age = low_age, !.high = high,
                               !.high_age = high_age]
    BY <2>2
  <2>4. cs[n].low \in 0..NoLow /\ cs[n].high \in Int /\ cs[n].low_age \in Nat
        /\ cs[n].high_age \in Nat
    BY <1>1 DEF CellValues
  <2> HIDE DEF raised, lo, hi
  <2>5. low \in 0..NoLow /\ high \in Int /\ low_age \in Nat /\ high_age \in Nat
        /\ low <= cs[n].low /\ high >= cs[n].high
    <3>1. NoLow \in Nat
      BY DEF NoLow
    <3> QED BY <2>1, <2>4, <3>1 DEF Smaller, Larger
  <2> HIDE DEF low, high, low_age, high_age
  <2>6. raised \in CellValues
    BY <1>1, <2>3, <2>5 DEF CellValues
  <2>7. raised.low = low /\ raised.high = high /\ raised.dilated_val = cs[n].dilated_val
        /\ raised.has_dilated = cs[n].has_dilated
    BY <1>1, <2>3 DEF CellValues
  <2> QED BY <1>3, <2>5, <2>6, <2>7 DEF raised
<1> QED BY <1>2, <1>3

LEMMA RaisedSlope ==
    ASSUME NEW cs \in Layers, NEW scan \in Scans, NEW n \in Cells, NEW t \in Settings
    PROVE  LET raised == RaisedCells(cs, scan)[n] IN
           /\ PastSlopeThreshold(cs[n], t) =>
                 PastSlopeThreshold(raised, t) /\ Share(cs[n], t) <= Share(raised, t)
           /\ PastSlopeThreshold(raised, t) =>
                 \/ Height(raised) > Height(cs[n])
                 \/ PastSlopeThreshold(cs[n], t) /\ Share(raised, t) = Share(cs[n], t)
<1> DEFINE raised == RaisedCells(cs, scan)[n]
<1>1. raised \in CellValues /\ cs[n] \in CellValues
      /\ raised.low <= cs[n].low /\ raised.high >= cs[n].high
  BY RaisedCell DEF Layers
<1> HIDE DEF raised
<1>2. raised.low \in Int /\ raised.high \in Int /\ cs[n].low \in Int /\ cs[n].high \in Int
  BY <1>1 DEF CellValues
<1>3. (Filled(cs[n]) => Filled(raised)) /\ Height(cs[n]) <= Height(raised)
      /\ Height(cs[n]) \in Int /\ Height(raised) \in Int
  BY <1>1, <1>2 DEF Filled, Height, NoLow
<1>4. PastSlopeThreshold(cs[n], t) =>
         PastSlopeThreshold(raised, t) /\ Share(cs[n], t) <= Share(raised, t)
  BY <1>1, <1>3, ValueOfHigher
<1>5. ASSUME ~(Height(raised) > Height(cs[n]))
      PROVE  /\ PastSlopeThreshold(raised, t) = PastSlopeThreshold(cs[n], t)
             /\ Share(raised, t) = Share(cs[n], t)
  <2>1. raised.low = cs[n].low /\ raised.high = cs[n].high
    BY <1>1, <1>2, <1>5 DEF Height
  <2> QED BY <2>1 DEF Share, GetGridCellValue, Filled, Height, PastSlopeThreshold
<1> QED BY <1>4, <1>5 DEF raised

\* Added points dilate around what they raise.
LEMMA AddedFollows ==
    ASSUME NEW t \in Settings, NEW scan \in Scans, NEW cs \in Layers, Follows(cs, t)
    PROVE  /\ AddOccupancy(cs, scan, t) \in Layers
           /\ Follows(AddOccupancy(cs, scan, t), t)
<1> DEFINE raised == RaisedCells(cs, scan)
           C == SteeperCells(cs, scan, t)
           d == Dilate(raised, C, t)
<1>1. raised \in Layers
  <2>1. raised = [n \in Cells |-> raised[n]]
    BY DEF RaisedCells
  <2> HIDE DEF raised
  <2> QED BY <2>1, RaisedCell DEF Layers, raised
<1>2. C \in SUBSET Cells
  BY HitHeights DEF SteeperCells
<1>3. ASSUME NEW n \in Cells
      PROVE  /\ PastSlopeThreshold(cs[n], t) =>
                    PastSlopeThreshold(raised[n], t) /\ Share(cs[n], t) <= Share(raised[n], t)
             /\ PastSlopeThreshold(raised[n], t) =>
                    \/ n \in C
                    \/ PastSlopeThreshold(cs[n], t) /\ Share(raised[n], t) = Share(cs[n], t)
             /\ n \in C => PastSlopeThreshold(raised[n], t)
             /\ raised[n].dilated_val = cs[n].dilated_val
             /\ Share(raised[n], t) \in -1..80 /\ raised[n].dilated_val \in -1..100
  <2>1. PastSlopeThreshold(cs[n], t) =>
           PastSlopeThreshold(raised[n], t) /\ Share(cs[n], t) <= Share(raised[n], t)
    BY RaisedSlope
  <2>2. n \in C => PastSlopeThreshold(raised[n], t)
    BY DEF SteeperCells
  <2>3. ASSUME PastSlopeThreshold(raised[n], t), n \notin C
        PROVE  PastSlopeThreshold(cs[n], t) /\ Share(raised[n], t) = Share(cs[n], t)
    <3>1. CASE n \in Hit(scan)
      <4>1. ~(Height(raised[n]) > Height(cs[n]))
        BY <2>3, <3>1 DEF SteeperCells
      <4> QED BY <2>3, <4>1, RaisedSlope
    <3>2. CASE n \notin Hit(scan)
      <4>1. raised[n] = cs[n]
        BY <3>2, RaisedCell
      <4> HIDE DEF raised
      <4> QED BY <2>3, <4>1
    <3> QED BY <3>1, <3>2
  <2>4. raised[n].dilated_val = cs[n].dilated_val /\ raised[n] \in CellValues
    BY RaisedCell
  <2> HIDE DEF raised, C
  <2>5. Share(raised[n], t) \in -1..80 /\ raised[n].dilated_val \in -1..100
    BY <2>4, ValueInRange DEF CellValues
  <2> QED BY <2>1, <2>2, <2>3, <2>4, <2>5
<1> HIDE DEF raised, C
<1>4. d \in Layers
  BY <1>1, <1>2, Dilated
<1>5. ASSUME NEW n \in Cells
      PROVE  /\ PastSlopeThreshold(d[n], t) = PastSlopeThreshold(raised[n], t)
             /\ Share(d[n], t) = Share(raised[n], t)
             /\ d[n].dilated_val >= raised[n].dilated_val
             /\ \A c \in C \cap Around[n] : d[n].dilated_val >= Share(raised[c], t)
             /\ \/ d[n].dilated_val = raised[n].dilated_val
                \/ \E c \in C \cap Around[n] : d[n].dilated_val = Share(raised[c], t)
             /\ d[n].dilated_val \in Int
  <2>1. d[n].dilated_val \in Int
    BY <1>4 DEF Layers, CellValues
  <2> QED BY <1>1, <1>2, <2>1, Dilated, SameValues
<1> HIDE DEF d
<1>6. ASSUME NEW n \in Cells, d[n].dilated_val > 0
      PROVE  \E o \in Around[n] : PastSlopeThreshold(d[o], t)
  <2>1. CASE d[n].dilated_val = raised[n].dilated_val
    <3>1. cs[n].dilated_val > 0
      BY <1>3, <1>6, <2>1
    <3>2. PICK o \in Around[n] : PastSlopeThreshold(cs[o], t)
      BY <3>1 DEF Follows
    <3>3. o \in Cells
      BY AroundInCells
    <3> QED BY <1>3, <1>5, <3>2, <3>3
  <2>2. CASE \E c \in C \cap Around[n] : d[n].dilated_val = Share(raised[c], t)
    <3>1. PICK c \in C \cap Around[n] : TRUE
      BY <2>2
    <3>2. c \in Cells /\ PastSlopeThreshold(raised[c], t)
      BY <1>2, <1>3, <3>1
    <3> QED BY <1>5, <3>1, <3>2
  <2> QED BY <1>5, <2>1, <2>2
<1>7. ASSUME NEW n \in Cells, NEW o \in Around[n], PastSlopeThreshold(d[o], t)
      PROVE  d[n].dilated_val >= Share(d[o], t)
  <2>1. o \in Cells /\ PastSlopeThreshold(raised[o], t) /\ Share(d[o], t) = Share(raised[o], t)
    BY <1>5, <1>7, AroundInCells
  <2>2. CASE o \in C
    BY <1>5, <2>1, <2>2
  <2>3. CASE o \notin C
    <3>1. PastSlopeThreshold(cs[o], t) /\ Share(raised[o], t) = Share(cs[o], t)
      BY <1>3, <2>1, <2>3
    <3>2. cs[n].dilated_val >= Share(cs[o], t)
      BY <3>1 DEF Follows
    <3>3. d[n].dilated_val >= raised[n].dilated_val /\ raised[n].dilated_val = cs[n].dilated_val
      BY <1>3, <1>5
    <3>4. d[n].dilated_val \in Int /\ raised[n].dilated_val \in -1..100 /\ Share(raised[o], t) \in -1..80
      BY <1>3, <1>5, <2>1
    <3> QED BY <2>1, <3>1, <3>2, <3>3, <3>4
  <2> QED BY <2>2, <2>3
<1>8. Follows(d, t)
  BY <1>6, <1>7 DEF Follows
<1>9. AddOccupancy(cs, scan, t) = d
  BY AddedByDilation DEF d, raised, C
<1> QED BY <1>4, <1>8, <1>9

\* The layer without its dilation.
LEMMA BareCell ==
    ASSUME NEW cs \in Layers
    PROVE  LET bare == [n \in Cells |-> [cs[n] EXCEPT !.has_dilated = FALSE, !.dilated_val = -1]]
           IN  /\ bare \in Layers
               /\ \A n \in Cells : SameHeights(bare[n], cs[n]) /\ bare[n].dilated_val = -1
<1> DEFINE bare == [n \in Cells |-> [cs[n] EXCEPT !.has_dilated = FALSE, !.dilated_val = -1]]
<1>2. ASSUME NEW n \in Cells
      PROVE  bare[n] \in CellValues /\ SameHeights(bare[n], cs[n]) /\ bare[n].dilated_val = -1
  <2> DEFINE none == -1
  <2>1. bare[n] = [cs[n] EXCEPT !.has_dilated = FALSE, !.dilated_val = none]
    OBVIOUS
  <2>2. cs[n] \in CellValues /\ none \in -1..100
    BY DEF Layers
  <2> HIDE DEF bare, none
  <2>3. bare[n] \in CellValues
    BY <2>1, <2>2 DEF CellValues
  <2> QED BY <2>1, <2>2, <2>3 DEF CellValues, SameHeights, none
<1>3. bare \in Layers
  <2>1. bare = [n \in Cells |-> bare[n]]
    OBVIOUS
  <2> HIDE DEF bare
  <2> QED BY <1>2, <2>1 DEF Layers
<1> QED BY <1>2, <1>3

\* New thresholds dilate anew.
LEMMA RecomputedFollows ==
    ASSUME NEW t \in Settings, NEW cs \in Layers
    PROVE  /\ RecomputeGridDilation(cs, t) \in Layers
           /\ Follows(RecomputeGridDilation(cs, t), t)
<1> DEFINE bare == [n \in Cells |-> [cs[n] EXCEPT !.has_dilated = FALSE, !.dilated_val = -1]]
           C == Obstacles(cs, t)
           d == Dilate(bare, C, t)
<1>1. RecomputeGridDilation(cs, t) = d
  BY DEF RecomputeGridDilation
<1>3. bare \in Layers
      /\ \A n \in Cells : SameHeights(bare[n], cs[n]) /\ bare[n].dilated_val = -1
  BY BareCell
<1>4. C \in SUBSET Cells /\ \A n \in Cells : n \in C <=> PastSlopeThreshold(cs[n], t)
  BY DEF Obstacles
<1> HIDE DEF bare, C
<1>5. d \in Layers
  BY <1>3, <1>4, Dilated
<1>6. ASSUME NEW n \in Cells
      PROVE  /\ PastSlopeThreshold(d[n], t) = PastSlopeThreshold(cs[n], t)
             /\ Share(d[n], t) = Share(bare[n], t)
             /\ \A c \in C \cap Around[n] : d[n].dilated_val >= Share(bare[c], t)
             /\ d[n].dilated_val > 0 => C \cap Around[n] # {}
  <2>1. /\ SameHeights(d[n], bare[n])
        /\ \A c \in C \cap Around[n] : d[n].dilated_val >= Share(bare[c], t)
        /\ \/ d[n].dilated_val = bare[n].dilated_val
           \/ \E c \in C \cap Around[n] : d[n].dilated_val = Share(bare[c], t)
    BY <1>3, <1>4, Dilated
  <2> HIDE DEF d
  <2>2. d[n].dilated_val > 0 => C \cap Around[n] # {}
    BY <1>3, <2>1
  <2>3. PastSlopeThreshold(d[n], t) = PastSlopeThreshold(bare[n], t)
        /\ PastSlopeThreshold(bare[n], t) = PastSlopeThreshold(cs[n], t)
        /\ Share(d[n], t) = Share(bare[n], t)
    BY <1>3, <2>1, SameValues
  <2> QED BY <2>1, <2>2, <2>3
<1> HIDE DEF d
<1>7. ASSUME NEW n \in Cells
      PROVE  /\ d[n].dilated_val > 0 => \E o \in Around[n] : PastSlopeThreshold(d[o], t)
             /\ \A o \in Around[n] :
                   PastSlopeThreshold(d[o], t) => d[n].dilated_val >= Share(d[o], t)
  <2>1. \A o \in Around[n] : o \in Cells
    BY AroundInCells
  <2>2. \A o \in Around[n] : PastSlopeThreshold(d[o], t) <=> o \in C
    BY <1>4, <1>6, <2>1
  <2> QED BY <1>6, <2>1, <2>2
<1> QED BY <1>1, <1>5, <1>7 DEF Follows

\* Dilation leaves the heights alone.
LEMMA AddedHeights ==
    ASSUME NEW t \in Settings, NEW scan \in Scans, NEW cs \in Layers, NEW n \in Cells
    PROVE  SameHeights(AddOccupancy(cs, scan, t)[n], RaisedCells(cs, scan)[n])
<1> DEFINE raised == RaisedCells(cs, scan)
           C == SteeperCells(cs, scan, t)
<1>1. raised \in Layers
  <2>1. raised = [k \in Cells |-> raised[k]]
    BY DEF RaisedCells
  <2> HIDE DEF raised
  <2> QED BY <2>1, RaisedCell DEF Layers, raised
<1>2. C \in SUBSET Cells
  BY HitHeights DEF SteeperCells
<1>3. AddOccupancy(cs, scan, t) = Dilate(raised, C, t)
  BY AddedByDilation
<1> HIDE DEF raised, C
<1>4. SameHeights(AddOccupancy(cs, scan, t)[n], raised[n])
  BY <1>1, <1>2, <1>3, Dilated
<1> QED BY <1>4 DEF raised

LEMMA RecomputedHeights ==
    ASSUME NEW t \in Settings, NEW cs \in Layers, NEW n \in Cells
    PROVE  SameHeights(RecomputeGridDilation(cs, t)[n], cs[n])
<1> DEFINE bare == [k \in Cells |-> [cs[k] EXCEPT !.has_dilated = FALSE, !.dilated_val = -1]]
           C == Obstacles(cs, t)
<1>1. RecomputeGridDilation(cs, t) = Dilate(bare, C, t)
  BY DEF RecomputeGridDilation
<1>2. bare \in Layers /\ SameHeights(bare[n], cs[n])
  BY BareCell
<1>3. C \in SUBSET Cells
  BY DEF Obstacles
<1> HIDE DEF bare, C
<1>4. SameHeights(Dilate(bare, C, t)[n], bare[n])
  BY <1>2, <1>3, Dilated
<1> QED BY <1>1, <1>2, <1>4 DEF SameHeights

-----------------------------------------------------------------------------
(* The dilation follows the obstacles: the steps. *)

\* Types of the layers, and the first invariant.
LayerTypes ==
    /\ cells \in Layers /\ static_cells \in Layers
    /\ voxel_grid \in [Cells -> SUBSET (0..(NVoxels - 1))]
    /\ scenario \in Scenarios /\ thresholds \in scenario.thresholds
    /\ clr_only_pc \in scenario.clear_scans \cup {NoScan}

FollowInv == LayerTypes /\ DilationFollowsObstacles

\* What is assumed of the scenarios.
LEMMA ScenarioTypes ==
    ASSUME NEW sc \in Scenarios
    PROVE  /\ \A t \in sc.thresholds : t \in Settings
           /\ sc.scans \subseteq Scans /\ sc.clear_scans \subseteq Scans /\ sc.dts \subseteq Nat
<1>1. \A t \in sc.thresholds : t \in Settings
  BY CostmapAssumption DEF Settings
<1>2. sc.dts \subseteq Nat
  BY CostmapAssumption
<1> QED BY <1>1, <1>2 DEF Scans

LEMMA EmptyLayer ==
    /\ EmptyCell \in CellValues
    /\ \A t \in Settings : ~PastSlopeThreshold(EmptyCell, t)
    /\ EmptyCell.dilated_val = -1 /\ ~Filled(EmptyCell)
<1> DEFINE none == -1
<1>1. NoLow \in 0..NoLow /\ NoHigh \in Int /\ none \in -1..100
  BY DEF NoLow, NoHigh
<1>2. EmptyCell = [low |-> NoLow, high |-> NoHigh, low_age |-> 0, high_age |-> 0,
                   has_dilated |-> FALSE, dilated_val |-> none]
  BY DEF EmptyCell
<1> HIDE DEF none
<1>3. EmptyCell \in CellValues
  BY <1>1, <1>2 DEF CellValues
<1>4. EmptyCell.low = NoLow /\ EmptyCell.high = NoHigh /\ EmptyCell.dilated_val = none
  BY <1>2
<1>5. \A t \in Settings : t.thresh \in Nat
  BY DEF Settings
<1> QED BY <1>3, <1>4, <1>5 DEF PastSlopeThreshold, Height, Filled, NoLow, NoHigh, none

LEMMA EmptyFollows ==
    /\ [n \in Cells |-> EmptyCell] \in Layers
    /\ \A t \in Settings : Follows([n \in Cells |-> EmptyCell], t)
<1> DEFINE cs == [n \in Cells |-> EmptyCell]
<1>1. \A n \in Cells : cs[n] = EmptyCell
  OBVIOUS
<1>2. cs \in Layers
  BY EmptyLayer DEF Layers
<1> HIDE DEF cs
<1>3. ASSUME NEW t \in Settings PROVE Follows(cs, t)
  <2>1. \A n \in Cells : ~(cs[n].dilated_val > 0) /\ \A o \in Around[n] : ~PastSlopeThreshold(cs[o], t)
    BY <1>1, EmptyLayer, AroundInCells
  <2> QED BY <2>1 DEF Follows
<1> QED BY <1>2, <1>3 DEF cs

LEMMA FollowInit ==
    Init => FollowInv
<1> SUFFICES ASSUME Init PROVE FollowInv
  OBVIOUS
<1>1. scenario \in Scenarios /\ thresholds \in scenario.thresholds /\ clr_only_pc = NoScan
  BY DEF Init
<1>2. thresholds \in Settings
  BY <1>1, ScenarioTypes
<1>3. cells \in Layers /\ Follows(cells, thresholds)
  BY <1>2, EmptyFollows DEF Init
<1>4. voxel_grid \in [Cells -> SUBSET (0..(NVoxels - 1))]
  BY DEF Init
<1>5. ASSUME NEW n \in DOMAIN StaticHeights
      PROVE  [EmptyCell EXCEPT !.low = StaticHeights[n].low, !.high = StaticHeights[n].high]
                \in CellValues
  <2> DEFINE lo == StaticHeights[n].low
             hi == StaticHeights[n].high
             e == [EmptyCell EXCEPT !.low = lo, !.high = hi]
  <2>1. lo \in 0..(NoLow - 1) /\ hi \in 0..(NoLow - 1)
    BY CostmapAssumption
  <2>2. lo \in 0..NoLow /\ hi \in Int
    BY <2>1 DEF NoLow
  <2> HIDE DEF lo, hi
  <2>3. e = [EmptyCell EXCEPT !.low = lo, !.high = hi]
    OBVIOUS
  <2> HIDE DEF e
  <2>4. e \in CellValues
    BY <2>2, <2>3, EmptyLayer DEF CellValues
  <2> QED BY <2>4 DEF e, lo, hi
<1>6. static_cells \in Layers
  BY <1>5, EmptyLayer DEF Init, Layers
<1> QED BY <1>1, <1>3, <1>4, <1>6, FollowsIsInvariant DEF FollowInv, LayerTypes

\* What a cloud does to the layer.
LEMMA CloudFollows ==
    ASSUME FollowInv, NEW scan \in scenario.scans, NEW dt \in scenario.dts, PointCloud(scan, dt)
    PROVE  FollowInv'
<1> DEFINE g == [cells |-> cells, voxels |-> voxel_grid]
           before == IF clr_only_pc = NoScan THEN g
                     ELSE ClearOccupancy(g, clr_only_pc, dt, thresholds)
           cleared == ClearOccupancy(before, scan, IF clr_only_pc = NoScan THEN dt ELSE 0,
                                     thresholds)
<1>1. /\ cells' = AddOccupancy(cleared.cells, scan, thresholds)
      /\ voxel_grid' = cleared.voxels /\ clr_only_pc' = NoScan
      /\ UNCHANGED <<static_cells, thresholds, scenario>>
  BY DEF PointCloud, sub_vars
<1>2. thresholds \in Settings /\ scan \in Scans /\ dt \in Nat
      /\ (clr_only_pc # NoScan => clr_only_pc \in Scans)
  BY ScenarioTypes DEF FollowInv, LayerTypes
<1>3. g \in FollowingGrids(thresholds)
  BY FollowingGrid, FollowsIsInvariant DEF FollowInv, LayerTypes
<1> HIDE DEF g
<1>4. before \in FollowingGrids(thresholds)
  BY <1>2, <1>3, OccupancyClearedFollows
<1> HIDE DEF before
<1>5. cleared \in FollowingGrids(thresholds)
  <2>1. (IF clr_only_pc = NoScan THEN dt ELSE 0) \in Nat
    BY <1>2
  <2> QED BY <1>2, <1>4, <2>1, OccupancyClearedFollows
<1> HIDE DEF cleared
<1>6. cleared.cells \in Layers /\ Follows(cleared.cells, thresholds)
      /\ cleared.voxels \in [Cells -> SUBSET (0..(NVoxels - 1))]
  BY <1>5 DEF FollowingGrids, GridData
<1>7. cells' \in Layers /\ Follows(cells', thresholds)
  BY <1>1, <1>2, <1>6, AddedFollows
<1>8. LayerTypes'
  BY <1>1, <1>6, <1>7 DEF LayerTypes, FollowInv
<1>9. DilationFollowsObstacles'
  <2>1. Follows(cells', thresholds')
    BY <1>1, <1>7
  <2> QED BY <2>1, AroundInCells DEF DilationFollowsObstacles, Follows, Obstacles, Share
<1> QED BY <1>8, <1>9 DEF FollowInv

LEMMA FollowNext ==
    FollowInv /\ [Next]_vars => FollowInv'
<1> SUFFICES ASSUME FollowInv, [Next]_vars PROVE FollowInv'
  OBVIOUS
<1>1. ASSUME NEW scan \in scenario.scans, NEW dt \in scenario.dts, PointCloud(scan, dt)
      PROVE  FollowInv'
  BY <1>1, CloudFollows
<1>2. ASSUME NEW scan \in scenario.clear_scans, ClearOnlyPoints(scan)
      PROVE  FollowInv'
  BY <1>2 DEF ClearOnlyPoints, FollowInv, LayerTypes, DilationFollowsObstacles, sub_vars,
         Obstacles
<1>3. ASSUME NEW t \in scenario.thresholds, UpdateThresholds(t)
      PROVE  FollowInv'
  <2>1. /\ thresholds' = t /\ cells' = RecomputeGridDilation(cells, t)
        /\ static_cells' = RecomputeGridDilation(static_cells, t)
        /\ UNCHANGED <<voxel_grid, clr_only_pc, scenario>>
    BY <1>3 DEF UpdateThresholds, sub_vars
  <2>2. t \in Settings
    BY ScenarioTypes DEF FollowInv, LayerTypes
  <2>3. cells' \in Layers /\ static_cells' \in Layers /\ Follows(cells', thresholds')
    BY <2>1, <2>2, RecomputedFollows DEF FollowInv, LayerTypes
  <2>4. DilationFollowsObstacles'
    BY <2>3, AroundInCells DEF DilationFollowsObstacles, Follows, Obstacles, Share
  <2> QED BY <2>1, <2>3, <2>4 DEF FollowInv, LayerTypes
<1>4. ASSUME Cycle PROVE FollowInv'
  <2>1. UNCHANGED <<static_cells, thresholds, clr_only_pc, scenario>>
    BY <1>4 DEF Cycle
  <2>2. \/ UNCHANGED <<cells, voxel_grid>>
        \/ /\ cells' = [n \in Cells |-> EmptyCell]
           /\ voxel_grid' = [n \in Cells |-> {}]
    BY <1>4 DEF Cycle, Reset
  <2>3. thresholds \in Settings
    BY ScenarioTypes DEF FollowInv, LayerTypes
  <2>4. Follows(cells', thresholds') /\ cells' \in Layers
        /\ voxel_grid' \in [Cells -> SUBSET (0..(NVoxels - 1))]
    BY <2>1, <2>2, <2>3, EmptyFollows, FollowsIsInvariant DEF FollowInv, LayerTypes
  <2>5. DilationFollowsObstacles'
    BY <2>4, AroundInCells DEF DilationFollowsObstacles, Follows, Obstacles, Share
  <2> QED BY <2>1, <2>4, <2>5 DEF FollowInv, LayerTypes
<1>5. ASSUME UNCHANGED <<layer_vars, scenario>> PROVE FollowInv'
  BY <1>5 DEF FollowInv, LayerTypes, DilationFollowsObstacles, layer_vars, Obstacles
<1>6. CASE ResetCallback
  BY <1>5, <1>6 DEF ResetCallback, sub_vars
<1>7. CASE WarmUpEnds
  BY <1>5, <1>7 DEF WarmUpEnds, sub_vars
<1>8. CASE Join
  BY <1>5, <1>8 DEF Join
<1>9. CASE OccupancyGridCallback
  BY <1>5, <1>9 DEF OccupancyGridCallback
<1>10. CASE OccupancyGridUpdateCallback
  BY <1>5, <1>10 DEF OccupancyGridUpdateCallback
<1>11. CASE UNCHANGED vars
  BY <1>5, <1>11 DEF vars, sub_vars
<1> QED BY <1>1, <1>2, <1>3, <1>4, <1>6, <1>7, <1>8, <1>9, <1>10, <1>11 DEF Next

THEOREM DilationIsCurrent == Spec => []DilationFollowsObstacles
<1>1. FollowInv => DilationFollowsObstacles
  BY DEF FollowInv
<1> QED BY <1>1, FollowInit, FollowNext, PTL DEF Spec

-----------------------------------------------------------------------------
(* Cells and the voxels seen in them: what clears them. *)

\* A cell and the voxels that points were seen in, but for those of the ground.
MatchesAt(cell, vs, ground) ==
    /\ Filled(cell) => Voxel(cell.low) \in vs
    /\ \A z \in vs \ ground :
          Filled(cell) /\ z <= TopVoxelIndex(cell.high) /\ Voxel(cell.low) <= z

\* The same of a grid, G being the voxels of the ground of each cell.
Matching(g, G) == \A n \in Cells : MatchesAt(g.cells[n], g.voxels[n], G[n])
MatchingGrids(t, G) == {g \in FollowingGrids(t) : Matching(g, G)}

LEMMA VoxelIsInt ==
    /\ \A h \in Int : Voxel(h) \in Int /\ TopVoxelIndex(h) \in Int
    /\ \A h \in Int, k \in Int : h <= k => /\ Voxel(h) <= Voxel(k)
                                          /\ TopVoxelIndex(h) <= TopVoxelIndex(k)
  BY DEF Voxel, TopVoxelIndex

LEMMA MatchKept ==
    ASSUME NEW a, NEW b, SameHeights(a, b), NEW vs, NEW ground, MatchesAt(b, vs, ground)
    PROVE  MatchesAt(a, vs, ground)
  BY DEF SameHeights, MatchesAt, Filled

LEMMA EmptyMatches ==
    ASSUME NEW cell, ~Filled(cell), NEW vs, NEW ground, vs \ ground = {}
    PROVE  MatchesAt(cell, vs, ground)
  BY DEF MatchesAt

LEMMA MatchingGrid ==
    ASSUME NEW t, NEW G, NEW g \in FollowingGrids(t), NEW cs, NEW vs,
           g = [cells |-> cs, voxels |-> vs],
           \A n \in Cells : MatchesAt(cs[n], vs[n], G[n])
    PROVE  g \in MatchingGrids(t, G)
<1>1. g.cells = cs /\ g.voxels = vs
  OBVIOUS
<1> QED BY <1>1 DEF MatchingGrids, Matching

LEMMA ClearedMatches ==
    ASSUME NEW t \in Settings, NEW G, NEW g \in MatchingGrids(t, G), NEW C \in SUBSET Cells
    PROVE  ClearCells(g, C, t) \in MatchingGrids(t, G)
<1> DEFINE cs == ResetCells(g.cells, C)
           r == RemoveDilation(cs, C, t)
           vs == [n \in Cells |-> IF n \in C THEN {} ELSE g.voxels[n]]
<1>1. g \in FollowingGrids(t) /\ Matching(g, G)
  BY DEF MatchingGrids
<1>2. g.cells \in Layers
  BY <1>1 DEF FollowingGrids, GridData
<1>3. ASSUME NEW n \in Cells
      PROVE  cs[n] \in CellValues /\ (n \in C => ~Filled(cs[n])) /\ (n \notin C => cs[n] = g.cells[n])
  <2>1. g.cells[n] \in CellValues
    BY <1>2 DEF Layers
  <2>2. cs[n] = IF n \in C THEN ResetHeight(g.cells[n]) ELSE g.cells[n]
    BY DEF ResetCells
  <2>3. PICK s \in Settings : TRUE
    OBVIOUS
  <2> HIDE DEF cs
  <2> QED BY <2>1, <2>2, <2>3, EmptiedCell
<1>4. cs \in Layers
  <2>1. cs = [n \in Cells |-> cs[n]]
    BY DEF ResetCells
  <2> HIDE DEF cs
  <2> QED BY <1>3, <2>1 DEF Layers
<1> HIDE DEF cs
<1>5. \A n \in Cells : SameHeights(r[n], cs[n])
  BY <1>4, Undilated
<1>6. ClearCells(g, C, t) = [cells |-> r, voxels |-> vs]
  BY DEF ClearCells, cs
<1>7. ClearCells(g, C, t) \in FollowingGrids(t)
  BY <1>1, ClearedFollows
<1>8. ASSUME NEW n \in Cells
      PROVE  MatchesAt(r[n], vs[n], G[n])
  <2>1. MatchesAt(cs[n], vs[n], G[n])
    <3>1. CASE n \in C
      <4>1. vs[n] \ G[n] = {}
        BY <3>1
      <4> HIDE DEF vs
      <4> QED BY <1>3, <3>1, <4>1, EmptyMatches
    <3>2. CASE n \notin C
      <4>1. vs[n] = g.voxels[n] /\ cs[n] = g.cells[n]
        BY <1>3, <3>2
      <4> HIDE DEF vs
      <4> QED BY <1>1, <4>1 DEF Matching
    <3> QED BY <3>1, <3>2
  <2> HIDE DEF vs, r
  <2> QED BY <1>5, <2>1, MatchKept
<1> HIDE DEF vs, r
<1> QED BY <1>6, <1>7, <1>8, MatchingGrid

LEMMA TimedMatches ==
    ASSUME NEW t \in Settings, NEW G, NEW g \in MatchingGrids(t, G), NEW dt \in Nat
    PROVE  ClearByTime(g, dt, t) \in MatchingGrids(t, G)
<1> DEFINE aged == [g EXCEPT !.cells = [n \in Cells |-> AgeCell(@[n], dt)]]
           cs == [n \in Cells |-> AgeCell(g.cells[n], dt)]
           old == {n \in Cells : \/ aged.cells[n].low_age > MaxPointAge
                                 \/ aged.cells[n].high_age > MaxPointAge}
<1>1. g \in FollowingGrids(t) /\ Matching(g, G)
  BY DEF MatchingGrids
<1>2. g.cells \in Layers /\ g \in GridData
  BY <1>1 DEF FollowingGrids, GridData
<1>3. aged = [cells |-> cs, voxels |-> g.voxels]
  BY <1>2 DEF GridData
<1>4. aged \in FollowingGrids(t)
  BY <1>1, AgedFollows
<1>5. ASSUME NEW n \in Cells
      PROVE  MatchesAt(cs[n], g.voxels[n], G[n])
  <2>1. g.cells[n] \in CellValues /\ MatchesAt(g.cells[n], g.voxels[n], G[n])
    BY <1>1, <1>2 DEF Layers, Matching
  <2>2. cs[n].low = g.cells[n].low /\ cs[n].high = g.cells[n].high
    BY <2>1 DEF AgeCell, CellValues
  <2> HIDE DEF cs
  <2> QED BY <2>1, <2>2 DEF MatchesAt, Filled
<1> HIDE DEF cs
<1>6. aged \in MatchingGrids(t, G)
  <2> HIDE DEF aged
  <2> QED BY <1>3, <1>4, <1>5, MatchingGrid
<1>7. ClearByTime(g, dt, t) = ClearCells(aged, old, t)
  BY DEF ClearByTime
<1>8. old \in SUBSET Cells
  OBVIOUS
<1> HIDE DEF aged, old
<1> QED BY <1>6, <1>7, <1>8, ClearedMatches

LEMMA ChannelMatches ==
    ASSUME NEW t \in Settings, NEW G, NEW g \in MatchingGrids(t, G), NEW scan
    PROVE  ClearByChannel(g, scan, t) \in MatchingGrids(t, G)
<1> DEFINE ground == {<<p.x, p.y>> : p \in {q \in Range(scan.points) : q.ground /\ InGrid(q)}}
<1>1. ground \in SUBSET Cells
  BY DEF InGrid
<1>2. ClearByChannel(g, scan, t) = ClearCells(g, ground, t)
  BY DEF ClearByChannel
<1> HIDE DEF ground
<1> QED BY <1>1, <1>2, ClearedMatches

\* A ray leaves of a column what lies below it.
LEMMA CutMatches ==
    ASSUME NEW t \in Settings, NEW g \in GridData, NEW v, VoxelCut(g, v), NEW ground,
           MatchesAt(g.cells[<<v[1], v[2]>>], g.voxels[<<v[1], v[2]>>], ground)
    PROVE  MatchesAt(CellCut(g, v), VoxelsLeft(g, v), ground)
<1> DEFINE c == <<v[1], v[2]>>
           cell == g.cells[c]
           vs == g.voxels[c]
           top == TopVoxelIndex(cell.high)
           left == VoxelsLeft(g, v)
           below == VoxelsBelow(g, v)
           cut == CellCut(g, v)
<1>1. c \in Cells /\ v[3] \in 0..(NVoxels - 1) /\ NVoxels \in Nat
  BY CostmapAssumption DEF VoxelCut
<1>2. cell \in CellValues /\ vs \in SUBSET (0..(NVoxels - 1))
  BY <1>1 DEF GridData, Layers
<1>3. cell.low \in Int /\ cell.high \in Int
  BY <1>2 DEF CellValues
<1>4. Voxel(cell.low) \in Int /\ top \in Int
  BY <1>3, VoxelIsInt
<1>5. MatchesAt(cell, vs, ground) /\ Filled(cell)
  BY DEF VoxelCut
<1>6. left = vs \ (v[3]..Smaller(top, NVoxels - 1))
  BY DEF VoxelsLeft
<1>7. below = {z \in left : z < v[3] /\ z >= Voxel(cell.low)}
  BY DEF VoxelsBelow
<1> DEFINE low == Voxel(cell.low)
           r == v[3]
<1> HIDE DEF cell, vs, top, left, below, c, low
<1>8. ASSUME NEW z \in left \ ground
      PROVE  z \in below
  <2>1. z \in vs \ ground /\ z \notin r..Smaller(top, NVoxels - 1)
    BY <1>6, <1>8
  <2>2. z \in 0..(NVoxels - 1) /\ z <= top /\ low <= z
    BY <1>2, <1>5, <2>1 DEF MatchesAt, top, low
  <2>3. z < r /\ z >= low
    <3>1. z <= Smaller(top, NVoxels - 1) /\ Smaller(top, NVoxels - 1) \in Int
      BY <1>1, <1>4, <2>2 DEF Smaller
    <3>2. low \in Int /\ r \in Int /\ z \in Int
      BY <1>1, <1>4, <2>2 DEF low
    <3> HIDE DEF r
    <3> QED BY <2>1, <2>2, <3>1, <3>2
  <2> QED BY <1>7, <1>8, <2>3 DEF low
<1>9. CASE below = {}
  <2>1. ~Filled(cut)
    BY <1>9, CutIsLower DEF below
  <2>2. left \ ground = {}
    BY <1>8, <1>9
  <2> HIDE DEF cut
  <2> QED BY <2>1, <2>2, EmptyMatches DEF cut, left
<1>10. CASE below # {}
  <2> DEFINE m == Max(below)
  <2>1. /\ m \in below /\ \A z \in below : z <= m
        /\ cut.high = 2 * (m + 1) /\ cut.low = cell.low
    BY <1>10, CutIsLower DEF below, cell, c
  <2> HIDE DEF m, cut
  <2>2. m \in left /\ m < r /\ m >= low
    BY <1>7, <2>1 DEF low
  <2>3. m \in 0..(NVoxels - 1)
    BY <1>2, <1>6, <2>2
  <2>4. Filled(cut)
    BY <1>5, <2>1 DEF Filled
  <2>5. low \in left
    <3>1. low \in vs
      BY <1>5 DEF MatchesAt, low
    <3>2. low < r
      BY <1>1, <1>4, <2>2, <2>3 DEF low
    <3>3. low \notin r..Smaller(top, NVoxels - 1)
      BY <1>1, <1>4, <3>2 DEF low
    <3> QED BY <1>6, <3>1, <3>3
  <2>6. TopVoxelIndex(cut.high) = m
    BY <2>1, <2>3 DEF TopVoxelIndex
  <2>7. \A z \in left \ ground : z <= m /\ low <= z
    <3>1. ASSUME NEW z \in left \ ground
          PROVE z <= m /\ low <= z
      BY <1>7, <1>8, <2>1 DEF low
    <3> QED BY <3>1
  <2> QED BY <2>1, <2>4, <2>5, <2>6, <2>7 DEF MatchesAt, low, left, cut
<1> QED BY <1>9, <1>10

LEMMA ClearVoxelMatches ==
    ASSUME NEW t \in Settings, NEW G, NEW g \in MatchingGrids(t, G), NEW v
    PROVE  ClearVoxelAt(g, v, t) \in MatchingGrids(t, G)
<1> DEFINE c == <<v[1], v[2]>>
           cut == CellCut(g, v)
           cs == [g.cells EXCEPT ![c] = cut]
           vs == [g.voxels EXCEPT ![c] = VoxelsLeft(g, v)]
<1>1. g \in FollowingGrids(t) /\ Matching(g, G)
  BY DEF MatchingGrids
<1>2. g \in GridData /\ g.cells \in Layers /\ g.voxels \in [Cells -> SUBSET (0..(NVoxels - 1))]
  BY <1>1 DEF FollowingGrids, GridData
<1>3. CASE ~VoxelCut(g, v)
  BY <1>2, <1>3, ClearVoxelCases
<1>4. CASE VoxelCut(g, v)
  <2>1. c \in Cells /\ cut \in CellValues
    BY <1>2, <1>4, CutIsLower
  <2>2. MatchesAt(cut, VoxelsLeft(g, v), G[c])
    BY <1>1, <1>2, <1>4, <2>1, CutMatches DEF Matching
  <2>3. ClearVoxelAt(g, v, t) =
            [cells |-> IF PastSlopeThreshold(g.cells[c], t) /\ ~PastSlopeThreshold(cut, t)
                       THEN RemoveDilation(cs, {c}, t) ELSE cs,
             voxels |-> vs]
    <3>1. g \in GridData
      BY <1>2
    <3> QED BY <1>4, <3>1, ClearVoxelCases
  <2>4. ClearVoxelAt(g, v, t) \in FollowingGrids(t)
    BY <1>1, ClearVoxelFollows
  <2> HIDE DEF cut
  <2>5. ASSUME NEW n \in Cells
        PROVE  MatchesAt(cs[n], vs[n], G[n])
    <3>1. CASE n = c
      <4>1. cs[n] = cut /\ vs[n] = VoxelsLeft(g, v)
        BY <1>2, <2>1, <3>1 DEF Layers
      <4> HIDE DEF cs, vs
      <4> QED BY <2>2, <3>1, <4>1
    <3>2. CASE n # c
      <4>1. cs[n] = g.cells[n] /\ vs[n] = g.voxels[n]
        BY <1>2, <2>1, <3>2 DEF Layers
      <4> HIDE DEF cs, vs
      <4> QED BY <1>1, <4>1 DEF Matching
    <3> QED BY <3>1, <3>2
  <2>6. cs \in Layers
    BY <1>2, <2>1 DEF Layers
  <2> HIDE DEF cs, vs, c
  <2>7. CASE PastSlopeThreshold(g.cells[c], t) /\ ~PastSlopeThreshold(cut, t)
    <3> DEFINE r == RemoveDilation(cs, {c}, t)
    <3>1. \A n \in Cells : SameHeights(r[n], cs[n])
      BY <2>1, <2>6, Undilated
    <3>2. ClearVoxelAt(g, v, t) = [cells |-> r, voxels |-> vs]
      BY <2>3, <2>7
    <3> HIDE DEF r
    <3>3. \A n \in Cells : MatchesAt(r[n], vs[n], G[n])
      BY <2>5, <3>1, MatchKept
    <3> QED BY <2>4, <3>2, <3>3, MatchingGrid
  <2>8. CASE ~(PastSlopeThreshold(g.cells[c], t) /\ ~PastSlopeThreshold(cut, t))
    <3>1. ClearVoxelAt(g, v, t) = [cells |-> cs, voxels |-> vs]
      BY <2>3, <2>8
    <3> QED BY <2>4, <2>5, <3>1, MatchingGrid
  <2> QED BY <2>7, <2>8
<1> QED BY <1>3, <1>4

-----------------------------------------------------------------------------
(* Cells and the voxels seen in them: a cloud. *)

\* The voxels a scan saw in a cell.
SeenIn(scan, n) == {Voxel(h) : h \in HeightsIn(scan, n)}

\* The rays clear, then the voxels of the points are noted.
LEMMA RaysThenPoints ==
    ASSUME NEW t \in Settings, NEW scan \in Scans, NEW G, NEW g \in MatchingGrids(t, G)
    PROVE  LET r == ClearByRays(g, scan, t)
               h == TraceRays(g, scan, t)
               vs == [n \in Cells |-> h.voxels[n] \cup (SeenIn(scan, n) \cap 0..(NVoxels - 1))]
           IN  /\ r \in FollowingGrids(t) /\ r = [cells |-> h.cells, voxels |-> vs]
               /\ h \in FollowingGrids(t) /\ Matching(h, G)
<1> DEFINE h == TraceRays(g, scan, t)
           Seen(n) == {Voxel(p.h) : p \in {q \in Range(scan.points) : <<q.x, q.y>> = n}}
           us == [n \in Cells |-> h.voxels[n] \cup (Seen(n) \cap 0..(NVoxels - 1))]
           vs == [n \in Cells |-> h.voxels[n] \cup (SeenIn(scan, n) \cap 0..(NVoxels - 1))]
<1>1. h \in MatchingGrids(t, G)
  BY TracedStays, ClearVoxelMatches
<1>2. g \in FollowingGrids(t)
  BY DEF MatchingGrids
<1>3. ClearByRays(g, scan, t) \in FollowingGrids(t)
  BY <1>2, RaysFollow
<1>4. ClearByRays(g, scan, t) = [h EXCEPT !.voxels = us]
  BY DEF ClearByRays
<1>5. ASSUME NEW n \in Cells PROVE Seen(n) = SeenIn(scan, n)
  BY DEF SeenIn, HeightsIn
<1> HIDE DEF h, Seen
<1>6. us = vs
  BY <1>5
<1>7. h \in FollowingGrids(t) /\ Matching(h, G)
  BY <1>1 DEF MatchingGrids
<1> HIDE DEF us, vs
<1>8. [h EXCEPT !.voxels = us] = [cells |-> h.cells, voxels |-> vs]
  BY <1>6, <1>7 DEF FollowingGrids, GridData
<1> QED BY <1>3, <1>4, <1>7, <1>8 DEF h, vs

\* A cloud of the ground: what it sees there may be in any column.
LEMMA GroundMatches ==
    ASSUME NEW t \in Settings, NEW scan \in Scans, NEW G, NEW g \in MatchingGrids(t, G),
           \A n \in Cells : SeenIn(scan, n) \subseteq G[n]
    PROVE  ClearByRays(g, scan, t) \in MatchingGrids(t, G)
<1> DEFINE r == ClearByRays(g, scan, t)
           h == TraceRays(g, scan, t)
           vs == [n \in Cells |-> h.voxels[n] \cup (SeenIn(scan, n) \cap 0..(NVoxels - 1))]
<1>1. /\ r \in FollowingGrids(t) /\ r = [cells |-> h.cells, voxels |-> vs]
      /\ Matching(h, G)
  BY RaysThenPoints
<1> HIDE DEF r, h
<1>2. ASSUME NEW n \in Cells
      PROVE  MatchesAt(h.cells[n], vs[n], G[n])
  <2>1. MatchesAt(h.cells[n], h.voxels[n], G[n])
    BY <1>1 DEF Matching
  <2>2. h.voxels[n] \subseteq vs[n] /\ vs[n] \ G[n] \subseteq h.voxels[n] \ G[n]
    OBVIOUS
  <2> HIDE DEF vs
  <2> QED BY <2>1, <2>2 DEF MatchesAt
<1> HIDE DEF vs
<1>3. r \in MatchingGrids(t, G)
  BY <1>1, <1>2, MatchingGrid
<1> QED BY <1>3 DEF r

\* The rays come last, and only they know voxels.
RaysLast ==
    /\ Len(Methods) > 0 /\ Methods[Len(Methods)] = "raytrace"
    /\ \A i \in 1..(Len(Methods) - 1) : Methods[i] # "raytrace"

\* No point is above or below the voxels of its cell, or on the border of two.
PointsInColumns ==
    \A sc \in Scenarios : \A scan \in sc.scans : \A p \in Range(scan.points) :
        InGrid(p) => Voxel(p.h) \in 0..(NVoxels - 1) /\ Voxel(p.h) = TopVoxelIndex(p.h)

LEMMA OthersMatch ==
    ASSUME NEW t \in Settings, NEW scan, NEW G, NEW g \in MatchingGrids(t, G), NEW dt \in Nat,
           NEW m \in {"time", "channel_threshold"}
    PROVE  ClearBy(m, g, scan, dt, t) \in MatchingGrids(t, G)
<1>1. CASE m = "time"
  BY <1>1, TimedMatches DEF ClearBy
<1>2. CASE m = "channel_threshold"
  BY <1>2, ChannelMatches DEF ClearBy
<1> QED BY <1>1, <1>2

LEMMA GroundCleared ==
    ASSUME NEW t \in Settings, NEW scan \in Scans, NEW G, NEW g \in MatchingGrids(t, G),
           NEW dt \in Nat, \A n \in Cells : SeenIn(scan, n) \subseteq G[n]
    PROVE  ClearOccupancy(g, scan, dt, t) \in MatchingGrids(t, G)
<1>1. ASSUME NEW h \in MatchingGrids(t, G), NEW i \in 1..Len(Methods)
      PROVE  ClearBy(Methods[i], h, scan, dt, t) \in MatchingGrids(t, G)
  <2>1. Methods[i] \in {"time", "raytrace", "channel_threshold"}
    BY MethodTypes
  <2>2. CASE Methods[i] = "raytrace"
    BY <2>2, GroundMatches DEF ClearBy
  <2>3. CASE Methods[i] # "raytrace"
    BY <2>1, <2>3, OthersMatch
  <2> QED BY <2>2, <2>3
<1> QED BY <1>1, MethodTypes, ClearOccupancyStays

\* A cloud of points: the rays come when the other methods are done.
LEMMA CloudCleared ==
    ASSUME RaysLast, NEW t \in Settings, NEW scan \in Scans, NEW G,
           NEW g \in MatchingGrids(t, G), NEW dt \in Nat
    PROVE  \E h \in MatchingGrids(t, G) : ClearOccupancy(g, scan, dt, t) = ClearByRays(h, scan, t)
<1> DEFINE n == Len(Methods)
           U == FollowingGrids(t)
           V == MatchingGrids(t, G)
<1>1. V \in SUBSET U
  BY DEF MatchingGrids
<1>2. n \in Nat /\ n > 0 /\ DOMAIN Methods = 1..n /\ Methods[n] = "raytrace"
  BY MethodTypes DEF RaysLast
<1>3. ASSUME NEW i \in 1..n
      PROVE  Methods[i] \in {"time", "raytrace", "channel_threshold"}
  BY MethodTypes
<1>4. ASSUME NEW h \in U, NEW i \in 1..n
      PROVE  ClearBy(Methods[i], h, scan, dt, t) \in U
  <2>2. CASE Methods[i] = "time"
    BY <2>2, TimedFollows DEF ClearBy
  <2>3. CASE Methods[i] = "raytrace"
    BY <2>3, RaysFollow DEF ClearBy
  <2>4. CASE Methods[i] = "channel_threshold"
    BY <2>4, ChannelFollows DEF ClearBy
  <2> QED BY <1>3, <2>2, <2>3, <2>4
<1>5. ASSUME NEW h \in V, NEW i \in 1..(n - 1)
      PROVE  ClearBy(Methods[i], h, scan, dt, t) \in V
  <2>1. i \in 1..n
    BY <1>2
  <2>2. Methods[i] # "raytrace"
    BY DEF RaysLast
  <2> HIDE DEF n
  <2>3. Methods[i] \in {"time", "channel_threshold"}
    BY <1>3, <2>1, <2>2
  <2> QED BY <2>3, OthersMatch
<1> HIDE DEF n, U, V
<1>6. PICK h \in V : ClearOccupancy(g, scan, dt, t) = ClearBy(Methods[n], h, scan, dt, t)
  <2>1. g \in V
    BY DEF V
  <2>2. \A h \in U, i \in 1..n : ClearBy(Methods[i], h, scan, dt, t) \in U
    BY <1>4
  <2>3. \A h \in V, i \in 1..(n - 1) : ClearBy(Methods[i], h, scan, dt, t) \in V
    BY <1>5
  <2>4. LastSees(V, n, g, scan, dt, t)
    BY <1>1, <1>2, <2>1, <2>2, <2>3, LastMethod
  <2> QED BY <2>4 DEF LastSees
<1>7. ClearOccupancy(g, scan, dt, t) = ClearByRays(h, scan, t)
  BY <1>2, <1>6 DEF ClearBy
<1> QED BY <1>6, <1>7 DEF V

\* The points raise the cells to what the rays' voxels already say.
LEMMA RaisedMatches ==
    ASSUME PointsInColumns, NEW sc \in Scenarios, NEW scan \in sc.scans, NEW cs \in Layers,
           NEW n \in Cells, NEW vs \in SUBSET (0..(NVoxels - 1)), NEW ground,
           MatchesAt(cs[n], vs, ground)
    PROVE  MatchesAt(RaisedCells(cs, scan)[n],
                     vs \cup (SeenIn(scan, n) \cap 0..(NVoxels - 1)), ground)
<1> DEFINE raised == RaisedCells(cs, scan)[n]
           lo == Min(HeightsIn(scan, n))
           hi == Max(HeightsIn(scan, n))
           us == vs \cup (SeenIn(scan, n) \cap 0..(NVoxels - 1))
<1>1. scan \in Scans
  BY ScenarioTypes
<1>2. raised \in CellValues /\ cs[n] \in CellValues
      /\ raised.low <= cs[n].low /\ raised.high >= cs[n].high
      /\ (n \notin Hit(scan) => raised = cs[n])
  BY <1>1, RaisedCell DEF Layers
<1>3. ASSUME NEW h \in HeightsIn(scan, n)
      PROVE  Voxel(h) \in 0..(NVoxels - 1) /\ Voxel(h) = TopVoxelIndex(h)
             /\ n \in Hit(scan)
  <2>1. PICK p \in Range(scan.points) : <<p.x, p.y>> = n /\ h = p.h
    BY DEF HeightsIn
  <2>2. InGrid(p)
    BY <2>1 DEF InGrid
  <2> QED BY <2>1, <2>2 DEF PointsInColumns, Hit
<1>4. CASE n \notin Hit(scan)
  <2>1. us = vs
    BY <1>3, <1>4 DEF SeenIn
  <2> HIDE DEF us, raised
  <2> QED BY <1>2, <1>4, <2>1 DEF us, raised
<1>5. CASE n \in Hit(scan)
  <2>1. /\ HeightsIn(scan, n) \in SUBSET (0..(NoLow - 1))
        /\ lo \in HeightsIn(scan, n) /\ hi \in HeightsIn(scan, n)
        /\ \A h \in HeightsIn(scan, n) : lo <= h /\ h <= hi
    BY <1>1, <1>5, HitHeights
  <2>2. /\ raised.low = Smaller(cs[n].low, lo) /\ raised.high = Larger(cs[n].high, hi)
    BY <1>2, <1>5 DEF RaisedCells, CellValues
  <2>3. cs[n].low \in 0..NoLow /\ cs[n].high \in Int /\ raised.low \in Int /\ raised.high \in Int
    BY <1>2 DEF CellValues
  <2>4. lo \in 0..(NoLow - 1) /\ hi \in 0..(NoLow - 1) /\ NoLow \in Nat
    BY <2>1 DEF NoLow
  <2> HIDE DEF raised, lo, hi
  <2>5. Filled(raised)
    BY <2>2, <2>3, <2>4 DEF Filled, Smaller
  <2>6. Voxel(raised.low) \in us
    <3>1. CASE raised.low = lo
      BY <1>3, <2>1, <3>1 DEF SeenIn
    <3>2. CASE raised.low # lo
      <4>1. raised.low = cs[n].low /\ cs[n].low < lo
        BY <2>2, <2>3, <2>4, <3>2 DEF Smaller
      <4>2. Filled(cs[n])
        BY <2>3, <2>4, <4>1 DEF Filled
      <4> QED BY <4>1, <4>2 DEF MatchesAt
    <3> QED BY <3>1, <3>2
  <2>8. cs[n].low \in Int
    BY <2>3, <2>4
  <2>7. ASSUME NEW z \in us \ ground
        PROVE  z <= TopVoxelIndex(raised.high) /\ Voxel(raised.low) <= z
    <3>1. CASE z \in vs
      <4>1. z <= TopVoxelIndex(cs[n].high) /\ Voxel(cs[n].low) <= z /\ z \in Int
        BY <2>7, <3>1 DEF MatchesAt
      <4>2. /\ TopVoxelIndex(cs[n].high) <= TopVoxelIndex(raised.high)
            /\ Voxel(raised.low) <= Voxel(cs[n].low)
        <5>1. raised.low <= cs[n].low /\ cs[n].high <= raised.high
          BY <1>2, <2>3
        <5> QED BY <2>3, <2>8, <5>1, VoxelIsInt
      <4>3. /\ TopVoxelIndex(cs[n].high) \in Int /\ TopVoxelIndex(raised.high) \in Int
            /\ Voxel(raised.low) \in Int /\ Voxel(cs[n].low) \in Int
        BY <2>3, <2>8, VoxelIsInt
      <4> QED BY <4>1, <4>2, <4>3
    <3>2. CASE z \notin vs
      <4>1. PICK h \in HeightsIn(scan, n) : z = Voxel(h)
        BY <2>7, <3>2 DEF SeenIn
      <4>2. z = TopVoxelIndex(h) /\ h \in Int
        BY <1>3, <2>1, <4>1
      <4>3. h <= raised.high /\ raised.low <= h
        <5>1. lo <= h /\ h <= hi
          BY <2>1
        <5>2. hi <= raised.high /\ raised.low <= lo
          BY <2>2, <2>3, <2>4 DEF Larger, Smaller
        <5> QED BY <2>3, <2>4, <4>2, <5>1, <5>2
      <4> QED BY <2>3, <4>1, <4>2, <4>3, VoxelIsInt
    <3> QED BY <3>1, <3>2
  <2> HIDE DEF us
  <2> QED BY <2>5, <2>6, <2>7 DEF MatchesAt, us, raised
<1> QED BY <1>4, <1>5

-----------------------------------------------------------------------------
(* Cells and the voxels seen in them: the steps. *)

\* What clouds that only clear may see of the ground.
Ground(sc) ==
    [n \in Cells |->
        {Voxel(p.h) : p \in {q \in UNION {Range(s.points) : s \in sc.clear_scans} :
                               <<q.x, q.y>> = n}}]

LEMMA SeenGround ==
    ASSUME NEW sc \in Scenarios, NEW scan \in sc.clear_scans, NEW n \in Cells
    PROVE  SeenIn(scan, n) \subseteq Ground(sc)[n]
<1> DEFINE all == {q \in UNION {Range(s.points) : s \in sc.clear_scans} : <<q.x, q.y>> = n}
<1>1. Ground(sc)[n] = {Voxel(p.h) : p \in all}
  BY DEF Ground
<1>2. ASSUME NEW h \in HeightsIn(scan, n)
      PROVE  \E p \in all : p.h = h
  BY DEF HeightsIn
<1> HIDE DEF all
<1> QED BY <1>1, <1>2 DEF SeenIn

\* The second invariant; it says more than VoxelsMatchCells of the lowest voxel.
MatchInv == FollowInv /\ Matching([cells |-> cells, voxels |-> voxel_grid], Ground(scenario))

LEMMA MatchIsStronger ==
    MatchInv => VoxelsMatchCells
<1> SUFFICES ASSUME MatchInv, NEW n \in Cells
             PROVE  /\ Filled(cells[n]) => Voxel(cells[n].low) \in voxel_grid[n]
                    /\ \A z \in voxel_grid[n] \ GroundVoxels(n) :
                          Filled(cells[n]) /\ z <= TopVoxelIndex(cells[n].high)
  BY DEF VoxelsMatchCells
<1>1. MatchesAt(cells[n], voxel_grid[n], Ground(scenario)[n])
  BY DEF MatchInv, Matching
<1>2. Ground(scenario)[n] = GroundVoxels(n)
  BY DEF Ground, GroundVoxels
<1> QED BY <1>1, <1>2 DEF MatchesAt

LEMMA EmptyLayerMatches ==
    ASSUME NEW G, NEW cs, NEW vs, cs = [n \in Cells |-> EmptyCell], vs = [n \in Cells |-> {}]
    PROVE  Matching([cells |-> cs, voxels |-> vs], G)
<1>1. \A n \in Cells : cs[n] = EmptyCell /\ vs[n] = {}
  OBVIOUS
<1>2. \A n \in Cells : MatchesAt(cs[n], vs[n], G[n])
  BY <1>1, EmptyLayer, EmptyMatches
<1> QED BY <1>2 DEF Matching

LEMMA MatchInit ==
    Init => MatchInv
<1> SUFFICES ASSUME Init PROVE MatchInv
  OBVIOUS
<1>1. cells = [n \in Cells |-> EmptyCell] /\ voxel_grid = [n \in Cells |-> {}]
  BY DEF Init
<1>2. Matching([cells |-> cells, voxels |-> voxel_grid], Ground(scenario))
  BY <1>1, EmptyLayerMatches
<1> QED BY <1>2, FollowInit DEF MatchInv

LEMMA CloudMatches ==
    ASSUME RaysLast, PointsInColumns, MatchInv,
           NEW scan \in scenario.scans, NEW dt \in scenario.dts, PointCloud(scan, dt)
    PROVE  MatchInv'
<1> DEFINE t == thresholds
           G == Ground(scenario)
           g == [cells |-> cells, voxels |-> voxel_grid]
           before == IF clr_only_pc = NoScan THEN g
                     ELSE ClearOccupancy(g, clr_only_pc, dt, t)
           wait == IF clr_only_pc = NoScan THEN dt ELSE 0
           cleared == ClearOccupancy(before, scan, wait, t)
<1>1. /\ cells' = AddOccupancy(cleared.cells, scan, t)
      /\ voxel_grid' = cleared.voxels /\ UNCHANGED scenario
  BY DEF PointCloud, sub_vars
<1>2. FollowInv /\ scenario \in Scenarios /\ t \in Settings /\ scan \in Scans /\ dt \in Nat
      /\ (clr_only_pc # NoScan => clr_only_pc \in Scans /\ clr_only_pc \in scenario.clear_scans)
  BY ScenarioTypes DEF MatchInv, FollowInv, LayerTypes
<1>3. g \in FollowingGrids(t)
  BY <1>2, FollowingGrid, FollowsIsInvariant DEF FollowInv, LayerTypes
<1>4. g \in MatchingGrids(t, G)
  BY <1>3 DEF MatchInv, MatchingGrids
<1>5. \A n \in Cells : clr_only_pc # NoScan => SeenIn(clr_only_pc, n) \subseteq G[n]
  BY <1>2, SeenGround
<1>6. wait \in Nat
  BY <1>2
<1> HIDE DEF g, G, wait
<1>7. before \in MatchingGrids(t, G)
  BY <1>2, <1>4, <1>5, GroundCleared
<1> HIDE DEF before
<1>8. PICK h \in MatchingGrids(t, G) : cleared = ClearByRays(h, scan, t)
  BY <1>2, <1>6, <1>7, CloudCleared
<1> DEFINE traced == TraceRays(h, scan, t)
           vs == [n \in Cells |-> traced.voxels[n] \cup (SeenIn(scan, n) \cap 0..(NVoxels - 1))]
<1>9. /\ cleared = [cells |-> traced.cells, voxels |-> vs]
      /\ traced \in FollowingGrids(t) /\ Matching(traced, G)
  BY <1>2, <1>8, RaysThenPoints
<1> HIDE DEF cleared, traced
<1> DEFINE cs == traced.cells
<1>10. cs \in Layers /\ traced.voxels \in [Cells -> SUBSET (0..(NVoxels - 1))]
  BY <1>9 DEF FollowingGrids, GridData
<1>11. cells' = AddOccupancy(cs, scan, t) /\ voxel_grid' = vs
  BY <1>1, <1>9
<1> HIDE DEF cs
<1>12. ASSUME NEW n \in Cells
       PROVE  MatchesAt(cells'[n], vs[n], G[n])
  <2>1. MatchesAt(cs[n], traced.voxels[n], G[n])
    BY <1>9 DEF Matching, cs
  <2>2. traced.voxels[n] \in SUBSET (0..(NVoxels - 1))
    BY <1>10
  <2>3. MatchesAt(RaisedCells(cs, scan)[n],
                  traced.voxels[n] \cup (SeenIn(scan, n) \cap 0..(NVoxels - 1)), G[n])
    BY <1>2, <1>10, <2>1, <2>2, RaisedMatches
  <2>4. MatchesAt(RaisedCells(cs, scan)[n], vs[n], G[n])
    BY <2>3
  <2>5. SameHeights(cells'[n], RaisedCells(cs, scan)[n])
    BY <1>2, <1>10, <1>11, AddedHeights
  <2> HIDE DEF vs
  <2> QED BY <2>4, <2>5, MatchKept
<1> HIDE DEF vs
<1>13. FollowInv'
  BY <1>2, CloudFollows
<1>14. G = Ground(scenario)'
  BY <1>1 DEF G
<1>15. Matching([cells |-> cells', voxels |-> voxel_grid'], G)
  BY <1>11, <1>12 DEF Matching
<1> QED BY <1>13, <1>14, <1>15 DEF MatchInv

LEMMA MatchNext ==
    ASSUME RaysLast, PointsInColumns
    PROVE  MatchInv /\ [Next]_vars => MatchInv'
<1> SUFFICES ASSUME MatchInv, [Next]_vars PROVE MatchInv'
  OBVIOUS
<1> DEFINE g == [cells |-> cells, voxels |-> voxel_grid]
<1>0. FollowInv /\ FollowInv' /\ Matching(g, Ground(scenario))
  BY FollowNext DEF MatchInv
<1>1. ASSUME NEW scan \in scenario.scans, NEW dt \in scenario.dts, PointCloud(scan, dt)
      PROVE  MatchInv'
  BY <1>1, CloudMatches
<1>2. ASSUME UNCHANGED <<cells, voxel_grid, scenario>> PROVE MatchInv'
  BY <1>0, <1>2 DEF MatchInv, Matching, Ground
<1>3. ASSUME NEW scan \in scenario.clear_scans, ClearOnlyPoints(scan)
      PROVE  MatchInv'
  BY <1>2, <1>3 DEF ClearOnlyPoints, sub_vars
<1>4. ASSUME NEW t \in scenario.thresholds, UpdateThresholds(t)
      PROVE  MatchInv'
  <2>1. cells' = RecomputeGridDilation(cells, t) /\ UNCHANGED <<voxel_grid, scenario>>
    BY <1>4 DEF UpdateThresholds, sub_vars
  <2>2. t \in Settings /\ cells \in Layers
    BY <1>0, ScenarioTypes DEF FollowInv, LayerTypes
  <2>3. \A n \in Cells : SameHeights(cells'[n], cells[n])
    BY <2>1, <2>2, RecomputedHeights
  <2>4. \A n \in Cells : MatchesAt(cells'[n], voxel_grid[n], Ground(scenario)[n])
    BY <1>0, <2>3, MatchKept DEF Matching
  <2>5. Matching([cells |-> cells', voxels |-> voxel_grid'], Ground(scenario)')
    BY <2>1, <2>4 DEF Matching, Ground
  <2> QED BY <1>0, <2>5 DEF MatchInv
<1>5. CASE Cycle
  <2>1. UNCHANGED scenario
    BY <1>5 DEF Cycle
  <2>2. \/ UNCHANGED <<cells, voxel_grid>>
        \/ /\ cells' = [n \in Cells |-> EmptyCell]
           /\ voxel_grid' = [n \in Cells |-> {}]
    BY <1>5 DEF Cycle, Reset
  <2>3. ASSUME cells' = [n \in Cells |-> EmptyCell], voxel_grid' = [n \in Cells |-> {}]
        PROVE  MatchInv'
    <3>1. Matching([cells |-> cells', voxels |-> voxel_grid'], Ground(scenario)')
      BY <2>3, EmptyLayerMatches
    <3> QED BY <1>0, <3>1 DEF MatchInv
  <2> QED BY <1>2, <2>1, <2>2, <2>3
<1>6. ASSUME UNCHANGED <<layer_vars, scenario>> PROVE MatchInv'
  BY <1>2, <1>6 DEF layer_vars
<1>7. CASE ResetCallback
  BY <1>6, <1>7 DEF ResetCallback, sub_vars
<1>8. CASE WarmUpEnds
  BY <1>6, <1>8 DEF WarmUpEnds, sub_vars
<1>9. CASE Join
  BY <1>6, <1>9 DEF Join
<1>10. CASE OccupancyGridCallback
  BY <1>6, <1>10 DEF OccupancyGridCallback
<1>11. CASE OccupancyGridUpdateCallback
  BY <1>6, <1>11 DEF OccupancyGridUpdateCallback
<1>12. CASE UNCHANGED vars
  BY <1>6, <1>12 DEF vars, sub_vars
<1> QED BY <1>1, <1>3, <1>4, <1>5, <1>7, <1>8, <1>9, <1>10, <1>11, <1>12 DEF Next

THEOREM VoxelsAreSeen ==
    ASSUME RaysLast, PointsInColumns
    PROVE  Spec => []VoxelsMatchCells
<1>1. MatchInv /\ [Next]_vars => MatchInv'
  BY MatchNext
<1> QED BY <1>1, MatchInit, MatchIsStronger, PTL DEF Spec

-----------------------------------------------------------------------------
(* Combination of the layers, and that clearing raises nothing. *)

LEMMA MaxOfTwo ==
    ASSUME NEW a \in Int, NEW b \in Int
    PROVE  Max({a, b}) = Larger(a, b)
<1> DEFINE S == {a, b}
<1>1. S \in SUBSET Int /\ S # {}
  OBVIOUS
<1>2. Larger(a, b) \in Int /\ \A i \in S : i <= Larger(a, b)
  BY DEF Larger
<1>3. a \in S /\ b \in S /\ \A i \in S : i = a \/ i = b
  OBVIOUS
<1>0. S = {a, b}
  OBVIOUS
<1> HIDE DEF S
<1>4. Max(S) \in S /\ \A i \in S : i <= Max(S)
  BY <1>1, <1>2, MaxIsGreatest
<1> DEFINE m == Max(S)
<1>6. (m = a \/ m = b) /\ a <= m /\ b <= m
  BY <1>3, <1>4
<1> HIDE DEF m
<1>7. m = Larger(a, b)
  BY <1>6 DEF Larger
<1>5. Max(S) = Larger(a, b)
  BY <1>7 DEF m
<1> QED BY <1>0, <1>5

\* With "max" a cell shows the highest value that a layer knows; with "last" as well,
\* where the static layer knows none.
LEMMA CombinedMax ==
    ASSUME NEW a \in Int, NEW b \in Int,
           Combination = "max" \/ (Combination = "last" /\ a < 0)
    PROVE  CombineLayerValues(CollectLayerValues(a, b)) = Larger(0, Larger(a, b))
<1> DEFINE vals == CollectLayerValues(a, b)
<1>1. vals = IF a >= 0 THEN (IF b >= 0 THEN <<a>> \o <<b>> ELSE <<a>> \o <<>>)
             ELSE (IF b >= 0 THEN <<>> \o <<b>> ELSE <<>> \o <<>>)
  BY DEF CollectLayerValues
<1> HIDE DEF vals
<1>2. CombineLayerValues(vals) =
         IF vals = <<>> THEN 0 ELSE IF Combination = "max" THEN Max(Range(vals)) ELSE Last(vals)
  <2> DEFINE mean == FoldLeft(LAMBDA c, d : c + d, 0, vals) \div Len(vals)
             val == CASE Combination = "last" -> Last(vals)
                      [] Combination = "mean" -> mean
                      [] Combination = "max" -> Max(Range(vals))
  <2>1. CombineLayerValues(vals) = IF vals = <<>> THEN 0 ELSE val
    BY DEF CombineLayerValues
  <2> HIDE DEF mean
  <2>2. val = IF Combination = "max" THEN Max(Range(vals)) ELSE Last(vals)
    <3>1. CASE Combination = "max"
      BY <3>1
    <3>2. CASE Combination = "last"
      BY <3>2
    <3> QED BY <3>1, <3>2
  <2> HIDE DEF val
  <2> QED BY <2>1, <2>2
<1>3. Max({a, b}) = Larger(a, b) /\ Max({a, a}) = Larger(a, a) /\ Max({b, b}) = Larger(b, b)
  BY MaxOfTwo
<1>4. CASE a >= 0 /\ b >= 0
  <2>1. vals \in Seq(Int) /\ Len(vals) = 2 /\ vals[1] = a /\ vals[2] = b
    BY <1>1, <1>4
  <2>2. Range(vals) = {a, b} /\ vals # <<>>
    <3>1. DOMAIN vals = {1, 2}
      BY <2>1
    <3>2. Range(vals) = {vals[1], vals[2]}
      BY <3>1 DEF Range
    <3>3. {vals[1], vals[2]} = {a, b}
      BY <2>1
    <3>4. Range(vals) = {a, b}
      BY <3>2, <3>3
    <3>5. vals # <<>>
      <4>1. Len(<<>>) = 0 /\ Len(vals) # 0
        BY <2>1
      <4> QED BY <4>1
    <3> QED BY <3>4, <3>5
  <2> QED BY <1>2, <1>3, <1>4, <2>1, <2>2 DEF Larger, vals
<1>5. CASE a >= 0 /\ ~(b >= 0)
  <2>1. vals = <<a>> /\ vals # <<>>
    BY <1>1, <1>5
  <2>2. Range(vals) = {a, a}
    BY <2>1 DEF Range
  <2> QED BY <1>2, <1>3, <1>5, <2>1, <2>2 DEF Larger, vals
<1>6. CASE ~(a >= 0) /\ b >= 0
  <2>1. vals = <<b>> /\ vals # <<>>
    BY <1>1, <1>6
  <2>2. Range(vals) = {b, b} /\ Last(vals) = b
    BY <2>1 DEF Range, Last
  <2> QED BY <1>2, <1>3, <1>6, <2>1, <2>2 DEF Larger, vals
<1>7. CASE ~(a >= 0) /\ ~(b >= 0)
  <2>1. vals = <<>>
    BY <1>1, <1>7
  <2> QED BY <1>2, <1>7, <2>1 DEF Larger, vals
<1> QED BY <1>4, <1>5, <1>6, <1>7

\* What a cell shows is at most b.
AtMost(cell, t, b) == GetGridCellValue(cell, t) <= b /\ cell.dilated_val <= b
AtMostGrids(t, B) ==
    {g \in FollowingGrids(t) : \A n \in Cells : AtMost(g.cells[n], t, B[n])}
Bounds == [Cells -> Nat]

LEMMA AtMostGrid ==
    ASSUME NEW t, NEW B, NEW g \in FollowingGrids(t), NEW cs, g.cells = cs,
           \A n \in Cells : AtMost(cs[n], t, B[n])
    PROVE  g \in AtMostGrids(t, B)
  BY DEF AtMostGrids

LEMMA UndilatedAtMost ==
    ASSUME NEW cs \in Layers, NEW C \in SUBSET Cells, NEW t \in Settings, NEW n \in Cells,
           NEW b \in Nat, AtMost(cs[n], t, b)
    PROVE  AtMost(RemoveDilation(cs, C, t)[n], t, b)
<1> DEFINE r == RemoveDilation(cs, C, t)
<1>1. SameHeights(r[n], cs[n]) /\ r[n].dilated_val \in {0, cs[n].dilated_val}
  BY Undilated
<1> HIDE DEF r
<1>2. GetGridCellValue(r[n], t) = GetGridCellValue(cs[n], t)
  BY <1>1, SameValues
<1>3. AtMost(r[n], t, b)
  BY <1>1, <1>2 DEF AtMost
<1> QED BY <1>3 DEF r

LEMMA EmptyAtMost ==
    ASSUME NEW cell, ~Filled(cell), NEW b \in Nat, cell.dilated_val <= b, NEW t
    PROVE  AtMost(cell, t, b)
<1>1. GetGridCellValue(cell, t) = -1
  BY DEF GetGridCellValue
<1> QED BY <1>1 DEF AtMost

LEMMA ClearedAtMost ==
    ASSUME NEW t \in Settings, NEW B \in Bounds, NEW g \in AtMostGrids(t, B),
           NEW C \in SUBSET Cells
    PROVE  ClearCells(g, C, t) \in AtMostGrids(t, B)
<1> DEFINE cs == ResetCells(g.cells, C)
           r == RemoveDilation(cs, C, t)
<1>1. g \in FollowingGrids(t) /\ \A n \in Cells : AtMost(g.cells[n], t, B[n])
  BY DEF AtMostGrids
<1>2. g.cells \in Layers
  BY <1>1 DEF FollowingGrids, GridData
<1>3. ASSUME NEW n \in Cells
      PROVE  /\ cs[n] \in CellValues
             /\ \/ cs[n] = g.cells[n]
                \/ ~Filled(cs[n]) /\ cs[n].dilated_val = g.cells[n].dilated_val
  <2>1. g.cells[n] \in CellValues
    BY <1>2 DEF Layers
  <2>2. cs[n] = IF n \in C THEN ResetHeight(g.cells[n]) ELSE g.cells[n]
    BY DEF ResetCells
  <2> HIDE DEF cs
  <2> QED BY <2>1, <2>2, EmptiedCell
<1>4. cs \in Layers
  <2>1. cs = [n \in Cells |-> cs[n]]
    BY DEF ResetCells
  <2> HIDE DEF cs
  <2> QED BY <1>3, <2>1 DEF Layers
<1> HIDE DEF cs
<1>5. ASSUME NEW n \in Cells
      PROVE  AtMost(r[n], t, B[n])
  <2>1. B[n] \in Nat
    BY DEF Bounds
  <2>2. AtMost(cs[n], t, B[n])
    BY <1>1, <1>3, <2>1, EmptyAtMost DEF AtMost
  <2> QED BY <1>4, <2>1, <2>2, UndilatedAtMost
<1>6. ClearCells(g, C, t).cells = r
  BY DEF ClearCells, cs
<1>7. ClearCells(g, C, t) \in FollowingGrids(t)
  BY <1>1, ClearedFollows
<1> HIDE DEF r
<1> QED BY <1>5, <1>6, <1>7, AtMostGrid

LEMMA TimedAtMost ==
    ASSUME NEW t \in Settings, NEW B \in Bounds, NEW g \in AtMostGrids(t, B), NEW dt \in Nat
    PROVE  ClearByTime(g, dt, t) \in AtMostGrids(t, B)
<1> DEFINE aged == [g EXCEPT !.cells = [n \in Cells |-> AgeCell(@[n], dt)]]
           cs == [n \in Cells |-> AgeCell(g.cells[n], dt)]
           old == {n \in Cells : \/ aged.cells[n].low_age > MaxPointAge
                                 \/ aged.cells[n].high_age > MaxPointAge}
<1>1. g \in FollowingGrids(t) /\ \A n \in Cells : AtMost(g.cells[n], t, B[n])
  BY DEF AtMostGrids
<1>2. g.cells \in Layers /\ g \in GridData
  BY <1>1 DEF FollowingGrids, GridData
<1>3. aged.cells = cs
  BY <1>2 DEF GridData
<1>4. aged \in FollowingGrids(t)
  BY <1>1, AgedFollows
<1>5. ASSUME NEW n \in Cells
      PROVE  AtMost(cs[n], t, B[n])
  <2>1. g.cells[n] \in CellValues /\ AtMost(g.cells[n], t, B[n])
    BY <1>1, <1>2 DEF Layers
  <2>2. cs[n].low = g.cells[n].low /\ cs[n].high = g.cells[n].high
        /\ cs[n].dilated_val = g.cells[n].dilated_val
    BY <2>1 DEF AgeCell, CellValues
  <2> HIDE DEF cs
  <2>3. GetGridCellValue(cs[n], t) = GetGridCellValue(g.cells[n], t)
    BY <2>2 DEF GetGridCellValue, PastSlopeThreshold, Height, Filled
  <2> QED BY <2>1, <2>2, <2>3 DEF AtMost
<1> HIDE DEF cs
<1>6. aged \in AtMostGrids(t, B)
  <2> HIDE DEF aged
  <2> QED BY <1>3, <1>4, <1>5, AtMostGrid
<1>7. ClearByTime(g, dt, t) = ClearCells(aged, old, t)
  BY DEF ClearByTime
<1>8. old \in SUBSET Cells
  OBVIOUS
<1> HIDE DEF aged, old
<1> QED BY <1>6, <1>7, <1>8, ClearedAtMost

LEMMA ChannelAtMost ==
    ASSUME NEW t \in Settings, NEW B \in Bounds, NEW g \in AtMostGrids(t, B), NEW scan
    PROVE  ClearByChannel(g, scan, t) \in AtMostGrids(t, B)
<1> DEFINE ground == {<<p.x, p.y>> : p \in {q \in Range(scan.points) : q.ground /\ InGrid(q)}}
<1>1. ground \in SUBSET Cells
  BY DEF InGrid
<1>2. ClearByChannel(g, scan, t) = ClearCells(g, ground, t)
  BY DEF ClearByChannel
<1> HIDE DEF ground
<1> QED BY <1>1, <1>2, ClearedAtMost

LEMMA CutAtMost ==
    ASSUME NEW t \in Settings, NEW g \in GridData, NEW v, VoxelCut(g, v), NEW b \in Nat,
           AtMost(g.cells[<<v[1], v[2]>>], t, b)
    PROVE  AtMost(CellCut(g, v), t, b)
<1> DEFINE cell == g.cells[<<v[1], v[2]>>]
           cut == CellCut(g, v)
<1>1. cut \in CellValues /\ cell \in CellValues /\ cut.dilated_val = cell.dilated_val
  BY CutIsLower DEF GridData, Layers
<1>2. cell.dilated_val <= b /\ GetGridCellValue(cell, t) <= b
  BY DEF AtMost
<1>3. CASE ~Filled(cut)
  <2> HIDE DEF cut, cell
  <2> QED BY <1>1, <1>2, <1>3, EmptyAtMost DEF cut
<1>4. CASE Filled(cut)
  <2>1. cut.low = cell.low /\ cut.high <= cell.high
    BY <1>4, CutIsLower
  <2> HIDE DEF cut, cell
  <2>2. (Filled(cut) => Filled(cell)) /\ Height(cut) <= Height(cell)
    BY <1>1, <2>1 DEF Filled, Height, CellValues
  <2>3. GetGridCellValue(cell, t) \in -1..100 /\ GetGridCellValue(cut, t) \in -1..100
    BY <1>1, ValueInRange
  <2>4. PastSlopeThreshold(cut, t) => GetGridCellValue(cut, t) <= GetGridCellValue(cell, t)
    BY <1>1, <2>2, ValueOfHigher
  <2>5. ~PastSlopeThreshold(cut, t) => GetGridCellValue(cut, t) <= 0
    BY DEF GetGridCellValue
  <2>6. GetGridCellValue(cut, t) <= b
    BY <1>2, <2>3, <2>4, <2>5
  <2> QED BY <1>1, <1>2, <2>6 DEF AtMost, cut
<1> QED BY <1>3, <1>4

-----------------------------------------------------------------------------
(* What a cloud raises. *)

LEMMA ClearVoxelAtMost ==
    ASSUME NEW t \in Settings, NEW B \in Bounds, NEW g \in AtMostGrids(t, B), NEW v
    PROVE  ClearVoxelAt(g, v, t) \in AtMostGrids(t, B)
<1> DEFINE c == <<v[1], v[2]>>
           cut == CellCut(g, v)
           cs == [g.cells EXCEPT ![c] = cut]
           vs == [g.voxels EXCEPT ![c] = VoxelsLeft(g, v)]
<1>1. g \in FollowingGrids(t) /\ \A n \in Cells : AtMost(g.cells[n], t, B[n])
  BY DEF AtMostGrids
<1>2. g \in GridData /\ g.cells \in Layers
  BY <1>1 DEF FollowingGrids, GridData
<1>3. CASE ~VoxelCut(g, v)
  BY <1>2, <1>3, ClearVoxelCases
<1>4. CASE VoxelCut(g, v)
  <2>1. c \in Cells /\ cut \in CellValues
    BY <1>2, <1>4, CutIsLower
  <2>0. \A n \in Cells : B[n] \in Nat
    BY DEF Bounds
  <2>2. AtMost(cut, t, B[c])
    BY <1>1, <1>2, <1>4, <2>0, <2>1, CutAtMost
  <2>3. ClearVoxelAt(g, v, t) =
            [cells |-> IF PastSlopeThreshold(g.cells[c], t) /\ ~PastSlopeThreshold(cut, t)
                       THEN RemoveDilation(cs, {c}, t) ELSE cs,
             voxels |-> vs]
    <3>1. g \in GridData
      BY <1>2
    <3> QED BY <1>4, <3>1, ClearVoxelCases
  <2>4. ClearVoxelAt(g, v, t) \in FollowingGrids(t)
    BY <1>1, ClearVoxelFollows
  <2> HIDE DEF cut
  <2>5. ASSUME NEW n \in Cells
        PROVE  AtMost(cs[n], t, B[n])
    <3>1. cs[n] = IF n = c THEN cut ELSE g.cells[n]
      BY <1>2, <2>1 DEF Layers
    <3> HIDE DEF cs
    <3> QED BY <1>1, <2>2, <3>1
  <2>6. cs \in Layers
    BY <1>2, <2>1 DEF Layers
  <2> HIDE DEF cs, vs, c
  <2>7. CASE PastSlopeThreshold(g.cells[c], t) /\ ~PastSlopeThreshold(cut, t)
    <3> DEFINE r == RemoveDilation(cs, {c}, t)
    <3>1. \A n \in Cells : AtMost(r[n], t, B[n])
      BY <2>0, <2>1, <2>5, <2>6, UndilatedAtMost
    <3>2. ClearVoxelAt(g, v, t).cells = r
      BY <2>3, <2>7
    <3> HIDE DEF r
    <3> QED BY <2>4, <3>1, <3>2, AtMostGrid
  <2>8. CASE ~(PastSlopeThreshold(g.cells[c], t) /\ ~PastSlopeThreshold(cut, t))
    <3>1. ClearVoxelAt(g, v, t).cells = cs
      BY <2>3, <2>8
    <3> QED BY <2>4, <2>5, <3>1, AtMostGrid
  <2> QED BY <2>7, <2>8
<1> QED BY <1>3, <1>4

LEMMA RaysAtMost ==
    ASSUME NEW t \in Settings, NEW scan \in Scans, NEW B \in Bounds,
           NEW g \in AtMostGrids(t, B)
    PROVE  ClearByRays(g, scan, t) \in AtMostGrids(t, B)
<1> DEFINE h == TraceRays(g, scan, t)
           Seen(n) == {Voxel(p.h) : p \in {q \in Range(scan.points) : <<q.x, q.y>> = n}}
           us == [n \in Cells |-> h.voxels[n] \cup (Seen(n) \cap 0..(NVoxels - 1))]
<1>1. h \in AtMostGrids(t, B)
  BY TracedStays, ClearVoxelAtMost
<1>2. ClearByRays(g, scan, t) \in FollowingGrids(t)
  BY RaysFollow DEF AtMostGrids
<1>3. ClearByRays(g, scan, t) = [h EXCEPT !.voxels = us]
  BY DEF ClearByRays
<1> HIDE DEF h, us
<1>4. h \in GridData /\ \A n \in Cells : AtMost(h.cells[n], t, B[n])
  BY <1>1 DEF AtMostGrids, FollowingGrids
<1>5. ClearByRays(g, scan, t).cells = h.cells
  BY <1>3, <1>4 DEF GridData
<1> QED BY <1>2, <1>4, <1>5, AtMostGrid

\* Clearing raises nothing.
LEMMA OccupancyAtMost ==
    ASSUME NEW t \in Settings, NEW scan \in Scans, NEW B \in Bounds,
           NEW g \in AtMostGrids(t, B), NEW dt \in Nat
    PROVE  ClearOccupancy(g, scan, dt, t) \in AtMostGrids(t, B)
<1>1. ASSUME NEW h \in AtMostGrids(t, B), NEW i \in 1..Len(Methods)
      PROVE  ClearBy(Methods[i], h, scan, dt, t) \in AtMostGrids(t, B)
  <2>1. Methods[i] \in {"time", "raytrace", "channel_threshold"}
    BY MethodTypes
  <2>2. CASE Methods[i] = "time"
    BY <2>2, TimedAtMost DEF ClearBy
  <2>3. CASE Methods[i] = "raytrace"
    BY <2>3, RaysAtMost DEF ClearBy
  <2>4. CASE Methods[i] = "channel_threshold"
    BY <2>4, ChannelAtMost DEF ClearBy
  <2> QED BY <2>1, <2>2, <2>3, <2>4
<1> QED BY <1>1, MethodTypes, ClearOccupancyStays

LEMMA CellsAreInts == \A n \in Cells : n[1] \in Int /\ n[2] \in Int
<1>1. \A n \in Cells : n[1] \in 0..(NX - 1) /\ n[2] \in 0..(NY - 1)
  BY DEF Cells
<1> QED BY <1>1

\* What is around a cell has the cell around it.
LEMMA AroundEachOther ==
    ASSUME NEW n \in Cells
    PROVE  n \in Around[n] /\ \A c \in Around[n] : c \in Cells /\ n \in Around[c]
<1>1. DX \in Nat /\ DY \in Nat
  BY CostmapAssumption
<1>2. ASSUME NEW a \in Cells, NEW b \in Cells
      PROVE  a \in Around[b] <=> /\ a[1] >= b[1] - DX /\ a[1] <= b[1] + DX
                                 /\ a[2] >= b[2] - DY /\ a[2] <= b[2] + DY
  <2>1. a[1] \in Int /\ a[2] \in Int /\ b[1] \in Int /\ b[2] \in Int
    BY CellsAreInts
  <2>2. a \in Around[b] <=> a[1] \in (b[1] - DX)..(b[1] + DX) /\ a[2] \in (b[2] - DY)..(b[2] + DY)
    BY DEF Around
  <2> QED BY <1>1, <2>1, <2>2
<1>3. n \in Around[n]
  BY <1>1, <1>2, CellsAreInts
<1>4. ASSUME NEW c \in Around[n]
      PROVE  c \in Cells /\ n \in Around[c]
  <2>1. c \in Cells
    BY AroundInCells
  <2>2. c[1] \in Int /\ c[2] \in Int /\ n[1] \in Int /\ n[2] \in Int
    BY <2>1, CellsAreInts
  <2>3. /\ c[1] >= n[1] - DX /\ c[1] <= n[1] + DX
        /\ c[2] >= n[2] - DY /\ c[2] <= n[2] + DY
    BY <1>2, <2>1
  <2>4. /\ n[1] >= c[1] - DX /\ n[1] <= c[1] + DX
        /\ n[2] >= c[2] - DY /\ n[2] <= c[2] + DY
    BY <1>1, <2>2, <2>3
  <2> QED BY <1>2, <2>1, <2>4
<1> QED BY <1>3, <1>4

LEMMA RegionsInCells ==
    /\ \A S \in SUBSET Cells : DilatedRegion(S) \subseteq Cells /\ S \subseteq Box(S)
    /\ \A S : Box(S) \subseteq Cells
    /\ \A S, R : S \subseteq R => DilatedRegion(S) \subseteq DilatedRegion(R)
<1>1. ASSUME NEW S \in SUBSET Cells, NEW c \in S PROVE c \in Box(S)
  <2>1. c \in Cells /\ c[1] \in Int /\ c[2] \in Int
    BY CellsAreInts
  <2>2. c[1] \in c[1]..c[1] /\ c[2] \in c[2]..c[2]
    BY <2>1
  <2> QED BY <2>1, <2>2 DEF Box
<1>2. \A S \in SUBSET Cells : DilatedRegion(S) \subseteq Cells
  BY AroundInCells DEF DilatedRegion
<1>3. \A S : Box(S) \subseteq Cells
  BY DEF Box
<1>4. \A S, R : S \subseteq R => DilatedRegion(S) \subseteq DilatedRegion(R)
  BY DEF DilatedRegion
<1> QED BY <1>1, <1>2, <1>3, <1>4

\* Points raise nothing outside of what is dilated around them.
LEMMA AddedAtMost ==
    ASSUME NEW t \in Settings, NEW scan \in Scans, NEW cs \in Layers,
           NEW n \in Cells \ DilatedRegion(Hit(scan)), NEW b \in Nat, AtMost(cs[n], t, b)
    PROVE  AtMost(AddOccupancy(cs, scan, t)[n], t, b)
<1> DEFINE raised == RaisedCells(cs, scan)
           C == SteeperCells(cs, scan, t)
           d == Dilate(raised, C, t)
<1>1. raised \in Layers
  <2>1. raised = [k \in Cells |-> raised[k]]
    BY DEF RaisedCells
  <2> HIDE DEF raised
  <2> QED BY <2>1, RaisedCell DEF Layers, raised
<1>2. C \in SUBSET Cells /\ C \subseteq Hit(scan)
  BY HitHeights DEF SteeperCells
<1>3. AddOccupancy(cs, scan, t) = d
  BY AddedByDilation
<1>4. n \notin Hit(scan) /\ Around[n] \cap Hit(scan) = {}
  BY AroundEachOther DEF DilatedRegion
<1>5. raised[n] = cs[n]
  BY <1>4, RaisedCell
<1> HIDE DEF raised, C
<1>6. SameHeights(d[n], raised[n])
      /\ \/ d[n].dilated_val = raised[n].dilated_val
         \/ \E c \in C \cap Around[n] : d[n].dilated_val = Share(raised[c], t)
  BY <1>1, <1>2, Dilated
<1> HIDE DEF d
<1>7. d[n].dilated_val = cs[n].dilated_val
  BY <1>2, <1>4, <1>5, <1>6
<1>8. GetGridCellValue(d[n], t) = GetGridCellValue(cs[n], t)
  BY <1>5, <1>6, SameValues
<1>9. AtMost(d[n], t, b)
  BY <1>7, <1>8 DEF AtMost
<1> QED BY <1>3, <1>9

-----------------------------------------------------------------------------
(* What the costmap shows after a cloud. *)

\* The costmap of layers ss and cs.
Shown(ss, cs, t) ==
    [n \in Cells |-> CombineLayerValues(CollectLayerValues(GetOccValue(ss[n], t),
                                                           GetOccValue(cs[n], t)))]

\* No lower value of another layer shows where the point cloud layer knows none.
NothingBelow(ss, t) ==
    \/ Combination = "max"
    \/ Combination = "last" /\ \A n \in Cells : GetOccValue(ss[n], t) < 0

\* The values a costmap shows, from the two layers' values of the cell.
LEMMA ShownValues ==
    ASSUME NEW ss \in Layers, NEW cs \in Layers, NEW t \in Settings, NothingBelow(ss, t)
    PROVE  /\ Shown(ss, cs, t) \in [Cells -> Int]
           /\ \A n \in Cells :
                 Shown(ss, cs, t)[n] = Larger(0, Larger(GetOccValue(ss[n], t), GetOccValue(cs[n], t)))
<1>1. ASSUME NEW layer \in Layers, NEW n \in Cells
      PROVE  GetOccValue(layer[n], t) \in Int
  <2>1. layer[n] \in CellValues
    BY DEF Layers
  <2>2. GetGridCellValue(layer[n], t) \in -1..100 /\ layer[n].dilated_val \in -1..100
    BY <2>1, ValueInRange DEF CellValues
  <2> QED BY <2>2 DEF GetOccValue, Larger
<1>2. ASSUME NEW n \in Cells
      PROVE  Shown(ss, cs, t)[n] = Larger(0, Larger(GetOccValue(ss[n], t), GetOccValue(cs[n], t)))
  <2>1. GetOccValue(ss[n], t) \in Int /\ GetOccValue(cs[n], t) \in Int
    BY <1>1
  <2>2. Combination = "max" \/ (Combination = "last" /\ GetOccValue(ss[n], t) < 0)
    <3>1. CASE Combination = "max"
      BY <3>1
    <3>2. CASE Combination # "max"
      <4>1. Combination = "last" /\ \A k \in Cells : GetOccValue(ss[k], t) < 0
        BY <3>2 DEF NothingBelow
      <4> QED BY <4>1
    <3> QED BY <3>1, <3>2
  <2> QED BY <2>1, <2>2, CombinedMax DEF Shown
<1>3. ASSUME NEW n \in Cells
      PROVE  Shown(ss, cs, t)[n] \in Int
  BY <1>1, <1>2 DEF Larger
<1>4. Shown(ss, cs, t) = [n \in Cells |-> Shown(ss, cs, t)[n]]
  BY DEF Shown
<1>5. Shown(ss, cs, t) \in [Cells -> Int]
  BY <1>3, <1>4
<1> QED BY <1>2, <1>5

\* Where no lower value shows through, a lower layer is not shown higher.
LEMMA LowerShown ==
    ASSUME NEW ss \in Layers, NEW cs \in Layers, NEW ds \in Layers,
           NEW t \in Settings, NothingBelow(ss, t), NEW n \in Cells,
           AtMost(ds[n], t, Larger(0, GetOccValue(cs[n], t)))
    PROVE  Shown(ss, ds, t)[n] <= Shown(ss, cs, t)[n]
<1>1. ASSUME NEW layer \in Layers
      PROVE  /\ GetGridCellValue(layer[n], t) \in Int /\ layer[n].dilated_val \in Int
             /\ GetOccValue(layer[n], t) \in Int
  <2>1. layer[n] \in CellValues
    BY DEF Layers
  <2>2. GetGridCellValue(layer[n], t) \in -1..100 /\ layer[n].dilated_val \in -1..100
    BY <2>1, ValueInRange DEF CellValues
  <2> QED BY <2>2 DEF GetOccValue, Larger
<1> DEFINE a == GetOccValue(ss[n], t)
           b == GetOccValue(cs[n], t)
           d == GetOccValue(ds[n], t)
<1>2. a \in Int /\ b \in Int /\ d \in Int
  BY <1>1
<1>3. d <= Larger(0, b)
  BY <1>1 DEF AtMost, GetOccValue, Larger
<1>4. /\ Shown(ss, ds, t)[n] = Larger(0, Larger(a, d))
      /\ Shown(ss, cs, t)[n] = Larger(0, Larger(a, b))
  BY ShownValues
<1> HIDE DEF a, b, d
<1>5. Larger(0, Larger(a, d)) <= Larger(0, Larger(a, b))
  BY <1>2, <1>3 DEF Larger
<1> QED BY <1>4, <1>5

\* Each cell's value bounds the cell.
LEMMA OwnBound ==
    ASSUME NEW cs \in Layers, NEW t \in Settings, NEW n \in Cells
    PROVE  /\ Larger(0, GetOccValue(cs[n], t)) \in Nat
           /\ AtMost(cs[n], t, Larger(0, GetOccValue(cs[n], t)))
<1>1. cs[n] \in CellValues
  BY DEF Layers
<1>2. GetGridCellValue(cs[n], t) \in -1..100 /\ cs[n].dilated_val \in -1..100
  BY <1>1, ValueInRange DEF CellValues
<1>3. GetOccValue(cs[n], t) = Larger(GetGridCellValue(cs[n], t), cs[n].dilated_val)
  BY DEF GetOccValue
<1> DEFINE v == GetGridCellValue(cs[n], t)
           w == cs[n].dilated_val
<1> HIDE DEF v, w
<1>4. v \in Int /\ w \in Int
  BY <1>2 DEF v, w
<1>5. /\ Larger(0, Larger(v, w)) \in Nat
      /\ v <= Larger(0, Larger(v, w)) /\ w <= Larger(0, Larger(v, w))
  BY <1>4 DEF Larger
<1> QED BY <1>3, <1>5 DEF AtMost, v, w

\* A cloud raises the costmap nowhere but around the cells its points fell into.
LEMMA CloudRaisesAround ==
    ASSUME NothingBelow(static_cells, thresholds), FollowInv, update_region \in SUBSET Cells,
           NEW scan \in scenario.scans, NEW dt \in scenario.dts, PointCloud(scan, dt)
    PROVE  /\ update_region' \in SUBSET Cells
           /\ DilatedRegion(update_region) \subseteq DilatedRegion(update_region')
           /\ \A n \in Cells \ DilatedRegion(update_region') : Grid'[n] <= Grid[n]
<1> DEFINE t == thresholds
           B == [n \in Cells |-> Larger(0, GetOccValue(cells[n], t))]
           g == [cells |-> cells, voxels |-> voxel_grid]
           before == IF clr_only_pc = NoScan THEN g
                     ELSE ClearOccupancy(g, clr_only_pc, dt, t)
           wait == IF clr_only_pc = NoScan THEN dt ELSE 0
           cleared == ClearOccupancy(before, scan, wait, t)
<1>1. /\ cells' = AddOccupancy(cleared.cells, scan, t)
      /\ update_region' = Box(update_region \cup Hit(scan))
      /\ UNCHANGED <<static_cells, thresholds>>
  BY DEF PointCloud, sub_vars
<1>2. /\ t \in Settings /\ scan \in Scans /\ dt \in Nat /\ cells \in Layers /\ static_cells \in Layers
      /\ (clr_only_pc # NoScan => clr_only_pc \in Scans)
  BY ScenarioTypes DEF FollowInv, LayerTypes
<1>3. g \in FollowingGrids(t)
  BY <1>2, FollowingGrid, FollowsIsInvariant DEF FollowInv, LayerTypes
<1>4. B \in Bounds /\ \A n \in Cells : AtMost(cells[n], t, B[n])
  BY <1>2, OwnBound DEF Bounds
<1>5. g \in AtMostGrids(t, B)
  BY <1>3, <1>4, AtMostGrid
<1>6. wait \in Nat
  BY <1>2
<1> HIDE DEF g, wait, B
<1>7. before \in AtMostGrids(t, B)
  BY <1>2, <1>4, <1>5, OccupancyAtMost
<1> HIDE DEF before
<1>8. cleared \in AtMostGrids(t, B)
  BY <1>2, <1>4, <1>6, <1>7, OccupancyAtMost
<1> HIDE DEF cleared
<1>9. cleared.cells \in Layers /\ \A n \in Cells : AtMost(cleared.cells[n], t, B[n])
  BY <1>8 DEF AtMostGrids, FollowingGrids, GridData
<1>10. Hit(scan) \in SUBSET Cells
  BY <1>2, HitHeights
<1>11. Hit(scan) \subseteq update_region' /\ update_region \subseteq update_region'
       /\ update_region' \in SUBSET Cells
  <2>1. update_region \cup Hit(scan) \in SUBSET Cells
    BY <1>10
  <2>2. update_region \cup Hit(scan) \subseteq update_region' /\ update_region' \subseteq Cells
    BY <1>1, <2>1, RegionsInCells
  <2> QED BY <2>2
<1>12. /\ DilatedRegion(Hit(scan)) \subseteq DilatedRegion(update_region')
       /\ DilatedRegion(update_region) \subseteq DilatedRegion(update_region')
  BY <1>11, RegionsInCells
<1>13. cells' \in Layers
  BY CloudFollows DEF FollowInv, LayerTypes
<1>14. ASSUME NEW n \in Cells \ DilatedRegion(update_region')
       PROVE  Grid'[n] <= Grid[n]
  <2>1. n \in Cells \ DilatedRegion(Hit(scan)) /\ B[n] \in Nat
    BY <1>4, <1>12 DEF Bounds
  <2>2. AtMost(cells'[n], t, B[n])
    BY <1>1, <1>2, <1>9, <2>1, AddedAtMost
  <2>3. AtMost(cells'[n], t, Larger(0, GetOccValue(cells[n], t)))
    BY <2>2 DEF B
  <2>4. Shown(static_cells, cells', t)[n] <= Shown(static_cells, cells, t)[n]
    BY <1>2, <1>13, <2>3, LowerShown
  <2>5. Grid = Shown(static_cells, cells, t) /\ Grid' = Shown(static_cells, cells', t)
    BY <1>1 DEF Grid, Shown
  <2> QED BY <2>4, <2>5
<1> QED BY <1>11, <1>12, <1>14

-----------------------------------------------------------------------------
(* The copy of a subscriber. *)

\* What the copy gm shows of a cell when it has the update that waits.
Pending(us, gm, n) == IF us # <<>> /\ n \in DOMAIN Head(us) THEN Head(us)[n] ELSE gm[n]

\* A full grid that waits is the costmap's; without one, only cells of the next
\* update are higher than what the copy shows or will.
CopyHolds(gs, us, gm, region, grid) ==
    /\ gs # <<>> => gs = <<grid>>
    /\ gs = <<>> =>
          /\ gm \in [Cells -> Int]
          /\ \A n \in Cells \ DilatedRegion(region) : Pending(us, gm, n) >= grid[n]

\* Costmap updates.
Updates == UNION {[S -> Int] : S \in SUBSET Cells}

\* What is on its way to the subscriber: at most a grid and an update.
OneMessage(gs, us) ==
    /\ gs = <<>> \/ us = <<>>
    /\ us # <<>> => Len(us) = 1 /\ us \in Seq(Updates)

\* A subscriber whose messages are taken before the next are sent.
PromptInv ==
    /\ joined
    /\ OneMessage(grids, updates)
    /\ since_full # -1 /\ ~retuned => CopyHolds(grids, updates, grid_msg, update_region, Grid)

\* The highest value shows, or there is no static layer.
NothingShowsThrough ==
    Combination = "max" \/ (Combination = "last" /\ DOMAIN StaticHeights = {})

\* No cell of the static layer is filled.
EmptyStaticLayer(ss) ==
    \A n \in Cells : ss[n].low = NoLow /\ ss[n].high = NoHigh /\ ss[n].dilated_val = -1

\* The third invariant.
CopyInv ==
    /\ FollowInv /\ update_region \in SUBSET Cells
    /\ DOMAIN StaticHeights = {} => EmptyStaticLayer(static_cells)
    /\ scenario.prompt => PromptInv

LEMMA NothingBelowStatic ==
    ASSUME NothingShowsThrough, CopyInv
    PROVE  NothingBelow(static_cells, thresholds)
<1>1. ASSUME EmptyStaticLayer(static_cells), NEW n \in Cells
      PROVE  GetOccValue(static_cells[n], thresholds) < 0
  <2>1. GetGridCellValue(static_cells[n], thresholds) = -1 /\ static_cells[n].dilated_val = -1
    BY <1>1 DEF EmptyStaticLayer, GetGridCellValue, Filled, NoLow
  <2> QED BY <2>1 DEF GetOccValue, Larger
<1> QED BY <1>1 DEF NothingShowsThrough, NothingBelow, CopyInv

LEMMA GridIsTyped ==
    ASSUME NothingBelow(static_cells, thresholds), FollowInv
    PROVE  Grid \in [Cells -> Int]
<1>1. static_cells \in Layers /\ cells \in Layers /\ thresholds \in Settings
  BY ScenarioTypes DEF FollowInv, LayerTypes
<1>2. Grid = Shown(static_cells, cells, thresholds)
  BY DEF Grid, Shown
<1> QED BY <1>1, <1>2, ShownValues

LEMMA CopyIsStronger ==
    CopyInv => NoObstacleMissed
<1> SUFFICES ASSUME CopyInv, scenario.prompt, ~retuned,
                    NEW n \in Cells, Grid[n] > 0, ~OnItsWay(n)
             PROVE  grid_msg[n] >= Grid[n]
  BY DEF NoObstacleMissed
<1>1. /\ grids = <<>> /\ since_full # -1 /\ ~(updates # <<>> /\ n \in DOMAIN Head(updates))
      /\ n \in Cells \ DilatedRegion(update_region)
  BY DEF OnItsWay
<1>2. CopyHolds(grids, updates, grid_msg, update_region, Grid)
  BY <1>1 DEF CopyInv, PromptInv
<1> QED BY <1>1, <1>2 DEF CopyHolds, Pending

LEMMA CopyInit ==
    Init => CopyInv
<1> SUFFICES ASSUME Init PROVE CopyInv
  OBVIOUS
<1>1. update_region \in SUBSET Cells
  BY DEF Init
<1>2. ASSUME scenario.prompt PROVE PromptInv
  <2>1. joined
    BY <1>2 DEF Init
  <2>2. grids = <<>> /\ updates = <<>> /\ since_full = -1
    BY DEF Init
  <2> QED BY <2>1, <2>2 DEF PromptInv, OneMessage
<1>3. ASSUME DOMAIN StaticHeights = {} PROVE EmptyStaticLayer(static_cells)
  <2>1. \A n \in Cells : static_cells[n] = EmptyCell
    BY <1>3 DEF Init
  <2> QED BY <2>1, EmptyLayer DEF EmptyStaticLayer, EmptyCell
<1> QED BY <1>1, <1>2, <1>3, FollowInit DEF CopyInv

LEMMA CopyOfCloud ==
    ASSUME NothingShowsThrough, CopyInv, Handled,
           NEW scan \in scenario.scans, NEW dt \in scenario.dts, PointCloud(scan, dt)
    PROVE  CopyInv'
<1>1. /\ update_region' \in SUBSET Cells
      /\ DilatedRegion(update_region) \subseteq DilatedRegion(update_region')
      /\ \A n \in Cells \ DilatedRegion(update_region') : Grid'[n] <= Grid[n]
  BY CloudRaisesAround, NothingBelowStatic DEF CopyInv
<1>2. UNCHANGED <<static_cells, thresholds, scenario, joined, grids, updates, grid_msg, since_full, retuned>>
  BY DEF PointCloud, node_vars, sub_vars
<1>3. FollowInv'
  BY CloudFollows DEF CopyInv
<1>8. \A sc \in Scenarios : \A t \in sc.thresholds : t \in Settings
  BY ScenarioTypes
<1>4. Grid \in [Cells -> Int] /\ Grid' \in [Cells -> Int]
  <2>1. Grid \in [Cells -> Int]
    BY GridIsTyped, NothingBelowStatic DEF CopyInv
  <2>4. NothingBelow(static_cells', thresholds')
    BY <1>2, NothingBelowStatic DEF NothingBelow
  <2>2. static_cells' \in Layers /\ cells' \in Layers /\ thresholds' \in Settings
    BY <1>3, <1>8 DEF FollowInv, LayerTypes
  <2>3. Grid' = Shown(static_cells', cells', thresholds')
    BY DEF Grid, Shown
  <2> QED BY <2>1, <2>2, <2>3, <2>4, ShownValues
<1>6. ASSUME scenario.prompt, since_full # -1, ~retuned
      PROVE  CopyHolds(grids, updates, grid_msg, update_region', Grid')
  <2>1. grids = <<>> /\ updates = <<>>
    BY <1>6 DEF Handled
  <2>2. CopyHolds(grids, updates, grid_msg, update_region, Grid)
    BY <1>6 DEF CopyInv, PromptInv
  <2>3. grid_msg \in [Cells -> Int]
        /\ \A n \in Cells \ DilatedRegion(update_region) : grid_msg[n] >= Grid[n]
    BY <2>1, <2>2 DEF CopyHolds, Pending
  <2>4. ASSUME NEW n \in Cells \ DilatedRegion(update_region')
        PROVE  grid_msg[n] >= Grid'[n]
    <3>1. grid_msg[n] >= Grid[n] /\ Grid'[n] <= Grid[n]
      BY <1>1, <2>3
    <3>2. grid_msg[n] \in Int /\ Grid[n] \in Int /\ Grid'[n] \in Int
      BY <1>4, <2>3
    <3> QED BY <3>1, <3>2
  <2> QED BY <2>1, <2>3, <2>4 DEF CopyHolds, Pending
<1>7. ASSUME scenario.prompt PROVE PromptInv'
  BY <1>2, <1>6, <1>7 DEF CopyInv, PromptInv
<1> QED BY <1>1, <1>2, <1>3, <1>7 DEF CopyInv

-----------------------------------------------------------------------------
(* The copy of a subscriber: the steps. *)

LEMMA NoGridIsNoCopy == NoGrid \notin [Cells -> Int]
  BY CostmapAssumption

\* The update that is sent has the cells the cloud may have raised.
LEMMA PublishedUpdate ==
    ASSUME NothingBelow(static_cells, thresholds), FollowInv, update_region \in SUBSET Cells
    PROVE  /\ DOMAIN GridUpdate = DilatedRegion(update_region)
           /\ \A n \in DOMAIN GridUpdate : n \in Cells /\ GridUpdate[n] = Grid[n]
           /\ GridUpdate \in Updates
<1>1. DOMAIN GridUpdate = DilatedRegion(update_region)
      /\ \A n \in DilatedRegion(update_region) : GridUpdate[n] = Grid[n]
  BY DEF GridUpdate
<1>2. DilatedRegion(update_region) \in SUBSET Cells /\ Grid \in [Cells -> Int]
  BY RegionsInCells, GridIsTyped
<1>3. GridUpdate \in [DilatedRegion(update_region) -> Int]
  BY <1>2 DEF GridUpdate
<1> QED BY <1>1, <1>2, <1>3 DEF Updates

\* Without obstacles, moved thresholds dilate nothing.
LEMMA StaysEmpty ==
    ASSUME NEW ss \in Layers, NEW t \in Settings, EmptyStaticLayer(ss)
    PROVE  EmptyStaticLayer(RecomputeGridDilation(ss, t))
<1> DEFINE bare == [n \in Cells |-> [ss[n] EXCEPT !.has_dilated = FALSE, !.dilated_val = -1]]
           C == Obstacles(ss, t)
<1>1. RecomputeGridDilation(ss, t) = Dilate(bare, C, t)
  BY DEF RecomputeGridDilation
<1>2. bare \in Layers /\ \A n \in Cells : SameHeights(bare[n], ss[n]) /\ bare[n].dilated_val = -1
  BY BareCell
<1>3. ASSUME NEW n \in Cells PROVE ~PastSlopeThreshold(ss[n], t)
  <2>1. t.thresh \in Nat
    BY DEF Settings
  <2> QED BY <2>1 DEF EmptyStaticLayer, PastSlopeThreshold, Height, NoLow, NoHigh
<1>4. C = {}
  BY <1>3 DEF Obstacles
<1> HIDE DEF bare, C
<1>5. ASSUME NEW n \in Cells
      PROVE  /\ SameHeights(Dilate(bare, C, t)[n], bare[n])
             /\ Dilate(bare, C, t)[n].dilated_val = bare[n].dilated_val
  BY <1>2, <1>4, Dilated
<1>6. ASSUME NEW n \in Cells
      PROVE  /\ Dilate(bare, C, t)[n].low = NoLow /\ Dilate(bare, C, t)[n].high = NoHigh
             /\ Dilate(bare, C, t)[n].dilated_val = -1
  <2>1. ss[n].low = NoLow /\ ss[n].high = NoHigh
    BY DEF EmptyStaticLayer
  <2> QED BY <1>2, <1>5, <2>1 DEF SameHeights
<1> QED BY <1>1, <1>6 DEF EmptyStaticLayer

\* After a cycle without a reset.
LEMMA CopyOfCycle ==
    ASSUME NothingShowsThrough, CopyInv, Handled, Cycle
    PROVE  /\ update_region' \in SUBSET Cells
           /\ scenario.prompt => PromptInv'
<1>1. /\ UNCHANGED <<static_cells, thresholds, scenario, joined, grid_msg>>
      /\ retuned' = (retuned /\ ~(ready /\ IsFullUpdate))
  BY DEF Cycle
<1>2. FollowInv /\ update_region \in SUBSET Cells /\ NothingBelow(static_cells, thresholds)
  BY NothingBelowStatic DEF CopyInv
<1>3. \/ ready /\ update_region' = {}
      \/ ~ready /\ UNCHANGED update_region
  BY DEF Cycle
<1>4. update_region' \in SUBSET Cells
  BY <1>2, <1>3
<1>5. ASSUME scenario.prompt PROVE PromptInv'
  <2>1. PromptInv /\ grids = <<>> /\ updates = <<>> /\ joined
    BY <1>5 DEF CopyInv, Handled, PromptInv
  <2>2. CASE ready /\ IsFullUpdate
    <3>1. grids' = <<Grid>> /\ updates' = <<>>
      BY <2>1, <2>2 DEF Cycle, PublishGrid, Publish
    <3>2. ASSUME since_full' # -1 PROVE grids' = <<Grid'>>
      <4>1. UNCHANGED cells
        BY <3>2 DEF Cycle, Reset
      <4>2. Grid' = Grid
        BY <1>1, <4>1 DEF Grid
      <4> QED BY <3>1, <4>2
    <3>3. since_full' # -1 => CopyHolds(grids', updates', grid_msg', update_region', Grid')
      BY <3>1, <3>2 DEF CopyHolds
    <3> QED BY <1>1, <2>1, <3>1, <3>3 DEF PromptInv, OneMessage
  <2>3. CASE ~(ready /\ IsFullUpdate)
    <3>1. /\ grids' = <<>> /\ (~retuned' => ~retuned)
          /\ \/ updates' = <<>> /\ (ready => update_region = {})
             \/ ready /\ updates' = <<GridUpdate>>
      <4>1. ~retuned' => ~retuned
        BY <1>1, <2>3
      <4>2. CASE ready
        <5>1. /\ updates' = IF update_region = {} THEN updates ELSE Publish(GridUpdate)
              /\ UNCHANGED grids
          BY <2>3, <4>2 DEF Cycle, PublishGrid
        <5> QED BY <2>1, <4>1, <4>2, <5>1 DEF Publish
      <4>3. CASE ~ready
        BY <2>1, <4>1, <4>3 DEF Cycle
      <4> QED BY <4>2, <4>3
    <3>2. OneMessage(grids', updates')
      <4>1. <<GridUpdate>> \in Seq(Updates) /\ Len(<<GridUpdate>>) = 1
        BY <1>2, PublishedUpdate
      <4> QED BY <3>1, <4>1 DEF OneMessage
    <3>3. ASSUME since_full' # -1, ~retuned'
          PROVE  CopyHolds(grids', updates', grid_msg', update_region', Grid')
      <4>1. UNCHANGED cells
        BY <3>3 DEF Cycle, Reset
      <4>2. Grid' = Grid
        BY <1>1, <4>1 DEF Grid
      <4>3. since_full # -1
        BY <2>3, <3>3 DEF Cycle, Reset, IsFullUpdate
      <4>4. /\ grid_msg \in [Cells -> Int]
            /\ \A n \in Cells \ DilatedRegion(update_region) : grid_msg[n] >= Grid[n]
        BY <2>1, <3>1, <3>3, <4>3 DEF PromptInv, CopyHolds, Pending
      <4>5. ASSUME NEW n \in Cells \ DilatedRegion(update_region')
            PROVE  Pending(updates', grid_msg, n) >= Grid[n]
        <5>1. CASE n \notin DilatedRegion(update_region)
          <6>1. ~(updates' # <<>> /\ n \in DOMAIN Head(updates'))
            <7>1. Head(<<GridUpdate>>) = GridUpdate
              OBVIOUS
            <7> QED BY <1>2, <3>1, <5>1, <7>1, PublishedUpdate
          <6> QED BY <4>4, <5>1, <6>1 DEF Pending
        <5>2. CASE n \in DilatedRegion(update_region)
          <6>1. update_region # {}
            BY <5>2 DEF DilatedRegion
          <6>2. ready
            BY <1>3, <4>5, <5>2 DEF DilatedRegion
          <6>3. updates' = <<GridUpdate>>
            BY <3>1, <6>1, <6>2
          <6>4. updates' # <<>> /\ Head(updates') = GridUpdate
            BY <6>3
          <6>5. n \in DOMAIN GridUpdate /\ GridUpdate[n] = Grid[n] /\ Grid[n] \in Int
            BY <1>2, <5>2, PublishedUpdate, GridIsTyped
          <6>6. Pending(updates', grid_msg, n) = Grid[n]
            BY <6>4, <6>5 DEF Pending
          <6> QED BY <6>5, <6>6
        <5> QED BY <5>1, <5>2
      <4> QED BY <1>1, <3>1, <4>2, <4>4, <4>5 DEF CopyHolds
    <3> QED BY <1>1, <2>1, <3>2, <3>3 DEF PromptInv
  <2> QED BY <2>2, <2>3
<1> QED BY <1>4, <1>5

\* After a grid is taken.
LEMMA CopyOfGrid ==
    ASSUME CopyInv, OccupancyGridCallback, scenario.prompt, NothingShowsThrough
    PROVE  PromptInv'
<1>1. /\ grids # <<>> /\ grid_msg' = Head(grids) /\ grids' = Tail(grids)
      /\ UNCHANGED <<cells, static_cells, thresholds, update_region, updates, joined,
                     since_full, retuned>>
  BY DEF OccupancyGridCallback, layer_vars, node_vars
<1>2. PromptInv /\ updates = <<>> /\ joined
  BY <1>1 DEF CopyInv, PromptInv, OneMessage
<1>3. Grid' = Grid
  BY <1>1 DEF Grid
<1>4. ASSUME since_full # -1, ~retuned
      PROVE  CopyHolds(grids', updates, grid_msg', update_region, Grid)
  <2>1. grids = <<Grid>>
    BY <1>1, <1>2, <1>4 DEF PromptInv, CopyHolds
  <2>2. grids' = <<>> /\ grid_msg' = Grid
    BY <1>1, <2>1
  <2>3. Grid \in [Cells -> Int] /\ \A n \in Cells : Grid[n] >= Grid[n]
    <3>1. Grid \in [Cells -> Int]
      BY GridIsTyped, NothingBelowStatic DEF CopyInv
    <3>2. \A i \in Int : i >= i
      OBVIOUS
    <3> QED BY <3>1, <3>2
  <2> QED BY <1>2, <2>2, <2>3 DEF CopyHolds, Pending
<1>5. OneMessage(grids', updates')
  BY <1>1, <1>2 DEF OneMessage
<1> QED BY <1>1, <1>2, <1>3, <1>4, <1>5 DEF PromptInv

\* After an update is taken.
LEMMA CopyOfUpdate ==
    ASSUME CopyInv, OccupancyGridUpdateCallback, scenario.prompt
    PROVE  PromptInv'
<1> DEFINE u == Head(updates)
           patched == [n \in Cells |-> IF n \in DOMAIN u THEN u[n] ELSE grid_msg[n]]
<1>1. /\ updates # <<>> /\ grid_msg' = IF grid_msg = NoGrid THEN NoGrid ELSE patched
      /\ updates' = Tail(updates)
      /\ UNCHANGED <<cells, static_cells, thresholds, update_region, grids, joined,
                     since_full, retuned>>
  BY DEF OccupancyGridUpdateCallback, layer_vars, node_vars
<1>2. PromptInv /\ grids = <<>> /\ Len(updates) = 1 /\ updates \in Seq(Updates)
  BY <1>1 DEF CopyInv, PromptInv, OneMessage
<1>3. updates' = <<>> /\ u \in Updates
  BY <1>1, <1>2
<1>4. Grid' = Grid
  BY <1>1 DEF Grid
<1>5. PICK S \in SUBSET Cells : u \in [S -> Int]
  BY <1>3 DEF Updates
<1> HIDE DEF u
<1>6. ASSUME since_full # -1, ~retuned
      PROVE  CopyHolds(grids, <<>>, grid_msg', update_region, Grid)
  <2>1. /\ grid_msg \in [Cells -> Int]
        /\ \A n \in Cells \ DilatedRegion(update_region) : Pending(updates, grid_msg, n) >= Grid[n]
    BY <1>2, <1>6 DEF PromptInv, CopyHolds
  <2>2. grid_msg' = patched
    BY <1>1, <2>1, NoGridIsNoCopy
  <2>3. patched \in [Cells -> Int]
    BY <1>5, <2>1
  <2>4. ASSUME NEW n \in Cells
        PROVE  Pending(<<>>, patched, n) = Pending(updates, grid_msg, n)
    BY <1>1 DEF Pending, u
  <2> HIDE DEF patched
  <2> QED BY <1>2, <2>1, <2>2, <2>3, <2>4 DEF CopyHolds
<1>7. OneMessage(grids', updates')
  BY <1>1, <1>2, <1>3 DEF OneMessage
<1> QED BY <1>1, <1>2, <1>3, <1>4, <1>6, <1>7 DEF PromptInv

LEMMA CopyNext ==
    ASSUME NothingShowsThrough
    PROVE  CopyInv /\ [Next]_vars => CopyInv'
<1> SUFFICES ASSUME CopyInv, [Next]_vars PROVE CopyInv'
  OBVIOUS
<1>0. /\ FollowInv' /\ update_region \in SUBSET Cells /\ (scenario.prompt => PromptInv)
      /\ DOMAIN StaticHeights = {} => EmptyStaticLayer(static_cells)
  BY FollowNext DEF CopyInv
<1>1. ASSUME Handled, NEW scan \in scenario.scans, NEW dt \in scenario.dts, PointCloud(scan, dt)
      PROVE  CopyInv'
  BY <1>1, CopyOfCloud
<1>2. ASSUME UNCHANGED <<cells, static_cells, thresholds, update_region, sub_vars, since_full,
                         retuned>>
      PROVE  CopyInv'
  <2>1. Grid' = Grid
    BY <1>2 DEF Grid
  <2> QED BY <1>0, <1>2, <2>1 DEF CopyInv, PromptInv, sub_vars
<1>3. ASSUME NEW scan \in scenario.clear_scans, ClearOnlyPoints(scan)
      PROVE  CopyInv'
  BY <1>2, <1>3 DEF ClearOnlyPoints, node_vars
<1>4. ASSUME NEW t \in scenario.thresholds, UpdateThresholds(t)
      PROVE  CopyInv'
  <2>1. retuned' /\ UNCHANGED <<update_region, sub_vars>>
    BY <1>4 DEF UpdateThresholds
  <2>2. ASSUME DOMAIN StaticHeights = {} PROVE EmptyStaticLayer(static_cells')
    <3>1. static_cells' = RecomputeGridDilation(static_cells, t)
      BY <1>4 DEF UpdateThresholds
    <3>2. t \in Settings /\ static_cells \in Layers
      BY ScenarioTypes DEF CopyInv, FollowInv, LayerTypes
    <3> QED BY <1>0, <2>2, <3>1, <3>2, StaysEmpty
  <2> QED BY <1>0, <2>1, <2>2 DEF CopyInv, PromptInv, sub_vars
<1>5. CASE ResetCallback
  BY <1>2, <1>5 DEF ResetCallback, layer_vars
<1>6. CASE WarmUpEnds
  BY <1>2, <1>6 DEF WarmUpEnds, layer_vars
<1>7. CASE Handled /\ Cycle
  <2>1. UNCHANGED <<scenario, static_cells>>
    BY <1>7 DEF Cycle
  <2> QED BY <1>0, <1>7, <2>1, CopyOfCycle DEF CopyInv
<1>8. CASE Join
  <2>1. ~joined /\ UNCHANGED <<update_region, scenario, static_cells>>
    BY <1>8 DEF Join, layer_vars
  <2> QED BY <1>0, <2>1 DEF CopyInv, PromptInv
<1>9. CASE OccupancyGridCallback
  <2>1. UNCHANGED <<update_region, scenario, static_cells>>
    BY <1>9 DEF OccupancyGridCallback, layer_vars
  <2> QED BY <1>0, <1>9, <2>1, CopyOfGrid DEF CopyInv
<1>10. CASE OccupancyGridUpdateCallback
  <2>1. UNCHANGED <<update_region, scenario, static_cells>>
    BY <1>10 DEF OccupancyGridUpdateCallback, layer_vars
  <2> QED BY <1>0, <1>10, <2>1, CopyOfUpdate DEF CopyInv
<1>11. CASE UNCHANGED vars
  BY <1>2, <1>11 DEF vars, layer_vars, node_vars
<1> QED BY <1>1, <1>3, <1>4, <1>5, <1>6, <1>7, <1>8, <1>9, <1>10, <1>11 DEF Next

THEOREM ObstaclesReachTheCopy ==
    ASSUME NothingShowsThrough
    PROVE  Spec => []NoObstacleMissed
<1>1. CopyInv /\ [Next]_vars => CopyInv'
  BY CopyNext
<1>2. CopyInv => NoObstacleMissed
  BY CopyIsStronger
<1> QED BY <1>1, <1>2, CopyInit, PTL DEF Spec

=============================================================================
