-------------------------- MODULE Geometry_proofs --------------------------
(***************************************************************************)
(* What is proved of the checks that cut the plane into pieces.            *)
(*                                                                         *)
(* Support tables, for any layer, boundary and order of the checks: a      *)
(* partitioned layer is the layer, and the tables of neighbours, marginal  *)
(* features, gaps and changes say what they would of the uncut layer.      *)
(* The parts: polygons and boxes; the clusters of changed features; the    *)
(* order of the tables; the cut into partitions and of the features into   *)
(* pieces; then table by table.                                            *)
(*                                                                         *)
(* Jobs of raster products, for any number of layers and any steps: the    *)
(* verdict of a check is the one on all layers, and the gap check and the  *)
(* minimum mapping unit find the missing data and the small patches that   *)
(* the whole raster has, whatever tiles they look at.                      *)
(***************************************************************************)
EXTENDS SupportTables, RasterJob, FiniteSetTheorems, FunctionTheorems, WellFoundedInduction, NaturalsInduction, TLAPS

-----------------------------------------------------------------------------
(* Polygons and boxes.                                                      *)

Smaller == {p \in Nat \X Nat : p[1] < p[2]}

(* A set of natural numbers that is not empty has a least element.          *)
LEMMA HasLeast ==
    ASSUME NEW S, S \subseteq Nat, S # {}
    PROVE  \E n \in S : \A k \in S : n <= k
<1>1. IsWellFoundedOn({p \in Nat \X Nat : p[1] < p[2]}, Nat)
  BY NatLessThanWellFounded DEF OpToRel
<1>2. IsWellFoundedOn(Smaller, Nat)
  BY <1>1 DEF Smaller
<1>3. PICK n \in S : \A k \in S : ~ (<<k, n>> \in Smaller)
  BY <1>2, WFMin
<1>4. \A k \in S : ~(k < n)
  BY <1>3 DEF Smaller
<1>5. QED
  BY <1>4

(* What a function makes of a finite set is finite.                         *)
LEMMA FiniteRange ==
    ASSUME NEW S, NEW T, IsFiniteSet(S), NEW f \in [S -> T], \A t \in T : \E x \in S : f[x] = t
    PROVE  IsFiniteSet(T)
  BY Fun_IsSurj, FS_Surjection

HasLeastOf(n) ==
    \A S \in SUBSET Int : IsFiniteSet(S) /\ Cardinality(S) = n /\ S # {} => \E m \in S : \A k \in S : m <= k

(* A finite set of integers that is not empty has a least and a greatest    *)
(* element.                                                                 *)
LEMMA FiniteHasLeast ==
    ASSUME NEW S \in SUBSET Int, IsFiniteSet(S), S # {}
    PROVE  \E m \in S : \A k \in S : m <= k
<1> DEFINE Bad == {n \in Nat : ~HasLeastOf(n)}
<1>1. Bad = {}
  <2> SUFFICES ASSUME Bad # {} PROVE FALSE
    OBVIOUS
  <2>1. PICK n \in Bad : \A k \in Bad : n <= k
    BY HasLeast
  <2>2. PICK T \in SUBSET Int : /\ IsFiniteSet(T) /\ Cardinality(T) = n /\ T # {}
                                /\ ~ \E m \in T : \A k \in T : m <= k
    BY <2>1 DEF HasLeastOf
  <2>3. PICK x \in T : TRUE
    BY <2>2
  <2>4. IsFiniteSet(T \ {x}) /\ Cardinality(T \ {x}) = n - 1
    BY <2>2, <2>3, FS_RemoveElement
  <2>5. CASE T \ {x} = {}
    <3>1. \A k \in T : x <= k
      BY <2>3, <2>5
    <3> QED
      BY <2>2, <2>3, <3>1
  <2>6. CASE T \ {x} # {}
    <3>1. n - 1 \in Nat
      BY <2>4, FS_CardinalityType
    <3>2. n - 1 \notin Bad
      BY <2>1, <3>1
    <3>3. HasLeastOf(n - 1)
      BY <3>1, <3>2
    <3>4. T \ {x} \in SUBSET Int
      BY <2>2
    <3>5. PICK m \in T \ {x} : \A k \in T \ {x} : m <= k
      BY <2>4, <2>6, <3>3, <3>4 DEF HasLeastOf
    <3>6. x \in Int /\ m \in Int
      BY <2>2, <2>3, <3>5
    <3>7. CASE x <= m
      <4>1. \A k \in T : x <= k
        BY <2>2, <2>3, <3>5, <3>6, <3>7
      <4> QED
        BY <2>2, <2>3, <4>1
    <3>8. CASE m <= x
      <4>1. \A k \in T : m <= k
        BY <2>2, <2>3, <3>5, <3>6, <3>8
      <4> QED
        BY <2>2, <3>5, <4>1
    <3> QED
      BY <3>6, <3>7, <3>8
  <2> QED
    BY <2>5, <2>6
<1>2. Cardinality(S) \in Nat
  BY FS_CardinalityType
<1>3. HasLeastOf(Cardinality(S))
  BY <1>1, <1>2
<1> QED
  BY <1>3 DEF HasLeastOf

LEMMA FiniteHasGreatest ==
    ASSUME NEW S \in SUBSET Int, IsFiniteSet(S), S # {}
    PROVE  \E m \in S : \A k \in S : k <= m
<1> DEFINE T == {-k : k \in S}
<1>0. \A k \in S : -k \in Int
  OBVIOUS
<1>1. T \in SUBSET Int /\ T # {}
  BY <1>0
<1>2. IsFiniteSet(T)
  <2> DEFINE f == [k \in S |-> -k]
  <2>1. f \in [S -> T] /\ \A t \in T : \E x \in S : f[x] = t
    OBVIOUS
  <2> HIDE DEF f, T
  <2> QED
    BY <2>1, FiniteRange
<1>3. PICK m \in T : \A k \in T : m <= k
  BY <1>1, <1>2, FiniteHasLeast
<1>4. PICK g \in S : m = -g
  OBVIOUS
<1>5. \A k \in S : k <= g
  <2> TAKE k \in S
  <2>1. -k \in T
    OBVIOUS
  <2>2. -g <= -k
    BY <1>3, <1>4, <2>1
  <2>3. g \in Int /\ k \in Int
    OBVIOUS
  <2> QED
    BY <2>2, <2>3
<1> QED
  BY <1>5

LEMMA MinMax ==
    ASSUME NEW S \in SUBSET Int, IsFiniteSet(S), S # {}
    PROVE  Min(S) \in S /\ Max(S) \in S /\ \A k \in S : Min(S) <= k /\ k <= Max(S)
<1>1. \E x \in S : \A y \in S : x <= y
  BY FiniteHasLeast
<1>2. \E x \in S : \A y \in S : x >= y
  BY FiniteHasGreatest
<1>3. Min(S) \in S /\ \A y \in S : Min(S) <= y
  BY <1>1 DEF Min
<1>4. Max(S) \in S /\ \A y \in S : Max(S) >= y
  BY <1>2 DEF Max
<1> QED
  BY <1>3, <1>4

-----------------------------------------------------------------------------
(* Polygons.                                                                *)

IsGeometry(S) == IsFiniteSet(S) /\ S \subseteq Int \X Int

\* One step further over the sides of squares.
Step(A, S) == A \union {d \in S : Sides(d) \cap A # {}}

IsReach(r, n, c, S) == r = [m \in 0 .. n |-> IF m = 0 THEN {c} ELSE Step(r[m - 1], S)]

LEMMA SidesGoBothWays ==
    ASSUME NEW c \in Int \X Int, NEW d \in Int \X Int
    PROVE  c \in Sides(d) <=> d \in Sides(c)
<1>1. c[1] \in Int /\ c[2] \in Int /\ d[1] \in Int /\ d[2] \in Int /\ c = <<c[1], c[2]>> /\ d = <<d[1], d[2]>>
  OBVIOUS
<1>2. \A i, j, k, l \in Int : <<i, j>> \in Sides(<<k, l>>) => <<k, l>> \in Sides(<<i, j>>)
  BY DEF Sides
<1> QED
  BY <1>1, <1>2

(* The walk over the sides exists, however long it is.                      *)
LEMMA ReachExists ==
    ASSUME NEW c, NEW S, NEW n \in Nat
    PROVE  \E r : IsReach(r, n, c, S)
<1> DEFINE Bad == {m \in Nat : ~ \E r : IsReach(r, m, c, S)}
<1>1. Bad = {}
  <2> SUFFICES ASSUME Bad # {} PROVE FALSE
    OBVIOUS
  <2>1. PICK m \in Bad : \A k \in Bad : m <= k
    BY HasLeast
  <2>2. CASE m = 0
    <3>1. IsReach([k \in 0 .. 0 |-> {c}], 0, c, S)
      BY DEF IsReach
    <3> QED
      BY <2>1, <2>2, <3>1
  <2>3. CASE m # 0
    <3>1. m - 1 \in Nat /\ m - 1 \notin Bad
      BY <2>1, <2>3
    <3>2. PICK r : IsReach(r, m - 1, c, S)
      BY <3>1
    <3> DEFINE q == [k \in 0 .. m |-> IF k = m THEN Step(r[m - 1], S) ELSE r[k]]
    <3>3. \A k \in 0 .. m : q[k] = IF k = 0 THEN {c} ELSE Step(q[k - 1], S)
      <4> TAKE k \in 0 .. m
      <4>1. CASE k = m
        BY <2>3, <3>1, <4>1
      <4>2. CASE k # m
        <5>1. k \in 0 .. m - 1 /\ q[k] = r[k]
          BY <3>1, <4>2
        <5>2. r[k] = IF k = 0 THEN {c} ELSE Step(r[k - 1], S)
          BY <3>2, <5>1 DEF IsReach
        <5>3. k # 0 => q[k - 1] = r[k - 1]
          BY <3>1, <4>2, <5>1
        <5> QED
          BY <5>1, <5>2, <5>3
      <4> QED
        BY <4>1, <4>2
    <3>4. q = [k \in 0 .. m |-> IF k = 0 THEN {c} ELSE Step(q[k - 1], S)]
      <4>1. q = [k \in 0 .. m |-> q[k]]
        OBVIOUS
      <4> HIDE DEF q
      <4> QED
        BY <3>3, <4>1
    <3> HIDE DEF q
    <3>5. IsReach(q, m, c, S)
      BY <3>4 DEF IsReach
    <3> QED
      BY <2>1, <3>5
  <2> QED
    BY <2>2, <2>3
<1> QED
  BY <1>1

LEMMA GrownIsReach ==
    ASSUME NEW c, NEW S, IsFiniteSet(S)
    PROVE  \E r : IsReach(r, Cardinality(S), c, S) /\ Grown(c, S) = r[Cardinality(S)]
<1>1. Cardinality(S) \in Nat
  BY FS_CardinalityType
<1> DEFINE r == CHOOSE r : r = [n \in 0 .. Cardinality(S) |->
                    IF n = 0 THEN {c} ELSE r[n - 1] \union {d \in S : Sides(d) \cap r[n - 1] # {}}]
<1>2. \E q : q = [n \in 0 .. Cardinality(S) |->
                    IF n = 0 THEN {c} ELSE q[n - 1] \union {d \in S : Sides(d) \cap q[n - 1] # {}}]
  <2>1. PICK q : IsReach(q, Cardinality(S), c, S)
    BY <1>1, ReachExists
  <2> QED
    BY <2>1 DEF IsReach, Step
<1>3. IsReach(r, Cardinality(S), c, S)
  BY <1>2 DEF IsReach, Step
<1>4. Grown(c, S) = r[Cardinality(S)]
  BY DEF Grown
<1> QED
  BY <1>3, <1>4
\* A part of S that no side leaves.
Full(T, S) == \A d \in S : Sides(d) \cap T # {} => d \in T

(* The walk stays in every part without a way out that it starts in.        *)
LEMMA ReachStays ==
    ASSUME NEW c, NEW S, NEW n \in Nat, NEW r, IsReach(r, n, c, S), NEW T, c \in T, Full(T, S)
    PROVE  \A k \in 0 .. n : r[k] \subseteq T
<1> DEFINE Bad == {k \in 0 .. n : ~(r[k] \subseteq T)}
<1>1. Bad = {}
  <2> SUFFICES ASSUME Bad # {} PROVE FALSE
    OBVIOUS
  <2>1. Bad \subseteq Nat
    OBVIOUS
  <2>2. PICK k \in Bad : \A j \in Bad : k <= j
    BY <2>1, HasLeast
  <2>3. k # 0
    BY <2>2 DEF IsReach
  <2>4. k - 1 \in 0 .. n /\ k - 1 \notin Bad
    BY <2>2, <2>3
  <2>5. r[k - 1] \subseteq T /\ r[k] = Step(r[k - 1], S)
    BY <2>2, <2>3, <2>4 DEF IsReach
  <2>6. r[k] \subseteq T
    BY <2>5 DEF Step, Full
  <2> QED
    BY <2>2, <2>6
<1> QED
  BY <1>1

LEMMA ReachGrows ==
    ASSUME NEW c, NEW S, NEW n \in Nat, NEW r, IsReach(r, n, c, S), NEW m \in 0 .. n
    PROVE  \A k \in m .. n : r[m] \subseteq r[k]
<1> DEFINE Bad == {k \in m .. n : ~(r[m] \subseteq r[k])}
<1>1. Bad = {}
  <2> SUFFICES ASSUME Bad # {} PROVE FALSE
    OBVIOUS
  <2>1. Bad \subseteq Nat
    OBVIOUS
  <2>2. PICK k \in Bad : \A j \in Bad : k <= j
    BY <2>1, HasLeast
  <2>3. k # m
    BY <2>2
  <2>4. k - 1 \in m .. n /\ k - 1 \notin Bad /\ k \in 0 .. n /\ k # 0
    BY <2>2, <2>3
  <2>5. r[m] \subseteq r[k - 1] /\ r[k] = Step(r[k - 1], S)
    BY <2>4 DEF IsReach
  <2>6. r[m] \subseteq r[k]
    BY <2>5 DEF Step
  <2> QED
    BY <2>2, <2>6
<1> QED
  BY <1>1

(* As long as there is a way out, the walk reaches one square more.         *)
LEMMA ReachCounts ==
    ASSUME NEW S, IsFiniteSet(S), NEW c \in S, NEW n \in Nat, NEW r, IsReach(r, n, c, S),
           \A k \in 0 .. n : ~Full(r[k], S)
    PROVE  \A k \in 0 .. n : r[k] \subseteq S /\ Cardinality(r[k]) >= k + 1
<1>1. \A k \in 0 .. n : r[k] \subseteq S
  BY ReachStays DEF Full
<1> DEFINE Bad == {k \in 0 .. n : ~(Cardinality(r[k]) >= k + 1)}
<1>2. Bad = {}
  <2> SUFFICES ASSUME Bad # {} PROVE FALSE
    OBVIOUS
  <2>1. Bad \subseteq Nat
    OBVIOUS
  <2>2. PICK k \in Bad : \A j \in Bad : k <= j
    BY <2>1, HasLeast
  <2>3. CASE k = 0
    <3>1. r[0] = {c}
      BY <2>2, <2>3 DEF IsReach
    <3>2. Cardinality(r[0]) = 1
      BY <3>1, FS_Singleton
    <3>3. Cardinality(r[k]) >= k + 1
      BY <2>3, <3>2
    <3> QED
      BY <2>2, <3>3
  <2>4. CASE k # 0
    <3>1. k - 1 \in 0 .. n /\ k - 1 \notin Bad
      BY <2>2, <2>4
    <3>0. Cardinality(r[k - 1]) >= (k - 1) + 1 /\ (k - 1) + 1 = k
      BY <2>2, <3>1
    <3>2. Cardinality(r[k - 1]) >= k /\ r[k] = Step(r[k - 1], S) /\ ~Full(r[k - 1], S)
      BY <2>2, <2>4, <3>0, <3>1 DEF IsReach
    <3>3. PICK d \in S : d \notin r[k - 1] /\ d \in r[k]
      BY <3>2 DEF Full, Step
    <3>4. r[k - 1] \union {d} \subseteq r[k]
      BY <3>2, <3>3 DEF Step
    <3>5. IsFiniteSet(r[k - 1]) /\ IsFiniteSet(r[k])
      BY <1>1, <2>2, <3>1, FS_Subset
    <3>6. Cardinality(r[k - 1] \union {d}) = Cardinality(r[k - 1]) + 1
      BY <3>3, <3>5, FS_AddElement
    <3>7. Cardinality(r[k - 1] \union {d}) <= Cardinality(r[k])
      BY <3>4, <3>5, FS_Subset
    <3>8. Cardinality(r[k - 1]) \in Nat /\ Cardinality(r[k]) \in Nat
      BY <3>5, FS_CardinalityType
    <3>9. Cardinality(r[k]) >= k + 1
      BY <2>2, <3>2, <3>6, <3>7, <3>8
    <3> QED
      BY <2>2, <3>9
  <2> QED
    BY <2>3, <2>4
<1> QED
  BY <1>1, <1>2

(* What is grown from a square is the least part with it no side leaves.    *)
LEMMA GrownIsLeast ==
    ASSUME NEW S, IsFiniteSet(S), NEW c \in S
    PROVE  /\ c \in Grown(c, S) /\ Grown(c, S) \subseteq S /\ Full(Grown(c, S), S)
           /\ \A T : c \in T /\ Full(T, S) => Grown(c, S) \subseteq T
<1> DEFINE n == Cardinality(S)
<1>1. n \in Nat
  BY FS_CardinalityType
<1>2. PICK r : IsReach(r, n, c, S) /\ Grown(c, S) = r[n]
  BY GrownIsReach
<1> HIDE DEF n
<1>3. n \in 0 .. n /\ 0 \in 0 .. n /\ n \in 0 .. n
  BY <1>1
<1>4. r[0] = {c}
  BY <1>2, <1>3 DEF IsReach
<1>5. c \in r[n]
  BY <1>1, <1>2, <1>3, <1>4, ReachGrows
<1>6. \A T : c \in T /\ Full(T, S) => r[n] \subseteq T
  BY <1>1, <1>2, <1>3, ReachStays
<1>7. r[n] \subseteq S
  BY <1>6 DEF Full
<1>8. Full(r[n], S)
  <2>1. PICK k \in 0 .. n : Full(r[k], S)
    <3>1. SUFFICES ASSUME \A k \in 0 .. n : ~Full(r[k], S) PROVE FALSE
      OBVIOUS
    <3>2. Cardinality(r[n]) >= n + 1
      BY <1>1, <1>2, <1>3, <3>1, ReachCounts
    <3>3. Cardinality(r[n]) <= n
      BY <1>7, FS_Subset DEF n
    <3>4. Cardinality(r[n]) \in Nat
      BY <1>7, FS_Subset, FS_CardinalityType
    <3> QED
      BY <1>1, <3>2, <3>3, <3>4
  <2>2. r[0] \subseteq r[k] /\ r[k] \subseteq r[n]
    <3>1. n \in k .. n /\ k \in 0 .. n
      BY <1>1, <2>1
    <3> QED
      BY <1>1, <1>2, <1>3, <3>1, ReachGrows
  <2>3. r[n] \subseteq r[k]
    BY <1>4, <1>6, <2>1, <2>2
  <2>4. r[n] = r[k]
    BY <2>2, <2>3
  <2> QED
    BY <2>1, <2>4
<1> QED
  BY <1>2, <1>5, <1>6, <1>7, <1>8

(* The polygons of a geometry cover it, each square once.                   *)
LEMMA PolygonsPartition ==
    ASSUME NEW S, IsGeometry(S)
    PROVE  /\ UNION Polygons(S) = S
           /\ \A P \in Polygons(S) : P # {} /\ P \subseteq S /\ IsGeometry(P)
           /\ \A P, Q \in Polygons(S) : P # Q => P \cap Q = {}
<1>1. \A c \in S : /\ c \in Grown(c, S) /\ Grown(c, S) \subseteq S /\ Full(Grown(c, S), S)
                   /\ \A T : c \in T /\ Full(T, S) => Grown(c, S) \subseteq T
  BY GrownIsLeast DEF IsGeometry
<1>2. UNION Polygons(S) = S
  BY <1>1 DEF Polygons
<1>3. \A P \in Polygons(S) : P # {} /\ P \subseteq S /\ IsGeometry(P)
  BY <1>1, FS_Subset DEF Polygons, IsGeometry
<1>4. ASSUME NEW c \in S, NEW d \in S, NEW x, x \in Grown(c, S), x \in Grown(d, S)
      PROVE  Grown(d, S) \subseteq Grown(c, S)
  <2> DEFINE P == Grown(c, S)
             T == S \ P
  <2>1. P \subseteq S /\ Full(P, S) /\ S \subseteq Int \X Int
    BY <1>1 DEF IsGeometry
  <2> HIDE DEF P
  <2>2. Full(T, S)
    <3> SUFFICES ASSUME NEW e \in S, Sides(e) \cap T # {} PROVE e \in T
      BY DEF Full
    <3>1. PICK y \in T : y \in Sides(e)
      OBVIOUS
    <3>2. e \in Sides(y)
      BY <2>1, <3>1, SidesGoBothWays
    <3>3. e \in P => y \in P
      BY <2>1, <3>1, <3>2 DEF Full
    <3> QED
      BY <3>1, <3>3
  <2>3. d \in P
    <3> SUFFICES ASSUME d \in T PROVE FALSE
      OBVIOUS
    <3>1. Grown(d, S) \subseteq T
      BY <1>1, <2>2
    <3> QED
      BY <1>4, <3>1 DEF P
  <2> QED
    BY <1>1, <2>1, <2>3 DEF P
<1>5. \A P, Q \in Polygons(S) : P # Q => P \cap Q = {}
  BY <1>4 DEF Polygons
<1> QED
  BY <1>2, <1>3, <1>5
-----------------------------------------------------------------------------
(* Boxes.                                                                   *)

OnLines(n) == \E k \in Int : n = k * GridSize

IsBox(b) ==
    /\ b \in [x1 : Int, y1 : Int, x2 : Int, y2 : Int]
    /\ b.x1 < b.x2 /\ b.y1 < b.y2
    /\ OnLines(b.x1) /\ OnLines(b.x2) /\ OnLines(b.y1) /\ OnLines(b.y2)

LEMMA DownIsAligned ==
    ASSUME NEW n \in Int
    PROVE  Down(n) \in Int /\ OnLines(Down(n)) /\ Down(n) <= n /\ n < Down(n) + GridSize
<1>1. GridSize \in Nat /\ GridSize > 0
  BY TableAssumption
<1>2. n \div GridSize \in Int
  BY <1>1
<1>3. n = GridSize * (n \div GridSize) + (n % GridSize) /\ n % GridSize \in 0 .. GridSize - 1
  BY <1>1
<1>4. Down(n) = GridSize * (n \div GridSize)
  BY <1>1, <1>2 DEF Down
<1>5. Down(n) \in Int
  BY <1>1, <1>2, <1>4
<1>6. OnLines(Down(n))
  BY <1>2 DEF OnLines, Down
<1> QED
  BY <1>1, <1>3, <1>4, <1>5, <1>6

(* Different multiples of the grid's size are that far apart at least.      *)
LEMMA AlignedApart ==
    ASSUME NEW a \in Int, NEW b \in Int, OnLines(a), OnLines(b), a < b
    PROVE  a + GridSize <= b
<1>1. GridSize \in Nat /\ GridSize > 0
  BY TableAssumption
<1>2. PICK k \in Int : a = k * GridSize
  BY DEF OnLines
<1>3. PICK l \in Int : b = l * GridSize
  BY DEF OnLines
<1>4. k < l
  <2> SUFFICES ASSUME l <= k PROVE FALSE
    OBVIOUS
  <2>1. l * GridSize <= k * GridSize
    BY <1>1
  <2> QED
    BY <1>2, <1>3, <2>1
<1>5. (k + 1) * GridSize <= l * GridSize
  BY <1>1, <1>4
<1>6. (k + 1) * GridSize = k * GridSize + GridSize
  BY <1>1
<1> QED
  BY <1>2, <1>3, <1>5, <1>6

LEMMA DownIsGreatest ==
    ASSUME NEW n \in Int, NEW a \in Int, OnLines(a), a <= n
    PROVE  a <= Down(n)
<1>1. Down(n) \in Int /\ OnLines(Down(n)) /\ n < Down(n) + GridSize /\ GridSize \in Nat
  BY DownIsAligned, TableAssumption
<1>2. Down(n) < a => Down(n) + GridSize <= a
  BY <1>1, AlignedApart
<1> QED
  BY <1>1, <1>2

LEMMA UpIsAligned ==
    ASSUME NEW n \in Int
    PROVE  Up(n) \in Int /\ OnLines(Up(n)) /\ n <= Up(n) /\ Up(n) < n + GridSize
<1>1. -n \in Int /\ GridSize \in Nat
  BY TableAssumption
<1>2. Down(-n) \in Int /\ OnLines(Down(-n)) /\ Down(-n) <= -n /\ -n < Down(-n) + GridSize
  BY <1>1, DownIsAligned
<1>3. PICK k \in Int : Down(-n) = k * GridSize
  BY <1>2 DEF OnLines
<1>4. -Down(-n) = (-k) * GridSize /\ -k \in Int
  BY <1>1, <1>3
<1>5. OnLines(Up(n))
  BY <1>4 DEF OnLines, Up
<1> QED
  BY <1>1, <1>2, <1>5 DEF Up

(* An interval on the grid is cut at a multiple of the grid's size inside   *)
(* of it, or is one cell long.                                              *)
LEMMA Centre ==
    ASSUME NEW a \in Int, NEW b \in Int, OnLines(a), OnLines(b), a < b
    PROVE  LET m == Down((a + b) \div 2)
           IN  /\ m \in Int /\ OnLines(m) /\ a <= m /\ m < b
               /\ m # a => m - a >= GridSize
               /\ m = a => b - a = GridSize
<1> DEFINE h == (a + b) \div 2
           m == Down(h)
<1>0. GridSize \in Nat /\ GridSize > 0 /\ a + GridSize <= b
  BY TableAssumption, AlignedApart
<1>1. h \in Int /\ a <= h /\ h < b /\ 2 * h <= a + b /\ a + b < 2 * h + 2
  OBVIOUS
<1> HIDE DEF h
<1>2. m \in Int /\ OnLines(m) /\ m <= h /\ a <= m /\ h < m + GridSize
  BY <1>1, DownIsAligned, DownIsGreatest
<1> HIDE DEF m
<1>3. m # a => m - a >= GridSize
  BY <1>0, <1>2, AlignedApart
<1>4. ASSUME m = a PROVE b - a = GridSize
  <2>1. OnLines(a + GridSize) /\ a + GridSize \in Int
    <3>1. PICK k \in Int : a = k * GridSize
      BY DEF OnLines
    <3>2. a + GridSize = (k + 1) * GridSize /\ k + 1 \in Int
      BY <1>0, <3>1
    <3>3. \E l \in Int : a + GridSize = l * GridSize
      BY <3>2
    <3>4. OnLines(a + GridSize)
      BY <3>3 DEF OnLines
    <3> QED
      BY <1>0, <3>4
  <2>2. b <= a + GridSize
    <3> SUFFICES ASSUME a + GridSize < b PROVE FALSE
      BY <1>0
    <3>1. a + GridSize + GridSize <= b
      BY <2>1, AlignedApart
    <3> QED
      BY <1>0, <1>1, <1>2, <1>4, <3>1
  <2> QED
    BY <1>0, <2>2
<1> QED
  BY <1>1, <1>2, <1>3, <1>4 DEF h, m

(* The halves of a box cover it, each square once, and neither is empty;    *)
(* a box without halves is one cell of the grid.                            *)
LEMMA HalvesTile ==
    ASSUME NEW b, IsBox(b), Halves(b) # {}
    PROVE  \E l, u : /\ Halves(b) = {l, u} /\ l # u /\ IsBox(l) /\ IsBox(u)
                     /\ Squares(l) \union Squares(u) = Squares(b)
                     /\ Squares(l) \cap Squares(u) = {}
                     /\ Squares(l) # {} /\ Squares(u) # {}
<1> DEFINE xc == Down((b.x1 + b.x2) \div 2)
           yc == Down((b.y1 + b.y2) \div 2)
<1>0. /\ b.x1 \in Int /\ b.x2 \in Int /\ b.y1 \in Int /\ b.y2 \in Int /\ GridSize \in Nat /\ GridSize > 0
      /\ b = [x1 |-> b.x1, y1 |-> b.y1, x2 |-> b.x2, y2 |-> b.y2]
      /\ b.x1 < b.x2 /\ b.y1 < b.y2 /\ OnLines(b.x1) /\ OnLines(b.x2) /\ OnLines(b.y1) /\ OnLines(b.y2)
  BY TableAssumption DEF IsBox
<1>1. /\ xc \in Int /\ OnLines(xc) /\ b.x1 <= xc /\ xc < b.x2 /\ (xc # b.x1 => xc - b.x1 >= GridSize)
      /\ yc \in Int /\ OnLines(yc) /\ b.y1 <= yc /\ yc < b.y2 /\ (yc # b.y1 => yc - b.y1 >= GridSize)
  BY <1>0, Centre
<1>2. Halves(b) = IF xc - b.x1 > yc - b.y1
                  THEN IF xc - b.x1 < GridSize THEN {} ELSE {[b EXCEPT !.x2 = xc], [b EXCEPT !.x1 = xc]}
                  ELSE IF yc - b.y1 < GridSize THEN {} ELSE {[b EXCEPT !.y2 = yc], [b EXCEPT !.y1 = yc]}
  BY DEF Halves
<1> HIDE DEF xc, yc
<1>3. CASE xc - b.x1 > yc - b.y1
  <2> DEFINE l == [b EXCEPT !.x2 = xc]
             u == [b EXCEPT !.x1 = xc]
  <2>1. Halves(b) = {l, u} /\ b.x1 < xc
    BY <1>0, <1>1, <1>2, <1>3
  <2>2. /\ l \in [x1 : Int, y1 : Int, x2 : Int, y2 : Int] /\ u \in [x1 : Int, y1 : Int, x2 : Int, y2 : Int]
        /\ l.x1 = b.x1 /\ l.x2 = xc /\ l.y1 = b.y1 /\ l.y2 = b.y2
        /\ u.x1 = xc /\ u.x2 = b.x2 /\ u.y1 = b.y1 /\ u.y2 = b.y2
    BY <1>0, <1>1
  <2> HIDE DEF l, u
  <2>3. IsBox(l) /\ IsBox(u) /\ l # u
    BY <1>0, <1>1, <2>1, <2>2 DEF IsBox
  <2>4. /\ (b.x1 .. b.x2 - 1) = (b.x1 .. xc - 1) \union (xc .. b.x2 - 1)
        /\ (b.x1 .. xc - 1) \cap (xc .. b.x2 - 1) = {}
        /\ b.x1 \in b.x1 .. xc - 1 /\ xc \in xc .. b.x2 - 1 /\ b.y1 \in b.y1 .. b.y2 - 1
    BY <1>0, <1>1, <2>1
  <2>5. /\ Squares(l) = (b.x1 .. xc - 1) \X (b.y1 .. b.y2 - 1)
        /\ Squares(u) = (xc .. b.x2 - 1) \X (b.y1 .. b.y2 - 1)
        /\ Squares(b) = (b.x1 .. b.x2 - 1) \X (b.y1 .. b.y2 - 1)
    BY <2>2 DEF Squares
  <2>6. /\ Squares(l) \union Squares(u) = Squares(b)
        /\ Squares(l) \cap Squares(u) = {}
    BY <2>4, <2>5
  <2>7. Squares(l) # {} /\ Squares(u) # {}
    <3>1. <<b.x1, b.y1>> \in Squares(l) /\ <<xc, b.y1>> \in Squares(u)
      BY <2>4, <2>5
    <3> QED
      BY <3>1
  <2> QED
    BY <2>1, <2>3, <2>6, <2>7
<1>4. CASE ~(xc - b.x1 > yc - b.y1)
  <2> DEFINE l == [b EXCEPT !.y2 = yc]
             u == [b EXCEPT !.y1 = yc]
  <2>1. Halves(b) = {l, u} /\ b.y1 < yc
    BY <1>0, <1>1, <1>2, <1>4
  <2>2. /\ l \in [x1 : Int, y1 : Int, x2 : Int, y2 : Int] /\ u \in [x1 : Int, y1 : Int, x2 : Int, y2 : Int]
        /\ l.x1 = b.x1 /\ l.x2 = b.x2 /\ l.y1 = b.y1 /\ l.y2 = yc
        /\ u.x1 = b.x1 /\ u.x2 = b.x2 /\ u.y1 = yc /\ u.y2 = b.y2
    BY <1>0, <1>1
  <2> HIDE DEF l, u
  <2>3. IsBox(l) /\ IsBox(u) /\ l # u
    BY <1>0, <1>1, <2>1, <2>2 DEF IsBox
  <2>4. /\ (b.y1 .. b.y2 - 1) = (b.y1 .. yc - 1) \union (yc .. b.y2 - 1)
        /\ (b.y1 .. yc - 1) \cap (yc .. b.y2 - 1) = {}
        /\ b.y1 \in b.y1 .. yc - 1 /\ yc \in yc .. b.y2 - 1 /\ b.x1 \in b.x1 .. b.x2 - 1
    BY <1>0, <1>1, <2>1
  <2>5. /\ Squares(l) = (b.x1 .. b.x2 - 1) \X (b.y1 .. yc - 1)
        /\ Squares(u) = (b.x1 .. b.x2 - 1) \X (yc .. b.y2 - 1)
        /\ Squares(b) = (b.x1 .. b.x2 - 1) \X (b.y1 .. b.y2 - 1)
    BY <2>2 DEF Squares
  <2>6. /\ Squares(l) \union Squares(u) = Squares(b)
        /\ Squares(l) \cap Squares(u) = {}
    BY <2>4, <2>5
  <2>7. Squares(l) # {} /\ Squares(u) # {}
    <3>1. <<b.x1, b.y1>> \in Squares(l) /\ <<b.x1, yc>> \in Squares(u)
      BY <2>4, <2>5
    <3> QED
      BY <3>1
  <2> QED
    BY <2>1, <2>3, <2>6, <2>7
<1> QED
  BY <1>3, <1>4

LEMMA NoHalves ==
    ASSUME NEW b, IsBox(b), Halves(b) = {}
    PROVE  b.x2 - b.x1 = GridSize /\ b.y2 - b.y1 = GridSize
<1> DEFINE xc == Down((b.x1 + b.x2) \div 2)
           yc == Down((b.y1 + b.y2) \div 2)
<1>0. /\ b.x1 \in Int /\ b.x2 \in Int /\ b.y1 \in Int /\ b.y2 \in Int /\ GridSize \in Nat /\ GridSize > 0
      /\ b.x1 < b.x2 /\ b.y1 < b.y2 /\ OnLines(b.x1) /\ OnLines(b.x2) /\ OnLines(b.y1) /\ OnLines(b.y2)
  BY TableAssumption DEF IsBox
<1>1. /\ xc \in Int /\ b.x1 <= xc /\ (xc # b.x1 => xc - b.x1 >= GridSize) /\ (xc = b.x1 => b.x2 - b.x1 = GridSize)
      /\ yc \in Int /\ b.y1 <= yc /\ (yc # b.y1 => yc - b.y1 >= GridSize) /\ (yc = b.y1 => b.y2 - b.y1 = GridSize)
  BY <1>0, Centre
<1>2. IF xc - b.x1 > yc - b.y1 THEN xc - b.x1 < GridSize ELSE yc - b.y1 < GridSize
  BY DEF Halves
<1> HIDE DEF xc, yc
<1> QED
  BY <1>0, <1>1, <1>2

(* The box of a geometry holds it, and the expanded box a margin around it. *)
LEMMA BoxHolds ==
    ASSUME NEW S, IsGeometry(S), S # {}
    PROVE  LET b == BoxOf(S)
           IN  /\ b.x1 \in Int /\ b.x2 \in Int /\ b.y1 \in Int /\ b.y2 \in Int
               /\ b.x1 < b.x2 /\ b.y1 < b.y2
               /\ \A c \in S : b.x1 <= c[1] /\ c[1] < b.x2 /\ b.y1 <= c[2] /\ c[2] < b.y2
<1> DEFINE X == {c[1] : c \in S}
           Y == {c[2] : c \in S}
<1>1. X \in SUBSET Int /\ Y \in SUBSET Int /\ X # {} /\ Y # {}
  BY DEF IsGeometry
<1>2. IsFiniteSet(X)
  <2> DEFINE f == [c \in S |-> c[1]]
  <2>1. f \in [S -> X] /\ \A t \in X : \E c \in S : f[c] = t
    OBVIOUS
  <2> HIDE DEF f, X
  <2> QED
    BY <2>1, FiniteRange DEF IsGeometry
<1>3. IsFiniteSet(Y)
  <2> DEFINE f == [c \in S |-> c[2]]
  <2>1. f \in [S -> Y] /\ \A t \in Y : \E c \in S : f[c] = t
    OBVIOUS
  <2> HIDE DEF f, Y
  <2> QED
    BY <2>1, FiniteRange DEF IsGeometry
<1>4. \A c \in S : c[1] \in X /\ c[2] \in Y
  OBVIOUS
<1>5. BoxOf(S) = [x1 |-> Min(X), y1 |-> Min(Y), x2 |-> Max(X) + 1, y2 |-> Max(Y) + 1]
  BY DEF BoxOf
<1> HIDE DEF X, Y
<1>6. /\ Min(X) \in Int /\ Max(X) \in Int /\ \A k \in X : k \in Int /\ Min(X) <= k /\ k <= Max(X)
      /\ Min(Y) \in Int /\ Max(Y) \in Int /\ \A k \in Y : k \in Int /\ Min(Y) <= k /\ k <= Max(Y)
  BY <1>1, <1>2, <1>3, MinMax
<1>7. Min(X) <= Max(X) /\ Min(Y) <= Max(Y)
  <2>1. PICK x \in X, y \in Y : TRUE
    BY <1>1
  <2> QED
    BY <1>6, <2>1
<1> QED
  BY <1>4, <1>5, <1>6, <1>7

LEMMA ExpandedBox ==
    ASSUME NEW S, IsGeometry(S), S # {}
    PROVE  /\ IsBox(ExpandBox(BoxOf(S)))
           /\ S \subseteq Squares(ExpandBox(BoxOf(S)))
           /\ \A c \in S : Sides(c) \subseteq Squares(ExpandBox(BoxOf(S)))
           /\ \A c \in S : Around(c) \subseteq Squares(ExpandBox(BoxOf(S)))
<1> DEFINE b == BoxOf(S)
           e == ExpandBox(b)
<1>0. GridSize \in Nat /\ GridSize > 0
  BY TableAssumption
<1>1. /\ b.x1 \in Int /\ b.x2 \in Int /\ b.y1 \in Int /\ b.y2 \in Int
      /\ b.x1 < b.x2 /\ b.y1 < b.y2
      /\ \A c \in S : b.x1 <= c[1] /\ c[1] < b.x2 /\ b.y1 <= c[2] /\ c[2] < b.y2
  BY BoxHolds
<1>2. e = [x1 |-> Down(b.x1 - GridSize), y1 |-> Down(b.y1 - GridSize), x2 |-> Up(b.x2 + GridSize), y2 |-> Up(b.y2 + GridSize)]
  BY DEF ExpandBox
<1> HIDE DEF b, e
<1>3. /\ Down(b.x1 - GridSize) \in Int /\ OnLines(Down(b.x1 - GridSize)) /\ Down(b.x1 - GridSize) <= b.x1 - GridSize
      /\ Down(b.y1 - GridSize) \in Int /\ OnLines(Down(b.y1 - GridSize)) /\ Down(b.y1 - GridSize) <= b.y1 - GridSize
      /\ Up(b.x2 + GridSize) \in Int /\ OnLines(Up(b.x2 + GridSize)) /\ Up(b.x2 + GridSize) >= b.x2 + GridSize
      /\ Up(b.y2 + GridSize) \in Int /\ OnLines(Up(b.y2 + GridSize)) /\ Up(b.y2 + GridSize) >= b.y2 + GridSize
  BY <1>0, <1>1, DownIsAligned, UpIsAligned
<1>4. /\ e \in [x1 : Int, y1 : Int, x2 : Int, y2 : Int]
      /\ e.x1 \in Int /\ e.x2 \in Int /\ e.y1 \in Int /\ e.y2 \in Int
      /\ e.x1 <= b.x1 - 1 /\ e.y1 <= b.y1 - 1 /\ e.x2 >= b.x2 + 1 /\ e.y2 >= b.y2 + 1
      /\ OnLines(e.x1) /\ OnLines(e.x2) /\ OnLines(e.y1) /\ OnLines(e.y2)
  BY <1>0, <1>1, <1>2, <1>3
<1>5. IsBox(e)
  BY <1>1, <1>4 DEF IsBox
<1>6. \A c \in S : \A i, j \in -1 .. 1 : <<c[1] + i, c[2] + j>> \in Squares(e)
  <2> SUFFICES ASSUME NEW c \in S, NEW i \in -1 .. 1, NEW j \in -1 .. 1
               PROVE  <<c[1] + i, c[2] + j>> \in Squares(e)
    OBVIOUS
  <2>1. c[1] \in Int /\ c[2] \in Int
    BY DEF IsGeometry
  <2>2. b.x1 <= c[1] /\ c[1] < b.x2 /\ b.y1 <= c[2] /\ c[2] < b.y2
    BY <1>1
  <2>3. c[1] + i \in e.x1 .. e.x2 - 1 /\ c[2] + j \in e.y1 .. e.y2 - 1
    BY <1>1, <1>4, <2>1, <2>2
  <2> QED
    BY <2>3 DEF Squares
<1>7. \A c \in S : Around(c) \subseteq Squares(e)
  <2> SUFFICES ASSUME NEW c \in S, NEW d \in Around(c) PROVE d \in Squares(e)
    OBVIOUS
  <2>1. PICK i \in -1 .. 1, j \in -1 .. 1 : d = <<c[1] + i, c[2] + j>>
    BY DEF Around
  <2> QED
    BY <1>6, <2>1
<1>8. \A c \in S : c \in Around(c) /\ Sides(c) \subseteq Around(c)
  <2> SUFFICES ASSUME NEW c \in S PROVE c \in Around(c) /\ Sides(c) \subseteq Around(c)
    OBVIOUS
  <2>1. c[1] \in Int /\ c[2] \in Int /\ c = <<c[1], c[2]>>
    BY DEF IsGeometry
  <2>2. \A i, j \in -1 .. 1 : <<c[1] + i, c[2] + j>> \in Around(c)
    BY DEF Around
  <2>3. /\ c[1] - 1 = c[1] + (-1) /\ c[2] - 1 = c[2] + (-1) /\ c[1] = c[1] + 0 /\ c[2] = c[2] + 0
        /\ -1 \in -1 .. 1 /\ 0 \in -1 .. 1 /\ 1 \in -1 .. 1
    BY <2>1
  <2>4. c \in Around(c)
    BY <2>1, <2>2, <2>3
  <2>5. /\ <<c[1] + 1, c[2]>> \in Around(c) /\ <<c[1] - 1, c[2]>> \in Around(c)
        /\ <<c[1], c[2] + 1>> \in Around(c) /\ <<c[1], c[2] - 1>> \in Around(c)
    BY <2>2, <2>3
  <2> QED
    BY <2>4, <2>5 DEF Sides
<1> QED
  BY <1>5, <1>7, <1>8 DEF b, e

(* The boxes of two geometries with a common square or side meet.           *)
LEMMA TouchingBoxesMeet ==
    ASSUME NEW P, NEW Q, IsGeometry(P), IsGeometry(Q), NEW c \in P, NEW d \in Q, d = c \/ d \in Sides(c)
    PROVE  BoxesMeet(P, Q)
<1> DEFINE b == BoxOf(P)
           e == BoxOf(Q)
<1>1. /\ b.x1 \in Int /\ b.x2 \in Int /\ b.y1 \in Int /\ b.y2 \in Int
      /\ b.x1 <= c[1] /\ c[1] < b.x2 /\ b.y1 <= c[2] /\ c[2] < b.y2
  BY BoxHolds
<1>2. /\ e.x1 \in Int /\ e.x2 \in Int /\ e.y1 \in Int /\ e.y2 \in Int
      /\ e.x1 <= d[1] /\ d[1] < e.x2 /\ e.y1 <= d[2] /\ d[2] < e.y2
  BY BoxHolds
<1> HIDE DEF b, e
<1>3. c[1] \in Int /\ c[2] \in Int /\ d[1] \in Int /\ d[2] \in Int
  BY DEF IsGeometry
<1>4. /\ d[1] \in {c[1] - 1, c[1], c[1] + 1} /\ d[2] \in {c[2] - 1, c[2], c[2] + 1}
  BY DEF Sides
<1>5. b.x1 <= e.x2 /\ e.x1 <= b.x2 /\ b.y1 <= e.y2 /\ e.y1 <= b.y2
  BY <1>1, <1>2, <1>3, <1>4
<1> QED
  BY <1>5 DEF BoxesMeet, b, e

-----------------------------------------------------------------------------
(* The clusters of changed features (union-find).                           *)

(* Letting all the nodes passed point to the root (find) leaves the closed *)
(* sets what they were, and the root a root.                               *)
LEMMA Compression ==
    ASSUME ClusterTypes, LinksGoDown, WalkInv, at \in Known, AtRoot, NEW S \in SUBSET Fid
    PROVE  /\ ClosedUp(S) <=> \A x \in Known : x \in S <=> Compressed[x] \in S
           /\ Compressed \in [Known -> Known]
           /\ \A x \in Known : Compressed[x] <= x
           /\ \A x \in Known : parent[x] = x => Compressed[x] = x
           /\ \A x \in trail : Compressed[x] = at
<1>1. /\ trail \subseteq Known /\ Known \subseteq Nat /\ parent \in [Known -> Known]
      /\ \A x \in trail : at < x /\ parent[x] # x /\ parent[x] \in trail \union {at}
  BY FidAssumption DEF ClusterTypes, WalkInv
<1>2. Compressed \in [Known -> Known]
  BY <1>1 DEF Compressed
<1>3. \A x \in Known : Compressed[x] = IF x \in trail THEN at ELSE parent[x]
  BY DEF Compressed
<1>4. ASSUME ClosedUp(S), NEW x \in Known PROVE x \in S <=> Compressed[x] \in S
  BY <1>3, <1>4 DEF ClosedUp, WalkInv
<1>5. ASSUME \A x \in Known : x \in S <=> Compressed[x] \in S PROVE ClosedUp(S)
  <2> SUFFICES ASSUME NEW x \in Known PROVE x \in S <=> parent[x] \in S
    BY DEF ClosedUp
  <2>1. CASE x \notin trail
    BY <1>3, <1>5, <2>1
  <2>2. CASE x \in trail
    <3>1. x \in S <=> at \in S
      BY <1>3, <1>5, <2>2
    <3>2. parent[x] = at \/ parent[x] \in trail
      BY <1>1, <2>2
    <3>3. \A y \in trail : y \in S <=> at \in S
      BY <1>1, <1>3, <1>5
    <3>4. QED
      BY <3>1, <3>2, <3>3
  <2>3. QED
    BY <2>1, <2>2
<1>6. \A x \in Known : Compressed[x] <= x
  <2> SUFFICES ASSUME NEW x \in Known PROVE Compressed[x] <= x
    OBVIOUS
  <2>1. at \in Nat /\ x \in Nat /\ parent[x] <= x
    BY <1>1 DEF LinksGoDown
  <2>2. CASE x \in trail
    BY <1>1, <1>3, <2>1, <2>2
  <2>3. CASE x \notin trail
    BY <1>3, <2>1, <2>3
  <2>4. QED
    BY <2>2, <2>3
<1>7. \A x \in Known : parent[x] = x => Compressed[x] = x
  BY <1>1, <1>3
<1>8. \A x \in trail : Compressed[x] = at
  BY <1>1, <1>3
<1>9. QED
  BY <1>2, <1>4, <1>5, <1>6, <1>7, <1>8

(* Linking two roots joins the closed sets that hold both of them or none. *)
LEMMA Linking ==
    ASSUME NEW K \in SUBSET Nat, NEW links \in [K -> K], NEW a \in K, NEW b \in K,
           links[a] = a, links[b] = b, a # b, \A x \in K : links[x] <= x, NEW S
    PROVE  /\ Linked(links, a, b) \in [K -> K]
           /\ \A x \in K : Linked(links, a, b)[x] <= x
           /\ (\A x \in K : x \in S <=> Linked(links, a, b)[x] \in S) <=>
                 (a \in S <=> b \in S) /\ (\A x \in K : x \in S <=> links[x] \in S)
<1> DEFINE small == IF a < b THEN a ELSE b
           large == IF a < b THEN b ELSE a
<1>1. Linked(links, a, b) = [links EXCEPT ![large] = small]
  BY DEF Linked
<1>2. {small, large} = {a, b} /\ small < large /\ small \in K /\ large \in K
  OBVIOUS
<1>3. links[large] = large /\ links[small] = small
  OBVIOUS
<1> HIDE DEF small, large
<1>4. \A x \in K : Linked(links, a, b)[x] = IF x = large THEN small ELSE links[x]
  BY <1>1, <1>2
<1>5. \A x \in K : Linked(links, a, b)[x] <= x
  <2> SUFFICES ASSUME NEW x \in K PROVE Linked(links, a, b)[x] <= x
    OBVIOUS
  <2>1. x \in Nat /\ small \in Nat /\ large \in Nat /\ links[x] <= x
    BY <1>2
  <2>2. QED
    BY <1>2, <1>4, <2>1
<1>6. Linked(links, a, b) \in [K -> K]
  BY <1>1, <1>2
<1>7. (a \in S <=> b \in S) <=> (large \in S <=> small \in S)
  BY <1>2
<1>8. QED
  BY <1>2, <1>3, <1>4, <1>5, <1>6, <1>7

-----------------------------------------------------------------------------
(* Each step preserves the invariant.                                      *)
LEMMA SelectsPairs ==
    ASSUME ClusterInv, NEW R \in SUBSET Pair, SelectPairs(R)
    PROVE  ClusterInv'
<1>1. /\ rows' = R /\ todo' = R /\ parent' = [x \in {} |-> x] /\ trail' = {} /\ left' = {}
      /\ stage' = IF R = {} THEN "filled" ELSE "pairs"
  BY DEF SelectPairs
<1>2. Known' = {}
  BY <1>1 DEF Known
<1>3. ClusterTypes'
  <2>1. parent' \in [Known' -> Known']
    BY <1>1, <1>2
  <2>2. QED
    BY <1>1, <1>2, <2>1 DEF ClusterTypes
<1>4. LinksGoDown' /\ FlatInv'
  BY <1>1, <1>2 DEF LinksGoDown, FlatInv
<1>5. Sound' /\ Complete'
  BY <1>1, <1>2 DEF Sound, Complete, Closed, ClosedUp
<1>6. WalkInv'
  BY <1>1 DEF WalkInv
<1>7. QED
  BY <1>3, <1>4, <1>5, <1>6 DEF ClusterInv

LEMMA BeginsUnion ==
    ASSUME ClusterInv, BeginUnion
    PROVE  ClusterInv'
<1> USE DEF ClusterInv
<1>1. PICK p \in todo :
         /\ pair' = p
         /\ parent' = [x \in Known \union {p[1], p[2]} |-> IF x \in Known THEN parent[x] ELSE x]
         /\ at' = p[1]
  BY DEF BeginUnion
<1>2. /\ stage = "pairs" /\ stage' = "first" /\ trail' = {}
      /\ rows' = rows /\ todo' = todo /\ root_i' = root_i /\ left' = left
  BY DEF BeginUnion
<1>3. p[1] \in Fid /\ p[2] \in Fid
  BY DEF ClusterTypes, Pair
<1>4. Known' = Known \union {p[1], p[2]}
  BY <1>1 DEF Known
<1>5. /\ \A x \in Known : parent'[x] = parent[x] /\ parent[x] \in Known
      /\ \A x \in Known' \ Known : parent'[x] = x
  BY <1>1, <1>4 DEF ClusterTypes
<1>6. ASSUME NEW S PROVE ClosedUp(S)' <=> ClosedUp(S)
  BY <1>4, <1>5 DEF ClosedUp
<1>7. ClusterTypes'
  <2>1. parent' \in [Known' -> Known']
    BY <1>1, <1>4, <1>5
  <2>2. Known' \subseteq Fid
    BY <1>3, <1>4 DEF ClusterTypes
  <2>3. QED
    BY <1>1, <1>2, <1>4, <2>1, <2>2 DEF ClusterTypes
<1>8. LinksGoDown'
  BY <1>3, <1>4, <1>5, FidAssumption DEF LinksGoDown, ClusterTypes
<1>9. Sound' /\ Complete'
  BY <1>2, <1>6 DEF Sound, Complete, Closed
<1>10. WalkInv' /\ FlatInv'
  BY <1>1, <1>2 DEF WalkInv, FlatInv
<1>11. QED
  BY <1>7, <1>8, <1>9, <1>10

LEMMA Climbs ==
    ASSUME ClusterInv, Climb
    PROVE  ClusterInv'
<1> USE DEF ClusterInv
<1>1. /\ stage \in {"first", "second", "flatten"} /\ parent[at] # at
      /\ trail' = trail \union {at} /\ at' = parent[at]
      /\ rows' = rows /\ todo' = todo /\ parent' = parent /\ stage' = stage
      /\ pair' = pair /\ root_i' = root_i /\ left' = left
  BY DEF Climb, AtRoot
<1>2. Known' = Known /\ at \in Known /\ at' \in Known /\ Known \subseteq Nat /\ trail \subseteq Known
  BY <1>1, FidAssumption DEF ClusterTypes, Known
<1>3. at' < at
  BY <1>1, <1>2 DEF LinksGoDown
<1>4. ASSUME NEW S PROVE ClosedUp(S)' <=> ClosedUp(S)
  BY <1>1, <1>2 DEF ClosedUp
<1>5. ClusterTypes' /\ LinksGoDown'
  BY <1>1, <1>2 DEF ClusterTypes, LinksGoDown
<1>6. Sound' /\ Complete'
  BY <1>1, <1>4 DEF Sound, Complete, Closed
<1>7. WalkInv'
  <2>1. \A x \in trail' : at' < x /\ parent'[x] # x /\ parent'[x] \in trail' \union {at'}
    <3> SUFFICES ASSUME NEW x \in trail'
                 PROVE  at' < x /\ parent'[x] # x /\ parent'[x] \in trail' \union {at'}
      OBVIOUS
    <3>1. CASE x = at
      BY <1>1, <1>3, <3>1
    <3>2. CASE x \in trail
      <4>1. at < x /\ parent[x] # x /\ parent[x] \in trail \union {at}
        BY <3>2 DEF WalkInv
      <4>2. at' < x
        BY <1>2, <1>3, <3>2, <4>1
      <4>3. QED
        BY <1>1, <4>1, <4>2
    <3>3. QED
      BY <1>1, <3>1, <3>2
  <2>2. ASSUME NEW S \in SUBSET Fid, ClosedUp(S)' PROVE at \in S <=> at' \in S
    BY <1>1, <1>2, <1>4, <2>2 DEF ClosedUp
  <2>3. ASSUME NEW S \in SUBSET Fid, ClosedUp(S)'
        PROVE  /\ \A x \in trail' : x \in S <=> at' \in S
               /\ stage = "first" => (pair[1] \in S <=> at' \in S)
               /\ stage = "second" => (pair[2] \in S <=> at' \in S)
               /\ stage = "second" => (pair[1] \in S <=> root_i \in S)
    BY <1>1, <1>4, <2>2, <2>3 DEF WalkInv
  <2>4. stage = "second" => root_i \in Known /\ parent[root_i] = root_i
    BY DEF WalkInv
  <2>5. QED
    BY <1>1, <1>2, <2>1, <2>3, <2>4 DEF WalkInv
<1>8. FlatInv'
  BY <1>1, <1>2 DEF FlatInv
<1>9. QED
  BY <1>5, <1>6, <1>7, <1>8

(* The facts of Compression where a walk has come to its root.             *)
LEMMA Flattened ==
    ASSUME ClusterInv, at \in Known, AtRoot
    PROVE  /\ Compressed \in [Known -> Known]
           /\ \A x \in Known : Compressed[x] <= x
           /\ \A x \in Known : parent[x] = x => Compressed[x] = x
           /\ \A x \in trail : Compressed[x] = at
           /\ \A S \in SUBSET Fid : ClosedUp(S) <=> \A x \in Known : x \in S <=> Compressed[x] \in S
  BY Compression DEF ClusterInv

LEMMA FindsFirst ==
    ASSUME ClusterInv, FirstFound
    PROVE  ClusterInv'
<1> USE DEF ClusterInv
<1>1. /\ stage = "first" /\ parent[at] = at
      /\ parent' = Compressed /\ root_i' = at /\ at' = pair[2] /\ trail' = {} /\ stage' = "second"
      /\ rows' = rows /\ todo' = todo /\ pair' = pair /\ left' = left
  BY DEF FirstFound, AtRoot
<1>2. at \in Known /\ AtRoot
  BY <1>1 DEF ClusterTypes, FirstFound
<1>3. Known' = Known
  BY <1>1, <1>2, Flattened DEF Known
<1>4. ASSUME NEW S \in SUBSET Fid PROVE ClosedUp(S)' <=> ClosedUp(S)
  BY <1>1, <1>2, <1>3, Flattened DEF ClosedUp
<1>5. ClusterTypes' /\ LinksGoDown'
  BY <1>1, <1>2, <1>3, Flattened DEF ClusterTypes, LinksGoDown
<1>6. Sound' /\ Complete'
  BY <1>1, <1>4 DEF Sound, Complete, Closed
<1>7. parent'[root_i'] = root_i' /\ root_i' \in Known'
  BY <1>1, <1>2, <1>3, Flattened
<1>8. WalkInv'
  BY <1>1, <1>4, <1>7 DEF WalkInv
<1>9. FlatInv'
  BY <1>1 DEF FlatInv
<1>10. QED
  BY <1>5, <1>6, <1>8, <1>9

LEMMA FindsSecond ==
    ASSUME ClusterInv, SecondFound
    PROVE  ClusterInv'
<1> USE DEF ClusterInv
<1> DEFINE links == IF root_i = at THEN Compressed ELSE Linked(Compressed, root_i, at)
<1>1. /\ stage = "second" /\ AtRoot /\ parent' = links /\ todo' = todo \ {pair}
      /\ trail' = {} /\ rows' = rows /\ pair' = pair /\ root_i' = root_i
  BY DEF SecondFound
<1>2. \/ todo' # {} /\ stage' = "pairs" /\ at' = at /\ left' = left
      \/ todo' = {} /\ stage' = "flatten" /\ at' \in Known /\ left' = Known \ {at'}
  BY DEF SecondFound
<1>3. /\ at \in Known /\ root_i \in Known /\ pair \in todo
      /\ parent[at] = at /\ parent[root_i] = root_i /\ Known \subseteq Fid /\ Known \subseteq Nat
  BY <1>1, FidAssumption DEF ClusterTypes, WalkInv, AtRoot
<1>4. /\ Compressed \in [Known -> Known]
      /\ \A x \in Known : Compressed[x] <= x
      /\ Compressed[at] = at /\ Compressed[root_i] = root_i
  BY <1>1, <1>3, Flattened
<1>5. /\ links \in [Known -> Known]
      /\ \A x \in Known : links[x] <= x
      /\ \A S : (\A x \in Known : x \in S <=> links[x] \in S) <=>
                 (root_i \in S <=> at \in S) /\ (\A x \in Known : x \in S <=> Compressed[x] \in S)
  <2>1. CASE root_i = at
    BY <1>4, <2>1
  <2>2. CASE root_i # at
    <3>1. links = Linked(Compressed, root_i, at)
      BY <2>2
    <3> HIDE DEF links
    <3>2. QED
      BY <1>3, <1>4, <2>2, <3>1, Linking
  <2>3. QED
    BY <2>1, <2>2
<1> HIDE DEF links
<1>6. Known' = Known
  BY <1>1, <1>5 DEF Known
<1>7. ASSUME NEW S \in SUBSET Fid
      PROVE  ClosedUp(S)' <=> ClosedUp(S) /\ (root_i \in S <=> at \in S)
  <2>1. ClosedUp(S) <=> \A x \in Known : x \in S <=> Compressed[x] \in S
    BY <1>1, <1>3, Flattened
  <2>2. ClosedUp(S)' <=> \A x \in Known : x \in S <=> links[x] \in S
    BY <1>1, <1>6 DEF ClosedUp
  <2>3. QED
    BY <1>5, <2>1, <2>2
<1>8. ASSUME NEW S \in SUBSET Fid, ClosedUp(S)
      PROVE  (root_i \in S <=> at \in S) <=> (pair[1] \in S <=> pair[2] \in S)
  BY <1>1, <1>8 DEF WalkInv
<1>9. ASSUME NEW S \in SUBSET Fid
      PROVE  Closed(S, rows' \ todo') <=> Closed(S, rows \ todo) /\ (pair[1] \in S <=> pair[2] \in S)
  <2>1. rows' \ todo' = (rows \ todo) \union {pair}
    BY <1>1, <1>3 DEF ClusterTypes
  <2>2. QED
    BY <2>1 DEF Closed
<1>10. ClusterTypes' /\ LinksGoDown'
  <2>1. ClusterTypes'
    BY <1>1, <1>2, <1>3, <1>5, <1>6 DEF ClusterTypes
  <2>2. QED
    BY <2>1, <1>1, <1>5, <1>6 DEF LinksGoDown
<1>11. Sound'
  <2> SUFFICES ASSUME NEW S \in SUBSET Fid, Closed(S, rows' \ todo') PROVE ClosedUp(S)'
    BY DEF Sound, Closed
  <2>1. ClosedUp(S)
    BY <1>9 DEF Sound
  <2>2. QED
    BY <1>7, <1>8, <1>9, <2>1
<1>12. Complete'
  <2> SUFFICES ASSUME NEW S \in SUBSET Fid, ClosedUp(S)' PROVE Closed(S, rows' \ todo')
    BY DEF Complete, Closed
  <2>1. ClosedUp(S) /\ (root_i \in S <=> at \in S)
    BY <1>7
  <2>2. QED
    BY <1>8, <1>9, <2>1 DEF Complete
<1>13. WalkInv'
  BY <1>1, <1>2 DEF WalkInv
<1>14. FlatInv'
  BY <1>2, <1>6 DEF FlatInv
<1>15. QED
  BY <1>10, <1>11, <1>12, <1>13, <1>14

LEMMA LooksUp ==
    ASSUME ClusterInv, LookedUp
    PROVE  ClusterInv'
<1> USE DEF ClusterInv
<1>1. /\ stage = "flatten" /\ AtRoot /\ parent' = Compressed /\ trail' = {}
      /\ rows' = rows /\ todo' = todo /\ pair' = pair /\ root_i' = root_i
  BY DEF LookedUp
<1>2. \/ left = {} /\ stage' = "filled" /\ at' = at /\ left' = left
      \/ stage' = "flatten" /\ at' \in left /\ left' = left \ {at'}
  BY <1>1 DEF LookedUp
<1>3. at \in Known /\ parent[at] = at
  BY <1>1 DEF ClusterTypes, AtRoot
<1>4. Known' = Known
  BY <1>1, <1>3, Flattened DEF Known
<1>5. ASSUME NEW S \in SUBSET Fid PROVE ClosedUp(S)' <=> ClosedUp(S)
  BY <1>1, <1>3, <1>4, Flattened DEF ClosedUp
<1>6. ClusterTypes' /\ LinksGoDown'
  BY <1>1, <1>2, <1>3, <1>4, Flattened DEF ClusterTypes, LinksGoDown
<1>7. Sound' /\ Complete'
  BY <1>1, <1>5 DEF Sound, Complete, Closed
<1>8. WalkInv'
  BY <1>1, <1>2 DEF WalkInv
<1>9. ASSUME NEW x \in Known, x \notin left PROVE parent'[parent'[x]] = parent'[x]
  <2>1. Compressed[at] = at
    BY <1>1, <1>3, Flattened
  <2>2. CASE x \in trail \union {at}
    BY <1>1, <1>3, <2>1, <2>2, Flattened
  <2>3. CASE x \notin trail \union {at}
    <3>1. parent[parent[x]] = parent[x]
      BY <1>1, <1>9, <2>3 DEF FlatInv
    <3>2. parent[x] \in Known /\ Compressed[x] = parent[x]
      BY <2>3 DEF ClusterTypes, Compressed
    <3>3. Compressed[parent[x]] = parent[x]
      BY <1>1, <1>3, <3>1, <3>2, Flattened
    <3>4. QED
      BY <1>1, <3>2, <3>3
  <2>4. QED
    BY <2>2, <2>3
<1>10. FlatInv'
  BY <1>1, <1>2, <1>4, <1>9 DEF FlatInv
<1>11. QED
  BY <1>6, <1>7, <1>8, <1>10

-----------------------------------------------------------------------------
LEMMA NoForestIsConsistent == NoForest => ClusterInv
<1> SUFFICES ASSUME NoForest PROVE ClusterInv
  OBVIOUS
<1>1. /\ rows = {} /\ todo = {} /\ parent = [x \in {} |-> x] /\ stage = "none"
      /\ trail = {} /\ left = {}
  BY DEF NoForest
<1>2. Known = {}
  BY <1>1 DEF Known
<1>3. parent \in [Known -> Known]
  BY <1>1, <1>2
<1>4. ClusterTypes
  BY <1>1, <1>2, <1>3 DEF ClusterTypes
<1>5. LinksGoDown /\ FlatInv /\ Sound /\ Complete
  BY <1>1, <1>2 DEF LinksGoDown, FlatInv, Sound, Complete, Closed, ClosedUp
<1>6. WalkInv
  BY <1>1 DEF WalkInv
<1>7. QED
  BY <1>4, <1>5, <1>6 DEF ClusterInv

LEMMA ClusterStep == ClusterInv /\ [ClusterNext]_forest => ClusterInv'
<1> SUFFICES ASSUME ClusterInv, [ClusterNext]_forest PROVE ClusterInv'
  OBVIOUS
<1>1. ASSUME NEW R \in SUBSET Pair, SelectPairs(R) PROVE ClusterInv'
  BY <1>1, SelectsPairs
<1>2. CASE BeginUnion
  BY <1>2, BeginsUnion
<1>3. CASE Climb
  BY <1>3, Climbs
<1>4. CASE FirstFound
  BY <1>4, FindsFirst
<1>5. CASE SecondFound
  BY <1>5, FindsSecond
<1>6. CASE LookedUp
  BY <1>6, LooksUp
<1>7. CASE UNCHANGED forest
  BY <1>7 DEF forest, ClusterInv, ClusterTypes, LinksGoDown, Sound, Complete, WalkInv, FlatInv,
              Closed, ClosedUp, Known
<1>8. QED
  BY <1>1, <1>2, <1>3, <1>4, <1>5, <1>6, <1>7 DEF ClusterNext, MergeStep

(* The forest, the pairs merged so far and the walk of find() agree at     *)
(* every moment, for any features and any rows of the SELECT.              *)
THEOREM ClusterInvariant == ClusterSpec => []ClusterInv
  BY NoForestIsConsistent, ClusterStep, PTL DEF ClusterSpec

(* Each root stands for the features its pairs join.                       *)
LEMMA FilledIsTrue == ClusterInv => ClustersAreTrue
<1> SUFFICES ASSUME ClusterInv, stage = "filled", NEW x \in Known, NEW y \in Known
             PROVE  parent[x] = parent[y] <=> Together(x, y, rows)
  BY DEF ClustersAreTrue
<1>1. /\ rows \ todo = rows /\ Known \subseteq Fid
      /\ \A z \in Known : parent[z] \in Known /\ parent[parent[z]] = parent[z]
  BY DEF ClusterInv, ClusterTypes, FlatInv
<1>2. ASSUME parent[x] = parent[y], NEW S \in SUBSET Fid, Closed(S, rows)
      PROVE  x \in S <=> y \in S
  <2>1. ClosedUp(S)
    BY <1>1, <1>2 DEF ClusterInv, Sound
  <2>2. QED
    BY <1>2, <2>1 DEF ClosedUp
<1>3. ASSUME Together(x, y, rows) PROVE parent[x] = parent[y]
  <2> DEFINE S == {z \in Known : parent[z] = parent[x]}
  <2>1. S \in SUBSET Fid /\ ClosedUp(S)
    BY <1>1 DEF ClosedUp
  <2>2. Closed(S, rows)
    BY <1>1, <2>1 DEF ClusterInv, Complete
  <2>3. x \in S <=> y \in S
    BY <1>3, <2>1, <2>2 DEF Together
  <2>4. QED
    BY <2>3
<1>4. QED
  BY <1>2, <1>3 DEF Together

(* Written to the meta table, two features have one cluster identifier     *)
(* exactly when a chain of pairs joins them.                               *)
THEOREM ClustersAreWhatPairsJoin == ClusterSpec => []ClustersAreTrue
  BY FilledIsTrue, ClusterInvariant, PTL

(* The identifier of a cluster is the least feature in it.                 *)
THEOREM ClustersAreNamedAfterLeast == ClusterSpec => []SmallestIsRoot
<1>1. ClusterInv => SmallestIsRoot
  <2> SUFFICES ASSUME ClusterInv, stage = "filled", NEW x \in Known
               PROVE  parent[x] <= x /\ Together(x, parent[x], rows)
    BY DEF SmallestIsRoot
  <2>1. rows \ todo = rows /\ parent[x] <= x
    BY DEF ClusterInv, ClusterTypes, LinksGoDown
  <2>2. ASSUME NEW S \in SUBSET Fid, Closed(S, rows) PROVE x \in S <=> parent[x] \in S
    BY <2>1, <2>2 DEF ClusterInv, Sound, ClosedUp
  <2>3. QED
    BY <2>1, <2>2 DEF Together
<1>2. QED
  BY <1>1, ClusterInvariant, PTL

-----------------------------------------------------------------------------
(* The order in which tables are made.                                      *)

Cutting == {"npoints", "split", "fill", "delete"}
Counting == {"initial", "final", "area"}

\* A table is made after those it is computed from, and only once.
OrderInv ==
    /\ layer \in Layer /\ boundary \in Boundary
    /\ asks \in Seq({"neighbour", "marginal", "gap", "change"})
    /\ made \subseteq Table
    /\ phase \in {"idle", "subtract"} \union Cutting \union Counting
    /\ made # {} => "partition" \in made
    /\ "exterior" \in made => "interior" \in made
    /\ "marginal" \in made => "exterior" \in made /\ "meta" \in made
    /\ "gap" \in made => "interior" \in made
    /\ "change" \in made => "neighbour" \in made /\ "meta" \in made
    /\ phase \in Cutting => made = {}
    /\ phase = "subtract" => "interior" \in made /\ "gap" \notin made
    /\ phase \in Counting => "neighbour" \in made /\ "meta" \in made /\ "change" \notin made

(* make() comes to a table when what it is computed from is there.          *)
LEMMA NeededBefore ==
    ASSUME OrderInv, NEW t, Making(t)
    PROVE  /\ t \in Table /\ t \notin made
           /\ t # "partition" => "partition" \in made
           /\ t = "exterior" => "interior" \in made
           /\ t = "marginal" => "interior" \in made /\ "exterior" \in made /\ "meta" \in made
           /\ t = "gap" => "interior" \in made
           /\ t = "change" => "neighbour" \in made /\ "meta" \in made
<1> DEFINE h == Head(asks)
<1>1. h \in {"neighbour", "marginal", "gap", "change"}
  BY DEF OrderInv, Making
<1>2. PICK i \in DOMAIN Needed : Needed[i] = t /\ Needed[i] \notin made /\ \A j \in 1 .. i - 1 : Needed[j] \in made
  BY DEF Making, Made
<1>3. Needed = Needs[h]
  BY DEF Needed
<1> HIDE DEF h
<1>4. CASE h = "neighbour"
  <2>1. Needed = <<"partition", "neighbour">> /\ i \in 1 .. 2
    BY <1>2, <1>3, <1>4 DEF Needs
  <2> QED
    BY <1>2, <2>1 DEF Table
<1>5. CASE h = "marginal"
  <2>1. Needed = <<"partition", "interior", "exterior", "meta", "marginal">> /\ i \in 1 .. 5
    BY <1>2, <1>3, <1>5 DEF Needs
  <2> QED
    BY <1>2, <2>1 DEF Table
<1>6. CASE h = "gap"
  <2>1. Needed = <<"partition", "interior", "gap">> /\ i \in 1 .. 3
    BY <1>2, <1>3, <1>6 DEF Needs
  <2> QED
    BY <1>2, <2>1 DEF Table
<1>7. CASE h = "change"
  <2>1. Needed = <<"partition", "neighbour", "meta", "change">> /\ i \in 1 .. 4
    BY <1>2, <1>3, <1>7 DEF Needs
  <2> QED
    BY <1>2, <2>1 DEF Table
<1> QED
  BY <1>1, <1>4, <1>5, <1>6, <1>7

Partitioning == MakePartition \/ CountVertices \/ SplitPartitions \/ FillPartitions \/ DeletePartitions

GapTableStep == MakeGaps \/ SplitGapRows \/ SubtractOne

ChangeStep == MakeChange \/ InitialFilled \/ FinalFilled \/ MakeArea

\* A step that does not concern a table leaves it ready, or not made yet.
Same(t) == t \in made' <=> t \in made

Away(phases) == phase' = phase \/ (phase \notin phases /\ phase' \notin phases)

\* What each step leaves alone.
Steps ==
    /\ layer' = layer /\ boundary' = boundary
    /\ Partitioning \/ (partitions' = partitions /\ pieces' = pieces /\ Away(Cutting) /\ Same("partition"))
    /\ MakeInterior \/ (interior' = interior /\ Same("interior"))
    /\ MakeExterior \/ (exterior' = exterior /\ Same("exterior"))
    /\ MakeNeighbours \/ (neighbours' = neighbours /\ Same("neighbour"))
    /\ MakeMarginal \/ Same("marginal")
    /\ MakeMeta \/ Same("meta")
    /\ MakeMeta \/ MakeMarginal \/ ChangeStep \/ meta' = meta
    /\ GapTableStep \/ (gaps' = gaps /\ unsubtracted' = unsubtracted /\ Away({"subtract"}) /\ Same("gap"))
    /\ ChangeStep \/ (Away(Counting) /\ Same("change"))

LEMMA StepsKeep == ASSUME OrderInv, [Next]_vars PROVE Steps
<1> USE DEF Steps, Same, Away, Cutting, Counting, Still, Finish, Begin, AtOnce, tables
<1>1. CASE Serve
  BY <1>1 DEF Serve
<1>2. CASE Partitioning
  <2>1. CASE MakePartition
    BY <1>2, <2>1 DEF MakePartition
  <2>2. CASE CountVertices
    BY <1>2, <2>2 DEF CountVertices
  <2>3. CASE SplitPartitions
    BY <1>2, <2>3 DEF SplitPartitions
  <2>4. CASE FillPartitions
    BY <1>2, <2>4 DEF FillPartitions
  <2>5. CASE DeletePartitions
    BY <1>2, <2>5 DEF DeletePartitions
  <2> QED
    BY <1>2, <2>1, <2>2, <2>3, <2>4, <2>5 DEF Partitioning
<1>3. CASE MakeNeighbours
  <2>1. Making("neighbour") /\ phase = "idle" /\ Finish("neighbour")
    BY <1>3 DEF MakeNeighbours
  <2> QED
    BY <1>3, <2>1 DEF MakeNeighbours
<1>4. CASE MakeInterior
  BY <1>4 DEF MakeInterior
<1>5. CASE MakeExterior
  BY <1>5 DEF MakeExterior
<1>6. CASE MakeMeta
  BY <1>6 DEF MakeMeta
<1>7. CASE MakeMarginal
  BY <1>7 DEF MakeMarginal
<1>8. CASE GapTableStep
  <2>1. CASE MakeGaps
    BY <1>8, <2>1 DEF MakeGaps
  <2>2. CASE SplitGapRows
    BY <1>8, <2>2 DEF SplitGapRows
  <2>3. CASE SubtractOne
    BY <1>8, <2>3 DEF SubtractOne
  <2> QED
    BY <1>8, <2>1, <2>2, <2>3 DEF GapTableStep
<1>9. CASE ChangeStep
  <2>1. CASE MakeChange
    BY <1>9, <2>1 DEF MakeChange
  <2>2. CASE InitialFilled
    BY <1>9, <2>2 DEF InitialFilled
  <2>3. CASE FinalFilled
    BY <1>9, <2>3 DEF FinalFilled
  <2>4. CASE MakeArea
    BY <1>9, <2>4 DEF MakeArea
  <2> QED
    BY <1>9, <2>1, <2>2, <2>3, <2>4 DEF ChangeStep
<1>10. CASE MergeClusters
  BY <1>10 DEF MergeClusters
<1>11. CASE UNCHANGED vars
  BY <1>11 DEF vars
<1> QED
  BY <1>1, <1>2, <1>3, <1>4, <1>5, <1>6, <1>7, <1>8, <1>9, <1>10, <1>11
     DEF Next, Partitioning, GapTableStep, ChangeStep

LEMMA OrderHolds == Spec => []OrderInv
<1>1. Init => OrderInv
  BY GeometryAssumption DEF Init, OrderInv, Cutting, Counting, Table
<1>2. OrderInv /\ [Next]_vars => OrderInv'
  <2> SUFFICES ASSUME OrderInv, [Next]_vars PROVE OrderInv'
    OBVIOUS
  <2>2. CASE Serve
    <3>1. asks' \in Seq({"neighbour", "marginal", "gap", "change"})
      BY <2>2 DEF Serve, OrderInv
    <3> QED
      BY <2>2, <3>1 DEF Serve, OrderInv
  <2>3. ASSUME NEW t, AtOnce(t), Still PROVE OrderInv'
    <3>1. Making(t) /\ phase = "idle" /\ phase' = "idle" /\ made' = made \union {t} /\ layer' = layer /\ boundary' = boundary /\ asks' = asks
      BY <2>3 DEF AtOnce, Finish, Still
    <3> QED
      BY <3>1, NeededBefore DEF OrderInv, Cutting, Counting
  <2>4. CASE MakePartition
    <3>1. Making("partition") /\ phase' = "npoints" /\ made' = made /\ layer' = layer /\ boundary' = boundary /\ asks' = asks
      BY <2>4 DEF MakePartition, Begin, Still
    <3> QED
      BY <3>1, NeededBefore DEF OrderInv, Cutting, Counting
  <2>5. CASE CountVertices
    BY <2>5 DEF CountVertices, Still, OrderInv, Cutting, Counting
  <2>6. CASE SplitPartitions
    <3>1. phase = "split" /\ layer' = layer /\ boundary' = boundary /\ asks' = asks
      BY <2>6 DEF SplitPartitions, Still
    <3>2. (phase' = "fill" /\ made' = made) \/ (phase' = "idle" /\ made' = made \union {"partition"})
      BY <2>6 DEF SplitPartitions, Finish
    <3>3. made = {}
      BY <3>1 DEF OrderInv, Cutting
    <3> QED
      BY <3>1, <3>2, <3>3 DEF OrderInv, Cutting, Counting, Table
  <2>7. CASE FillPartitions
    BY <2>7 DEF FillPartitions, Still, OrderInv, Cutting, Counting
  <2>8. CASE DeletePartitions
    BY <2>8 DEF DeletePartitions, Still, OrderInv, Cutting, Counting
  <2>9. CASE MakeNeighbours
    BY <2>3, <2>9 DEF MakeNeighbours
  <2>10. CASE MakeInterior
    BY <2>3, <2>10 DEF MakeInterior
  <2>11. CASE MakeExterior
    BY <2>3, <2>11 DEF MakeExterior
  <2>12. CASE MakeMeta
    BY <2>3, <2>12 DEF MakeMeta
  <2>13. CASE MakeMarginal
    BY <2>3, <2>13 DEF MakeMarginal
  <2>14. CASE MakeGaps
    <3>1. Making("gap") /\ phase' = "subtract" /\ made' = made /\ layer' = layer /\ boundary' = boundary /\ asks' = asks
      BY <2>14 DEF MakeGaps, Begin, Still
    <3> QED
      BY <3>1, NeededBefore DEF OrderInv, Cutting, Counting
  <2>15. CASE SplitGapRows
    BY <2>15 DEF SplitGapRows, Still, OrderInv, Cutting, Counting
  <2>16. CASE SubtractOne
    <3>1. phase = "subtract" /\ layer' = layer /\ boundary' = boundary /\ asks' = asks
      BY <2>16 DEF SubtractOne, Still
    <3>2. (phase' = phase /\ made' = made) \/ (phase' = "idle" /\ made' = made \union {"gap"})
      BY <2>16 DEF SubtractOne, Finish
    <3> QED
      BY <3>1, <3>2 DEF OrderInv, Cutting, Counting, Table
  <2>17. CASE MakeChange
    <3>1. Making("change") /\ phase' = "initial" /\ made' = made /\ layer' = layer /\ boundary' = boundary /\ asks' = asks
      BY <2>17 DEF MakeChange, Begin, Still
    <3> QED
      BY <3>1, NeededBefore DEF OrderInv, Cutting, Counting
  <2>18. CASE InitialFilled
    BY <2>18 DEF InitialFilled, Still, OrderInv, Cutting, Counting
  <2>19. CASE FinalFilled
    BY <2>19 DEF FinalFilled, Still, OrderInv, Cutting, Counting
  <2>20. CASE MakeArea
    <3>1. phase = "area" /\ layer' = layer /\ boundary' = boundary /\ asks' = asks /\ phase' = "idle" /\ made' = made \union {"change"}
      BY <2>20 DEF MakeArea, Still, Finish
    <3> QED
      BY <3>1 DEF OrderInv, Cutting, Counting, Table
  <2>21. CASE MergeClusters
    BY <2>21 DEF MergeClusters, OrderInv
  <2>22. CASE UNCHANGED vars
    BY <2>22 DEF vars, OrderInv
  <2> QED
    BY <2>2, <2>4, <2>5, <2>6, <2>7, <2>8, <2>9, <2>10, <2>11, <2>12, <2>13, <2>14, <2>15, <2>16,
       <2>17, <2>18, <2>19, <2>20, <2>21, <2>22 DEF Next
<1> QED
  BY <1>1, <1>2, PTL DEF Spec

-----------------------------------------------------------------------------
(* The partitions.                                                          *)

Boxes == {p.box : p \in partitions}

Leaves == Boxes \ Supers

Extent == ExpandBox(BoxOf(Area))

Tiles(B, X) ==
    /\ UNION {Squares(b) : b \in B} = X
    /\ \A b, d \in B : b # d => Squares(b) \cap Squares(d) = {}

Begun == phase \in Cutting \/ "partition" \in made

IsPartition(p) ==
    /\ p = [box |-> p.box, super |-> p.super, vertices |-> p.vertices]
    /\ IsBox(p.box)
    /\ Squares(p.super) = {} \/ Squares(p.box) \subseteq Squares(p.super)

\* The rows of a partition's halves are there and not split themselves.
HasHalves(b) ==
    /\ Halves(b) # {} /\ Halves(b) \subseteq Boxes /\ Halves(b) \cap Supers = {}
    /\ \A h : h \in Halves(b) <=> \E q \in Fresh : q.super = b /\ q.box = h

\* A partition is inside of the one it is from, and no partition is there
\* with its halves except between the split and the deletion.
CutInv ==
    /\ \A p \in partitions : IsPartition(p)
    /\ Begun => Tiles(Leaves, Squares(Extent))
    /\ ~Begun => partitions = {} /\ pieces = {}
    /\ phase \notin {"fill", "delete"} => Boxes \cap Supers = {}
    /\ phase \in {"fill", "delete"} => \A b \in Boxes \cap Supers : HasHalves(b)
    /\ "partition" \in made => \A p \in partitions : p.vertices > MaxVertices => Halves(p.box) = {}

LEMMA AreaIsGeometry ==
    ASSUME OrderInv
    PROVE  /\ \A f \in Fid : IsGeometry(layer[f].geom) /\ layer[f].geom # {} /\ layer[f].geom \subseteq Area
           /\ IsGeometry(Area) /\ Area # {}
<1>1. \A f \in Fid : IsGeometry(layer[f].geom) /\ layer[f].geom # {}
  BY GeometryAssumption DEF OrderInv, IsGeometry
<1>2. \A f \in Fid : layer[f].geom \subseteq Area
  BY DEF Area
<1>3. Area # {} /\ Area \subseteq Int \X Int
  <2>1. PICK f \in Fid : TRUE
    BY TableAssumption
  <2>2. Area # {}
    BY <1>1, <1>2, <2>1
  <2>3. Area \subseteq Int \X Int
    BY <1>1 DEF Area, IsGeometry
  <2> QED
    BY <2>2, <2>3
<1>4. IsFiniteSet(Area)
  <2> DEFINE geoms == {layer[f].geom : f \in Fid}
             g == [f \in Fid |-> layer[f].geom]
  <2>1. g \in [Fid -> geoms] /\ \A t \in geoms : \E f \in Fid : g[f] = t
    OBVIOUS
  <2>2. \A t \in geoms : IsFiniteSet(t)
    BY <1>1 DEF IsGeometry
  <2>3. Area = UNION geoms
    BY DEF Area
  <2> HIDE DEF geoms, g
  <2>4. IsFiniteSet(geoms)
    BY <2>1, FiniteRange, TableAssumption
  <2> QED
    BY <2>2, <2>3, <2>4, FS_UNION
<1> QED
  BY <1>1, <1>2, <1>3, <1>4 DEF IsGeometry

LEMMA ExtentIsBox ==
    ASSUME OrderInv
    PROVE  /\ IsBox(Extent) /\ Area \subseteq Squares(Extent)
           /\ \A c \in Area : Sides(c) \subseteq Squares(Extent) /\ Around(c) \subseteq Squares(Extent)
<1>1. IsGeometry(Area) /\ Area # {}
  BY AreaIsGeometry
<1> QED
  BY <1>1, ExpandedBox DEF Extent

LEMMA BoxHasSquares == ASSUME NEW b, IsBox(b) PROVE <<b.x1, b.y1>> \in Squares(b)
<1>1. b.x1 \in b.x1 .. b.x2 - 1 /\ b.y1 \in b.y1 .. b.y2 - 1
  BY DEF IsBox
<1> QED
  BY <1>1 DEF Squares

(* What the halves of a box have in common with it.                         *)
LEMMA HalvesInside ==
    ASSUME NEW b, IsBox(b), NEW h \in Halves(b)
    PROVE  IsBox(h) /\ Squares(h) \subseteq Squares(b) /\ Squares(h) # Squares(b) /\ Squares(h) # {} /\ h # b
<1>1. PICK l, u : /\ Halves(b) = {l, u} /\ IsBox(l) /\ IsBox(u)
                  /\ Squares(l) \union Squares(u) = Squares(b)
                  /\ Squares(l) \cap Squares(u) = {}
                  /\ Squares(l) # {} /\ Squares(u) # {}
  BY HalvesTile
<1>2. CASE h = l
  BY <1>1, <1>2
<1>3. CASE h = u
  BY <1>1, <1>3
<1> QED
  BY <1>1, <1>2, <1>3

(* Boxes that tile a plane still tile it when some give way to their        *)
(* halves; no half is one of the boxes.                                     *)
LEMMA TilesInHalves ==
    ASSUME NEW B, NEW X, Tiles(B, X), \A b \in B : IsBox(b),
           NEW Big \in SUBSET B, \A b \in Big : Halves(b) # {}
    PROVE  /\ Tiles((B \ Big) \union UNION {Halves(b) : b \in Big}, X)
           /\ B \cap UNION {Halves(b) : b \in Big} = {}
<1> DEFINE New == UNION {Halves(b) : b \in Big}
<1>1. \A b \in Big : \A h \in Halves(b) :
         IsBox(h) /\ Squares(h) \subseteq Squares(b) /\ Squares(h) # Squares(b) /\ Squares(h) # {}
  BY HalvesInside
<1>2. B \cap New = {}
  <2> SUFFICES ASSUME NEW b \in Big, NEW h \in Halves(b), h \in B PROVE FALSE
    OBVIOUS
  <2>1. Squares(h) \cap Squares(b) # {} /\ h # b
    BY <1>1
  <2> QED
    BY <2>1 DEF Tiles
<1>3. \A b \in Big : UNION {Squares(h) : h \in Halves(b)} = Squares(b)
  <2> SUFFICES ASSUME NEW b \in Big PROVE UNION {Squares(h) : h \in Halves(b)} = Squares(b)
    OBVIOUS
  <2>1. PICK l, u : Halves(b) = {l, u} /\ Squares(l) \union Squares(u) = Squares(b)
    BY HalvesTile
  <2> QED
    BY <2>1
<1>4. \A b \in Big : \A h, k \in Halves(b) : h # k => Squares(h) \cap Squares(k) = {}
  <2> SUFFICES ASSUME NEW b \in Big, NEW h \in Halves(b), NEW k \in Halves(b), h # k
               PROVE  Squares(h) \cap Squares(k) = {}
    OBVIOUS
  <2>1. PICK l, u : Halves(b) = {l, u} /\ Squares(l) \cap Squares(u) = {}
    BY HalvesTile
  <2> QED
    BY <2>1
<1>5. UNION {Squares(b) : b \in (B \ Big) \union New} = X
  <2>1. ASSUME NEW c \in X PROVE c \in UNION {Squares(b) : b \in (B \ Big) \union New}
    <3>1. PICK b \in B : c \in Squares(b)
      BY DEF Tiles
    <3>2. CASE b \in Big
      <4>1. PICK h \in Halves(b) : c \in Squares(h)
        BY <1>3, <3>1, <3>2
      <4> QED
        BY <3>2, <4>1
    <3> QED
      BY <3>1, <3>2
  <2>2. ASSUME NEW h \in New PROVE Squares(h) \subseteq X
    <3>1. PICK b \in Big : h \in Halves(b)
      OBVIOUS
    <3>2. Squares(h) \subseteq Squares(b)
      BY <1>1, <3>1
    <3> QED
      BY <3>2 DEF Tiles
  <2>3. \A b \in B : Squares(b) \subseteq X
    BY DEF Tiles
  <2> HIDE DEF New
  <2> QED
    BY <2>1, <2>2, <2>3
<1>6. \A b, d \in (B \ Big) \union New : b # d => Squares(b) \cap Squares(d) = {}
  <2> SUFFICES ASSUME NEW b \in (B \ Big) \union New, NEW d \in (B \ Big) \union New, b # d,
                      NEW c, c \in Squares(b), c \in Squares(d)
               PROVE  FALSE
    OBVIOUS
  <2>1. PICK e \in B : c \in Squares(e) /\ (e \notin Big => b = e) /\ (e \in Big => b \in Halves(e))
    BY <1>1
  <2>2. PICK f \in B : c \in Squares(f) /\ (f \notin Big => d = f) /\ (f \in Big => d \in Halves(f))
    BY <1>1
  <2>3. e = f
    BY <2>1, <2>2 DEF Tiles
  <2> QED
    BY <1>4, <2>1, <2>2, <2>3
<1> QED
  BY <1>2, <1>5, <1>6 DEF Tiles

-----------------------------------------------------------------------------
LEMMA StartsCut == ASSUME OrderInv, CutInv, MakePartition PROVE CutInv'
<1>1. /\ partitions' = {[box |-> Extent, super |-> NoBox, vertices |-> Null]}
      /\ phase' = "npoints" /\ made' = made /\ layer' = layer /\ Making("partition")
  BY DEF MakePartition, Begin, StartPartitions, Still, Extent
<1>2. made = {}
  BY <1>1, NeededBefore DEF OrderInv
<1>3. Extent' = Extent
  BY <1>1 DEF Extent, Area
<1>4. IsBox(Extent) /\ Squares(NoBox) = {} /\ NoBox # Extent
  <2>1. Squares(NoBox) = {}
    BY DEF Squares, NoBox
  <2> QED
    BY <2>1, ExtentIsBox, BoxHasSquares
<1> HIDE DEF Extent
<1>5. Boxes' = {Extent} /\ Supers' = {NoBox}
  BY <1>1 DEF Boxes, Supers
<1>6. Tiles(Leaves', Squares(Extent'))
  BY <1>3, <1>4, <1>5 DEF Leaves, Tiles
<1>7. \A p \in partitions' : IsPartition(p)
  BY <1>1, <1>4 DEF IsPartition
<1> QED
  BY <1>1, <1>2, <1>4, <1>5, <1>6, <1>7 DEF CutInv, Begun, Cutting, Tiles

LEMMA CountsCut == ASSUME OrderInv, CutInv, CountVertices PROVE CutInv'
<1>1. /\ partitions' = {IF p.vertices = Null THEN [p EXCEPT !.vertices = Vertices(p.box)] ELSE p : p \in partitions}
      /\ phase = "npoints" /\ phase' = "split" /\ made' = made /\ layer' = layer
  BY DEF CountVertices, UpdateNpoints, Still
<1> DEFINE new(p) == IF p.vertices = Null THEN [p EXCEPT !.vertices = Vertices(p.box)] ELSE p
<1>2. \A p \in partitions : new(p).box = p.box /\ new(p).super = p.super /\ IsPartition(new(p))
  <2> SUFFICES ASSUME NEW p \in partitions PROVE new(p).box = p.box /\ new(p).super = p.super /\ IsPartition(new(p))
    OBVIOUS
  <2>1. IsPartition(p)
    BY DEF CutInv
  <2>2. CASE p.vertices = Null
    <3> DEFINE v == Vertices(p.box)
    <3>1. new(p) = [p EXCEPT !.vertices = v]
      BY <2>2
    <3> HIDE DEF v, new
    <3>2. new(p) = [box |-> p.box, super |-> p.super, vertices |-> v]
      BY <2>1, <3>1 DEF IsPartition
    <3>3. new(p).box = p.box /\ new(p).super = p.super /\ new(p).vertices = v
      BY <3>2
    <3> QED
      BY <2>1, <3>2, <3>3 DEF IsPartition
  <2>3. CASE p.vertices # Null
    BY <2>1, <2>3
  <2> QED
    BY <2>2, <2>3
<1>3. partitions' = {new(p) : p \in partitions}
  BY <1>1
<1> HIDE DEF new
<1>4. Boxes' = Boxes /\ Supers' = Supers
  BY <1>2, <1>3 DEF Boxes, Supers
<1>5. Leaves' = Leaves /\ Extent' = Extent
  BY <1>1, <1>4 DEF Leaves, Extent, Area
<1>6. made = {} /\ Begun
  BY <1>1 DEF OrderInv, Cutting, Begun
<1>7. Boxes \cap Supers = {} /\ Tiles(Leaves, Squares(Extent))
  BY <1>1, <1>6 DEF CutInv
<1>8. Tiles(Leaves, Squares(Extent))'
  BY <1>5, <1>7 DEF Tiles
<1>9. \A p \in partitions' : IsPartition(p)
  BY <1>2, <1>3
<1> QED
  BY <1>1, <1>4, <1>6, <1>7, <1>8, <1>9 DEF CutInv, Begun, Cutting

(* The rows of a split.                                                     *)
LEMMA SplitRowsOf ==
    ASSUME NEW q
    PROVE  q \in Subpartitions <=>
              \E p \in partitions : p.vertices > MaxVertices /\ \E h \in Halves(p.box) :
                  q = [box |-> h, super |-> p.box, vertices |-> Null]
  BY DEF Subpartitions

LEMMA SplitsCut == ASSUME OrderInv, CutInv, SplitPartitions, Subpartitions # {} PROVE CutInv'
<1>1. /\ partitions' = partitions \union Subpartitions
      /\ phase = "split" /\ phase' = "fill" /\ made' = made /\ layer' = layer
  BY DEF SplitPartitions, Still
<1>2. made = {} /\ Begun /\ Begun'
  BY <1>1 DEF OrderInv, Cutting, Begun
<1>3. /\ Boxes \cap Supers = {} /\ Tiles(Leaves, Squares(Extent)) /\ \A p \in partitions : IsPartition(p)
      /\ Leaves = Boxes
  BY <1>1, <1>2 DEF CutInv, Leaves
<1>4. \A b \in Boxes : IsBox(b)
  BY <1>3 DEF Boxes, IsPartition
<1> DEFINE Big == {b \in Boxes : Halves(b) # {} /\ \E p \in partitions : p.box = b /\ p.vertices > MaxVertices}
           New == UNION {Halves(b) : b \in Big}
<1>5. /\ Tiles((Boxes \ Big) \union New, Squares(Extent))
      /\ Boxes \cap New = {}
  <2>1. Big \in SUBSET Boxes /\ \A b \in Big : Halves(b) # {}
    OBVIOUS
  <2>2. Tiles(Boxes, Squares(Extent))
    BY <1>3
  <2> HIDE DEF Big
  <2> QED
    BY <1>4, <2>1, <2>2, TilesInHalves
<1>6. \A b \in Big : \A h \in Halves(b) :
         /\ IsBox(h) /\ Squares(h) \subseteq Squares(b) /\ Squares(h) # Squares(b) /\ Squares(h) # {}
         /\ [box |-> h, super |-> b, vertices |-> Null] \in Subpartitions
  <2> SUFFICES ASSUME NEW b \in Big, NEW h \in Halves(b)
               PROVE  /\ IsBox(h) /\ Squares(h) \subseteq Squares(b) /\ Squares(h) # Squares(b) /\ Squares(h) # {}
                      /\ [box |-> h, super |-> b, vertices |-> Null] \in Subpartitions
    OBVIOUS
  <2>1. PICK p \in partitions : p.box = b /\ p.vertices > MaxVertices
    OBVIOUS
  <2>2. [box |-> h, super |-> b, vertices |-> Null] \in Subpartitions
    <3> DEFINE q == [box |-> h, super |-> b, vertices |-> Null]
    <3>1. q = [box |-> h, super |-> p.box, vertices |-> Null] /\ h \in Halves(p.box)
      BY <2>1
    <3> HIDE DEF q
    <3>2. q \in Subpartitions
      BY <2>1, <3>1, SplitRowsOf
    <3> QED
      BY <3>2 DEF q
  <2> QED
    BY <1>4, <2>2, HalvesInside
<1>7. \A q \in Subpartitions : q.super \in Big /\ q.box \in Halves(q.super) /\ q.vertices = Null /\ IsPartition(q)
  <2> SUFFICES ASSUME NEW q \in Subpartitions
               PROVE  q.super \in Big /\ q.box \in Halves(q.super) /\ q.vertices = Null /\ IsPartition(q)
    OBVIOUS
  <2>1. PICK p \in partitions : /\ p.vertices > MaxVertices
                                /\ \E h \in Halves(p.box) : q = [box |-> h, super |-> p.box, vertices |-> Null]
    BY SplitRowsOf
  <2>2. PICK h \in Halves(p.box) : q = [box |-> h, super |-> p.box, vertices |-> Null]
    BY <2>1
  <2>3. q.box = h /\ q.super = p.box /\ q.vertices = Null
    BY <2>2
  <2>4. p.box \in Big
    BY <2>1, <2>2 DEF Boxes
  <2> HIDE DEF Big
  <2>5. IsPartition(q)
    BY <1>6, <2>2, <2>3, <2>4 DEF IsPartition
  <2> QED
    BY <2>3, <2>4, <2>5
<1>8. Big \subseteq Boxes
  OBVIOUS
<1>9. New \cap Supers = {}
  <2> SUFFICES ASSUME NEW b \in Big, NEW h \in Halves(b), NEW p \in partitions, p.super = h PROVE FALSE
    BY DEF Supers
  <2>1. IsPartition(p) /\ p.box \in Boxes
    BY <1>3 DEF Boxes
  <2>2. Squares(p.box) \subseteq Squares(h) /\ Squares(p.box) # {}
    BY <1>6, <2>1, BoxHasSquares DEF IsPartition
  <2>3. Squares(p.box) \cap Squares(b) # {}
    BY <1>6, <2>2
  <2>4. p.box = b
    BY <1>3, <1>8, <2>1, <2>3 DEF Tiles
  <2>5. Squares(b) \subseteq Squares(h)
    BY <2>2, <2>4
  <2>6. Squares(h) \subseteq Squares(b) /\ Squares(h) # Squares(b)
    BY <1>6
  <2> QED
    BY <2>5, <2>6
<1> HIDE DEF Big
<1>10. Boxes' = Boxes \union New
  <2>1. \A q \in partitions' : q.box \in Boxes \union New
    BY <1>1, <1>7 DEF Boxes
  <2>2. Boxes \subseteq Boxes'
    BY <1>1 DEF Boxes
  <2>3. New \subseteq Boxes'
    <3> SUFFICES ASSUME NEW b \in Big, NEW h \in Halves(b) PROVE h \in Boxes'
      OBVIOUS
    <3> DEFINE q == [box |-> h, super |-> b, vertices |-> Null]
    <3>1. q \in partitions' /\ q.box = h
      BY <1>1, <1>6
    <3> HIDE DEF q
    <3> QED
      BY <3>1 DEF Boxes
  <2> QED
    BY <2>1, <2>2, <2>3 DEF Boxes
<1>11. Supers' = Supers \union Big
  <2>1. \A q \in partitions' : q.super \in Supers \union Big
    BY <1>1, <1>7 DEF Supers
  <2>2. Supers \subseteq Supers'
    BY <1>1 DEF Supers
  <2>3. Big \subseteq Supers'
    <3> SUFFICES ASSUME NEW b \in Big PROVE b \in Supers'
      OBVIOUS
    <3>1. PICK h \in Halves(b) : TRUE
      BY DEF Big
    <3>2. [box |-> h, super |-> b, vertices |-> Null] \in partitions'
      BY <1>1, <1>6
    <3> QED
      BY <3>2 DEF Supers
  <2> QED
    BY <2>1, <2>2, <2>3 DEF Supers
<1> DEFINE N == New
<1>12. N = New /\ New = UNION {Halves(b) : b \in Big}
  OBVIOUS
<1> HIDE DEF New, N
<1>13. Leaves' = (Boxes \ Big) \union New /\ Boxes' \cap Supers' = Big
  BY <1>3, <1>5, <1>8, <1>9, <1>10, <1>11 DEF Leaves
<1>14. Extent' = Extent
  BY <1>1 DEF Extent, Area
<1>15. Tiles(Leaves, Squares(Extent))'
  BY <1>5, <1>13, <1>14 DEF Tiles
<1>16. \A b \in Big : HasHalves(b)'
  <2> SUFFICES ASSUME NEW b \in Big PROVE HasHalves(b)'
    OBVIOUS
  <2>1. Halves(b) # {} /\ Halves(b) \subseteq New
    BY <1>12 DEF Big
  <2>2. Halves(b) \subseteq Boxes' /\ Halves(b) \cap Supers' = {}
    BY <1>5, <1>8, <1>9, <1>10, <1>11, <2>1
  <2>3. ASSUME NEW h \in Halves(b) PROVE \E q \in Fresh' : q.super = b /\ q.box = h
    <3> DEFINE q == [box |-> h, super |-> b, vertices |-> Null]
    <3>1. q \in partitions' /\ q.vertices = Null /\ q.super = b /\ q.box = h
      BY <1>1, <1>6
    <3> HIDE DEF q
    <3> QED
      BY <3>1 DEF Fresh
  <2>4. ASSUME NEW q \in Fresh', q.super = b PROVE q.box \in Halves(b)
    <3>1. q \in partitions'
      BY DEF Fresh
    <3>2. q \notin partitions
      BY <1>3, <1>8, <2>4 DEF Supers
    <3> QED
      BY <1>1, <1>7, <2>4, <3>1, <3>2
  <2> QED
    BY <2>1, <2>2, <2>3, <2>4 DEF HasHalves
<1>17. \A p \in partitions' : IsPartition(p)
  BY <1>1, <1>3, <1>7
<1> QED
  BY <1>1, <1>2, <1>13, <1>15, <1>16, <1>17 DEF CutInv

LEMMA EndsCut == ASSUME OrderInv, CutInv, SplitPartitions, Subpartitions = {} PROVE CutInv'
<1>1. /\ partitions' = partitions
      /\ phase = "split" /\ phase' = "idle" /\ made' = made \union {"partition"} /\ layer' = layer
  BY DEF SplitPartitions, Still, Finish
<1>2. Begun /\ Begun'
  BY <1>1 DEF Cutting, Begun
<1>3. Boxes' = Boxes /\ Supers' = Supers /\ Leaves' = Leaves /\ Extent' = Extent
  BY <1>1 DEF Boxes, Supers, Leaves, Extent, Area
<1>4. /\ Boxes \cap Supers = {} /\ Tiles(Leaves, Squares(Extent)) /\ \A p \in partitions : IsPartition(p)
  BY <1>1, <1>2 DEF CutInv
<1>5. \A p \in partitions : p.vertices > MaxVertices => Halves(p.box) = {}
  <2> SUFFICES ASSUME NEW p \in partitions, p.vertices > MaxVertices, NEW h \in Halves(p.box) PROVE FALSE
    OBVIOUS
  <2>1. [box |-> h, super |-> p.box, vertices |-> Null] \in Subpartitions
    BY SplitRowsOf
  <2> QED
    BY <2>1
<1>6. Tiles(Leaves, Squares(Extent))'
  BY <1>3, <1>4 DEF Tiles
<1> QED
  BY <1>1, <1>2, <1>3, <1>4, <1>5, <1>6 DEF CutInv

LEMMA FillsCut == ASSUME OrderInv, CutInv, FillPartitions PROVE CutInv'
<1>1. /\ partitions' = partitions
      /\ phase = "fill" /\ phase' = "delete" /\ made' = made /\ layer' = layer
  BY DEF FillPartitions, Still
<1>2. Begun /\ Begun' /\ made = {}
  BY <1>1 DEF Cutting, Begun, OrderInv
<1>3. Boxes' = Boxes /\ Supers' = Supers /\ Leaves' = Leaves /\ Extent' = Extent /\ Fresh' = Fresh
  BY <1>1 DEF Boxes, Supers, Leaves, Extent, Area, Fresh
<1>4. /\ Tiles(Leaves, Squares(Extent)) /\ \A p \in partitions : IsPartition(p)
      /\ \A b \in Boxes \cap Supers : HasHalves(b)
  BY <1>1, <1>2 DEF CutInv
<1>5. \A b \in Boxes' \cap Supers' : HasHalves(b)'
  BY <1>3, <1>4 DEF HasHalves
<1>6. Tiles(Leaves, Squares(Extent))'
  BY <1>3, <1>4 DEF Tiles
<1> QED
  BY <1>1, <1>2, <1>3, <1>4, <1>5, <1>6 DEF CutInv

LEMMA DeletesCut == ASSUME OrderInv, CutInv, DeletePartitions PROVE CutInv'
<1>1. /\ partitions' = {p \in partitions : p.box \notin Supers}
      /\ phase = "delete" /\ phase' = "npoints" /\ made' = made /\ layer' = layer
  BY DEF DeletePartitions, DeleteSuperitems, Still
<1>2. Begun /\ Begun' /\ made = {}
  BY <1>1 DEF Cutting, Begun, OrderInv
<1>3. Boxes' = Leaves /\ Supers' \subseteq Supers /\ Extent' = Extent
  BY <1>1 DEF Boxes, Supers, Leaves, Extent, Area
<1>4. Leaves' = Leaves /\ Boxes' \cap Supers' = {}
  <2>1. Leaves \cap Supers = {}
    BY DEF Leaves
  <2> QED
    BY <1>3, <2>1 DEF Leaves
<1>5. /\ Tiles(Leaves, Squares(Extent)) /\ \A p \in partitions : IsPartition(p)
  BY <1>1, <1>2 DEF CutInv
<1>6. Tiles(Leaves, Squares(Extent))'
  BY <1>3, <1>4, <1>5 DEF Tiles
<1> QED
  BY <1>1, <1>2, <1>4, <1>5, <1>6 DEF CutInv

LEMMA KeepsCut ==
    ASSUME OrderInv, CutInv, layer' = layer, partitions' = partitions, pieces' = pieces, Away(Cutting), Same("partition")
    PROVE  CutInv'
<1>1. Boxes' = Boxes /\ Supers' = Supers /\ Leaves' = Leaves /\ Extent' = Extent /\ Fresh' = Fresh
  BY DEF Boxes, Supers, Leaves, Extent, Area, Fresh
<1>2. \A b \in Boxes \cap Supers : HasHalves(b)' <=> HasHalves(b)
  BY <1>1 DEF HasHalves
<1>3. Begun' <=> Begun
  BY DEF Begun, Away, Same
<1>4. Tiles(Leaves, Squares(Extent))' <=> Tiles(Leaves, Squares(Extent))
  BY <1>1 DEF Tiles
<1> QED
  BY <1>1, <1>2, <1>3, <1>4 DEF CutInv, Away, Same, Cutting

LEMMA CutHolds == Spec => []CutInv
<1>1. Init => CutInv
  BY DEF Init, CutInv, Boxes, Begun, Cutting
<1>2. OrderInv /\ CutInv /\ [Next]_vars => CutInv'
  <2> SUFFICES ASSUME OrderInv, CutInv, [Next]_vars PROVE CutInv'
    OBVIOUS
  <2>1. Steps
    BY StepsKeep
  <2> QED
    BY <2>1, StartsCut, CountsCut, SplitsCut, EndsCut, FillsCut, DeletesCut, KeepsCut DEF Steps, Partitioning
<1> QED
  BY <1>1, <1>2, OrderHolds, PTL DEF Spec

-----------------------------------------------------------------------------
(* The pieces of the features.                                              *)

IsPiece(f) ==
    /\ f = [fid |-> f.fid, part |-> f.part, geom |-> f.geom]
    /\ f.fid \in Fid /\ IsGeometry(f.geom) /\ f.geom # {}

Whole(P) == \A f \in Fid : UNION {g.geom : g \in {h \in P : h.fid = f}} = layer[f].geom

Fit(P) ==
    /\ \A g \in P : g.geom \subseteq Squares(g.part)
    /\ \A g, h \in P : g # h /\ g.fid = h.fid => g.geom \cap h.geom = {}

Kept == {f \in pieces : f.part \notin Supers}

\* The pieces make the features, before and after the superitems are deleted.
PieceInv ==
    /\ \A f \in pieces : IsPiece(f) /\ f.part \in Boxes
    /\ Begun => Whole(pieces)
    /\ phase # "delete" => Fit(pieces)
    /\ phase = "delete" => Whole(Kept) /\ Fit(Kept)

LEMMA Uncut ==
    ASSUME NEW f, f.part \notin Supers
    PROVE  Moved(f) = f /\ Cut(f) = {}
<1>1. \A p \in Fresh : p.super # f.part
  BY DEF Fresh, Supers
<1> QED
  BY <1>1 DEF Moved, Cut, Covers

LEMMA CutRows ==
    ASSUME NEW f, IsPiece(f), NEW m
    PROVE  m \in Cut(f) <=> \E p \in Fresh : p.super = f.part /\
                               \E g \in Polygons(f.geom \cap Squares(p.box)) :
                                   m = [fid |-> f.fid, part |-> p.box, geom |-> g]
<1> DEFINE Rowed(x, g) == [f EXCEPT !.part = x, !.geom = g]
           Rows(p) == {Rowed(p.box, g) : g \in Polygons(f.geom \cap Squares(p.box))}
           R == {q \in Fresh : q.super = f.part}
<1>1. Cut(f) = UNION {Rows(p) : p \in R}
  BY DEF Cut
<1>2. \A p : m \in Rows(p) <=> \E g \in Polygons(f.geom \cap Squares(p.box)) : m = Rowed(p.box, g)
  OBVIOUS
<1>3. ASSUME NEW x, NEW g PROVE Rowed(x, g) = [fid |-> f.fid, part |-> x, geom |-> g]
  <2>1. f = [fid |-> f.fid, part |-> f.part, geom |-> f.geom]
    BY DEF IsPiece
  <2>2. Rowed(x, g) = [[f EXCEPT !.part = x] EXCEPT !.geom = g]
    BY <2>1
  <2>3. [f EXCEPT !.part = x] = [fid |-> f.fid, part |-> x, geom |-> f.geom]
    BY <2>1
  <2>4. [[fid |-> f.fid, part |-> x, geom |-> f.geom] EXCEPT !.geom = g] = [fid |-> f.fid, part |-> x, geom |-> g]
    OBVIOUS
  <2> HIDE DEF Rowed
  <2> QED
    BY <2>2, <2>3, <2>4
<1> HIDE DEF Rowed, Rows
<1>4. m \in Cut(f) <=> \E p \in R : m \in Rows(p)
  BY <1>1
<1> QED
  BY <1>2, <1>3, <1>4

\* What the fill makes of a piece, without what is to be deleted.
Offspring(f) == {m \in {Moved(f)} \union Cut(Moved(f)) : m.part \notin Supers}

LEMMA PieceIsFilled ==
    ASSUME CutInv, phase = "fill", NEW f, IsPiece(f), f.part \in Boxes, f.geom \subseteq Squares(f.part)
    PROVE  /\ \A m \in {Moved(f)} \union Cut(Moved(f)) :
                 IsPiece(m) /\ m.part \in Boxes /\ m.fid = f.fid /\ m.geom \subseteq f.geom
           /\ \A m \in Offspring(f) : m.geom \subseteq Squares(m.part)
           /\ \A c \in f.geom : \E m \in Offspring(f) : c \in m.geom
           /\ \A m, n \in Offspring(f) : m # n => m.geom \cap n.geom = {}
<1> DEFINE b == f.part
<1>1. CASE b \notin Supers
  <2>1. {Moved(f)} \union Cut(Moved(f)) = {f}
    BY <1>1, Uncut
  <2>2. Offspring(f) = {f}
    BY <1>1, <2>1 DEF Offspring
  <2> QED
    BY <2>1, <2>2
<1>2. CASE b \in Supers
  <2>1. HasHalves(b)
    BY <1>2 DEF CutInv
  <2>2. IsBox(b)
    BY DEF CutInv, Boxes, IsPartition
  <2>3. PICK l, u : /\ Halves(b) = {l, u} /\ Squares(l) \union Squares(u) = Squares(b)
                    /\ Squares(l) \cap Squares(u) = {}
    BY <2>1, <2>2, HalvesTile DEF HasHalves
  <2>4. \A p \in Fresh : p.super = b => p.box \in {l, u} /\ p.box \in Boxes /\ p.box \notin Supers
    BY <2>1, <2>3 DEF HasHalves
  <2>5. \A h \in {l, u} : \E p \in Fresh : p.super = b /\ p.box = h
    BY <2>1, <2>3 DEF HasHalves
  <2>6. CASE \E p \in Fresh : Covers(p, f)
    <3> DEFINE p == CHOOSE q \in Fresh : Covers(q, f)
               m == Moved(f)
    <3>1. p \in Fresh /\ Covers(p, f)
      BY <2>6
    <3>2. m = [f EXCEPT !.part = p.box]
      BY <2>6 DEF Moved
    <3> HIDE DEF p, m
    <3>3. m = [fid |-> f.fid, part |-> p.box, geom |-> f.geom]
      BY <3>2 DEF IsPiece
    <3>4. m.fid = f.fid /\ m.part = p.box /\ m.geom = f.geom
      BY <3>3
    <3>5. p.super = b /\ f.geom \subseteq Squares(p.box)
      BY <3>1 DEF Covers
    <3>6. IsPiece(m) /\ m.part \in Boxes /\ m.part \notin Supers
      BY <2>4, <3>1, <3>3, <3>4, <3>5 DEF IsPiece
    <3>7. Cut(m) = {}
      BY <3>6, Uncut
    <3>8. {Moved(f)} \union Cut(Moved(f)) = {m} /\ Offspring(f) = {m}
      BY <3>6, <3>7 DEF Offspring, m
    <3> QED
      BY <3>4, <3>5, <3>6, <3>8
  <2>7. CASE ~ \E p \in Fresh : Covers(p, f)
    <3>1. Moved(f) = f
      BY <2>7 DEF Moved
    <3> DEFINE part(p) == f.geom \cap Squares(p.box)
    <3>2. \A p : IsGeometry(part(p))
      <4> TAKE p
      <4>1. part(p) \subseteq f.geom
        OBVIOUS
      <4> HIDE DEF part
      <4> QED
        BY <4>1, FS_Subset DEF IsPiece, IsGeometry
    <3> HIDE DEF part
    <3>4. ASSUME NEW m \in Cut(f)
          PROVE  \E p \in Fresh : /\ p.super = b /\ m.geom \in Polygons(part(p)) /\ m.part = p.box /\ m.fid = f.fid
                                  /\ m = [fid |-> m.fid, part |-> m.part, geom |-> m.geom]
      <4>1. \E p \in Fresh : p.super = b /\ \E g \in Polygons(part(p)) : m = [fid |-> f.fid, part |-> p.box, geom |-> g]
        BY CutRows DEF part
      <4>2. PICK p \in Fresh : p.super = b /\ \E g \in Polygons(part(p)) : m = [fid |-> f.fid, part |-> p.box, geom |-> g]
        BY <4>1
      <4>3. PICK g \in Polygons(part(p)) : m = [fid |-> f.fid, part |-> p.box, geom |-> g]
        BY <4>2
      <4>4. m.fid = f.fid /\ m.part = p.box /\ m.geom = g
        BY <4>3
      <4> QED
        BY <4>2, <4>3, <4>4
    <3>5. ASSUME NEW p \in Fresh, p.super = b, NEW g \in Polygons(part(p))
          PROVE  \E m \in Cut(f) : m.geom = g
      <4> DEFINE m == [fid |-> f.fid, part |-> p.box, geom |-> g]
      <4>1. m.geom = g /\ m = [fid |-> f.fid, part |-> p.box, geom |-> g]
        OBVIOUS
      <4> HIDE DEF m
      <4>2. m \in Cut(f)
        BY <3>5, <4>1, CutRows DEF part
      <4> QED
        BY <4>1, <4>2
    <3>6. \A p : /\ UNION Polygons(part(p)) = part(p)
                 /\ \A g \in Polygons(part(p)) : g # {} /\ g \subseteq part(p) /\ IsGeometry(g)
                 /\ \A g, k \in Polygons(part(p)) : g # k => g \cap k = {}
      <4> TAKE p
      <4> DEFINE P == part(p)
      <4>1. IsGeometry(P)
        BY <3>2
      <4> HIDE DEF P
      <4>2. /\ UNION Polygons(P) = P
            /\ \A g \in Polygons(P) : g # {} /\ g \subseteq P /\ IsGeometry(g)
            /\ \A g, k \in Polygons(P) : g # k => g \cap k = {}
        BY <4>1, PolygonsPartition
      <4> QED
        BY <4>2 DEF P
    <3>12. \A p : part(p) \subseteq f.geom /\ part(p) \subseteq Squares(p.box) /\ \A c \in f.geom : c \in Squares(p.box) => c \in part(p)
      BY DEF part
    <3>7. \A m \in Cut(f) : /\ IsPiece(m) /\ m.part \in Boxes /\ m.part \notin Supers
                            /\ m.fid = f.fid /\ m.geom \subseteq f.geom /\ m.geom \subseteq Squares(m.part)
      <4> SUFFICES ASSUME NEW m \in Cut(f)
                   PROVE  /\ IsPiece(m) /\ m.part \in Boxes /\ m.part \notin Supers
                          /\ m.fid = f.fid /\ m.geom \subseteq f.geom /\ m.geom \subseteq Squares(m.part)
        OBVIOUS
      <4>1. PICK p \in Fresh : /\ p.super = b /\ m.geom \in Polygons(part(p)) /\ m.part = p.box /\ m.fid = f.fid
                               /\ m = [fid |-> m.fid, part |-> m.part, geom |-> m.geom]
        BY <3>4
      <4>2. m.geom # {} /\ IsGeometry(m.geom) /\ m.geom \subseteq part(p)
        BY <3>6, <3>12, <4>1
      <4>3. m.part \in Boxes /\ m.part \notin Supers
        BY <2>4, <4>1
      <4> QED
        BY <3>12, <4>1, <4>2, <4>3 DEF IsPiece
    <3>8. Offspring(f) = Cut(f)
      BY <1>2, <3>1, <3>7 DEF Offspring
    <3>9. ASSUME NEW c \in f.geom PROVE \E m \in Cut(f) : c \in m.geom
      <4>1. PICK h \in {l, u} : c \in Squares(h)
        BY <2>3
      <4>2. PICK p \in Fresh : p.super = b /\ p.box = h
        BY <2>5
      <4>3. PICK g \in Polygons(part(p)) : c \in g
        BY <3>6, <3>12, <4>1, <4>2
      <4> QED
        BY <3>5, <4>2, <4>3
    <3>10. ASSUME NEW m \in Cut(f), NEW n \in Cut(f), m # n PROVE m.geom \cap n.geom = {}
      <4>1. PICK p \in Fresh : /\ p.super = b /\ m.geom \in Polygons(part(p)) /\ m.part = p.box /\ m.fid = f.fid
                               /\ m = [fid |-> m.fid, part |-> m.part, geom |-> m.geom]
        BY <3>4
      <4>2. PICK q \in Fresh : /\ q.super = b /\ n.geom \in Polygons(part(q)) /\ n.part = q.box /\ n.fid = f.fid
                               /\ n = [fid |-> n.fid, part |-> n.part, geom |-> n.geom]
        BY <3>4
      <4>3. CASE p.box = q.box
        <5>1. m.geom # n.geom
          BY <3>10, <4>1, <4>2, <4>3
        <5>2. part(p) = part(q)
          BY <4>3 DEF part
        <5> QED
          BY <3>6, <4>1, <4>2, <5>1, <5>2
      <4>4. CASE p.box # q.box
        <5>1. Squares(p.box) \cap Squares(q.box) = {}
          BY <2>3, <2>4, <4>1, <4>2, <4>4
        <5>2. m.geom \subseteq Squares(p.box) /\ n.geom \subseteq Squares(q.box)
          BY <3>7, <4>1, <4>2
        <5> QED
          BY <5>1, <5>2
      <4> QED
        BY <4>3, <4>4
    <3>11. {Moved(f)} \union Cut(Moved(f)) = {f} \union Cut(f)
      BY <3>1
    <3> QED
      BY <3>7, <3>8, <3>9, <3>10, <3>11
  <2> QED
    BY <2>6, <2>7
<1> QED
  BY <1>1, <1>2

LEMMA StartsPieces == ASSUME OrderInv, PieceInv, MakePartition PROVE PieceInv'
<1>1. /\ partitions' = {[box |-> Extent, super |-> NoBox, vertices |-> Null]}
      /\ pieces' = UNION {{[fid |-> f, part |-> Extent, geom |-> g] : g \in Polygons(layer[f].geom)} : f \in Fid}
      /\ phase' = "npoints" /\ layer' = layer
  BY DEF MakePartition, Begin, StartPartitions, Still, Extent
<1>2. Area \subseteq Squares(Extent)
  BY ExtentIsBox
<1>3. \A f \in Fid : layer[f].geom \subseteq Area /\ IsGeometry(layer[f].geom)
  BY AreaIsGeometry
<1> HIDE DEF Extent
<1>4. Boxes' = {Extent}
  BY <1>1 DEF Boxes
<1>5. \A f \in Fid : /\ UNION Polygons(layer[f].geom) = layer[f].geom
                     /\ \A g \in Polygons(layer[f].geom) : g # {} /\ g \subseteq layer[f].geom /\ IsGeometry(g)
                     /\ \A g, k \in Polygons(layer[f].geom) : g # k => g \cap k = {}
  BY <1>3, PolygonsPartition
<1> DEFINE Rows(f) == {[fid |-> f, part |-> Extent, geom |-> g] : g \in Polygons(layer[f].geom)}
<1>6. pieces' = UNION {Rows(f) : f \in Fid}
  BY <1>1
<1>7. ASSUME NEW f \in Fid, NEW m \in Rows(f)
      PROVE  /\ m.fid = f /\ m.part = Extent /\ m.geom \in Polygons(layer[f].geom)
             /\ m = [fid |-> m.fid, part |-> m.part, geom |-> m.geom]
  OBVIOUS
<1>8. ASSUME NEW f \in Fid, NEW g \in Polygons(layer[f].geom) PROVE \E m \in Rows(f) : m.fid = f /\ m.geom = g
  <2> DEFINE m == [fid |-> f, part |-> Extent, geom |-> g]
  <2>1. m \in Rows(f) /\ m.fid = f /\ m.geom = g
    OBVIOUS
  <2> HIDE DEF m, Rows
  <2> QED
    BY <2>1
<1> HIDE DEF Rows
<1>9. \A m \in pieces' : IsPiece(m) /\ m.part \in Boxes' /\ m.geom \subseteq Squares(m.part) /\ m.geom \in Polygons(layer[m.fid].geom)
  BY <1>2, <1>3, <1>4, <1>5, <1>6, <1>7 DEF IsPiece
<1>10. Whole(pieces)'
  <2> SUFFICES ASSUME NEW f \in Fid PROVE UNION {g.geom : g \in {h \in pieces' : h.fid = f}} = layer[f].geom
    BY <1>1 DEF Whole
  <2>1. ASSUME NEW c \in layer[f].geom PROVE \E h \in pieces' : h.fid = f /\ c \in h.geom
    <3>1. PICK g \in Polygons(layer[f].geom) : c \in g
      BY <1>5
    <3>2. PICK m \in Rows(f) : m.fid = f /\ m.geom = g
      BY <1>8
    <3> QED
      BY <1>6, <3>1, <3>2
  <2>2. \A h \in pieces' : h.fid = f => h.geom \subseteq layer[f].geom
    BY <1>5, <1>9
  <2> QED
    BY <2>1, <2>2
<1>11. Fit(pieces)'
  <2> SUFFICES ASSUME NEW g \in pieces', NEW h \in pieces', g # h, g.fid = h.fid PROVE g.geom \cap h.geom = {}
    BY <1>9 DEF Fit
  <2>1. PICK f \in Fid : g \in Rows(f)
    BY <1>6
  <2>2. PICK k \in Fid : h \in Rows(k)
    BY <1>6
  <2>3. f = k /\ g.geom # h.geom
    BY <1>7, <2>1, <2>2
  <2> QED
    BY <1>5, <1>7, <2>1, <2>2, <2>3
<1> QED
  BY <1>1, <1>9, <1>10, <1>11 DEF PieceInv

LEMMA FillsPieces == ASSUME OrderInv, CutInv, PieceInv, FillPartitions PROVE PieceInv'
<1>1. /\ phase = "fill" /\ phase' = "delete" /\ layer' = layer /\ partitions' = partitions
      /\ pieces' = {Moved(f) : f \in pieces} \union UNION {Cut(f) : f \in {Moved(g) : g \in pieces}}
  BY DEF FillPartitions, FillSubpartitions, Still
<1>2. Boxes' = Boxes /\ Supers' = Supers /\ Begun
  BY <1>1 DEF Boxes, Supers, Begun, Cutting
<1>3. Whole(pieces) /\ Fit(pieces) /\ \A f \in pieces : IsPiece(f) /\ f.part \in Boxes
  BY <1>1, <1>2 DEF PieceInv
<1> DEFINE Filled(f) == {Moved(f)} \union Cut(Moved(f))
<1>4. pieces' = UNION {Filled(f) : f \in pieces}
  <2> DEFINE M(f) == Moved(f)
             C(f) == Cut(f)
  <2>1. pieces' = {M(f) : f \in pieces} \union UNION {C(f) : f \in {M(g) : g \in pieces}}
    BY <1>1
  <2>2. \A f : Filled(f) = {M(f)} \union C(M(f))
    OBVIOUS
  <2> HIDE DEF M, C, Filled
  <2> QED
    BY <2>1, <2>2
<1>5. ASSUME NEW f \in pieces
      PROVE  /\ \A m \in Filled(f) : IsPiece(m) /\ m.part \in Boxes /\ m.fid = f.fid /\ m.geom \subseteq f.geom
             /\ \A m \in Offspring(f) : m.geom \subseteq Squares(m.part)
             /\ \A c \in f.geom : \E m \in Offspring(f) : c \in m.geom
             /\ \A m, n \in Offspring(f) : m # n => m.geom \cap n.geom = {}
  BY <1>1, <1>3, PieceIsFilled DEF Fit
<1>6. \A f : Offspring(f) = {m \in Filled(f) : m.part \notin Supers}
  BY DEF Offspring
<1> HIDE DEF Filled
<1>7. Kept' = UNION {Offspring(f) : f \in pieces} /\ Kept' \subseteq pieces'
  BY <1>2, <1>4, <1>6 DEF Kept
<1>8. \A m \in pieces' : \E f \in pieces : m.fid = f.fid /\ m.geom \subseteq f.geom
  BY <1>4, <1>5
<1>9. \A f \in pieces : \A c \in f.geom : \E m \in Kept' : m.fid = f.fid /\ c \in m.geom
  <2> SUFFICES ASSUME NEW f \in pieces, NEW c \in f.geom PROVE \E m \in Kept' : m.fid = f.fid /\ c \in m.geom
    OBVIOUS
  <2>1. PICK m \in Offspring(f) : c \in m.geom
    BY <1>5
  <2>2. m.fid = f.fid
    BY <1>5, <1>6
  <2> QED
    BY <1>7, <2>1, <2>2
<1>10. ASSUME NEW P, Kept' \subseteq P, P \subseteq pieces' PROVE \A f \in Fid : UNION {g.geom : g \in {h \in P : h.fid = f}} = layer[f].geom
  <2> SUFFICES ASSUME NEW f \in Fid PROVE UNION {g.geom : g \in {h \in P : h.fid = f}} = layer[f].geom
    OBVIOUS
  <2>1. UNION {g.geom : g \in {h \in pieces : h.fid = f}} = layer[f].geom
    BY <1>3 DEF Whole
  <2>2. ASSUME NEW c \in layer[f].geom PROVE \E m \in P : m.fid = f /\ c \in m.geom
    <3>1. PICK g \in pieces : g.fid = f /\ c \in g.geom
      BY <2>1
    <3>2. PICK m \in Kept' : m.fid = f /\ c \in m.geom
      BY <1>9, <3>1
    <3> QED
      BY <1>10, <3>2
  <2>3. ASSUME NEW m \in P, m.fid = f PROVE m.geom \subseteq layer[f].geom
    <3>1. PICK g \in pieces : m.fid = g.fid /\ m.geom \subseteq g.geom
      BY <1>8, <1>10
    <3>2. g.geom \subseteq layer[f].geom
      BY <2>1, <2>3, <3>1
    <3> QED
      BY <3>1, <3>2
  <2> QED
    BY <2>2, <2>3
<1>11. Whole(pieces)' /\ Whole(Kept)'
  <2>1. \A f \in Fid : UNION {g.geom : g \in {h \in pieces' : h.fid = f}} = layer'[f].geom
    BY <1>1, <1>7, <1>10
  <2>2. \A f \in Fid : UNION {g.geom : g \in {h \in Kept' : h.fid = f}} = layer'[f].geom
    BY <1>1, <1>7, <1>10
  <2> QED
    BY <2>1, <2>2 DEF Whole
<1>12. Fit(Kept)'
  <2>1. \A m \in Kept' : m.geom \subseteq Squares(m.part)
    BY <1>5, <1>7
  <2>2. ASSUME NEW m \in Kept', NEW n \in Kept', m # n, m.fid = n.fid PROVE m.geom \cap n.geom = {}
    <3>1. PICK f \in pieces : m \in Offspring(f)
      BY <1>7
    <3>2. PICK g \in pieces : n \in Offspring(g)
      BY <1>7
    <3>3. /\ m.fid = f.fid /\ m.geom \subseteq f.geom
          /\ n.fid = g.fid /\ n.geom \subseteq g.geom
      BY <1>5, <1>6, <3>1, <3>2
    <3>4. CASE f = g
      BY <1>5, <2>2, <3>1, <3>2, <3>4
    <3>5. CASE f # g
      <4>1. f.geom \cap g.geom = {}
        BY <1>3, <2>2, <3>3, <3>5 DEF Fit
      <4> QED
        BY <3>3, <4>1
    <3> QED
      BY <3>4, <3>5
  <2> QED
    BY <2>1, <2>2 DEF Fit
<1>13. \A m \in pieces' : IsPiece(m) /\ m.part \in Boxes'
  BY <1>2, <1>4, <1>5
<1> QED
  BY <1>1, <1>11, <1>12, <1>13 DEF PieceInv

LEMMA DeletesPieces == ASSUME OrderInv, CutInv, PieceInv, DeletePartitions PROVE PieceInv'
<1>1. /\ partitions' = {p \in partitions : p.box \notin Supers} /\ pieces' = Kept
      /\ phase = "delete" /\ phase' = "npoints" /\ layer' = layer
  BY DEF DeletePartitions, DeleteSuperitems, Still, Kept
<1>2. Boxes' = Boxes \ Supers
  BY <1>1 DEF Boxes
<1>3. Whole(Kept) /\ Fit(Kept) /\ \A f \in Kept : IsPiece(f) /\ f.part \in Boxes \ Supers
  BY <1>1 DEF PieceInv, Kept
<1> HIDE DEF Kept
<1>4. Whole(pieces)' /\ Fit(pieces)'
  BY <1>1, <1>3 DEF Whole, Fit
<1> QED
  BY <1>1, <1>2, <1>3, <1>4 DEF PieceInv

(* Pieces stay true where they and the boxes' rows are left alone.          *)
LEMMA KeepsPieces ==
    ASSUME OrderInv, PieceInv, pieces' = pieces, layer' = layer, Boxes \subseteq Boxes',
           phase # "delete", phase' # "delete", Begun' => Begun
    PROVE  PieceInv'
<1>1. Whole(pieces)' <=> Whole(pieces)
  BY DEF Whole
<1>2. Fit(pieces)' <=> Fit(pieces)
  BY DEF Fit
<1> QED
  BY <1>1, <1>2 DEF PieceInv

LEMMA PiecesHold == Spec => []PieceInv
<1>1. Init => PieceInv
  BY DEF Init, PieceInv, Begun, Cutting, Fit
<1>2. OrderInv /\ CutInv /\ PieceInv /\ [Next]_vars => PieceInv'
  <2> SUFFICES ASSUME OrderInv, CutInv, PieceInv, [Next]_vars PROVE PieceInv'
    OBVIOUS
  <2>1. Steps
    BY StepsKeep
  <2>2. CASE CountVertices
    <3>1. /\ partitions' = {IF p.vertices = Null THEN [p EXCEPT !.vertices = Vertices(p.box)] ELSE p : p \in partitions}
          /\ phase = "npoints" /\ phase' = "split" /\ layer' = layer /\ pieces' = pieces
      BY <2>2 DEF CountVertices, UpdateNpoints, Still
    <3>2. Boxes \subseteq Boxes'
      <4> SUFFICES ASSUME NEW p \in partitions PROVE p.box \in Boxes'
        BY DEF Boxes
      <4> DEFINE v == Vertices(p.box)
                 q == IF p.vertices = Null THEN [p EXCEPT !.vertices = v] ELSE p
      <4>1. q \in partitions'
        BY <3>1
      <4>2. p = [box |-> p.box, super |-> p.super, vertices |-> p.vertices]
        BY DEF CutInv, IsPartition
      <4> HIDE DEF v
      <4>3. q.box = p.box
        BY <4>2
      <4> HIDE DEF q
      <4> QED
        BY <4>1, <4>3 DEF Boxes
    <3> QED
      BY <3>1, <3>2, KeepsPieces DEF Begun, Cutting
  <2>3. CASE SplitPartitions
    <3>1. /\ partitions' = partitions \union Subpartitions /\ pieces' = pieces /\ layer' = layer
          /\ phase = "split" /\ phase' # "delete"
      BY <2>3 DEF SplitPartitions, Finish, Still
    <3>2. Boxes \subseteq Boxes'
      BY <3>1 DEF Boxes
    <3> QED
      BY <3>1, <3>2, KeepsPieces DEF Begun, Cutting
  <2>4. CASE partitions' = partitions /\ pieces' = pieces /\ Away(Cutting) /\ Same("partition")
    <3>1. Boxes' = Boxes /\ Supers' = Supers /\ (Begun' <=> Begun) /\ layer' = layer
      BY <2>1, <2>4 DEF Boxes, Supers, Begun, Away, Same, Steps
    <3>2. Kept' = Kept
      BY <2>4, <3>1 DEF Kept
    <3>3. (Whole(pieces)' <=> Whole(pieces)) /\ (Whole(Kept)' <=> Whole(Kept))
      BY <2>4, <3>1, <3>2 DEF Whole
    <3>4. (Fit(pieces)' <=> Fit(pieces)) /\ (Fit(Kept)' <=> Fit(Kept))
      BY <2>4, <3>2 DEF Fit
    <3> QED
      BY <2>4, <3>1, <3>3, <3>4 DEF PieceInv, Away, Cutting
  <2> QED
    BY <2>1, <2>2, <2>3, <2>4, StartsPieces, FillsPieces, DeletesPieces DEF Steps, Partitioning
<1> QED
  BY <1>1, <1>2, OrderHolds, CutHolds, PTL DEF Spec

(* The layer is cut, however often, into partitions that tile it and hold   *)
(* all of its features, and none has too many vertices unless it is one     *)
(* cell of the grid.                                                        *)
THEOREM PartitionsMakeLayer == Spec => []PartitionedLayerIsTrue
<1>1. OrderInv /\ CutInv /\ PieceInv => PartitionedLayerIsTrue
  <2> SUFFICES ASSUME OrderInv, CutInv, PieceInv PROVE PartitionedLayerIsTrue
    OBVIOUS
  <2>1. PartitionsTile
    <3> SUFFICES ASSUME partitions # {}
                 PROVE  LET leaves == {p.box : p \in {q \in partitions : q.box \notin Supers}}
                        IN  /\ UNION {Squares(b) : b \in leaves} = Squares(ExpandBox(BoxOf(Area)))
                            /\ \A b, d \in leaves : b # d => Squares(b) \cap Squares(d) = {}
      BY DEF PartitionsTile
    <3>1. Tiles(Leaves, Squares(Extent))
      BY DEF CutInv
    <3>2. Leaves = {p.box : p \in {q \in partitions : q.box \notin Supers}}
      BY DEF Leaves, Boxes
    <3> QED
      BY <3>1, <3>2 DEF Tiles, Extent
  <2>2. PiecesMakeFeatures
    <3> SUFFICES ASSUME partitions # {}
                 PROVE  /\ Whole(pieces)
                        /\ phase \notin {"fill", "delete"} => Fit(pieces)
      BY DEF PiecesMakeFeatures, Whole, Fit
    <3> QED
      BY DEF CutInv, PieceInv
  <2>3. NoneTooLarge
    <3> SUFFICES ASSUME "partition" \in made, NEW p \in partitions, p.vertices > MaxVertices
                 PROVE  p.box.x2 - p.box.x1 = GridSize /\ p.box.y2 - p.box.y1 = GridSize
      BY DEF NoneTooLarge
    <3>1. Halves(p.box) = {} /\ IsBox(p.box)
      BY DEF CutInv, IsPartition
    <3> QED
      BY <3>1, NoHalves
  <2> QED
    BY <2>1, <2>2, <2>3 DEF PartitionedLayerIsTrue
<1> QED
  BY <1>1, OrderHolds, CutHolds, PiecesHold, PTL

-----------------------------------------------------------------------------
(* What is computed from the partitions finds them as they were left.       *)

LEMMA Settled ==
    ASSUME OrderInv, [Next]_vars, "partition" \in made
    PROVE  partitions' = partitions /\ pieces' = pieces /\ layer' = layer /\ boundary' = boundary
<1>1. Steps
  BY StepsKeep
<1>2. ~Partitioning
  <2>1. ~Making("partition")
    BY NeededBefore
  <2>2. phase \notin Cutting
    BY DEF OrderInv
  <2> QED
    BY <2>1, <2>2 DEF Partitioning, MakePartition, Begin, CountVertices, SplitPartitions, FillPartitions,
                      DeletePartitions, Cutting
<1> QED
  BY <1>1, <1>2 DEF Steps

LEMMA CutAtLast ==
    ASSUME OrderInv, CutInv, PieceInv, "partition" \in made
    PROVE  /\ Tiles(Boxes, Squares(Extent)) /\ Whole(pieces) /\ Fit(pieces)
           /\ \A f \in pieces : IsPiece(f) /\ f.part \in Boxes
<1>1. phase \notin Cutting
  BY DEF OrderInv
<1>2. Boxes = Leaves
  BY <1>1 DEF CutInv, Leaves, Cutting
<1> QED
  BY <1>1, <1>2 DEF CutInv, PieceInv, Begun, Cutting

(* The pieces in a partition are the part of the area that is in it.        *)
LEMMA PiecesFillBox ==
    ASSUME OrderInv, CutInv, PieceInv, "partition" \in made, NEW b \in Boxes
    PROVE  UNION {f.geom : f \in PiecesIn(b)} = Area \cap Squares(b)
<1>1. /\ Tiles(Boxes, Squares(Extent)) /\ Whole(pieces) /\ Fit(pieces)
      /\ \A f \in pieces : IsPiece(f) /\ f.part \in Boxes
  BY CutAtLast
<1>2. ASSUME NEW f \in PiecesIn(b) PROVE f.geom \subseteq Area \cap Squares(b)
  <2>1. f \in pieces /\ f.part = b
    BY DEF PiecesIn
  <2>2. f.geom \subseteq layer[f.fid].geom /\ f.fid \in Fid
    BY <1>1, <2>1 DEF Whole, IsPiece
  <2>3. f.geom \subseteq Area
    BY <2>2 DEF Area
  <2> QED
    BY <1>1, <2>1, <2>3 DEF Fit
<1>3. ASSUME NEW c \in Area, c \in Squares(b) PROVE \E f \in PiecesIn(b) : c \in f.geom
  <2>1. PICK f \in Fid : c \in layer[f].geom
    BY DEF Area
  <2>2. PICK g \in pieces : g.fid = f /\ c \in g.geom
    BY <1>1, <2>1 DEF Whole
  <2>3. c \in Squares(g.part) /\ g.part \in Boxes
    BY <1>1, <2>2 DEF Fit
  <2>4. g.part = b
    BY <1>1, <1>3, <2>3 DEF Tiles
  <2> QED
    BY <2>2, <2>4 DEF PiecesIn
<1> QED
  BY <1>2, <1>3

-----------------------------------------------------------------------------
(* The covered and the uncovered part of each partition.                    *)

InteriorInv == "interior" \in made => \A b \in Boxes : InteriorOf(b) = Area \cap Squares(b)

ExteriorInv == "exterior" \in made => UNION {e.geom : e \in exterior} = Squares(Extent) \ Area

LEMMA InteriorHolds == Spec => []InteriorInv
<1>1. Init => InteriorInv
  BY DEF Init, InteriorInv
<1>2. OrderInv /\ CutInv /\ PieceInv /\ InteriorInv /\ [Next]_vars => InteriorInv'
  <2> SUFFICES ASSUME OrderInv, CutInv, PieceInv, InteriorInv, [Next]_vars, "interior" \in made'
               PROVE  \A b \in Boxes' : InteriorOf(b)' = Area' \cap Squares(b)
    BY DEF InteriorInv
  <2>1. Steps
    BY StepsKeep
  <2>2. "partition" \in made
    <3>1. "interior" \in made \/ Making("interior")
      BY <2>1 DEF Steps, Same, MakeInterior, AtOnce
    <3> QED
      BY <3>1, NeededBefore DEF OrderInv
  <2>3. partitions' = partitions /\ pieces' = pieces /\ Boxes' = Boxes /\ Area' = Area
    <3>1. partitions' = partitions /\ pieces' = pieces /\ layer' = layer
      BY <2>2, Settled
    <3> QED
      BY <3>1 DEF Boxes, Area
  <2>4. CASE MakeInterior
    <3>1. interior' = {[part |-> p.box, geom |-> UNION {f.geom : f \in PiecesIn(p.box)}] :
                          p \in {q \in partitions : PiecesIn(q.box) # {}}}
      BY <2>4 DEF MakeInterior, FillInterior
    <3> DEFINE part(b) == UNION {f.geom : f \in PiecesIn(b)}
    <3>2. \A b \in Boxes : part(b) = Area \cap Squares(b) /\ (PiecesIn(b) = {} => part(b) = {})
      BY <2>2, PiecesFillBox
    <3>3. interior' = {[part |-> p.box, geom |-> part(p.box)] : p \in {q \in partitions : PiecesIn(q.box) # {}}}
      BY <3>1
    <3> HIDE DEF part
    <3>4. \A r \in interior' : r.geom = part(r.part)
      BY <3>3
    <3>5. ASSUME NEW b \in Boxes, PiecesIn(b) # {} PROVE \E r \in interior' : r.part = b
      <4>1. PICK p \in partitions : p.box = b
        BY DEF Boxes
      <4> DEFINE r == [part |-> p.box, geom |-> part(p.box)]
      <4>2. r \in interior' /\ r.part = b
        BY <3>3, <3>5, <4>1
      <4> HIDE DEF r
      <4> QED
        BY <4>2
    <3>6. ASSUME NEW b \in Boxes PROVE InteriorOf(b)' = part(b)
      <4>1. InteriorOf(b)' = UNION {r.geom : r \in {q \in interior' : q.part = b}}
        BY DEF InteriorOf
      <4> QED
        BY <3>2, <3>4, <3>5, <4>1
    <3> QED
      BY <2>3, <3>2, <3>6
  <2>5. CASE interior' = interior /\ Same("interior")
    <3>1. \A b : InteriorOf(b)' = InteriorOf(b)
      BY <2>5 DEF InteriorOf
    <3> QED
      BY <2>3, <2>5, <3>1 DEF InteriorInv, Same
  <2> QED
    BY <2>1, <2>4, <2>5 DEF Steps
<1> QED
  BY <1>1, <1>2, OrderHolds, CutHolds, PiecesHold, PTL DEF Spec

LEMMA ExteriorHolds == Spec => []ExteriorInv
<1>1. Init => ExteriorInv
  BY DEF Init, ExteriorInv
<1>2. OrderInv /\ CutInv /\ PieceInv /\ InteriorInv /\ ExteriorInv /\ [Next]_vars => ExteriorInv'
  <2> SUFFICES ASSUME OrderInv, CutInv, PieceInv, InteriorInv, ExteriorInv, [Next]_vars, "exterior" \in made'
               PROVE  UNION {e.geom : e \in exterior'} = Squares(Extent') \ Area'
    BY DEF ExteriorInv
  <2>1. Steps
    BY StepsKeep
  <2>2. "partition" \in made /\ "interior" \in made
    <3>1. "exterior" \in made \/ Making("exterior")
      BY <2>1 DEF Steps, Same, MakeExterior, AtOnce
    <3> QED
      BY <3>1, NeededBefore DEF OrderInv
  <2>3. Extent' = Extent /\ Area' = Area
    <3>1. layer' = layer
      BY <2>2, Settled
    <3> QED
      BY <3>1 DEF Extent, Area
  <2>4. CASE MakeExterior
    <3>1. exterior' = {r \in {[part |-> p.box, geom |-> Squares(p.box) \ InteriorOf(p.box)] : p \in partitions} : r.geom # {}}
      BY <2>4 DEF MakeExterior, FillExterior
    <3>2. Tiles(Boxes, Squares(Extent))
      BY <2>2, CutAtLast
    <3>3. \A b \in Boxes : Squares(b) \ InteriorOf(b) = Squares(b) \ Area
      BY <2>2 DEF InteriorInv
    <3>4. ASSUME NEW e \in exterior' PROVE e.geom \subseteq Squares(Extent) \ Area
      <4>1. PICK p \in partitions : e = [part |-> p.box, geom |-> Squares(p.box) \ InteriorOf(p.box)]
        BY <3>1
      <4>2. e.geom = Squares(p.box) \ InteriorOf(p.box) /\ p.box \in Boxes
        BY <4>1 DEF Boxes
      <4> QED
        BY <3>2, <3>3, <4>2 DEF Tiles
    <3>5. ASSUME NEW c \in Squares(Extent) \ Area PROVE \E e \in exterior' : c \in e.geom
      <4>1. PICK b \in Boxes : c \in Squares(b)
        BY <3>2 DEF Tiles
      <4>2. PICK p \in partitions : p.box = b
        BY DEF Boxes
      <4> DEFINE e == [part |-> p.box, geom |-> Squares(p.box) \ InteriorOf(p.box)]
      <4>3. e.geom = Squares(b) \ Area /\ c \in e.geom
        BY <3>3, <4>1, <4>2
      <4>4. e \in exterior'
        BY <3>1, <4>3
      <4> HIDE DEF e
      <4> QED
        BY <4>3, <4>4
    <3> QED
      BY <2>3, <3>4, <3>5
  <2>5. CASE exterior' = exterior /\ Same("exterior")
    BY <2>3, <2>5 DEF ExteriorInv, Same
  <2> QED
    BY <2>1, <2>4, <2>5 DEF Steps
<1> QED
  BY <1>1, <1>2, OrderHolds, CutHolds, PiecesHold, InteriorHolds, PTL DEF Spec

-----------------------------------------------------------------------------
(* Marginal features.                                                       *)

LEMMA TouchesUncovered ==
    ASSUME OrderInv, CutInv, PieceInv, ExteriorInv, "partition" \in made, "exterior" \in made, NEW f \in Fid
    PROVE  /\ Touches(f, Sides) <=> f \in Outer(Sides)
           /\ Touches(f, Around) <=> f \in Outer(Around)
<1>1. Whole(pieces)
  BY CutAtLast
<1>2. UNION {g.geom : g \in {h \in pieces : h.fid = f}} = layer[f].geom
  BY <1>1 DEF Whole
<1>3. UNION {e.geom : e \in exterior} = Squares(Extent) \ Area
  BY DEF ExteriorInv
<1>4. \A c \in layer[f].geom : Sides(c) \subseteq Squares(Extent) /\ Around(c) \subseteq Squares(Extent)
  <2>1. layer[f].geom \subseteq Area
    BY DEF Area
  <2> QED
    BY <2>1, ExtentIsBox
<1>5. Touches(f, Sides) <=> f \in Outer(Sides)
  <2>1. ASSUME Touches(f, Sides) PROVE f \in Outer(Sides)
    <3>1. PICK g \in pieces, e \in exterior : g.fid = f /\ \E c \in g.geom : Sides(c) \cap e.geom # {}
      BY <2>1 DEF Touches
    <3>2. PICK c \in g.geom, d \in e.geom : d \in Sides(c)
      BY <3>1
    <3>3. c \in layer[f].geom /\ d \notin Area
      BY <1>2, <1>3, <3>1, <3>2
    <3> QED
      BY <3>2, <3>3 DEF Outer
  <2>2. ASSUME f \in Outer(Sides) PROVE Touches(f, Sides)
    <3>1. PICK c \in layer[f].geom : \E d \in Sides(c) : d \notin Area
      BY <2>2 DEF Outer
    <3>2. PICK d \in Sides(c) : d \notin Area
      BY <3>1
    <3>3. PICK e \in exterior : d \in e.geom
      BY <1>3, <1>4, <3>2
    <3>4. PICK g \in pieces : g.fid = f /\ c \in g.geom
      BY <1>2
    <3> QED
      BY <3>2, <3>3, <3>4 DEF Touches
  <2> QED
    BY <2>1, <2>2
<1>6. Touches(f, Around) <=> f \in Outer(Around)
  <2>1. ASSUME Touches(f, Around) PROVE f \in Outer(Around)
    <3>1. PICK g \in pieces, e \in exterior : g.fid = f /\ \E c \in g.geom : Around(c) \cap e.geom # {}
      BY <2>1 DEF Touches
    <3>2. PICK c \in g.geom, d \in e.geom : d \in Around(c)
      BY <3>1
    <3>3. c \in layer[f].geom /\ d \notin Area
      BY <1>2, <1>3, <3>1, <3>2
    <3> QED
      BY <3>2, <3>3 DEF Outer
  <2>2. ASSUME f \in Outer(Around) PROVE Touches(f, Around)
    <3>1. PICK c \in layer[f].geom : \E d \in Around(c) : d \notin Area
      BY <2>2 DEF Outer
    <3>2. PICK d \in Around(c) : d \notin Area
      BY <3>1
    <3>3. PICK e \in exterior : d \in e.geom
      BY <1>3, <1>4, <3>2
    <3>4. PICK g \in pieces : g.fid = f /\ c \in g.geom
      BY <1>2
    <3> QED
      BY <3>2, <3>3, <3>4 DEF Touches
  <2> QED
    BY <2>1, <2>2
<1> QED
  BY <1>5, <1>6

-----------------------------------------------------------------------------
(* Neighbours.                                                              *)

\* Of features that do not overlap, the table has those with a common side,
\* and has them with dimension 1.
NeighbourInv ==
    "neighbour" \in made =>
        \A f, g \in Fid :
            f # g /\ Disjoint(f, g) =>
                /\ CommonSides(layer[f].geom, layer[g].geom) # {}
                      <=> [fida |-> f, fidb |-> g, dim |-> 1] \in neighbours
                /\ \A r \in neighbours : r.fida = f /\ r.fidb = g => r = [fida |-> f, fidb |-> g, dim |-> 1]

LEMMA SidesAreMutual ==
    ASSUME NEW P, NEW Q, IsGeometry(P), IsGeometry(Q), CommonSides(P, Q) # {}
    PROVE  CommonSides(Q, P) # {}
<1>1. PICK e \in (P \ Q) \X (Q \ P) : e[2] \in Sides(e[1])
  BY DEF CommonSides
<1>2. e[1] \in P \ Q /\ e[2] \in Q \ P
  BY <1>1
<1>3. e[1] \in Int \X Int /\ e[2] \in Int \X Int
  BY <1>2 DEF IsGeometry
<1>4. e[1] \in Sides(e[2])
  BY <1>1, <1>3, SidesGoBothWays
<1> DEFINE d == <<e[2], e[1]>>
<1>5. d \in (Q \ P) \X (P \ Q) /\ d[2] \in Sides(d[1])
  BY <1>2, <1>4
<1> HIDE DEF d
<1> QED
  BY <1>5 DEF CommonSides

(* Wherever the partitions cut two features that do not overlap, some of    *)
(* their pieces have a common side exactly if the features have one.        *)
LEMMA PiecesShareSides ==
    ASSUME OrderInv, CutInv, PieceInv, "partition" \in made, NEW a \in Fid, NEW b \in Fid, Disjoint(a, b)
    PROVE  /\ \A pq \in PiecePairs(a, b) : pq[1] \cap pq[2] = {}
           /\ (\E pq \in PiecePairs(a, b) : CommonSides(pq[1], pq[2]) # {})
                 <=> CommonSides(layer[a].geom, layer[b].geom) # {}
<1> DEFINE A == layer[a].geom
           B == layer[b].geom
           As == {f.geom : f \in {g \in pieces : g.fid = a}}
           Bs == {f.geom : f \in {g \in pieces : g.fid = b}}
<1>1. UNION As = A /\ UNION Bs = B /\ A \cap B = {}
  BY CutAtLast DEF Whole, Disjoint
<1>2. \A P \in As \union Bs : IsGeometry(P)
  BY CutAtLast DEF IsPiece
<1>3. PiecePairs(a, b) = {pq \in As \X Bs : BoxesMeet(pq[1], pq[2])}
  BY DEF PiecePairs
<1> HIDE DEF A, B, As, Bs
<1>4. \A pq \in PiecePairs(a, b) : pq[1] \in As /\ pq[2] \in Bs
  BY <1>3
<1>5. \A pq \in PiecePairs(a, b) : pq[1] \cap pq[2] = {}
  BY <1>1, <1>4
<1>6. ASSUME NEW pq \in PiecePairs(a, b), CommonSides(pq[1], pq[2]) # {} PROVE CommonSides(A, B) # {}
  <2>1. PICK e \in (pq[1] \ pq[2]) \X (pq[2] \ pq[1]) : e[2] \in Sides(e[1])
    BY <1>6 DEF CommonSides
  <2>2. e \in (A \ B) \X (B \ A)
    BY <1>1, <1>4, <2>1
  <2> QED
    BY <2>1, <2>2 DEF CommonSides
<1>7. ASSUME CommonSides(A, B) # {} PROVE \E pq \in PiecePairs(a, b) : CommonSides(pq[1], pq[2]) # {}
  <2>1. PICK e \in (A \ B) \X (B \ A) : e[2] \in Sides(e[1])
    BY <1>7 DEF CommonSides
  <2>2. PICK P \in As : e[1] \in P
    BY <1>1, <2>1
  <2>3. PICK Q \in Bs : e[2] \in Q
    BY <1>1, <2>1
  <2>4. BoxesMeet(P, Q)
    BY <1>2, <2>1, <2>2, <2>3, TouchingBoxesMeet
  <2> DEFINE pq == <<P, Q>>
  <2>5. pq \in PiecePairs(a, b) /\ pq[1] = P /\ pq[2] = Q
    BY <1>3, <2>4
  <2>6. P \cap Q = {} /\ e \in (P \ Q) \X (Q \ P)
    <3>1. P \cap Q = {}
      BY <1>1
    <3> QED
      BY <2>1, <2>2, <2>3, <3>1
  <2>7. CommonSides(P, Q) # {}
    BY <2>1, <2>6 DEF CommonSides
  <2> HIDE DEF pq
  <2> QED
    BY <2>5, <2>7
<1> QED
  BY <1>5, <1>6, <1>7 DEF A, B

LEMMA OneIsMax ==
    ASSUME NEW D, D \subseteq {0, 1}, 1 \in D
    PROVE  Max(D) = 1
<1>1. \E x \in D : \A y \in D : x >= y
  <2>1. \A y \in D : 1 >= y
    OBVIOUS
  <2> QED
    BY <2>1
<1>2. Max(D) \in D /\ \A y \in D : Max(D) >= y
  BY <1>1 DEF Max
<1> DEFINE m == Max(D)
<1>3. m \in {0, 1} /\ m >= 1
  BY <1>2
<1> HIDE DEF m
<1>4. m = 1
  BY <1>3
<1> QED
  BY <1>4 DEF m

LEMMA MakesNeighbours ==
    ASSUME OrderInv, CutInv, PieceInv, MakeNeighbours, "partition" \in made,
           NEW f \in Fid, NEW g \in Fid, f # g, Disjoint(f, g)
    PROVE  /\ CommonSides(layer[f].geom, layer[g].geom) # {}
                 <=> [fida |-> f, fidb |-> g, dim |-> 1] \in neighbours'
           /\ \A r \in neighbours' : r.fida = f /\ r.fidb = g => r = [fida |-> f, fidb |-> g, dim |-> 1]
<1> DEFINE common(p) == PiecePairs(p[1], p[2])
           kept == {p \in Pair : \E pq \in common(p) : CommonSides(pq[1], pq[2]) # {}}
           dim(p) == Max({Dimension(pq[1], pq[2]) : pq \in common(p)})
<1>1. neighbours' = {[fida |-> p[1], fidb |-> p[2], dim |-> dim(p)] : p \in kept} \union
                    {[fida |-> p[2], fidb |-> p[1], dim |-> dim(p)] : p \in kept}
  BY DEF MakeNeighbours, FillNeighbours
<1>2. ASSUME NEW p \in Pair, Disjoint(p[1], p[2])
      PROVE  /\ p \in kept <=> CommonSides(layer[p[1]].geom, layer[p[2]].geom) # {}
             /\ p \in kept => dim(p) = 1
  <2>1. p[1] \in Fid /\ p[2] \in Fid
    BY DEF Pair
  <2>2. /\ \A pq \in common(p) : pq[1] \cap pq[2] = {}
        /\ (\E pq \in common(p) : CommonSides(pq[1], pq[2]) # {})
                 <=> CommonSides(layer[p[1]].geom, layer[p[2]].geom) # {}
    BY <1>2, <2>1, PiecesShareSides
  <2>3. ASSUME p \in kept PROVE dim(p) = 1
    <3> DEFINE D == {Dimension(pq[1], pq[2]) : pq \in common(p)}
    <3>1. D \subseteq {0, 1}
      BY <2>2 DEF Dimension
    <3>2. 1 \in D
      <4>1. PICK pq \in common(p) : CommonSides(pq[1], pq[2]) # {}
        BY <2>3
      <4>2. Dimension(pq[1], pq[2]) = 1
        BY <2>2, <4>1 DEF Dimension
      <4> QED
        BY <4>2
    <3>3. dim(p) = Max(D)
      OBVIOUS
    <3> HIDE DEF D, dim
    <3> QED
      BY <3>1, <3>2, <3>3, OneIsMax
  <2> QED
    BY <2>2, <2>3
<1> HIDE DEF kept, dim
<1>3. /\ \A p \in kept : p \in Pair
      /\ \A p, q \in Pair : p[1] = q[1] /\ p[2] = q[2] => p = q
  BY DEF kept, Pair
<1>4. CommonSides(layer[f].geom, layer[g].geom) # {} <=> CommonSides(layer[g].geom, layer[f].geom) # {}
  BY AreaIsGeometry, SidesAreMutual
<1>5. Disjoint(g, f)
  BY DEF Disjoint
<1>6. ASSUME NEW r \in neighbours', r.fida = f, r.fidb = g
      PROVE  r = [fida |-> f, fidb |-> g, dim |-> 1] /\ CommonSides(layer[f].geom, layer[g].geom) # {}
  <2>1. PICK p \in kept : \/ r = [fida |-> p[1], fidb |-> p[2], dim |-> dim(p)]
                          \/ r = [fida |-> p[2], fidb |-> p[1], dim |-> dim(p)]
    BY <1>1
  <2>2. CASE r = [fida |-> p[1], fidb |-> p[2], dim |-> dim(p)]
    <3>1. p[1] = f /\ p[2] = g
      BY <1>6, <2>2
    <3>2. CommonSides(layer[f].geom, layer[g].geom) # {} /\ dim(p) = 1
      BY <1>2, <1>3, <3>1
    <3> QED
      BY <2>2, <3>1, <3>2
  <2>3. CASE r = [fida |-> p[2], fidb |-> p[1], dim |-> dim(p)]
    <3>1. p[2] = f /\ p[1] = g
      BY <1>6, <2>3
    <3>2. CommonSides(layer[g].geom, layer[f].geom) # {} /\ dim(p) = 1
      BY <1>2, <1>3, <1>5, <3>1
    <3> QED
      BY <1>4, <2>3, <3>1, <3>2
  <2> QED
    BY <2>1, <2>2, <2>3
<1>7. ASSUME CommonSides(layer[f].geom, layer[g].geom) # {}
      PROVE  [fida |-> f, fidb |-> g, dim |-> 1] \in neighbours'
  <2>1. f \in Nat /\ g \in Nat
    BY FidAssumption
  <2>2. CASE f < g
    <3> DEFINE p == <<f, g>>
    <3>1. p \in Pair /\ p[1] = f /\ p[2] = g
      BY <2>2 DEF Pair
    <3> HIDE DEF p
    <3>2. p \in kept /\ dim(p) = 1
      BY <1>2, <1>7, <3>1
    <3> QED
      BY <1>1, <3>1, <3>2
  <2>3. CASE g < f
    <3> DEFINE p == <<g, f>>
    <3>1. p \in Pair /\ p[1] = g /\ p[2] = f
      BY <2>3 DEF Pair
    <3> HIDE DEF p
    <3>2. p \in kept /\ dim(p) = 1
      BY <1>2, <1>4, <1>5, <1>7, <3>1
    <3> QED
      BY <1>1, <3>1, <3>2
  <2> QED
    BY <2>1, <2>2, <2>3
<1>8. ASSUME [fida |-> f, fidb |-> g, dim |-> 1] \in neighbours'
      PROVE  CommonSides(layer[f].geom, layer[g].geom) # {}
  <2> DEFINE r == [fida |-> f, fidb |-> g, dim |-> 1]
  <2>1. r \in neighbours' /\ r.fida = f /\ r.fidb = g
    BY <1>8
  <2> HIDE DEF r
  <2> QED
    BY <1>6, <2>1
<1> QED
  BY <1>6, <1>7, <1>8

LEMMA NeighboursHold == Spec => []NeighbourInv
<1>1. Init => NeighbourInv
  BY DEF Init, NeighbourInv
<1>2. OrderInv /\ CutInv /\ PieceInv /\ NeighbourInv /\ [Next]_vars => NeighbourInv'
  <2> SUFFICES ASSUME OrderInv, CutInv, PieceInv, NeighbourInv, [Next]_vars, "neighbour" \in made',
                      NEW f \in Fid, NEW g \in Fid, f # g, Disjoint(f, g)'
               PROVE  /\ CommonSides(layer'[f].geom, layer'[g].geom) # {}
                            <=> [fida |-> f, fidb |-> g, dim |-> 1] \in neighbours'
                      /\ \A r \in neighbours' : r.fida = f /\ r.fidb = g => r = [fida |-> f, fidb |-> g, dim |-> 1]
    BY DEF NeighbourInv, CommonSides
  <2>1. Steps
    BY StepsKeep
  <2>2. "partition" \in made
    <3>1. "neighbour" \in made \/ Making("neighbour")
      BY <2>1 DEF Steps, Same, MakeNeighbours, AtOnce
    <3> QED
      BY <3>1, NeededBefore DEF OrderInv
  <2>3. layer' = layer /\ Disjoint(f, g)
    BY <2>1 DEF Steps, Disjoint
  <2>4. CASE MakeNeighbours
    BY <2>2, <2>3, <2>4, MakesNeighbours
  <2>5. CASE neighbours' = neighbours /\ Same("neighbour")
    BY <2>3, <2>5 DEF NeighbourInv, Same
  <2> QED
    BY <2>1, <2>4, <2>5 DEF Steps
<1> QED
  BY <1>1, <1>2, OrderHolds, CutHolds, PiecesHold, PTL DEF Spec

-----------------------------------------------------------------------------
(* Gaps.                                                                    *)

SetsApart(G) == \A g, h \in G : g # h => g \cap h = {}

Units == UNION {u.geom : u \in BoundaryUnits}

UnitsApart == \A u, v \in BoundaryUnits : u # v => u.geom \cap v.geom = {}

\* The part of the area that is subtracted already.
Covered == UNION {Area \cap Squares(b) : b \in Boxes \ unsubtracted}

GapRowsInv ==
    /\ \A g \in gaps : IsGeometry(g) /\ g # {}
    /\ phase = "subtract" =>
          /\ unsubtracted \subseteq Boxes /\ unsubtracted # {}
          /\ UNION gaps = Units \ Covered
          /\ UnitsApart => SetsApart(gaps)
    /\ "gap" \in made =>
          /\ UNION gaps = Units \ Area
          /\ UnitsApart => SetsApart(gaps)

LEMMA PolygonsApart ==
    ASSUME NEW S, IsGeometry(S)
    PROVE  UNION Polygons(S) = S /\ SetsApart(Polygons(S)) /\ \A h \in Polygons(S) : IsGeometry(h) /\ h # {} /\ h \subseteq S
  BY PolygonsPartition DEF SetsApart

\* Rows give way to what is left of them without the area C.
Replaces(N, G, sub, R, C) ==
    /\ sub \subseteq G
    /\ N = (G \ sub) \union UNION {R[g] : g \in sub}
    /\ \A g \in G : IsGeometry(g) /\ g # {}
    /\ \A g \in G \ sub : g \cap C = {}
    /\ \A g \in sub : UNION R[g] = g \ C /\ SetsApart(R[g]) /\ \A h \in R[g] : IsGeometry(h) /\ h # {}

LEMMA RowsReplaced ==
    ASSUME NEW N, NEW G, NEW sub, NEW R, NEW C, Replaces(N, G, sub, R, C)
    PROVE  /\ \A h \in N : IsGeometry(h) /\ h # {}
           /\ UNION N = (UNION G) \ C
           /\ SetsApart(G) => SetsApart(N)
<1> USE DEF Replaces
<1>1. \A h \in N : IsGeometry(h) /\ h # {}
  OBVIOUS
<1>2. \A h \in N : \E g \in G : h \subseteq g \ C /\ (h = g \/ h \in R[g]) /\ (g \in sub => h \in R[g]) /\ (g \notin sub => h = g)
  OBVIOUS
<1>3. \A c \in (UNION G) \ C : \E h \in N : c \in h
  <2> SUFFICES ASSUME NEW g \in G, NEW c \in g, c \notin C PROVE \E h \in N : c \in h
    OBVIOUS
  <2>1. CASE g \in sub
    <3>1. PICK h \in R[g] : c \in h
      BY <2>1
    <3> QED
      BY <2>1, <3>1
  <2> QED
    BY <2>1
<1>4. ASSUME SetsApart(G) PROVE SetsApart(N)
  <2> SUFFICES ASSUME NEW h \in N, NEW k \in N, h # k PROVE h \cap k = {}
    BY DEF SetsApart
  <2>1. PICK g \in G : h \subseteq g \ C /\ (g \in sub => h \in R[g]) /\ (g \notin sub => h = g)
    BY <1>2
  <2>2. PICK f \in G : k \subseteq f \ C /\ (f \in sub => k \in R[f]) /\ (f \notin sub => k = f)
    BY <1>2
  <2>3. CASE g = f
    <3>1. g \in sub /\ h \in R[g] /\ k \in R[g]
      BY <2>1, <2>2, <2>3
    <3> QED
      BY <3>1 DEF SetsApart
  <2>4. CASE g # f
    BY <1>4, <2>1, <2>2, <2>4 DEF SetsApart
  <2> QED
    BY <2>3, <2>4
<1>5. UNION N = (UNION G) \ C
  <2>1. \A h \in N : h \subseteq (UNION G) \ C
    BY <1>2
  <2> QED
    BY <1>3, <2>1
<1> QED
  BY <1>1, <1>4, <1>5

(* A polygon that is split is made of the polygons of its halves.           *)
LEMMA SplitKeeps ==
    ASSUME NEW P, IsGeometry(P), P # {}, SplitGeom(P) # {}
    PROVE  /\ UNION SplitGeom(P) = P /\ SetsApart(SplitGeom(P))
           /\ \A h \in SplitGeom(P) : IsGeometry(h) /\ h # {}
<1> DEFINE b == BoxOf(P)
           x1 == Down(b.x1)
           x2 == Up(b.x2)
           y1 == Down(b.y1)
           y2 == Up(b.y2)
           xcenter == Down((x1 + x2) \div 2)
           ycenter == Down((y1 + y2) \div 2)
<1>1. b.x1 \in Int /\ b.x2 \in Int /\ b.y1 \in Int /\ b.y2 \in Int
  BY BoxHolds
<1>2. SplitGeom(P) = IF x2 - x1 >= y2 - y1
                     THEN IF xcenter - x1 < GridSize THEN {}
                          ELSE Polygons({c \in P : c[1] < xcenter}) \union Polygons({c \in P : c[1] >= xcenter})
                     ELSE IF ycenter - y1 < GridSize THEN {}
                          ELSE Polygons({c \in P : c[2] < ycenter}) \union Polygons({c \in P : c[2] >= ycenter})
  BY DEF SplitGeom
<1> HIDE DEF b
<1>3. x1 \in Int /\ x2 \in Int /\ y1 \in Int /\ y2 \in Int
  BY <1>1, DownIsAligned, UpIsAligned
<1> HIDE DEF x1, x2, y1, y2
<1>4. (x1 + x2) \div 2 \in Int /\ (y1 + y2) \div 2 \in Int
  BY <1>3
<1>5. xcenter \in Int /\ ycenter \in Int
  BY <1>4, DownIsAligned
<1> HIDE DEF xcenter, ycenter
<1>6. \E A \in SUBSET P : SplitGeom(P) = Polygons(A) \union Polygons(P \ A)
  <2>1. {c \in P : c[1] >= xcenter} = P \ {c \in P : c[1] < xcenter}
    BY <1>5 DEF IsGeometry
  <2>2. {c \in P : c[2] >= ycenter} = P \ {c \in P : c[2] < ycenter}
    BY <1>5 DEF IsGeometry
  <2>3. \/ SplitGeom(P) = Polygons({c \in P : c[1] < xcenter}) \union Polygons({c \in P : c[1] >= xcenter})
        \/ SplitGeom(P) = Polygons({c \in P : c[2] < ycenter}) \union Polygons({c \in P : c[2] >= ycenter})
    BY <1>2
  <2> QED
    BY <2>1, <2>2, <2>3
<1>7. PICK A \in SUBSET P : SplitGeom(P) = Polygons(A) \union Polygons(P \ A)
  BY <1>6
<1>8. IsGeometry(A) /\ IsGeometry(P \ A)
  BY FS_Subset DEF IsGeometry
<1> DEFINE X == Polygons(A)
           Y == Polygons(P \ A)
<1>9. /\ UNION X = A /\ SetsApart(X) /\ \A h \in X : IsGeometry(h) /\ h # {} /\ h \subseteq A
      /\ UNION Y = P \ A /\ SetsApart(Y) /\ \A h \in Y : IsGeometry(h) /\ h # {} /\ h \subseteq P \ A
      /\ SplitGeom(P) = X \union Y
  BY <1>7, <1>8, PolygonsApart
<1> HIDE DEF X, Y
<1>10. UNION SplitGeom(P) = P
  <2>1. UNION (X \union Y) = (UNION X) \union (UNION Y)
    OBVIOUS
  <2> QED
    BY <1>9, <2>1
<1>11. SetsApart(SplitGeom(P))
  <2> SUFFICES ASSUME NEW h \in SplitGeom(P), NEW k \in SplitGeom(P), h # k PROVE h \cap k = {}
    BY DEF SetsApart
  <2> QED
    BY <1>9 DEF SetsApart
<1> QED
  BY <1>9, <1>10, <1>11

LEMMA MakesGaps ==
    ASSUME OrderInv, CutInv, PieceInv, GapRowsInv, MakeGaps PROVE GapRowsInv'
<1>1. /\ Making("gap") /\ phase' = "subtract" /\ made' = made
      /\ partitions' = partitions /\ layer' = layer /\ boundary' = boundary
      /\ unsubtracted' = {p.box : p \in partitions}
      /\ gaps' = UNION {Polygons(u.geom) : u \in BoundaryUnits}
  BY DEF MakeGaps, Begin, FillGaps, Still
<1>2. "partition" \in made /\ "gap" \notin made
  BY <1>1, NeededBefore
<1>3. Boxes' = Boxes /\ Area' = Area /\ BoundaryUnits' = BoundaryUnits /\ unsubtracted' = Boxes
  BY <1>1 DEF Boxes, Area, BoundaryUnits
<1>4. Boxes # {}
  <2>1. Tiles(Boxes, Squares(Extent)) /\ IsBox(Extent)
    BY <1>2, CutAtLast, ExtentIsBox
  <2> QED
    BY <2>1, BoxHasSquares DEF Tiles
<1>5. Covered' = {}
  BY <1>3 DEF Covered
<1>6. \A u \in BoundaryUnits : IsGeometry(u.geom)
  BY GeometryAssumption DEF BoundaryUnits, OrderInv, IsGeometry
<1>7. \A u \in BoundaryUnits : /\ UNION Polygons(u.geom) = u.geom
                               /\ \A h \in Polygons(u.geom) : h # {} /\ h \subseteq u.geom /\ IsGeometry(h)
                               /\ \A h, k \in Polygons(u.geom) : h # k => h \cap k = {}
  BY <1>6, PolygonsPartition
<1> DEFINE R(u) == Polygons(u.geom)
<1>8. gaps' = UNION {R(u) : u \in BoundaryUnits}
  BY <1>1
<1>9. \A h \in gaps' : \E u \in BoundaryUnits : h \in R(u)
  BY <1>8
<1>10. \A u \in BoundaryUnits : R(u) \subseteq gaps'
  BY <1>8
<1>11. \A h \in gaps' : IsGeometry(h) /\ h # {}
  BY <1>7, <1>9
<1>12. UNION gaps' = Units
  <2>1. ASSUME NEW c \in Units PROVE \E h \in gaps' : c \in h
    <3>1. PICK u \in BoundaryUnits : c \in u.geom
      BY DEF Units
    <3>2. PICK h \in R(u) : c \in h
      BY <1>7, <3>1
    <3> QED
      BY <1>10, <3>2
  <2>2. ASSUME NEW h \in gaps' PROVE h \subseteq Units
    <3>1. PICK u \in BoundaryUnits : h \in R(u)
      BY <1>9
    <3> QED
      BY <1>7, <3>1 DEF Units
  <2> QED
    BY <2>1, <2>2
<1>13. ASSUME UnitsApart PROVE SetsApart(gaps)'
  <2> SUFFICES ASSUME NEW h \in gaps', NEW k \in gaps', h # k PROVE h \cap k = {}
    BY DEF SetsApart
  <2>1. PICK u \in BoundaryUnits : h \in R(u)
    BY <1>9
  <2>2. PICK v \in BoundaryUnits : k \in R(v)
    BY <1>9
  <2>3. h \subseteq u.geom /\ k \subseteq v.geom
    BY <1>7, <2>1, <2>2
  <2>4. CASE u = v
    BY <1>7, <2>1, <2>2, <2>4
  <2>5. CASE u # v
    BY <1>13, <2>3, <2>5 DEF UnitsApart
  <2> QED
    BY <2>4, <2>5
<1>14. Units' = Units /\ (UnitsApart' <=> UnitsApart)
  BY <1>3 DEF Units, UnitsApart
<1> QED
  BY <1>1, <1>2, <1>3, <1>4, <1>5, <1>11, <1>12, <1>13, <1>14 DEF GapRowsInv

\* The facts common to the steps that take away from the gaps.
LEMMA GapsAreLess ==
    ASSUME OrderInv, CutInv, PieceInv, GapRowsInv, phase = "subtract", layer' = layer, boundary' = boundary, partitions' = partitions
    PROVE  /\ Boxes' = Boxes /\ Area' = Area /\ Units' = Units /\ (UnitsApart' <=> UnitsApart)
           /\ "partition" \in made /\ "interior" \in made /\ "gap" \notin made
<1>1. BoundaryUnits' = BoundaryUnits
  BY DEF BoundaryUnits
<1> QED
  BY <1>1 DEF Boxes, Area, Units, UnitsApart, OrderInv

LEMMA SplitsGaps ==
    ASSUME OrderInv, CutInv, PieceInv, GapRowsInv, SplitGapRows PROVE GapRowsInv'
<1>1. /\ phase = "subtract" /\ phase' = phase /\ made' = made /\ unsubtracted' = unsubtracted
      /\ layer' = layer /\ boundary' = boundary /\ partitions' = partitions
      /\ gaps' = (gaps \ SplitRows) \union UNION {SplitGeom(g) : g \in SplitRows}
  BY DEF SplitGapRows, SplitGaps, Still
<1>2. /\ Boxes' = Boxes /\ Area' = Area /\ Units' = Units /\ (UnitsApart' <=> UnitsApart)
      /\ "gap" \notin made
  BY <1>1, GapsAreLess
<1> DEFINE R == [g \in SplitRows |-> SplitGeom(g)]
<1>3. SplitRows \in SUBSET gaps /\ \A g \in SplitRows : SplitGeom(g) # {}
  BY DEF SplitRows
<1>4. \A g \in gaps : IsGeometry(g) /\ g # {}
  BY DEF GapRowsInv
<1>5. \A g \in SplitRows : UNION R[g] = g \ {} /\ SetsApart(R[g]) /\ \A h \in R[g] : IsGeometry(h) /\ h # {}
  BY <1>3, <1>4, SplitKeeps
<1>6. gaps' = (gaps \ SplitRows) \union UNION {R[g] : g \in SplitRows}
  BY <1>1
<1>7. \A g \in gaps \ SplitRows : g \cap {} = {}
  OBVIOUS
<1> HIDE DEF R
<1>8. /\ \A h \in gaps' : IsGeometry(h) /\ h # {}
      /\ UNION gaps' = (UNION gaps) \ {}
      /\ SetsApart(gaps) => SetsApart(gaps')
  <2>1. Replaces(gaps', gaps, SplitRows, R, {})
    BY <1>3, <1>4, <1>5, <1>6, <1>7 DEF Replaces
  <2> QED
    BY <2>1, RowsReplaced
<1>9. Covered' = Covered
  BY <1>1, <1>2 DEF Covered
<1> QED
  BY <1>1, <1>2, <1>8, <1>9 DEF GapRowsInv, SetsApart

LEMMA SubtractsOne ==
    ASSUME OrderInv, CutInv, PieceInv, InteriorInv, GapRowsInv, SubtractOne PROVE GapRowsInv'
<1> DEFINE box == CHOOSE b \in unsubtracted : TRUE
           I == InteriorOf(box)
           sub == {g \in gaps : I # {} /\ BoxesMeet(g, I)}
           R == [g \in sub |-> Polygons(g \ I)]
<1>1. /\ phase = "subtract" /\ unsubtracted' = unsubtracted \ {box}
      /\ layer' = layer /\ boundary' = boundary /\ partitions' = partitions
      /\ gaps' = (gaps \ sub) \union UNION {R[g] : g \in sub}
      /\ IF unsubtracted' = {} THEN Finish("gap") ELSE phase' = phase /\ made' = made
  BY DEF SubtractOne, SubtractPartition, Still
<1>2. /\ Boxes' = Boxes /\ Area' = Area /\ Units' = Units /\ (UnitsApart' <=> UnitsApart)
      /\ "partition" \in made /\ "interior" \in made /\ "gap" \notin made
  BY <1>1, GapsAreLess
<1>3. /\ \A g \in gaps : IsGeometry(g) /\ g # {}
      /\ unsubtracted \subseteq Boxes /\ unsubtracted # {}
      /\ UNION gaps = Units \ Covered
      /\ UnitsApart => SetsApart(gaps)
  BY <1>1 DEF GapRowsInv
<1>4. box \in unsubtracted /\ box \in Boxes
  BY <1>3
<1> HIDE DEF box
<1>5. I = Area \cap Squares(box)
  BY <1>2, <1>4 DEF InteriorInv
<1>6. IsGeometry(I)
  BY <1>5, AreaIsGeometry, FS_Subset DEF IsGeometry
<1> HIDE DEF I
<1>7. \A g \in gaps \ sub : g \cap I = {}
  <2> SUFFICES ASSUME NEW g \in gaps \ sub, NEW c \in g, c \in I PROVE FALSE
    OBVIOUS
  <2>1. BoxesMeet(g, I)
    BY <1>3, <1>6, TouchingBoxesMeet
  <2> QED
    BY <2>1
<1>8. \A g \in sub : UNION R[g] = g \ I /\ SetsApart(R[g]) /\ \A h \in R[g] : IsGeometry(h) /\ h # {}
  <2> SUFFICES ASSUME NEW g \in sub
               PROVE  /\ UNION Polygons(g \ I) = g \ I /\ SetsApart(Polygons(g \ I))
                      /\ \A h \in Polygons(g \ I) : IsGeometry(h) /\ h # {}
    OBVIOUS
  <2> DEFINE D == g \ I
  <2>1. IsGeometry(g) /\ D \subseteq g
    BY <1>3
  <2> HIDE DEF D
  <2>2. IsGeometry(D)
    BY <2>1, FS_Subset DEF IsGeometry
  <2>3. UNION Polygons(D) = D /\ SetsApart(Polygons(D)) /\ \A h \in Polygons(D) : IsGeometry(h) /\ h # {}
    BY <2>2, PolygonsApart
  <2> QED
    BY <2>3 DEF D
<1>9. sub \in SUBSET gaps
  OBVIOUS
<1> HIDE DEF sub, R
<1>10. /\ \A h \in gaps' : IsGeometry(h) /\ h # {}
       /\ UNION gaps' = (UNION gaps) \ I
       /\ SetsApart(gaps) => SetsApart(gaps')
  <2>1. Replaces(gaps', gaps, sub, R, I)
    BY <1>1, <1>3, <1>7, <1>8, <1>9 DEF Replaces
  <2> QED
    BY <2>1, RowsReplaced
<1>11. Covered' = Covered \union I
  <2>1. Boxes' \ unsubtracted' = (Boxes \ unsubtracted) \union {box}
    BY <1>1, <1>2, <1>4
  <2> QED
    BY <1>2, <1>5, <2>1 DEF Covered
<1>12. UNION gaps' = Units \ Covered'
  BY <1>3, <1>10, <1>11
<1>13. CASE unsubtracted' = {}
  <2>1. phase' = "idle" /\ made' = made \union {"gap"}
    BY <1>1, <1>13 DEF Finish
  <2>2. Covered' = Area
    <3>1. Tiles(Boxes, Squares(Extent)) /\ Area \subseteq Squares(Extent)
      BY <1>2, CutAtLast, ExtentIsBox
    <3>2. Covered' = UNION {Area \cap Squares(b) : b \in Boxes}
      BY <1>2, <1>13 DEF Covered
    <3> QED
      BY <3>1, <3>2 DEF Tiles
  <2> QED
    BY <1>2, <1>3, <1>10, <1>12, <2>1, <2>2 DEF GapRowsInv, SetsApart
<1>14. CASE unsubtracted' # {}
  <2>1. phase' = phase /\ made' = made
    BY <1>1, <1>14
  <2> QED
    BY <1>1, <1>2, <1>3, <1>10, <1>12, <1>14, <2>1 DEF GapRowsInv, SetsApart
<1> QED
  BY <1>13, <1>14

LEMMA GapsHold == Spec => []GapRowsInv
<1>1. Init => GapRowsInv
  BY DEF Init, GapRowsInv
<1>2. OrderInv /\ CutInv /\ PieceInv /\ InteriorInv /\ GapRowsInv /\ [Next]_vars => GapRowsInv'
  <2> SUFFICES ASSUME OrderInv, CutInv, PieceInv, InteriorInv, GapRowsInv, [Next]_vars PROVE GapRowsInv'
    OBVIOUS
  <2>1. Steps
    BY StepsKeep
  <2>2. CASE gaps' = gaps /\ unsubtracted' = unsubtracted /\ Away({"subtract"}) /\ Same("gap")
    <3>1. BoundaryUnits' = BoundaryUnits /\ Area' = Area
      BY <2>1 DEF Steps, BoundaryUnits, Area
    <3>2. Units' = Units /\ (UnitsApart' <=> UnitsApart) /\ (SetsApart(gaps)' <=> SetsApart(gaps))
      BY <2>2, <3>1 DEF Units, UnitsApart, SetsApart
    <3>3. phase = "subtract" => Boxes' = Boxes
      <4>1. phase = "subtract" => "partition" \in made
        BY DEF OrderInv
      <4> QED
        BY <4>1, Settled DEF Boxes
    <3>4. phase = "subtract" => Covered' = Covered
      BY <2>2, <3>1, <3>3 DEF Covered
    <3> QED
      BY <2>2, <3>1, <3>2, <3>3, <3>4 DEF GapRowsInv, Away, Same
  <2> QED
    BY <2>1, <2>2, MakesGaps, SplitsGaps, SubtractsOne DEF Steps, GapTableStep
<1> QED
  BY <1>1, <1>2, OrderHolds, CutHolds, PiecesHold, InteriorHolds, PTL DEF Spec

(* The gaps are what no feature covers of the boundary, wherever the        *)
(* partitions cut the features, and are apart if the units are.             *)
THEOREM GapsAreUncovered == Spec => []GapsAreTrue
<1>1. GapRowsInv => GapsAreTrue
  <2> SUFFICES ASSUME GapRowsInv, "gap" \in made
               PROVE  /\ UNION gaps = (UNION {u.geom : u \in BoundaryUnits}) \ Area
                      /\ (\A u, v \in BoundaryUnits : u # v => u.geom \cap v.geom = {}) =>
                             \A g, h \in gaps : g # h => g \cap h = {}
    BY DEF GapsAreTrue
  <2>1. UNION gaps = Units \ Area /\ (UnitsApart => SetsApart(gaps))
    BY DEF GapRowsInv
  <2> QED
    BY <2>1 DEF Units, UnitsApart, SetsApart
<1> QED
  BY <1>1, GapsHold, PTL

-----------------------------------------------------------------------------
(* The rows of the meta table.                                              *)

IsRow(r) == r = [marginal |-> r.marginal, initial |-> r.initial, final |-> r.final, area |-> r.area]

MetaInv == "meta" \in made => DOMAIN meta = Fid /\ \A f \in Fid : IsRow(meta[f])

LEMMA RowExcept ==
    ASSUME NEW r, IsRow(r), NEW v
    PROVE  /\ [r EXCEPT !.marginal = v] = [marginal |-> v, initial |-> r.initial, final |-> r.final, area |-> r.area]
           /\ [r EXCEPT !["initial"] = v] = [marginal |-> r.marginal, initial |-> v, final |-> r.final, area |-> r.area]
           /\ [r EXCEPT !["final"] = v] = [marginal |-> r.marginal, initial |-> r.initial, final |-> v, area |-> r.area]
           /\ [r EXCEPT !.area = v] = [marginal |-> r.marginal, initial |-> r.initial, final |-> r.final, area |-> v]
<1> DEFINE a == r.marginal
           b == r.initial
           c == r.final
           d == r.area
<1>1. r = [marginal |-> a, initial |-> b, final |-> c, area |-> d]
  BY DEF IsRow
<1> HIDE DEF a, b, c, d
<1>2. [r EXCEPT !.marginal = v] = [marginal |-> v, initial |-> b, final |-> c, area |-> d]
  BY <1>1
<1>3. [r EXCEPT !["initial"] = v] = [marginal |-> a, initial |-> v, final |-> c, area |-> d]
  BY <1>1
<1>4. [r EXCEPT !["final"] = v] = [marginal |-> a, initial |-> b, final |-> v, area |-> d]
  BY <1>1
<1>5. [r EXCEPT !.area = v] = [marginal |-> a, initial |-> b, final |-> c, area |-> v]
  BY <1>1
<1> QED
  BY <1>2, <1>3, <1>4, <1>5 DEF a, b, c, d

\* What each step does to the columns.
Columns(f, marginal, initial, final) ==
    /\ IsRow(meta'[f])
    /\ meta'[f].marginal = marginal /\ meta'[f].initial = initial /\ meta'[f].final = final

LEMMA MetaMade ==
    ASSUME MakeMeta
    PROVE  /\ DOMAIN meta' = Fid
           /\ \A f \in Fid : Columns(f, "unset", Null, Null) /\ meta'[f].area = Null
<1>1. meta' = [f \in Fid |-> [marginal |-> "unset", initial |-> Null, final |-> Null, area |-> Null]]
  BY DEF MakeMeta, CreateMeta
<1> QED
  BY <1>1 DEF Columns, IsRow

LEMMA MarginalFilled ==
    ASSUME OrderInv, MetaInv, MakeMarginal
    PROVE  /\ DOMAIN meta' = Fid
           /\ \A f \in Fid : Columns(f, meta'[f].marginal, meta[f].initial, meta[f].final) /\ meta'[f].area = meta[f].area
           /\ \/ \A f \in Fid : meta'[f].marginal = IF Touches(f, Sides) THEN "yes" ELSE "no"
              \/ \A f \in Fid : meta'[f].marginal = IF Touches(f, Around) THEN "yes" ELSE "no"
<1>1. Making("marginal")
  BY DEF MakeMarginal, AtOnce
<1>2. "meta" \in made
  BY <1>1, NeededBefore
<1> DEFINE s(f) == IF Touches(f, Sides) THEN "yes" ELSE "no"
           a(f) == IF Touches(f, Around) THEN "yes" ELSE "no"
<1>3. \/ meta' = [f \in Fid |-> [meta[f] EXCEPT !.marginal = s(f)]]
      \/ meta' = [f \in Fid |-> [meta[f] EXCEPT !.marginal = a(f)]]
  BY DEF MakeMarginal, FillMarginal
<1> HIDE DEF s, a
<1>4. \A f \in Fid : \A v : [meta[f] EXCEPT !.marginal = v]
                              = [marginal |-> v, initial |-> meta[f].initial, final |-> meta[f].final, area |-> meta[f].area]
  BY <1>2, RowExcept DEF MetaInv
<1>5. \/ \A f \in Fid : meta'[f] = [marginal |-> s(f), initial |-> meta[f].initial, final |-> meta[f].final, area |-> meta[f].area]
      \/ \A f \in Fid : meta'[f] = [marginal |-> a(f), initial |-> meta[f].initial, final |-> meta[f].final, area |-> meta[f].area]
  <2>1. CASE meta' = [f \in Fid |-> [meta[f] EXCEPT !.marginal = s(f)]]
    BY <1>4, <2>1
  <2>2. CASE meta' = [f \in Fid |-> [meta[f] EXCEPT !.marginal = a(f)]]
    BY <1>4, <2>2
  <2> QED
    BY <1>3, <2>1, <2>2
<1>6. \/ \A f \in Fid : Columns(f, s(f), meta[f].initial, meta[f].final) /\ meta'[f].area = meta[f].area
      \/ \A f \in Fid : Columns(f, a(f), meta[f].initial, meta[f].final) /\ meta'[f].area = meta[f].area
  <2>1. ASSUME NEW f \in Fid, NEW v,
               meta'[f] = [marginal |-> v, initial |-> meta[f].initial, final |-> meta[f].final, area |-> meta[f].area]
        PROVE  Columns(f, v, meta[f].initial, meta[f].final) /\ meta'[f].area = meta[f].area
    <3>1. /\ meta'[f].marginal = v /\ meta'[f].initial = meta[f].initial
          /\ meta'[f].final = meta[f].final /\ meta'[f].area = meta[f].area
      BY <2>1
    <3> QED
      BY <2>1, <3>1 DEF Columns, IsRow
  <2>2. CASE \A f \in Fid : meta'[f] = [marginal |-> s(f), initial |-> meta[f].initial, final |-> meta[f].final, area |-> meta[f].area]
    BY <2>1, <2>2
  <2>3. CASE \A f \in Fid : meta'[f] = [marginal |-> a(f), initial |-> meta[f].initial, final |-> meta[f].final, area |-> meta[f].area]
    BY <2>1, <2>3
  <2> QED
    BY <1>5, <2>2, <2>3
<1>7. /\ \/ \A f \in Fid : meta'[f].marginal = s(f)
         \/ \A f \in Fid : meta'[f].marginal = a(f)
      /\ \A f \in Fid : Columns(f, meta'[f].marginal, meta[f].initial, meta[f].final) /\ meta'[f].area = meta[f].area
  BY <1>6 DEF Columns
<1>8. DOMAIN meta' = Fid
  BY <1>3
<1> QED
  BY <1>7, <1>8 DEF s, a

LEMMA InitialStored ==
    ASSUME OrderInv, MetaInv, InitialFilled
    PROVE  /\ DOMAIN meta' = Fid
           /\ \A f \in Fid : /\ Columns(f, meta[f].marginal, IF f \in Known THEN parent[f] ELSE meta[f].initial, meta[f].final)
                             /\ meta'[f].area = meta[f].area
<1>1. "meta" \in made
  BY DEF OrderInv, InitialFilled, Counting
<1> DEFINE v(f) == IF f \in Known THEN parent[f] ELSE meta[f].initial
<1>2. meta' = [f \in Fid |-> [meta[f] EXCEPT !["initial"] = v(f)]]
  BY DEF InitialFilled, StoreClusters
<1> HIDE DEF v
<1>3. \A f \in Fid : meta'[f] = [marginal |-> meta[f].marginal, initial |-> v(f), final |-> meta[f].final, area |-> meta[f].area]
  BY <1>1, <1>2, RowExcept DEF MetaInv
<1>4. ASSUME NEW f \in Fid
      PROVE  Columns(f, meta[f].marginal, v(f), meta[f].final) /\ meta'[f].area = meta[f].area
  <2>1. meta'[f] = [marginal |-> meta[f].marginal, initial |-> v(f), final |-> meta[f].final, area |-> meta[f].area]
    BY <1>3
  <2>2. /\ meta'[f].marginal = meta[f].marginal /\ meta'[f].initial = v(f)
        /\ meta'[f].final = meta[f].final /\ meta'[f].area = meta[f].area
    BY <2>1
  <2> QED
    BY <2>1, <2>2 DEF Columns, IsRow
<1>5. DOMAIN meta' = Fid
  BY <1>2
<1> QED
  BY <1>4, <1>5 DEF v

LEMMA FinalStored ==
    ASSUME OrderInv, MetaInv, FinalFilled
    PROVE  /\ DOMAIN meta' = Fid
           /\ \A f \in Fid : /\ Columns(f, meta[f].marginal, meta[f].initial, IF f \in Known THEN parent[f] ELSE meta[f].final)
                             /\ meta'[f].area = meta[f].area
<1>1. "meta" \in made
  BY DEF OrderInv, FinalFilled, Counting
<1> DEFINE v(f) == IF f \in Known THEN parent[f] ELSE meta[f].final
<1>2. meta' = [f \in Fid |-> [meta[f] EXCEPT !["final"] = v(f)]]
  BY DEF FinalFilled, StoreClusters
<1> HIDE DEF v
<1>3. \A f \in Fid : meta'[f] = [marginal |-> meta[f].marginal, initial |-> meta[f].initial, final |-> v(f), area |-> meta[f].area]
  BY <1>1, <1>2, RowExcept DEF MetaInv
<1>4. ASSUME NEW f \in Fid
      PROVE  Columns(f, meta[f].marginal, meta[f].initial, v(f)) /\ meta'[f].area = meta[f].area
  <2>1. meta'[f] = [marginal |-> meta[f].marginal, initial |-> meta[f].initial, final |-> v(f), area |-> meta[f].area]
    BY <1>3
  <2>2. /\ meta'[f].marginal = meta[f].marginal /\ meta'[f].initial = meta[f].initial
        /\ meta'[f].final = v(f) /\ meta'[f].area = meta[f].area
    BY <2>1
  <2> QED
    BY <2>1, <2>2 DEF Columns, IsRow
<1>5. DOMAIN meta' = Fid
  BY <1>2
<1> QED
  BY <1>4, <1>5 DEF v

(* The greater area of a feature's cluster so far and by one more code.     *)
LEMMA GreaterAreaOf ==
    ASSUME NEW m, NEW code, \A f \in Fid : IsRow(m[f])
    PROVE  LET n == GreaterArea(m, code)
           IN  /\ DOMAIN n = Fid
               /\ \A f \in Fid :
                     /\ IsRow(n[f])
                     /\ n[f].marginal = m[f].marginal /\ n[f].initial = m[f].initial /\ n[f].final = m[f].final
                     /\ n[f].area = IF m[f][code] # Null /\ m[f].area < ClusterArea(m, code, m[f][code])
                                    THEN ClusterArea(m, code, m[f][code]) ELSE m[f].area
<1> DEFINE n == GreaterArea(m, code)
           a(f) == ClusterArea(m, code, m[f][code])
<1>1. n = [f \in Fid |-> IF m[f][code] # Null /\ m[f].area < a(f) THEN [m[f] EXCEPT !.area = a(f)] ELSE m[f]]
  BY DEF GreaterArea
<1> HIDE DEF n, a
<1>2. ASSUME NEW f \in Fid
      PROVE  /\ IsRow(n[f])
             /\ n[f].marginal = m[f].marginal /\ n[f].initial = m[f].initial /\ n[f].final = m[f].final
             /\ n[f].area = IF m[f][code] # Null /\ m[f].area < a(f) THEN a(f) ELSE m[f].area
  <2>1. CASE m[f][code] # Null /\ m[f].area < a(f)
    <3>1. n[f] = [marginal |-> m[f].marginal, initial |-> m[f].initial, final |-> m[f].final, area |-> a(f)]
      BY <1>1, <2>1, RowExcept
    <3> QED
      BY <2>1, <3>1 DEF IsRow
  <2>2. CASE ~(m[f][code] # Null /\ m[f].area < a(f))
    BY <1>1, <2>2
  <2> QED
    BY <2>1, <2>2
<1>3. DOMAIN n = Fid
  BY <1>1
<1> QED
  BY <1>2, <1>3 DEF n, a

LEMMA AreaFilled ==
    ASSUME OrderInv, MetaInv, MakeArea
    PROVE  /\ DOMAIN meta' = Fid
           /\ \A f \in Fid : Columns(f, meta[f].marginal, meta[f].initial, meta[f].final)
<1>1. "meta" \in made
  BY DEF OrderInv, MakeArea, Counting
<1>2. meta' = GreaterArea(GreaterArea(meta, "initial"), "final")
  BY DEF MakeArea, FillArea
<1> DEFINE n == GreaterArea(meta, "initial")
<1>3. \A f \in Fid : /\ IsRow(n[f])
                     /\ n[f].marginal = meta[f].marginal /\ n[f].initial = meta[f].initial /\ n[f].final = meta[f].final
  BY <1>1, GreaterAreaOf DEF MetaInv
<1>4. meta' = GreaterArea(n, "final")
  BY <1>2
<1> HIDE DEF n
<1>5. DOMAIN meta' = Fid
  BY <1>3, <1>4, GreaterAreaOf
<1>6. \A f \in Fid : IsRow(meta'[f]) /\ meta'[f].marginal = n[f].marginal /\ meta'[f].initial = n[f].initial /\ meta'[f].final = n[f].final
  BY <1>3, <1>4, GreaterAreaOf
<1> QED
  BY <1>3, <1>5, <1>6 DEF Columns

LEMMA MetaHolds == Spec => []MetaInv
<1>1. Init => MetaInv
  BY DEF Init, MetaInv
<1>2. OrderInv /\ MetaInv /\ [Next]_vars => MetaInv'
  <2> SUFFICES ASSUME OrderInv, MetaInv, [Next]_vars, "meta" \in made'
               PROVE  DOMAIN meta' = Fid /\ \A f \in Fid : IsRow(meta'[f])
    BY DEF MetaInv, IsRow
  <2>1. Steps
    BY StepsKeep
  <2>2. CASE MakeMeta
    BY <2>2, MetaMade DEF Columns
  <2>3. CASE MakeMarginal
    BY <2>3, MarginalFilled DEF Columns
  <2>4. CASE ChangeStep
    <3>1. CASE MakeChange
      <4>1. Making("change") /\ meta' = meta
        BY <3>1 DEF MakeChange, Begin, tables
      <4>2. "meta" \in made
        BY <4>1, NeededBefore
      <4> QED
        BY <4>1, <4>2 DEF MetaInv
    <3> QED
      BY <2>4, <3>1, InitialStored, FinalStored, AreaFilled DEF ChangeStep, Columns
  <2>5. CASE meta' = meta /\ Same("meta")
    BY <2>5 DEF MetaInv, Same
  <2> QED
    BY <2>1, <2>2, <2>3, <2>4, <2>5 DEF Steps
<1> QED
  BY <1>1, <1>2, OrderHolds, PTL DEF Spec

-----------------------------------------------------------------------------
LEMMA MarginalHolds == Spec => []MarginalIsTrue
<1>1. Init => MarginalIsTrue
  BY DEF Init, MarginalIsTrue
<1>2. OrderInv /\ CutInv /\ PieceInv /\ ExteriorInv /\ MetaInv /\ MarginalIsTrue /\ [Next]_vars => MarginalIsTrue'
  <2> SUFFICES ASSUME OrderInv, CutInv, PieceInv, ExteriorInv, MetaInv, MarginalIsTrue, [Next]_vars, "marginal" \in made'
               PROVE  {f \in Fid : meta'[f].marginal = "yes"} \in {Outer(Sides), Outer(Around)}'
    BY DEF MarginalIsTrue
  <2>1. Steps
    BY StepsKeep
  <2>2. Outer(Sides)' = Outer(Sides) /\ Outer(Around)' = Outer(Around)
    BY <2>1 DEF Steps, Outer, Area
  <2>3. CASE MakeMarginal
    <3>1. Making("marginal")
      BY <2>3 DEF MakeMarginal, AtOnce
    <3>2. "partition" \in made /\ "exterior" \in made
      BY <3>1, NeededBefore
    <3>3. \A f \in Fid : (Touches(f, Sides) <=> f \in Outer(Sides)) /\ (Touches(f, Around) <=> f \in Outer(Around))
      BY <3>2, TouchesUncovered
    <3>4. \/ \A f \in Fid : meta'[f].marginal = IF Touches(f, Sides) THEN "yes" ELSE "no"
          \/ \A f \in Fid : meta'[f].marginal = IF Touches(f, Around) THEN "yes" ELSE "no"
      BY <2>3, MarginalFilled
    <3>5. Outer(Sides) \subseteq Fid /\ Outer(Around) \subseteq Fid
      BY DEF Outer
    <3>6. \/ {f \in Fid : meta'[f].marginal = "yes"} = Outer(Sides)
          \/ {f \in Fid : meta'[f].marginal = "yes"} = Outer(Around)
      BY <3>3, <3>4, <3>5
    <3> QED
      BY <2>2, <3>6
  <2>4. CASE ~MakeMarginal
    <3>1. "marginal" \in made /\ "meta" \in made
      BY <2>1, <2>4 DEF Steps, Same, OrderInv
    <3>2. \A f \in Fid : meta'[f].marginal = meta[f].marginal
      <4>1. ~MakeMeta
        <5>1. ~Making("meta")
          BY <3>1, NeededBefore
        <5> QED
          BY <5>1 DEF MakeMeta, AtOnce
      <4>2. CASE ChangeStep
        <5>1. CASE MakeChange
          BY <5>1 DEF MakeChange, tables
        <5> QED
          BY <4>2, <5>1, InitialStored, FinalStored, AreaFilled DEF ChangeStep, Columns
      <4> QED
        BY <2>1, <2>4, <4>1, <4>2 DEF Steps
    <3>3. {f \in Fid : meta'[f].marginal = "yes"} = {f \in Fid : meta[f].marginal = "yes"}
      BY <3>2
    <3> QED
      BY <2>2, <3>1, <3>3 DEF MarginalIsTrue
  <2> QED
    BY <2>3, <2>4
<1> QED
  BY <1>1, <1>2, OrderHolds, CutHolds, PiecesHold, ExteriorHolds, MetaHolds, PTL DEF Spec

(* Which sides features share, with each other and with area no feature     *)
(* covers, is told as if the layer had not been cut.                        *)
THEOREM EdgesStayTrue == Spec => []EdgesAreTrue
<1>1. NeighbourInv => NeighboursAreTrue
  BY DEF NeighbourInv, NeighboursAreTrue
<1> QED
  BY <1>1, NeighboursHold, MarginalHolds, PTL DEF EdgesAreTrue

-----------------------------------------------------------------------------
(* The forest among the tables.                                             *)

\* The features that some of the pairs have as an end.
Ends(R) == {x \in Fid : \E p \in R : x = p[1] \/ x = p[2]}

\* The dict knows the ends of the pairs merged, and of the one being merged.
KnownInv ==
    /\ stage \in {"first", "second"} => Known = Ends((rows \ todo) \union {pair})
    /\ stage \notin {"first", "second"} => Known = Ends(rows \ todo)

SelectStep == MakeChange \/ InitialFilled

LEMMA ForestSteps ==
    ASSUME [Next]_vars
    PROVE  \/ (\E R \in SUBSET Pair : SelectPairs(R)) /\ SelectStep
           \/ MergeStep /\ MergeClusters
           \/ forest' = forest /\ ~MergeClusters
<1>1. CASE SelectStep
  <2>1. SameCode("initial") \in SUBSET Pair /\ SameCode("final") \in SUBSET Pair
    BY DEF SameCode
  <2> QED
    BY <1>1, <2>1 DEF SelectStep, MakeChange, InitialFilled
<1>2. CASE MergeClusters
  BY <1>2 DEF MergeClusters
<1>3. CASE Serve \/ MakePartition \/ CountVertices \/ SplitPartitions \/ FillPartitions \/ DeletePartitions
  BY <1>2, <1>3 DEF Serve, MakePartition, CountVertices, SplitPartitions, FillPartitions, DeletePartitions
<1>4. CASE MakeNeighbours \/ MakeInterior \/ MakeExterior \/ MakeMeta \/ MakeMarginal
  BY <1>2, <1>4 DEF MakeNeighbours, MakeInterior, MakeExterior, MakeMeta, MakeMarginal
<1>5. CASE MakeGaps \/ SplitGapRows \/ SubtractOne \/ FinalFilled \/ MakeArea
  BY <1>2, <1>5 DEF MakeGaps, SplitGapRows, SubtractOne, FinalFilled, MakeArea
<1>6. CASE UNCHANGED vars
  BY <1>2, <1>6 DEF vars
<1> QED
  BY <1>1, <1>2, <1>3, <1>4, <1>5, <1>6 DEF Next, SelectStep

LEMMA PairOfTwo ==
    ASSUME NEW p \in Pair
    PROVE  p[1] \in Fid /\ p[2] \in Fid /\ p[1] # p[2]
<1>1. p[1] \in Fid /\ p[2] \in Fid /\ p[1] < p[2]
  BY DEF Pair
<1>2. p[1] \in Nat /\ p[2] \in Nat
  BY <1>1, FidAssumption
<1>3. p[1] # p[2]
  BY <1>1, <1>2
<1> QED
  BY <1>1, <1>3

LEMMA ClustersHold == Spec => [](ClusterInv /\ KnownInv)
<1>1. Init => ClusterInv /\ KnownInv
  <2> SUFFICES ASSUME Init PROVE ClusterInv /\ KnownInv
    OBVIOUS
  <2>1. ClusterInv
    BY NoForestIsConsistent DEF Init
  <2>2. Known = {} /\ rows = {} /\ stage = "none"
    BY DEF Init, NoForest, Known
  <2> QED
    BY <2>1, <2>2 DEF KnownInv, Ends
<1>2. ClusterInv /\ KnownInv /\ [Next]_vars => (ClusterInv /\ KnownInv)'
  <2> SUFFICES ASSUME ClusterInv, KnownInv, [Next]_vars PROVE ClusterInv' /\ KnownInv'
    OBVIOUS
  <2>1. ClusterInv'
    <3>1. [ClusterNext]_forest
      BY ForestSteps DEF ClusterNext
    <3> QED
      BY <3>1, ClusterStep
  <2> SUFFICES KnownInv'
    BY <2>1
  <2>2. ASSUME NEW R \in SUBSET Pair, SelectPairs(R) PROVE KnownInv'
    <3>1. rows' = R /\ todo' = R /\ parent' = [x \in {} |-> x] /\ stage' \in {"filled", "pairs"}
      BY <2>2 DEF SelectPairs
    <3>2. Known' = {}
      BY <3>1 DEF Known
    <3> QED
      BY <3>1, <3>2 DEF KnownInv, Ends
  <2>3. CASE BeginUnion
    <3>1. PICK p \in todo :
             /\ pair' = p
             /\ parent' = [x \in Known \union {p[1], p[2]} |-> IF x \in Known THEN parent[x] ELSE x]
      BY <2>3 DEF BeginUnion
    <3>2. stage = "pairs" /\ stage' = "first" /\ rows' = rows /\ todo' = todo
      BY <2>3 DEF BeginUnion
    <3>3. Known' = Known \union {p[1], p[2]} /\ p[1] \in Fid /\ p[2] \in Fid
      BY <3>1 DEF Known, ClusterInv, ClusterTypes, Pair
    <3>4. p \in Pair /\ rows' \ todo' = rows \ todo
      BY <3>2 DEF ClusterInv, ClusterTypes
    <3>5. Ends((rows' \ todo') \union {p}) = Ends(rows \ todo) \union {p[1], p[2]}
      BY <3>3, <3>4 DEF Ends
    <3>6. Known = Ends(rows \ todo)
      BY <3>2 DEF KnownInv
    <3>7. stage' \in {"first", "second"} /\ Known' = Ends((rows' \ todo') \union {pair'})
      BY <3>1, <3>2, <3>3, <3>5, <3>6
    <3> QED
      BY <3>7 DEF KnownInv, Ends
  <2>4. CASE Climb
    BY <2>4 DEF Climb, KnownInv, Known, Ends
  <2>5. CASE FirstFound
    <3>1. Known' = Known /\ stage = "first" /\ stage' = "second" /\ rows' = rows /\ todo' = todo /\ pair' = pair
      BY <2>5 DEF FirstFound, Known, Compressed
    <3> QED
      BY <3>1 DEF KnownInv, Ends
  <2>6. CASE SecondFound
    <3>1. /\ Known' = Known
      BY <2>6 DEF SecondFound, Known, Compressed, Linked
    <3>2. /\ stage = "second" /\ stage' \in {"pairs", "flatten"} /\ rows' = rows /\ todo' = todo \ {pair}
          /\ pair \in todo /\ todo \subseteq rows
      BY <2>6 DEF SecondFound, ClusterInv, ClusterTypes
    <3>3. rows' \ todo' = (rows \ todo) \union {pair}
      BY <3>2
    <3> QED
      BY <3>1, <3>2, <3>3 DEF KnownInv, Ends
  <2>7. CASE LookedUp
    <3>1. Known' = Known /\ stage = "flatten" /\ stage' \in {"flatten", "filled"} /\ rows' = rows /\ todo' = todo
      BY <2>7 DEF LookedUp, Known, Compressed
    <3> QED
      BY <3>1 DEF KnownInv, Ends
  <2>8. CASE forest' = forest
    BY <2>8 DEF forest, KnownInv, Known, Ends
  <2> QED
    BY <2>2, <2>3, <2>4, <2>5, <2>6, <2>7, <2>8, ForestSteps DEF MergeStep
<1> QED
  BY <1>1, <1>2, PTL DEF Spec

-----------------------------------------------------------------------------
(* The clusters of the initial and of the final codes.                      *)

AllApart == \A f, g \in Fid : f # g => Disjoint(f, g)

\* The pairs of features with one code and a common side.
Joined(code) == {p \in Pair : /\ layer[p[1]][code] = layer[p[2]][code]
                              /\ CommonSides(layer[p[1]].geom, layer[p[2]].geom) # {}}

Cluster(f, R) == {g \in Fid : Together(f, g, R)}

\* A column of the meta table tells the clusters of the pairs.
Tells(c, R) ==
    \A f \in Fid : /\ c[f] = Null <=> f \notin Ends(R)
                   /\ f \in Ends(R) => {g \in Fid : c[g] = c[f]} = Cluster(f, R)

LEMMA SelectedAreJoined ==
    ASSUME NeighbourInv, "neighbour" \in made, AllApart, NEW code
    PROVE  SameCode(code) = Joined(code)
<1> SUFFICES ASSUME NEW p \in Pair
             PROVE  (\E r \in neighbours : r.fida = p[1] /\ r.fidb = p[2])
                       <=> CommonSides(layer[p[1]].geom, layer[p[2]].geom) # {}
  BY DEF SameCode, Joined
<1>1. p[1] \in Fid /\ p[2] \in Fid /\ p[1] # p[2]
  BY PairOfTwo
<1>2. Disjoint(p[1], p[2])
  BY <1>1 DEF AllApart
<1> DEFINE q == [fida |-> p[1], fidb |-> p[2], dim |-> 1]
<1>3. q.fida = p[1] /\ q.fidb = p[2]
  OBVIOUS
<1>4. /\ CommonSides(layer[p[1]].geom, layer[p[2]].geom) # {} <=> q \in neighbours
      /\ \A r \in neighbours : r.fida = p[1] /\ r.fidb = p[2] => r = q
  BY <1>1, <1>2 DEF NeighbourInv
<1> HIDE DEF q
<1> QED
  BY <1>3, <1>4

\* A feature is alone in its cluster exactly if no pair has it as an end.
LEMMA AloneHasNoPair ==
    ASSUME NEW R \in SUBSET Pair, NEW f \in Fid
    PROVE  Cluster(f, R) = {f} <=> f \notin Ends(R)
<1>1. f \in Cluster(f, R)
  BY DEF Cluster, Together
<1>2. ASSUME f \notin Ends(R), NEW g \in Cluster(f, R) PROVE g = f
  <2>1. Closed({f}, R)
    <3> SUFFICES ASSUME NEW p \in R PROVE p[1] \in {f} <=> p[2] \in {f}
      BY DEF Closed
    <3>1. p[1] # f /\ p[2] # f
      BY <1>2 DEF Ends
    <3> QED
      BY <3>1
  <2>2. Together(f, g, R)
    BY DEF Cluster
  <2> QED
    BY <2>1, <2>2 DEF Together
<1>3. ASSUME f \in Ends(R) PROVE Cluster(f, R) # {f}
  <2>1. PICK p \in R : f = p[1] \/ f = p[2]
    BY <1>3 DEF Ends
  <2>2. p[1] \in Fid /\ p[2] \in Fid /\ p[1] # p[2]
    BY PairOfTwo
  <2>3. Together(f, p[1], R) /\ Together(f, p[2], R)
    BY <2>1 DEF Together, Closed
  <2> QED
    BY <2>2, <2>3 DEF Cluster
<1> QED
  BY <1>1, <1>2, <1>3

\* What is in the dict when it is filled.
LEMMA FilledTells ==
    ASSUME ClusterInv, KnownInv, stage = "filled", NEW c,
           \A f \in Fid : c[f] = IF f \in Known THEN parent[f] ELSE Null
    PROVE  Tells(c, rows)
<1>1. todo = {} /\ rows \in SUBSET Pair /\ Known = Ends(rows) /\ Known \subseteq Fid
  BY DEF ClusterInv, ClusterTypes, KnownInv
<1>2. \A f \in Known : parent[f] \in Nat
  BY FidAssumption DEF ClusterInv, ClusterTypes
<1>3. \A f, g \in Known : parent[f] = parent[g] <=> Together(f, g, rows)
  BY FilledIsTrue DEF ClustersAreTrue
<1>4. \A n \in Nat : n # Null
  BY DEF Null
<1>5. \A f \in Fid : c[f] = Null <=> f \notin Ends(rows)
  BY <1>1, <1>2, <1>4
<1>6. ASSUME NEW f \in Ends(rows), NEW g \in Fid
      PROVE  c[g] = c[f] <=> Together(f, g, rows)
  <2>1. f \in Fid /\ f \in Known /\ c[f] = parent[f] /\ c[f] # Null
    BY <1>1, <1>2, <1>4
  <2>2. CASE g \in Known
    BY <1>3, <2>1, <2>2
  <2>3. CASE g \notin Known
    <3>1. c[g] = Null
      BY <2>3
    <3>2. Cluster(g, rows) = {g}
      BY <1>1, <2>3, AloneHasNoPair
    <3>3. ~Together(g, f, rows)
      BY <2>1, <2>3, <3>2 DEF Cluster
    <3> QED
      BY <2>1, <3>1, <3>3 DEF Together
  <2> QED
    BY <2>2, <2>3
<1> QED
  BY <1>5, <1>6 DEF Tells, Cluster

LEMMA SizeIsNumber ==
    ASSUME OrderInv, NEW S \in SUBSET Fid
    PROVE  Size(S) \in Nat
<1>1. IsFiniteSet(S \X Area)
  BY AreaIsGeometry, TableAssumption, FS_Subset, FS_Product DEF IsGeometry
<1> DEFINE T == {q \in S \X Area : q[2] \in layer[q[1]].geom}
<1>2. T \in SUBSET (S \X Area)
  OBVIOUS
<1>3. Size(S) = Cardinality(T)
  BY DEF Size
<1> HIDE DEF T
<1> QED
  BY <1>1, <1>2, <1>3, FS_Subset, FS_CardinalityType

LEMMA MaxIs ==
    ASSUME NEW D \in SUBSET Int, NEW x \in D, \A y \in D : x >= y
    PROVE  Max(D) = x
<1> DEFINE m == Max(D)
<1>1. m \in D /\ \A y \in D : m >= y
  BY DEF Max
<1> HIDE DEF m
<1>2. m \in Int /\ x \in Int /\ m >= x /\ x >= m
  BY <1>1
<1>3. m = x
  BY <1>2
<1> QED
  BY <1>3 DEF m

Sizes(f) == {Size(Cluster(f, Joined(code))) : code \in {c \in {"initial", "final"} : Cluster(f, Joined(c)) # {f}}}

Largest == [f \in Fid |-> IF Sizes(f) = {} THEN Null ELSE Max(Sizes(f))]

LEMMA LargestOfTwo ==
    ASSUME OrderInv, NEW f \in Fid
    PROVE  LET i == f \in Ends(Joined("initial"))
               n == f \in Ends(Joined("final"))
               a == Size(Cluster(f, Joined("initial")))
               b == Size(Cluster(f, Joined("final")))
           IN  /\ a \in Nat /\ b \in Nat
               /\ ~i /\ ~n => Largest[f] = Null
               /\ i /\ ~n => Largest[f] = a
               /\ ~i /\ n => Largest[f] = b
               /\ i /\ n /\ a < b => Largest[f] = b
               /\ i /\ n /\ ~(a < b) => Largest[f] = a
<1> DEFINE i == f \in Ends(Joined("initial"))
           n == f \in Ends(Joined("final"))
           a == Size(Cluster(f, Joined("initial")))
           b == Size(Cluster(f, Joined("final")))
           D == Sizes(f)
<1>1. a \in Nat /\ b \in Nat
  BY SizeIsNumber DEF Cluster
<1>2. Joined("initial") \in SUBSET Pair /\ Joined("final") \in SUBSET Pair
  BY DEF Joined
<1>3. i <=> Cluster(f, Joined("initial")) # {f}
  BY <1>2, AloneHasNoPair
<1>4. n <=> Cluster(f, Joined("final")) # {f}
  BY <1>2, AloneHasNoPair
<1>5. D = (IF i THEN {a} ELSE {}) \union (IF n THEN {b} ELSE {})
  BY <1>3, <1>4 DEF Sizes
<1>6. Largest[f] = IF D = {} THEN Null ELSE Max(D)
  BY DEF Largest
<1> HIDE DEF i, n, a, b, D
<1>7. ~i /\ ~n => Largest[f] = Null
  BY <1>5, <1>6
<1>8. i /\ ~n => Largest[f] = a
  BY <1>1, <1>5, <1>6, MaxIs
<1>9. ~i /\ n => Largest[f] = b
  BY <1>1, <1>5, <1>6, MaxIs
<1>10. i /\ n /\ a < b => Largest[f] = b
  BY <1>1, <1>5, <1>6, MaxIs
<1>11. i /\ n /\ ~(a < b) => Largest[f] = a
  BY <1>1, <1>5, <1>6, MaxIs
<1> QED
  BY <1>1, <1>7, <1>8, <1>9, <1>10, <1>11 DEF i, n, a, b

Initials == [f \in Fid |-> meta[f].initial]
Finals == [f \in Fid |-> meta[f].final]
Areas == [f \in Fid |-> meta[f].area]
Nulls == [f \in Fid |-> Null]

(* _fill_area leaves the area of the larger cluster.                        *)
LEMMA AreaCounted ==
    ASSUME OrderInv, MetaInv, MakeArea, Areas = Nulls,
           Tells(Initials, Joined("initial")), Tells(Finals, Joined("final")), NEW f \in Fid
    PROVE  meta'[f].area = Largest[f]
<1>1. "meta" \in made
  BY DEF OrderInv, MakeArea, Counting
<1>2. meta' = GreaterArea(GreaterArea(meta, "initial"), "final")
  BY DEF MakeArea, FillArea
<1> DEFINE m == GreaterArea(meta, "initial")
           i == f \in Ends(Joined("initial"))
           n == f \in Ends(Joined("final"))
           a == Size(Cluster(f, Joined("initial")))
           b == Size(Cluster(f, Joined("final")))
           A == ClusterArea(meta, "initial", meta[f].initial)
           B == ClusterArea(m, "final", m[f].final)
<1>3. \A g \in Fid : IsRow(meta[g])
  BY <1>1 DEF MetaInv
<1>4. /\ \A g \in Fid : IsRow(m[g]) /\ m[g].final = meta[g].final
      /\ m[f].area = IF meta[f].initial # Null /\ meta[f].area < A THEN A ELSE meta[f].area
  BY <1>3, GreaterAreaOf
<1> HIDE DEF m
<1>5. meta' = GreaterArea(m, "final")
  BY <1>2 DEF m
<1>6. meta'[f].area = IF m[f].final # Null /\ m[f].area < B THEN B ELSE m[f].area
  BY <1>4, <1>5, GreaterAreaOf
<1>7. meta[f].area = -1 /\ Null = -1
  <2>1. Areas[f] = Nulls[f]
    OBVIOUS
  <2> QED
    BY <2>1 DEF Areas, Nulls, Null
<1>8. (meta[f].initial # Null <=> i) /\ (i => A = a)
  <2>1. \A g \in Fid : Initials[g] = meta[g].initial
    BY DEF Initials
  <2>2. (Initials[f] = Null <=> ~i) /\ (i => {g \in Fid : Initials[g] = Initials[f]} = Cluster(f, Joined("initial")))
    BY DEF Tells
  <2>3. {g \in Fid : Initials[g] = Initials[f]} = {g \in Fid : meta[g].initial = meta[f].initial}
    BY <2>1
  <2>4. A = Size({g \in Fid : meta[g].initial = meta[f].initial})
    BY DEF ClusterArea
  <2> HIDE DEF A, i
  <2> QED
    BY <2>1, <2>2, <2>3, <2>4
<1>9. (m[f].final # Null <=> n) /\ (n => B = b)
  <2>1. \A g \in Fid : Finals[g] = m[g].final
    BY <1>4 DEF Finals
  <2>2. (Finals[f] = Null <=> ~n) /\ (n => {g \in Fid : Finals[g] = Finals[f]} = Cluster(f, Joined("final")))
    BY DEF Tells
  <2>3. {g \in Fid : Finals[g] = Finals[f]} = {g \in Fid : m[g].final = m[f].final}
    BY <2>1
  <2>4. B = Size({g \in Fid : m[g].final = m[f].final})
    BY DEF ClusterArea
  <2> HIDE DEF B, n
  <2> QED
    BY <2>1, <2>2, <2>3, <2>4
<1>10. /\ a \in Nat /\ b \in Nat
       /\ ~i /\ ~n => Largest[f] = Null
       /\ i /\ ~n => Largest[f] = a
       /\ ~i /\ n => Largest[f] = b
       /\ i /\ n /\ a < b => Largest[f] = b
       /\ i /\ n /\ ~(a < b) => Largest[f] = a
  BY LargestOfTwo
<1> HIDE DEF i, n, a, b, A, B
<1>11. m[f].area = IF i THEN a ELSE -1
  <2>1. i => -1 < a
    BY <1>10
  <2> QED
    BY <1>4, <1>7, <1>8, <2>1
<1>12. n => -1 < b
  BY <1>10
<1>13. meta'[f].area = IF n /\ m[f].area < b THEN b ELSE m[f].area
  BY <1>6, <1>9
<1> QED
  BY <1>7, <1>10, <1>11, <1>12, <1>13

ChangeInv ==
    AllApart =>
        /\ "meta" \in made /\ "change" \notin made /\ phase \notin Counting =>
              Initials = Nulls /\ Finals = Nulls /\ Areas = Nulls
        /\ phase = "initial" =>
              rows = Joined("initial") /\ Initials = Nulls /\ Finals = Nulls /\ Areas = Nulls
        /\ phase = "final" =>
              rows = Joined("final") /\ Tells(Initials, Joined("initial")) /\ Finals = Nulls /\ Areas = Nulls
        /\ phase = "area" =>
              Tells(Initials, Joined("initial")) /\ Tells(Finals, Joined("final")) /\ Areas = Nulls
        /\ "change" \in made => Areas = Largest

LEMMA ChangeHolds == Spec => []ChangeInv
<1>1. Init => ChangeInv
  BY DEF Init, ChangeInv, Counting
<1>2. OrderInv /\ NeighbourInv /\ MetaInv /\ ClusterInv /\ KnownInv /\ ChangeInv /\ [Next]_vars => ChangeInv'
  <2> SUFFICES ASSUME OrderInv, NeighbourInv, MetaInv, ClusterInv, KnownInv, ChangeInv, [Next]_vars
               PROVE  ChangeInv'
    OBVIOUS
  <2>1. Steps
    BY StepsKeep
  <2>2. layer' = layer
    BY <2>1 DEF Steps
  <2> SUFFICES ASSUME AllApart
               PROVE  ChangeInv'
    <3>1. AllApart' <=> AllApart
      BY <2>2 DEF AllApart, Disjoint
    <3> QED
      BY <3>1 DEF ChangeInv
  <2>3. AllApart
    OBVIOUS
  <2>4. Joined("initial")' = Joined("initial") /\ Joined("final")' = Joined("final")
    BY <2>2 DEF Joined
  <2>5. Largest' = Largest
    <3>1. \A f \in Fid : Sizes(f)' = Sizes(f)
      BY <2>2 DEF Sizes, Cluster, Size, Area, Joined
    <3> QED
      BY <3>1 DEF Largest
  <2>6. CASE MakeMeta
    <3>1. Making("meta") /\ phase' = "idle" /\ made' = made \union {"meta"}
      BY <2>6 DEF MakeMeta, AtOnce, Finish
    <3>2. "change" \notin made'
      BY <3>1, NeededBefore DEF OrderInv
    <3>3. Initials' = Nulls /\ Finals' = Nulls /\ Areas' = Nulls
      BY <2>6, MetaMade DEF Columns, Initials, Finals, Areas, Nulls
    <3> QED
      BY <3>1, <3>2, <3>3 DEF ChangeInv, Nulls
  <2>7. CASE MakeMarginal
    <3>1. phase = "idle" /\ phase' = "idle" /\ made' = made \union {"marginal"} /\ Making("marginal")
      BY <2>7 DEF MakeMarginal, AtOnce, Finish
    <3>2. Initials' = Initials /\ Finals' = Finals /\ Areas' = Areas
      BY <2>7, MarginalFilled DEF Columns, Initials, Finals, Areas
    <3>3. "meta" \in made
      BY <3>1, NeededBefore
    <3> QED
      BY <2>3, <2>5, <3>1, <3>2, <3>3 DEF ChangeInv, Nulls, Counting
  <2>8. CASE MakeChange
    <3>1. /\ Making("change") /\ phase = "idle" /\ phase' = "initial" /\ made' = made /\ meta' = meta
          /\ rows' = SameCode("initial")
      BY <2>8 DEF MakeChange, Begin, SelectPairs, tables
    <3>2. "change" \notin made /\ "neighbour" \in made /\ "meta" \in made
      BY <3>1, NeededBefore
    <3>3. Initials' = Initials /\ Finals' = Finals /\ Areas' = Areas
      BY <3>1 DEF Initials, Finals, Areas
    <3>4. Initials = Nulls /\ Finals = Nulls /\ Areas = Nulls
      BY <2>3, <3>1, <3>2 DEF ChangeInv, Counting
    <3>5. rows' = Joined("initial")
      BY <2>3, <3>1, <3>2, SelectedAreJoined
    <3> QED
      BY <2>4, <3>1, <3>2, <3>3, <3>4, <3>5 DEF ChangeInv, Nulls, Counting
  <2>9. CASE InitialFilled
    <3>1. phase = "initial" /\ phase' = "final" /\ made' = made /\ stage = "filled" /\ rows' = SameCode("final")
      BY <2>9 DEF InitialFilled, SelectPairs
    <3>2. "change" \notin made /\ "neighbour" \in made /\ "meta" \in made
      BY <3>1 DEF OrderInv, Counting
    <3>3. rows = Joined("initial") /\ Initials = Nulls /\ Finals = Nulls /\ Areas = Nulls
      BY <2>3, <3>1 DEF ChangeInv
    <3>4. Finals' = Finals /\ Areas' = Areas
      BY <2>9, InitialStored DEF Columns, Finals, Areas
    <3>5. \A f \in Fid : Initials'[f] = IF f \in Known THEN parent[f] ELSE Null
      <4>1. \A f \in Fid : meta[f].initial = Null
        <5>1. \A f \in Fid : Initials[f] = Nulls[f]
          BY <3>3
        <5> QED
          BY <5>1 DEF Initials, Nulls
      <4>2. \A f \in Fid : meta'[f].initial = IF f \in Known THEN parent[f] ELSE meta[f].initial
        BY <2>9, InitialStored DEF Columns
      <4> QED
        BY <4>1, <4>2 DEF Initials
    <3>6. Tells(Initials', Joined("initial"))
      BY <3>1, <3>3, <3>5, FilledTells
    <3>7. rows' = Joined("final")
      BY <2>3, <3>1, <3>2, SelectedAreJoined
    <3>8. Tells(Initials, Joined("initial"))'
      BY <2>4, <3>6 DEF Tells, Ends, Cluster
    <3> QED
      BY <2>4, <3>1, <3>2, <3>3, <3>4, <3>7, <3>8 DEF ChangeInv, Nulls, Counting
  <2>10. CASE FinalFilled
    <3>1. phase = "final" /\ phase' = "area" /\ made' = made /\ stage = "filled"
      BY <2>10 DEF FinalFilled
    <3>2. "change" \notin made
      BY <3>1 DEF OrderInv, Counting
    <3>3. rows = Joined("final") /\ Tells(Initials, Joined("initial")) /\ Finals = Nulls /\ Areas = Nulls
      BY <2>3, <3>1 DEF ChangeInv
    <3>4. Initials' = Initials /\ Areas' = Areas
      BY <2>10, FinalStored DEF Columns, Initials, Areas
    <3>5. \A f \in Fid : Finals'[f] = IF f \in Known THEN parent[f] ELSE Null
      <4>1. \A f \in Fid : meta[f].final = Null
        <5>1. \A f \in Fid : Finals[f] = Nulls[f]
          BY <3>3
        <5> QED
          BY <5>1 DEF Finals, Nulls
      <4>2. \A f \in Fid : meta'[f].final = IF f \in Known THEN parent[f] ELSE meta[f].final
        BY <2>10, FinalStored DEF Columns
      <4> QED
        BY <4>1, <4>2 DEF Finals
    <3>6. Tells(Finals', Joined("final"))
      BY <3>1, <3>3, <3>5, FilledTells
    <3>7. Tells(Initials, Joined("initial"))' /\ Tells(Finals, Joined("final"))'
      BY <2>4, <3>3, <3>4, <3>6 DEF Tells, Ends, Cluster
    <3> QED
      BY <3>1, <3>2, <3>3, <3>4, <3>7 DEF ChangeInv, Nulls, Counting
  <2>11. CASE MakeArea
    <3>1. phase = "area" /\ phase' = "idle" /\ made' = made \union {"change"}
      BY <2>11 DEF MakeArea, Finish
    <3>2. Tells(Initials, Joined("initial")) /\ Tells(Finals, Joined("final")) /\ Areas = Nulls
      BY <2>3, <3>1 DEF ChangeInv
    <3>3. \A f \in Fid : meta'[f].area = Largest[f]
      BY <2>11, <3>2, AreaCounted
    <3>4. Areas' = Largest
      BY <3>3 DEF Areas, Largest
    <3> QED
      BY <2>5, <3>1, <3>4 DEF ChangeInv
  <2>12. CASE ~(MakeMeta \/ MakeMarginal \/ ChangeStep)
    <3>1. meta' = meta /\ Away(Counting) /\ Same("change") /\ Same("meta")
      BY <2>1, <2>12 DEF Steps
    <3>2. Initials' = Initials /\ Finals' = Finals /\ Areas' = Areas
      BY <3>1 DEF Initials, Finals, Areas
    <3>3. rows' = rows
      <4>1. CASE MergeStep
        BY <4>1 DEF MergeStep, BeginUnion, Climb, FirstFound, SecondFound, LookedUp
      <4>2. CASE forest' = forest
        BY <4>2 DEF forest
      <4> QED
        BY <2>12, <4>1, <4>2, ForestSteps DEF SelectStep, ChangeStep
    <3>4. Tells(Initials, Joined("initial"))' <=> Tells(Initials, Joined("initial"))
      BY <2>4, <3>2 DEF Tells, Ends, Cluster
    <3>5. Tells(Finals, Joined("final"))' <=> Tells(Finals, Joined("final"))
      BY <2>4, <3>2 DEF Tells, Ends, Cluster
    <3> QED
      BY <2>3, <2>4, <2>5, <3>1, <3>2, <3>3, <3>4, <3>5 DEF ChangeInv, Nulls, Counting, Away, Same
  <2> QED
    BY <2>6, <2>7, <2>8, <2>9, <2>10, <2>11, <2>12 DEF ChangeStep
<1> QED
  BY <1>1, <1>2, OrderHolds, NeighboursHold, MetaHolds, ClustersHold, PTL DEF Spec

(* So do the clusters of the initial and of the final codes of a job's       *)
(* layer, whatever else its checks ask for in between.                      *)
THEOREM ClustersStayTrue == Spec => []ClustersAreTrue
  BY FilledIsTrue, ClustersHold, PTL

(* The area of a change is that of the larger of its two clusters.          *)
THEOREM ChangesHaveTheirArea == Spec => []ChangeIsTrue
<1>1. OrderInv /\ ChangeInv => ChangeIsTrue
  <2> SUFFICES ASSUME OrderInv, ChangeInv, "change" \in made, AllApart, NEW f \in Fid
               PROVE  meta[f].area = IF Sizes(f) = {} THEN Null ELSE Max(Sizes(f))
    BY DEF ChangeIsTrue, AllApart, Sizes, Cluster, Joined
  <2>1. Areas[f] = Largest[f]
    BY DEF ChangeInv
  <2> QED
    BY <2>1 DEF Areas, Largest
<1> QED
  BY <1>1, OrderHolds, ChangeHolds, PTL

-----------------------------------------------------------------------------
(* Jobs of raster products.                                                 *)

\* The layers the running check has looked at.
Behind == {n \in LookedAt(Check) : n < layerNr}

\* The running check has the verdict of the layers behind it, and goes on only to
\* one it looks at.
RunningInv ==
    Running /\ Check \notin Aggregate =>
        /\ status = "ok" <=> \A n \in Behind : Accepts(Check, input.facts[n])
        /\ layerNr \in DOMAIN input.facts => layerNr \in LookedAt(Check)

JobInv ==
    /\ input \in RasterInput
    /\ step \in Nat \ {0}
    /\ layerNr \in Nat \ {0}
    /\ status \in {"ok", "failed", "aborted"}
    /\ outcomes \in Seq({"ok", "failed", "aborted", "crashed"})
    /\ Len(outcomes) <= Len(input.steps)
    /\ Running => Len(outcomes) = step - 1
    /\ RunningInv
    /\ VerdictOfLayers

(* A check that does not crash finds nothing in a layer exactly if it       *)
(* accepts the layer.                                                       *)
LEMMA FindingIsTrue ==
    ASSUME input \in RasterInput, NEW check \in LayerCheck, NEW n \in DOMAIN input.facts
    PROVE  LET f == input.facts[n]
           IN  /\ Finding(check, f) \in {"ok", "failed", "aborted", "crashed"}
               /\ Finding(check, f) # "crashed" => (Finding(check, f) = "ok" <=> Accepts(check, f))
<1> DEFINE f == input.facts[n]
<1>1. IsFact(f) /\ {input.blocks, input.least, input.most} \subseteq Int
  BY RasterAssumption
<1>2. CASE check \in {"attribute", "bit_depth", "compress", "epsg", "nodata", "origin", "pixel_size"}
  BY <1>1, <1>2 DEF Finding, Accepts, Meets, IsFact, Attribute, BitDepth, Compress, Epsg, NoDataSet, Origin, PixelSize
<1>3. CASE check = "cog"
  BY <1>3 DEF Finding, Accepts, Cog
<1>4. CASE check = "color"
  BY <1>4 DEF Finding, Accepts, Meets, Color
<1>5. CASE check = "tile"
  BY <1>1, <1>5 DEF Finding, Accepts, Meets, IsFact, Tiled
<1>6. CASE check = "value"
  BY <1>6 DEF Finding, Accepts, ValueCheck
<1>7. CASE check = "value_min_max"
  <2>1. (\E v \in f.values : v < input.least \/ v > input.most)
            <=> ~(\A v \in f.values : input.least <= v /\ v <= input.most)
    BY <1>1 DEF IsFact
  <2>2. QED
    BY <1>7, <2>1 DEF Finding, Accepts, Meets, ValueMinMax
<1>8. QED
  BY <1>2, <1>3, <1>4, <1>5, <1>6, <1>7 DEF LayerCheck

(* A check that returns before the last layer has found something, or there *)
(* is nothing behind that layer it looks at.                                *)
LEMMA ReturnsFailed ==
    ASSUME NEW check, NEW n \in DOMAIN input.facts, Returns(check, input.facts[n]),
           Accepts(check, input.facts[n])
    PROVE  check = "color" /\ ~HasColorTable(input.facts[n])
BY DEF Accepts, Returns, Meets

(* What layers meet depends on the job alone.                               *)
LEMMA SameJob ==
    ASSUME UNCHANGED input, NEW check \in LayerCheck
    PROVE  /\ LookedAt(check)' = LookedAt(check)
           /\ \A n \in DOMAIN input.facts : Accepts(check, input.facts[n])' <=> Accepts(check, input.facts[n])
<1>1. LookedAt(check)' = LookedAt(check)
  BY DEF LookedAt, HasColorTable
<1>2. ASSUME NEW n \in DOMAIN input.facts
      PROVE  Meets(check, input.facts[n])' <=> Meets(check, input.facts[n])
  BY DEF LayerCheck, Meets, OnGrid, Grid
<1>3. ASSUME NEW n \in DOMAIN input.facts
      PROVE  Accepts(check, input.facts[n])' <=> Accepts(check, input.facts[n])
  <2>1. CASE check \in {"cog", "value"}
    BY <2>1 DEF Accepts, Counted
  <2>2. CASE check \notin {"cog", "value"}
    BY <1>2, <2>2 DEF Accepts
  <2>3. QED
    BY <2>1, <2>2
<1>4. QED
  BY <1>1, <1>3

LEMMA SameLayers ==
    ASSUME UNCHANGED input, input \in RasterInput,
           NEW k \in DOMAIN input.steps, input.steps[k] \notin Aggregate
    PROVE  /\ input.steps[k] \in LayerCheck
           /\ AllAccepted(k)' <=> AllAccepted(k)
<1>1. input.steps[k] \in LayerCheck
  BY RasterAssumption
<1>2. /\ LookedAt(input.steps[k])' = LookedAt(input.steps[k])
      /\ LookedAt(input.steps[k]) \subseteq DOMAIN input.facts
  BY <1>1, SameJob DEF LookedAt
<1>3. AllAccepted(k)' <=> \A n \in LookedAt(input.steps[k]) : Accepts(input.steps[k], input.facts[n])'
  BY <1>2 DEF AllAccepted
<1>4. QED
  BY <1>1, <1>2, <1>3, SameJob DEF AllAccepted

LEMMA InitJobInv == RasterInit => JobInv
<1> SUFFICES ASSUME RasterInit PROVE JobInv
  OBVIOUS
<1>1. input.steps \in Seq(LayerCheck \union Aggregate)
  BY RasterAssumption DEF RasterInit
<1>2. RunningInv
  BY RasterAssumption DEF RasterInit, RunningInv, Behind, LookedAt
<1>3. QED
  BY <1>1, <1>2 DEF RasterInit, JobInv, VerdictOfLayers

(* A step ends with its verdict, or with a crash, and the next one begins.  *)
LEMMA EndsStep ==
    ASSUME JobInv, Running, UNCHANGED input,
           NEW s \in {"ok", "failed", "aborted", "crashed"}, EndStep(s),
           s = "crashed" \/ Check \in Aggregate \/ (s = "ok" <=> AllAccepted(step))
    PROVE  JobInv'
<1>1. input.steps \in Seq(LayerCheck \union Aggregate) /\ DOMAIN input.facts \subseteq Nat \ {0}
  BY RasterAssumption DEF JobInv
<1>2. /\ outcomes' \in Seq({"ok", "failed", "aborted", "crashed"})
      /\ Len(outcomes') = step /\ Len(outcomes) = step - 1
      /\ outcomes'[step] = s
      /\ \A k \in 1 .. step - 1 : outcomes'[k] = outcomes[k]
  BY DEF JobInv, EndStep
<1>3. step \in 1 .. Len(input.steps)
  BY <1>1 DEF JobInv, Running
<1>4. \A k \in 1 .. step : input.steps[k] \notin Aggregate => (AllAccepted(k)' <=> AllAccepted(k))
  BY <1>1, <1>3, SameLayers DEF JobInv
<1>5. VerdictOfLayers'
  <2> SUFFICES ASSUME NEW k \in 1 .. step, input.steps[k] \notin Aggregate
               PROVE  Verdict(k, AllAccepted(k))'
    BY <1>2, <1>4 DEF VerdictOfLayers
  <2>1. CASE k < step
    BY <1>2, <1>4, <2>1 DEF JobInv, VerdictOfLayers, Verdict
  <2>2. CASE k = step
    BY <1>2, <1>4, <2>2 DEF Verdict, Check
  <2>3. QED
    BY <1>3, <2>1, <2>2
<1>6. step' \in Nat \ {0} /\ (Running' => step' = step + 1)
  BY <1>1, <1>3 DEF EndStep, Running
<1>7. RunningInv'
  BY <1>1 DEF RunningInv, Behind, LookedAt, EndStep
<1>8. QED
  BY <1>2, <1>3, <1>5, <1>6, <1>7 DEF JobInv, EndStep

LEMMA ChecksLayer == JobInv /\ CheckLayer => JobInv'
<1> SUFFICES ASSUME JobInv, CheckLayer PROVE JobInv'
  OBVIOUS
<1> DEFINE found == Finding(Check, Fact)
<1>1. /\ input.steps \in Seq(LayerCheck \union Aggregate)
      /\ DOMAIN input.facts = 1 .. Len(input.facts) /\ Len(input.facts) \in Nat
  BY RasterAssumption DEF JobInv
<1>2. Check \in LayerCheck /\ layerNr \in DOMAIN input.facts
  BY <1>1 DEF CheckLayer, JobInv, Running, Check
<1>3. CASE found = "crashed"
  BY <1>3, EndsStep DEF CheckLayer
<1>4. CASE found # "crashed"
  <2>1. /\ status' = Worse(status, found)
        /\ layerNr' = IF Returns(Check, Fact) THEN Len(input.facts) + 1 ELSE layerNr + 1
        /\ UNCHANGED <<input, step, outcomes>>
    BY <1>4 DEF CheckLayer
  <2>2. RunningInv'
    <3>0. Check' = Check /\ LookedAt(Check)' = LookedAt(Check) /\ Behind' \subseteq DOMAIN input.facts
      BY <1>2, <2>1, SameJob DEF Check, Behind, LookedAt
    <3>7. \A n \in DOMAIN input.facts : Accepts(Check, input.facts[n])' <=> Accepts(Check, input.facts[n])
      BY <1>2, <2>1, <3>0, SameJob
    <3> SUFFICES /\ status' = "ok" <=> \A n \in Behind' : Accepts(Check, input.facts[n])
                 /\ layerNr' \in DOMAIN input.facts => layerNr' \in LookedAt(Check)
      BY <2>1, <3>0, <3>7 DEF RunningInv
    <3>1. found = "ok" <=> Accepts(Check, Fact)
      BY <1>2, <1>4, FindingIsTrue DEF JobInv, Fact
    <3>2. /\ status = "ok" <=> \A n \in Behind : Accepts(Check, input.facts[n])
          /\ layerNr \in LookedAt(Check)
      BY <1>2 DEF JobInv, RunningInv, CheckLayer
    <3>3. status' = "ok" <=> status = "ok" /\ found = "ok"
      <4>1. found \in {"ok", "failed", "aborted"}
        BY <1>2, <1>4, FindingIsTrue DEF JobInv, Fact
      <4>2. QED
        BY <2>1, <4>1 DEF Worse, JobInv
    <3>8. Behind' = {n \in LookedAt(Check) : n < layerNr'}
      BY <3>0 DEF Behind
    <3>4. CASE Returns(Check, Fact) /\ ~Accepts(Check, Fact)
      <4>1. layerNr' = Len(input.facts) + 1 /\ layerNr \in Behind'
        BY <1>1, <1>2, <2>1, <3>2, <3>4, <3>8
      <4>2. QED
        BY <1>1, <3>1, <3>3, <3>4, <4>1 DEF Fact
    <3>5. CASE ~Returns(Check, Fact)
      <4>1. Behind' = Behind \union {layerNr}
        BY <1>1, <1>2, <2>1, <3>2, <3>5, <3>8 DEF Behind, LookedAt, JobInv
      <4>2. Check = "color" => HasColorTable(input.facts[layerNr])
        BY <3>5 DEF Returns, Fact
      <4>3. layerNr + 1 \in DOMAIN input.facts => layerNr + 1 \in LookedAt(Check)
        <5> SUFFICES ASSUME Check = "color", NEW m \in DOMAIN input.facts, m < layerNr + 1
                     PROVE  HasColorTable(input.facts[m])
          BY DEF LookedAt
        <5>1. m = layerNr \/ m < layerNr
          BY <1>1, <1>2
        <5> QED
          BY <3>2, <4>2, <5>1 DEF LookedAt
      <4>4. QED
        BY <2>1, <3>1, <3>2, <3>3, <3>5, <4>1, <4>3 DEF Fact
    <3>6. CASE Returns(Check, Fact) /\ Accepts(Check, Fact)
      <4>1. Check = "color" /\ ~HasColorTable(input.facts[layerNr])
        BY <1>2, <3>6, ReturnsFailed DEF Fact
      <4>2. \A n \in LookedAt(Check) : n = layerNr \/ n < layerNr
        BY <1>1, <1>2, <4>1 DEF LookedAt
      <4>3. layerNr' = Len(input.facts) + 1
        BY <2>1, <3>6
      <4>4. Behind' = Behind \union {layerNr}
        BY <1>1, <1>2, <3>2, <3>8, <4>2, <4>3 DEF Behind, LookedAt
      <4>5. QED
        BY <1>1, <3>1, <3>2, <3>3, <4>3, <4>4 DEF Fact
    <3>9. QED
      BY <3>4, <3>5, <3>6
  <2>3. VerdictOfLayers'
    BY <1>1, <2>1, SameLayers DEF JobInv, VerdictOfLayers, Verdict
  <2>4. layerNr' \in Nat \ {0} /\ status' \in {"ok", "failed", "aborted"}
    BY <1>1, <2>1 DEF JobInv, Worse
  <2>5. QED
    BY <2>1, <2>2, <2>3, <2>4 DEF JobInv, Running
<1>5. QED
  BY <1>3, <1>4

LEMMA ChecksLayers == JobInv /\ LayersChecked => JobInv'
<1> SUFFICES ASSUME JobInv, LayersChecked PROVE JobInv'
  OBVIOUS
<1>1. DOMAIN input.facts = 1 .. Len(input.facts) /\ Len(input.facts) \in Nat
  BY RasterAssumption DEF JobInv
<1>2. Behind = LookedAt(Check)
  BY <1>1 DEF Behind, LookedAt, LayersChecked, JobInv
<1>3. status = "ok" <=> AllAccepted(step)
  BY <1>2 DEF JobInv, RunningInv, LayersChecked, AllAccepted, Check
<1>4. QED
  BY <1>3, EndsStep DEF LayersChecked, JobInv

(* The verdict of a check is the one on the layers it looks at, for every   *)
(* delivery and every sequence of steps: on all of them, but for the color  *)
(* check, which looks at none after one that can have no color table.       *)
THEOREM VerdictIsOnLayers == RasterSpec => []VerdictOfLayers
<1>1. JobInv /\ [RasterNext]_rasterVars => JobInv'
  <2> SUFFICES ASSUME JobInv, [RasterNext]_rasterVars PROVE JobInv'
    OBVIOUS
  <2>1. ASSUME UNCHANGED <<input, step, layerNr, status, outcomes>> PROVE JobInv'
    <3>1. input.steps \in Seq(LayerCheck \union Aggregate)
      BY RasterAssumption DEF JobInv
    <3>2. VerdictOfLayers'
      BY <2>1, <3>1, SameLayers DEF JobInv, VerdictOfLayers, Verdict
    <3>3. ASSUME Running, Check \notin Aggregate PROVE RunningInv'
      <4>1. Check \in LayerCheck
        BY <3>1, <3>3 DEF JobInv, Running, Check
      <4>2. Check' = Check
        BY <2>1 DEF Check
      <4>3. LookedAt(Check)' = LookedAt(Check) /\ Behind' = Behind /\ Behind \subseteq DOMAIN input.facts
        BY <2>1, <4>1, <4>2, SameJob DEF Behind, LookedAt
      <4>4. \A n \in DOMAIN input.facts : Accepts(Check, input.facts[n])' <=> Accepts(Check, input.facts[n])
        BY <2>1, <4>1, <4>2, SameJob
      <4>5. QED
        BY <2>1, <3>3, <4>2, <4>3, <4>4 DEF RunningInv, JobInv
    <3>4. RunningInv'
      BY <2>1, <3>3 DEF RunningInv, Running, Check
    <3>5. QED
      BY <2>1, <3>2, <3>4 DEF JobInv, Running
  <2>2. CASE CheckLayer
    BY <2>2, ChecksLayer
  <2>3. CASE LayersChecked
    BY <2>3, ChecksLayers
  <2>4. CASE GapStep
    BY <2>1, <2>4 DEF GapStep, jobVars
  <2>5. CASE GapEnds
    <3>1. /\ Running /\ UNCHANGED input
          /\ Check \in Aggregate /\ EndStep(GapVerdict)
      BY <2>5 DEF GapEnds, Aggregate
    <3>2. GapVerdict \in {"ok", "failed", "crashed"}
      BY DEF GapVerdict
    <3>3. QED
      BY <3>1, <3>2, EndsStep
  <2>6. CASE MmuStep
    BY <2>1, <2>6 DEF MmuStep
  <2>7. CASE MmuEnds
    <3>1. /\ Running /\ UNCHANGED input
          /\ Check \in Aggregate /\ EndStep(mmu)
      BY <2>7 DEF MmuEnds, Aggregate
    <3>2. mmu \in {"ok", "failed", "aborted", "crashed"}
      BY <2>7 DEF MmuEnds, MmuDone
    <3>3. QED
      BY <3>1, <3>2, EndsStep
  <2>8. CASE UNCHANGED rasterVars
    BY <2>1, <2>8 DEF rasterVars, jobVars
  <2>9. QED
    BY <2>2, <2>3, <2>4, <2>5, <2>6, <2>7, <2>8 DEF RasterNext
<1>2. JobInv => VerdictOfLayers
  BY DEF JobInv
<1>3. QED
  BY InitJobInv, <1>1, <1>2, PTL DEF RasterSpec

-----------------------------------------------------------------------------
(* The gap check.  First the arithmetic of pixels: all extents are          *)
(* multiples of the resolution away from the mask's corner.                 *)

LEMMA Multiples ==
    ASSUME NEW p \in Int, NEW K \in Int, K > 0
    PROVE  /\ p * K \in Int
           /\ (p * K) \div K = p
           /\ (p * K) % K = 0
           /\ p % K = 0 => p = (p \div K) * K
           /\ p \div K \in Int
           /\ (p \div K) * K <= p /\ p < ((p \div K) + 1) * K
<1>1. p * K = K * p
  OBVIOUS
<1>2. (K * p) \div K = p /\ K * p \in Int
  OBVIOUS
<1>3. K * p - K * ((K * p) \div K) = (K * p) % K
  BY <1>2
<1>4. (p * K) % K = 0
  BY <1>1, <1>2, <1>3
<1>5. p % K = 0 => p = K * (p \div K)
  OBVIOUS
<1>6. p \div K \in Int /\ K * (p \div K) <= p /\ p < K * ((p \div K) + 1)
  OBVIOUS
<1>7. K * (p \div K) = (p \div K) * K /\ K * ((p \div K) + 1) = ((p \div K) + 1) * K
  BY <1>6
<1>8. QED
  BY <1>1, <1>2, <1>4, <1>5, <1>6, <1>7

LEMMA Ordered ==
    ASSUME NEW p \in Int, NEW q \in Int, NEW K \in Int, K > 0
    PROVE  /\ p < q <=> p * K < q * K
           /\ p <= q <=> p * K <= q * K
           /\ p * K + q * K = (p + q) * K
           /\ p * K - q * K = (p - q) * K
OBVIOUS

(* One axis: a tile from pixel T on, of n pixels, and a raster of l pixels  *)
(* that begins a pixels from the mask's corner o.  What the intersection of *)
(* the extents tells of pixel c is what the pixels tell.                    *)
OnAxis(K, o, a, T, n, l, c) ==
    {K, o, a, T, n, l} \subseteq Int /\ K > 0 /\ c \in T .. T + n - 1

AxisTells(K, a, T, l, c, e1, e2, r1, r2, x1, x2) ==
    LET col == c - T - ((x1 - e1) \div K)
    IN  /\ e2 < r1 \/ e1 > r2 => c - a \notin 0 .. l - 1
        /\ c - a \in 0 .. l - 1 <=> x1 < x2 /\ col \in 0 .. (x2 - x1) \div K - 1
        /\ (x1 - r1) \div K + col = c - a

LEMMA Axis ==
    ASSUME NEW K, NEW o, NEW a, NEW T, NEW n, NEW l, NEW c, OnAxis(K, o, a, T, n, l, c)
    PROVE  LET e1 == o + T * K
               e2 == e1 + n * K
               r1 == o + a * K
               r2 == r1 + l * K
           IN  AxisTells(K, a, T, l, c, e1, e2, r1, r2, GreaterOf(e1, r1), LesserOf(e2, r2))
<1> DEFINE e1 == o + T * K
           e2 == e1 + n * K
           r1 == o + a * K
           r2 == r1 + l * K
           lo == GreaterOf(T, a)
           hi == LesserOf(T + n, a + l)
           x1 == GreaterOf(e1, r1)
           x2 == LesserOf(e2, r2)
<1>0. {K, o, a, T, n, l} \subseteq Int /\ K > 0 /\ c \in T .. T + n - 1
  BY DEF OnAxis
<1>1. T + n \in Int /\ a + l \in Int /\ lo \in Int /\ hi \in Int
  BY <1>0 DEF GreaterOf, LesserOf
<1>2. e2 = o + (T + n) * K /\ r2 = o + (a + l) * K
  BY <1>0, Ordered, Multiples
<1>3. {e1, e2, r1, r2} \subseteq Int
  BY <1>0, <1>1, <1>2, Multiples
<1>14. e1 = o + T * K /\ r1 = o + a * K
  OBVIOUS
<1>4. x1 = o + lo * K
  <2>1. T > a <=> e1 > r1
    BY <1>0, Ordered, Multiples
  <2>2. QED
    BY <1>0, <2>1 DEF GreaterOf
<1>5. x2 = o + hi * K
  <2>1. T + n < a + l <=> e2 < r2
    BY <1>0, <1>1, <1>2, <1>14, Ordered, Multiples
  <2>2. QED
    BY <1>0, <1>2, <2>1 DEF LesserOf
<1> HIDE DEF lo, hi, x1, x2, e1, e2, r1, r2
<1>6. x1 - e1 = (lo - T) * K /\ x2 - x1 = (hi - lo) * K /\ x1 - r1 = (lo - a) * K
  <2>1. lo * K \in Int /\ hi * K \in Int /\ T * K \in Int /\ a * K \in Int
    BY <1>0, <1>1, Multiples
  <2>2. /\ lo * K - T * K = (lo - T) * K /\ hi * K - lo * K = (hi - lo) * K
        /\ lo * K - a * K = (lo - a) * K
    BY <1>0, <1>1, Ordered
  <2>3. QED
    BY <1>0, <1>14, <1>4, <1>5, <2>1, <2>2
<1>7. (x1 - e1) \div K = lo - T /\ (x2 - x1) \div K = hi - lo /\ (x1 - r1) \div K = lo - a
  <2>1. lo - T \in Int /\ hi - lo \in Int /\ lo - a \in Int
    BY <1>0, <1>1
  <2>2. QED
    BY <1>0, <1>6, <2>1, Multiples
<1>8. x1 < x2 <=> lo < hi
  <2>1. lo * K \in Int /\ hi * K \in Int /\ (lo < hi <=> lo * K < hi * K)
    BY <1>0, <1>1, Multiples, Ordered
  <2>2. QED
    BY <1>0, <1>4, <1>5, <2>1
<1>9. c - a \in 0 .. l - 1 <=> lo <= c /\ c < hi
  BY <1>0 DEF lo, hi, GreaterOf, LesserOf
<1>10. e2 < r1 \/ e1 > r2 => ~(lo <= c /\ c < hi)
  <2>1. /\ e2 < r1 <=> T + n < a
        /\ e1 > r2 <=> T > a + l
    <3>1. /\ (T + n) * K \in Int /\ (a + l) * K \in Int /\ a * K \in Int /\ T * K \in Int
      BY <1>0, <1>1, Multiples
    <3>2. /\ T + n < a <=> (T + n) * K < a * K
          /\ a + l < T <=> (a + l) * K < T * K
      BY <1>0, <1>1, Ordered
    <3>3. QED
      BY <1>0, <1>1, <1>2, <1>14, <3>1, <3>2
  <2>2. QED
    BY <1>0, <2>1 DEF lo, hi, GreaterOf, LesserOf
<1>11. c - T - (lo - T) = c - lo /\ lo - a + (c - lo) = c - a
  BY <1>0, <1>1
<1>12. c - lo \in 0 .. (hi - lo) - 1 <=> lo <= c /\ c < hi
  BY <1>0, <1>1
<1>13. QED
  BY <1>0, <1>1, <1>3, <1>7, <1>8, <1>9, <1>10, <1>11, <1>12 DEF AxisTells, x1, x2, e1, e2, r1, r2

(* The comparison of a tile tells of each of its pixels whether the layer   *)
(* has a gap at the spot, wherever the tile lies.                           *)
LEMMA TileTells ==
    ASSUME IsMask(mask), IsLayer(Raster), Aligned(mask, Raster),
           NEW t \in Nat \X Nat, NEW c \in TilePixels(t)
    PROVE  OutsideRaster(t) \/ ReadTile(t, c) = gapValue
               <=> IsGap(Raster, Spot(mask, Raster, c), gapValue)
<1> DEFINE K == mask.res
           T1 == t[1] * GapBlock
           T2 == t[2] * GapBlock
           n1 == LesserOf(GapBlock, mask.ncols - T1)
           n2 == LesserOf(GapBlock, mask.nrows - T2)
           a == (Raster.x - mask.x) \div K
           b == (Raster.y - mask.y) \div K
           e == TileExtent(t)
           r == Common(t)
           col == c[1] - T1 - ((r.x1 - e.x1) \div K)
           row == c[2] - T2 - ((e.y2 - r.y2) \div K)
           p == Spot(mask, Raster, c)
<1>1. /\ GapBlock \in Nat \ {0} /\ K \in Nat \ {0} /\ K = Raster.res
      /\ {mask.x, mask.y, mask.ncols, mask.nrows} \subseteq Int
      /\ {Raster.x, Raster.y, Raster.ncols, Raster.nrows} \subseteq Int
  BY GapAssumption DEF IsMask, IsLayer, Aligned
<1>2. T1 \in Int /\ T2 \in Int /\ n1 \in Int /\ n2 \in Int /\ a \in Int /\ b \in Int
  BY <1>1, Multiples DEF LesserOf
<1>3. c[1] \in T1 .. T1 + n1 - 1 /\ c[2] \in T2 .. T2 + n2 - 1
  <2>1. (t[1] + 1) * GapBlock = T1 + GapBlock /\ (t[2] + 1) * GapBlock = T2 + GapBlock
    BY <1>1, <1>2
  <2>2. /\ c[1] \in T1 .. LesserOf(T1 + GapBlock, mask.ncols) - 1
        /\ c[2] \in T2 .. LesserOf(T2 + GapBlock, mask.nrows) - 1
    BY <2>1 DEF TilePixels
  <2>3. QED
    BY <1>1, <1>2, <2>2 DEF LesserOf
<1>4. Raster.x = mask.x + a * K /\ -Raster.y = -mask.y + (-b) * K
  <2>1. (Raster.x - mask.x) % K = 0 /\ (Raster.y - mask.y) % K = 0
    BY <1>1 DEF Aligned
  <2>2. Raster.x - mask.x = a * K /\ Raster.y - mask.y = b * K
    <3>1. Raster.x - mask.x \in Int /\ Raster.y - mask.y \in Int /\ K \in Int /\ K > 0
      BY <1>1
    <3>2. QED
      BY <2>1, <3>1, Multiples
  <2>3. (-b) * K = -(b * K)
    <3>1. -b \in Int /\ K \in Int /\ K > 0 /\ -b + b = 0
      BY <1>1, <1>2
    <3>2. (-b) * K + b * K = 0 * K
      BY <1>2, <3>1, Ordered
    <3>3. (-b) * K \in Int /\ b * K \in Int /\ 0 * K = 0
      BY <1>2, <3>1, Multiples
    <3>4. QED
      BY <3>2, <3>3
  <2>5. a * K \in Int /\ b * K \in Int
    BY <1>1, <1>2, Multiples
  <2>4. QED
    BY <1>1, <2>2, <2>3, <2>5
<1>5. p = <<c[1] - a, c[2] + b>>
  <2>1. mask.x - Raster.x = (-a) * K
    BY <1>1, <1>2, <1>4, Multiples
  <2>2. (mask.x - Raster.x) \div K = -a
    BY <1>1, <1>2, <2>1, Multiples
  <2>3. QED
    BY <1>1, <1>2, <1>3, <2>2 DEF Spot
<1>6. /\ e.x1 = mask.x + T1 * K /\ e.x2 = e.x1 + n1 * K
      /\ e.y2 = mask.y - T2 * K /\ e.y1 = e.y2 - n2 * K
  BY DEF TileExtent
<1>7. /\ Right(Raster) = Raster.x + Raster.ncols * K
      /\ Bottom(Raster) = Raster.y - Raster.nrows * K
  BY <1>1 DEF Right, Bottom
<1>8. /\ T1 * K \in Int /\ n1 * K \in Int /\ T2 * K \in Int /\ n2 * K \in Int
      /\ Raster.ncols * K \in Int /\ Raster.nrows * K \in Int
  BY <1>1, <1>2, Multiples
<1>9. /\ r.x1 = GreaterOf(e.x1, Raster.x) /\ r.x2 = LesserOf(e.x2, Right(Raster))
      /\ r.y1 = GreaterOf(e.y1, Bottom(Raster)) /\ r.y2 = LesserOf(e.y2, Raster.y)
  BY DEF Common
<1> HIDE DEF K, T1, T2, n1, n2, a, b, e, r, p
<1>10. /\ e.x2 < Raster.x \/ e.x1 > Right(Raster) => c[1] - a \notin 0 .. Raster.ncols - 1
       /\ c[1] - a \in 0 .. Raster.ncols - 1
              <=> r.x1 < r.x2 /\ col \in 0 .. (r.x2 - r.x1) \div K - 1
       /\ (r.x1 - Raster.x) \div K + col = c[1] - a
  <2> DEFINE x1 == GreaterOf(e.x1, Raster.x)
             x2 == LesserOf(e.x2, Right(Raster))
             col1 == c[1] - T1 - ((x1 - e.x1) \div K)
  <2>1. K \in Int /\ K > 0 /\ mask.x \in Int /\ Raster.ncols \in Int
    BY <1>1
  <2>2. Right(Raster) = Raster.x + Raster.ncols * K
    BY <1>7
  <2>3. /\ e.x2 < Raster.x \/ e.x1 > Right(Raster) => c[1] - a \notin 0 .. Raster.ncols - 1
        /\ c[1] - a \in 0 .. Raster.ncols - 1
               <=> x1 < x2 /\ col1 \in 0 .. (x2 - x1) \div K - 1
        /\ (x1 - Raster.x) \div K + col1 = c[1] - a
    <3>1. OnAxis(K, mask.x, a, T1, n1, Raster.ncols, c[1])
      BY <1>2, <1>3, <2>1 DEF OnAxis
    <3>2. AxisTells(K, a, T1, Raster.ncols, c[1], e.x1, e.x2, Raster.x, Right(Raster), x1, x2)
      BY <1>4, <1>6, <2>2, <3>1, Axis
    <3>3. QED
      BY <3>2 DEF AxisTells
  <2>4. QED
    BY <1>9, <2>3
<1>11. /\ e.y1 > Raster.y \/ e.y2 < Bottom(Raster) => c[2] + b \notin 0 .. Raster.nrows - 1
       /\ c[2] + b \in 0 .. Raster.nrows - 1
              <=> r.y1 < r.y2 /\ row \in 0 .. (r.y2 - r.y1) \div K - 1
       /\ (Raster.y - r.y2) \div K + row = c[2] + b
  <2> DEFINE f1 == -e.y2
             f2 == -e.y1
             s1 == -Raster.y
             s2 == -Bottom(Raster)
             y1 == GreaterOf(f1, s1)
             y2 == LesserOf(f2, s2)
             row2 == c[2] - T2 - ((y1 - f1) \div K)
  <2>1. f1 = -mask.y + T2 * K /\ f2 = f1 + n2 * K /\ s1 = -mask.y + (-b) * K /\ s2 = s1 + Raster.nrows * K
    BY <1>1, <1>4, <1>6, <1>7, <1>8
  <2>2. {e.y1, e.y2, Raster.y, Bottom(Raster)} \subseteq Int
    BY <1>1, <1>6, <1>7, <1>8
  <2>3. y1 = -r.y2 /\ y2 = -r.y1 /\ r.y1 \in Int /\ r.y2 \in Int
    BY <1>9, <2>2 DEF GreaterOf, LesserOf
  <2> HIDE DEF f1, f2, s1, s2, y1, y2
  <2>4. c[2] - (-b) = c[2] + b
    BY <1>2, <1>3
  <2>5. -mask.y \in Int /\ -b \in Int /\ K \in Int /\ K > 0 /\ Raster.nrows \in Int
    BY <1>1, <1>2
  <2>6. /\ f2 < s1 \/ f1 > s2 => c[2] + b \notin 0 .. Raster.nrows - 1
        /\ c[2] + b \in 0 .. Raster.nrows - 1
               <=> y1 < y2 /\ row2 \in 0 .. (y2 - y1) \div K - 1
        /\ (y1 - s1) \div K + row2 = c[2] + b
    <3>1. OnAxis(K, -mask.y, -b, T2, n2, Raster.nrows, c[2])
      BY <1>2, <1>3, <2>5 DEF OnAxis
    <3>2. AxisTells(K, -b, T2, Raster.nrows, c[2], f1, f2, s1, s2, y1, y2)
      BY <2>1, <3>1, Axis DEF y1, y2
    <3>3. QED
      BY <2>4, <3>2 DEF AxisTells
  <2>7. /\ f2 < s1 <=> e.y1 > Raster.y
        /\ f1 > s2 <=> e.y2 < Bottom(Raster)
        /\ y1 < y2 <=> r.y1 < r.y2
        /\ y2 - y1 = r.y2 - r.y1 /\ y1 - s1 = Raster.y - r.y2 /\ y1 - f1 = e.y2 - r.y2
    BY <1>1, <2>2, <2>3 DEF f1, f2, s1, s2
  <2>8. QED
    BY <2>6, <2>7
<1>12. OutsideRaster(t) => p \notin Pixels(Raster)
  BY <1>5, <1>10, <1>11 DEF OutsideRaster, Pixels, e
<1>13. p \in Pixels(Raster) <=> /\ r.x1 < r.x2 /\ r.y1 < r.y2
                                /\ col \in 0 .. (r.x2 - r.x1) \div K - 1
                                /\ row \in 0 .. (r.y2 - r.y1) \div K - 1
  BY <1>5, <1>10, <1>11 DEF Pixels
<1>14. ReadTile(t, c) = IF p \in Pixels(Raster) THEN Raster.values[p] ELSE gapValue
  BY <1>1, <1>5, <1>10, <1>11, <1>13 DEF ReadTile, r, e, T1, T2
<1>15. DOMAIN Raster.values = Pixels(Raster)
  BY DEF IsLayer
<1>16. QED
  BY <1>12, <1>14, <1>15 DEF IsGap, p

(* A mask made from units is a mask, and one aligned with the raster fits.  *)
LEMMA MadeMask ==
    ASSUME IsGapJob(job), NEW r, IsLayer(r)
    PROVE  /\ MaskOf(r) # None => IsMask(MaskOf(r))
           /\ job.unit # None => MaskOf(r).res = r.res
           /\ job.unit # None /\ AlignGrid < r.res => Aligned(MaskOf(r), r)
<1>1. /\ {r.x, r.y} \subseteq Int /\ r.res \in Int /\ r.res > 0 /\ r.res \in Nat \ {0}
      /\ AlignGrid \in Nat
  BY GapAssumption DEF IsLayer
<1>2. CASE job.unit = None
  BY <1>2 DEF MaskOf, IsGapJob
<1>3. CASE job.unit # None
  <2> DEFINE u == job.unit
  <2>1. {u.x1, u.x2, u.y1, u.y2} \subseteq Int /\ MaskOf(r) = RasterizeMask(u, r)
    BY <1>3 DEF MaskOf, IsGapJob
  <2>2. \A n, o \in Int : /\ FloorTo(n, o, r.res) \in Int /\ CeilTo(n, o, r.res) \in Int
                          /\ (o - FloorTo(n, o, r.res)) % r.res = 0
                          /\ (o - CeilTo(n, o, r.res)) % r.res = 0
    <3> SUFFICES ASSUME NEW n \in Int, NEW o \in Int
                 PROVE  /\ FloorTo(n, o, r.res) \in Int /\ CeilTo(n, o, r.res) \in Int
                        /\ (o - FloorTo(n, o, r.res)) % r.res = 0
                        /\ (o - CeilTo(n, o, r.res)) % r.res = 0
      OBVIOUS
    <3> DEFINE p == (n - o) \div r.res
               q == ((-n) - (-o)) \div r.res
    <3>1. p \in Int /\ q \in Int /\ p * r.res \in Int /\ q * r.res \in Int /\ -p \in Int
      <4>1. n - o \in Int /\ (-n) - (-o) \in Int
        OBVIOUS
      <4>2. p \in Int /\ q \in Int
        BY <1>1, <4>1, Multiples
      <4>3. QED
        BY <1>1, <4>2, Multiples
    <3>2. FloorTo(n, o, r.res) = o + p * r.res /\ CeilTo(n, o, r.res) = -(-o + q * r.res)
      BY DEF FloorTo, CeilTo
    <3> HIDE DEF p, q
    <3>3. o - FloorTo(n, o, r.res) = (-p) * r.res
      <4>1. 0 * r.res - p * r.res = (0 - p) * r.res /\ 0 * r.res = 0
        BY <1>1, <3>1, Ordered, Multiples
      <4>2. QED
        BY <1>1, <3>1, <3>2, <4>1
    <3>4. o - CeilTo(n, o, r.res) = q * r.res
      BY <3>1, <3>2
    <3>5. ((-p) * r.res) % r.res = 0 /\ (q * r.res) % r.res = 0
      BY <1>1, <3>1, Multiples
    <3>6. o + p * r.res \in Int /\ -(-o + q * r.res) \in Int
      BY <3>1
    <3>7. QED
      BY <3>2, <3>3, <3>4, <3>5, <3>6
  <2>3. \A x, y, n, m : Burnt(u, x, y, n, m, r.res).ones \subseteq Pixels(Burnt(u, x, y, n, m, r.res))
    BY DEF Burnt, Pixels
  <2>4. \A k \in Int : k \div r.res \in Int /\ k \div (2 * r.res) \in Int
    <3>1. 2 * r.res \in Int /\ 2 * r.res > 0
      BY <1>1
    <3>2. QED
      BY <1>1, <3>1, Multiples
  <2>5. CASE AlignGrid >= r.res
    <3> DEFINE x == FloorTo(u.x1, 0, r.res)
               y == CeilTo(u.y2, 0, r.res)
               n == (CeilTo(u.x2, 0, r.res) - x) \div r.res
               m == (y - FloorTo(u.y1, 0, r.res)) \div r.res
    <3>1. MaskOf(r) = Burnt(u, x, y, n, m, r.res)
      BY <2>1, <2>5 DEF RasterizeMask
    <3>2. x \in Int /\ y \in Int /\ n \in Int /\ m \in Int
      <4>1. /\ x \in Int /\ CeilTo(u.x2, 0, r.res) \in Int
            /\ y \in Int /\ FloorTo(u.y1, 0, r.res) \in Int
        BY <2>1, <2>2
      <4>2. /\ CeilTo(u.x2, 0, r.res) - x \in Int
            /\ y - FloorTo(u.y1, 0, r.res) \in Int
        BY <4>1
      <4>3. QED
        BY <2>4, <4>1, <4>2
    <3> HIDE DEF x, y, n, m
    <3>3. MaskOf(r).x = x /\ MaskOf(r).y = y /\ MaskOf(r).ncols = n /\ MaskOf(r).nrows = m /\ MaskOf(r).res = r.res
      BY <3>1 DEF Burnt
    <3>4. QED
      BY <1>1, <2>3, <2>5, <3>1, <3>2, <3>3 DEF IsMask
  <2>6. CASE ~(AlignGrid >= r.res)
    <3> DEFINE x == FloorTo(u.x1, r.x, r.res)
               y == CeilTo(u.y2, r.y, r.res)
               n == (2 * (u.x2 - x) + r.res) \div (2 * r.res)
               m == (2 * (y - u.y1) + r.res) \div (2 * r.res)
    <3>1. MaskOf(r) = Burnt(u, x, y, n, m, r.res)
      BY <2>1, <2>6 DEF RasterizeMask
    <3>2. /\ x \in Int /\ y \in Int
          /\ (r.x - x) % r.res = 0 /\ (r.y - y) % r.res = 0
      BY <1>1, <2>1, <2>2
    <3>3. n \in Int /\ m \in Int
      <4>1. 2 * (u.x2 - x) + r.res \in Int /\ 2 * (y - u.y1) + r.res \in Int
        BY <1>1, <2>1, <3>2
      <4>2. QED
        BY <2>4, <4>1
    <3> HIDE DEF x, y, n, m
    <3>4. MaskOf(r).x = x /\ MaskOf(r).y = y /\ MaskOf(r).ncols = n /\ MaskOf(r).nrows = m /\ MaskOf(r).res = r.res
      BY <3>1 DEF Burnt
    <3>5. QED
      BY <1>1, <2>3, <3>1, <3>2, <3>3, <3>4 DEF IsMask, Aligned
  <2>7. QED
    BY <2>5, <2>6
<1>4. QED
  BY <1>2, <1>3

(* The blocks reach the last pixel.                                         *)
LEMMA BlocksReach == ASSUME NEW n \in Int PROVE Blocks(n) \in Int /\ Blocks(n) * GapBlock >= n
<1>1. GapBlock \in Int /\ GapBlock > 0 /\ n + GapBlock - 1 \in Int
  BY GapAssumption
<1> DEFINE q == Blocks(n)
<1>2. q \in Int /\ n + GapBlock - 1 < (q + 1) * GapBlock
  BY <1>1, Multiples DEF Blocks
<1> HIDE DEF q
<1>3. (q + 1) * GapBlock = q * GapBlock + 1 * GapBlock /\ 1 * GapBlock = GapBlock /\ q * GapBlock \in Int
  BY <1>1, <1>2, Ordered, Multiples
<1>4. q * GapBlock >= n
  BY <1>1, <1>2, <1>3
<1>5. QED
  BY <1>2, <1>4 DEF q

-----------------------------------------------------------------------------
(* What the gap check keeps.                                                *)

\* The pixels of the mask whose tiles have been looked at.
Passed(c) ==
    \/ c[2] < gapTile[2] * GapBlock
    \/ c[2] < (gapTile[2] + 1) * GapBlock /\ c[1] < gapTile[1] * GapBlock

\* The value of unmapped area is the one given, or that of the first layer compared.
ValueInv ==
    \/ gapValue = job.outside
    \/ job.outside = ByNoData /\ \E n \in Layers : gapValue = job.layers[n].nodata

\* While a layer is compared, its gaps in the tiles passed are known.
TileInv ==
    gapTile # None =>
        /\ current \in Layers /\ gapTile \in Nat \X Nat
        /\ verdicts[current] = "pending"
        /\ mask = MaskOf(Raster) /\ mask # None
        /\ OneNoData => gapValue = OutsideValue(Raster)
        /\ OneNoData /\ Aligned(mask, Raster) =>
               /\ gapPixels[current] \subseteq TrueGaps(current)
               /\ mask.nodata = None =>
                      \A c \in TrueGaps(current) : Passed(c) => c \in gapPixels[current]

GapInv ==
    /\ IsGapJob(job)
    /\ DOMAIN gapPixels = Layers /\ DOMAIN verdicts = Layers
    /\ \A n \in Layers : verdicts[n] = "pending" /\ (gapTile = None \/ n # current) => gapPixels[n] = {}
    /\ ValueInv
    /\ TileInv
    /\ MissingDataIsTrue

(* What is true of a layer is told by the job alone.                        *)
LEMMA SameGaps ==
    ASSUME UNCHANGED job
    PROVE  /\ UNCHANGED Layers
           /\ OneNoData' <=> OneNoData
           /\ \A n \in Layers : TrueGaps(n)' = TrueGaps(n) /\ MaskOf(job.layers[n])' = MaskOf(job.layers[n])
BY DEF Layers, OneNoData, TrueGaps, MaskOf, OutsideValue

LEMMA InitGapInv == RasterInit => GapInv
<1> SUFFICES ASSUME RasterInit PROVE GapInv
  OBVIOUS
<1>1. IsGapJob(job) /\ gapTile = None /\ gapValue = job.outside
  BY RasterAssumption DEF RasterInit, GapInit
<1>2. /\ DOMAIN gapPixels = Layers /\ DOMAIN verdicts = Layers
      /\ \A n \in Layers : gapPixels[n] = {} /\ verdicts[n] = "pending"
  BY DEF RasterInit, GapInit, Layers
<1>3. OwnMaskFits
  BY <1>1, <1>2, MadeMask DEF OwnMaskFits, IsGapJob, Layers
<1>4. MissingDataIsTrue
  BY <1>2, <1>3 DEF MissingDataIsTrue, GapsAreGaps, AllGapsFound, Compared
<1>5. QED
  BY <1>1, <1>2, <1>4 DEF GapInv, ValueInv, TileInv

(* Only the verdict of a layer that is not compared is new.                 *)
LEMMA GivesVerdict ==
    ASSUME GapInv, UNCHANGED <<job, gapValue, gapPixels>>, gapTile' = None,
           NEW v, verdicts' = [verdicts EXCEPT ![current] = v], v # "pending",
           current \in Layers,
           v \in {"ok", "gaps"} /\ OneNoData /\ Aligned(MaskOf(Raster), Raster) =>
               /\ gapPixels[current] \subseteq TrueGaps(current)
               /\ MaskOf(Raster).nodata = None => TrueGaps(current) \subseteq gapPixels[current],
           job.unit # None /\ AlignGrid < Raster.res => v \notin {"x", "resolution"}
    PROVE  GapInv'
<1>1. IsGapJob(job)' /\ DOMAIN gapPixels' = Layers' /\ DOMAIN verdicts' = Layers'
  BY DEF GapInv, IsGapJob, Layers
<1>2. \A n \in Layers : verdicts'[n] = IF n = current THEN v ELSE verdicts[n]
  BY DEF GapInv
<1>3. (\A n \in Layers : verdicts[n] = "pending" /\ (gapTile = None \/ n # current) => gapPixels[n] = {})'
  BY <1>2, SameGaps DEF GapInv
<1>4. ValueInv' /\ TileInv'
  BY SameGaps DEF GapInv, ValueInv, TileInv, Layers
<1>5. \A n \in Layers :
          Compared(n)' => IF n = current THEN v \in {"ok", "gaps"} /\ Aligned(MaskOf(Raster), Raster)
                                         ELSE Compared(n)
  <2> SUFFICES ASSUME NEW n \in Layers, Compared(n)'
               PROVE  IF n = current THEN v \in {"ok", "gaps"} /\ Aligned(MaskOf(Raster), Raster)
                                     ELSE Compared(n)
    OBVIOUS
  <2>1. verdicts'[n] \in {"ok", "gaps"} /\ Aligned(MaskOf(job.layers[n]), job.layers[n])
    BY SameGaps DEF Compared, Aligned
  <2>2. QED
    BY <1>2, <2>1 DEF Compared, Raster
<1>6. GapsAreGaps'
  BY <1>5, SameGaps DEF GapInv, MissingDataIsTrue, GapsAreGaps
<1>7. AllGapsFound'
  BY <1>5, SameGaps DEF GapInv, MissingDataIsTrue, AllGapsFound, Raster
<1>8. OwnMaskFits'
  BY <1>2, SameGaps DEF GapInv, MissingDataIsTrue, OwnMaskFits, Raster, Aligned
<1>9. QED
  BY <1>1, <1>3, <1>4, <1>6, <1>7, <1>8 DEF GapInv, MissingDataIsTrue

LEMMA Refuses == GapInv /\ (NoMask \/ RefuseLayer) => GapInv'
<1> SUFFICES ASSUME GapInv, NoMask \/ RefuseLayer PROVE GapInv'
  OBVIOUS
<1> DEFINE v == IF MaskOf(Raster) = None THEN "no mask" ELSE Mismatch(MaskOf(Raster), Raster)
<1>1. /\ UNCHANGED <<job, gapValue, gapPixels>> /\ gapTile' = None
      /\ current \in Layers /\ verdicts' = [verdicts EXCEPT ![current] = v]
      /\ v \notin {"pending", "ok", "gaps"}
  <2>1. CASE NoMask
    BY <2>1 DEF NoMask
  <2>2. CASE RefuseLayer
    BY <2>2 DEF RefuseLayer, Mismatch
  <2>3. QED
    BY <2>1, <2>2
<1>2. job.unit # None /\ AlignGrid < Raster.res => v \notin {"x", "resolution"}
  <2> SUFFICES ASSUME job.unit # None, AlignGrid < Raster.res PROVE v \notin {"x", "resolution"}
    OBVIOUS
  <2>1. IsGapJob(job) /\ IsLayer(Raster)
    BY <1>1 DEF GapInv, IsGapJob, Raster, Layers
  <2>2. MaskOf(Raster).res = Raster.res /\ Aligned(MaskOf(Raster), Raster)
    BY <2>1, MadeMask
  <2>3. QED
    BY <2>2 DEF Mismatch, Aligned
<1> HIDE DEF v
<1>3. QED
  BY <1>1, <1>2, GivesVerdict

LEMMA BeginsLayer == GapInv /\ BeginLayer => GapInv'
<1> SUFFICES ASSUME GapInv, BeginLayer PROVE GapInv'
  OBVIOUS
<1>1. /\ UNCHANGED <<job, current, gapPixels, verdicts>>
      /\ current \in Layers /\ verdicts[current] = "pending" /\ gapTile = None
      /\ mask' = MaskOf(Raster) /\ MaskOf(Raster) # None
      /\ gapTile' = <<0, 0>>
      /\ gapValue' = IF gapValue = ByNoData THEN Raster.nodata ELSE gapValue
  BY DEF BeginLayer
<1>2. Raster' = Raster /\ OutsideValue(Raster)' = OutsideValue(Raster) /\ MaskOf(Raster)' = MaskOf(Raster)
  BY <1>1 DEF Raster, OutsideValue, MaskOf
<1>3. ValueInv'
  BY <1>1, SameGaps DEF GapInv, ValueInv, Raster, Layers
<1>4. OneNoData => gapValue' = OutsideValue(Raster)
  BY <1>1 DEF GapInv, ValueInv, OneNoData, OutsideValue, Raster
<1>5. gapPixels[current] = {}
  BY <1>1 DEF GapInv
<1>6. IsMask(MaskOf(Raster))
  BY <1>1, MadeMask DEF GapInv, IsGapJob, Raster, Layers
<1>7. \A c \in TrueGaps(current) : ~Passed(c)'
  <2> SUFFICES ASSUME NEW c \in TrueGaps(current) PROVE ~Passed(c)'
    OBVIOUS
  <2>1. c \in Pixels(MaskOf(Raster))
    BY <1>6 DEF TrueGaps, IsMask, Raster
  <2>2. c[1] \in Nat /\ c[2] \in Nat
    BY <1>6, <2>1 DEF Pixels, IsMask
  <2>3. QED
    BY <1>1, <2>2, GapAssumption DEF Passed
<1>8. TileInv'
  BY <1>1, <1>2, <1>4, <1>5, <1>7, SameGaps DEF TileInv, Aligned
<1>9. MissingDataIsTrue'
  BY <1>1, SameGaps DEF GapInv, MissingDataIsTrue, GapsAreGaps, AllGapsFound, OwnMaskFits, Compared, Aligned
<1>10. QED
  BY <1>1, <1>3, <1>8, <1>9, SameGaps DEF GapInv, IsGapJob, Layers

LEMMA NextIsTile ==
    ASSUME IsMask(mask), gapTile \in Nat \X Nat, MoreTiles, NextGapTile
    PROVE  gapTile' \in Nat \X Nat
<1>1. Blocks(mask.nrows) \in Nat
  BY BlocksReach DEF IsMask, MoreTiles
<1>2. QED
  BY <1>1 DEF NextGapTile

(* A pixel passed by the next tile was passed before or is in this tile.    *)
LEMMA PassesTile ==
    ASSUME IsMask(mask), gapTile \in Nat \X Nat, MoreTiles, NextGapTile, UNCHANGED mask,
           NEW c \in Pixels(mask)
    PROVE  Passed(c)' => Passed(c) \/ c \in TilePixels(gapTile)
<1> DEFINE B == GapBlock
           i == gapTile[1]
           j == gapTile[2]
<1>1. /\ B \in Int /\ B > 0 /\ i \in Nat /\ j \in Nat
      /\ mask.ncols \in Int /\ mask.nrows \in Int
      /\ c[1] \in 0 .. mask.ncols - 1 /\ c[2] \in 0 .. mask.nrows - 1 /\ c = <<c[1], c[2]>>
  BY GapAssumption DEF IsMask, Pixels
<1>2. /\ Blocks(mask.ncols) \in Int /\ Blocks(mask.ncols) * B >= mask.ncols
      /\ Blocks(mask.nrows) \in Int /\ Blocks(mask.nrows) * B >= mask.nrows
  BY <1>1, BlocksReach
<1>8. Blocks(mask.ncols) * B \in Int /\ Blocks(mask.nrows) * B \in Int
  BY <1>1, <1>2, Multiples
<1>3. /\ i * B \in Int /\ j * B \in Int /\ (i + 1) * B \in Int /\ (j + 1) * B \in Int
      /\ (j + 1) * B = j * B + B /\ (i + 1) * B = i * B + B /\ (j + 1 + 1) * B = (j + 1) * B + B
      /\ 0 * B = 0
  <2>1. 1 * B = B /\ 0 * B = 0
    BY <1>1
  <2>2. i + 1 \in Int /\ j + 1 \in Int /\ i \in Int /\ j \in Int
    BY <1>1
  <2>3. QED
    BY <1>1, <2>1, <2>2, Multiples, Ordered
<1>4. c \in TilePixels(gapTile) <=> /\ i * B <= c[1] /\ c[1] < (i + 1) * B
                                    /\ j * B <= c[2] /\ c[2] < (j + 1) * B
  BY <1>1, <1>3 DEF TilePixels, LesserOf
<1>5. CASE i < Blocks(mask.ncols) - 1
  <2>1. gapTile' = <<i + 1, j>>
    BY <1>5 DEF NextGapTile
  <2>2. QED
    BY <1>1, <1>3, <1>4, <2>1 DEF Passed
<1>6. CASE ~(i < Blocks(mask.ncols) - 1)
  <2>1. c[1] < (i + 1) * B
    <3>1. Blocks(mask.ncols) <= i + 1
      BY <1>1, <1>2, <1>6
    <3>2. Blocks(mask.ncols) * B <= (i + 1) * B
      BY <1>1, <1>2, <3>1, Ordered
    <3>3. QED
      BY <1>1, <1>2, <1>3, <1>8, <3>2
  <2>2. c[2] < (j + 1) * B => Passed(c) \/ c \in TilePixels(gapTile)
    BY <1>1, <1>3, <1>4, <2>1 DEF Passed
  <2>3. CASE j < Blocks(mask.nrows) - 1
    <3>1. gapTile' = <<0, j + 1>>
      BY <1>6, <2>3 DEF NextGapTile
    <3>2. Passed(c)' => c[2] < (j + 1) * B
      BY <1>1, <1>3, <3>1 DEF Passed
    <3>3. QED
      BY <1>1, <2>2, <3>1, <3>2
  <2>4. CASE ~(j < Blocks(mask.nrows) - 1)
    <3>1. gapTile' = <<0, Blocks(mask.nrows)>>
      BY <1>6, <2>4 DEF NextGapTile
    <3>2. Blocks(mask.nrows) * B <= (j + 1) * B
      BY <1>1, <1>2, <2>4, Ordered
    <3>3. c[2] < (j + 1) * B
      BY <1>1, <1>2, <1>3, <1>8, <3>2
    <3>4. QED
      BY <2>2, <3>3
  <2>5. QED
    BY <2>3, <2>4
<1>7. QED
  BY <1>5, <1>6

LEMMA SkipsTile == GapInv /\ SkipUnmapped => GapInv'
<1> SUFFICES ASSUME GapInv, SkipUnmapped PROVE GapInv'
  OBVIOUS
<1>1. /\ UNCHANGED <<job, current, mask, gapValue, gapPixels, verdicts>>
      /\ gapTile # None /\ MoreTiles /\ NextGapTile /\ Unmapped
  BY DEF SkipUnmapped, MoreTiles
<1>2. /\ current \in Layers /\ gapTile \in Nat \X Nat /\ verdicts[current] = "pending"
      /\ mask = MaskOf(Raster) /\ mask # None
      /\ OneNoData => gapValue = OutsideValue(Raster)
  BY <1>1 DEF GapInv, TileInv
<1>3. IsMask(mask)
  BY <1>2, MadeMask DEF GapInv, IsGapJob, Raster, Layers
<1>4. gapTile' \in Nat \X Nat /\ gapTile' # None
  BY <1>1, <1>2, <1>3, NextIsTile, GapAssumption
<1>5. Raster' = Raster /\ MaskOf(Raster)' = MaskOf(Raster) /\ OutsideValue(Raster)' = OutsideValue(Raster)
  BY <1>1 DEF Raster, OutsideValue, MaskOf
<1>6. TrueGaps(current) \subseteq mask.ones /\ mask.ones \subseteq Pixels(mask)
  BY <1>2, <1>3 DEF TrueGaps, Raster, IsMask
<1>7. mask.nodata = None => mask.ones \cap TilePixels(gapTile) = {}
  BY <1>1, GapAssumption DEF Unmapped
<1>8. \A c \in Pixels(mask) : Passed(c)' => Passed(c) \/ c \in TilePixels(gapTile)
  BY <1>1, <1>2, <1>3, PassesTile
<1>9. TileInv'
  <2>1. ASSUME OneNoData, Aligned(mask, Raster), mask.nodata = None, NEW c \in TrueGaps(current), Passed(c)'
        PROVE  c \in gapPixels[current]
    BY <1>1, <1>6, <1>7, <1>8, <2>1 DEF GapInv, TileInv
  <2>2. OneNoData /\ Aligned(mask, Raster) => gapPixels[current] \subseteq TrueGaps(current)
    BY <1>1 DEF GapInv, TileInv
  <2>3. Aligned(mask, Raster)' <=> Aligned(mask, Raster)
    BY <1>1, <1>5 DEF Aligned
  <2>4. QED
    BY <1>1, <1>2, <1>4, <1>5, <2>1, <2>2, <2>3, SameGaps DEF TileInv
<1>10. MissingDataIsTrue'
  BY <1>1, SameGaps DEF GapInv, MissingDataIsTrue, GapsAreGaps, AllGapsFound, OwnMaskFits, Compared, Aligned
<1>11. QED
  BY <1>1, <1>2, <1>4, <1>9, <1>10, SameGaps DEF GapInv, IsGapJob, Layers, ValueInv

LEMMA ComparesTile == GapInv /\ CompareTile => GapInv'
<1> SUFFICES ASSUME GapInv, CompareTile PROVE GapInv'
  OBVIOUS
<1> DEFINE found == {c \in mask.ones \cap TilePixels(gapTile) :
                        OutsideRaster(gapTile) \/ ReadTile(gapTile, c) = gapValue}
<1>1. /\ UNCHANGED <<job, current, mask, gapValue, verdicts>>
      /\ gapPixels' = [gapPixels EXCEPT ![current] = @ \union found]
      /\ gapTile # None /\ MoreTiles /\ NextGapTile
  BY DEF CompareTile, MoreTiles
<1>2. /\ current \in Layers /\ gapTile \in Nat \X Nat /\ verdicts[current] = "pending"
      /\ mask = MaskOf(Raster) /\ mask # None
      /\ OneNoData => gapValue = OutsideValue(Raster)
  BY <1>1 DEF GapInv, TileInv
<1>3. IsMask(mask) /\ IsLayer(Raster)
  BY <1>2, MadeMask DEF GapInv, IsGapJob, Raster, Layers
<1>4. gapTile' \in Nat \X Nat /\ gapTile' # None
  BY <1>1, <1>2, <1>3, NextIsTile, GapAssumption
<1>5. Raster' = Raster /\ MaskOf(Raster)' = MaskOf(Raster) /\ OutsideValue(Raster)' = OutsideValue(Raster)
  BY <1>1 DEF Raster, OutsideValue, MaskOf
<1>6. TrueGaps(current) \subseteq mask.ones /\ mask.ones \subseteq Pixels(mask)
  BY <1>2, <1>3 DEF TrueGaps, Raster, IsMask
<1>7. OneNoData /\ Aligned(mask, Raster) => found = TrueGaps(current) \cap TilePixels(gapTile)
  <2> SUFFICES ASSUME OneNoData, Aligned(mask, Raster), NEW c \in mask.ones \cap TilePixels(gapTile)
               PROVE  OutsideRaster(gapTile) \/ ReadTile(gapTile, c) = gapValue <=> c \in TrueGaps(current)
    BY <1>6
  <2>1. OutsideRaster(gapTile) \/ ReadTile(gapTile, c) = gapValue
            <=> IsGap(Raster, Spot(mask, Raster, c), OutsideValue(Raster))
    BY <1>2, <1>3, TileTells
  <2>2. QED
    BY <1>2, <2>1 DEF TrueGaps, Raster
<1> HIDE DEF found
<1>8. \A c \in Pixels(mask) : Passed(c)' => Passed(c) \/ c \in TilePixels(gapTile)
  BY <1>1, <1>2, <1>3, PassesTile
<1>9. /\ DOMAIN gapPixels' = Layers
      /\ \A n \in Layers : gapPixels'[n] = IF n = current THEN gapPixels[n] \union found ELSE gapPixels[n]
  BY <1>1 DEF GapInv
<1>10. TileInv'
  <2>1. ASSUME OneNoData, Aligned(mask, Raster), mask.nodata = None, NEW c \in TrueGaps(current), Passed(c)'
        PROVE  c \in gapPixels'[current]
    BY <1>1, <1>2, <1>6, <1>7, <1>8, <1>9, <2>1 DEF GapInv, TileInv
  <2>2. OneNoData /\ Aligned(mask, Raster) => gapPixels'[current] \subseteq TrueGaps(current)
    BY <1>1, <1>2, <1>7, <1>9 DEF GapInv, TileInv
  <2>3. Aligned(mask, Raster)' <=> Aligned(mask, Raster)
    BY <1>1, <1>5 DEF Aligned
  <2>4. QED
    BY <1>1, <1>2, <1>4, <1>5, <2>1, <2>2, <2>3, SameGaps DEF TileInv
<1>11. MissingDataIsTrue'
  <2>1. \A n \in Layers : Compared(n)' <=> Compared(n)
    BY <1>1, SameGaps DEF Compared, Aligned
  <2>2. \A n \in Layers : Compared(n) => gapPixels'[n] = gapPixels[n]
    BY <1>2, <1>9 DEF Compared
  <2>3. GapsAreGaps' /\ AllGapsFound'
    BY <2>1, <2>2, <1>1, SameGaps DEF GapInv, MissingDataIsTrue, GapsAreGaps, AllGapsFound
  <2>4. OwnMaskFits'
    BY <1>1, SameGaps DEF GapInv, MissingDataIsTrue, OwnMaskFits, Aligned
  <2>5. QED
    BY <2>3, <2>4 DEF MissingDataIsTrue
<1>12. QED
  BY <1>1, <1>2, <1>4, <1>9, <1>10, <1>11, SameGaps DEF GapInv, IsGapJob, Layers, ValueInv

LEMMA FinishesLayer == GapInv /\ FinishLayer => GapInv'
<1> SUFFICES ASSUME GapInv, FinishLayer PROVE GapInv'
  OBVIOUS
<1> DEFINE v == IF gapPixels[current] = {} THEN "ok" ELSE "gaps"
<1>1. /\ UNCHANGED <<job, gapValue, gapPixels>> /\ gapTile' = None
      /\ verdicts' = [verdicts EXCEPT ![current] = v]
      /\ gapTile # None /\ gapTile[2] \geq Blocks(mask.nrows)
  <2>1. gapTile # None /\ ~(gapTile[2] < Blocks(mask.nrows))
    BY DEF FinishLayer, MoreTiles
  <2>2. IsMask(mask) /\ gapTile \in Nat \X Nat
    BY <2>1, MadeMask DEF GapInv, IsGapJob, Raster, Layers, TileInv
  <2>3. Blocks(mask.nrows) \in Int /\ gapTile[2] \in Nat
    BY <2>2, BlocksReach DEF IsMask
  <2>4. QED
    BY <2>1, <2>3 DEF FinishLayer
<1>2. current \in Layers /\ gapTile \in Nat \X Nat /\ mask = MaskOf(Raster) /\ mask # None
  BY <1>1 DEF GapInv, TileInv
<1>3. IsMask(mask)
  BY <1>2, MadeMask DEF GapInv, IsGapJob, Raster, Layers
<1>4. \A c \in TrueGaps(current) : Passed(c)
  <2> SUFFICES ASSUME NEW c \in TrueGaps(current) PROVE Passed(c)
    OBVIOUS
  <2>1. c[2] \in 0 .. mask.nrows - 1 /\ mask.nrows \in Int
    BY <1>2, <1>3 DEF TrueGaps, Raster, IsMask, Pixels
  <2>2. Blocks(mask.nrows) \in Int /\ Blocks(mask.nrows) * GapBlock >= mask.nrows
    BY <2>1, BlocksReach
  <2>3. GapBlock \in Int /\ GapBlock > 0 /\ gapTile[2] \in Int
    BY <1>2, GapAssumption
  <2>4. Blocks(mask.nrows) * GapBlock <= gapTile[2] * GapBlock
    BY <1>1, <2>2, <2>3, Ordered
  <2>5. Blocks(mask.nrows) * GapBlock \in Int /\ gapTile[2] * GapBlock \in Int
    BY <2>2, <2>3, Multiples
  <2>6. QED
    BY <2>1, <2>2, <2>4, <2>5 DEF Passed
<1>5. OneNoData /\ Aligned(MaskOf(Raster), Raster) =>
          /\ gapPixels[current] \subseteq TrueGaps(current)
          /\ MaskOf(Raster).nodata = None => TrueGaps(current) \subseteq gapPixels[current]
  BY <1>1, <1>2, <1>4 DEF GapInv, TileInv
<1>6. v \in {"ok", "gaps"}
  OBVIOUS
<1> HIDE DEF v
<1>7. QED
  BY <1>1, <1>2, <1>5, <1>6, GivesVerdict

LEMMA CrashesTile == GapInv /\ CrashTile => GapInv'
<1> SUFFICES ASSUME GapInv, CrashTile PROVE GapInv'
  OBVIOUS
<1>1. /\ UNCHANGED <<job, gapValue, gapPixels>> /\ gapTile' = None
      /\ verdicts' = [verdicts EXCEPT ![current] = "crashed"]
      /\ gapTile # None
  BY DEF CrashTile, MoreTiles
<1>2. current \in Layers
  BY <1>1 DEF GapInv, TileInv
<1>3. "crashed" # "pending" /\ "crashed" \notin {"ok", "gaps"} /\ "crashed" \notin {"x", "resolution"}
  OBVIOUS
<1>4. QED
  BY <1>1, <1>2, <1>3, GivesVerdict

(* However the tiles of the mask lie across a layer, the pixels reported as *)
(* missing data are the gaps of the layer, and a mask made for the layer    *)
(* fits it: for masks, layers and tiles of any size.                        *)
THEOREM MissingDataIsFound == RasterSpec => []MissingDataIsTrue
<1>1. GapInv /\ [RasterNext]_rasterVars => GapInv'
  <2> SUFFICES ASSUME GapInv, [RasterNext]_rasterVars PROVE GapInv'
    OBVIOUS
  <2>1. ASSUME UNCHANGED gapVars PROVE GapInv'
    <3>1. UNCHANGED Raster
      BY <2>1 DEF gapVars, Raster
    <3>2. UNCHANGED <<Layers, OneNoData, ValueInv>> /\ \A c : UNCHANGED Passed(c)
      BY <2>1 DEF gapVars, Layers, OneNoData, ValueInv, Passed
    <3>3. MissingDataIsTrue'
      BY <2>1, SameGaps DEF gapVars, GapInv, MissingDataIsTrue, GapsAreGaps, AllGapsFound, OwnMaskFits,
                            Compared, Aligned
    <3>4. TileInv'
      BY <2>1, <3>1, <3>2, SameGaps DEF gapVars, GapInv, TileInv, OutsideValue, MaskOf, Aligned
    <3>5. QED
      BY <2>1, <3>2, <3>3, <3>4 DEF gapVars, GapInv, IsGapJob
  <2>2. CASE GapStep
    <3>1. GapNext
      BY <2>2 DEF GapStep
    <3>2. QED
      BY <3>1, Refuses, BeginsLayer, SkipsTile, ComparesTile, CrashesTile, FinishesLayer DEF GapNext
  <2>3. CASE ~GapStep
    BY <2>1, <2>3 DEF RasterNext, CheckLayer, LayersChecked, GapEnds, MmuStep, MmuEnds, rasterVars
  <2>4. QED
    BY <2>2, <2>3
<1>2. GapInv => MissingDataIsTrue
  BY DEF GapInv
<1>3. QED
  BY InitGapInv, <1>1, <1>2, PTL DEF RasterSpec
-----------------------------------------------------------------------------
(* The minimum mapping unit.  First the patches of one array: what the walk *)
(* from a pixel reaches.                                                    *)

\* The pixels of an array with the value of c.
Alike(c, v) == {d \in DOMAIN v : v[d] = v[c]}

\* One step of the walk, and a set that it does not leave.
Onward(T, c, v) ==
    IF Cardinality(T) >= MMU THEN T
    ELSE T \union {d \in (UNION {Beside(e) : e \in T}) \cap DOMAIN v : v[d] = v[c]}

Enclosed(T, c, v) == \A e \in T : \A d \in Beside(e) : d \in Alike(c, v) => d \in T

IsWalk(r, n, c, v) == r = [k \in 0 .. n |-> IF k = 0 THEN {c} ELSE Onward(r[k - 1], c, v)]

(* The walk exists, however long it is.                                     *)
LEMMA WalkExists ==
    ASSUME NEW c, NEW v, NEW n \in Nat
    PROVE  \E r : IsWalk(r, n, c, v)
<1> DEFINE Bad == {m \in Nat : ~ \E r : IsWalk(r, m, c, v)}
<1>1. Bad = {}
  <2> SUFFICES ASSUME Bad # {} PROVE FALSE
    OBVIOUS
  <2>1. PICK m \in Bad : \A k \in Bad : m <= k
    BY HasLeast
  <2>2. CASE m = 0
    <3>1. IsWalk([k \in 0 .. 0 |-> {c}], 0, c, v)
      BY DEF IsWalk
    <3> QED
      BY <2>1, <2>2, <3>1
  <2>3. CASE m # 0
    <3>1. m - 1 \in Nat /\ m - 1 \notin Bad
      BY <2>1, <2>3
    <3>2. PICK r : IsWalk(r, m - 1, c, v)
      BY <3>1
    <3> DEFINE q == [k \in 0 .. m |-> IF k = m THEN Onward(r[m - 1], c, v) ELSE r[k]]
    <3>3. \A k \in 0 .. m : q[k] = IF k = 0 THEN {c} ELSE Onward(q[k - 1], c, v)
      <4> TAKE k \in 0 .. m
      <4>1. CASE k = m
        BY <2>3, <3>1, <4>1
      <4>2. CASE k # m
        <5>1. k \in 0 .. m - 1 /\ q[k] = r[k]
          BY <3>1, <4>2
        <5>2. r[k] = IF k = 0 THEN {c} ELSE Onward(r[k - 1], c, v)
          BY <3>2, <5>1 DEF IsWalk
        <5>3. k # 0 => q[k - 1] = r[k - 1]
          BY <3>1, <4>2, <5>1
        <5> QED
          BY <5>1, <5>2, <5>3
      <4> QED
        BY <4>1, <4>2
    <3>4. q = [k \in 0 .. m |-> IF k = 0 THEN {c} ELSE Onward(q[k - 1], c, v)]
      <4>1. q = [k \in 0 .. m |-> q[k]]
        OBVIOUS
      <4> HIDE DEF q
      <4> QED
        BY <3>3, <4>1
    <3> HIDE DEF q
    <3>5. IsWalk(q, m, c, v)
      BY <3>4 DEF IsWalk
    <3> QED
      BY <2>1, <3>5
  <2> QED
    BY <2>2, <2>3
<1> QED
  BY <1>1

LEMMA PatchIsWalk ==
    ASSUME NEW c, NEW v
    PROVE  \E r : IsWalk(r, MMU, c, v) /\ PatchIn(c, v) = r[MMU]
<1>1. MMU \in Nat
  BY MmuAssumption
<1> DEFINE r == CHOOSE r : r = [n \in 0 .. MMU |->
                    IF n = 0 THEN {c}
                    ELSE IF Cardinality(r[n - 1]) >= MMU THEN r[n - 1]
                    ELSE r[n - 1] \union
                         {d \in (UNION {Beside(e) : e \in r[n - 1]}) \cap DOMAIN v : v[d] = v[c]}]
<1>2. \E q : q = [n \in 0 .. MMU |->
                    IF n = 0 THEN {c}
                    ELSE IF Cardinality(q[n - 1]) >= MMU THEN q[n - 1]
                    ELSE q[n - 1] \union
                         {d \in (UNION {Beside(e) : e \in q[n - 1]}) \cap DOMAIN v : v[d] = v[c]}]
  <2>1. PICK q : IsWalk(q, MMU, c, v)
    BY <1>1, WalkExists
  <2> QED
    BY <2>1 DEF IsWalk, Onward
<1>3. IsWalk(r, MMU, c, v)
  BY <1>2 DEF IsWalk, Onward
<1>4. PatchIn(c, v) = r[MMU]
  BY DEF PatchIn
<1> QED
  BY <1>3, <1>4

(* The walk stays in every set that no step leaves.                         *)
LEMMA WalkStays ==
    ASSUME NEW c, NEW v, NEW n \in Nat, NEW r, IsWalk(r, n, c, v), NEW T, c \in T, Enclosed(T, c, v)
    PROVE  \A k \in 0 .. n : r[k] \subseteq T
<1> DEFINE Bad == {k \in 0 .. n : ~(r[k] \subseteq T)}
<1>1. Bad = {}
  <2> SUFFICES ASSUME Bad # {} PROVE FALSE
    OBVIOUS
  <2>1. Bad \subseteq Nat
    OBVIOUS
  <2>2. PICK k \in Bad : \A j \in Bad : k <= j
    BY <2>1, HasLeast
  <2>3. k # 0
    BY <2>2 DEF IsWalk
  <2>4. k - 1 \in 0 .. n /\ k - 1 \notin Bad
    BY <2>2, <2>3
  <2>5. r[k - 1] \subseteq T /\ r[k] = Onward(r[k - 1], c, v)
    BY <2>2, <2>3, <2>4 DEF IsWalk
  <2>6. r[k] \subseteq T
    BY <2>5 DEF Onward, Enclosed, Alike
  <2> QED
    BY <2>2, <2>6
<1> QED
  BY <1>1

\* What is known of a walk after n steps.
WalkKnows(T, n, c, v) ==
    /\ c \in T /\ T \subseteq Alike(c, v)
    /\ Cardinality(T) >= n + 1 \/ Cardinality(T) >= MMU \/ Enclosed(T, c, v)

LEMMA OnwardKnows ==
    ASSUME NEW v, IsFiniteSet(DOMAIN v), NEW c \in DOMAIN v, NEW n \in Nat, NEW T, WalkKnows(T, n, c, v)
    PROVE  WalkKnows(Onward(T, c, v), n + 1, c, v)
<1> DEFINE U == Onward(T, c, v)
<1>1. T \subseteq U /\ U \subseteq Alike(c, v) /\ c \in U
  BY DEF WalkKnows, Onward, Alike
<1>2. IsFiniteSet(T) /\ IsFiniteSet(U)
  BY <1>1, FS_Subset DEF Alike
<1>3. Cardinality(T) \in Nat /\ Cardinality(U) \in Nat /\ MMU \in Nat
  BY <1>2, FS_CardinalityType, MmuAssumption
<1>4. CASE Cardinality(T) >= MMU
  BY <1>1, <1>4 DEF WalkKnows, Onward
<1>5. CASE ~(Cardinality(T) >= MMU) /\ Enclosed(T, c, v)
  <2>1. U = T
    BY <1>1, <1>5 DEF Onward, Enclosed, Alike
  <2> QED
    BY <1>1, <1>5, <2>1 DEF WalkKnows
<1>6. CASE ~(Cardinality(T) >= MMU) /\ ~Enclosed(T, c, v)
  <2>1. Cardinality(T) >= n + 1
    BY <1>6 DEF WalkKnows
  <2>2. PICK d : d \in U /\ d \notin T
    BY <1>6 DEF Enclosed, Onward, Alike
  <2>3. T \union {d} \subseteq U
    BY <1>1, <2>2
  <2>4. Cardinality(T \union {d}) = Cardinality(T) + 1
    BY <1>2, <2>2, FS_AddElement
  <2>5. Cardinality(T \union {d}) <= Cardinality(U)
    BY <1>2, <2>3, FS_Subset
  <2>6. Cardinality(U) >= (n + 1) + 1
    BY <1>3, <2>1, <2>4, <2>5
  <2> QED
    BY <1>1, <2>6 DEF WalkKnows
<1> QED
  BY <1>4, <1>5, <1>6

(* A patch: pixels of one value, in every set that no step leaves, and when *)
(* it is small, such a set itself.                                          *)
LEMMA PatchIsLeast ==
    ASSUME NEW v, IsFiniteSet(DOMAIN v), NEW c \in DOMAIN v
    PROVE  LET P == PatchIn(c, v)
           IN  /\ c \in P /\ P \subseteq Alike(c, v) /\ IsFiniteSet(P)
               /\ \A T : c \in T /\ Enclosed(T, c, v) => P \subseteq T
               /\ Small(P) => Enclosed(P, c, v)
<1>1. MMU \in Nat
  BY MmuAssumption
<1>2. PICK r : IsWalk(r, MMU, c, v) /\ PatchIn(c, v) = r[MMU]
  BY PatchIsWalk
<1>3. \A T : c \in T /\ Enclosed(T, c, v) => r[MMU] \subseteq T
  <2> TAKE T
  <2> HAVE c \in T /\ Enclosed(T, c, v)
  <2>1. \A k \in 0 .. MMU : r[k] \subseteq T
    BY <1>1, <1>2, WalkStays
  <2> QED
    BY <1>1, <2>1
<1> DEFINE Bad == {k \in 0 .. MMU : ~WalkKnows(r[k], k, c, v)}
<1>4. Bad = {}
  <2> SUFFICES ASSUME Bad # {} PROVE FALSE
    OBVIOUS
  <2>1. Bad \subseteq Nat
    OBVIOUS
  <2>2. PICK k \in Bad : \A j \in Bad : k <= j
    BY <2>1, HasLeast
  <2>3. CASE k = 0
    <3>1. r[k] = {c}
      BY <1>1, <1>2, <2>3 DEF IsWalk
    <3>2. Cardinality({c}) = 1
      BY FS_Singleton
    <3>3. WalkKnows(r[k], k, c, v)
      BY <2>3, <3>1, <3>2 DEF WalkKnows, Alike
    <3> QED
      BY <2>2, <3>3
  <2>4. CASE k # 0
    <3>1. k - 1 \in 0 .. MMU /\ k - 1 \notin Bad /\ k - 1 \in Nat /\ (k - 1) + 1 = k
      BY <1>1, <2>2, <2>4
    <3>2. r[k] = Onward(r[k - 1], c, v) /\ WalkKnows(r[k - 1], k - 1, c, v)
      BY <1>2, <2>2, <2>4, <3>1 DEF IsWalk
    <3>3. WalkKnows(r[k], k, c, v)
      BY <3>1, <3>2, OnwardKnows
    <3> QED
      BY <2>2, <3>3
  <2> QED
    BY <2>3, <2>4
<1>5. WalkKnows(r[MMU], MMU, c, v)
  BY <1>1, <1>4
<1>6. c \in r[MMU] /\ r[MMU] \subseteq Alike(c, v) /\ IsFiniteSet(r[MMU])
  BY <1>5, FS_Subset DEF WalkKnows, Alike
<1>7. Small(r[MMU]) => Enclosed(r[MMU], c, v)
  <2>1. Cardinality(r[MMU]) \in Nat
    BY <1>6, FS_CardinalityType
  <2> QED
    BY <1>1, <1>5, <2>1 DEF WalkKnows, Small
<1> QED
  BY <1>2, <1>3, <1>6, <1>7

LEMMA BesideIsMutual ==
    ASSUME NEW c \in Int \X Int, NEW d \in Beside(c)
    PROVE  /\ d \in Int \X Int /\ c \in Beside(d)
           /\ \A k \in {1, 2} : d[k] \in c[k] - 1 .. c[k] + 1
<1>1. c[1] \in Int /\ c[2] \in Int /\ c = <<c[1], c[2]>>
  OBVIOUS
<1>2. CASE d = <<c[1] + 1, c[2]>>
  BY <1>1, <1>2 DEF Beside
<1>3. CASE d = <<c[1] - 1, c[2]>>
  BY <1>1, <1>3 DEF Beside
<1>4. CASE d = <<c[1], c[2] + 1>>
  BY <1>1, <1>4 DEF Beside
<1>5. CASE d = <<c[1], c[2] - 1>>
  BY <1>1, <1>5 DEF Beside
<1> QED
  BY <1>2, <1>3, <1>4, <1>5 DEF Beside

LEMMA LessIsSmall ==
    ASSUME NEW P, IsFiniteSet(P), Small(P), NEW T \in SUBSET P
    PROVE  Small(T) /\ IsFiniteSet(T)
<1>1. IsFiniteSet(T) /\ Cardinality(T) <= Cardinality(P)
  BY FS_Subset
<1>2. Cardinality(T) \in Nat /\ Cardinality(P) \in Nat /\ MMU \in Nat
  BY <1>1, FS_CardinalityType, MmuAssumption
<1> QED
  BY <1>1, <1>2 DEF Small

\* An array of pixels, as far as the proofs care.
IsArray(v) == IsFiniteSet(DOMAIN v) /\ DOMAIN v \subseteq Int \X Int

(* A small patch is the patch of each of its pixels.                        *)
LEMMA SamePatch ==
    ASSUME NEW v, IsArray(v), NEW c \in DOMAIN v, Small(PatchIn(c, v)), NEW d \in PatchIn(c, v)
    PROVE  d \in DOMAIN v /\ v[d] = v[c] /\ PatchIn(d, v) = PatchIn(c, v)
<1> DEFINE P == PatchIn(c, v)
           Q == PatchIn(d, v)
<1>1. /\ c \in P /\ P \subseteq Alike(c, v) /\ IsFiniteSet(P) /\ Enclosed(P, c, v)
      /\ \A T : c \in T /\ Enclosed(T, c, v) => P \subseteq T
  BY PatchIsLeast DEF IsArray
<1>2. d \in DOMAIN v /\ v[d] = v[c] /\ Alike(d, v) = Alike(c, v)
  BY <1>1 DEF Alike
<1>3. /\ d \in Q /\ (Small(Q) => Enclosed(Q, d, v))
      /\ \A T : d \in T /\ Enclosed(T, d, v) => Q \subseteq T
  BY <1>2, PatchIsLeast DEF IsArray
<1> HIDE DEF P, Q
<1>4. d \in P
  BY DEF P
<1>5. Enclosed(P, d, v)
  BY <1>1, <1>2 DEF Enclosed
<1>6. Q \subseteq P
  BY <1>3, <1>4, <1>5
<1>7. Enclosed(Q, d, v)
  BY <1>1, <1>3, <1>6, LessIsSmall DEF P
<1>8. c \in Q
  <2> SUFFICES ASSUME c \notin Q PROVE FALSE
    OBVIOUS
  <2>1. Enclosed(P \ Q, c, v)
    <3> SUFFICES ASSUME NEW e \in P \ Q, NEW f \in Beside(e), f \in Alike(c, v) PROVE f \in P \ Q
      BY DEF Enclosed
    <3>1. f \in P
      BY <1>1 DEF Enclosed
    <3>2. e \in Int \X Int /\ e \in Alike(d, v)
      BY <1>1, <1>2 DEF Alike, IsArray
    <3>3. e \in Beside(f)
      BY <3>2, BesideIsMutual
    <3> QED
      BY <1>7, <3>1, <3>2, <3>3 DEF Enclosed
  <2> QED
    BY <1>1, <1>3, <1>4, <2>1
<1>9. P \subseteq Q
  BY <1>1, <1>2, <1>7, <1>8 DEF Enclosed
<1> QED
  BY <1>2, <1>6, <1>9 DEF P, Q

\* Two arrays show the same pixels in and around T.
Agree(T, v, w) ==
    \A e \in T :
        /\ e \in DOMAIN v /\ e \in DOMAIN w /\ v[e] = w[e]
        /\ \A d \in Beside(e) : (d \in DOMAIN v <=> d \in DOMAIN w) /\ (d \in DOMAIN v => v[d] = w[d])

(* They show the same patch there, and whether it is excepted.              *)
LEMMA Transfer ==
    ASSUME NEW v, IsArray(v), NEW w, IsArray(w), NEW c \in DOMAIN v, Small(PatchIn(c, v)),
           Agree(PatchIn(c, v), v, w)
    PROVE  /\ c \in DOMAIN w /\ w[c] = v[c]
           /\ PatchIn(c, w) = PatchIn(c, v)
           /\ Excepted(PatchIn(c, v), v) <=> Excepted(PatchIn(c, v), w)
<1> DEFINE P == PatchIn(c, v)
           Q == PatchIn(c, w)
<1>1. /\ c \in P /\ P \subseteq Alike(c, v) /\ IsFiniteSet(P) /\ Enclosed(P, c, v)
      /\ \A T : c \in T /\ Enclosed(T, c, v) => P \subseteq T
  BY PatchIsLeast DEF IsArray
<1>2. c \in DOMAIN w /\ w[c] = v[c]
  BY <1>1 DEF Agree
<1>3. /\ c \in Q /\ Q \subseteq Alike(c, w) /\ (Small(Q) => Enclosed(Q, c, w))
      /\ \A T : c \in T /\ Enclosed(T, c, w) => Q \subseteq T
  BY <1>2, PatchIsLeast DEF IsArray
<1>4. Agree(P, v, w) /\ Small(P)
  OBVIOUS
<1> HIDE DEF P, Q
<1>5. Enclosed(P, c, w)
  BY <1>1, <1>2, <1>4 DEF Enclosed, Alike, Agree
<1>6. Q \subseteq P
  BY <1>1, <1>3, <1>5
<1>7. Enclosed(Q, c, w)
  BY <1>1, <1>3, <1>4, <1>6, LessIsSmall
<1>8. Enclosed(Q, c, v)
  BY <1>2, <1>4, <1>6, <1>7 DEF Enclosed, Alike, Agree
<1>9. P = Q
  BY <1>1, <1>3, <1>6, <1>8
<1>10. (\E e \in P : v[e] \in ValueException) <=> (\E e \in P : w[e] \in ValueException)
  BY <1>4 DEF Agree
<1>11. TouchesException(P, v) <=> TouchesException(P, w)
  BY <1>4 DEF Agree, TouchesException
<1>12. Excepted(P, v) <=> Excepted(P, w)
  BY <1>10, <1>11 DEF Excepted
<1> QED
  BY <1>2, <1>9, <1>12 DEF P, Q

(* A set of pixels with one in each column has as many, or more; so for rows. *)
LEMMA Stretch ==
    ASSUME NEW P \in SUBSET (Int \X Int), IsFiniteSet(P), NEW k \in {1, 2}, NEW a \in Int, NEW b \in Int,
           \A x \in a .. b : \E p \in P : p[k] = x
    PROVE  b - a + 1 <= Cardinality(P)
<1> DEFINE S == {p[k] : p \in P}
<1>1. IsFiniteSet(S) /\ Cardinality(S) <= Cardinality(P) /\ Cardinality(S) \in Nat /\ Cardinality(P) \in Nat
  <2> DEFINE f == [p \in P |-> p[k]]
  <2>1. f \in [P -> S] /\ \A x \in S : \E p \in P : f[p] = x
    OBVIOUS
  <2> HIDE DEF f, S
  <2>2. f \in Surjection(P, S)
    BY <2>1, Fun_IsSurj
  <2> QED
    BY <2>2, FS_Surjection, FS_CardinalityType
<1>2. a .. b \subseteq S
  OBVIOUS
<1> HIDE DEF S
<1>3. Cardinality(a .. b) <= Cardinality(S) /\ Cardinality(a .. b) \in Nat
  BY <1>1, <1>2, FS_Subset, FS_CardinalityType
<1>4. a <= b => Cardinality(a .. b) = b - a + 1
  BY FS_Interval
<1> QED
  BY <1>1, <1>3, <1>4

(* A small patch has no holes between columns, or between rows.             *)
LEMMA NoJump ==
    ASSUME NEW v, IsArray(v), NEW c \in DOMAIN v, Small(PatchIn(c, v)),
           NEW d \in PatchIn(c, v), NEW e \in PatchIn(c, v), NEW k \in {1, 2}, NEW x \in d[k] .. e[k]
    PROVE  \E p \in PatchIn(c, v) : p[k] = x
<1> DEFINE P == PatchIn(c, v)
           T == {p \in P : p[k] < x}
<1>1. SUFFICES ASSUME \A p \in P : p[k] # x PROVE FALSE
  OBVIOUS
<1>2. /\ d \in DOMAIN v /\ v[d] = v[c] /\ PatchIn(d, v) = P
  BY SamePatch
<1>3. /\ P \subseteq Alike(d, v) /\ Enclosed(P, d, v)
      /\ \A U : d \in U /\ Enclosed(U, d, v) => P \subseteq U
  BY <1>2, PatchIsLeast DEF IsArray
<1>4. \A p \in P : p \in Int \X Int
  BY <1>3 DEF Alike, IsArray
<1> HIDE DEF P
<1>5. d \in P /\ e \in P
  BY DEF P
<1>6. d[k] \in Int /\ e[k] \in Int /\ d[k] <= x /\ x <= e[k] /\ x \in Int
  BY <1>4, <1>5
<1>7. d \in T /\ e \notin T
  BY <1>1, <1>5, <1>6
<1>8. Enclosed(T, d, v)
  <2> SUFFICES ASSUME NEW p \in T, NEW q \in Beside(p), q \in Alike(d, v) PROVE q \in T
    BY DEF Enclosed
  <2>1. q \in P
    BY <1>3 DEF Enclosed
  <2>2. p \in Int \X Int /\ q \in Int \X Int /\ q[k] \in p[k] - 1 .. p[k] + 1
    BY <1>4, BesideIsMutual
  <2>3. p[k] \in Int /\ q[k] \in Int /\ p[k] < x /\ q[k] # x
    BY <1>1, <2>1, <2>2
  <2> QED
    BY <1>6, <2>1, <2>2, <2>3
<1> QED
  BY <1>3, <1>5, <1>7, <1>8

(* It is less wide, and less high, than it may have pixels.                 *)
LEMMA NotWide ==
    ASSUME NEW v, IsArray(v), NEW c \in DOMAIN v, Small(PatchIn(c, v)),
           NEW d \in PatchIn(c, v), NEW e \in PatchIn(c, v), NEW k \in {1, 2}
    PROVE  d[k] \in Int /\ e[k] \in Int /\ e[k] - d[k] <= MMU - 2
<1> DEFINE P == PatchIn(c, v)
<1>1. P \in SUBSET (Int \X Int) /\ IsFiniteSet(P)
  BY PatchIsLeast DEF IsArray, Alike
<1>2. d[k] \in Int /\ e[k] \in Int
  BY <1>1
<1>3. \A x \in d[k] .. e[k] : \E p \in P : p[k] = x
  BY NoJump
<1>4. Cardinality(P) < MMU
  BY DEF Small
<1> HIDE DEF P
<1>5. e[k] - d[k] + 1 <= Cardinality(P)
  BY <1>1, <1>2, <1>3, Stretch
<1>6. Cardinality(P) \in Nat /\ MMU \in Nat
  BY <1>1, FS_CardinalityType, MmuAssumption
<1> QED
  BY <1>2, <1>4, <1>5, <1>6

(* What spreads by one from a number of an interval fills the interval.     *)
LEMMA Spreads ==
    ASSUME NEW a \in Int, NEW b \in Int, NEW s \in a .. b, NEW S, s \in S,
           \A x \in S : x \in a .. b => /\ x + 1 \in a .. b => x + 1 \in S
                                        /\ x - 1 \in a .. b => x - 1 \in S
    PROVE  a .. b \subseteq S
<1> DEFINE Above == {n \in Nat : s + n <= b /\ s + n \notin S}
           Below == {n \in Nat : a <= s - n /\ s - n \notin S}
<1>1. Above = {}
  <2> SUFFICES ASSUME Above # {} PROVE FALSE
    OBVIOUS
  <2>1. PICK n \in Above : \A m \in Above : n <= m
    BY HasLeast
  <2>2. n # 0 /\ n - 1 \in Nat /\ n - 1 \notin Above
    BY <2>1
  <2>3. s + (n - 1) \in S /\ s + (n - 1) \in a .. b /\ (s + (n - 1)) + 1 = s + n
    BY <2>1, <2>2
  <2> QED
    BY <2>1, <2>3
<1>2. Below = {}
  <2> SUFFICES ASSUME Below # {} PROVE FALSE
    OBVIOUS
  <2>1. PICK n \in Below : \A m \in Below : n <= m
    BY HasLeast
  <2>2. n # 0 /\ n - 1 \in Nat /\ n - 1 \notin Below
    BY <2>1
  <2>3. s - (n - 1) \in S /\ s - (n - 1) \in a .. b /\ (s - (n - 1)) - 1 = s - n
    BY <2>1, <2>2
  <2> QED
    BY <2>1, <2>3
<1> SUFFICES ASSUME NEW x \in a .. b PROVE x \in S
  OBVIOUS
<1>3. CASE x >= s
  <2>1. x - s \in Nat /\ s + (x - s) = x /\ s + (x - s) <= b
    BY <1>3
  <2> QED
    BY <1>1, <2>1
<1>4. CASE x < s
  <2>1. s - x \in Nat /\ s - (s - x) = x /\ a <= s - (s - x)
    BY <1>4
  <2> QED
    BY <1>2, <2>1
<1> QED
  BY <1>3, <1>4

-----------------------------------------------------------------------------
(* Tiles.  First one axis, of n pixels: where tile k, its inner zone and    *)
(* the zones of the other tiles lie.                                        *)

BufferOf(n) == IF n > BlockSize THEN MMU + 1 ELSE 0

First(s) == s.off + s.lead
Last(s) == s.off + s.lead + s.inner - 1

LEMMA CountTells ==
    ASSUME NEW n \in Nat \ {0}
    PROVE  /\ Count(n) \in Nat \ {0}
           /\ Count(n) > 1 <=> n > BlockSize
           /\ n <= Count(n) * BlockSize
<1> DEFINE q == Count(n)
           p == n + BlockSize - 1
<1>1. BlockSize \in Int /\ BlockSize > 0 /\ p \in Int
  BY MmuAssumption
<1>2. q \in Int /\ q * BlockSize <= p /\ p < (q + 1) * BlockSize
  BY <1>1, Multiples DEF Count
<1> HIDE DEF q
<1>3. /\ q + 1 \in Int /\ 1 * BlockSize = BlockSize /\ 2 * BlockSize = BlockSize + BlockSize
      /\ q * BlockSize \in Int /\ (q + 1) * BlockSize \in Int /\ (q + 1) * BlockSize = q * BlockSize + BlockSize
  BY <1>1, <1>2, Multiples, Ordered
<1>4. q >= 1
  <2>1. 1 * BlockSize < (q + 1) * BlockSize
    BY <1>1, <1>2, <1>3
  <2>2. 1 < q + 1
    BY <1>1, <1>3, <2>1, Ordered
  <2> QED
    BY <1>2, <2>2
<1>5. n <= q * BlockSize
  BY <1>1, <1>2, <1>3
<1>6. q > 1 => n > BlockSize
  <2> HAVE q > 1
  <2>1. 2 * BlockSize <= q * BlockSize
    BY <1>1, <1>2, Ordered
  <2> QED
    BY <1>1, <1>2, <1>3, <2>1
<1>7. q = 1 => n <= BlockSize
  BY <1>1, <1>3, <1>5
<1> QED
  BY <1>1, <1>2, <1>4, <1>5, <1>6, <1>7 DEF q

LEMMA SpanTells ==
    ASSUME NEW n \in Nat \ {0}, NEW k \in 0 .. Count(n) - 1
    PROVE  LET s == Span(k, n, BufferOf(n))
           IN  /\ {s.off, s.lead, s.length, s.inner} \subseteq Int /\ s.off >= 0 /\ s.lead >= 0
               /\ Last(s) <= s.off + s.length - 1
               /\ k = 0 => s.off = 0
               /\ k # 0 => s.length > MMU \/ s.length <= BufferOf(n)
               /\ s.length <= BufferOf(n) => s.inner <= 0
               /\ \A x \in First(s) .. Last(s), y \in 0 .. n - 1 :
                    y \in x - (MMU - 1) .. x + (MMU - 1) => y \in s.off .. s.off + s.length - 1
<1> DEFINE s == Span(k, n, BufferOf(n))
           b == BufferOf(n)
<1>1. /\ BlockSize \in Int /\ BlockSize > 0 /\ MMU \in Int /\ MMU > 0 /\ MMU < BlockSize
      /\ b \in Int /\ b >= 0
  BY MmuAssumption DEF BufferOf
<1>2. /\ Count(n) \in Int /\ Count(n) > 0 /\ k \in Int /\ 0 <= k /\ k <= Count(n) - 1
      /\ Count(n) > 1 <=> n > BlockSize
  BY CountTells
<1>3. k * BlockSize \in Int /\ 0 * BlockSize = 0 /\ k * BlockSize >= 0
  BY <1>1, <1>2, Multiples, Ordered
<1> DEFINE o == k * BlockSize
<1> HIDE DEF o, b
<1>4. /\ s.off = o /\ s.lead = IF k = 0 THEN 0 ELSE b
      /\ s.length = IF k = Count(n) - 1 THEN n - o ELSE IF k = 0 THEN BlockSize + b ELSE BlockSize + 2 * b
      /\ s.inner = IF k = Count(n) - 1 THEN s.length - b ELSE BlockSize
  BY DEF Span, o, b
<1>5. o \in Int /\ o >= 0 /\ (k = 0 => o = 0)
  BY <1>3 DEF o
<1>6. k # 0 \/ k # Count(n) - 1 => b = MMU + 1
  BY <1>2 DEF b, BufferOf
<1>7. k = 0 /\ k = Count(n) - 1 => b = 0
  BY <1>2 DEF b, BufferOf
<1> HIDE DEF s
<1>8. CASE k = Count(n) - 1
  BY <1>1, <1>2, <1>4, <1>5, <1>6, <1>7, <1>8 DEF First, Last, s, b
<1>9. CASE k # Count(n) - 1 /\ k = 0
  BY <1>1, <1>2, <1>4, <1>5, <1>6, <1>9 DEF First, Last, s, b
<1>10. CASE k # Count(n) - 1 /\ k # 0
  BY <1>1, <1>2, <1>4, <1>5, <1>6, <1>10 DEF First, Last, s, b
<1> QED
  BY <1>8, <1>9, <1>10

(* Every pixel is in the zone of a tile, but for the first buffer.          *)
LEMMA ZonesCover ==
    ASSUME NEW n \in Nat \ {0}, NEW x \in 0 .. n - 1, x \notin BlockSize .. BlockSize + BufferOf(n) - 1
    PROVE  \E k \in 0 .. Count(n) - 1 :
               LET s == Span(k, n, BufferOf(n)) IN x \in First(s) .. Last(s)
<1> DEFINE b == BufferOf(n)
<1>1. /\ BlockSize \in Int /\ BlockSize > 0 /\ MMU \in Int /\ MMU > 0
      /\ b \in Int /\ b >= 0
  BY MmuAssumption DEF BufferOf
<1>2. /\ Count(n) \in Int /\ Count(n) > 0 /\ n <= Count(n) * BlockSize
      /\ Count(n) > 1 <=> n > BlockSize
  BY CountTells
<1>3. CASE x < BlockSize
  <2> DEFINE s == Span(0, n, b)
  <2>1. 0 * BlockSize = 0
    BY <1>1
  <2>2. s.off = 0 /\ s.lead = 0 /\ s.inner = IF 0 = Count(n) - 1 THEN n - b ELSE BlockSize
    BY <1>2, <2>1 DEF Span
  <2>3. Count(n) = 1 => b = 0
    BY <1>2 DEF BufferOf
  <2> HIDE DEF s, b
  <2>4. x \in First(s) .. Last(s) /\ 0 \in 0 .. Count(n) - 1
    BY <1>1, <1>2, <1>3, <2>2, <2>3 DEF First, Last
  <2> QED
    BY <2>4 DEF s, b
<1>4. CASE x >= BlockSize
  <2> DEFINE k == (x - b) \div BlockSize
             s == Span(k, n, b)
  <2>1. b = MMU + 1 /\ x >= BlockSize + b
    BY <1>1, <1>4 DEF BufferOf
  <2>2. x - b \in Int
    BY <1>1
  <2>3. k \in Int /\ k * BlockSize <= x - b /\ x - b < (k + 1) * BlockSize
    BY <1>1, <2>2, Multiples
  <2> HIDE DEF k, b
  <2>4. /\ k + 1 \in Int /\ 1 * BlockSize = BlockSize /\ k * BlockSize \in Int
        /\ (k + 1) * BlockSize = k * BlockSize + BlockSize
        /\ Count(n) * BlockSize \in Int
    BY <1>1, <1>2, <2>3, Multiples, Ordered
  <2>5. k >= 1
    <3>1. 1 * BlockSize < (k + 1) * BlockSize
      BY <1>1, <2>1, <2>2, <2>3, <2>4
    <3>2. 1 < k + 1
      BY <1>1, <2>4, <3>1, Ordered
    <3> QED
      BY <2>3, <3>2
  <2>6. k < Count(n)
    <3>1. k * BlockSize < Count(n) * BlockSize
      BY <1>1, <1>2, <2>3, <2>4
    <3> QED
      BY <1>1, <1>2, <2>3, <3>1, Ordered
  <2> DEFINE o == k * BlockSize
  <2>7. /\ s.off = o /\ s.lead = b
        /\ s.inner = IF k = Count(n) - 1 THEN n - o - b ELSE BlockSize
    BY <2>5 DEF Span
  <2>8. o \in Int /\ o <= x - b /\ x - b < o + BlockSize
    BY <2>3, <2>4
  <2> HIDE DEF s, o
  <2>9. x \in First(s) .. Last(s)
    BY <1>1, <1>2, <2>3, <2>7, <2>8 DEF First, Last
  <2>10. k \in 0 .. Count(n) - 1
    BY <1>2, <2>3, <2>5, <2>6
  <2> QED
    BY <2>9, <2>10 DEF s, b
<1> QED
  BY <1>1, <1>3, <1>4

MmuTiles == (0 .. Count(image.ncols) - 1) \X (0 .. Count(image.nrows) - 1)

\* A tile that is looked at.
InRaster == IsImage(image) /\ tile \in MmuTiles /\ Buffered /\ ~Outside

WholeRaster == Values(Frame(image))

LEMMA OneBuffer ==
    ASSUME IsImage(image), Buffered
    PROVE  /\ image.ncols \in Nat \ {0} /\ image.nrows \in Nat \ {0}
           /\ Buffer(image) = BufferOf(image.ncols) /\ Buffer(image) = BufferOf(image.nrows)
<1>1. image.ncols \in Nat \ {0} /\ image.nrows \in Nat \ {0}
  BY DEF IsImage
<1>2. BlockSize \in Nat /\ MMU \in Nat /\ MMU < BlockSize
  BY MmuAssumption
<1> QED
  BY <1>1, <1>2 DEF Buffered, Buffer, BufferOf

LEMMA FrameIsFinite ==
    ASSUME IsImage(image)
    PROVE  IsFiniteSet(Frame(image)) /\ Frame(image) \subseteq Int \X Int
<1>1. image.ncols \in Int /\ image.nrows \in Int
  BY DEF IsImage
<1>2. IsFiniteSet(0 .. image.ncols - 1) /\ IsFiniteSet(0 .. image.nrows - 1)
  BY <1>1, FS_Interval
<1>3. IsFiniteSet(Frame(image))
  BY <1>2, FS_Product DEF Frame
<1> QED
  BY <1>1, <1>3 DEF Frame

LEMMA ValuesAreArray ==
    ASSUME IsImage(image), NEW W \in SUBSET Frame(image)
    PROVE  DOMAIN Values(W) = W /\ IsArray(Values(W)) /\ \A c \in W : Values(W)[c] = WholeRaster[c]
<1>1. DOMAIN Values(W) = W
  BY DEF Values
<1>2. IsFiniteSet(W) /\ W \subseteq Int \X Int
  BY FrameIsFinite, FS_Subset
<1>3. \A c \in W : Values(W)[c] = WholeRaster[c]
  BY DEF Values, WholeRaster
<1> QED
  BY <1>1, <1>2, <1>3 DEF IsArray

Within(c, d) == \A k \in {1, 2} : d[k] \in c[k] - (MMU - 1) .. c[k] + (MMU - 1)

(* The inner zone lies in the window, the window in the raster, and around  *)
(* the zone the window has what a small patch can reach.                    *)
LEMMA TileHolds ==
    ASSUME InRaster
    PROVE  /\ Inner \subseteq Window /\ Window \subseteq Frame(image)
           /\ \A c \in Inner, d \in Frame(image) : Within(c, d) => d \in Window
           /\ \A c \in Inner : ~OnRim(c) => Beside(c) \subseteq Inner
           /\ \A c \in Inner, d \in Int \X Int : OnRim(c) /\ Within(c, d) => d \notin Deep
<1> DEFINE C == Column
           R == Row
<1>1. MMU \in Nat \ {0}
  BY MmuAssumption
<1>2. /\ image.ncols \in Nat \ {0} /\ image.nrows \in Nat \ {0}
      /\ Buffer(image) = BufferOf(image.ncols) /\ Buffer(image) = BufferOf(image.nrows)
  BY OneBuffer DEF InRaster
<1>3. tile[1] \in 0 .. Count(image.ncols) - 1 /\ tile[2] \in 0 .. Count(image.nrows) - 1
  BY DEF InRaster, MmuTiles
<1>4. /\ {C.off, C.lead, C.length, C.inner} \subseteq Int /\ C.off >= 0 /\ C.lead >= 0
      /\ Last(C) <= C.off + C.length - 1
      /\ \A x \in First(C) .. Last(C), y \in 0 .. image.ncols - 1 :
           y \in x - (MMU - 1) .. x + (MMU - 1) => y \in C.off .. C.off + C.length - 1
  BY <1>2, <1>3, SpanTells DEF Column
<1>5. /\ {R.off, R.lead, R.length, R.inner} \subseteq Int /\ R.off >= 0 /\ R.lead >= 0
      /\ Last(R) <= R.off + R.length - 1
      /\ \A x \in First(R) .. Last(R), y \in 0 .. image.nrows - 1 :
           y \in x - (MMU - 1) .. x + (MMU - 1) => y \in R.off .. R.off + R.length - 1
  BY <1>2, <1>3, SpanTells DEF Row
<1>6. C.off + C.length <= image.ncols /\ R.off + R.length <= image.nrows
  BY <1>2, <1>4, <1>5 DEF InRaster, Outside
<1>7. /\ Window = (C.off .. C.off + C.length - 1) \X (R.off .. R.off + R.length - 1)
      /\ Inner = (First(C) .. Last(C)) \X (First(R) .. Last(R))
      /\ InnerFirst = <<First(C), First(R)>> /\ InnerLast = <<Last(C), Last(R)>>
      /\ Deep = (First(C) + MMU .. Last(C) - MMU) \X (First(R) + MMU .. Last(R) - MMU)
  BY DEF Window, Inner, InnerFirst, InnerLast, Deep, First, Last
<1>8. First(C) \in Int /\ First(R) \in Int /\ Last(C) \in Int /\ Last(R) \in Int
  BY <1>4, <1>5 DEF First, Last
<1>9. First(C) >= C.off /\ First(R) >= R.off
  BY <1>4, <1>5 DEF First
<1> HIDE DEF C, R
<1>10. Inner \subseteq Window
  BY <1>4, <1>5, <1>7, <1>8, <1>9
<1>11. Window \subseteq Frame(image)
  BY <1>2, <1>4, <1>5, <1>6, <1>7 DEF Frame
<1>12. \A c \in Inner, d \in Frame(image) : Within(c, d) => d \in Window
  <2> TAKE c \in Inner, d \in Frame(image)
  <2> HAVE Within(c, d)
  <2>1. c[1] \in First(C) .. Last(C) /\ c[2] \in First(R) .. Last(R)
    BY <1>7
  <2>2. d[1] \in 0 .. image.ncols - 1 /\ d[2] \in 0 .. image.nrows - 1 /\ d = <<d[1], d[2]>>
    BY DEF Frame
  <2>3. d[1] \in c[1] - (MMU - 1) .. c[1] + (MMU - 1) /\ d[2] \in c[2] - (MMU - 1) .. c[2] + (MMU - 1)
    BY DEF Within
  <2> QED
    BY <1>4, <1>5, <1>7, <2>1, <2>2, <2>3
<1>13. \A c \in Inner : ~OnRim(c) => Beside(c) \subseteq Inner
  <2> TAKE c \in Inner
  <2> HAVE ~OnRim(c)
  <2>1. c[1] \in First(C) .. Last(C) /\ c[2] \in First(R) .. Last(R)
    BY <1>7
  <2>2. c[1] \notin {First(C), Last(C)} /\ c[2] \notin {First(R), Last(R)}
    BY <1>7 DEF OnRim
  <2> QED
    BY <1>7, <1>8, <2>1, <2>2 DEF Beside
<1>14. \A c \in Inner, d \in Int \X Int : OnRim(c) /\ Within(c, d) => d \notin Deep
  <2> TAKE c \in Inner, d \in Int \X Int
  <2> HAVE OnRim(c) /\ Within(c, d)
  <2>1. c[1] \in {First(C), Last(C)} \/ c[2] \in {First(R), Last(R)}
    BY <1>7 DEF OnRim
  <2>2. d[1] \in c[1] - (MMU - 1) .. c[1] + (MMU - 1) /\ d[2] \in c[2] - (MMU - 1) .. c[2] + (MMU - 1)
    BY DEF Within
  <2>3. d[1] \notin First(C) + MMU .. Last(C) - MMU \/ d[2] \notin First(R) + MMU .. Last(R) - MMU
    BY <1>1, <1>8, <2>1, <2>2
  <2> QED
    BY <1>7, <2>3
<1> QED
  BY <1>10, <1>11, <1>12, <1>13, <1>14

LEMMA ArraysOfTile ==
    ASSUME InRaster
    PROVE  /\ DOMAIN WholeRaster = Frame(image) /\ IsArray(WholeRaster)
           /\ DOMAIN Values(Inner) = Inner /\ IsArray(Values(Inner))
           /\ \A c \in Inner : Values(Inner)[c] = WholeRaster[c]
           /\ DOMAIN Masked = Window /\ IsArray(Masked)
           /\ \A c \in Window : c \notin Deep => Masked[c] = WholeRaster[c]
<1>1. Inner \subseteq Frame(image) /\ Window \subseteq Frame(image) /\ IsImage(image)
  BY TileHolds DEF InRaster
<1>2. DOMAIN WholeRaster = Frame(image) /\ IsArray(WholeRaster)
  BY <1>1, ValuesAreArray DEF WholeRaster
<1>3. /\ DOMAIN Values(Inner) = Inner /\ IsArray(Values(Inner))
      /\ \A c \in Inner : Values(Inner)[c] = WholeRaster[c]
  BY <1>1, ValuesAreArray
<1>4. /\ DOMAIN Values(Window) = Window /\ IsArray(Values(Window))
      /\ \A c \in Window : Values(Window)[c] = WholeRaster[c]
  BY <1>1, ValuesAreArray
<1>5. DOMAIN Masked = Window /\ \A c \in Window : c \notin Deep => Masked[c] = WholeRaster[c]
  BY <1>4 DEF Masked
<1> QED
  BY <1>2, <1>3, <1>4, <1>5 DEF IsArray

(* Around the pixels near a pixel at the rim, the masked window shows what  *)
(* the raster does.                                                         *)
LEMMA NearRim ==
    ASSUME InRaster, NEW c \in Inner, OnRim(c), NEW P \in SUBSET Frame(image),
           \A e \in P : \A k \in {1, 2} : e[k] \in c[k] - (MMU - 2) .. c[k] + (MMU - 2)
    PROVE  Agree(P, WholeRaster, Masked) /\ Agree(P, Masked, WholeRaster) /\ P \cap Deep = {}
<1>1. MMU \in Int
  BY MmuAssumption
<1>2. /\ DOMAIN WholeRaster = Frame(image) /\ DOMAIN Masked = Window /\ Window \subseteq Frame(image)
      /\ Frame(image) \subseteq Int \X Int /\ c \in Frame(image)
  BY ArraysOfTile, TileHolds, FrameIsFinite DEF InRaster
<1>3. \A e \in P : Within(c, e) /\ \A d \in Beside(e) : Within(c, d) /\ d \in Int \X Int
  <2> TAKE e \in P
  <2>1. e \in Int \X Int /\ c \in Int \X Int
    BY <1>2
  <2>2. \A k \in {1, 2} : e[k] \in Int /\ c[k] \in Int
    BY <2>1
  <2>3. Within(c, e)
    BY <1>1, <2>2 DEF Within
  <2>4. ASSUME NEW d \in Beside(e) PROVE Within(c, d) /\ d \in Int \X Int
    <3>1. d \in Int \X Int /\ \A k \in {1, 2} : d[k] \in e[k] - 1 .. e[k] + 1
      BY <2>1, BesideIsMutual
    <3>2. \A k \in {1, 2} : d[k] \in c[k] - (MMU - 1) .. c[k] + (MMU - 1)
      BY <1>1, <2>2, <3>1
    <3> QED
      BY <3>1, <3>2 DEF Within
  <2> QED
    BY <2>3, <2>4
<1>4. \A e \in P : e \in Window /\ e \notin Deep
  BY <1>2, <1>3, TileHolds
<1>5. \A e \in P : \A d \in Beside(e) : d \notin Deep /\ (d \in Frame(image) <=> d \in Window)
  BY <1>2, <1>3, TileHolds
<1>6. \A d \in Window : d \notin Deep => Masked[d] = WholeRaster[d]
  BY ArraysOfTile
<1> QED
  BY <1>2, <1>4, <1>5, <1>6 DEF Agree

-----------------------------------------------------------------------------
(* What a tile shows of the patches of the raster.                          *)

LEMMA SmallPatch ==
    ASSUME NEW v, IsArray(v), NEW P \in SmallPatches(v)
    PROVE  /\ P # {} /\ P \subseteq DOMAIN v /\ IsFiniteSet(P) /\ Small(P)
           /\ \A c \in P : c \in DOMAIN v /\ v[c] # NoData /\ P = PatchIn(c, v)
<1>1. PICK c \in DOMAIN v : v[c] # NoData /\ P = PatchIn(c, v) /\ Small(P)
  BY DEF SmallPatches
<1>2. c \in P /\ P \subseteq Alike(c, v) /\ IsFiniteSet(P)
  BY <1>1, PatchIsLeast DEF IsArray
<1>3. \A d \in P : d \in DOMAIN v /\ v[d] # NoData /\ P = PatchIn(d, v)
  BY <1>1, SamePatch
<1> QED
  BY <1>1, <1>2, <1>3 DEF Alike

LEMMA NearOthers ==
    ASSUME NEW v, IsArray(v), NEW P \in SmallPatches(v), NEW c \in P
    PROVE  \A e \in P : \A k \in {1, 2} : e[k] \in c[k] - (MMU - 2) .. c[k] + (MMU - 2)
<1>1. MMU \in Int
  BY MmuAssumption
<1> TAKE e \in P
<1> TAKE k \in {1, 2}
<1>2. c \in DOMAIN v /\ P = PatchIn(c, v) /\ Small(P)
  BY SmallPatch
<1>3. c[k] \in Int /\ e[k] \in Int /\ e[k] - c[k] <= MMU - 2
  BY <1>2, NotWide
<1>4. c[k] - e[k] <= MMU - 2
  BY <1>2, NotWide
<1> QED
  BY <1>1, <1>3, <1>4

LEMMA TrueSmallIs ==
    TrueSmall = SmallPatches(WholeRaster) /\ \A P : TrueExcepted(P) <=> Excepted(P, WholeRaster)
  BY DEF TrueSmall, TrueExcepted, WholeRaster

(* A small patch off the rim of the inner zone is one of the raster.        *)
LEMMA InsideIsTrue ==
    ASSUME InRaster, NEW Q \in SmallPatches(Values(Inner)), \A c \in Q : ~OnRim(c)
    PROVE  Q \in TrueSmall /\ (Excepted(Q, Values(Inner)) <=> TrueExcepted(Q))
<1> DEFINE a == Values(Inner)
<1>1. /\ DOMAIN WholeRaster = Frame(image) /\ IsArray(WholeRaster) /\ DOMAIN a = Inner /\ IsArray(a)
      /\ \A c \in Inner : a[c] = WholeRaster[c]
  BY ArraysOfTile
<1>2. Inner \subseteq Frame(image) /\ \A c \in Inner : ~OnRim(c) => Beside(c) \subseteq Inner
  BY TileHolds
<1> HIDE DEF a
<1>3. Q \in SmallPatches(a)
  BY DEF a
<1>4. PICK c : c \in Q
  BY <1>1, <1>3, SmallPatch
<1>5. c \in DOMAIN a /\ a[c] # NoData /\ Q = PatchIn(c, a) /\ Small(Q) /\ Q \subseteq Inner
  BY <1>1, <1>3, <1>4, SmallPatch
<1>6. Agree(Q, a, WholeRaster)
  BY <1>1, <1>2, <1>5 DEF Agree
<1>7. /\ c \in DOMAIN WholeRaster /\ WholeRaster[c] = a[c] /\ PatchIn(c, WholeRaster) = Q
      /\ Excepted(Q, a) <=> Excepted(Q, WholeRaster)
  BY <1>1, <1>5, <1>6, Transfer
<1>8. Q \in SmallPatches(WholeRaster)
  BY <1>5, <1>7 DEF SmallPatches
<1> QED
  BY <1>7, <1>8, TrueSmallIs DEF a

(* A small patch at the rim that is small in the window, too, is part of    *)
(* one of the raster, which the window shows.                               *)
LEMMA RimIsTrue ==
    ASSUME InRaster, NEW Q \in AtRim(SmallPatches(Values(Inner))), Small(Widened(Q))
    PROVE  Widened(Q) \in TrueSmall /\ (Excepted(Widened(Q), Masked) <=> TrueExcepted(Widened(Q)))
<1> DEFINE a == Values(Inner)
           d == CHOOSE d \in Q : TRUE
           W == PatchIn(d, Masked)
<1>1. /\ DOMAIN WholeRaster = Frame(image) /\ IsArray(WholeRaster) /\ DOMAIN a = Inner /\ IsArray(a)
      /\ \A c \in Inner : a[c] = WholeRaster[c]
      /\ DOMAIN Masked = Window /\ IsArray(Masked)
  BY ArraysOfTile
<1>2. Inner \subseteq Window /\ Window \subseteq Frame(image)
  BY TileHolds
<1>3. Widened(Q) = W /\ Small(W)
  BY DEF Widened
<1> HIDE DEF a
<1>4. Q \in SmallPatches(a) /\ \E c \in Q : OnRim(c)
  BY DEF AtRim, a
<1>5. PICK c \in Q : OnRim(c)
  BY <1>4
<1>6. d \in Q
  BY <1>5
<1> HIDE DEF d, W
<1>7. Q \subseteq Inner /\ a[d] # NoData /\ Q = PatchIn(d, a) /\ Small(Q)
  BY <1>1, <1>4, <1>6, SmallPatch
<1>8. Agree(Q, WholeRaster, Masked)
  <2>1. \A e \in Q : \A k \in {1, 2} : e[k] \in c[k] - (MMU - 2) .. c[k] + (MMU - 2)
    BY <1>1, <1>4, NearOthers
  <2> QED
    BY <1>2, <1>5, <1>7, <2>1, NearRim
<1>9. /\ d \in W /\ W \subseteq Alike(d, Masked) /\ Enclosed(W, d, Masked)
  BY <1>1, <1>2, <1>3, <1>6, <1>7, PatchIsLeast DEF IsArray, W
<1>10. Q \subseteq W
  <2>1. /\ Enclosed(Q, d, a) /\ Q \subseteq Alike(d, a)
        /\ \A T : d \in T /\ Enclosed(T, d, a) => Q \subseteq T
    BY <1>1, <1>6, <1>7, PatchIsLeast DEF IsArray
  <2>2. Enclosed(Q \cap W, d, a)
    <3> SUFFICES ASSUME NEW e \in Q \cap W, NEW f \in Beside(e), f \in Alike(d, a) PROVE f \in Q \cap W
      BY DEF Enclosed
    <3>1. f \in Q
      BY <2>1 DEF Enclosed
    <3>2. f \in Alike(d, Masked)
      BY <1>1, <1>2, <1>6, <1>7, <1>8, <2>1, <3>1 DEF Agree, Alike
    <3>3. f \in W
      BY <1>9, <3>2 DEF Enclosed
    <3> QED
      BY <3>1, <3>3
  <2> QED
    BY <1>6, <1>9, <2>1, <2>2
<1>11. Masked[d] = a[d]
  BY <1>1, <1>6, <1>7, <1>8 DEF Agree
<1>12. W \in SmallPatches(Masked)
  BY <1>1, <1>2, <1>3, <1>6, <1>7, <1>11 DEF SmallPatches, W
<1>13. Agree(W, Masked, WholeRaster)
  <2>1. \A e \in W : \A k \in {1, 2} : e[k] \in c[k] - (MMU - 2) .. c[k] + (MMU - 2)
    BY <1>1, <1>5, <1>10, <1>12, NearOthers
  <2>2. W \subseteq Frame(image)
    BY <1>1, <1>2, <1>9 DEF Alike
  <2> QED
    BY <1>5, <1>7, <2>1, <2>2, NearRim
<1>14. d \in DOMAIN Masked
  BY <1>1, <1>2, <1>6, <1>7
<1>15. /\ d \in DOMAIN WholeRaster /\ WholeRaster[d] = Masked[d] /\ PatchIn(d, WholeRaster) = W
       /\ Excepted(W, Masked) <=> Excepted(W, WholeRaster)
  BY <1>1, <1>3, <1>13, <1>14, Transfer DEF W
<1>16. W \in SmallPatches(WholeRaster)
  BY <1>3, <1>7, <1>11, <1>15 DEF SmallPatches
<1> QED
  BY <1>3, <1>15, <1>16, TrueSmallIs

(* What a tile adds to the errors, and to the exceptions, is true.          *)
LEMMA FoundIsTrue ==
    ASSUME InRaster, NEW exc \in BOOLEAN, NEW e \in Found(SmallPatches(Values(Inner)), exc)
    PROVE  e.patch \in TrueSmall /\ (TrueExcepted(e.patch) <=> exc)
<1> DEFINE small == SmallPatches(Values(Inner))
<1>1. CASE e \in Deeper(small, exc)
  <2>1. PICK P \in small \ AtRim(small) :
             /\ Excepted(P, Values(Inner)) = exc
             /\ e = [tile |-> tile, region |-> P, patch |-> P]
    BY <1>1 DEF Deeper
  <2>2. \A c \in P : ~OnRim(c)
    BY <2>1 DEF AtRim
  <2>3. P \in TrueSmall /\ (Excepted(P, Values(Inner)) <=> TrueExcepted(P))
    BY <2>1, <2>2, InsideIsTrue
  <2> QED
    BY <2>1, <2>3
<1>2. CASE e \notin Deeper(small, exc)
  <2>1. PICK Q \in AtRim(small) :
             /\ Small(Widened(Q)) /\ Excepted(Widened(Q), Masked) = exc
             /\ e = [tile |-> tile, region |-> Q, patch |-> Widened(Q)]
    BY <1>2 DEF Found
  <2>2. Widened(Q) \in TrueSmall /\ (Excepted(Widened(Q), Masked) <=> TrueExcepted(Widened(Q)))
    BY <2>1, RimIsTrue
  <2> QED
    BY <2>1, <2>2
<1> QED
  BY <1>1, <1>2

(* A small patch of the raster that is no exception is found by each tile   *)
(* that has a pixel of it in its inner zone.                                *)
LEMMA TrueIsFound ==
    ASSUME InRaster, NEW P \in TrueSmall, ~TrueExcepted(P), NEW c \in P, c \in Inner
    PROVE  \E e \in Found(SmallPatches(Values(Inner)), FALSE) : e.patch = P
<1> DEFINE a == Values(Inner)
           small == SmallPatches(a)
           Q == PatchIn(c, a)
<1>1. /\ DOMAIN WholeRaster = Frame(image) /\ IsArray(WholeRaster) /\ DOMAIN a = Inner /\ IsArray(a)
      /\ \A d \in Inner : a[d] = WholeRaster[d]
      /\ DOMAIN Masked = Window /\ IsArray(Masked)
  BY ArraysOfTile
<1>2. Inner \subseteq Window /\ Window \subseteq Frame(image)
  BY TileHolds
<1>3. P \in SmallPatches(WholeRaster) /\ ~Excepted(P, WholeRaster)
  BY TrueSmallIs
<1>4. /\ P \subseteq Frame(image) /\ IsFiniteSet(P) /\ Small(P)
      /\ \A d \in P : d \in Frame(image) /\ WholeRaster[d] # NoData /\ P = PatchIn(d, WholeRaster)
  BY <1>1, <1>3, SmallPatch
<1>5. Enclosed(P, c, WholeRaster)
  BY <1>1, <1>4, PatchIsLeast DEF IsArray
<1>6. /\ c \in Q /\ Q \subseteq Alike(c, a)
      /\ \A T : c \in T /\ Enclosed(T, c, a) => Q \subseteq T
  BY <1>1, PatchIsLeast DEF IsArray
<1>7. Enclosed(P, c, a)
  BY <1>1, <1>2, <1>5 DEF Enclosed, Alike
<1>8. Q \subseteq P
  BY <1>6, <1>7
<1>9. Small(Q)
  BY <1>4, <1>8, LessIsSmall
<1>10. Q \in small
  BY <1>1, <1>4, <1>9 DEF SmallPatches
<1>11. CASE \A d \in Q : ~OnRim(d)
  <2>1. Q \in TrueSmall /\ (Excepted(Q, a) <=> TrueExcepted(Q))
    BY <1>10, <1>11, InsideIsTrue
  <2>2. Q = P
    BY <1>1, <1>4, <1>6, <2>1, TrueSmallIs, SmallPatch
  <2>3. Excepted(Q, a) = FALSE
    BY <2>1, <2>2 DEF Excepted
  <2>4. Q \in small \ AtRim(small)
    BY <1>10, <1>11 DEF AtRim
  <2>5. [tile |-> tile, region |-> Q, patch |-> Q] \in Found(small, FALSE)
    BY <2>3, <2>4 DEF Found, Deeper
  <2> QED
    BY <2>2, <2>5
<1>12. CASE \E d \in Q : OnRim(d)
  <2>1. PICK r \in Q : OnRim(r)
    BY <1>12
  <2> DEFINE d == CHOOSE d \in Q : TRUE
  <2>2. d \in Q
    BY <2>1
  <2>3. Widened(Q) = PatchIn(d, Masked)
    BY DEF Widened
  <2> HIDE DEF d, Q
  <2>4. r \in Inner /\ d \in P /\ r \in P
    BY <1>1, <1>6, <1>8, <2>1, <2>2 DEF Alike
  <2>5. \A e \in P : \A k \in {1, 2} : e[k] \in r[k] - (MMU - 2) .. r[k] + (MMU - 2)
    BY <1>1, <1>3, <2>4, NearOthers
  <2>6. Agree(P, WholeRaster, Masked)
    BY <1>4, <2>1, <2>4, <2>5, NearRim
  <2>7. d \in DOMAIN WholeRaster /\ P = PatchIn(d, WholeRaster)
    BY <1>1, <1>4, <2>4
  <2>8. PatchIn(d, Masked) = P /\ (Excepted(P, WholeRaster) <=> Excepted(P, Masked))
    BY <1>1, <1>4, <2>6, <2>7, Transfer
  <2>9. Excepted(P, Masked) = FALSE
    BY <1>3, <2>8 DEF Excepted
  <2>10. Q \in AtRim(small) /\ Small(Widened(Q)) /\ Widened(Q) = P
    BY <1>4, <1>10, <2>1, <2>3, <2>8 DEF AtRim
  <2>11. [tile |-> tile, region |-> Q, patch |-> Widened(Q)] \in Found(small, FALSE)
    BY <2>9, <2>10 DEF Found
  <2> QED
    BY <2>10, <2>11
<1> QED
  BY <1>11, <1>12

(* A tile of buffer only, or of one value, has no such patch.               *)
LEMMA NothingToFind ==
    ASSUME IsImage(image), tile \in MmuTiles, Buffered, NoInner \/ (~Outside /\ OneValue),
           NEW P \in TrueSmall, ~TrueExcepted(P), NEW c \in P
    PROVE  c \notin Inner
<1> DEFINE C == Column
           R == Row
<1>1. /\ image.ncols \in Nat \ {0} /\ image.nrows \in Nat \ {0} /\ MMU \in Nat \ {0}
      /\ Buffer(image) = BufferOf(image.ncols) /\ Buffer(image) = BufferOf(image.nrows)
  BY OneBuffer, MmuAssumption
<1>2. tile[1] \in 0 .. Count(image.ncols) - 1 /\ tile[2] \in 0 .. Count(image.nrows) - 1
  BY DEF MmuTiles
<1>3. /\ {C.off, C.lead, C.length, C.inner} \subseteq Int
      /\ Last(C) <= C.off + C.length - 1
      /\ tile[1] = 0 => C.off = 0
      /\ tile[1] # 0 => C.length > MMU \/ C.length <= Buffer(image)
      /\ C.length <= Buffer(image) => C.inner <= 0
      /\ C.lead >= 0
  BY <1>1, <1>2, SpanTells DEF Column
<1>4. /\ {R.off, R.lead, R.length, R.inner} \subseteq Int
      /\ R.length <= Buffer(image) => R.inner <= 0
  BY <1>1, <1>2, SpanTells DEF Row
<1>5. Inner = (First(C) .. Last(C)) \X (First(R) .. Last(R))
  BY DEF Inner, InnerFirst, InnerLast, First, Last
<1>6. CASE NoInner
  <2>1. C.inner <= 0 \/ R.inner <= 0
    BY <1>3, <1>4, <1>6 DEF NoInner
  <2> QED
    BY <1>3, <1>4, <1>5, <2>1 DEF First, Last
<1>7. CASE ~NoInner /\ ~Outside /\ OneValue
  <2> SUFFICES ASSUME c \in Inner PROVE FALSE
    OBVIOUS
  <2>1. InRaster
    BY <1>7 DEF InRaster
  <2>2. Inner \subseteq Window /\ Window \subseteq Frame(image)
    BY <2>1, TileHolds
  <2>3. DOMAIN WholeRaster = Frame(image) /\ IsArray(WholeRaster)
    BY <2>1, ArraysOfTile
  <2>4. P \in SmallPatches(WholeRaster)
    BY TrueSmallIs
  <2>5. P \subseteq Frame(image) /\ IsFiniteSet(P) /\ Small(P) /\ P = PatchIn(c, WholeRaster)
    BY <2>3, <2>4, SmallPatch
  <2>6. Enclosed(P, c, WholeRaster)
    BY <2>2, <2>3, <2>5, PatchIsLeast DEF IsArray
  <2>7. \A d \in Window : d \in Alike(c, WholeRaster)
    <3>1. \A d \in Window : WholeRaster[d] = Group[RawValue(image, d)]
      BY <2>2 DEF WholeRaster, Values
    <3>2. \A d \in Window : RawValue(image, d) = RawValue(image, c)
      BY <1>7, <2>2 DEF OneValue
    <3> QED
      BY <2>2, <2>3, <3>1, <3>2 DEF Alike
  <2> DEFINE lo == C.off
             hi == C.off + C.length - 1
             S == {x \in lo .. hi : <<x, c[2]>> \in P}
  <2>8. Window = (lo .. hi) \X (R.off .. R.off + R.length - 1)
    BY DEF Window
  <2> HIDE DEF C, R, lo, hi
  <2>9. lo \in Int /\ hi \in Int
    BY <1>3 DEF lo, hi
  <2>10. c \in Window /\ c[1] \in lo .. hi /\ c[2] \in R.off .. R.off + R.length - 1 /\ c = <<c[1], c[2]>>
    BY <2>2, <2>8
  <2>11. \A x \in S : /\ x + 1 \in lo .. hi => x + 1 \in S
                      /\ x - 1 \in lo .. hi => x - 1 \in S
    <3> TAKE x \in S
    <3>1. <<x + 1, c[2]>> \in Beside(<<x, c[2]>>) /\ <<x - 1, c[2]>> \in Beside(<<x, c[2]>>)
      BY DEF Beside
    <3>2. x + 1 \in lo .. hi => <<x + 1, c[2]>> \in Window
      BY <2>8, <2>10
    <3>3. x - 1 \in lo .. hi => <<x - 1, c[2]>> \in Window
      BY <2>8, <2>10
    <3>4. <<x, c[2]>> \in P
      OBVIOUS
    <3>5. x + 1 \in lo .. hi => <<x + 1, c[2]>> \in P
      BY <2>6, <2>7, <3>1, <3>2, <3>4 DEF Enclosed
    <3>6. x - 1 \in lo .. hi => <<x - 1, c[2]>> \in P
      BY <2>6, <2>7, <3>1, <3>3, <3>4 DEF Enclosed
    <3> QED
      BY <3>5, <3>6
  <2>12. c[1] \in S
    BY <2>10
  <2>13. lo .. hi \subseteq S
    <3> HIDE DEF S
    <3> QED
      BY <2>9, <2>10, <2>11, <2>12, Spreads
  <2>14. \A x \in lo .. hi : <<x, c[2]>> \in P
    BY <2>13
  <2>15. CASE tile[1] = 0
    <3>1. lo = 0 /\ 0 \in lo .. hi
      BY <1>3, <2>9, <2>10, <2>15 DEF lo
    <3>2. TouchesEdge(image, P)
      <4>1. <<0, c[2]>> \in P /\ <<0, c[2]>>[1] = 0
        BY <2>14, <3>1
      <4> QED
        BY <4>1 DEF TouchesEdge
    <3> QED
      BY <3>2 DEF TrueExcepted, Excepted
  <2>16. CASE tile[1] # 0
    <3>1. C.length > MMU
      BY <1>3, <1>7, <2>16 DEF NoInner, C
    <3>2. hi - lo + 1 > MMU
      BY <1>1, <1>3, <3>1 DEF lo, hi
    <3>3. \A x \in lo .. hi : \E p \in P : p[1] = x
      <4> TAKE x \in lo .. hi
      <4>1. <<x, c[2]>> \in P /\ <<x, c[2]>>[1] = x
        BY <2>14
      <4> QED
        BY <4>1
    <3>4. P \in SUBSET (Int \X Int)
      BY <2>3, <2>5 DEF IsArray
    <3>5. hi - lo + 1 <= Cardinality(P)
      BY <2>5, <2>9, <3>3, <3>4, Stretch
    <3>6. Cardinality(P) \in Nat /\ Cardinality(P) < MMU
      BY <2>5, FS_CardinalityType DEF Small
    <3> QED
      BY <1>1, <2>9, <3>2, <3>5, <3>6
  <2> QED
    BY <2>15, <2>16
<1> QED
  BY <1>6, <1>7

-----------------------------------------------------------------------------
(* The way through the tiles.                                               *)

Zone(t) ==
    LET x == Span(t[1], image.ncols, Buffer(image))
        y == Span(t[2], image.nrows, Buffer(image))
    IN  (First(x) .. Last(x)) \X (First(y) .. Last(y))

\* Tiles go row by row.
Before(t, u) == t[2] < u[2] \/ (t[2] = u[2] /\ t[1] < u[1])

PastTile(t) ==
    \/ mmu = "tiles" /\ Before(t, tile)
    \/ /\ mmu \in {"report", "ok", "failed"} /\ image.neighbours # "no s3"
       /\ Cardinality(errors) <= MaxReported

FoundIn(t) == \A P \in TrueSmall : \A c \in P : ~TrueExcepted(P) /\ c \in Zone(t) => P \in Reported

\* The errors hold the small patches of all inner zones that were passed.
PastTilesInv == Buffered => IsFiniteSet(errors) /\ \A t \in MmuTiles : PastTile(t) => FoundIn(t)

MmuInv ==
    /\ IsImage(image) /\ tile \in MmuTiles
    /\ mmu = "prepare" => tile = <<0, 0>> /\ errors = {} /\ exceptions = {}
    /\ ReportedAreTrue
    /\ PastTilesInv

LEMMA SameImage ==
    ASSUME UNCHANGED image
    PROVE  /\ TrueSmall' = TrueSmall /\ MmuTiles' = MmuTiles
           /\ Buffered' <=> Buffered
           /\ IsImage(image)' <=> IsImage(image)
           /\ \A P : TrueExcepted(P)' <=> TrueExcepted(P)
           /\ \A t : Zone(t)' = Zone(t)
<1>1. TrueSmall' = TrueSmall
  BY DEF TrueSmall, Values
<1>2. \A P : TrueExcepted(P)' <=> TrueExcepted(P)
  BY DEF TrueExcepted, Excepted, Values
<1>3. MmuTiles' = MmuTiles /\ (Buffered' <=> Buffered)
  BY DEF MmuTiles, Buffered
<1>4. IsImage(image)' <=> IsImage(image)
  OBVIOUS
<1>5. \A t : Zone(t)' = Zone(t)
  BY DEF Zone
<1> QED
  BY <1>1, <1>2, <1>3, <1>4, <1>5

LEMMA SameReport ==
    ASSUME UNCHANGED <<image, errors, exceptions>>, ReportedAreTrue
    PROVE  ReportedAreTrue'
  BY SameImage DEF ReportedAreTrue

LEMMA SameFound ==
    ASSUME UNCHANGED image, errors \subseteq errors', NEW t, FoundIn(t)
    PROVE  FoundIn(t)'
<1>1. Reported \subseteq Reported'
  BY DEF Reported
<1> QED
  BY <1>1, SameImage DEF FoundIn

LEMMA FoundIsFinite ==
    ASSUME InRaster, NEW exc
    PROVE  IsFiniteSet(Found(SmallPatches(Values(Inner)), exc))
<1> DEFINE a == Values(Inner)
           small == SmallPatches(a)
<1>1. IsFiniteSet(DOMAIN a)
  BY ArraysOfTile DEF IsArray
<1> HIDE DEF a
<1>2. IsFiniteSet(small)
  <2> DEFINE S == {d \in DOMAIN a : a[d] # NoData}
             T == {PatchIn(c, a) : c \in S}
             f == [c \in S |-> PatchIn(c, a)]
  <2>1. IsFiniteSet(S)
    BY <1>1, FS_Subset
  <2>2. f \in [S -> T] /\ \A t \in T : \E c \in S : f[c] = t
    OBVIOUS
  <2>3. small \subseteq T
    BY DEF SmallPatches
  <2> HIDE DEF S, T, f
  <2>4. IsFiniteSet(T)
    BY <2>1, <2>2, FiniteRange
  <2> QED
    BY <2>3, <2>4, FS_Subset
<1> HIDE DEF small
<1>3. IsFiniteSet(Deeper(small, exc))
  <2> DEFINE S == {Q \in small \ AtRim(small) : Excepted(Q, Values(Inner)) = exc}
             T == {[tile |-> tile, region |-> P, patch |-> P] : P \in S}
             f == [P \in S |-> [tile |-> tile, region |-> P, patch |-> P]]
  <2>1. IsFiniteSet(S)
    BY <1>2, FS_Subset
  <2>2. f \in [S -> T] /\ \A t \in T : \E P \in S : f[P] = t
    OBVIOUS
  <2>3. Deeper(small, exc) = T
    BY DEF Deeper
  <2> HIDE DEF S, T, f
  <2> QED
    BY <2>1, <2>2, <2>3, FiniteRange
<1>4. IsFiniteSet(Found(small, exc))
  <2> DEFINE S == {Q \in AtRim(small) : Small(Widened(Q)) /\ Excepted(Widened(Q), Masked) = exc}
             T == {[tile |-> tile, region |-> P, patch |-> Widened(P)] : P \in S}
             f == [P \in S |-> [tile |-> tile, region |-> P, patch |-> Widened(P)]]
  <2>1. IsFiniteSet(S)
    BY <1>2, FS_Subset DEF AtRim
  <2>2. f \in [S -> T] /\ \A t \in T : \E P \in S : f[P] = t
    OBVIOUS
  <2>3. Found(small, exc) = Deeper(small, exc) \union T
    BY DEF Found
  <2> HIDE DEF S, T, f
  <2>4. IsFiniteSet(T)
    BY <2>1, <2>2, FiniteRange
  <2> QED
    BY <1>3, <2>3, <2>4, FS_Union
<1> QED
  BY <1>4 DEF small, a

LEMMA InnerIsZone == Inner = Zone(tile)
  BY DEF Inner, InnerFirst, InnerLast, Column, Row, Zone, First, Last

(* The next tile comes right after the tile.                                *)
LEMMA TileByTile ==
    ASSUME IsImage(image), tile \in MmuTiles, mmu = "tiles", NextTile, UNCHANGED image
    PROVE  /\ tile' \in MmuTiles /\ mmu' # "prepare"
           /\ \A t \in MmuTiles : PastTile(t)' => t = tile \/ PastTile(t)
<1> DEFINE m == Count(image.ncols)
           n == Count(image.nrows)
<1>1. m \in Nat \ {0} /\ n \in Nat \ {0}
  BY CountTells DEF IsImage
<1>2. \A t \in MmuTiles : t[1] \in 0 .. m - 1 /\ t[2] \in 0 .. n - 1 /\ t = <<t[1], t[2]>>
  BY DEF MmuTiles
<1>3. CASE LastTile
  <2>1. mmu' = "report" /\ tile' = tile
    BY <1>3 DEF NextTile
  <2>2. tile[1] = m - 1 /\ tile[2] = n - 1
    BY <1>3 DEF LastTile
  <2>3. \A t \in MmuTiles : t = tile \/ Before(t, tile)
    <3> TAKE t \in MmuTiles
    <3> HIDE DEF m, n
    <3>1. t[1] \in 0 .. m - 1 /\ t[2] \in 0 .. n - 1 /\ t = <<t[1], t[2]>> /\ tile = <<tile[1], tile[2]>>
      BY <1>2
    <3>2. t[1] = tile[1] /\ t[2] = tile[2] => t = tile
      BY <3>1
    <3> QED
      BY <1>1, <2>2, <3>1, <3>2 DEF Before
  <2> QED
    BY <2>1, <2>3 DEF PastTile
<1>4. CASE ~LastTile
  <2>1. /\ mmu' = "tiles"
        /\ tile' = IF tile[1] = m - 1 THEN <<0, tile[2] + 1>> ELSE <<tile[1] + 1, tile[2]>>
    BY <1>4 DEF NextTile
  <2>2. tile # <<m - 1, n - 1>>
    BY <1>4 DEF LastTile
  <2>3. ~(tile[1] = m - 1 /\ tile[2] = n - 1)
    BY <1>2, <2>2
  <2>4. MmuTiles = (0 .. m - 1) \X (0 .. n - 1)
    BY DEF MmuTiles
  <2> HIDE DEF m, n
  <2>5. tile' \in MmuTiles
    BY <1>1, <1>2, <2>1, <2>3, <2>4
  <2>6. \A t \in MmuTiles : Before(t, tile') => t = tile \/ Before(t, tile)
    <3> TAKE t \in MmuTiles
    <3>1. /\ t[1] \in 0 .. m - 1 /\ t[2] \in 0 .. n - 1 /\ t = <<t[1], t[2]>>
          /\ tile[1] \in 0 .. m - 1 /\ tile[2] \in 0 .. n - 1 /\ tile = <<tile[1], tile[2]>>
      BY <1>2
    <3>2. t[1] = tile[1] /\ t[2] = tile[2] => t = tile
      BY <3>1
    <3>3. CASE tile[1] = m - 1
      <4>1. tile'[1] = 0 /\ tile'[2] = tile[2] + 1
        BY <2>1, <3>3
      <4> QED
        BY <1>1, <3>1, <3>2, <3>3, <4>1 DEF Before
    <3>4. CASE tile[1] # m - 1
      <4>1. tile'[1] = tile[1] + 1 /\ tile'[2] = tile[2]
        BY <2>1, <3>4
      <4> QED
        BY <1>1, <3>1, <3>2, <3>4, <4>1 DEF Before
    <3> QED
      BY <3>3, <3>4
  <2>7. \A t \in MmuTiles : PastTile(t)' => Before(t, tile')
    BY <2>1 DEF PastTile
  <2> QED
    BY <2>1, <2>5, <2>6, <2>7 DEF PastTile
<1> QED
  BY <1>3, <1>4

(* What a tile has to leave behind.                                         *)
LEMMA LeavesTile ==
    ASSUME MmuInv, mmu = "tiles", NextTile, UNCHANGED image, errors \subseteq errors', ReportedAreTrue',
           Buffered => /\ IsFiniteSet(errors')
                       /\ \A P \in TrueSmall : \A c \in P :
                            ~TrueExcepted(P) /\ c \in Inner => \E e \in errors' : e.patch = P
    PROVE  MmuInv'
<1>1. IsImage(image) /\ tile \in MmuTiles
  BY DEF MmuInv
<1>2. /\ tile' \in MmuTiles /\ mmu' # "prepare"
      /\ \A t \in MmuTiles : PastTile(t)' => t = tile \/ PastTile(t)
  BY <1>1, TileByTile
<1>3. MmuTiles' = MmuTiles /\ (Buffered' <=> Buffered) /\ (IsImage(image)' <=> IsImage(image))
  BY SameImage
<1>4. ASSUME Buffered, NEW t \in MmuTiles, PastTile(t)' PROVE FoundIn(t)'
  <2>1. CASE t = tile
    <3>1. \A P \in TrueSmall : \A c \in P : ~TrueExcepted(P) /\ c \in Zone(t) => P \in Reported'
      BY <1>4, <2>1, InnerIsZone DEF Reported
    <3> QED
      BY <3>1, SameImage DEF FoundIn
  <2>2. CASE PastTile(t)
    <3>1. FoundIn(t)
      BY <1>4, <2>2 DEF MmuInv, PastTilesInv
    <3> QED
      BY <3>1, SameFound
  <2> QED
    BY <1>2, <1>4, <2>1, <2>2
<1>5. PastTilesInv'
  BY <1>3, <1>4 DEF PastTilesInv
<1> QED
  BY <1>1, <1>2, <1>3, <1>5 DEF MmuInv

LEMMA Prepares == MmuInv /\ Prepare => MmuInv'
<1> SUFFICES ASSUME MmuInv, Prepare PROVE MmuInv'
  OBVIOUS
<1>1. /\ mmu = "prepare" /\ tile = <<0, 0>> /\ errors = {} /\ exceptions = {} /\ IsImage(image) /\ tile \in MmuTiles
      /\ UNCHANGED <<tile, errors, exceptions>>
  BY DEF MmuInv, Prepare
<1>2. ReportedAreTrue' /\ IsFiniteSet(errors')
  <2>1. errors' = {} /\ exceptions' = {}
    BY <1>1
  <2> QED
    BY <2>1, FS_EmptySet DEF ReportedAreTrue
<1>3. IsImage(image') /\ mmu' # "prepare"
  <2>1. CASE image' = image
    BY <1>1, <2>1 DEF Prepare
  <2>2. CASE image' = Extended(image) /\ mmu' = "tiles"
    <3>1. /\ image.ncols \in Nat \ {0} /\ image.nrows \in Nat \ {0} /\ MMU \in Nat
          /\ image = [ncols |-> image.ncols, nrows |-> image.nrows, ground |-> image.ground, fill |-> image.fill,
                      marks |-> image.marks, around |-> image.around, neighbours |-> image.neighbours]
      BY <1>1, MmuAssumption DEF IsImage
    <3>2. image.ncols + 2 * Margin \in Nat \ {0} /\ image.nrows + 2 * Margin \in Nat \ {0}
      BY <3>1 DEF Margin
    <3>3. \E x : Extended(image) = [image EXCEPT !.ncols = image.ncols + 2 * Margin,
                                               !.nrows = image.nrows + 2 * Margin, !.marks = x]
      BY DEF Extended
    <3>4. PICK x : image' = [ncols |-> image.ncols + 2 * Margin, nrows |-> image.nrows + 2 * Margin,
                             ground |-> image.ground, fill |-> image.fill, marks |-> x,
                             around |-> image.around, neighbours |-> image.neighbours]
      BY <2>2, <3>1, <3>3
    <3>5. IsImage(image')
      BY <3>2, <3>4 DEF IsImage
    <3> QED
      BY <2>2, <3>5
  <2> QED
    BY <2>1, <2>2 DEF Prepare
<1>4. tile' \in MmuTiles'
  <2>1. Count(image'.ncols) \in Nat \ {0} /\ Count(image'.nrows) \in Nat \ {0}
    BY <1>3, CountTells DEF IsImage
  <2>2. tile' = <<0, 0>>
    BY <1>1
  <2> QED
    BY <2>1, <2>2 DEF MmuTiles
<1>5. \A t \in MmuTiles' : ~PastTile(t)'
  <2> TAKE t \in MmuTiles'
  <2>1. t[1] \in Nat /\ t[2] \in Nat
    <3>1. MmuTiles' = (0 .. Count(image'.ncols) - 1) \X (0 .. Count(image'.nrows) - 1)
      BY DEF MmuTiles
    <3>2. Count(image'.ncols) \in Nat /\ Count(image'.nrows) \in Nat
      BY <1>3, CountTells DEF IsImage
    <3> QED
      BY <3>1, <3>2
  <2>2. tile' = <<0, 0>> /\ tile'[1] = 0 /\ tile'[2] = 0
    BY <1>1
  <2>3. mmu' \in {"tiles", "aborted"} \/ (mmu' = "failed" /\ image'.neighbours = "no s3")
    BY DEF Prepare
  <2>4. ~Before(t, tile')
    BY <2>1, <2>2 DEF Before
  <2> QED
    BY <2>3, <2>4 DEF PastTile
<1> QED
  BY <1>2, <1>3, <1>4, <1>5 DEF MmuInv, PastTilesInv

LEMMA SkipsMmuTile == MmuInv /\ SkipTile => MmuInv'
<1> SUFFICES ASSUME MmuInv, SkipTile PROVE MmuInv'
  OBVIOUS
<1>1. /\ mmu = "tiles" /\ NextTile /\ UNCHANGED <<image, errors, exceptions>>
      /\ NoInner \/ (~Outside /\ OneValue)
  BY DEF SkipTile
<1>2. IsImage(image) /\ tile \in MmuTiles /\ ReportedAreTrue'
  BY <1>1, SameReport DEF MmuInv
<1>3. ASSUME Buffered PROVE /\ IsFiniteSet(errors')
                            /\ \A P \in TrueSmall : \A c \in P : ~TrueExcepted(P) => c \notin Inner
  <2>1. \A P \in TrueSmall : \A c \in P : ~TrueExcepted(P) => c \notin Inner
    BY <1>1, <1>2, <1>3, NothingToFind
  <2> QED
    BY <1>1, <1>3, <2>1 DEF MmuInv, PastTilesInv
<1> QED
  BY <1>1, <1>2, <1>3, LeavesTile

LEMMA ChecksMmuTile == MmuInv /\ CheckTile => MmuInv'
<1> SUFFICES ASSUME MmuInv, CheckTile PROVE MmuInv'
  OBVIOUS
<1> DEFINE small == SmallPatches(Values(Inner))
<1>1. /\ mmu = "tiles" /\ NextTile /\ UNCHANGED image /\ ~Outside
      /\ errors' = errors \union Found(small, FALSE)
      /\ exceptions' = IF ReportExceptions THEN exceptions \union Found(small, TRUE) ELSE exceptions
  BY DEF CheckTile
<1>2. Buffered => InRaster
  BY <1>1 DEF MmuInv, InRaster
<1>3. ASSUME Buffered
      PROVE  /\ \A e \in Found(small, FALSE) : e.patch \in TrueSmall /\ ~TrueExcepted(e.patch)
             /\ \A e \in Found(small, TRUE) : e.patch \in TrueSmall /\ TrueExcepted(e.patch)
             /\ IsFiniteSet(Found(small, FALSE))
  <2>1. InRaster
    BY <1>2, <1>3
  <2>2. \A e \in Found(small, FALSE) : e.patch \in TrueSmall /\ ~TrueExcepted(e.patch)
    BY <2>1, FoundIsTrue
  <2>3. \A e \in Found(small, TRUE) : e.patch \in TrueSmall /\ TrueExcepted(e.patch)
    BY <2>1, FoundIsTrue
  <2>4. IsFiniteSet(Found(small, FALSE))
    BY <2>1, FoundIsFinite
  <2> QED
    BY <2>2, <2>3, <2>4
<1>4. ASSUME Buffered, NEW P \in TrueSmall, NEW c \in P, ~TrueExcepted(P), c \in Inner
      PROVE  \E e \in Found(small, FALSE) : e.patch = P
  BY <1>2, <1>4, TrueIsFound
<1> HIDE DEF small
<1>5. ReportedAreTrue'
  <2> SUFFICES ASSUME Buffered
               PROVE  /\ \A e \in errors' : e.patch \in TrueSmall /\ ~TrueExcepted(e.patch)
                      /\ \A e \in exceptions' : e.patch \in TrueSmall /\ TrueExcepted(e.patch)
    BY <1>1, SameImage DEF ReportedAreTrue
  <2>1. /\ \A e \in errors : e.patch \in TrueSmall /\ ~TrueExcepted(e.patch)
        /\ \A e \in exceptions : e.patch \in TrueSmall /\ TrueExcepted(e.patch)
    BY DEF MmuInv, ReportedAreTrue
  <2> QED
    BY <1>1, <1>3, <2>1
<1>6. Buffered => IsFiniteSet(errors')
  <2> HAVE Buffered
  <2>1. IsFiniteSet(errors)
    BY DEF MmuInv, PastTilesInv
  <2> QED
    BY <1>1, <1>3, <2>1, FS_Union
<1>7. Buffered => \A P \in TrueSmall : \A c \in P :
          ~TrueExcepted(P) /\ c \in Inner => \E e \in errors' : e.patch = P
  BY <1>1, <1>4
<1> QED
  BY <1>1, <1>5, <1>6, <1>7, LeavesTile

LEMMA EndsMmu == MmuInv /\ (CrashOnTile \/ StopEarly \/ Report) => MmuInv'
<1> SUFFICES ASSUME MmuInv, CrashOnTile \/ StopEarly \/ Report PROVE MmuInv'
  OBVIOUS
<1>1. UNCHANGED <<image, tile, errors, exceptions>> /\ mmu' # "prepare"
  BY DEF CrashOnTile, StopEarly, Report
<1>2. ReportedAreTrue'
  BY <1>1, SameReport DEF MmuInv
<1>3. /\ MmuTiles' = MmuTiles /\ (Buffered' <=> Buffered) /\ (IsImage(image)' <=> IsImage(image))
  BY <1>1, SameImage
<1>4. ASSUME Buffered, NEW t \in MmuTiles, PastTile(t)' PROVE PastTile(t)
  <2>1. Cardinality(errors) \in Nat /\ MaxReported \in Nat
    BY <1>4, FS_CardinalityType, MmuAssumption DEF MmuInv, PastTilesInv
  <2>2. CASE CrashOnTile
    BY <1>4, <2>2 DEF CrashOnTile, PastTile
  <2>3. CASE StopEarly
    <3>1. Cardinality(errors) > MaxReported /\ mmu' = "report"
      BY <2>3 DEF StopEarly
    <3>2. ~(Cardinality(errors) <= MaxReported)
      BY <2>1, <3>1
    <3>3. Cardinality(errors') <= MaxReported
      BY <1>4, <3>1 DEF PastTile
    <3>4. errors' = errors
      BY <1>1
    <3> QED
      BY <3>2, <3>3, <3>4
  <2>4. CASE Report
    BY <1>1, <1>4, <2>4 DEF Report, PastTile
  <2> QED
    BY <2>2, <2>3, <2>4
<1>5. ASSUME Buffered, NEW t \in MmuTiles, PastTile(t)' PROVE FoundIn(t)'
  <2>1. FoundIn(t)
    BY <1>4, <1>5 DEF MmuInv, PastTilesInv
  <2> QED
    BY <1>1, <2>1, SameFound
<1>6. PastTilesInv'
  BY <1>1, <1>3, <1>5 DEF MmuInv, PastTilesInv
<1> QED
  BY <1>1, <1>2, <1>3, <1>6 DEF MmuInv

LEMMA SameMmu == MmuInv /\ UNCHANGED mmuVars => MmuInv'
<1> SUFFICES ASSUME MmuInv, UNCHANGED mmuVars PROVE MmuInv'
  OBVIOUS
<1>1. UNCHANGED <<image, tile, errors, exceptions, mmu>>
  BY DEF mmuVars
<1>2. ReportedAreTrue' /\ MmuTiles' = MmuTiles /\ (Buffered' <=> Buffered) /\ (IsImage(image)' <=> IsImage(image))
  BY <1>1, SameReport, SameImage DEF MmuInv
<1>3. ASSUME Buffered, NEW t \in MmuTiles, PastTile(t)' PROVE FoundIn(t)'
  <2>1. PastTile(t)
    BY <1>1, <1>3 DEF PastTile
  <2>2. FoundIn(t)
    BY <1>3, <2>1 DEF MmuInv, PastTilesInv
  <2> QED
    BY <1>1, <2>2, SameFound
<1>4. PastTilesInv'
  BY <1>1, <1>2, <1>3 DEF MmuInv, PastTilesInv
<1> QED
  BY <1>1, <1>2, <1>4 DEF MmuInv

(* When all tiles are passed, all pixels but the ones between the zones are *)
(* accounted for.                                                           *)
LEMMA PastTilesTell == MmuInv => SmallPatchesAreTrue
<1> SUFFICES ASSUME MmuInv, Searched, NEW P \in TrueSmall, ~TrueExcepted(P), NEW c \in P, ~BetweenZones(c)
             PROVE  P \in Reported
  BY DEF MmuInv, SmallPatchesAreTrue, SmallAreReported
<1>1. IsImage(image) /\ Buffered /\ \A t \in MmuTiles : FoundIn(t)
  BY DEF MmuInv, PastTilesInv, PastTile, Searched
<1>2. /\ image.ncols \in Nat \ {0} /\ image.nrows \in Nat \ {0}
      /\ Buffer(image) = BufferOf(image.ncols) /\ Buffer(image) = BufferOf(image.nrows)
  BY <1>1, OneBuffer
<1>3. c \in Frame(image)
  <2>1. DOMAIN WholeRaster = Frame(image) /\ IsArray(WholeRaster)
    BY <1>1, ValuesAreArray DEF WholeRaster
  <2> QED
    BY <2>1, TrueSmallIs, SmallPatch
<1>4. c[1] \in 0 .. image.ncols - 1 /\ c[2] \in 0 .. image.nrows - 1 /\ c = <<c[1], c[2]>>
  BY <1>3 DEF Frame
<1>5. c[1] \notin BlockSize .. BlockSize + Buffer(image) - 1 /\ c[2] \notin BlockSize .. BlockSize + Buffer(image) - 1
  BY DEF BetweenZones
<1>6. PICK k \in 0 .. Count(image.ncols) - 1 :
           LET s == Span(k, image.ncols, Buffer(image)) IN c[1] \in First(s) .. Last(s)
  BY <1>2, <1>4, <1>5, ZonesCover
<1>7. PICK l \in 0 .. Count(image.nrows) - 1 :
           LET s == Span(l, image.nrows, Buffer(image)) IN c[2] \in First(s) .. Last(s)
  BY <1>2, <1>4, <1>5, ZonesCover
<1>8. <<k, l>> \in MmuTiles /\ c \in Zone(<<k, l>>)
  BY <1>4, <1>6, <1>7 DEF MmuTiles, Zone
<1> QED
  BY <1>1, <1>8 DEF FoundIn

(* For any minimum mapping unit, tiles wider than it, and images that are   *)
(* larger than a tile in both directions or in none: the errors and         *)
(* exceptions of a step are small patches of the whole raster, and those    *)
(* that have a pixel in an inner zone are all found, wherever the tiles'    *)
(* borders cut them (mmu.py, run_check).  Of images larger in one direction *)
(* only nothing is said, nor of patches between the first inner zones.      *)
THEOREM SmallPatchesAreFound == RasterSpec => []SmallPatchesAreTrue
<1>1. RasterInit => MmuInv
  <2> SUFFICES ASSUME RasterInit PROVE MmuInv
    OBVIOUS
  <2>1. image = input.image /\ tile = <<0, 0>> /\ errors = {} /\ exceptions = {} /\ mmu = "prepare"
    BY DEF RasterInit, MmuInit
  <2>2. IsImage(image)
    BY <2>1, RasterAssumption DEF RasterInit
  <2>3. Count(image.ncols) \in Nat \ {0} /\ Count(image.nrows) \in Nat \ {0}
    BY <2>2, CountTells DEF IsImage
  <2>4. tile \in MmuTiles
    BY <2>1, <2>3 DEF MmuTiles
  <2>5. ReportedAreTrue /\ PastTilesInv
    BY <2>1, FS_EmptySet DEF ReportedAreTrue, PastTilesInv, PastTile
  <2> QED
    BY <2>1, <2>2, <2>4, <2>5 DEF MmuInv
<1>2. MmuInv /\ [RasterNext]_rasterVars => MmuInv'
  <2> SUFFICES ASSUME MmuInv, [RasterNext]_rasterVars PROVE MmuInv'
    OBVIOUS
  <2>1. CASE MmuStep
    <3>1. Prepare \/ SkipTile \/ CheckTile \/ CrashOnTile \/ StopEarly \/ Report
      BY <2>1 DEF MmuStep, MmuNext
    <3> QED
      BY <3>1, Prepares, SkipsMmuTile, ChecksMmuTile, EndsMmu
  <2>2. CASE ~MmuStep
    <3>1. UNCHANGED mmuVars
      BY <2>2 DEF RasterNext, CheckLayer, LayersChecked, GapStep, GapEnds, MmuEnds, rasterVars
    <3> QED
      BY <3>1, SameMmu
  <2> QED
    BY <2>1, <2>2
<1>3. QED
  BY <1>1, <1>2, PastTilesTell, PTL DEF RasterSpec

=============================================================================
