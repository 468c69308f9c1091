-------------------------- MODULE Location_proofs ---------------------------
(***************************************************************************)
(* Theorems about Geofencing, for any boundaries, fences, zones and        *)
(* entities, DriverAssignment, for any fleet, and Tracking, for any set of *)
(* drivers, any batch size and any number of reports and faults.           *)
(***************************************************************************)
EXTENDS Tracking, Geofencing, DriverAssignment, FiniteSetTheorems,
        WellFoundedInduction, TLAPS

-----------------------------------------------------------------------------
(* Least numbers and induction.                                            *)

\* Every nonempty set of natural numbers has a least element.
LEMMA LeastElement ==
    ASSUME NEW T, T \subseteq Nat, T # {}
    PROVE  \E n \in T : \A m \in T : n <= m
<1>1. PICK n \in T : \A m \in T : <<m, n>> \notin OpToRel(<, Nat)
  BY NatLessThanWellFounded, WFMin, Zenon
<1>2. \A m \in T : ~ (m < n)
  BY <1>1, Zenon DEF OpToRel
<1> QED
  BY <1>2

\* Induction over a set of natural numbers.
LEMMA InductiveSet ==
    ASSUME NEW S, 0 \in S, \A n \in Nat : n \in S => n + 1 \in S
    PROVE  Nat \subseteq S
<1> SUFFICES ASSUME Nat \ S # {}
             PROVE  FALSE
  OBVIOUS
<1>1. PICK n \in Nat \ S : \A m \in Nat \ S : n <= m
  <2> DEFINE T == Nat \ S
  <2>1. T \subseteq Nat /\ T # {}
    OBVIOUS
  <2> QED
    BY <2>1, LeastElement
<1>2. n # 0
  OBVIOUS
<1>3. n - 1 \in Nat /\ (n - 1) + 1 = n /\ ~ (n <= n - 1)
  BY <1>2
<1>4. n - 1 \in S
  BY <1>1, <1>3
<1> QED
  BY <1>3, <1>4

-----------------------------------------------------------------------------
(* Parity.                                                                 *)

\* Even and odd alternate.
LEMMA OneMore ==
    ASSUME NEW q \in Nat
    PROVE  /\ q + 1 \in Nat
           /\ q % 2 = 0 => (q + 1) % 2 = 1
           /\ q % 2 = 1 => (q + 1) % 2 = 0
  OBVIOUS

\* Around a closed walk a value changes an even number of times.
LEMMA ChangesAreEven ==
    ASSUME NEW n \in Nat \ {0}, NEW f \in [1..n -> {0, 1}]
    PROVE  LET changes == {i \in 1..n : f[i] # f[IF i = 1 THEN n ELSE i - 1]}
           IN Cardinality(changes) \in Nat /\ Cardinality(changes) % 2 = 0
<1> DEFINE Along(k) == {i \in 2..k : f[i] # f[i - 1]}
           Parity(k) == /\ IsFiniteSet(Along(k)) /\ Cardinality(Along(k)) \in Nat
                        /\ Cardinality(Along(k)) % 2 = IF f[k] = f[1] THEN 0 ELSE 1
           Ends == {m \in Nat : m + 1 <= n => Parity(m + 1)}
           changes == {i \in 1..n : f[i] # f[IF i = 1 THEN n ELSE i - 1]}
<1>1. 0 \in Ends
  <2>1. Along(0 + 1) = {} /\ f[0 + 1] = f[1]
    OBVIOUS
  <2>2. Parity(0 + 1)
    BY <2>1, FS_EmptySet
  <2> QED
    BY <2>2
<1>2. ASSUME NEW m \in Nat, m \in Ends
      PROVE  m + 1 \in Ends
  <2> SUFFICES ASSUME (m + 1) + 1 <= n
               PROVE  Parity((m + 1) + 1)
    OBVIOUS
  <2> DEFINE k == m + 1
  <2>1. k \in 1..n /\ k + 1 \in 1..n /\ 1 \in 1..n /\ (k + 1) - 1 = k
    OBVIOUS
  <2>2. Parity(k)
    BY <1>2
  <2>3. CASE f[k + 1] = f[k]
    <3>1. Along(k + 1) = Along(k)
      BY <2>1, <2>3
    <3> QED
      BY <2>2, <2>3, <3>1
  <2>4. CASE f[k + 1] # f[k]
    <3>1. Along(k + 1) = Along(k) \cup {k + 1} /\ k + 1 \notin Along(k)
      BY <2>1, <2>4
    <3>2. /\ IsFiniteSet(Along(k + 1))
          /\ Cardinality(Along(k + 1)) = Cardinality(Along(k)) + 1
      <4>1. IsFiniteSet(Along(k))
        BY <2>2
      <4> HIDE DEF Along, k
      <4> QED
        BY <3>1, <4>1, FS_AddElement
    <3>3. f[k] \in {0, 1} /\ f[k + 1] \in {0, 1} /\ f[1] \in {0, 1}
      BY <2>1
    <3>4. f[k + 1] = f[1] <=> f[k] # f[1]
      BY <2>4, <3>3
    <3>5. /\ Cardinality(Along(k + 1)) \in Nat
          /\ Cardinality(Along(k + 1)) % 2 = IF f[k] = f[1] THEN 1 ELSE 0
      BY <2>2, <3>2, OneMore
    <3> HIDE DEF Along
    <3>6. Cardinality(Along(k + 1)) % 2 = IF f[k + 1] = f[1] THEN 0 ELSE 1
      BY <3>4, <3>5
    <3> QED
      BY <3>2, <3>5, <3>6
  <2> QED
    BY <2>3, <2>4
<1>3. n - 1 \in Ends /\ (n - 1) + 1 = n
  <2>1. Nat \subseteq Ends
    <3> HIDE DEF Ends
    <3> QED
      BY <1>1, <1>2, InductiveSet
  <2>2. n - 1 \in Nat
    OBVIOUS
  <2>3. (n - 1) + 1 = n
    OBVIOUS
  <2> HIDE DEF Ends
  <2> QED
    BY <2>1, <2>2, <2>3
<1>4. Parity(n)
  BY <1>3
<1>5. 1 \in 1..n /\ n \in 1..n
  OBVIOUS
<1>6. CASE f[n] = f[1]
  <2>1. changes = Along(n)
    BY <1>5, <1>6
  <2> QED
    BY <1>4, <1>6, <2>1
<1>7. CASE f[n] # f[1]
  <2>1. changes = Along(n) \cup {1} /\ 1 \notin Along(n)
    BY <1>5, <1>7
  <2>2. Cardinality(changes) = Cardinality(Along(n)) + 1
    BY <1>4, <2>1, FS_AddElement
  <2>3. /\ Cardinality(Along(n)) \in Nat /\ Cardinality(Along(n)) % 2 = 1
        /\ Cardinality(changes) = Cardinality(Along(n)) + 1
    BY <1>4, <1>7, <2>2
  <2> HIDE DEF Along, changes
  <2>4. Cardinality(changes) \in Nat /\ Cardinality(changes) % 2 = 0
    BY <2>3, OneMore
  <2> QED
    BY <2>4 DEF changes
<1> QED
  BY <1>6, <1>7

-----------------------------------------------------------------------------
(* The index: ray casting and the cells of a box.                          *)

\* What the comparison of a crossing measures: on which side of the point the
\* edge passes.
LEMMA SideOfEdge ==
    ASSUME NEW p1 \in Int, NEW p2 \in Int, NEW a1 \in Int, NEW a2 \in Int,
           NEW b1 \in Int, NEW b2 \in Int
    PROVE  (a2 - b2) * (p1 - b1) - (p2 - b2) * (a1 - b1)
             = (b2 - p2) * (a1 - p1) + (a2 - p2) * (p1 - b1)
<1>1. \A w, x, y, z \in Int : (w - x) * (y - z) = w * y - w * z - x * y + x * z
  OBVIOUS
<1>2. \A x, y \in Int : x * y = y * x /\ x * y \in Int
  OBVIOUS
<1>3. (a2 - b2) * (p1 - b1) = a2 * p1 - a2 * b1 - b2 * p1 + b2 * b1
  BY <1>1
<1>4. (p2 - b2) * (a1 - b1) = p2 * a1 - p2 * b1 - b2 * a1 + b2 * b1
  BY <1>1
<1>5. (b2 - p2) * (a1 - p1) = b2 * a1 - b2 * p1 - p2 * a1 + p2 * p1
  BY <1>1
<1>6. (a2 - p2) * (p1 - b1) = a2 * p1 - a2 * b1 - p2 * p1 + p2 * b1
  BY <1>1
<1> QED
  BY <1>2, <1>3, <1>4, <1>5, <1>6

\* Signs of products.
LEMMA ProductSigns ==
    ASSUME NEW x \in Int, NEW y \in Int
    PROVE  /\ x * y \in Int
           /\ x <= 0 /\ y >= 0 => x * y <= 0
           /\ x >= 0 /\ y >= 0 => x * y >= 0
           /\ x > 0 /\ y > 0 => x * y > 0
           /\ x > 0 /\ y < 0 => x * y < 0
           /\ x <= 0 /\ y <= 0 => x * y >= 0
           /\ x >= 0 /\ y <= 0 => x * y <= 0
  OBVIOUS

\* The ray from a point crosses only edges that reach beyond it.
LEMMA CrossedEdge ==
    ASSUME NEW p \in Int \X Int, NEW a \in Int \X Int, NEW b \in Int \X Int, Crosses(p, a, b)
    PROVE  /\ (b[1] <= p[1] /\ p[1] <= a[1]) \/ (a[1] <= p[1] /\ p[1] <= b[1])
           /\ p[2] <= a[2] \/ p[2] <= b[2]
<1>1. /\ p[1] \in Int /\ p[2] \in Int /\ a[1] \in Int /\ a[2] \in Int
      /\ b[1] \in Int /\ b[2] \in Int
  OBVIOUS
<1>2. \/ a[1] > b[1] /\ a[1] > p[1] /\ b[1] <= p[1]
      \/ a[1] < b[1] /\ a[1] <= p[1] /\ b[1] > p[1]
  BY <1>1 DEF Crosses
<1>3. SUFFICES ASSUME p[2] > a[2], p[2] > b[2]
               PROVE  FALSE
  BY <1>1, <1>2
<1> DEFINE u == (b[2] - p[2]) * (a[1] - p[1])
           v == (a[2] - p[2]) * (p[1] - b[1])
           run == (p[2] - b[2]) * (a[1] - b[1])
           rise == (a[2] - b[2]) * (p[1] - b[1])
<1>4. rise - run = u + v
  BY <1>1, SideOfEdge
<1>5. u \in Int /\ v \in Int /\ run \in Int /\ rise \in Int
  BY <1>1
<1>6. CASE a[1] > b[1] /\ a[1] > p[1] /\ b[1] <= p[1]
  <2>1. run < rise
    BY <1>6 DEF Crosses
  <2>2. u <= 0 /\ v <= 0
    BY <1>1, <1>3, <1>6, ProductSigns
  <2> HIDE DEF u, v, run, rise
  <2> QED
    BY <1>4, <1>5, <2>1, <2>2
<1>7. CASE a[1] < b[1] /\ a[1] <= p[1] /\ b[1] > p[1]
  <2>1. run > rise
    BY <1>1, <1>7 DEF Crosses
  <2>2. u >= 0 /\ v >= 0
    BY <1>1, <1>3, <1>7, ProductSigns
  <2> HIDE DEF u, v, run, rise
  <2> QED
    BY <1>4, <1>5, <2>1, <2>2
<1> QED
  BY <1>2, <1>6, <1>7

\* Of the edges that pass the latitude of a point, the ray crosses all that lie
\* wholly beyond it.
LEMMA EdgeBeyond ==
    ASSUME NEW p \in Int \X Int, NEW a \in Int \X Int, NEW b \in Int \X Int,
           a[2] > p[2], b[2] > p[2]
    PROVE  Crosses(p, a, b) <=> ~ (b[1] > p[1] <=> a[1] > p[1])
<1>1. /\ p[1] \in Int /\ p[2] \in Int /\ a[1] \in Int /\ a[2] \in Int
      /\ b[1] \in Int /\ b[2] \in Int
  OBVIOUS
<1>2. SUFFICES ASSUME ~ (b[1] > p[1] <=> a[1] > p[1])
               PROVE  Crosses(p, a, b)
  BY <1>1 DEF Crosses
<1>3. \/ a[1] > b[1] /\ a[1] > p[1] /\ b[1] <= p[1]
      \/ a[1] < b[1] /\ a[1] <= p[1] /\ b[1] > p[1]
  BY <1>1, <1>2
<1> DEFINE u == (b[2] - p[2]) * (a[1] - p[1])
           v == (a[2] - p[2]) * (p[1] - b[1])
           run == (p[2] - b[2]) * (a[1] - b[1])
           rise == (a[2] - b[2]) * (p[1] - b[1])
<1>4. rise - run = u + v
  BY <1>1, SideOfEdge
<1>5. u \in Int /\ v \in Int /\ run \in Int /\ rise \in Int
  BY <1>1
<1>6. IF a[1] > b[1] THEN run < rise ELSE run > rise
  <2>1. CASE a[1] > b[1] /\ a[1] > p[1] /\ b[1] <= p[1]
    <3>1. u > 0 /\ v >= 0
      BY <1>1, <2>1, ProductSigns
    <3> HIDE DEF u, v, run, rise
    <3> QED
      BY <1>4, <1>5, <2>1, <3>1
  <2>2. CASE a[1] < b[1] /\ a[1] <= p[1] /\ b[1] > p[1]
    <3>1. u <= 0 /\ v < 0
      BY <1>1, <2>2, ProductSigns
    <3> HIDE DEF u, v, run, rise
    <3> QED
      BY <1>1, <1>4, <1>5, <2>2, <3>1
  <2> QED
    BY <1>3, <2>1, <2>2
<1> QED
  BY <1>2, <1>6 DEF Crosses

\* Grid lines keep their order.
LEMMA DivGrows ==
    ASSUME NEW x \in Int, NEW y \in Int, x <= y
    PROVE  /\ x \div CellSize \in Int /\ y \div CellSize \in Int
           /\ x \div CellSize <= y \div CellSize
  BY CellSizeAssumption

\* Between two corners there is a cell of the box.
LEMMA BetweenCorners ==
    ASSUME NEW x \in Int, NEW y \in Int, NEW z \in Int, x <= z, z <= y
    PROVE  z \div CellSize \in (x \div CellSize) .. (y \div CellSize)
<1>1. x \div CellSize <= z \div CellSize /\ x \div CellSize \in Int /\ z \div CellSize \in Int
  BY DivGrows
<1>2. z \div CellSize <= y \div CellSize /\ y \div CellSize \in Int
  BY DivGrows
<1> QED
  BY <1>1, <1>2

\* A point inside a polygon lies in a cell of the polygon's bounding box: its
\* ray crosses an edge, so that it is between the corners' latitudes and not
\* beyond all their longitudes; and if it were before them all, the ray would
\* cross every edge that passes its latitude, and they are even in number.
LEMMA InsideIsBoxed ==
    ASSUME NEW b \in Seq(Int \X Int), NEW p \in Int \X Int, IsPointInPolygon(p, b)
    PROVE  CellOf(p) \in CellsOf(b)
<1> DEFINE n == Len(b)
           Start(i) == IF i = 1 THEN Len(b) ELSE i - 1
           crossed == {i \in 1 .. Len(b) : Crosses(p, b[Start(i)], b[i])}
<1>1. n \in Nat \ {0} /\ Len(b) >= 3 /\ Cardinality(crossed) % 2 = 1
  BY DEF IsPointInPolygon
<1>2. /\ \A i \in 1..n : b[i] \in Int \X Int /\ b[i][1] \in Int /\ b[i][2] \in Int
      /\ p[1] \in Int /\ p[2] \in Int
  <2>1. \A i \in 1..n : b[i] \in Int \X Int
    OBVIOUS
  <2> QED
    BY <2>1
<1>3. \A i \in 1..n : Start(i) \in 1..n
  BY <1>1
<1>4. PICK i \in 1..n : Crosses(p, b[Start(i)], b[i])
  <2>1. crossed # {}
    <3> SUFFICES ASSUME crossed = {}
                 PROVE  FALSE
      OBVIOUS
    <3> HIDE DEF crossed
    <3>1. Cardinality(crossed) = 0
      BY FS_EmptySet
    <3> QED
      BY <1>1, <3>1
  <2> QED
    BY <2>1
<1>a. PICK h \in 1..n : Crosses(p, b[h], b[i])
  BY <1>3, <1>4
<1>b. /\ (b[i][1] <= p[1] /\ p[1] <= b[h][1]) \/ (b[h][1] <= p[1] /\ p[1] <= b[i][1])
      /\ p[2] <= b[h][2] \/ p[2] <= b[i][2]
  BY <1>2, <1>a, CrossedEdge
<1>5. \E j, k \in 1..n : b[j][1] <= p[1] /\ p[1] <= b[k][1]
  BY <1>b
<1>6. \E k \in 1..n : p[2] <= b[k][2]
  BY <1>b
<1>7. \E j \in 1..n : b[j][2] <= p[2]
  <2> SUFFICES ASSUME \A j \in 1..n : b[j][2] > p[2]
               PROVE  FALSE
    BY <1>2
  <2> DEFINE f == [j \in 1..n |-> IF b[j][1] > p[1] THEN 1 ELSE 0]
             changes == {j \in 1..n : f[j] # f[IF j = 1 THEN n ELSE j - 1]}
  <2>1. \A j \in 1..n : Crosses(p, b[Start(j)], b[j]) <=> f[j] # f[Start(j)]
    <3>1. SUFFICES ASSUME NEW j \in 1..n
                   PROVE  Crosses(p, b[Start(j)], b[j]) <=> f[j] # f[Start(j)]
      OBVIOUS
    <3>2. PICK g \in 1..n : g = Start(j)
      BY <1>3
    <3> HIDE DEF Start
    <3>3. Crosses(p, b[g], b[j]) <=> ~ (b[j][1] > p[1] <=> b[g][1] > p[1])
      BY <1>2, EdgeBeyond
    <3>4. /\ f[j] = IF b[j][1] > p[1] THEN 1 ELSE 0
          /\ f[g] = IF b[g][1] > p[1] THEN 1 ELSE 0
      OBVIOUS
    <3>5. f[j] = 1 <=> b[j][1] > p[1]
      BY <3>4
    <3>6. f[g] = 1 <=> b[g][1] > p[1]
      BY <3>4
    <3>7. f[j] # f[g] <=> ~ (f[j] = 1 <=> f[g] = 1)
      BY <3>4
    <3> QED
      BY <3>2, <3>3, <3>5, <3>6, <3>7
  <2>2. crossed = changes
    BY <2>1
  <2>3. f \in [1..n -> {0, 1}]
    OBVIOUS
  <2>4. Cardinality(changes) % 2 = 0
    <3> HIDE DEF f, n
    <3> QED
      BY <1>1, <2>3, ChangesAreEven
  <2> HIDE DEF crossed, changes
  <2> QED
    BY <1>1, <2>2, <2>4
<1> DEFINE Corners(k) == {b[m][k] \div CellSize : m \in 1 .. Len(b)}
           Span(k) == UNION {c[1] .. c[2] : c \in Corners(k) \X Corners(k)}
<1>8. p[1] \div CellSize \in Span(1)
  <2>1. PICK j \in 1..n, k \in 1..n : b[j][1] <= p[1] /\ p[1] <= b[k][1]
    BY <1>5
  <2>2. p[1] \div CellSize \in (b[j][1] \div CellSize) .. (b[k][1] \div CellSize)
    BY <1>2, <2>1, BetweenCorners
  <2>3. <<b[j][1] \div CellSize, b[k][1] \div CellSize>> \in Corners(1) \X Corners(1)
    OBVIOUS
  <2> QED
    BY <2>2, <2>3
<1>9. p[2] \div CellSize \in Span(2)
  <2>1. PICK j \in 1..n, k \in 1..n : b[j][2] <= p[2] /\ p[2] <= b[k][2]
    BY <1>6, <1>7
  <2>2. p[2] \div CellSize \in (b[j][2] \div CellSize) .. (b[k][2] \div CellSize)
    BY <1>2, <2>1, BetweenCorners
  <2>3. <<b[j][2] \div CellSize, b[k][2] \div CellSize>> \in Corners(2) \X Corners(2)
    OBVIOUS
  <2> QED
    BY <2>2, <2>3
<1>10. CellsOf(b) = Span(1) \X Span(2)
  BY DEF CellsOf
<1> HIDE DEF Span
<1> QED
  BY <1>8, <1>9, <1>10 DEF CellOf

-----------------------------------------------------------------------------
(* The index and the events: the inductive invariant.                      *)

\* Cells are pairs of integers.
LEMMA CellsTyped ==
    ASSUME NEW b \in Seq(Int \X Int)
    PROVE  CellsOf(b) \subseteq Int \X Int
<1> DEFINE Corners(k) == {b[m][k] \div CellSize : m \in 1 .. Len(b)}
           Span(k) == UNION {c[1] .. c[2] : c \in Corners(k) \X Corners(k)}
<1>1. Span(1) \subseteq Int /\ Span(2) \subseteq Int
  <2> HIDE DEF Corners
  <2> QED
    OBVIOUS
<1>2. CellsOf(b) = Span(1) \X Span(2)
  BY DEF CellsOf
<1> HIDE DEF Span
<1> QED
  BY <1>1, <1>2

\* An id is given away once, so that nobody was told of a new fence before.
GeoInv ==
    /\ GeoTypeOK
    /\ IndexExact
    /\ Living \subseteq drawn
    /\ \A e \in Entities : inside[e] \cup told[e] \cup dropped[e] \subseteq drawn
    /\ SubscribersAgree

\* The invariant holds of an empty index.
LEMMA GeoInitKeeps == GeoInit => GeoInv
<1> SUFFICES ASSUME GeoInit
             PROVE  GeoInv
  OBVIOUS
<1>1. GeoTypeOK
  <2>1. 0 \in 0..DwellTicks
    BY DwellTicksAssumption
  <2> QED
    BY <2>1 DEF GeoInit, GeoTypeOK
<1>2. Living = {}
  BY DEF GeoInit, Living
<1>3. IndexExact
  BY <1>2 DEF GeoInit, IndexExact
<1> QED
  BY <1>1, <1>2, <1>3 DEF GeoInit, GeoInv, SubscribersAgree

\* Putting a fence into the index, or another boundary in its place.
LEMMA FenceDrawn ==
    ASSUME GeoInv, NEW f \in Fences, NEW b \in Boundaries,
           CreateGeofence(f, b) \/ UpdateGeofence(f, b)
    PROVE  GeoInv'
<1>1. /\ fences' = [fences EXCEPT ![f] = b] /\ drawn' = drawn \cup {f}
      /\ UNCHANGED <<zones, known, inside, age, due, dwelt, told, dropped>>
  BY DEF CreateGeofence, UpdateGeofence, AddGeofence, events, GeoInv, Living
<1>2. b \in Seq(Int \X Int) /\ b # NoFence
  BY CoordinatesAssumption, ModelValues
<1>3. /\ Living' = Living \cup {f} /\ fences'[f] = b
      /\ \A g \in Living \ {f} : fences'[g] = fences[g]
  BY <1>1, <1>2 DEF Living, GeoInv, GeoTypeOK
<1>4. cells' = {c \in cells : c[2] # f} \cup (CellsOf(b) \X {f})
  <2>1. CASE CreateGeofence(f, b)
    <3>1. f \notin Living /\ cells = UNION {CellsOf(fences[g]) \X {g} : g \in Living}
      BY <2>1 DEF CreateGeofence, GeoInv, IndexExact
    <3>2. \A c \in cells : c[2] # f
      BY <3>1
    <3> QED
      BY <2>1, <3>2 DEF CreateGeofence, AddGeofence
  <2>2. CASE UpdateGeofence(f, b)
    BY <2>2 DEF UpdateGeofence, AddGeofence, Others
  <2> QED
    BY <2>1, <2>2
<1>5. GeoTypeOK'
  <2>1. cells' \subseteq (Int \X Int) \X Fences
    BY <1>2, <1>4, CellsTyped DEF GeoInv, GeoTypeOK
  <2>2. fences' \in [Fences -> Boundaries \cup {NoFence}]
    BY <1>1 DEF GeoInv, GeoTypeOK
  <2> QED
    BY <1>1, <2>1, <2>2 DEF GeoInv, GeoTypeOK
<1>6. IndexExact'
  <2>1. cells = UNION {CellsOf(fences[g]) \X {g} : g \in Living}
    BY DEF GeoInv, IndexExact
  <2>2. {c \in cells : c[2] # f} = UNION {CellsOf(fences[g]) \X {g} : g \in Living \ {f}}
    BY <2>1
  <2>3. UNION {CellsOf(fences'[g]) \X {g} : g \in Living'}
          = (UNION {CellsOf(fences[g]) \X {g} : g \in Living \ {f}}) \cup (CellsOf(b) \X {f})
    BY <1>3
  <2> QED
    BY <1>4, <2>2, <2>3 DEF IndexExact
<1>7. \A e \in Entities : told[e] \cap Living' = (inside[e] \cup dropped[e]) \cap Living'
  <2>1. CASE CreateGeofence(f, b)
    <3>1. \A e \in Entities : f \notin told[e] \cup inside[e] \cup dropped[e]
      BY <2>1 DEF CreateGeofence, GeoInv
    <3> QED
      BY <1>3, <3>1 DEF GeoInv, SubscribersAgree
  <2>2. CASE UpdateGeofence(f, b)
    BY <1>3, <2>2 DEF UpdateGeofence, GeoInv, SubscribersAgree
  <2> QED
    BY <2>1, <2>2
<1> QED
  BY <1>1, <1>3, <1>5, <1>6, <1>7 DEF GeoInv, SubscribersAgree

\* Taking a fence out of the index.
LEMMA FenceDeleted ==
    ASSUME GeoInv, NEW f \in Fences, DeleteGeofence(f)
    PROVE  GeoInv'
<1>1. /\ fences' = [fences EXCEPT ![f] = NoFence] /\ cells' = {c \in cells : c[2] # f}
      /\ UNCHANGED <<drawn, zones, known, inside, age, due, dwelt, told, dropped>>
  BY DEF DeleteGeofence, Others, events
<1>2. /\ Living' = Living \ {f}
      /\ \A g \in Living \ {f} : fences'[g] = fences[g]
  BY <1>1 DEF Living, GeoInv, GeoTypeOK
<1>3. GeoTypeOK'
  BY <1>1 DEF GeoInv, GeoTypeOK
<1>4. IndexExact'
  <2>1. cells = UNION {CellsOf(fences[g]) \X {g} : g \in Living}
    BY DEF GeoInv, IndexExact
  <2>2. {c \in cells : c[2] # f} = UNION {CellsOf(fences[g]) \X {g} : g \in Living \ {f}}
    BY <2>1
  <2>3. UNION {CellsOf(fences'[g]) \X {g} : g \in Living'}
          = UNION {CellsOf(fences[g]) \X {g} : g \in Living \ {f}}
    BY <1>2
  <2> QED
    BY <1>1, <2>2, <2>3 DEF IndexExact
<1> QED
  BY <1>1, <1>2, <1>3, <1>4 DEF GeoInv, SubscribersAgree

\* What moves no fence keeps the index.
LEMMA IndexKept ==
    ASSUME GeoInv, UNCHANGED index
    PROVE  IndexExact' /\ Living' = Living
  BY DEF GeoInv, IndexExact, Living, index

\* A report: the events of a step and the set that is stored say the same.
LEMMA LocationKeeps ==
    ASSUME GeoInv, NEW e \in Entities, NEW p \in Stops, UpdateEntityLocation(e, p)
    PROVE  GeoInv'
<1> DEFINE current == FindGeofencesContainingPoint(p)
           exits == (inside[e] \ current) \cap Living
<1>1. current \subseteq Living /\ Living \subseteq Fences
  BY DEF FindGeofencesContainingPoint, Living
<1>2. /\ inside' = [inside EXCEPT ![e] = current]
      /\ told' = [told EXCEPT ![e] = (told[e] \ exits) \cup (current \ inside[e])]
      /\ dropped' = [dropped EXCEPT ![e] = dropped[e] \ current]
      /\ known' = known \cup {e}
      /\ UNCHANGED <<fences, drawn, cells, zones, due, dwelt>>
  BY DEF UpdateEntityLocation, index, GeoInv, GeoTypeOK
<1>3. age' \in [Entities -> 0..DwellTicks]
  <2>1. 0 \in 0..DwellTicks /\ 1 \in 0..DwellTicks
    BY DwellTicksAssumption
  <2> QED
    BY <2>1 DEF UpdateEntityLocation, GeoInv, GeoTypeOK
<1>4. /\ told'[e] = (told[e] \ exits) \cup (current \ inside[e]) /\ inside'[e] = current
      /\ dropped'[e] = dropped[e] \ current
  BY <1>2 DEF GeoInv, GeoTypeOK
<1>5. \A d \in Entities \ {e} : /\ told'[d] = told[d] /\ inside'[d] = inside[d]
                             /\ dropped'[d] = dropped[d]
  BY <1>2 DEF GeoInv, GeoTypeOK
<1>6. /\ told[e] \cap Living = (inside[e] \cup dropped[e]) \cap Living
      /\ inside[e] \cap dropped[e] = {}
  BY DEF GeoInv, SubscribersAgree
<1> HIDE DEF current
<1>7. GeoTypeOK'
  <2>1. /\ told' \in [Entities -> SUBSET Fences] /\ inside' \in [Entities -> SUBSET Fences]
        /\ dropped' \in [Entities -> SUBSET Fences]
    BY <1>1, <1>2 DEF GeoInv, GeoTypeOK
  <2> QED
    BY <1>2, <1>3, <2>1 DEF GeoInv, GeoTypeOK
<1>8. /\ told'[e] \cap Living = (inside'[e] \cup dropped'[e]) \cap Living
      /\ inside'[e] \cap dropped'[e] = {}
  BY <1>1, <1>4, <1>6
<1>9. told'[e] \cup inside'[e] \cup dropped'[e] \subseteq drawn
  BY <1>1, <1>4 DEF GeoInv
<1>10. IndexExact' /\ Living' = Living
  BY <1>2, IndexKept DEF index
<1> QED
  BY <1>2, <1>5, <1>7, <1>8, <1>9, <1>10 DEF GeoInv, SubscribersAgree

\* The other steps.
LEMMA QuietStepKeeps ==
    ASSUME GeoInv,
           \/ \E z \in Zones, f \in Fences, a \in BOOLEAN : PutDeliveryZone(z, f, a)
           \/ \E z \in Zones : DeleteDeliveryZone(z)
           \/ \E e \in Entities : ClearEntityLocation(e)
           \/ Tick \/ CheckDwellEvents
    PROVE  GeoInv'
<1>1. UNCHANGED index
  BY DEF PutDeliveryZone, DeleteDeliveryZone, ClearEntityLocation, Tick, CheckDwellEvents
<1>2. IndexExact' /\ Living' = Living /\ UNCHANGED <<fences, drawn, cells>>
  BY <1>1, IndexKept DEF index
<1>3. CASE \E z \in Zones, f \in Fences, a \in BOOLEAN : PutDeliveryZone(z, f, a)
  <2>1. PICK z \in Zones, f \in Fences, a \in BOOLEAN : PutDeliveryZone(z, f, a)
    BY <1>3
  <2>2. [fence |-> f, active |-> a] \in [fence : Fences, active : BOOLEAN]
    OBVIOUS
  <2>3. zones' \in [Zones -> [fence : Fences, active : BOOLEAN] \cup {NoZone}]
    BY <2>1, <2>2 DEF PutDeliveryZone, GeoInv, GeoTypeOK
  <2> QED
    BY <1>2, <2>1, <2>3 DEF PutDeliveryZone, events, GeoInv, GeoTypeOK, SubscribersAgree
<1>4. CASE \E z \in Zones : DeleteDeliveryZone(z)
  <2>1. zones' \in [Zones -> [fence : Fences, active : BOOLEAN] \cup {NoZone}]
    BY <1>4 DEF DeleteDeliveryZone, GeoInv, GeoTypeOK
  <2> QED
    BY <1>2, <1>4, <2>1 DEF DeleteDeliveryZone, events, GeoInv, GeoTypeOK, SubscribersAgree
<1>5. CASE \E e \in Entities : ClearEntityLocation(e)
  <2>1. 0 \in 0..DwellTicks
    BY DwellTicksAssumption
  <2> QED
    BY <1>2, <1>5, <2>1 DEF ClearEntityLocation, GeoInv, GeoTypeOK, SubscribersAgree
<1>6. CASE Tick
  <2>1. \A a \in 0..DwellTicks : a < DwellTicks => a + 1 \in 0..DwellTicks
    BY DwellTicksAssumption
  <2>2. age' \in [Entities -> 0..DwellTicks]
    BY <1>6, <2>1 DEF Tick, GeoInv, GeoTypeOK
  <2> QED
    BY <1>2, <1>6, <2>2 DEF Tick, GeoInv, GeoTypeOK, SubscribersAgree
<1>7. CASE CheckDwellEvents
  BY <1>2, <1>7 DEF CheckDwellEvents, Dwelling, GeoInv, GeoTypeOK, SubscribersAgree
<1> QED
  BY <1>3, <1>4, <1>5, <1>6, <1>7

\* Every step keeps the invariant.
LEMMA GeoNextKeeps ==
    ASSUME GeoInv, [GeoNext]_geoVars
    PROVE  GeoInv'
<1>1. CASE UNCHANGED geoVars
  BY <1>1 DEF geoVars, index, events, GeoInv, GeoTypeOK, IndexExact, Living, SubscribersAgree
<1>2. CASE GeoNext
  BY <1>2, FenceDrawn, FenceDeleted, LocationKeeps, QuietStepKeeps DEF GeoNext, EventStep
<1> QED
  BY <1>1, <1>2

\* The invariant holds of every reachable state.
LEMMA GeoSound == GeoSpec => []GeoInv
<1> QED
  BY GeoInitKeeps, GeoNextKeeps, PTL DEF GeoSpec

\* Every state of the index, of the zones and of the entities is typed.
THEOREM GeoTypeCorrect == GeoSpec => []GeoTypeOK
<1> QED
  BY GeoSound, PTL DEF GeoInv

\* An exact index answers like a scan.
LEMMA ExactIndexAnswers == GeoInv => LookupsAnswerLikeAScan
<1> SUFFICES ASSUME GeoInv, NEW p \in Probes
             PROVE  LET scan == {f \in Living : IsPointInPolygon(p, fences[f])}
                    IN /\ FindGeofencesContainingPoint(p) = scan
                       /\ FindDeliveryZonesContainingPoint(p) =
                            {z \in Zones : zones[z] # NoZone /\ zones[z].active
                                                             /\ zones[z].fence \in scan}
  BY DEF GeoInv, LookupsAnswerLikeAScan
<1>1. ASSUME NEW f \in Living, IsPointInPolygon(p, fences[f])
      PROVE  <<CellOf(p), f>> \in cells
  <2>1. fences[f] \in Seq(Int \X Int) /\ p \in Int \X Int
    BY CoordinatesAssumption DEF Living, GeoInv, GeoTypeOK
  <2>2. CellOf(p) \in CellsOf(fences[f])
    BY <1>1, <2>1, InsideIsBoxed
  <2> QED
    BY <2>2 DEF GeoInv, IndexExact
<1>2. FindGeofencesContainingPoint(p) = {f \in Living : IsPointInPolygon(p, fences[f])}
  BY <1>1 DEF FindGeofencesContainingPoint
<1> QED
  BY <1>2 DEF FindDeliveryZonesContainingPoint

\* A lookup by the grid finds exactly the fences and zones that a scan of all of
\* them would find, for boundaries of any shape and length and cells of any size.
THEOREM GridAnswersLikeAScan == GeoSpec => []LookupsAnswerLikeAScan
<1> QED
  BY GeoSound, ExactIndexAnswers, PTL

\* Who follows the enter and exit events (updateEntityLocation) knows, of the fences
\* that were not deleted, which ones the service takes an entity to be inside, and
\* is wrong only of those a clear dropped (clearEntityLocation).
THEOREM FollowersAgree == GeoSpec => []SubscribersAgree
<1> QED
  BY GeoSound, PTL DEF GeoInv

-----------------------------------------------------------------------------
(* The driver an order is offered to.                                      *)

\* A finite set has a first element in every transitive order that no element
\* precedes itself in.
LEMMA FirstElement ==
    ASSUME NEW S, IsFiniteSet(S), S # {}, NEW lt,
           \A x \in S : <<x, x>> \notin lt,
           \A x, y, z \in S : <<x, y>> \in lt /\ <<y, z>> \in lt => <<x, z>> \in lt
    PROVE  \E x \in S : \A y \in S : <<y, x>> \notin lt
<1> DEFINE Below(x) == {y \in S : <<y, x>> \in lt}
           Ranks == {Cardinality(Below(x)) : x \in S}
<1>1. \A x \in S : IsFiniteSet(Below(x)) /\ Cardinality(Below(x)) \in Nat
  <2> SUFFICES ASSUME NEW x \in S
               PROVE  IsFiniteSet(Below(x)) /\ Cardinality(Below(x)) \in Nat
    OBVIOUS
  <2>1. Below(x) \in SUBSET S
    OBVIOUS
  <2> HIDE DEF Below
  <2> QED
    BY <2>1, FS_Subset, FS_CardinalityType
<1>2. Ranks \subseteq Nat /\ Ranks # {}
  <2> HIDE DEF Below
  <2> QED
    BY <1>1
<1>3. PICK n \in Ranks : \A m \in Ranks : n <= m
  <2> HIDE DEF Ranks
  <2> QED
    BY <1>2, LeastElement
<1>4. PICK x \in S : \A y \in S : Cardinality(Below(x)) <= Cardinality(Below(y))
  <2> HIDE DEF Below
  <2> QED
    BY <1>3
<1>5. ASSUME NEW y \in S, <<y, x>> \in lt
      PROVE  FALSE
  <2>1. Below(y) \subseteq Below(x) /\ y \in Below(x) /\ y \notin Below(y)
    BY <1>5
  <2> HIDE DEF Below
  <2>2. Cardinality(Below(y)) < Cardinality(Below(x))
    BY <1>1, <2>1, FS_Subset
  <2> QED
    BY <1>1, <1>4, <2>2
<1> QED
  BY <1>5

\* A driver's score is an integer.
LEMMA ScoreIsNumber ==
    ASSUME NEW d \in Driver
    PROVE  Score(d) \in Int
<1>1. d.distance \in Nat /\ d.rating \in Int /\ d.vehicle \in {"car", "motorcycle", "bicycle"}
  BY DEF Driver
<1>2. AtLeastZero(10000 - d.distance) \in Int /\ AtLeastZero(10000 - 2 * d.distance) \in Int
  BY <1>1 DEF AtLeastZero
<1> HIDE DEF AtLeastZero
<1> QED
  BY <1>1, <1>2 DEF Score

\* The short list's order: no two drivers are equal in it.
LEMMA BeforeOrders ==
    ASSUME NEW fleet \in Seq(Driver)
    PROVE  /\ \A i \in DOMAIN fleet : ~ Before(fleet, i, i)
           /\ \A i, j \in DOMAIN fleet : ~ (Before(fleet, i, j) /\ Before(fleet, j, i))
           /\ \A i, j \in DOMAIN fleet : i # j => Before(fleet, i, j) \/ Before(fleet, j, i)
           /\ \A i, j, k \in DOMAIN fleet :
                Before(fleet, i, j) /\ Before(fleet, j, k) => Before(fleet, i, k)
<1>1. \A i \in DOMAIN fleet : /\ i \in Nat /\ Score(fleet[i]) \in Int
                              /\ fleet[i].distance \in Nat
  <2>1. \A i \in DOMAIN fleet : i \in Nat /\ fleet[i] \in Driver
    OBVIOUS
  <2> QED
    BY <2>1, ScoreIsNumber DEF Driver
<1> QED
  BY <1>1 DEF Before

\* What a fleet has in reach is finite, and so is whoever is ahead of a driver.
LEMMA ReachableFinite ==
    ASSUME NEW fleet \in Seq(Driver)
    PROVE  /\ Reachable(fleet) \subseteq DOMAIN fleet /\ IsFiniteSet(Reachable(fleet))
           /\ \A i \in DOMAIN fleet : /\ IsFiniteSet(Ahead(fleet, i))
                                      /\ Cardinality(Ahead(fleet, i)) \in Nat
<1>1. IsFiniteSet(1 .. Len(fleet)) /\ DOMAIN fleet = 1 .. Len(fleet)
  BY FS_Interval
<1>2. Reachable(fleet) \in SUBSET DOMAIN fleet
  BY DEF Reachable
<1>3. IsFiniteSet(Reachable(fleet))
  BY <1>1, <1>2, FS_Subset
<1>4. \A i \in DOMAIN fleet : Ahead(fleet, i) \in SUBSET Reachable(fleet)
  BY DEF Ahead
<1> QED
  BY <1>2, <1>3, <1>4, FS_Subset, FS_CardinalityType

\* Who is sorted before a short-listed driver is on the short list.
LEMMA ShortListIsInitial ==
    ASSUME NEW fleet \in Seq(Driver), NEW i \in FindBestDrivers(fleet),
           NEW j \in Reachable(fleet), Before(fleet, j, i)
    PROVE  j \in FindBestDrivers(fleet)
<1>1. i \in DOMAIN fleet /\ j \in DOMAIN fleet /\ Reachable(fleet) \subseteq DOMAIN fleet
  BY ReachableFinite DEF FindBestDrivers
<1>2. Ahead(fleet, j) \subseteq Ahead(fleet, i)
  BY <1>1, BeforeOrders DEF Ahead
<1>3. Cardinality(Ahead(fleet, j)) <= Cardinality(Ahead(fleet, i))
  BY <1>1, <1>2, ReachableFinite, FS_Subset
<1>4. Cardinality(Ahead(fleet, i)) < Limit
  BY DEF FindBestDrivers
<1> QED
  BY <1>1, <1>3, <1>4, ReachableFinite, AssignmentAssumption DEF FindBestDrivers

\* Any fleet whatever, as long as somebody is short-listed at all: exactly one
\* driver is chosen whenever a driver is free and near enough.
THEOREM EveryFleetServed ==
    ASSUME NEW fleet \in Seq(Driver), Limit > 0
    PROVE  AnswersOnce(fleet)
<1> DEFINE R == Reachable(fleet)
           Best == FindBestDrivers(fleet)
           chosen == {i \in DOMAIN fleet : IsAssigned(fleet, i)}
           Near(i, j) == \/ fleet[i].distance < fleet[j].distance
                         \/ fleet[i].distance = fleet[j].distance /\ Before(fleet, i, j)
<1>1. R \subseteq DOMAIN fleet /\ Best \subseteq R /\ IsFiniteSet(R) /\ IsFiniteSet(Best)
  <2>1. Best \in SUBSET R
    BY DEF FindBestDrivers
  <2> QED
    BY <2>1, ReachableFinite, FS_Subset
<1>2. \A i \in DOMAIN fleet : fleet[i].distance \in Nat
  <2>1. \A i \in DOMAIN fleet : fleet[i] \in Driver
    OBVIOUS
  <2> QED
    BY <2>1 DEF Driver
<1>3. /\ \A i \in Best : ~ Near(i, i)
      /\ \A i, j \in Best : ~ (Near(i, j) /\ Near(j, i))
      /\ \A i, j \in Best : i # j => Near(i, j) \/ Near(j, i)
      /\ \A i, j, k \in Best : Near(i, j) /\ Near(j, k) => Near(i, k)
  <2>1. \A i \in Best : i \in DOMAIN fleet /\ fleet[i].distance \in Nat
    BY <1>1, <1>2
  <2> QED
    BY <2>1, BeforeOrders
<1>4. chosen = {i \in Best : \A j \in Best \ {i} : Near(i, j)}
  BY <1>1 DEF IsAssigned
<1>5. \A i, j \in chosen : i = j
  BY <1>3, <1>4
<1>6. CASE R = {}
  <2>1. chosen = {}
    BY <1>1, <1>4, <1>6
  <2>2. Cardinality(chosen) = 0
    BY <2>1, FS_EmptySet
  <2> QED
    BY <1>6, <2>1, <2>2 DEF AnswersOnce
<1>7. CASE R # {}
  <2>1. Best # {}
    <3> DEFINE lt == {q \in R \X R : Before(fleet, q[1], q[2])}
    <3>1. /\ \A x \in R : <<x, x>> \notin lt
          /\ \A x, y, z \in R : <<x, y>> \in lt /\ <<y, z>> \in lt => <<x, z>> \in lt
      BY <1>1, BeforeOrders
    <3>2. PICK x \in R : \A y \in R : <<y, x>> \notin lt
      <4> HIDE DEF R, lt
      <4> QED
        BY <1>1, <1>7, <3>1, FirstElement
    <3>3. Ahead(fleet, x) = {}
      BY <3>2 DEF Ahead
    <3>4. Cardinality(Ahead(fleet, x)) = 0
      BY <3>3, FS_EmptySet
    <3> QED
      BY <3>2, <3>4 DEF FindBestDrivers
  <2>2. chosen # {}
    <3> DEFINE lt == {q \in Best \X Best : Near(q[1], q[2])}
    <3>1. /\ \A x \in Best : <<x, x>> \notin lt
          /\ \A x, y, z \in Best : <<x, y>> \in lt /\ <<y, z>> \in lt => <<x, z>> \in lt
      BY <1>3
    <3>2. PICK x \in Best : \A y \in Best : <<y, x>> \notin lt
      <4> HIDE DEF Best, lt
      <4> QED
        BY <1>1, <2>1, <3>1, FirstElement
    <3>3. \A y \in Best \ {x} : Near(x, y)
      BY <1>3, <3>2
    <3> QED
      BY <1>4, <3>3
  <2>3. PICK i \in chosen : chosen = {i}
    BY <1>5, <2>2
  <2>4. Cardinality(chosen) = 1
    BY <2>3, FS_Singleton
  <2>5. Undominated(fleet, i)
    <3> SUFFICES ASSUME NEW j \in R, fleet[j].distance < fleet[i].distance, Before(fleet, j, i)
                 PROVE  FALSE
      BY DEF Undominated
    <3>1. i \in Best /\ \A k \in Best \ {i} : Near(i, k)
      BY <1>4
    <3>2. j \in Best
      BY <3>1, ShortListIsInitial
    <3> QED
      BY <1>1, <1>2, <3>1, <3>2
  <2> QED
    BY <1>7, <2>3, <2>4, <2>5 DEF AnswersOnce
<1> QED
  BY <1>6, <1>7

-----------------------------------------------------------------------------
(* Tracking.                                                               *)

\* A location in memory is the last its driver reported: what is stored is a
\* report that arrived, hence no newer.
MemoryIsNewest ==
    \A r \in 1..Len(arrived) :
        memory[DriverOf(r)] # 0 => r <= memory[DriverOf(r)]

RowsArrived == Elements(rows) \subseteq 1..Len(arrived)

IInv == TypeOK /\ NothingForgotten /\ MemoryIsNewest /\ RowsArrived

Arrivals == [driver : Drivers, route : Routes]
Places == {"ahead", "lookup", "save", "accepted", "refused"}

-----------------------------------------------------------------------------
\* What the operations on batches do to the reports in them.

\* One more report.
LEMMA ElementsOfAppend ==
    ASSUME NEW S, NEW s \in Seq(S), NEW x \in S
    PROVE  Append(s, x) \in Seq(S) /\ Elements(Append(s, x)) = Elements(s) \cup {x}
<1> DEFINE t == Append(s, x)
<1>1. /\ t \in Seq(S) /\ Len(s) \in Nat /\ Len(t) = Len(s) + 1
      /\ \A i \in 1..Len(s) : t[i] = s[i]
      /\ t[Len(s) + 1] = x
  OBVIOUS
<1> HIDE DEF t
<1>2. Elements(t) \subseteq Elements(s) \cup {x}
  <2> SUFFICES ASSUME NEW i \in 1..Len(t) PROVE t[i] \in Elements(s) \cup {x}
    BY DEF Elements
  <2>1. i \in 1..Len(s) \/ i = Len(s) + 1
    BY <1>1
  <2> QED
    BY <1>1, <2>1 DEF Elements
<1>3. Elements(s) \cup {x} \subseteq Elements(t)
  <2>1. ASSUME NEW i \in 1..Len(s) PROVE s[i] \in Elements(t)
    <3>1. i \in 1..Len(t) /\ t[i] = s[i]
      BY <1>1
    <3> QED
      BY <3>1 DEF Elements
  <2>2. x \in Elements(t)
    <3>1. Len(s) + 1 \in 1..Len(t)
      BY <1>1
    <3> QED
      BY <1>1, <3>1 DEF Elements
  <2> QED
    BY <2>1, <2>2 DEF Elements
<1> QED
  BY <1>1, <1>2, <1>3 DEF t

\* Two batches made one.
LEMMA ElementsOfConcat ==
    ASSUME NEW S, NEW s \in Seq(S), NEW u \in Seq(S)
    PROVE  s \o u \in Seq(S) /\ Elements(s) \cup Elements(u) \subseteq Elements(s \o u)
<1> DEFINE t == s \o u
<1>1. /\ t \in Seq(S) /\ Len(s) \in Nat /\ Len(u) \in Nat /\ Len(t) = Len(s) + Len(u)
      /\ \A i \in 1..Len(s) : t[i] = s[i]
      /\ \A i \in 1..Len(u) : t[Len(s) + i] = u[i]
  OBVIOUS
<1> HIDE DEF t
<1>2. ASSUME NEW i \in 1..Len(s) PROVE s[i] \in Elements(t)
  <2>1. i \in 1..Len(t) /\ t[i] = s[i]
    BY <1>1
  <2> QED
    BY <2>1 DEF Elements
<1>3. ASSUME NEW i \in 1..Len(u) PROVE u[i] \in Elements(t)
  <2>1. Len(s) + i \in 1..Len(t) /\ t[Len(s) + i] = u[i]
    BY <1>1
  <2> QED
    BY <2>1 DEF Elements
<1>4. Elements(s) \cup Elements(u) \subseteq Elements(t)
  BY <1>2, <1>3 DEF Elements
<1> QED
  BY <1>1, <1>4 DEF t

\* The empty batch.
LEMMA NoElements == Elements(<<>>) = {}
<1> QED
  BY DEF Elements

\* An arrival is of one of the drivers.
LEMMA ArrivalsAreDrivers ==
    ASSUME NEW q \in Seq(Arrivals), NEW i \in 1..Len(q)
    PROVE  q[i].driver \in Drivers
<1>1. q[i] \in Arrivals
  OBVIOUS
<1> QED
  BY <1>1 DEF Arrivals

-----------------------------------------------------------------------------
\* The invariant is inductive.

\* The invariant holds before any report.
LEMMA InitInv == Init => IInv
<1> SUFFICES ASSUME Init PROVE IInv
  OBVIOUS
<1>1. /\ arrived = <<>> /\ Len(arrived) = 0
      /\ batch \in Seq(Reports) /\ rows = <<>> /\ rows \in Seq(Reports)
      /\ arrived \in Seq(Arrivals)
  BY DEF Init
<1>2. TypeOK
  BY <1>1, TrackingAssumption DEF Init, TypeOK, Reports, Arrivals
<1> QED
  BY <1>1, <1>2, NoElements
  DEF IInv, NothingForgotten, MemoryIsNewest, RowsArrived

\* A step that takes in no report and leaves memory as it is, or poorer, and
\* rows alone.
LEMMA QuietInv ==
    ASSUME IInv, UNCHANGED <<arrived, rows>>,
           place' \in [Reports -> Places],
           \A r \in Reports : place'[r] = "ahead" <=> place[r] = "ahead",
           memory' \in [Drivers -> 0..MaxReports],
           \A d \in Drivers : memory'[d] \in {0, memory[d]},
           batch' \in Seq(Reports), pushing' \subseteq Seq(Reports),
           jobs' \subseteq Seq(Reports), faults' \in 0..MaxFaults,
           lost' \subseteq Reports,
           Elements(batch) \cup In(pushing) \cup In(jobs) \cup lost
               \subseteq Elements(batch') \cup In(pushing') \cup In(jobs') \cup lost'
    PROVE  IInv'
<1>1. TypeOK'
  BY DEF IInv, TypeOK, Places
<1>2. NothingForgotten'
  BY DEF IInv, NothingForgotten
<1>3. MemoryIsNewest'
  <2> SUFFICES ASSUME NEW r \in 1..Len(arrived), memory'[DriverOf(r)] # 0
               PROVE  r <= memory'[DriverOf(r)]
    BY DEF MemoryIsNewest, DriverOf
  <2>0. arrived \in Seq(Arrivals)
    BY DEF IInv, TypeOK, Arrivals
  <2>1. DriverOf(r) \in Drivers
    BY <2>0, ArrivalsAreDrivers DEF DriverOf
  <2> QED
    BY <2>1 DEF IInv, MemoryIsNewest
<1>4. RowsArrived'
  BY DEF IInv, RowsArrived
<1> QED
  BY <1>1, <1>2, <1>3, <1>4 DEF IInv

\* A report arrives: in memory and in the batch at once.
LEMMA ProcessLocationUpdateInv ==
    ASSUME IInv, NEW d \in Drivers, NEW route \in Routes, NEW named \in BOOLEAN,
           ProcessLocationUpdate(d, route, named)
    PROVE  IInv'
<1> DEFINE r == Len(arrived) + 1
           a == [driver |-> d, route |-> route]
<1>1. /\ arrived \in Seq(Arrivals) /\ a \in Arrivals
      /\ r \in Reports /\ arrived' = Append(arrived, a)
      /\ memory' = [memory EXCEPT ![d] = r]
      /\ AddToBatch(r)
      /\ UNCHANGED <<jobs, rows, faults, lost>>
  BY DEF ProcessLocationUpdate, UpdateInMemoryLocation, IInv, TypeOK, Arrivals
<1>2. /\ Len(arrived) \in Nat /\ Len(arrived') = r /\ arrived' \in Seq(Arrivals)
      /\ \A i \in 1..Len(arrived) : arrived'[i] = arrived[i]
      /\ arrived'[r] = a
  BY <1>1
<1>3. /\ r <= MaxReports /\ r \in 0..MaxReports /\ MaxReports \in Nat
      /\ \A i \in Reports : i > r <=> (i > Len(arrived) /\ i # r)
      /\ \A i \in 1..r : i \in 1..Len(arrived) \/ i = r
  BY <1>1, <1>2, TrackingAssumption DEF Reports
<1>4. \E p \in Places \ {"ahead"} : place' = [place EXCEPT ![r] = p]
  BY DEF ProcessLocationUpdate, Places
<1>5. Append(batch, r) \in Seq(Reports) /\ Elements(Append(batch, r)) = Elements(batch) \cup {r}
  BY <1>1, ElementsOfAppend DEF IInv, TypeOK
<1> HIDE DEF r, a
<1>6. /\ batch' \in Seq(Reports) /\ pushing' \subseteq Seq(Reports)
      /\ Elements(batch) \cup {r} \cup In(pushing) \subseteq Elements(batch') \cup In(pushing')
  <2>1. CASE Flush(Append(batch, r))
    <3>1. batch' = <<>> /\ pushing' = pushing \cup {Append(batch, r)}
      BY <2>1 DEF Flush
    <3>2. In(pushing') = In(pushing) \cup Elements(Append(batch, r))
      BY <3>1 DEF In
    <3>3. batch' \in Seq(Reports) /\ pushing \subseteq Seq(Reports)
      BY <3>1 DEF IInv, TypeOK
    <3> QED
      BY <1>5, <3>1, <3>2, <3>3
  <2>2. CASE Keep(Append(batch, r))
    BY <1>5, <2>2 DEF Keep, IInv, TypeOK
  <2> QED
    BY <1>1, <2>1, <2>2 DEF AddToBatch
<1>7. TypeOK'
  <2>1. place' \in [Reports -> Places]
    BY <1>4 DEF IInv, TypeOK, Places
  <2>2. ASSUME NEW i \in Reports PROVE place'[i] = "ahead" <=> i > Len(arrived')
    <3>1. place[i] = "ahead" <=> i > Len(arrived)
      BY DEF IInv, TypeOK
    <3>2. place'[i] = "ahead" <=> (place[i] = "ahead" /\ i # r)
      BY <1>4 DEF IInv, TypeOK
    <3> QED
      BY <1>2, <1>3, <3>1, <3>2
  <2>3. memory' \in [Drivers -> 0..MaxReports]
    BY <1>1, <1>3 DEF IInv, TypeOK
  <2> QED
    BY <1>1, <1>2, <1>3, <1>6, <2>1, <2>2, <2>3 DEF IInv, TypeOK, Places, Arrivals
<1>8. NothingForgotten'
  BY <1>1, <1>2, <1>3, <1>6 DEF IInv, NothingForgotten
<1>9. MemoryIsNewest'
  <2> SUFFICES ASSUME NEW i \in 1..Len(arrived'), memory'[arrived'[i].driver] # 0
               PROVE  i <= memory'[arrived'[i].driver]
    BY DEF MemoryIsNewest, DriverOf
  <2>1. CASE i = r
    <3>1. arrived'[i].driver = d
      BY <1>2, <2>1 DEF a
    <3> QED
      BY <1>1, <1>2, <2>1, <3>1 DEF IInv, TypeOK
  <2>2. CASE i \in 1..Len(arrived)
    <3>1. arrived'[i].driver = DriverOf(i) /\ DriverOf(i) \in Drivers
      BY <1>1, <1>2, <2>2, ArrivalsAreDrivers DEF DriverOf
    <3>2. CASE DriverOf(i) = d
      BY <1>1, <1>2, <1>3, <2>2, <3>1, <3>2 DEF IInv, TypeOK
    <3>3. CASE DriverOf(i) # d
      <4>1. memory'[DriverOf(i)] = memory[DriverOf(i)]
        BY <1>1, <3>1, <3>3 DEF IInv, TypeOK
      <4> QED
        BY <2>2, <3>1, <4>1 DEF IInv, MemoryIsNewest
    <3> QED
      BY <3>2, <3>3
  <2> QED
    BY <1>2, <1>3, <2>1, <2>2
<1>10. RowsArrived'
  BY <1>1, <1>2, <1>3 DEF IInv, RowsArrived
<1> QED
  BY <1>7, <1>8, <1>9, <1>10 DEF IInv

\* A row is written with a report that arrived.
LEMMA SaveLocationInv == ASSUME IInv, NEW r \in Reports, SaveLocation(r) PROVE IInv'
<1>1. /\ rows \in Seq(Reports) /\ rows' = Append(rows, r) /\ place[r] = "save"
      /\ place' = [place EXCEPT ![r] = "accepted"]
      /\ UNCHANGED <<arrived, memory, batch, pushing, jobs, faults, lost>>
  BY DEF SaveLocation, IInv, TypeOK
<1>2. rows' \in Seq(Reports) /\ Elements(rows') = Elements(rows) \cup {r}
  BY <1>1, ElementsOfAppend
<1>3. r \in 1..Len(arrived)
  <2>1. Len(arrived) \in Nat /\ ~ (r > Len(arrived)) /\ r \in 1..MaxReports
    BY <1>1 DEF IInv, TypeOK, Reports
  <2> QED
    BY <2>1, TrackingAssumption
<1>4. TypeOK'
  BY <1>1, <1>2 DEF IInv, TypeOK
<1> QED
  BY <1>1, <1>2, <1>3, <1>4 DEF IInv, NothingForgotten, MemoryIsNewest, RowsArrived, DriverOf

\* What dies with the process is remembered as lost.
LEMMA RestartInv == ASSUME IInv, Restart PROVE IInv'
<1>1. faults' \in 0..MaxFaults
  <2>1. faults \in 0..MaxFaults /\ faults < MaxFaults /\ faults' = faults + 1
    BY DEF Restart, IInv, TypeOK
  <2> QED
    BY <2>1, TrackingAssumption
<1>2. PICK saved \in SUBSET (pushing \cup {batch}) :
         /\ jobs' = jobs \cup (saved \ {<<>>})
         /\ lost' = lost \cup ((In(pushing) \cup Elements(batch)) \ In(saved))
  BY DEF Restart
<1>3. /\ pushing \subseteq Seq(Reports) /\ batch \in Seq(Reports)
      /\ jobs \subseteq Seq(Reports) /\ lost \subseteq Reports
  BY DEF IInv, TypeOK
<1>4. \A s \in Seq(Reports) : Elements(s) \subseteq Reports
  BY DEF Elements
<1>5. In(saved) = In(saved \ {<<>>})
  BY NoElements DEF In
<1>6. In(jobs') = In(jobs) \cup In(saved)
  BY <1>2, <1>5 DEF In
<1>7. In(pushing) \cup Elements(batch) \subseteq Reports
  BY <1>3, <1>4 DEF In
<1>8. jobs' \subseteq Seq(Reports) /\ lost' \subseteq Reports
  BY <1>2, <1>3, <1>7
<1>9. Elements(batch) \cup In(pushing) \cup In(jobs) \cup lost \subseteq In(jobs') \cup lost'
  BY <1>2, <1>6
<1>10. /\ place' \in [Reports -> Places]
       /\ \A r \in Reports : place'[r] = "ahead" <=> place[r] = "ahead"
  BY DEF Restart, IInv, TypeOK, Places
<1>11. /\ UNCHANGED <<arrived, rows>> /\ memory' = [d \in Drivers |-> 0]
       /\ batch' = <<>> /\ pushing' = {}
  BY DEF Restart
<1>12. /\ memory' \in [Drivers -> 0..MaxReports] /\ \A d \in Drivers : memory'[d] \in {0, memory[d]}
       /\ batch' \in Seq(Reports) /\ pushing' \subseteq Seq(Reports)
  BY <1>11, TrackingAssumption
<1> QED
  BY <1>1, <1>8, <1>9, <1>10, <1>11, <1>12, QuietInv

\* Every step keeps the invariant.
LEMMA NextInv == IInv /\ [Next]_vars => IInv'
<1> SUFFICES ASSUME IInv, [Next]_vars PROVE IInv'
  OBVIOUS
<1>0. /\ place \in [Reports -> Places] /\ memory \in [Drivers -> 0..MaxReports]
      /\ batch \in Seq(Reports) /\ pushing \subseteq Seq(Reports)
      /\ jobs \subseteq Seq(Reports) /\ faults \in 0..MaxFaults /\ lost \subseteq Reports
  BY DEF IInv, TypeOK, Places
<1>a. faults < MaxFaults /\ faults' = faults + 1 => faults' \in 0..MaxFaults
  BY <1>0, TrackingAssumption
<1>1. ASSUME NEW d \in Drivers, NEW route \in Routes, NEW named \in BOOLEAN,
             ProcessLocationUpdate(d, route, named)
      PROVE  IInv'
  BY <1>1, ProcessLocationUpdateInv
<1>2. ASSUME NEW r \in Reports, Looked(r) PROVE IInv'
  <2>1. /\ place' \in [Reports -> Places]
        /\ \A i \in Reports : place'[i] = "ahead" <=> place[i] = "ahead"
    BY <1>0, <1>2 DEF Looked, Places
  <2> QED
    BY <1>0, <1>2, <2>1, QuietInv DEF Looked
<1>3. ASSUME NEW r \in Reports, SaveLocation(r) PROVE IInv'
  BY <1>3, SaveLocationInv
<1>4. ASSUME NEW r \in Reports, HandlerFails(r) PROVE IInv'
  <2>1. /\ place' \in [Reports -> Places]
        /\ \A i \in Reports : place'[i] = "ahead" <=> place[i] = "ahead"
    BY <1>0, <1>4 DEF HandlerFails, Places
  <2> QED
    BY <1>0, <1>a, <1>4, <2>1, QuietInv DEF HandlerFails
<1>5. CASE ProcessBatch
  <2>1. /\ batch' = <<>> /\ pushing' = pushing \cup {batch}
        /\ UNCHANGED <<arrived, place, memory, jobs, rows, faults, lost>>
    BY <1>5 DEF ProcessBatch, Flush
  <2>2. /\ batch' \in Seq(Reports) /\ pushing' \subseteq Seq(Reports)
        /\ In(pushing') = In(pushing) \cup Elements(batch)
    BY <1>0, <2>1 DEF In
  <2> QED
    BY <1>0, <2>1, <2>2, QuietInv
<1>6. ASSUME NEW b \in pushing, Queued(b) PROVE IInv'
  <2>1. /\ pushing' = pushing \ {b} /\ jobs' = jobs \cup {b}
        /\ UNCHANGED <<arrived, place, memory, batch, rows, faults, lost>>
    BY <1>6 DEF Queued
  <2>2. /\ pushing' \subseteq Seq(Reports) /\ jobs' \subseteq Seq(Reports)
        /\ In(pushing) \cup In(jobs) \subseteq In(pushing') \cup In(jobs')
    BY <1>0, <2>1 DEF In
  <2> QED
    BY <1>0, <2>1, <2>2, QuietInv
<1>7. ASSUME NEW b \in pushing, QueueFails(b) PROVE IInv'
  <2>1. /\ pushing' = pushing \ {b} /\ batch' = b \o batch
        /\ jobs' = jobs \/ jobs' = jobs \cup {b}
        /\ UNCHANGED <<arrived, place, memory, rows, lost>>
        /\ faults' \in 0..MaxFaults
    BY <1>7, <1>a DEF QueueFails
  <2>2. batch' \in Seq(Reports) /\ Elements(b) \cup Elements(batch) \subseteq Elements(batch')
    BY <1>0, <2>1, ElementsOfConcat
  <2>3. /\ pushing' \subseteq Seq(Reports) /\ jobs' \subseteq Seq(Reports)
        /\ In(pushing) \subseteq In(pushing') \cup Elements(b)
        /\ In(jobs) \subseteq In(jobs')
    BY <1>0, <2>1 DEF In
  <2> QED
    BY <1>0, <2>1, <2>2, <2>3, QuietInv
<1>8. ASSUME NEW d \in Drivers, Expire(d) PROVE IInv'
  <2>1. /\ memory' \in [Drivers -> 0..MaxReports]
        /\ \A e \in Drivers : memory'[e] \in {0, memory[e]}
    BY <1>0, <1>8, TrackingAssumption DEF Expire
  <2> QED
    BY <1>0, <1>8, <2>1, QuietInv DEF Expire
<1>9. CASE Restart
  BY <1>9, RestartInv
<1>10. CASE UNCHANGED vars
  BY <1>0, <1>10, QuietInv DEF vars
<1> QED
  BY <1>1, <1>2, <1>3, <1>4, <1>5, <1>6, <1>7, <1>8, <1>9, <1>10 DEF Next

\* The invariant holds of every reachable state.
LEMMA Invariance == Spec => []IInv
<1> QED
  BY InitInv, NextInv, PTL DEF Spec

-----------------------------------------------------------------------------

\* In every reachable state every variable has its type, and only reports that
\* have arrived are being handled.
THEOREM TypeCorrect == Spec => []TypeOK
<1>1. IInv => TypeOK
  BY DEF IInv
<1> QED
  BY <1>1, Invariance, PTL

\* Every report that has arrived is in the batch, on its way to the queue, in it,
\* or was lost with a process (addToBatch, processBatch and its retry).
THEOREM ReportsAreKept == Spec => []NothingForgotten
<1>1. IInv => NothingForgotten
  BY DEF IInv
<1> QED
  BY <1>1, Invariance, PTL

\* The location getDriverLocation prefers arrived no earlier than any that
\* saveLocation has stored.
THEOREM MemoryIsAhead == Spec => []MemoryAheadOfRows
<1>1. IInv => MemoryAheadOfRows
  BY DEF IInv, RowsArrived, MemoryIsNewest, MemoryAheadOfRows
<1> QED
  BY <1>1, Invariance, PTL

=============================================================================
