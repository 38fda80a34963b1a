----------------------------- MODULE Loops_proofs ----------------------------
(***************************************************************************)
(* Loops whose end is not a count in their head.                           *)
(*                                                                         *)
(* Whatever is snapped to whatever edges, rtt_tpsnap moves no end of a     *)
(* line, puts in nothing but vertices of the topology, removes none of     *)
(* them again, and what it has left when iterating has settled.  For every *)
(* point array, also one with equal points, every tolerance and every      *)
(* number of points to keep, the loop of ptarray_simplify stays within its *)
(* stack and implements Thinning.  Whatever the sizes of buffers and       *)
(* appends are, what is written past the end of a byte buffer is never     *)
(* more than one varint exceeds the room that bytebuffer_append_varint     *)
(* makes for it; zigzagging what is written loses nothing and keeps small  *)
(* numbers small.                                                          *)
(***************************************************************************)
EXTENDS TpSnap, SimplifyLoop, ByteBuffer, Varint, PlanarGeometry_proofs, FiniteSetTheorems

-----------------------------------------------------------------------------
(* Snapping: the first of the nearest.                                     *)

\* A total order of a finite set has a first element.
LEMMA FirstExists ==
  ASSUME NEW S, IsFiniteSet(S), S # {}, NEW R,
         \A x, y \in S : <<x, y>> \in R \/ <<y, x>> \in R,
         \A x, y, z \in S : <<x, y>> \in R /\ <<y, z>> \in R => <<x, z>> \in R
  PROVE  \E m \in S : \A x \in S : <<m, x>> \in R
<1> DEFINE has(T) == \E m \in T : \A x \in T : <<m, x>> \in R
           sizes == {k \in Nat : \E T \in SUBSET S : T # {} /\ Cardinality(T) = k /\ ~ has(T)}
<1>1. ASSUME sizes # {} PROVE FALSE
  <2>1. PICK k \in sizes : \A j \in sizes : k <= j
    <3>1. sizes \in SUBSET Nat
      OBVIOUS
    <3> QED BY <1>1, <3>1, LeastNumber
  <2>2. PICK T \in SUBSET S : T # {} /\ Cardinality(T) = k /\ ~ has(T)
    BY <2>1
  <2>3. PICK t \in T : TRUE
    BY <2>2
  <2> DEFINE U == T \ {t}
  <2>4. IsFiniteSet(T)
    BY FS_Subset
  <2>5. Cardinality(U) = k - 1 /\ Cardinality(U) \in Nat
    BY <2>2, <2>3, <2>4, FS_RemoveElement, FS_CardinalityType
  <2>6. k - 1 \notin sizes
    BY <2>1
  <2>7. U = {} \/ has(U)
    BY <2>5, <2>6
  <2>8. <<t, t>> \in R
    BY <2>3
  <2>9. CASE U = {}
    BY <2>2, <2>3, <2>8, <2>9
  <2>10. CASE has(U)
    <3>1. PICK m \in U : \A x \in U : <<m, x>> \in R
      BY <2>10
    <3>2. CASE <<m, t>> \in R
      <4>1. \A x \in T : <<m, x>> \in R
        BY <3>1, <3>2
      <4> QED BY <2>2, <3>1, <4>1
    <3>3. CASE <<t, m>> \in R
      <4>1. \A x \in U : <<t, x>> \in R
        BY <2>3, <3>1, <3>3
      <4>2. \A x \in T : <<t, x>> \in R
        BY <2>8, <4>1
      <4> QED BY <2>2, <2>3, <4>2
    <3> QED BY <2>3, <3>1, <3>2, <3>3
  <2> QED BY <2>7, <2>9, <2>10
<1>2. Cardinality(S) \in Nat
  BY FS_CardinalityType
<1>3. has(S)
  BY <1>1, <1>2
<1> QED BY <1>3

\* The values of a function on a finite set.
LEMMA FiniteImage ==
  ASSUME NEW f, IsFiniteSet(DOMAIN f)
  PROVE  IsFiniteSet({f[x] : x \in DOMAIN f})
<1> DEFINE T == {f[x] : x \in DOMAIN f}
           g == [x \in DOMAIN f |-> f[x]]
<1>1. g \in Surjection(DOMAIN f, T)
  <2>1. g \in [DOMAIN f -> T]
    OBVIOUS
  <2>2. \A y \in T : \E x \in DOMAIN f : g[x] = y
    OBVIOUS
  <2> HIDE DEF g, T
  <2> QED BY <2>1, <2>2 DEF Surjection
<1> HIDE DEF g
<1> QED BY <1>1, FS_Surjection

-----------------------------------------------------------------------------
(* Snapping: distances as fractions.                                       *)

Fractions == [num : Nat, den : Nat \ {0}]

LEMMA ProductsGrow ==
  ASSUME NEW a \in Nat, NEW b \in Nat, NEW c \in Nat, a <= b
  PROVE  a * c <= b * c /\ a * c \in Nat /\ b * c \in Nat
OBVIOUS

LEMMA FactorsGrow ==
  ASSUME NEW a \in Int, NEW b \in Int, NEW c \in Nat \ {0}, a * c <= b * c
  PROVE  a <= b
<1>1. CASE a <= b
  BY <1>1
<1>2. CASE b + 1 <= a
  <2>1. b * c + c = (b + 1) * c
    OBVIOUS
  <2>2. (b + 1) * c <= a * c
    BY <1>2
  <2> QED BY <2>1, <2>2
<1> QED BY <1>1, <1>2

\* Not being nearer is a total preorder.
LEMMA NearerOrders ==
  /\ \A d, e \in Fractions : ~ Nearer(d, e) \/ ~ Nearer(e, d)
  /\ \A d, e, f \in Fractions : ~ Nearer(e, d) /\ ~ Nearer(f, e) => ~ Nearer(f, d)
<1>1. ASSUME NEW d \in Fractions, NEW e \in Fractions PROVE ~ Nearer(d, e) \/ ~ Nearer(e, d)
  <2>1. d.num * e.den \in Nat /\ e.num * d.den \in Nat
    BY DEF Fractions
  <2> QED BY <2>1 DEF Nearer
<1>2. ASSUME NEW d \in Fractions, NEW e \in Fractions, NEW f \in Fractions,
             ~ Nearer(e, d), ~ Nearer(f, e)
      PROVE  ~ Nearer(f, d)
  <2> DEFINE a == d.num  u == d.den  b == e.num  v == e.den  c == f.num  w == f.den
  <2>1. a \in Nat /\ b \in Nat /\ c \in Nat /\ u \in Nat \ {0} /\ v \in Nat \ {0} /\ w \in Nat \ {0}
    BY DEF Fractions
  <2>2. ~ (b * u < a * v) /\ ~ (c * v < b * w)
    BY <1>2 DEF Nearer
  <2> SUFFICES ~ (c * u < a * w)
    BY DEF Nearer
  <2> HIDE DEF a, b, c, u, v, w
  <2>3. a * v <= b * u /\ b * w <= c * v
    <3>1. a * v \in Nat /\ b * u \in Nat /\ b * w \in Nat /\ c * v \in Nat
      BY <2>1
    <3> QED BY <2>2, <3>1
  <2>4. (a * v) * w <= (b * u) * w
    <3>1. a * v \in Nat /\ b * u \in Nat
      BY <2>1
    <3> QED BY <2>1, <2>3, <3>1, ProductsGrow
  <2>5. (b * w) * u <= (c * v) * u
    <3>1. b * w \in Nat /\ c * v \in Nat
      BY <2>1
    <3> QED BY <2>1, <2>3, <3>1, ProductsGrow
  <2>6. (a * v) * w = (a * w) * v /\ (b * u) * w = (b * w) * u /\ (c * v) * u = (c * u) * v
    BY <2>1
  <2>7. a * w \in Nat /\ c * u \in Nat
    BY <2>1
  <2>8. (a * w) * v <= (c * u) * v
    <3>1. (a * w) * v \in Nat /\ (b * w) * u \in Nat /\ (c * u) * v \in Nat
      BY <2>1
    <3> QED BY <2>4, <2>5, <2>6, <3>1
  <2>9. a * w <= c * u
    BY <2>1, <2>7, <2>8, FactorsGrow
  <2> QED BY <2>7, <2>9
<1> QED BY <1>1, <1>2

LEMMA SquareIsNat == \A n \in Int : n * n \in Nat
OBVIOUS

LEMMA LengthIsNat ==
  ASSUME NEW a \in Point, NEW b \in Point
  PROVE  LengthSq(a, b) \in Nat /\ Dot(a, b, a) \in Int
<1>1. a[1] \in Int /\ a[2] \in Int /\ b[1] \in Int /\ b[2] \in Int
  BY DEF Point
<1>2. b[1] - a[1] \in Int /\ b[2] - a[2] \in Int
  BY <1>1
<1>3. (b[1] - a[1]) * (b[1] - a[1]) \in Nat /\ (b[2] - a[2]) * (b[2] - a[2]) \in Nat
  BY <1>2, SquareIsNat
<1>4. Dot(a, b, a) \in Int
  BY <1>1 DEF Dot
<1> QED BY <1>3, <1>4 DEF LengthSq

LEMMA DistanceIsFraction ==
  ASSUME NEW p \in Point, NEW a \in Point, NEW b \in Point
  PROVE  DistanceSq(p, a, b) \in Fractions
<1>1. LengthSq(a, b) \in Nat /\ LengthSq(p, a) \in Nat /\ LengthSq(p, b) \in Nat
  BY LengthIsNat
<1>2. Cross(a, b, p) * Cross(a, b, p) \in Nat
  BY CrossIsInt, SquareIsNat
<1>3. CASE LengthSq(a, b) = 0 \/ Dot(p, a, b) <= 0
  <2>1. DistanceSq(p, a, b) = [num |-> LengthSq(p, a), den |-> 1]
    BY <1>3 DEF DistanceSq
  <2> QED BY <1>1, <2>1 DEF Fractions
<1>4. CASE ~ (LengthSq(a, b) = 0 \/ Dot(p, a, b) <= 0) /\ Dot(p, a, b) >= LengthSq(a, b)
  <2>1. DistanceSq(p, a, b) = [num |-> LengthSq(p, b), den |-> 1]
    BY <1>4 DEF DistanceSq
  <2> QED BY <1>1, <2>1 DEF Fractions
<1>5. CASE ~ (LengthSq(a, b) = 0 \/ Dot(p, a, b) <= 0) /\ ~ (Dot(p, a, b) >= LengthSq(a, b))
  <2>1. DistanceSq(p, a, b) = [num |-> Cross(a, b, p) * Cross(a, b, p), den |-> LengthSq(a, b)]
    BY <1>5 DEF DistanceSq
  <2> QED BY <1>1, <1>2, <1>5, <2>1 DEF Fractions
<1> QED BY <1>3, <1>4, <1>5

\* There is a first of the nearest among finitely many distances.
LEMMA FirstNearestIsOne ==
  ASSUME NEW dist, IsFiniteSet(DOMAIN dist), DOMAIN dist # {}, DOMAIN dist \subseteq Nat,
         \A i \in DOMAIN dist : dist[i] \in Fractions
  PROVE  /\ FirstNearest(dist) \in DOMAIN dist
         /\ \A j \in DOMAIN dist : ~ Nearer(dist[j], dist[FirstNearest(dist)])
<1> DEFINE S == DOMAIN dist
           ahead(i, j) == /\ ~ Nearer(dist[j], dist[i])
                          /\ j < i => Nearer(dist[i], dist[j])
           R == {x \in S \X S : ahead(x[1], x[2])}
<1>1. \A i, j \in S : <<i, j>> \in R <=> ahead(i, j)
  OBVIOUS
<1>2. ASSUME NEW i \in S, NEW j \in S PROVE ahead(i, j) \/ ahead(j, i)
  <2>1. ~ Nearer(dist[i], dist[j]) \/ ~ Nearer(dist[j], dist[i])
    BY NearerOrders
  <2>2. i \in Nat /\ j \in Nat
    OBVIOUS
  <2> QED BY <2>1, <2>2
<1>3. ASSUME NEW i \in S, NEW j \in S, NEW k \in S, ahead(i, j), ahead(j, k) PROVE ahead(i, k)
  <2>1. ~ Nearer(dist[k], dist[i])
    BY <1>3, NearerOrders
  <2>2. ASSUME k < i, ~ Nearer(dist[i], dist[k]) PROVE FALSE
    <3>1. ~ Nearer(dist[i], dist[j])
      BY <1>3, <2>2, NearerOrders
    <3>2. ~ Nearer(dist[j], dist[k])
      BY <1>3, <2>2, NearerOrders
    <3>3. ~ (j < i) /\ ~ (k < j)
      BY <1>3, <3>1, <3>2
    <3>4. i \in Nat /\ j \in Nat /\ k \in Nat
      OBVIOUS
    <3> QED BY <2>2, <3>3, <3>4
  <2> QED BY <2>1, <2>2
<1> HIDE DEF R
<1>4. \E m \in S : \A x \in S : <<m, x>> \in R
  <2>1. \A x, y \in S : <<x, y>> \in R \/ <<y, x>> \in R
    BY <1>1, <1>2
  <2>2. \A x, y, z \in S : <<x, y>> \in R /\ <<y, z>> \in R => <<x, z>> \in R
    BY <1>1, <1>3
  <2> QED BY <2>1, <2>2, FirstExists
<1>5. \E i \in S : \A j \in S : ahead(i, j)
  BY <1>1, <1>4
<1> QED BY <1>5 DEF FirstNearest

\* The closest segment of a line is one of its segments.
LEMMA ClosestIsSegment ==
  ASSUME NEW p \in Point, NEW g \in Seq(Point), Len(g) >= 2
  PROVE  LET closest == ClosestSegment(p, g) IN
         /\ closest.segno \in 1..(Len(g) - 1) /\ closest.dist \in Fractions
         /\ closest.dist = DistanceSq(p, g[closest.segno], g[closest.segno + 1])
         /\ \A i \in 1..(Len(g) - 1) : /\ DistanceSq(p, g[i], g[i + 1]) \in Fractions
                                      /\ ~ Nearer(DistanceSq(p, g[i], g[i + 1]), closest.dist)
<1> DEFINE n == Len(g) - 1
           dist == [i \in 1..n |-> DistanceSq(p, g[i], g[i + 1])]
<1>1. n \in Nat \ {0}
  BY LenProperties
<1>2. \A i \in 1..n : g[i] \in Point /\ g[i + 1] \in Point
  <2> SUFFICES ASSUME NEW i \in 1..n PROVE g[i] \in Point /\ g[i + 1] \in Point
    OBVIOUS
  <2>1. i \in 1..Len(g) /\ i + 1 \in 1..Len(g)
    OBVIOUS
  <2> QED BY <2>1, ElementOfSeq
<1>3. \A i \in 1..n : dist[i] \in Fractions
  BY <1>2, DistanceIsFraction
<1>4. DOMAIN dist = 1..n /\ IsFiniteSet(1..n)
  BY <1>1, FS_Interval
<1>5. ClosestSegment(p, g) = [segno |-> FirstNearest(dist), dist |-> dist[FirstNearest(dist)]]
  BY DEF ClosestSegment
<1>6. \A i \in 1..n : dist[i] = DistanceSq(p, g[i], g[i + 1])
  OBVIOUS
<1> HIDE DEF n, dist
<1>7. 1 \in 1..n /\ 1..n \subseteq Nat
  BY <1>1
<1>8. /\ FirstNearest(dist) \in 1..n
      /\ \A j \in 1..n : ~ Nearer(dist[j], dist[FirstNearest(dist)])
  BY <1>3, <1>4, <1>7, FirstNearestIsOne
<1>9. dist[FirstNearest(dist)] \in Fractions
  BY <1>3, <1>8
<1> QED BY <1>3, <1>5, <1>6, <1>8, <1>9 DEF n

-----------------------------------------------------------------------------
(* Snapping: what is added.                                                *)

Arrays == {g \in Seq(Point) : Len(g) >= 2}

\* All the vertices of the edges of a job.
EdgeVertices(j) == UNION {Vertices(j.edges[i]) : i \in DOMAIN j.edges}

LEMMA ArrayVertices ==
  ASSUME NEW g \in Seq(Point)
  PROVE  /\ Len(g) \in Nat /\ DOMAIN g = 1..Len(g)
         /\ \A i \in 1..Len(g) : g[i] \in Point
         /\ Vertices(g) \subseteq Point /\ IsFiniteSet(Vertices(g))
<1>1. Len(g) \in Nat /\ DOMAIN g = 1..Len(g)
  BY LenProperties
<1>2. \A i \in 1..Len(g) : g[i] \in Point
  BY ElementOfSeq
<1>3. IsFiniteSet(DOMAIN g)
  BY <1>1, FS_Interval
<1>4. Vertices(g) = {g[i] : i \in DOMAIN g}
  BY <1>1 DEF Vertices
<1> QED BY <1>1, <1>2, <1>3, <1>4, FiniteImage

\* The vertices of some of the edges.
LEMMA SomeVertices ==
  ASSUME NEW j \in Jobs, NEW edges \in SUBSET DOMAIN j.edges
  PROVE  LET all == UNION {Vertices(j.edges[i]) : i \in edges}
         IN  IsFiniteSet(all) /\ all \subseteq EdgeVertices(j) /\ all \subseteq Point
<1> DEFINE of == [i \in edges |-> Vertices(j.edges[i])]
           sets == {of[i] : i \in DOMAIN of}
<1>1. j.edges \in Seq(Line)
  BY JobsAssumption
<1>2. \A i \in edges : j.edges[i] \in Seq(Point)
  <2>1. \A i \in edges : j.edges[i] \in Line
    BY <1>1, LenProperties, ElementOfSeq
  <2> QED BY <2>1 DEF Line
<1>3. IsFiniteSet(DOMAIN of)
  <2>1. DOMAIN j.edges = 1..Len(j.edges) /\ Len(j.edges) \in Nat
    BY <1>1, LenProperties
  <2>2. IsFiniteSet(DOMAIN j.edges)
    BY <2>1, FS_Interval
  <2> QED BY <2>2, FS_Subset
<1>4. \A i \in edges : IsFiniteSet(of[i]) /\ of[i] \subseteq Point
  BY <1>2, ArrayVertices
<1>5. UNION {Vertices(j.edges[i]) : i \in edges} = UNION sets
  OBVIOUS
<1>6. IsFiniteSet(sets)
  <2> HIDE DEF of
  <2> QED BY <1>3, FiniteImage
<1>7. \A T \in sets : IsFiniteSet(T) /\ T \subseteq Point
  BY <1>4
<1>8. UNION sets \subseteq EdgeVertices(j)
  BY DEF EdgeVertices
<1> HIDE DEF sets
<1>9. IsFiniteSet(UNION sets) /\ UNION sets \subseteq Point
  BY <1>6, <1>7, FS_UNION
<1> QED BY <1>5, <1>8, <1>9

\* What may be added: a vertex of an edge, at a segment of the array.
LEMMA SnapsOfArray ==
  ASSUME NEW g \in Arrays, job \in Jobs, NEW edges \in SUBSET DOMAIN job.edges, NEW box
  PROVE  LET found == ValidSnaps(g, edges, box) IN
         /\ IsFiniteSet(found)
         /\ \A v \in found : /\ v.pt \in Point /\ v.pt \in EdgeVertices(job)
                             /\ v.segno \in 1..(Len(g) - 1) /\ v.dist \in Fractions
                             /\ v = SnapVertex(v.pt, ClosestSegment(v.pt, g))
<1> DEFINE all == UNION {Vertices(job.edges[i]) : i \in edges}
           snap == [p \in all |-> SnapVertex(p, ClosestSegment(p, g))]
           snaps == {snap[p] : p \in DOMAIN snap}
           found == ValidSnaps(g, edges, box)
<1>1. IsFiniteSet(all) /\ all \subseteq EdgeVertices(job) /\ all \subseteq Point
  BY SomeVertices
<1>2. found \subseteq snaps
  <2>1. ASSUME NEW v \in found PROVE v \in snaps
    <3>1. v \in NearVertices(g, edges, box)
      BY <2>1 DEF ValidSnaps
    <3>2. PICK p \in {q \in all : InBox(q, box)} : v = SnapVertex(p, ClosestSegment(p, g))
      BY <3>1 DEF NearVertices
    <3> QED BY <3>2
  <2> QED BY <2>1
<1>3. IsFiniteSet(snaps)
  <2>1. IsFiniteSet(DOMAIN snap)
    BY <1>1
  <2> HIDE DEF snap
  <2> QED BY <2>1, FiniteImage
<1>4. ASSUME NEW v \in found
      PROVE  /\ v.pt \in Point /\ v.pt \in EdgeVertices(job)
             /\ v.segno \in 1..(Len(g) - 1) /\ v.dist \in Fractions
             /\ v = SnapVertex(v.pt, ClosestSegment(v.pt, g))
  <2>1. PICK p \in all : v = SnapVertex(p, ClosestSegment(p, g))
    BY <1>2
  <2>2. v.pt = p /\ v.segno = ClosestSegment(p, g).segno /\ v.dist = ClosestSegment(p, g).dist
    BY <2>1 DEF SnapVertex
  <2>3. p \in Point /\ p \in EdgeVertices(job) /\ g \in Seq(Point) /\ Len(g) >= 2
    BY <1>1 DEF Arrays
  <2> HIDE DEF all
  <2> QED BY <2>1, <2>2, <2>3, ClosestIsSegment
<1>5. IsFiniteSet(found)
  BY <1>2, <1>3, FS_Subset
<1> HIDE DEF found
<1> QED BY <1>4, <1>5 DEF found

\* The vertex added is one of those found: compare_snapv orders them totally.
LEMMA FirstSnapIsOne ==
  ASSUME NEW found, IsFiniteSet(found), found # {}, NEW g,
         \A v \in found : /\ v.pt \in Point /\ v.dist \in Fractions
                          /\ v = SnapVertex(v.pt, ClosestSegment(v.pt, g))
  PROVE  FirstSnap(found) \in found
<1> DEFINE R == {x \in found \X found : x[1] = x[2] \/ SnapsBefore(x[1], x[2])}
<1>1. \A v, w \in found : <<v, w>> \in R <=> v = w \/ SnapsBefore(v, w)
  OBVIOUS
<1>2. ASSUME NEW v \in found, NEW w \in found PROVE v = w \/ SnapsBefore(v, w) \/ SnapsBefore(w, v)
  <2>1. v.pt = w.pt => v = w
    OBVIOUS
  <2>2. v.pt = w.pt \/ Before(v.pt, w.pt) \/ Before(w.pt, v.pt)
    BY BeforeIsTotal
  <2> QED BY <2>1, <2>2 DEF SnapsBefore
<1>3. ASSUME NEW u \in found, NEW v \in found, NEW w \in found, SnapsBefore(u, v), SnapsBefore(v, w)
      PROVE  SnapsBefore(u, w)
  <2>1. ~ Nearer(v.dist, u.dist) /\ ~ Nearer(w.dist, v.dist)
    BY <1>3, NearerOrders DEF SnapsBefore
  <2>2. ~ Nearer(w.dist, u.dist)
    BY <2>1, NearerOrders
  <2>3. CASE Nearer(u.dist, w.dist)
    BY <2>3 DEF SnapsBefore
  <2>4. CASE ~ Nearer(u.dist, w.dist)
    <3>1. ~ Nearer(u.dist, v.dist)
      BY <2>1, <2>4, NearerOrders
    <3>2. ~ Nearer(v.dist, w.dist)
      BY <2>1, <2>4, NearerOrders
    <3>3. Before(u.pt, v.pt) /\ Before(v.pt, w.pt)
      BY <1>3, <3>1, <3>2 DEF SnapsBefore
    <3>4. Before(u.pt, w.pt)
      BY <3>3, BeforeIsTotal
    <3> QED BY <2>2, <3>4 DEF SnapsBefore
  <2> QED BY <2>3, <2>4
<1> HIDE DEF R
<1>4. \E m \in found : \A x \in found : <<m, x>> \in R
  <2>1. \A v, w \in found : <<v, w>> \in R \/ <<w, v>> \in R
    BY <1>1, <1>2
  <2>2. \A u, v, w \in found : <<u, v>> \in R /\ <<v, w>> \in R => <<u, w>> \in R
    BY <1>1, <1>3
  <2> QED BY <2>1, <2>2, FirstExists
<1>5. \E v \in found : \A w \in found \ {v} : SnapsBefore(v, w)
  BY <1>1, <1>4
<1> QED BY <1>5 DEF FirstSnap

\* Adding a vertex after the k-th.
LEMMA AddedVertex ==
  ASSUME NEW g \in Arrays, NEW k \in 1..(Len(g) - 1), NEW p \in Point
  PROVE  LET h == InsertAt(g, k + 1, p) IN
         /\ h \in Arrays /\ h[1] = g[1] /\ Last(h) = Last(g)
         /\ Vertices(h) \subseteq Vertices(g) \cup {p} /\ Vertices(g) \subseteq Vertices(h)
<1> DEFINE n == Len(g)
           a == SubSeq(g, 1, k)
           b == SubSeq(g, k + 1, n)
           ap == a \o <<p>>
           h == InsertAt(g, k + 1, p)
<1>1. n \in Nat /\ n >= 2 /\ \A i \in 1..n : g[i] \in Point
  BY ArrayVertices DEF Arrays
<1>2. k \in Nat /\ k >= 1 /\ k < n
  BY <1>1
<1> HIDE DEF n
<1>3. a \in Seq(Point) /\ Len(a) = k /\ \A i \in 1..k : a[i] = g[i]
  <2>1. \A i \in 1..k : g[i] \in Point
    BY <1>1, <1>2
  <2>2. /\ a \in Seq(Point) /\ Len(a) = IF 1 <= k THEN k - 1 + 1 ELSE 0
        /\ \A i \in 1..(k - 1 + 1) : a[i] = g[1 + i - 1]
    BY <1>2, <2>1, SubSeqProperties
  <2>3. k - 1 + 1 = k /\ \A i \in 1..k : 1 + i - 1 = i
    BY <1>2
  <2> HIDE DEF a
  <2> QED BY <1>2, <2>2, <2>3
<1>4. b \in Seq(Point) /\ Len(b) = n - k /\ \A i \in 1..(n - k) : b[i] = g[k + i]
  <2>1. \A i \in (k + 1)..n : g[i] \in Point
    BY <1>1, <1>2
  <2>2. /\ b \in Seq(Point) /\ Len(b) = IF k + 1 <= n THEN n - (k + 1) + 1 ELSE 0
        /\ \A i \in 1..(n - (k + 1) + 1) : b[i] = g[(k + 1) + i - 1]
    BY <1>1, <1>2, <2>1, SubSeqProperties
  <2>3. n - (k + 1) + 1 = n - k /\ k + 1 <= n /\ \A i \in 1..(n - k) : (k + 1) + i - 1 = k + i
    BY <1>1, <1>2
  <2> HIDE DEF b
  <2> QED BY <2>2, <2>3
<1>5. <<p>> \in Seq(Point) /\ Len(<<p>>) = 1 /\ <<p>>[1] = p
  OBVIOUS
<1> DEFINE o == <<p>>
<1> HIDE DEF a, b, o
<1>6. ap \in Seq(Point) /\ Len(ap) = k + 1 /\ \A i \in 1..(k + 1) : ap[i] = IF i <= k THEN g[i] ELSE p
  <2>1. /\ ap \in Seq(Point) /\ Len(ap) = Len(a) + Len(o)
        /\ \A i \in 1..(Len(a) + Len(o)) : ap[i] = IF i <= Len(a) THEN a[i] ELSE o[i - Len(a)]
    BY <1>3, <1>5, ConcatProperties DEF o
  <2>2. Len(o) = 1 /\ o[1] = p
    BY <1>5 DEF o
  <2> HIDE DEF ap
  <2>3. \A i \in 1..(k + 1) : ap[i] = IF i <= k THEN g[i] ELSE p
    <3> SUFFICES ASSUME NEW i \in 1..(k + 1) PROVE ap[i] = IF i <= k THEN g[i] ELSE p
      OBVIOUS
    <3>1. i <= k => i \in 1..k
      BY <1>2
    <3>2. ~ (i <= k) => i - k = 1
      BY <1>2
    <3> QED BY <1>2, <1>3, <2>1, <2>2, <3>1, <3>2
  <2> QED BY <1>3, <2>1, <2>2, <2>3
<1>7. h = ap \o b
  <2>1. (k + 1) - 1 = k
    BY <1>2
  <2> QED BY <2>1 DEF InsertAt, a, b, o, n
<1>8. /\ h \in Seq(Point) /\ Len(h) = n + 1
      /\ \A i \in 1..(n + 1) : h[i] = IF i <= k THEN g[i] ELSE IF i = k + 1 THEN p ELSE g[i - 1]
  <2> HIDE DEF h, ap
  <2>1. /\ h \in Seq(Point) /\ Len(h) = Len(ap) + Len(b)
        /\ \A i \in 1..(Len(ap) + Len(b)) : h[i] = IF i <= Len(ap) THEN ap[i] ELSE b[i - Len(ap)]
    BY <1>4, <1>6, <1>7, ConcatProperties
  <2>2. Len(ap) + Len(b) = n + 1
    BY <1>1, <1>2, <1>4, <1>6
  <2>3. ASSUME NEW i \in 1..(n + 1)
        PROVE  h[i] = IF i <= k THEN g[i] ELSE IF i = k + 1 THEN p ELSE g[i - 1]
    <3>1. i <= k + 1 => i \in 1..(k + 1)
      BY <1>2
    <3>2. ~ (i <= k + 1) => i - (k + 1) \in 1..(n - k) /\ k + (i - (k + 1)) = i - 1
      BY <1>1, <1>2
    <3>3. ~ (i <= k + 1) => h[i] = g[i - 1]
      BY <1>4, <1>6, <2>1, <2>2, <3>2
    <3>4. i <= k + 1 => h[i] = IF i <= k THEN g[i] ELSE p
      BY <1>6, <2>1, <2>2, <3>1
    <3>5. i \in Int /\ (i <= k => i <= k + 1) /\ (~ (i <= k) /\ i <= k + 1 => i = k + 1)
          /\ (i = k + 1 => i <= k + 1 /\ ~ (i <= k))
      BY <1>2
    <3> QED BY <3>3, <3>4, <3>5
  <2> QED BY <2>1, <2>2, <2>3
<1> HIDE DEF h
<1>9. h \in Arrays
  <2>1. n + 1 >= 2
    BY <1>1
  <2> QED BY <1>8, <2>1 DEF Arrays
<1>10. h[1] = g[1]
  <2>1. 1 \in 1..(n + 1) /\ 1 <= k
    BY <1>1, <1>2
  <2> QED BY <1>8, <2>1
<1>11. Last(h) = Last(g)
  <2>1. n + 1 \in 1..(n + 1) /\ ~ (n + 1 <= k) /\ n + 1 # k + 1 /\ (n + 1) - 1 = n
    BY <1>1, <1>2
  <2>2. h[n + 1] = g[n]
    BY <1>8, <2>1
  <2> QED BY <1>8, <2>2 DEF Last, n
<1>12. ASSUME NEW i \in 1..Len(h) PROVE h[i] \in Vertices(g) \cup {p}
  <2>1. i \in 1..(n + 1)
    BY <1>8
  <2>2. i <= k => i \in 1..n
    BY <1>1, <1>2
  <2>3. ~ (i <= k) /\ i # k + 1 => i - 1 \in 1..n
    BY <1>1, <1>2, <2>1
  <2>4. \A j \in 1..n : g[j] \in Vertices(g)
    BY DEF Vertices, n
  <2> QED BY <1>8, <2>1, <2>2, <2>3, <2>4
<1>13. Vertices(h) \subseteq Vertices(g) \cup {p}
  BY <1>12 DEF Vertices
<1>14. ASSUME NEW i \in 1..n PROVE g[i] \in Vertices(h)
  <2>1. \A j \in 1..(n + 1) : h[j] \in Vertices(h)
    BY <1>8 DEF Vertices
  <2>2. CASE i <= k
    <3>1. i \in 1..(n + 1)
      BY <1>1
    <3> QED BY <1>8, <2>1, <2>2, <3>1
  <2>3. CASE ~ (i <= k)
    <3>1. i + 1 \in 1..(n + 1) /\ ~ (i + 1 <= k) /\ i + 1 # k + 1 /\ (i + 1) - 1 = i
      BY <1>1, <1>2, <2>3
    <3> QED BY <1>8, <2>1, <3>1
  <2> QED BY <2>2, <2>3
<1>15. Vertices(g) \subseteq Vertices(h)
  BY <1>14 DEF Vertices, n
<1> QED BY <1>9, <1>10, <1>11, <1>13, <1>15 DEF h

\* Removing a vertex that is no end.
LEMMA RemovedVertex ==
  ASSUME NEW g \in Arrays, NEW k \in Nat, 2 <= k, k < Len(g)
  PROVE  LET h == RemoveAt(g, k) IN
         /\ h \in Arrays /\ h[1] = g[1] /\ Last(h) = Last(g)
         /\ Vertices(h) \subseteq Vertices(g) /\ Vertices(g) \ {g[k]} \subseteq Vertices(h)
<1> DEFINE n == Len(g)
           a == SubSeq(g, 1, k - 1)
           b == SubSeq(g, k + 1, n)
           h == RemoveAt(g, k)
<1>1. n \in Nat /\ n >= 2 /\ \A i \in 1..n : g[i] \in Point
  BY ArrayVertices DEF Arrays
<1>2. k \in Nat /\ k >= 2 /\ k < n
  BY <1>1
<1> HIDE DEF n
<1>3. a \in Seq(Point) /\ Len(a) = k - 1 /\ \A i \in 1..(k - 1) : a[i] = g[i]
  <2>1. \A i \in 1..(k - 1) : g[i] \in Point
    BY <1>1, <1>2
  <2>2. /\ a \in Seq(Point) /\ Len(a) = IF 1 <= k - 1 THEN (k - 1) - 1 + 1 ELSE 0
        /\ \A i \in 1..((k - 1) - 1 + 1) : a[i] = g[1 + i - 1]
    BY <1>2, <2>1, SubSeqProperties
  <2>3. (k - 1) - 1 + 1 = k - 1 /\ 1 <= k - 1 /\ \A i \in 1..(k - 1) : 1 + i - 1 = i
    BY <1>2
  <2> HIDE DEF a
  <2> QED BY <1>2, <2>2, <2>3
<1>4. b \in Seq(Point) /\ Len(b) = n - k /\ \A i \in 1..(n - k) : b[i] = g[k + i]
  <2>1. \A i \in (k + 1)..n : g[i] \in Point
    BY <1>1, <1>2
  <2>2. /\ b \in Seq(Point) /\ Len(b) = IF k + 1 <= n THEN n - (k + 1) + 1 ELSE 0
        /\ \A i \in 1..(n - (k + 1) + 1) : b[i] = g[(k + 1) + i - 1]
    BY <1>1, <1>2, <2>1, SubSeqProperties
  <2>3. n - (k + 1) + 1 = n - k /\ k + 1 <= n /\ \A i \in 1..(n - k) : (k + 1) + i - 1 = k + i
    BY <1>1, <1>2
  <2> HIDE DEF b
  <2> QED BY <2>2, <2>3
<1>5. h = a \o b
  BY DEF RemoveAt, a, b, n
<1> HIDE DEF a, b
<1>6. /\ h \in Seq(Point) /\ Len(h) = n - 1
      /\ \A i \in 1..(n - 1) : h[i] = IF i <= k - 1 THEN g[i] ELSE g[i + 1]
  <2> HIDE DEF h
  <2>1. /\ h \in Seq(Point) /\ Len(h) = Len(a) + Len(b)
        /\ \A i \in 1..(Len(a) + Len(b)) : h[i] = IF i <= Len(a) THEN a[i] ELSE b[i - Len(a)]
    BY <1>3, <1>4, <1>5, ConcatProperties
  <2>2. Len(a) + Len(b) = n - 1
    BY <1>1, <1>2, <1>3, <1>4
  <2>3. ASSUME NEW i \in 1..(n - 1)
        PROVE  h[i] = IF i <= k - 1 THEN g[i] ELSE g[i + 1]
    <3>1. i <= k - 1 => i \in 1..(k - 1)
      BY <1>2
    <3>2. ~ (i <= k - 1) => i - (k - 1) \in 1..(n - k) /\ k + (i - (k - 1)) = i + 1
      BY <1>1, <1>2
    <3>3. h[i] = IF i <= Len(a) THEN a[i] ELSE b[i - Len(a)]
      BY <2>1, <2>2
    <3>4. CASE i <= k - 1
      <4>1. a[i] = g[i] /\ i <= Len(a)
        BY <1>3, <3>1, <3>4
      <4> QED BY <3>3, <3>4, <4>1
    <3>5. CASE ~ (i <= k - 1)
      <4>1. b[i - (k - 1)] = g[k + (i - (k - 1))]
        BY <1>4, <3>2, <3>5
      <4> QED BY <1>3, <3>2, <3>3, <3>5, <4>1
    <3> QED BY <3>4, <3>5
  <2> QED BY <2>1, <2>2, <2>3
<1> HIDE DEF h
<1>7. h \in Arrays
  <2>1. n - 1 >= 2
    BY <1>1, <1>2
  <2> QED BY <1>6, <2>1 DEF Arrays
<1>8. h[1] = g[1]
  <2>1. 1 \in 1..(n - 1) /\ 1 <= k - 1
    BY <1>1, <1>2
  <2> QED BY <1>6, <2>1
<1>9. Last(h) = Last(g)
  <2>1. n - 1 \in 1..(n - 1) /\ ~ (n - 1 <= k - 1) /\ (n - 1) + 1 = n
    BY <1>1, <1>2
  <2>2. h[n - 1] = g[n]
    BY <1>6, <2>1
  <2> QED BY <1>6, <2>2 DEF Last, n
<1>10. ASSUME NEW i \in 1..Len(h) PROVE h[i] \in Vertices(g)
  <2>1. i \in 1..(n - 1)
    BY <1>6
  <2>2. i \in 1..n /\ i + 1 \in 1..n
    BY <1>1, <2>1
  <2>3. \A j \in 1..n : g[j] \in Vertices(g)
    BY DEF Vertices, n
  <2> QED BY <1>6, <2>1, <2>2, <2>3
<1>11. Vertices(h) \subseteq Vertices(g)
  BY <1>10 DEF Vertices
<1>12. ASSUME NEW i \in 1..n, i # k PROVE g[i] \in Vertices(h)
  <2>1. \A j \in 1..(n - 1) : h[j] \in Vertices(h)
    BY <1>6 DEF Vertices
  <2>2. CASE i <= k - 1
    <3>1. i \in 1..(n - 1)
      BY <1>1, <1>2, <2>2
    <3> QED BY <1>6, <2>1, <2>2, <3>1
  <2>3. CASE ~ (i <= k - 1)
    <3>1. i - 1 \in 1..(n - 1) /\ ~ (i - 1 <= k - 1) /\ (i - 1) + 1 = i
      BY <1>1, <1>2, <1>12, <2>3
    <3> QED BY <1>6, <2>1, <3>1
  <2> QED BY <2>2, <2>3
<1>13. Vertices(g) \ {g[k]} \subseteq Vertices(h)
  BY <1>12 DEF Vertices, n
<1> QED BY <1>7, <1>8, <1>9, <1>11, <1>13 DEF h

-----------------------------------------------------------------------------
(* Snapping: the ends stay.                                                *)

\* A step changes nothing but the visited array, and that one only by adding
\* a vertex of an edge or by removing a vertex that is no end.
KeepsEnds(k) ==
  /\ arrays[k][1] = job.arrays[k][1] /\ Last(arrays[k]) = Last(job.arrays[k])
  /\ Vertices(arrays[k]) \subseteq Vertices(job.arrays[k]) \cup EdgeVertices(job)

SnapInv ==
  /\ job \in Jobs /\ arrays \in Seq(Arrays) /\ Len(arrays) = Len(job.arrays)
  /\ current \in 1..(Len(arrays) + 1)
  /\ phase \in {"visit", "add", "remove", "done"}
  /\ phase \in {"add", "remove"} => current <= Len(arrays)
  /\ workedges \subseteq DOMAIN job.edges
  /\ vertex \in Nat /\ vertex >= 2 /\ removed \in Nat
  /\ \A k \in 1..Len(arrays) : KeepsEnds(k)

LEMMA SnapInvSuffices == SnapInv => SnapTypeOK /\ SnapKeepsEnds
<1> SUFFICES ASSUME SnapInv PROVE SnapTypeOK /\ SnapKeepsEnds
  OBVIOUS
<1>1. Len(arrays) \in Nat /\ DOMAIN arrays = 1..Len(arrays) /\ \A k \in 1..Len(arrays) : arrays[k] \in Arrays
  <2>1. arrays \in Seq(Arrays)
    BY DEF SnapInv
  <2> QED BY <2>1, LenProperties, ElementOfSeq
<1>2. job.arrays \in Seq(Arrays)
  BY JobsAssumption DEF SnapInv, Arrays
<1>3. DOMAIN arrays = DOMAIN job.arrays
  <2>1. DOMAIN job.arrays = 1..Len(job.arrays)
    BY <1>2, LenProperties
  <2> QED BY <1>1, <2>1 DEF SnapInv
<1>4. SnapTypeOK
  BY <1>1, <1>3 DEF SnapInv, SnapTypeOK, Arrays
<1>5. SnapKeepsEnds
  BY <1>1 DEF SnapInv, SnapKeepsEnds, KeepsEnds, EdgeVertices
<1> QED BY <1>4, <1>5

LEMMA SnapInitially == SnapInit => SnapInv
<1> SUFFICES ASSUME SnapInit PROVE SnapInv
  OBVIOUS
<1>1. job \in Jobs /\ arrays = job.arrays
  BY DEF SnapInit
<1>2. arrays \in Seq(Arrays)
  BY <1>1, JobsAssumption DEF Arrays
<1>3. Len(arrays) \in Nat
  BY <1>2, LenProperties
<1>4. 1 \in 1..(Len(arrays) + 1)
  BY <1>3
<1>5. \A k \in 1..Len(arrays) : KeepsEnds(k)
  BY <1>1 DEF KeepsEnds
<1> QED BY <1>1, <1>2, <1>4, <1>5 DEF SnapInit, SnapInv

\* The edges worked with are edges of the job.
LEMMA KnownAreEdges == SnapInv => Known \subseteq DOMAIN job.edges
BY DEF SnapInv, Known, EdgesWithin

\* The visited array changes to h, with its ends and vertices of edges.
LEMMA ArrayChanges ==
  ASSUME SnapInv, current <= Len(arrays), NEW h \in Arrays,
         h[1] = pa[1], Last(h) = Last(pa), Vertices(h) \subseteq Vertices(pa) \cup EdgeVertices(job),
         arrays' = [arrays EXCEPT ![current] = h], UNCHANGED job
  PROVE  /\ arrays' \in Seq(Arrays) /\ Len(arrays') = Len(arrays)
         /\ \A k \in 1..Len(arrays') : KeepsEnds(k)'
<1>1. arrays \in Seq(Arrays) /\ Len(arrays) \in Nat /\ DOMAIN arrays = 1..Len(arrays)
  BY LenProperties DEF SnapInv
<1>2. current \in 1..Len(arrays)
  BY <1>1 DEF SnapInv
<1>3. arrays' \in Seq(Arrays) /\ Len(arrays') = Len(arrays)
  BY <1>1, <1>2, ExceptSeq
<1>4. ASSUME NEW k \in 1..Len(arrays) PROVE KeepsEnds(k)'
  <2>1. KeepsEnds(k)
    BY DEF SnapInv
  <2>2. CASE k = current
    <3>1. arrays'[k] = h
      BY <1>1, <2>2
    <3>2. h[1] = job.arrays[k][1] /\ Last(h) = Last(job.arrays[k])
          /\ Vertices(h) \subseteq Vertices(job.arrays[k]) \cup EdgeVertices(job)
      BY <2>1, <2>2 DEF KeepsEnds, pa
    <3> QED BY <3>1, <3>2 DEF KeepsEnds, EdgeVertices
  <2>3. CASE k # current
    <3>1. arrays'[k] = arrays[k]
      BY <1>1, <2>3
    <3> QED BY <2>1, <3>1 DEF KeepsEnds, EdgeVertices
  <2> QED BY <2>2, <2>3
<1>5. 1..Len(arrays') = 1..Len(arrays)
  BY <1>3
<1> QED BY <1>3, <1>4, <1>5, Zenon

LEMMA SnapStep == SnapInv /\ [SnapNext]_snapVars => SnapInv'
<1> SUFFICES ASSUME SnapInv, [SnapNext]_snapVars PROVE SnapInv'
  OBVIOUS
<1>1. arrays \in Seq(Arrays) /\ Len(arrays) \in Nat /\ \A k \in 1..Len(arrays) : arrays[k] \in Arrays
  BY LenProperties, ElementOfSeq DEF SnapInv
<1>2. current <= Len(arrays) => current \in 1..Len(arrays) /\ pa \in Arrays /\ current + 1 \in 1..(Len(arrays) + 1)
  BY <1>1 DEF SnapInv, pa
<1>3. Known \subseteq DOMAIN job.edges
  BY KnownAreEdges
<1>4. UNCHANGED <<job, arrays>> => \A k \in 1..Len(arrays') : KeepsEnds(k)'
  <2> SUFFICES ASSUME UNCHANGED <<job, arrays>>, NEW k \in 1..Len(arrays')
               PROVE  KeepsEnds(k)'
    OBVIOUS
  <2>1. job' = job /\ arrays' = arrays
    OBVIOUS
  <2>2. KeepsEnds(k)
    BY <2>1 DEF SnapInv
  <2> QED BY <2>1, <2>2 DEF KeepsEnds, EdgeVertices
<1>5. ASSUME StartRemoving, current <= Len(arrays), phase = "add"
      PROVE  /\ current' \in 1..(Len(arrays) + 1) /\ phase' \in {"visit", "remove"}
             /\ phase' = "remove" => current' <= Len(arrays)
             /\ vertex' \in Nat /\ vertex' >= 2 /\ removed' \in Nat
  BY <1>2, <1>5 DEF StartRemoving, Leave
<1>6. CASE Visit
  BY <1>4, <1>6 DEF Visit, SnapInv
<1>7. CASE Finish
  BY <1>4, <1>7 DEF Finish, SnapInv
<1>8. CASE Add
  <2>1. phase = "add" /\ workedges' = Known /\ UNCHANGED job /\ current <= Len(arrays)
    BY <1>8 DEF Add, SnapInv
  <2> DEFINE found == ValidSnaps(pa, Known, extent)
  <2>2. AddVertex(found) \/ NothingToAdd(found)
    BY <1>8, <2>1 DEF Add
  <2>3. CASE AddVertex(found)
    <3>1. IsFiniteSet(found) /\ \A v \in found : /\ v.pt \in Point /\ v.pt \in EdgeVertices(job)
                             /\ v.segno \in 1..(Len(pa) - 1) /\ v.dist \in Fractions
                             /\ v = SnapVertex(v.pt, ClosestSegment(v.pt, pa))
      BY <1>2, <1>3, <2>1, SnapsOfArray DEF SnapInv
    <3> DEFINE first == FirstSnap(found)
    <3>2. found # {} /\ arrays' = [arrays EXCEPT ![current] = Snapped(pa, first)]
      BY <2>3 DEF AddVertex, pa
    <3> HIDE DEF found
    <3>3. first \in found
      BY <3>1, <3>2, FirstSnapIsOne
    <3> HIDE DEF first
    <3>4. first.pt \in Point /\ first.pt \in EdgeVertices(job) /\ first.segno \in 1..(Len(pa) - 1)
      BY <3>1, <3>3
    <3> DEFINE h == Snapped(pa, first)
    <3>5. h \in Arrays /\ h[1] = pa[1] /\ Last(h) = Last(pa) /\ Vertices(h) \subseteq Vertices(pa) \cup {first.pt}
      BY <1>2, <2>1, <3>4, AddedVertex DEF Snapped
    <3> HIDE DEF h
    <3>6. /\ arrays' \in Seq(Arrays) /\ Len(arrays') = Len(arrays)
          /\ \A k \in 1..Len(arrays') : KeepsEnds(k)'
      BY <2>1, <3>2, <3>4, <3>5, ArrayChanges DEF h
    <3>7. /\ current' \in 1..(Len(arrays) + 1) /\ phase' \in {"visit", "add", "remove"}
          /\ phase' \in {"add", "remove"} => current' <= Len(arrays)
          /\ vertex' \in Nat /\ vertex' >= 2 /\ removed' \in Nat
      <4>1. StartRemoving \/ UNCHANGED <<phase, vertex, removed, current>>
        BY <2>3 DEF AddVertex
      <4>2. CASE StartRemoving
        BY <1>5, <2>1, <4>2
      <4>3. CASE UNCHANGED <<phase, vertex, removed, current>>
        BY <2>1, <4>3 DEF SnapInv
      <4> QED BY <4>1, <4>2, <4>3
    <3> QED BY <1>3, <2>1, <3>6, <3>7 DEF SnapInv
  <2>4. CASE NothingToAdd(found)
    <3>1. StartRemoving /\ UNCHANGED arrays
      BY <2>4 DEF NothingToAdd
    <3> QED BY <1>3, <1>4, <1>5, <2>1, <3>1 DEF SnapInv
  <2> QED BY <2>2, <2>3, <2>4
<1>9. CASE RemoveVertex
  <2>1. /\ phase = "remove" /\ vertex < Len(pa) /\ workedges' = Known
        /\ arrays' = [arrays EXCEPT ![current] = RemoveAt(pa, vertex)]
        /\ removed' = removed + 1 /\ UNCHANGED <<job, current, phase, extent, vertex>>
    BY <1>9 DEF RemoveVertex, pa
  <2>2. current <= Len(arrays)
    BY <2>1 DEF SnapInv
  <2> DEFINE h == RemoveAt(pa, vertex)
  <2>3. h \in Arrays /\ h[1] = pa[1] /\ Last(h) = Last(pa) /\ Vertices(h) \subseteq Vertices(pa)
    BY <1>2, <2>1, <2>2, RemovedVertex DEF SnapInv
  <2> HIDE DEF h
  <2>4. /\ arrays' \in Seq(Arrays) /\ Len(arrays') = Len(arrays)
        /\ \A k \in 1..Len(arrays') : KeepsEnds(k)'
    BY <2>1, <2>2, <2>3, ArrayChanges DEF h
  <2> QED BY <1>3, <2>1, <2>4 DEF SnapInv
<1>10. CASE KeepVertex
  BY <1>3, <1>4, <1>10 DEF KeepVertex, SnapInv
<1>11. CASE EndRound
  <2>1. phase = "remove" /\ current <= Len(arrays) /\ workedges' = Known
        /\ UNCHANGED <<job, arrays, extent, vertex, removed>>
    BY <1>11 DEF EndRound, SnapInv
  <2>2. /\ current' \in 1..(Len(arrays) + 1) /\ phase' \in {"visit", "add"}
        /\ phase' = "add" => current' <= Len(arrays)
    <3>1. (phase' = "add" /\ UNCHANGED current) \/ Leave
      BY <1>11 DEF EndRound
    <3> QED BY <1>2, <2>1, <3>1 DEF Leave, SnapInv
  <2> QED BY <1>3, <1>4, <2>1, <2>2 DEF SnapInv
<1>12. CASE UNCHANGED snapVars
  BY <1>4, <1>12 DEF snapVars, SnapInv
<1> QED BY <1>6, <1>7, <1>8, <1>9, <1>10, <1>11, <1>12 DEF SnapNext

-----------------------------------------------------------------------------
(* Snapping: vertices of the topology are not removed.                     *)

\* What is no farther than something at no distance is at none.
LEMMA NearestToNothing ==
  ASSUME NEW d \in Fractions, NEW e \in Fractions, d.num = 0, ~ Nearer(d, e)
  PROVE  e.num = 0
<1>1. d.den \in Nat \ {0} /\ e.den \in Nat \ {0} /\ e.num \in Nat
  BY DEF Fractions
<1>2. e.num * d.den <= 0
  <2>1. ~ (0 * e.den < e.num * d.den) /\ e.num * d.den \in Nat /\ 0 * e.den = 0
    BY <1>1 DEF Nearer
  <2> QED BY <2>1
<1>3. e.num * d.den <= 0 * d.den
  BY <1>1, <1>2
<1> QED BY <1>1, <1>3, FactorsGrow

\* The ends of a segment are at no distance from it.
LEMMA EndsAreOn ==
  ASSUME NEW a \in Point, NEW b \in Point
  PROVE  DistanceSq(a, a, b).num = 0 /\ DistanceSq(b, a, b).num = 0
<1>1. a[1] \in Int /\ a[2] \in Int /\ b[1] \in Int /\ b[2] \in Int
  BY DEF Point
<1>2. LengthSq(a, a) = 0 /\ LengthSq(b, b) = 0 /\ Dot(a, a, b) = 0
  BY <1>1 DEF LengthSq, Dot
<1>3. Dot(b, a, b) = LengthSq(a, b)
  BY DEF LengthSq, Dot
<1>4. LengthSq(b, a) = LengthSq(a, b)
  <2>1. \A x, y \in Int : (x - y) * (x - y) = (y - x) * (y - x)
    OBVIOUS
  <2> QED BY <1>1, <2>1 DEF LengthSq
<1>5. LengthSq(a, b) \in Nat
  BY LengthIsNat
<1>6. DistanceSq(a, a, b).num = 0
  <2>1. DistanceSq(a, a, b) = [num |-> LengthSq(a, a), den |-> 1]
    BY <1>2 DEF DistanceSq
  <2> QED BY <1>2, <2>1
<1>7. CASE LengthSq(a, b) = 0
  <2>1. DistanceSq(b, a, b) = [num |-> LengthSq(b, a), den |-> 1]
    BY <1>7 DEF DistanceSq
  <2> QED BY <1>4, <1>6, <1>7, <2>1
<1>8. CASE LengthSq(a, b) # 0
  <2>1. ~ (Dot(b, a, b) <= 0) /\ Dot(b, a, b) >= LengthSq(a, b)
    BY <1>3, <1>5, <1>8
  <2>2. DistanceSq(b, a, b) = [num |-> LengthSq(b, b), den |-> 1]
    BY <1>8, <2>1 DEF DistanceSq
  <2> QED BY <1>2, <1>6, <2>2
<1> QED BY <1>7, <1>8

\* A line is at no distance from its vertices.
LEMMA VertexIsOn ==
  ASSUME NEW g \in Arrays, NEW p \in Vertices(g)
  PROVE  p \in Point /\ ClosestSegment(p, g).dist.num = 0
<1>1. Len(g) \in Nat /\ Len(g) >= 2 /\ \A i \in 1..Len(g) : g[i] \in Point
  BY ArrayVertices DEF Arrays
<1>2. PICK i \in 1..Len(g) : p = g[i]
  BY DEF Vertices
<1>3. p \in Point
  BY <1>1, <1>2
<1>4. \E k \in 1..(Len(g) - 1) : DistanceSq(p, g[k], g[k + 1]).num = 0
  <2>1. CASE i \in 1..(Len(g) - 1)
    <3>1. g[i] \in Point /\ g[i + 1] \in Point
      BY <1>1, <2>1
    <3> QED BY <1>2, <2>1, <3>1, EndsAreOn
  <2>2. CASE i = Len(g)
    <3>1. i - 1 \in 1..(Len(g) - 1) /\ (i - 1) + 1 = i /\ g[i - 1] \in Point /\ g[i] \in Point
      BY <1>1, <2>2
    <3>2. DistanceSq(p, g[i - 1], g[(i - 1) + 1]).num = 0
      BY <1>2, <3>1, EndsAreOn
    <3> QED BY <3>1, <3>2
  <2> QED BY <1>1, <2>1, <2>2
<1>5. g \in Seq(Point) /\ Len(g) >= 2
  BY DEF Arrays
<1> QED BY <1>3, <1>4, <1>5, ClosestIsSegment, NearestToNothing

\* A vertex of an edge that is worked with is beside the inside of no edge
\* that is nearest to it, because edges meet at vertices.
LEMMA VertexIsNotRemovable ==
  ASSUME job \in Jobs, NEW edges \in SUBSET DOMAIN job.edges,
         NEW own \in edges, NEW p \in Vertices(job.edges[own])
  PROVE  ~ Removable(p, edges)
<1> SUFFICES ASSUME Removable(p, edges) PROVE FALSE
  OBVIOUS
<1> DEFINE found == [i \in edges |-> OnEdge(p, job.edges[i], ClosestSegment(p, job.edges[i]))]
           near0 == {i \in edges : Within(found[i].dist, job.removal)}
           dist == [i \in near0 |-> found[i].dist]
           nearest == FirstNearest(dist)
           g == job.edges[nearest]
           closest == ClosestSegment(p, g)
<1>1. near0 # {} /\ found[nearest].inside
  BY DEF Removable
<1>2. /\ job.removal \in Int /\ job.edges \in Seq(Line) /\ MeetAtVertices(job.edges)
  BY JobsAssumption
<1>3. /\ Len(job.edges) \in Nat /\ DOMAIN job.edges = 1..Len(job.edges)
      /\ \A i \in DOMAIN job.edges : job.edges[i] \in Arrays
  <2>1. Len(job.edges) \in Nat /\ DOMAIN job.edges = 1..Len(job.edges)
    BY <1>2, LenProperties
  <2>2. \A i \in DOMAIN job.edges : job.edges[i] \in Line
    BY <1>2, <2>1, ElementOfSeq
  <2> QED BY <2>1, <2>2 DEF Line, Arrays
<1>4. p \in Point /\ ClosestSegment(p, job.edges[own]).dist.num = 0
  BY <1>3, VertexIsOn
<1>5. \A i \in edges : /\ found[i].dist = ClosestSegment(p, job.edges[i]).dist
                       /\ found[i].dist \in Fractions
  BY <1>3, <1>4, ClosestIsSegment DEF OnEdge, Arrays
<1>6. own \in near0
  <2>1. found[own].dist.num = 0 /\ found[own].dist.den \in Nat
    BY <1>4, <1>5 DEF Fractions
  <2>2. job.removal * job.removal \in Nat
    BY <1>2, SquareIsNat
  <2>3. 0 <= job.removal * job.removal * found[own].dist.den
    BY <2>1, <2>2
  <2> QED BY <2>1, <2>3 DEF Within
<1>7. near0 \subseteq edges /\ IsFiniteSet(near0) /\ near0 \subseteq Nat
  <2>1. IsFiniteSet(1..Len(job.edges))
    BY <1>3, FS_Interval
  <2>2. near0 \subseteq edges
    OBVIOUS
  <2> HIDE DEF near0
  <2>3. near0 \subseteq 1..Len(job.edges)
    BY <1>3, <2>2
  <2>4. IsFiniteSet(near0)
    BY <2>1, <2>3, FS_Subset
  <2>5. 1..Len(job.edges) \subseteq Nat
    BY <1>3
  <2> QED BY <2>2, <2>3, <2>4, <2>5
<1>8. nearest \in near0 /\ ~ Nearer(dist[own], dist[nearest])
  <2>1. DOMAIN dist = near0 /\ \A i \in near0 : dist[i] \in Fractions
    BY <1>5
  <2> HIDE DEF dist, near0
  <2> QED BY <1>6, <1>7, <2>1, FirstNearestIsOne
<1>9. g \in Arrays /\ found[nearest] = OnEdge(p, g, closest) /\ dist[nearest] = closest.dist
  BY <1>3, <1>5, <1>8
<1>10. closest.dist.num = 0
  <2>1. dist[own] = found[own].dist /\ found[own].dist.num = 0
    BY <1>4, <1>5, <1>6
  <2>2. dist[own] \in Fractions /\ dist[nearest] \in Fractions
    BY <1>5, <1>6, <1>8
  <2> HIDE DEF dist, found, closest
  <2>3. dist[nearest].num = 0
    BY <1>8, <2>1, <2>2, NearestToNothing
  <2> QED BY <1>9, <2>3
<1> HIDE DEF dist, near0
<1>11. closest.segno \in 1..(Len(g) - 1) /\ closest.dist = DistanceSq(p, g[closest.segno], g[closest.segno + 1])
  BY <1>4, <1>9, ClosestIsSegment DEF Arrays
<1>12. ProjectsInside(p, g[closest.segno], g[closest.segno + 1])
  BY <1>1, <1>9 DEF OnEdge
<1>13. own \in DOMAIN job.edges /\ nearest \in DOMAIN job.edges
  BY <1>7, <1>8
<1> HIDE DEF found, closest, g, nearest
<1> DEFINE a == g[closest.segno]  b == g[closest.segno + 1]
<1>14. a \in Point /\ b \in Point
  <2>1. Len(g) \in Nat /\ \A i \in 1..Len(g) : g[i] \in Point
    BY <1>9, ArrayVertices DEF Arrays
  <2>2. closest.segno \in 1..Len(g) /\ closest.segno + 1 \in 1..Len(g)
    BY <1>11, <2>1
  <2> QED BY <2>1, <2>2
<1>15. Cross(a, b, p) = 0
  <2> HIDE DEF a, b
  <2>1. Cross(a, b, p) \in Int /\ LengthSq(a, b) \in Nat
    BY <1>4, <1>14, CrossIsInt, LengthIsNat
  <2>2. 0 < Dot(p, a, b) /\ Dot(p, a, b) < LengthSq(a, b) /\ Dot(p, a, b) \in Int
    <3>1. Dot(p, a, b) \in Int
      BY <1>4, <1>14 DEF Dot, Point
    <3> QED BY <1>12, <3>1 DEF ProjectsInside, a, b
  <2>3. DistanceSq(p, a, b) = [num |-> Cross(a, b, p) * Cross(a, b, p), den |-> LengthSq(a, b)]
    BY <2>1, <2>2 DEF DistanceSq
  <2>4. Cross(a, b, p) * Cross(a, b, p) = 0
    BY <1>10, <1>11, <2>3 DEF a, b
  <2>5. \A x \in Int : x * x = 0 => x = 0
    OBVIOUS
  <2> QED BY <2>1, <2>4, <2>5
<1> QED BY <1>2, <1>11, <1>12, <1>13, <1>15 DEF MeetAtVertices, g

\* What a step keeps of each array.
KeepsAdded ==
  \A k \in DOMAIN arrays :
    Vertices(arrays[k]) \cap UNION {Vertices(job.edges[i]) : i \in workedges}
      \subseteq Vertices(arrays'[k])

LEMMA StepKeepsAdded == SnapInv /\ [SnapNext]_snapVars => KeepsAdded
<1> SUFFICES ASSUME SnapInv, [SnapNext]_snapVars PROVE KeepsAdded
  OBVIOUS
<1>1. arrays \in Seq(Arrays) /\ Len(arrays) \in Nat /\ DOMAIN arrays = 1..Len(arrays)
  BY LenProperties DEF SnapInv
<1>2. current <= Len(arrays) => current \in 1..Len(arrays) /\ pa \in Arrays
  BY <1>1, ElementOfSeq DEF SnapInv, pa
<1>3. CASE arrays' = arrays
  BY <1>3 DEF KeepsAdded
<1>4. ASSUME NEW h, arrays' = [arrays EXCEPT ![current] = h],
             Vertices(pa) \cap UNION {Vertices(job.edges[i]) : i \in workedges} \subseteq Vertices(h)
      PROVE  KeepsAdded
  <2> SUFFICES ASSUME NEW k \in 1..Len(arrays)
               PROVE  Vertices(arrays[k]) \cap UNION {Vertices(job.edges[i]) : i \in workedges}
                        \subseteq Vertices(arrays'[k])
    BY <1>1 DEF KeepsAdded
  <2>1. CASE k = current
    <3>1. arrays'[k] = h /\ arrays[k] = pa
      BY <1>1, <1>4, <2>1 DEF pa
    <3> QED BY <1>4, <3>1
  <2>2. CASE k # current
    <3>1. arrays'[k] = arrays[k]
      BY <1>1, <1>4, <2>2
    <3> QED BY <3>1
  <2> QED BY <2>1, <2>2
<1>5. CASE Add
  <2>1. phase = "add" /\ workedges' = Known /\ current <= Len(arrays)
    BY <1>5 DEF Add, SnapInv
  <2> DEFINE found == ValidSnaps(pa, Known, extent)
  <2>2. AddVertex(found) \/ NothingToAdd(found)
    BY <1>5, <2>1 DEF Add
  <2>3. CASE AddVertex(found)
    <3>1. IsFiniteSet(found) /\ \A v \in found : /\ v.pt \in Point /\ v.pt \in EdgeVertices(job)
                             /\ v.segno \in 1..(Len(pa) - 1) /\ v.dist \in Fractions
                             /\ v = SnapVertex(v.pt, ClosestSegment(v.pt, pa))
      BY <1>2, <2>1, KnownAreEdges, SnapsOfArray DEF SnapInv
    <3> DEFINE first == FirstSnap(found)
    <3>2. found # {} /\ arrays' = [arrays EXCEPT ![current] = Snapped(pa, first)]
      BY <2>3 DEF AddVertex, pa
    <3> HIDE DEF found
    <3>3. first \in found
      BY <3>1, <3>2, FirstSnapIsOne
    <3> HIDE DEF first
    <3>4. Vertices(pa) \subseteq Vertices(Snapped(pa, first))
      <4>1. first.pt \in Point /\ first.segno \in 1..(Len(pa) - 1)
        BY <3>1, <3>3
      <4> QED BY <1>2, <2>1, <4>1, AddedVertex DEF Snapped
    <3> QED BY <1>4, <3>2, <3>4
  <2>4. CASE NothingToAdd(found)
    BY <1>3, <2>4 DEF NothingToAdd
  <2> QED BY <2>2, <2>3, <2>4
<1>6. CASE RemoveVertex
  <2>1. /\ phase = "remove" /\ vertex < Len(pa) /\ Removable(pa[vertex], Known)
        /\ arrays' = [arrays EXCEPT ![current] = RemoveAt(pa, vertex)]
    BY <1>6 DEF RemoveVertex, pa
  <2>2. current <= Len(arrays) /\ vertex \in Nat /\ 2 <= vertex /\ job \in Jobs
    BY <2>1 DEF SnapInv
  <2>3. Vertices(pa) \ {pa[vertex]} \subseteq Vertices(RemoveAt(pa, vertex))
    BY <1>2, <2>1, <2>2, RemovedVertex
  <2>4. ASSUME NEW i \in workedges PROVE pa[vertex] \notin Vertices(job.edges[i])
    <3>1. Known = workedges /\ workedges \in SUBSET DOMAIN job.edges
      BY DEF Known, SnapInv
    <3> QED BY <2>1, <2>2, <3>1, VertexIsNotRemovable
  <2> QED BY <1>4, <2>1, <2>3, <2>4
<1>7. CASE Visit \/ Finish \/ KeepVertex \/ EndRound \/ UNCHANGED snapVars
  BY <1>3, <1>7 DEF Visit, Finish, KeepVertex, EndRound, snapVars
<1> QED BY <1>5, <1>6, <1>7 DEF SnapNext

-----------------------------------------------------------------------------
(* Snapping: arrays settle.                                                *)

\* first[n] is the first of n sets that has an element.
FirstOf(first, sets, D) ==
  \A n \in Nat : \A i : i \in first[n] <=>
    i \in D /\ \E m \in 1..n : i \in sets[m] /\ \A l \in 1..(m - 1) : sets[l] = {}
SubsetsOf(k, sets, D) == \A m \in 1..k : sets[m] \subseteq D

LEMMA FirstWithAny ==
  ASSUME NEW k \in Nat \ {0}, NEW sets, NEW D, NEW first, SubsetsOf(k, sets, D), FirstOf(first, sets, D)
  PROVE  first[k] = IF first[k - 1] = {} THEN sets[k] ELSE first[k - 1]
<1> USE DEF FirstOf, SubsetsOf
<1>1. k - 1 \in Nat /\ k \in Nat /\ 1..(k - 1) \subseteq 1..k /\ k \in 1..k
  OBVIOUS
<1>2. \A m \in 1..k : m \in 1..(k - 1) \/ m = k
  OBVIOUS
<1>3. CASE first[k - 1] # {}
  <2>1. PICK m \in 1..(k - 1) : sets[m] # {}
    BY <1>1, <1>3
  <2>2. ASSUME NEW i \in first[k] PROVE i \in first[k - 1]
    <3>1. PICK n \in 1..k : i \in sets[n] /\ \A l \in 1..(n - 1) : sets[l] = {}
      BY <1>1, <2>2
    <3>2. n # k
      BY <2>1, <3>1
    <3> QED BY <1>1, <1>2, <2>2, <3>1, <3>2
  <2>3. first[k - 1] \subseteq first[k]
    BY <1>1
  <2>4. first[k] = first[k - 1]
    BY <2>2, <2>3
  <2> HIDE DEF FirstOf, SubsetsOf
  <2> QED BY <1>3, <2>4
<1>4. CASE first[k - 1] = {}
  <2> DEFINE some == {l \in 1..(k - 1) : sets[l] # {}}
  <2>1. some = {}
    <3> SUFFICES ASSUME some # {} PROVE FALSE
      OBVIOUS
    <3>1. PICK m \in some : \A l \in some : m <= l
      <4>1. some \in SUBSET Nat
        OBVIOUS
      <4> QED BY <4>1, LeastNumber
    <3>2. \A l \in 1..(m - 1) : sets[l] = {}
      <4> SUFFICES ASSUME NEW l \in 1..(m - 1), sets[l] # {} PROVE FALSE
        OBVIOUS
      <4>1. m \in 1..(k - 1)
        OBVIOUS
      <4>2. l \in 1..(k - 1) /\ ~ (m <= l)
        BY <1>1, <4>1
      <4> QED BY <3>1, <4>2
    <3>3. PICK i : i \in sets[m]
      OBVIOUS
    <3>4. i \in D /\ m \in 1..(k - 1)
      BY <1>1, <3>3
    <3>5. i \in first[k - 1]
      BY <1>1, <3>2, <3>3, <3>4
    <3> QED BY <1>4, <3>5
  <2>2. \A l \in 1..(k - 1) : sets[l] = {}
    BY <2>1
  <2>3. first[k] \subseteq sets[k]
    BY <1>1, <1>2, <2>2
  <2>4. sets[k] \subseteq first[k]
    BY <1>1, <2>2
  <2> HIDE DEF FirstOf, SubsetsOf
  <2>5. first[k] = sets[k]
    BY <2>3, <2>4
  <2> QED BY <1>4, <2>5
<1> QED BY <1>3, <1>4

LEMMA KnownGrows ==
  ASSUME NEW k \in Nat \ {0}
  PROVE  KnownFor(k) = IF KnownFor(k - 1) = {} THEN EdgesWithin(ExtentOf(k)) ELSE KnownFor(k - 1)
<1> DEFINE sets == [m \in 1..k |-> EdgesWithin(ExtentOf(m))]
           first == [n \in Nat |-> {i \in DOMAIN job.edges :
                       \E m \in 1..n : i \in sets[m] /\ \A l \in 1..(m - 1) : sets[l] = {}}]
<1>1. \A m \in 1..k : sets[m] \subseteq DOMAIN job.edges
  BY DEF EdgesWithin
<1>2. \A n \in 0..k : first[n] = KnownFor(n)
  <2> SUFFICES ASSUME NEW n \in 0..k PROVE first[n] = KnownFor(n)
    OBVIOUS
  <2>1. \A m \in 1..n : m \in 1..k /\ \A l \in 1..(m - 1) : l \in 1..k
    OBVIOUS
  <2>2. \A m \in 1..k : sets[m] = EdgesWithin(ExtentOf(m))
    OBVIOUS
  <2>3. first[n] = {i \in DOMAIN job.edges :
                       \E m \in 1..n : i \in sets[m] /\ \A l \in 1..(m - 1) : sets[l] = {}}
    OBVIOUS
  <2> HIDE DEF sets, first
  <2> QED BY <2>1, <2>2, <2>3 DEF KnownFor
<1> DEFINE edges == DOMAIN job.edges
<1>3. FirstOf(first, sets, edges)
  BY DEF FirstOf
<1>4. sets[k] = EdgesWithin(ExtentOf(k))
  OBVIOUS
<1> HIDE DEF sets, first, edges
<1>5. first[k] = IF first[k - 1] = {} THEN sets[k] ELSE first[k - 1]
  <2>1. SubsetsOf(k, sets, edges)
    BY <1>1 DEF SubsetsOf, edges
  <2> QED BY <1>3, <2>1, FirstWithAny
<1>6. k \in 0..k /\ k - 1 \in 0..k
  OBVIOUS
<1> QED BY <1>2, <1>4, <1>5, <1>6

\* The job stays, and what depends on nothing else.
LEMMA JobStays ==
  ASSUME UNCHANGED job
  PROVE  /\ \A k : KnownFor(k)' = KnownFor(k) /\ ExtentOf(k)' = ExtentOf(k)
         /\ \A g, edges, box : ValidSnaps(g, edges, box)' = ValidSnaps(g, edges, box)
         /\ \A p, edges : Removable(p, edges)' = Removable(p, edges)
<1>1. \A k : ExtentOf(k)' = ExtentOf(k)
  BY DEF ExtentOf
<1>2. \A box : EdgesWithin(box)' = EdgesWithin(box)
  BY DEF EdgesWithin
<1>3. \A k : KnownFor(k)' = KnownFor(k)
  BY <1>1, <1>2 DEF KnownFor
<1>4. \A g, edges, box : NearVertices(g, edges, box)' = NearVertices(g, edges, box)
  BY DEF NearVertices
<1>5. \A v, a, b, edges : IsValidSnap(v, a, b, edges)' = IsValidSnap(v, a, b, edges)
  BY DEF IsValidSnap, Covered
<1>6. \A g, edges, box : ValidSnaps(g, edges, box)' = ValidSnaps(g, edges, box)
  BY <1>4, <1>5 DEF ValidSnaps
<1>7. \A p, edges : Removable(p, edges)' = Removable(p, edges)
  BY DEF Removable
<1> QED BY <1>1, <1>3, <1>6, <1>7

\* What is left to visit is untouched.
Untouched ==
  \A k \in 1..Len(arrays) :
    k > current \/ (k = current /\ phase = "visit") => arrays[k] = job.arrays[k]

\* Which edges are known, and to which extent the visited array belongs.
EdgesKnown ==
  /\ phase = "visit" => workedges = KnownFor(current - 1)
  /\ phase = "add" => extent = ExtentOf(current) /\ workedges \in {KnownFor(current - 1), KnownFor(current)}
  /\ phase = "remove" => extent = ExtentOf(current) /\ workedges = KnownFor(current)

NothingAddable(g, k) == ValidSnaps(g, KnownFor(k), ExtentOf(k)) = {}
NothingRemovable(g, k, n) == \A i \in 2..n : ~ Removable(g[i], KnownFor(k))

\* A round of removals that removed nothing so far follows additions that
\* found nothing, and has kept the vertices it has passed.
RoundSettles ==
  phase = "remove" /\ job.iterate /\ removed = 0 =>
    NothingAddable(pa, current) /\ NothingRemovable(pa, current, vertex - 1)

Settled(k) ==
  /\ NothingAddable(arrays[k], k)
  /\ job.removal >= 0 => NothingRemovable(arrays[k], k, Len(arrays[k]) - 1)

SettleInv ==
  /\ Untouched /\ EdgesKnown /\ RoundSettles
  /\ job.iterate => \A k \in 1..Len(arrays) : k < current => Settled(k)

LEMMA KnownWhileVisited ==
  SnapInv /\ EdgesKnown /\ phase \in {"add", "remove"} => Known = KnownFor(current)
<1> SUFFICES ASSUME SnapInv, EdgesKnown, phase \in {"add", "remove"} PROVE Known = KnownFor(current)
  OBVIOUS
<1>1. current \in Nat \ {0}
  <2>1. Len(arrays) \in Nat
    BY LenProperties DEF SnapInv
  <2> QED BY <2>1 DEF SnapInv
<1>2. KnownFor(current) = IF KnownFor(current - 1) = {} THEN EdgesWithin(ExtentOf(current)) ELSE KnownFor(current - 1)
  BY <1>1, KnownGrows
<1>3. extent = ExtentOf(current) /\ workedges \in {KnownFor(current - 1), KnownFor(current)}
  BY DEF EdgesKnown
<1> QED BY <1>2, <1>3 DEF Known

LEMMA SettleInitially == SnapInit => SettleInv
<1> SUFFICES ASSUME SnapInit PROVE SettleInv
  OBVIOUS
<1>1. arrays = job.arrays /\ current = 1 /\ phase = "visit" /\ workedges = {}
  BY DEF SnapInit
<1>2. KnownFor(current - 1) = {}
  BY <1>1 DEF KnownFor
<1>3. SnapInv
  BY SnapInitially
<1>4. Len(arrays) \in Nat
  BY <1>3, LenProperties DEF SnapInv
<1>5. \A k \in 1..Len(arrays) : ~ (k < current)
  BY <1>1, <1>4
<1> QED BY <1>1, <1>2, <1>5 DEF SettleInv, Untouched, EdgesKnown, RoundSettles

LEMMA SettledStays ==
  ASSUME UNCHANGED job, NEW k, arrays'[k] = arrays[k], Settled(k)
  PROVE  Settled(k)'
<1>1. /\ KnownFor(k)' = KnownFor(k) /\ ExtentOf(k)' = ExtentOf(k)
      /\ \A g, edges, box : ValidSnaps(g, edges, box)' = ValidSnaps(g, edges, box)
      /\ \A p, edges : Removable(p, edges)' = Removable(p, edges)
  BY JobStays
<1>2. NothingAddable(arrays[k], k)'
  BY <1>1 DEF Settled, NothingAddable
<1>3. \A n : NothingRemovable(arrays[k], k, n) => NothingRemovable(arrays[k], k, n)'
  BY <1>1 DEF NothingRemovable
<1>4. job.removal >= 0 => NothingRemovable(arrays[k], k, Len(arrays[k]) - 1)'
  BY <1>3 DEF Settled
<1> QED BY <1>2, <1>4 DEF Settled

\* What is the same for every step that works on the visited array: the
\* arrays before it stay, and those after it are not touched.
LEMMA OthersStay ==
  ASSUME SnapInv, SettleInv, UNCHANGED job, current <= Len(arrays), phase \in {"add", "remove"},
         NEW h, arrays' = [arrays EXCEPT ![current] = h],
         \/ phase' \in {"add", "remove"} /\ current' = current
         \/ phase' = "visit" /\ current' = current + 1 /\ (job.iterate => h = pa /\ Settled(current))
  PROVE  /\ Untouched'
         /\ job'.iterate => \A k \in 1..Len(arrays') : k < current' => Settled(k)'
<1>1. /\ arrays \in Seq(Arrays) /\ Len(arrays) \in Nat /\ DOMAIN arrays = 1..Len(arrays)
      /\ current \in 1..Len(arrays)
  BY LenProperties DEF SnapInv
<1>2. Len(arrays') = Len(arrays)
  BY <1>1
<1>3. \A k \in 1..Len(arrays) : k # current => arrays'[k] = arrays[k]
  BY <1>1
<1>4. Untouched'
  <2> SUFFICES ASSUME NEW k \in 1..Len(arrays), k > current' \/ (k = current' /\ phase' = "visit")
               PROVE  arrays'[k] = job'.arrays[k]
    BY <1>2 DEF Untouched
  <2>1. k > current
    BY <1>1
  <2>2. k # current
    BY <1>1, <2>1
  <2> QED BY <1>3, <2>1, <2>2 DEF SettleInv, Untouched
<1>5. ASSUME job.iterate, NEW k \in 1..Len(arrays), k < current' PROVE Settled(k)'
  <2>1. CASE k < current
    <3>1. Settled(k)
      BY <1>5, <2>1 DEF SettleInv
    <3>2. k # current
      BY <1>1, <2>1
    <3> QED BY <1>3, <3>1, <3>2, SettledStays
  <2>2. CASE ~ (k < current)
    <3>1. k = current /\ h = pa /\ Settled(current)
      BY <1>1, <1>5, <2>2
    <3>2. arrays'[k] = arrays[k]
      BY <1>1, <3>1 DEF pa
    <3> QED BY <3>1, <3>2, SettledStays
  <2> QED BY <2>1, <2>2
<1> QED BY <1>2, <1>4, <1>5

LEMMA SettleStep == SnapInv /\ SettleInv /\ [SnapNext]_snapVars => SettleInv'
<1> SUFFICES ASSUME SnapInv, SettleInv, [SnapNext]_snapVars PROVE SettleInv'
  OBVIOUS
<1>1. /\ arrays \in Seq(Arrays) /\ Len(arrays) \in Nat /\ DOMAIN arrays = 1..Len(arrays)
      /\ current \in 1..(Len(arrays) + 1) /\ current \in Nat \ {0} /\ (current + 1) - 1 = current
  BY LenProperties DEF SnapInv
<1>2. UNCHANGED job
  BY DEF SnapNext, Visit, Finish, Add, RemoveVertex, KeepVertex, EndRound, snapVars
<1>3. /\ \A k : KnownFor(k)' = KnownFor(k) /\ ExtentOf(k)' = ExtentOf(k)
      /\ \A g, edges, box : ValidSnaps(g, edges, box)' = ValidSnaps(g, edges, box)
      /\ \A p, edges : Removable(p, edges)' = Removable(p, edges)
  BY <1>2, JobStays
<1>4. /\ \A g, k : NothingAddable(g, k)' <=> NothingAddable(g, k)
      /\ \A g, k, n : NothingRemovable(g, k, n)' <=> NothingRemovable(g, k, n)
  BY <1>3 DEF NothingAddable, NothingRemovable
<1>5. [arrays EXCEPT ![current] = pa] = arrays
  BY <1>1 DEF pa
<1>6. UNCHANGED <<arrays, current>> /\ (phase' = "visit" => phase = "visit") =>
        /\ Untouched'
        /\ job'.iterate => \A k \in 1..Len(arrays') : k < current' => Settled(k)'
  <2>1. SUFFICES ASSUME UNCHANGED <<arrays, current>>, phase' = "visit" => phase = "visit"
                 PROVE  /\ Untouched'
                        /\ job'.iterate => \A k \in 1..Len(arrays') : k < current' => Settled(k)'
    OBVIOUS
  <2>2. Untouched'
    BY <1>2, <2>1 DEF SettleInv, Untouched
  <2>3. ASSUME job.iterate, NEW k \in 1..Len(arrays), k < current PROVE Settled(k)'
    <3>1. Settled(k)
      BY <2>3 DEF SettleInv
    <3> QED BY <1>2, <2>1, <3>1, SettledStays
  <2> QED BY <1>2, <2>1, <2>2, <2>3
<1>7. phase \in {"add", "remove"} => Known = KnownFor(current) /\ extent = ExtentOf(current) /\ current <= Len(arrays)
  BY KnownWhileVisited DEF SettleInv, EdgesKnown, SnapInv
<1>8. CASE Visit
  <2>1. /\ phase = "visit" /\ current <= Len(arrays) /\ phase' = "add"
        /\ extent' = Expanded(LineBox(pa), job.snap)
        /\ UNCHANGED <<arrays, current, workedges>>
    BY <1>8 DEF Visit
  <2>2. pa = job.arrays[current]
    BY <1>1, <2>1 DEF SettleInv, Untouched, pa
  <2>3. EdgesKnown'
    BY <1>3, <2>1, <2>2 DEF SettleInv, EdgesKnown, ExtentOf
  <2> QED BY <1>6, <2>1, <2>3 DEF SettleInv, RoundSettles
<1>9. CASE Finish
  <2>1. phase' = "done" /\ UNCHANGED <<arrays, current>>
    BY <1>9 DEF Finish
  <2> QED BY <1>6, <2>1 DEF SettleInv, RoundSettles, EdgesKnown
<1>10. CASE Add
  <2>1. phase = "add" /\ workedges' = Known /\ UNCHANGED extent
    BY <1>10 DEF Add
  <2>2. workedges' = KnownFor(current) /\ extent' = ExtentOf(current) /\ current <= Len(arrays)
    BY <1>7, <2>1
  <2> DEFINE found == ValidSnaps(pa, Known, extent)
  <2>3. AddVertex(found) \/ NothingToAdd(found)
    BY <1>10, <2>1 DEF Add
  <2>4. CASE AddVertex(found) /\ job.iterate
    <3> DEFINE h == Snapped(pa, FirstSnap(found))
    <3>1. arrays' = [arrays EXCEPT ![current] = h] /\ UNCHANGED <<phase, current>>
      BY <2>4 DEF AddVertex, pa
    <3> HIDE DEF h
    <3>2. /\ Untouched'
          /\ job'.iterate => \A k \in 1..Len(arrays') : k < current' => Settled(k)'
      BY <1>2, <2>1, <2>2, <3>1, OthersStay
    <3>3. EdgesKnown' /\ RoundSettles'
      BY <1>3, <2>1, <2>2, <3>1 DEF EdgesKnown, RoundSettles
    <3> QED BY <3>2, <3>3 DEF SettleInv
  <2>5. CASE AddVertex(found) /\ ~ job.iterate
    <3> DEFINE h == Snapped(pa, FirstSnap(found))
    <3>1. arrays' = [arrays EXCEPT ![current] = h] /\ StartRemoving
      BY <2>5 DEF AddVertex, pa
    <3> HIDE DEF h
    <3>2. (phase' = "remove" /\ current' = current) \/ (phase' = "visit" /\ current' = current + 1)
      BY <3>1 DEF StartRemoving, Leave
    <3>3. /\ Untouched'
          /\ job'.iterate => \A k \in 1..Len(arrays') : k < current' => Settled(k)'
      BY <1>2, <2>1, <2>2, <2>5, <3>1, <3>2, OthersStay
    <3>4. EdgesKnown'
      BY <1>1, <1>3, <2>2, <3>2 DEF EdgesKnown
    <3>5. RoundSettles'
      BY <1>2, <2>5 DEF RoundSettles
    <3> QED BY <3>3, <3>4, <3>5 DEF SettleInv
  <2>6. CASE NothingToAdd(found)
    <3>1. found = {} /\ StartRemoving /\ arrays' = arrays
      BY <2>6 DEF NothingToAdd
    <3>2. NothingAddable(pa, current)
      BY <1>7, <2>1, <3>1 DEF NothingAddable
    <3>3. CASE phase' = "remove" /\ current' = current
      <4>1. vertex' = 2
        BY <3>1 DEF StartRemoving
      <4>2. NothingRemovable(pa, current, 2 - 1)
        BY DEF NothingRemovable
      <4>3. RoundSettles'
        <5>1. NothingAddable(pa, current)' /\ NothingRemovable(pa, current, 2 - 1)'
          BY <1>4, <3>1, <3>2, <3>3, <4>2 DEF pa, NothingAddable, NothingRemovable
        <5> QED BY <4>1, <5>1 DEF RoundSettles
      <4>4. EdgesKnown'
        BY <1>3, <2>2, <3>3 DEF EdgesKnown
      <4> QED BY <1>6, <3>1, <3>3, <4>3, <4>4 DEF SettleInv
    <3>4. CASE phase' = "visit" /\ current' = current + 1 /\ ~ (job.removal >= 0)
      <4>1. Settled(current)
        BY <3>2, <3>4 DEF Settled, pa
      <4>2. /\ Untouched'
            /\ job'.iterate => \A k \in 1..Len(arrays') : k < current' => Settled(k)'
        BY <1>2, <1>5, <2>1, <2>2, <3>1, <3>4, <4>1, OthersStay
      <4>3. EdgesKnown' /\ RoundSettles'
        BY <1>1, <1>3, <2>2, <3>4 DEF EdgesKnown, RoundSettles
      <4> QED BY <4>2, <4>3 DEF SettleInv
    <3> QED BY <3>1, <3>3, <3>4 DEF StartRemoving, Leave
  <2> QED BY <2>3, <2>4, <2>5, <2>6
<1>11. CASE RemoveVertex
  <2> DEFINE h == RemoveAt(pa, vertex)
  <2>1. /\ phase = "remove" /\ workedges' = Known /\ removed' = removed + 1
        /\ arrays' = [arrays EXCEPT ![current] = h] /\ UNCHANGED <<current, phase, extent>>
    BY <1>11 DEF RemoveVertex, pa
  <2> HIDE DEF h
  <2>2. /\ Untouched'
        /\ job'.iterate => \A k \in 1..Len(arrays') : k < current' => Settled(k)'
    BY <1>2, <1>7, <2>1, OthersStay
  <2>3. removed' # 0
    BY <2>1 DEF SnapInv
  <2>4. EdgesKnown' /\ RoundSettles'
    BY <1>3, <1>7, <2>1, <2>3 DEF EdgesKnown, RoundSettles
  <2> QED BY <2>2, <2>4 DEF SettleInv
<1>12. CASE KeepVertex
  <2>1. /\ phase = "remove" /\ workedges' = Known /\ vertex' = vertex + 1
        /\ ~ Removable(pa[vertex], Known) /\ UNCHANGED <<arrays, current, phase, extent, removed>>
    BY <1>12 DEF KeepVertex
  <2>2. EdgesKnown'
    BY <1>3, <1>7, <2>1 DEF EdgesKnown
  <2>3. RoundSettles'
    <3> SUFFICES ASSUME job.iterate, removed = 0
                 PROVE  NothingAddable(pa, current)' /\ NothingRemovable(pa, current, vertex - 1)'
      BY <1>2, <2>1 DEF RoundSettles
    <3>1. NothingAddable(pa, current) /\ NothingRemovable(pa, current, vertex - 1)
      BY <2>1 DEF SettleInv, RoundSettles
    <3>2. \A i \in 2..((vertex + 1) - 1) : i \in 2..(vertex - 1) \/ i = vertex
      BY DEF SnapInv
    <3>3. NothingRemovable(pa, current, (vertex + 1) - 1)
      BY <1>7, <2>1, <3>1, <3>2 DEF NothingRemovable
    <3>4. UNCHANGED <<pa, current>>
      BY <2>1 DEF pa
    <3> QED BY <1>3, <2>1, <3>1, <3>3, <3>4 DEF NothingAddable, NothingRemovable
  <2> QED BY <1>6, <2>1, <2>2, <2>3 DEF SettleInv
<1>13. CASE EndRound
  <2>1. /\ phase = "remove" /\ vertex >= Len(pa) /\ workedges' = Known
        /\ UNCHANGED <<arrays, extent, vertex, removed>>
    BY <1>13 DEF EndRound
  <2>2. CASE phase' = "add" /\ UNCHANGED current
    <3>1. EdgesKnown' /\ RoundSettles'
      BY <1>3, <1>7, <2>1, <2>2 DEF EdgesKnown, RoundSettles
    <3> QED BY <1>6, <2>1, <2>2, <3>1 DEF SettleInv
  <2>3. CASE ~ (removed > 0 /\ job.iterate) /\ phase' = "visit" /\ current' = current + 1
    <3>1. ASSUME job.iterate PROVE Settled(current)
      <4>1. removed = 0
        BY <2>3, <3>1 DEF SnapInv
      <4>2. NothingAddable(pa, current) /\ NothingRemovable(pa, current, vertex - 1)
        BY <2>1, <3>1, <4>1 DEF SettleInv, RoundSettles
      <4>3. Len(pa) \in Nat /\ vertex \in Nat
        <5>1. pa \in Arrays
          BY <1>1, <1>7, <2>1, ElementOfSeq DEF pa
        <5> QED BY <5>1, LenProperties DEF Arrays, SnapInv
      <4>4. \A i \in 2..(Len(pa) - 1) : i \in 2..(vertex - 1)
        BY <2>1, <4>3
      <4> QED BY <4>2, <4>4 DEF Settled, NothingRemovable, pa
    <3>2. /\ Untouched'
          /\ job'.iterate => \A k \in 1..Len(arrays') : k < current' => Settled(k)'
      BY <1>2, <1>5, <1>7, <2>1, <2>3, <3>1, OthersStay
    <3>3. EdgesKnown' /\ RoundSettles'
      BY <1>1, <1>3, <1>7, <2>1, <2>3 DEF EdgesKnown, RoundSettles
    <3> QED BY <3>2, <3>3 DEF SettleInv
  <2> QED BY <1>13, <2>2, <2>3 DEF EndRound, Leave
<1>14. CASE UNCHANGED snapVars
  <2>1. UNCHANGED <<arrays, current, phase, extent, workedges, vertex, removed>>
    BY <1>14 DEF snapVars
  <2>2. EdgesKnown'
    BY <1>3, <2>1 DEF SettleInv, EdgesKnown
  <2>3. RoundSettles'
    BY <1>2, <1>3, <2>1 DEF SettleInv, RoundSettles, NothingAddable, NothingRemovable, pa
  <2> QED BY <1>6, <2>1, <2>2, <2>3 DEF SettleInv
<1> QED BY <1>8, <1>9, <1>10, <1>11, <1>12, <1>13, <1>14 DEF SnapNext

LEMMA SettleInvSuffices == SnapInv /\ SettleInv => SnapSettles
<1> SUFFICES ASSUME SnapInv, SettleInv, NEW k \in DOMAIN arrays, FinishedArray(k), job.iterate
             PROVE  /\ ValidSnaps(arrays[k], KnownFor(k), ExtentOf(k)) = {}
                    /\ job.removal >= 0 =>
                         \A i \in 2..(Len(arrays[k]) - 1) : ~ Removable(arrays[k][i], KnownFor(k))
  BY DEF SnapSettles
<1>1. k \in 1..Len(arrays)
  BY LenProperties DEF SnapInv
<1>2. Settled(k)
  BY <1>1 DEF SettleInv, FinishedArray
<1> QED BY <1>2 DEF Settled, NothingAddable, NothingRemovable

\* Whatever the arrays, edges and tolerances of a job are, and however often
\* additions and removals make room for each other: no end of an array moves,
\* and every vertex of it was one of the array or is one of an edge.  This is
\* _rtgeom_tpsnap_ptarray with its insertions after the closest segment and
\* its removals between the second vertex and the last but one.
THEOREM SnappingKeepsEnds == SnapSpec => [](SnapTypeOK /\ SnapKeepsEnds)
<1>1. SnapInit => SnapInv
  BY SnapInitially
<1>2. SnapInv /\ [SnapNext]_snapVars => SnapInv'
  BY SnapStep
<1>3. SnapInv => SnapTypeOK /\ SnapKeepsEnds
  BY SnapInvSuffices
<1> QED BY <1>1, <1>2, <1>3, PTL DEF SnapSpec

\* rtt_tpsnap: no vertex of an edge that is worked with is removed from the
\* geometry, so what the additions put in is not lost again to the removals.
THEOREM SnappingKeepsAdded == SnapSpec => SnapKeepsAdded
<1>1. SnapInit => SnapInv
  BY SnapInitially
<1>2. SnapInv /\ [SnapNext]_snapVars => SnapInv'
  BY SnapStep
<1>3. SnapInv /\ [SnapNext]_snapVars => [KeepsAdded]_snapVars
  BY StepKeepsAdded
<1> QED BY <1>1, <1>2, <1>3, PTL DEF SnapSpec, SnapKeepsAdded, KeepsAdded

\* With `iterate`, whatever was added and removed: an array that was left is
\* one to which no vertex of the edges known to it can be added, and from which
\* none of its own can be removed.  This is the loop of _rtgeom_tpsnap_ptarray,
\* which goes round until a pass of removals has removed nothing, and the
\* edges that rtgeom_tpsnap_state_get_edges keeps from array to array.
THEOREM SnappingSettles == SnapSpec => []SnapSettles
<1>1. SnapInit => SnapInv /\ SettleInv
  BY SnapInitially, SettleInitially
<1>2. SnapInv /\ SettleInv /\ [SnapNext]_snapVars => SnapInv' /\ SettleInv'
  BY SnapStep, SettleStep
<1>3. SnapInv /\ SettleInv => SnapSettles
  BY SettleInvSuffices
<1> QED BY <1>1, <1>2, <1>3, PTL DEF SnapSpec

-----------------------------------------------------------------------------
(* Simplifying.                                                            *)

\* Pushing onto a sequence and popping from one.
LEMMA Pushed ==
  ASSUME NEW s \in Seq(Nat), NEW x \in Nat
  PROVE  /\ Append(s, x) \in Seq(Nat) /\ Append(s, x) # <<>>
         /\ Len(Append(s, x)) = Len(s) + 1 /\ Append(s, x)[Len(s) + 1] = x
         /\ \A i \in 1..Len(s) : Append(s, x)[i] = s[i]
<1>1. /\ Append(s, x) \in Seq(Nat) /\ Len(Append(s, x)) = Len(s) + 1
      /\ \A i \in 1..Len(s) : Append(s, x)[i] = s[i]
      /\ Append(s, x)[Len(s) + 1] = x
  BY AppendProperties
<1>2. Len(s) \in Nat
  BY LenProperties
<1> QED BY <1>1, <1>2, EmptySeq

LEMMA Popped ==
  ASSUME NEW s \in Seq(Nat), s # <<>>
  PROVE  /\ SubSeq(s, 1, Len(s) - 1) \in Seq(Nat)
         /\ Len(SubSeq(s, 1, Len(s) - 1)) = Len(s) - 1
         /\ \A i \in 1..(Len(s) - 1) : SubSeq(s, 1, Len(s) - 1)[i] = s[i]
<1>1. Len(s) \in Nat \ {0}
  BY EmptySeq
<1>2. \A i \in 1..(Len(s) - 1) : s[i] \in Nat
  BY <1>1, ElementOfSeq
<1>3. /\ SubSeq(s, 1, Len(s) - 1) \in Seq(Nat)
      /\ Len(SubSeq(s, 1, Len(s) - 1)) = IF 1 <= Len(s) - 1 THEN Len(s) - 1 - 1 + 1 ELSE 0
      /\ \A i \in 1..(Len(s) - 1 - 1 + 1) : SubSeq(s, 1, Len(s) - 1)[i] = s[1 + i - 1]
  BY <1>1, <1>2, SubSeqProperties
<1>4. \A n \in Nat \ {0} : n - 1 - 1 + 1 = n - 1 /\ (1 <= n - 1 \/ n - 1 = 0)
  OBVIOUS
<1>5. \A i \in 1..(Len(s) - 1) : 1 + i - 1 = i
  BY <1>1
<1> QED BY <1>1, <1>3, <1>4, <1>5

LEMMA EmptyIffLength ==
  ASSUME NEW s \in Seq(Nat)
  PROVE  Len(s) \in Nat /\ (s = <<>> <=> Len(s) = 0)
<1> QED BY EmptySeq, LenProperties

\* What the loop knows between two steps.  A point is fresh when none between
\* the last one visited and it, the former included, is equal to it: written,
\* it is not dropped.  All points of the stack are, but its lowest and one next
\* to the last visited (StackFresh); so no point that still counts for minpts
\* is lost to dropping but the last one (OutOK), and before minpts points count
\* none was left out.
Fresh(k) == \A m \in p1..(k - 1) : same[m] # same[k]
StackFresh ==
  \A j \in 2..Len(stack) : Fresh(stack[j]) \/ (j = Len(stack) /\ stack[j] = p1 + 1)
AllWritten ==
  \A q \in 2..p1 : same[q] = same[q - 1] \/ \E i \in 1..Len(out) : out[i] = q
Counted == Len(out) + Len(stack) >= minpts /\ (Len(stack) = 1 \/ Fresh(Top))

LoopTypeOK ==
  /\ npoints \in Nat /\ npoints >= 2 /\ minpts \in Nat /\ near \subseteq Gaps(npoints)
  /\ same \in [1..npoints -> 1..npoints]
  /\ out \in Seq(Nat) /\ out # <<>> /\ p1 \in 1..npoints
  /\ stack \in Seq(Nat)
OutOK ==
  /\ LastWritten \in 1..p1 /\ same[LastWritten] = same[p1]
  /\ stack = <<>> \/ AllWritten \/ Counted
SimplifyInv == LoopTypeOK /\ StackOK /\ StackFresh /\ OutOK

\* SimplifyInit establishes the inductive invariant.
LEMMA SimplifyInitInv == SimplifyInit => SimplifyInv
<1> SUFFICES ASSUME SimplifyInit PROVE SimplifyInv
  OBVIOUS
<1> USE DEF SimplifyInit
<1>1. npoints \in Nat /\ npoints >= 2 /\ minpts \in Nat /\ same \in [1..npoints -> 1..npoints]
  BY MaxPointsAssumption DEF Equalities
<1>2. LoopTypeOK
  BY <1>1 DEF LoopTypeOK
<1>3. StackOK
  BY <1>1 DEF StackOK
<1>4. StackFresh
  BY DEF StackFresh
<1>5. OutOK
  BY <1>1 DEF OutOK, LastWritten, AllWritten
<1> QED BY <1>2, <1>3, <1>4, <1>5 DEF SimplifyInv

\* StackOK read as facts about lengths and elements.
LEMMA StackFacts ==
  ASSUME SimplifyInv, stack # <<>>
  PROVE  /\ Len(stack) \in Nat \ {0} /\ Len(out) \in Nat \ {0}
         /\ Top = stack[Len(stack)] /\ Top \in Nat
         /\ p1 < Top /\ Top <= npoints + 1 - Len(stack)
         /\ \A i \in 1..Len(stack) :
              /\ stack[i] \in Nat /\ p1 < stack[i] /\ stack[i] <= npoints + 1 - i
              /\ i = Len(stack) \/ Top < stack[i]
         /\ stack[1] = npoints
<1> USE DEF SimplifyInv, LoopTypeOK
<1>1. Len(stack) \in Nat \ {0} /\ Len(out) \in Nat \ {0}
  BY EmptyIffLength
<1>2. Top = stack[Len(stack)]
  BY DEF Top
<1>3. \A i \in 1..Len(stack) :
        /\ stack[i] \in (p1 + 1)..(npoints + 1 - i)
        /\ i < Len(stack) => stack[Len(stack)] < stack[i]
  BY <1>1 DEF StackOK
<1>4. stack[1] = npoints
  BY DEF StackOK
<1>5. p1 \in Nat /\ npoints \in Nat
  OBVIOUS
<1>6. \A i \in 1..Len(stack) :
        /\ stack[i] \in Nat /\ p1 < stack[i] /\ stack[i] <= npoints + 1 - i
        /\ i = Len(stack) \/ Top < stack[i]
  <2> SUFFICES ASSUME NEW i \in 1..Len(stack)
               PROVE  /\ stack[i] \in Nat /\ p1 < stack[i] /\ stack[i] <= npoints + 1 - i
                      /\ i = Len(stack) \/ Top < stack[i]
    OBVIOUS
  <2> HIDE DEF SimplifyInv, LoopTypeOK
  <2>1. stack[i] \in (p1 + 1)..(npoints + 1 - i) /\ (i < Len(stack) => Top < stack[i])
    BY <1>2, <1>3
  <2>2. i = Len(stack) \/ i < Len(stack)
    BY <1>1
  <2> QED BY <1>1, <1>5, <2>1, <2>2
<1>7. Len(stack) \in 1..Len(stack)
  BY <1>1
<1> QED BY <1>1, <1>2, <1>4, <1>6, <1>7

\* The farthest point between the last one written and the top of the stack
\* fits on the stack, above it.
LEMMA SplitKeepsInv == ASSUME SimplifyInv, NEW k \in 1..npoints, Split(k) PROVE SimplifyInv'
<1> DEFINE n == Len(stack)
<1>1. /\ stack # <<>> /\ p1 < k /\ k < Top /\ stack' = Append(stack, k)
      /\ UNCHANGED <<npoints, minpts, same, near, out, p1>>
  BY DEF Split, Farthest
<1>2. /\ npoints \in Nat /\ p1 \in Nat /\ p1 >= 1 /\ k \in Nat /\ stack \in Seq(Nat) /\ minpts \in Nat
  BY DEF SimplifyInv, LoopTypeOK
<1>3. /\ stack' \in Seq(Nat) /\ stack' # <<>> /\ Len(stack') = n + 1 /\ stack'[n + 1] = k
      /\ \A i \in 1..n : stack'[i] = stack[i]
  BY <1>1, <1>2, Pushed
<1>4. /\ n \in Nat \ {0} /\ Len(out) \in Nat /\ Top \in Nat /\ Top <= npoints + 1 - n
      /\ \A i \in 1..n : /\ stack[i] \in Nat /\ p1 < stack[i] /\ stack[i] <= npoints + 1 - i
                         /\ i = n \/ Top < stack[i]
      /\ stack[1] = npoints /\ Top = stack[n]
  BY <1>1, StackFacts
<1> HIDE DEF n
<1>5. LoopTypeOK'
  BY <1>1, <1>3 DEF SimplifyInv, LoopTypeOK
<1>12. p1 < k /\ k < Top
  BY <1>1
<1>6. \A i \in 1..n : k < stack[i]
  <2> SUFFICES ASSUME NEW i \in 1..n PROVE k < stack[i]
    OBVIOUS
  <2>1. CASE i = n
    BY <1>4, <1>12, <2>1
  <2>2. CASE i # n
    <3>1. Top < stack[i] /\ stack[i] \in Nat /\ Top \in Nat
      BY <1>4, <2>2
    <3> QED BY <1>2, <1>12, <3>1
  <2> QED BY <2>1, <2>2
<1>7. \A i \in 1..(n + 1) : stack'[i] \in (p1 + 1)..(npoints + 1 - i)
  <2> SUFFICES ASSUME NEW i \in 1..(n + 1) PROVE stack'[i] \in (p1 + 1)..(npoints + 1 - i)
    OBVIOUS
  <2>1. CASE i = n + 1
    <3>1. k <= npoints + 1 - i
      BY <1>2, <1>4, <1>12, <2>1
    <3>2. stack'[i] = k
      BY <1>3, <2>1
    <3> QED BY <1>2, <1>12, <3>1, <3>2
  <2>2. CASE i # n + 1
    <3>1. i \in 1..n
      BY <1>4, <2>2
    <3>2. /\ stack'[i] = stack[i] /\ stack[i] \in Nat
          /\ p1 < stack[i] /\ stack[i] <= npoints + 1 - i
      BY <1>3, <1>4, <3>1
    <3> QED BY <1>2, <3>2
  <2> QED BY <2>1, <2>2
<1>8. \A i, j \in 1..(n + 1) : i < j => stack'[j] < stack'[i]
  <2>1. \A i, j \in 1..n : i < j => stack[j] < stack[i]
    BY DEF SimplifyInv, StackOK, n
  <2> SUFFICES ASSUME NEW i \in 1..(n + 1), NEW j \in 1..(n + 1), i < j
               PROVE  stack'[j] < stack'[i]
    OBVIOUS
  <2>2. CASE j = n + 1
    <3>1. i \in 1..n
      BY <1>4, <2>2
    <3> QED BY <1>3, <1>6, <2>2, <3>1
  <2>3. CASE j # n + 1
    <3>1. i \in 1..n /\ j \in 1..n
      BY <1>4, <2>3
    <3> QED BY <1>3, <2>1, <3>1
  <2> QED BY <2>2, <2>3
<1>9. stack'[1] = npoints' /\ n + 1 < npoints'
  <2>1. stack'[1] = stack[1] /\ npoints' = npoints
    BY <1>1, <1>3, <1>4
  <2>2. n + 1 < npoints
    BY <1>2, <1>4, <1>12
  <2> QED BY <1>4, <2>1, <2>2
<1>10. StackOK'
  BY <1>1, <1>3, <1>7, <1>8, <1>9 DEF StackOK
<1>11. Fresh(k) \/ (k = p1 + 1 /\ <<p1, Top>> \in near)
  BY DEF Split, Farthest, Fresh
<1>13. Top' = k
  BY <1>3 DEF Top
<1>14. \A x : Fresh(x)' <=> Fresh(x)
  BY <1>1 DEF Fresh
<1>15. StackFresh'
  <2>1. p1 + 1 < Top
    BY DEF Split, MustSplit
  <2> SUFFICES ASSUME NEW j \in 2..(n + 1)
               PROVE  Fresh(stack'[j]) \/ (j = n + 1 /\ stack'[j] = p1 + 1)
    BY <1>1, <1>3, <1>14 DEF StackFresh
  <2>2. CASE j = n + 1
    BY <1>3, <1>11, <2>2
  <2>3. CASE j # n + 1
    <3>1. j \in 2..n /\ stack'[j] = stack[j]
      BY <1>3, <1>4, <2>3
    <3>2. Fresh(stack[j]) \/ (j = n /\ stack[j] = p1 + 1)
      BY <3>1 DEF SimplifyInv, StackFresh, n
    <3>3. j = n => stack[j] # p1 + 1
      BY <1>2, <1>4, <2>1
    <3> QED BY <3>1, <3>2, <3>3
  <2> QED BY <2>2, <2>3
<1>16. OutOK'
  <2>1. /\ LastWritten \in 1..p1 /\ same[LastWritten] = same[p1]
        /\ AllWritten \/ Counted
    BY <1>1 DEF SimplifyInv, OutOK
  <2>2. LastWritten' \in 1..p1' /\ (same[LastWritten] = same[p1])'
    BY <1>1, <2>1 DEF LastWritten
  <2>3. CASE AllWritten
    <3>1. AllWritten'
      BY <1>1, <2>3 DEF AllWritten
    <3> QED BY <2>2, <3>1 DEF OutOK
  <2>4. CASE Counted
    <3>1. Len(out) + n >= minpts
      BY <2>4 DEF Counted, n
    <3>2. <<p1, Top>> \notin near
      BY <1>2, <1>4, <3>1 DEF Split, MustSplit, n
    <3>3. Len(out)' + Len(stack') >= minpts'
      BY <1>1, <1>2, <1>3, <1>4, <3>1
    <3>4. Fresh(Top)'
      BY <1>11, <1>13, <1>14, <3>2
    <3>5. Counted'
      BY <3>3, <3>4 DEF Counted
    <3> QED BY <2>2, <3>5 DEF OutOK
  <2> QED BY <2>1, <2>3, <2>4
<1> QED BY <1>5, <1>10, <1>15, <1>16 DEF SimplifyInv

\* What writing the top of the stack does to the output: it is dropped when
\* it equals the last point visited.
LEMMA TopWritten ==
  ASSUME SimplifyInv, WriteTop
  PROVE  /\ out' \in Seq(Nat) /\ out' # <<>> /\ Len(out') \in Nat
         /\ \A i \in 1..Len(out) : i \in 1..Len(out') /\ out'[i] = out[i]
         /\ IF same[Top] = same[p1]
            THEN out' = out
            ELSE Len(out') = Len(out) + 1 /\ out'[Len(out)+1] = Top /\ LastWritten' = Top
<1>1. /\ stack # <<>> /\ LastWritten \in 1..p1 /\ same[LastWritten] = same[p1]
      /\ out' = IF same[Top] = same[LastWritten] THEN out ELSE Append(out, Top)
  BY DEF SimplifyInv, OutOK, WriteTop
<1>2. out \in Seq(Nat) /\ out # <<>> /\ Len(out) \in Nat \ {0} /\ Top \in Nat
  BY <1>1, StackFacts DEF SimplifyInv, LoopTypeOK
<1>3. CASE same[Top] = same[p1]
  BY <1>1, <1>2, <1>3
<1>4. CASE same[Top] # same[p1]
  <2>1. /\ out' \in Seq(Nat) /\ out' # <<>> /\ Len(out') = Len(out) + 1
        /\ out'[Len(out) + 1] = Top /\ \A i \in 1..Len(out) : out'[i] = out[i]
    BY <1>1, <1>2, <1>4, Pushed
  <2>2. LastWritten' = Top
    BY <2>1 DEF LastWritten
  <2>3. \A i \in 1..Len(out) : i \in 1..Len(out')
    BY <1>2, <2>1
  <2> QED BY <1>2, <1>4, <2>1, <2>2, <2>3
<1> QED BY <1>3, <1>4

\* When the top is written, either no point up to it is missing, or enough
\* points count, and it is dropped only if it is the last.
LEMMA WrittenOrCounted ==
  ASSUME SimplifyInv, WriteTop
  PROVE  AllWritten' \/ Counted
<1> DEFINE n == Len(stack)
<1>1. /\ stack # <<>> /\ ~ MustSplit /\ p1' = Top /\ UNCHANGED same
  BY DEF WriteTop
<1>2. /\ p1 \in Nat /\ p1 >= 1 /\ minpts \in Nat
  BY DEF SimplifyInv, LoopTypeOK
<1>3. n \in Nat \ {0} /\ Len(out) \in Nat \ {0} /\ Top \in Nat /\ p1 < Top /\ Top = stack[n]
  BY <1>1, StackFacts
<1> HIDE DEF n
<1>4. CASE AllWritten /\ Top = p1 + 1
  <2> SUFFICES ASSUME NEW q \in 2..Top
               PROVE  same[q] = same[q - 1] \/ \E i \in 1..Len(out') : out'[i] = q
    BY <1>1 DEF AllWritten
  <2>1. CASE q \in 2..p1
    <3>1. same[q] = same[q - 1] \/ \E i \in 1..Len(out) : out[i] = q
      BY <1>4, <2>1 DEF AllWritten
    <3> QED BY <3>1, TopWritten
  <2>2. CASE q = Top
    <3>1. q - 1 = p1
      BY <1>2, <1>4, <2>2
    <3>2. CASE same[Top] = same[p1]
      BY <2>2, <3>1, <3>2
    <3>3. CASE same[Top] # same[p1]
      <4>1. Len(out') = Len(out) + 1 /\ out'[Len(out) + 1] = Top
        BY <3>3, TopWritten
      <4>2. Len(out) + 1 \in 1..Len(out')
        BY <1>3, <4>1
      <4> QED BY <2>2, <4>1, <4>2
    <3> QED BY <3>2, <3>3
  <2>3. q \in 2..p1 \/ q = Top
    BY <1>2, <1>4
  <2> QED BY <2>1, <2>2, <2>3
<1>5. CASE AllWritten /\ Top # p1 + 1
  <2>1. Len(out) + n >= minpts
    BY <1>1, <1>2, <1>3, <1>5 DEF MustSplit, n
  <2>2. ASSUME n # 1 PROVE Fresh(Top)
    <3>1. n \in 2..n
      BY <1>3, <2>2
    <3>2. Fresh(stack[n]) \/ stack[n] = p1 + 1
      BY <3>1 DEF SimplifyInv, StackFresh, n
    <3>3. stack[n] = Top
      BY <1>3
    <3> QED BY <1>5, <3>2, <3>3 DEF Fresh
  <2> QED BY <2>1, <2>2 DEF Counted, n
<1> QED BY <1>1, <1>4, <1>5 DEF SimplifyInv, OutOK

\* The top of the stack is written and the rest of the stack is after it.
LEMMA WriteKeepsInv == ASSUME SimplifyInv, WriteTop PROVE SimplifyInv'
<1> DEFINE n == Len(stack)
<1>1. /\ stack # <<>> /\ p1' = Top
      /\ stack' = SubSeq(stack, 1, n - 1) /\ UNCHANGED <<npoints, minpts, same, near>>
  BY DEF WriteTop
<1>2. /\ npoints \in Nat /\ p1 \in Nat /\ stack \in Seq(Nat) /\ out \in Seq(Nat)
      /\ minpts \in Nat
  BY DEF SimplifyInv, LoopTypeOK
<1>3. /\ n \in Nat \ {0} /\ Len(out) \in Nat /\ Top \in Nat /\ p1 < Top
      /\ Top <= npoints + 1 - n
      /\ \A i \in 1..n : /\ stack[i] \in Nat /\ p1 < stack[i] /\ stack[i] <= npoints + 1 - i
                         /\ i = n \/ Top < stack[i]
      /\ stack[1] = npoints /\ Top = stack[n]
  BY <1>1, StackFacts
<1>4. /\ stack' \in Seq(Nat) /\ Len(stack') = n - 1
      /\ \A i \in 1..(n - 1) : stack'[i] = stack[i]
  BY <1>1, <1>2, Popped
<1>5. out' \in Seq(Nat) /\ out' # <<>>
  BY TopWritten
<1>6. stack' = <<>> <=> n - 1 = 0
  BY <1>4, EmptyIffLength
<1> HIDE DEF n
<1>7. LoopTypeOK'
  <2>1. Top \in 1..npoints
    BY <1>2, <1>3
  <2> QED BY <1>1, <1>4, <1>5, <2>1 DEF SimplifyInv, LoopTypeOK
<1>8. \A i \in 1..(n - 1) : stack'[i] \in (Top + 1)..(npoints + 1 - i)
  <2> SUFFICES ASSUME NEW i \in 1..(n - 1) PROVE stack'[i] \in (Top + 1)..(npoints + 1 - i)
    OBVIOUS
  <2>1. i \in 1..n /\ i # n /\ stack'[i] = stack[i]
    BY <1>3, <1>4
  <2>2. stack[i] \in Nat /\ Top < stack[i] /\ stack[i] <= npoints + 1 - i
    BY <1>3, <2>1
  <2>3. Top \in Nat
    BY <1>3
  <2> QED BY <1>2, <2>1, <2>2, <2>3
<1>9. \A i, j \in 1..(n - 1) : i < j => stack'[j] < stack'[i]
  <2>1. \A i, j \in 1..n : i < j => stack[j] < stack[i]
    BY DEF SimplifyInv, StackOK, n
  <2> QED BY <1>3, <1>4, <2>1
<1>10. n - 1 < npoints' /\ (n - 1 = 0 => Top = npoints') /\ (n - 1 # 0 => stack'[1] = npoints')
  BY <1>1, <1>2, <1>3, <1>4
<1>11. StackOK'
  BY <1>1, <1>4, <1>6, <1>8, <1>9, <1>10 DEF StackOK
<1>13. StackFresh'
  <2> SUFFICES ASSUME NEW j \in 2..(n - 1), NEW m \in Top..(stack[j] - 1)
               PROVE  same[m] # same[stack[j]]
    <3>1. \A j \in 2..(n - 1) : j \in 1..(n - 1)
      BY <1>3
    <3> QED BY <1>1, <1>4, <3>1 DEF StackFresh, Fresh
  <2>1. j \in 2..n /\ j # n /\ j \in 1..n
    BY <1>3
  <2>2. Fresh(stack[j])
    BY <2>1 DEF SimplifyInv, StackFresh, n
  <2>3. m \in p1..(stack[j] - 1)
    BY <1>2, <1>3, <2>1
  <2> QED BY <2>2, <2>3 DEF Fresh
<1>14. LastWritten' \in 1..p1' /\ (same[LastWritten] = same[p1])'
  <2>1. LastWritten \in 1..p1 /\ same[LastWritten] = same[p1]
    BY DEF SimplifyInv, OutOK
  <2>2. CASE same[Top] = same[p1]
    <3>1. LastWritten' = LastWritten
      BY <1>1, <2>2, TopWritten DEF LastWritten
    <3> QED BY <1>1, <1>2, <1>3, <2>1, <2>2, <3>1
  <2>3. CASE same[Top] # same[p1]
    <3>1. LastWritten' = Top
      BY <2>3, TopWritten
    <3> QED BY <1>1, <1>2, <1>3, <3>1
  <2> QED BY <2>2, <2>3
<1>15. CASE AllWritten'
  BY <1>7, <1>11, <1>13, <1>14, <1>15 DEF SimplifyInv, OutOK
<1>16. CASE Counted /\ n = 1
  <2>1. stack' = <<>>
    BY <1>6, <1>16
  <2> QED BY <1>7, <1>11, <1>13, <1>14, <2>1 DEF SimplifyInv, OutOK
<1>17. CASE Counted /\ n # 1
  <2>1. Fresh(Top) /\ Len(out) + n >= minpts
    BY <1>17 DEF Counted, n
  <2>2. same[Top] # same[p1]
    <3>1. p1 \in p1..(Top - 1)
      BY <1>2, <1>3
    <3> QED BY <2>1, <3>1 DEF Fresh
  <2>3. Len(out') = Len(out) + 1
    BY <2>2, TopWritten
  <2>4. Len(out') + Len(stack') >= minpts'
    BY <1>1, <1>2, <1>3, <1>4, <2>1, <2>3
  <2>5. Len(stack') = 1 \/ Fresh(Top)'
    <3>1. CASE n = 2
      BY <1>4, <3>1
    <3>2. CASE n # 2
      <4>1. Len(stack') = n - 1
        BY <1>4
      <4>2. n - 1 \in 2..n /\ n - 1 # n /\ n - 1 \in 1..n /\ n - 1 \in 1..(n - 1)
        BY <1>3, <1>17, <3>2
      <4>3. Fresh(stack[n - 1])
        BY <4>2 DEF SimplifyInv, StackFresh, n
      <4>4. stack[n - 1] \in Nat
        BY <1>3, <4>2
      <4>5. Top' = stack[n - 1]
        BY <1>4, <4>1, <4>2 DEF Top
      <4>6. \A m \in Top..(stack[n - 1] - 1) : same[m] # same[stack[n - 1]]
        <5>1. \A m \in Top..(stack[n - 1] - 1) : m \in p1..(stack[n - 1] - 1)
          BY <1>2, <1>3, <4>4
        <5> QED BY <4>3, <5>1 DEF Fresh
      <4> QED BY <1>1, <4>5, <4>6 DEF Fresh
    <3> QED BY <3>1, <3>2
  <2>6. Counted'
    BY <2>4, <2>5 DEF Counted
  <2> QED BY <1>7, <1>11, <1>13, <1>14, <2>6 DEF SimplifyInv, OutOK
<1> QED BY <1>15, <1>16, <1>17, WrittenOrCounted

LEMMA SimplifyNextInv == SimplifyInv /\ [SimplifyNext]_simplifyVars => SimplifyInv'
<1> SUFFICES ASSUME SimplifyInv, [SimplifyNext]_simplifyVars PROVE SimplifyInv'
  OBVIOUS
<1>1. CASE WriteTop
  BY <1>1, WriteKeepsInv
<1>2. ASSUME NEW k \in 1..npoints, Split(k) PROVE SimplifyInv'
  BY <1>2, SplitKeepsInv
<1>3. CASE UNCHANGED simplifyVars
  BY <1>3 DEF simplifyVars, SimplifyInv, LoopTypeOK, StackOK, OutOK, Gaps,
       StackFresh, Fresh, LastWritten, AllWritten, Counted, Top
<1> QED BY <1>1, <1>2, <1>3 DEF SimplifyNext

LEMMA AlwaysSimplifyInv == SimplifySpec => []SimplifyInv
<1> QED BY SimplifyInitInv, SimplifyNextInv, PTL DEF SimplifySpec

\* The recursion stack, allocated for as many indexes as there are points,
\* has room for every push, and what is on it is in order.
THEOREM StackFits == SimplifySpec => []StackOK
<1>1. SimplifyInv => StackOK
  BY DEF SimplifyInv
<1> QED BY AlwaysSimplifyInv, <1>1, PTL

\* The loop starts as thinning does.
LEMMA SimplifyInitRefines == SimplifyInit => Result!Init
<1> SUFFICES ASSUME SimplifyInit PROVE Result!Init
  OBVIOUS
<1>1. npoints \in Nat /\ npoints >= 2 /\ minpts \in Nat
  BY MaxPointsAssumption DEF SimplifyInit
<1>2. same \in [1..npoints -> 1..npoints]
  BY DEF SimplifyInit, Equalities
<1> QED BY <1>1, <1>2 DEF SimplifyInit, Result!Init, Result!Gaps, Gaps

\* When the last point is written there are enough of them: those that count,
\* or all that differ from the one before them.
LEMMA EnoughAtTheEnd ==
  ASSUME SimplifyInv, WriteTop, Len(stack) = 1
  PROVE  Result!Enough(out')
<1>1. /\ stack # <<>> /\ UNCHANGED <<npoints, same>> /\ p1' = Top
  BY DEF WriteTop
<1>2. /\ npoints \in Nat /\ minpts \in Nat /\ p1 \in Nat
  BY DEF SimplifyInv, LoopTypeOK
<1>3. Top = npoints /\ p1 < npoints /\ Len(out) \in Nat
  BY <1>1, StackFacts
<1>4. CASE AllWritten'
  BY <1>1, <1>3, <1>4 DEF AllWritten, Result!Enough
<1>5. CASE Counted
  <2>1. Len(out) + 1 >= minpts
    BY <1>5 DEF Counted
  <2>2. CASE same[Top] = same[p1]
    <3>1. out' = out /\ out[Len(out)] # npoints
      BY <1>2, <1>3, <2>2, TopWritten DEF SimplifyInv, OutOK, LastWritten
    <3> QED BY <2>1, <3>1 DEF Result!Enough, Result!LastOf
  <2>3. CASE same[Top] # same[p1]
    <3>1. Len(out') = Len(out) + 1 /\ out'[Len(out')] = npoints
      BY <1>3, <2>3, TopWritten
    <3>2. Len(out') + 0 >= minpts
      BY <1>3, <2>1, <3>1
    <3> QED BY <3>1, <3>2 DEF Result!Enough, Result!LastOf
  <2> QED BY <2>2, <2>3
<1> QED BY <1>4, <1>5, WrittenOrCounted

\* Writing the top of the stack passes a point, splitting changes nothing that
\* can be seen.
LEMMA SimplifyStepRefines == SimplifyInv /\ [SimplifyNext]_simplifyVars => [Result!Next]_Result!vars
<1> SUFFICES ASSUME SimplifyInv, [SimplifyNext]_simplifyVars PROVE [Result!Next]_Result!vars
  OBVIOUS
<1>1. npoints \in Nat /\ p1 \in Nat /\ minpts \in Nat /\ stack \in Seq(Nat) /\ out \in Seq(Nat)
  BY DEF SimplifyInv, LoopTypeOK
<1>2. CASE WriteTop
  <2> DEFINE n == Len(stack)
  <2>1. /\ stack # <<>> /\ ~ MustSplit /\ p1' = Top
        /\ out' = IF same[Top] = same[LastWritten] THEN out ELSE Append(out, Top)
        /\ stack' = SubSeq(stack, 1, n - 1) /\ UNCHANGED <<npoints, minpts, same, near>>
    BY <1>2 DEF WriteTop
  <2>2. /\ n \in Nat \ {0} /\ Len(out) \in Nat /\ Top \in Nat /\ p1 < Top
        /\ Top <= npoints + 1 - n /\ (n = 1 \/ Top < npoints) /\ (n = 1 => Top = npoints)
    <3>1. 1 \in 1..n
      BY <2>1, StackFacts
    <3> QED BY <2>1, <3>1, StackFacts
  <2>3. out' = IF same[Top] = same[Result!LastOf(out)] THEN out ELSE Append(out, Top)
    BY <2>1 DEF Result!LastOf, LastWritten
  <2>4. <<p1, Top>> \in near \/ Top = p1 + 1
    BY <1>1, <2>1, <2>2 DEF MustSplit
  <2>5. (stack' = <<>>) <=> n - 1 = 0
    <3>1. stack' \in Seq(Nat) /\ Len(stack') = n - 1
      BY <1>1, <2>1, Popped
    <3> QED BY <3>1, EmptyIffLength
  <2>6. stack' = <<>> => Result!Enough(out')
    <3>1. n - 1 = 0 => n = 1
      BY <2>2
    <3> QED BY <1>2, <2>5, <3>1, EnoughAtTheEnd
  <2> HIDE DEF n
  <2>7. (stack' = <<>>) = (Top = npoints)
    BY <1>1, <2>2, <2>5
  <2>8. Top \in 1..npoints /\ Top <= npoints
    BY <1>1, <2>2
  <2>9. Result!Pass(Top)
    BY <2>1, <2>2, <2>3, <2>4, <2>6, <2>7, <2>8, Zenon DEF Result!Pass
  <2> QED BY <2>1, <2>8, <2>9 DEF Result!Next
<1>3. ASSUME NEW k \in 1..npoints, Split(k) PROVE [Result!Next]_Result!vars
  <2>1. /\ stack # <<>> /\ stack' = Append(stack, k)
        /\ UNCHANGED <<npoints, minpts, same, near, out, p1>>
    BY <1>3 DEF Split
  <2>2. stack' # <<>>
    BY <1>1, <2>1, Pushed
  <2> QED BY <2>1, <2>2 DEF Result!vars
<1>4. CASE UNCHANGED simplifyVars
  BY <1>4 DEF simplifyVars, Result!vars
<1> QED BY <1>2, <1>3, <1>4 DEF SimplifyNext

\* ptarray_simplify thins: it passes points in their order from the first to
\* the last, leaves none out between them that is farther than the tolerance,
\* writes each that does not equal the last one written, and writes enough, for
\* every array, also a closed one or one with repeated points.
THEOREM SimplifyImplementsThinning == SimplifySpec => ImplementsThinning
<1> QED BY SimplifyInitRefines, AlwaysSimplifyInv, SimplifyStepRefines, PTL
      DEF SimplifySpec, ImplementsThinning, Result!Spec

-----------------------------------------------------------------------------
(* The byte buffer.                                                        *)

BufferInv == BufferOK /\ ExcessIsOfOneVarint

\* What a call may write: what it asked room for, or a varint.
Fits(room, size) == size <= room \/ (room = VarintRoom /\ size \in VarintSizes)

LEMMA VarintsAreNat == VarintSizes \subseteq Nat /\ VarintRoom \in Nat
<1> QED BY BufferAssumption DEF VarintRoom, MaxVarintBytes

LEMMA BufferInitInv == BufferInit => BufferInv
<1> QED BY BufferAssumption DEF BufferInit, BufferInv, BufferOK, ExcessIsOfOneVarint, NoCall

\* A call asks for no less room than it will write, but for a varint.
LEMMA BeginInv ==
  ASSUME BufferInv, NEW room \in Nat, NEW size \in Nat, Fits(room, size), BeginAppend(room, size)
  PROVE  BufferInv'
<1>1. call' = [room |-> room, size |-> size] /\ wanted' = capacity /\ UNCHANGED <<capacity, written>>
  BY DEF BeginAppend
<1>2. BufferOK'
  BY <1>1 DEF BufferInv, BufferOK, Fits
<1>3. ExcessIsOfOneVarint'
  BY <1>1 DEF BufferInv, ExcessIsOfOneVarint
<1> QED BY <1>2, <1>3 DEF BufferInv

\* What is written fits in the capacity that was looked for, or exceeds it by
\* what a varint exceeds its room.
LEMMA WriteFits == ASSUME BufferInv, WriteBytes PROVE BufferInv'
<1>1. /\ capacity \in Nat \ {0} /\ wanted \in Nat \ {0} /\ written \in Nat
      /\ call.room \in Nat /\ call.size \in Nat /\ Fits(call.room, call.size)
  BY DEF BufferInv, BufferOK, Fits
<1>2. /\ written + call.room <= wanted
      /\ capacity' = wanted /\ wanted' = wanted /\ call' = NoCall
      /\ written' = written + call.size
  BY <1>1 DEF WriteBytes, Required
<1>3. BufferOK'
  <2>1. NoCall \in [room : Nat, size : Nat] /\ NoCall.size <= NoCall.room
    BY DEF NoCall
  <2> QED BY <1>1, <1>2, <2>1 DEF BufferOK
<1>4. CASE call.size <= call.room
  <2>1. written' <= capacity'
    BY <1>1, <1>2, <1>4
  <2> QED BY <1>3, <2>1 DEF BufferInv, ExcessIsOfOneVarint
<1>5. CASE call.room = VarintRoom /\ call.size \in VarintSizes
  <2>1. written' <= capacity' + (call.size - VarintRoom)
    BY <1>1, <1>2, <1>5, VarintsAreNat
  <2>2. \E n \in VarintSizes : written' <= capacity' + (n - VarintRoom)
    BY <1>5, <2>1
  <2> QED BY <1>3, <2>2 DEF BufferInv, ExcessIsOfOneVarint
<1> QED BY <1>1, <1>4, <1>5 DEF Fits

LEMMA BufferNextInv == BufferInv /\ [BufferNext]_bufferVars => BufferInv'
<1> SUFFICES ASSUME BufferInv, [BufferNext]_bufferVars PROVE BufferInv'
  OBVIOUS
<1>1. CASE AppendByte
  BY <1>1, BeginInv DEF AppendByte, Fits
<1>2. CASE AppendBulk
  BY <1>2, BeginInv, BufferAssumption DEF AppendBulk, Fits
<1>3. CASE AppendVarint
  <2>1. PICK n \in VarintSizes : BeginAppend(VarintRoom, n)
    BY <1>3 DEF AppendVarint
  <2>2. n \in Nat /\ VarintRoom \in Nat /\ Fits(VarintRoom, n)
    BY VarintsAreNat DEF Fits
  <2> QED BY <2>1, <2>2, BeginInv
<1>4. CASE AppendInt
  BY <1>4, BeginInv DEF AppendInt, IntSize, Fits
<1>5. CASE AppendDouble
  BY <1>5, BeginInv DEF AppendDouble, DoubleSize, Fits
<1>6. CASE Double
  BY <1>6 DEF Double, BufferInv, BufferOK, ExcessIsOfOneVarint
<1>7. CASE WriteBytes
  BY <1>7, WriteFits
<1>8. CASE Clear
  BY <1>8, VarintsAreNat DEF Clear, BufferInv, BufferOK, ExcessIsOfOneVarint
<1>9. CASE UNCHANGED bufferVars
  BY <1>9 DEF bufferVars, BufferInv, BufferOK, ExcessIsOfOneVarint
<1> QED BY <1>1, <1>2, <1>3, <1>4, <1>5, <1>6, <1>7, <1>8, <1>9 DEF BufferNext

\* bytebuffer_append_*: the bytes in a buffer never exceed its capacity by more
\* than one varint exceeds its room, whatever is appended in whatever order.
THEOREM ExcessStaysOfOneVarint == BufferSpec => []ExcessIsOfOneVarint
<1>1. BufferInv => ExcessIsOfOneVarint
  BY DEF BufferInv
<1> QED BY BufferInitInv, BufferNextInv, <1>1, PTL DEF BufferSpec

\* A varint is the only thing that goes beyond: in a buffer whose varints take
\* no more bytes than the room asked for, no append writes past the end.
THEOREM OnlyVarintsExceed ==
  ASSUME \A n \in VarintSizes : n <= VarintRoom
  PROVE  BufferSpec => []WritesStayInside
<1>1. BufferInv => WritesStayInside
  BY VarintsAreNat DEF BufferInv, BufferOK, ExcessIsOfOneVarint, WritesStayInside
<1> QED BY BufferInitInv, BufferNextInv, <1>1, PTL DEF BufferSpec

-----------------------------------------------------------------------------
(* Zigzag.                                                                 *)

\* unzigzag64 undoes zigzag64, for every integer.
THEOREM ZigzagRoundTrip == \A n \in Int : Unzigzag(Zigzag(n)) = n
<1> SUFFICES ASSUME NEW n \in Int PROVE Unzigzag(Zigzag(n)) = n
  OBVIOUS
<1>1. CASE n >= 0
  <2>1. Zigzag(n) = 2 * n
    BY <1>1 DEF Zigzag
  <2>2. (2 * n) % 2 = 0 /\ (2 * n) \div 2 = n
    OBVIOUS
  <2> QED BY <2>1, <2>2 DEF Unzigzag
<1>2. CASE n < 0
  <2>1. Zigzag(n) = -2 * n - 1
    BY <1>2 DEF Zigzag
  <2>2. (-2 * n - 1) % 2 = 1 /\ (-2 * n - 1 + 1) \div 2 = -n
    OBVIOUS
  <2> QED BY <2>1, <2>2 DEF Unzigzag
<1> QED BY <1>1, <1>2

\* An integer and its negation are zigzagged next to each other, so the
\* number of bytes depends on the absolute value.
THEOREM ZigzagIsSmall ==
  \A n \in Int : \A b \in Nat : -b <= n /\ n <= b => Zigzag(n) \in 0..(2 * b)
<1> QED BY DEF Zigzag
=============================================================================
