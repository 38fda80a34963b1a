------------------------ MODULE PlanarGeometry_proofs -----------------------
(***************************************************************************)
(* What the predicates of PlanarGeometry say of lines as sets of points,   *)
(* and what cutting, reversing and joining do to the points of a line.     *)
(*                                                                         *)
(* Two lines with integer vertices may cross at a point that has no        *)
(* integer coordinates.  A point of rational coordinates is written as a   *)
(* point q of the picture drawn w times larger, for a positive integer w;  *)
(* ShareInterior says that lines have such a point in common.              *)
(***************************************************************************)
EXTENDS PlanarGeometry, SequenceTheorems, WellFoundedInduction, TLAPS

-----------------------------------------------------------------------------
(* Numbers and points. *)

\* A number that is m k-ths of another lies between it and zero.
LEMMA PartOf ==
  ASSUME NEW k \in Nat \ {0}, NEW m \in 0 .. k, NEW x \in Int, NEW y \in Int, k * x = m * y
  PROVE  /\ Between(x, 0, y)
         /\ x = 0 <=> m = 0 \/ y = 0
         /\ x > 0 <=> m > 0 /\ y > 0
         /\ x < 0 <=> m > 0 /\ y < 0
<1>1. CASE y >= 0
  <2>1. k * x >= 0
    BY <1>1
  <2>2. x >= 0
    BY <2>1
  <2>3. k * x <= k * y
    BY <1>1
  <2>4. x <= y
    BY <2>3
  <2> QED BY <1>1, <2>2, <2>4 DEF Between
<1>2. CASE y < 0
  <2>1. k * x <= 0
    BY <1>2
  <2>2. x <= 0
    BY <2>1
  <2>3. k * x >= k * y
    BY <1>2
  <2>4. x >= y
    BY <2>3
  <2> QED BY <1>2, <2>2, <2>4 DEF Between
<1> QED BY <1>1, <1>2

LEMMA SignOfProduct ==
  ASSUME NEW x \in Int, NEW y \in Int
  PROVE  /\ x * y < 0 <=> (x < 0 /\ y > 0) \/ (x > 0 /\ y < 0)
         /\ x * y = 0 <=> x = 0 \/ y = 0
OBVIOUS

LEMMA Coordinates ==
  ASSUME NEW p \in Point
  PROVE  \E x, y \in Int : p = <<x, y>> /\ p[1] = x /\ p[2] = y
BY DEF Point

LEMMA CrossIsInt ==
  ASSUME NEW o \in Point, NEW a \in Point, NEW b \in Point
  PROVE  Cross(o, a, b) \in Int
BY DEF Cross, Point

LEMMA CrossAtEnds ==
  ASSUME NEW a \in Point, NEW b \in Point
  PROVE  Cross(a, b, a) = 0 /\ Cross(a, b, b) = 0
<1> PICK ax, ay \in Int : a = <<ax, ay>> /\ a[1] = ax /\ a[2] = ay BY Coordinates
<1> PICK bx, by \in Int : b = <<bx, by>> /\ b[1] = bx /\ b[2] = by BY Coordinates
<1> QED BY DEF Cross

-----------------------------------------------------------------------------
(* Points on a segment. *)

\* p lies m k-ths of the way from a to b.
Divides(p, a, b, k, m) ==
  /\ k \in Nat \ {0} /\ m \in 0 .. k
  /\ k * (p[1] - a[1]) = m * (b[1] - a[1])
  /\ k * (p[2] - a[2]) = m * (b[2] - a[2])

LEMMA OnSegmentDivides ==
  ASSUME NEW a \in Point, NEW b \in Point, NEW p \in Point, OnSegment(p, a, b)
  PROVE  \E k, m : Divides(p, a, b, k, m)
<1> PICK ax, ay \in Int : a = <<ax, ay>> /\ a[1] = ax /\ a[2] = ay BY Coordinates
<1> PICK bx, by \in Int : b = <<bx, by>> /\ b[1] = bx /\ b[2] = by BY Coordinates
<1> PICK px, py \in Int : p = <<px, py>> /\ p[1] = px /\ p[2] = py BY Coordinates
<1>1. /\ (bx - ax) * (py - ay) = (by - ay) * (px - ax)
      /\ Between(px, ax, bx) /\ Between(py, ay, by)
  BY DEF OnSegment, Cross
<1>2. \A k, m : Divides(p, a, b, k, m) <=>
        /\ k \in Nat \ {0} /\ m \in 0 .. k
        /\ k * (px - ax) = m * (bx - ax) /\ k * (py - ay) = m * (by - ay)
  BY DEF Divides
<1>3. CASE bx > ax
  <2>1. Divides(p, a, b, bx - ax, px - ax)
    BY <1>1, <1>2, <1>3 DEF Between
  <2> QED BY <2>1
<1>4. CASE bx < ax
  <2>1. Divides(p, a, b, ax - bx, ax - px)
    BY <1>1, <1>2, <1>4 DEF Between
  <2> QED BY <2>1
<1>5. CASE bx = ax /\ by > ay
  <2>1. Divides(p, a, b, by - ay, py - ay)
    BY <1>1, <1>2, <1>5 DEF Between
  <2> QED BY <2>1
<1>6. CASE bx = ax /\ by < ay
  <2>1. Divides(p, a, b, ay - by, ay - py)
    BY <1>1, <1>2, <1>6 DEF Between
  <2> QED BY <2>1
<1>7. CASE bx = ax /\ by = ay
  <2>1. Divides(p, a, b, 1, 0)
    BY <1>1, <1>2, <1>7 DEF Between
  <2> QED BY <2>1
<1> QED BY <1>3, <1>4, <1>5, <1>6, <1>7

\* On the way from a to b the distance from a line changes evenly.
LEMMA CrossAlong ==
  ASSUME NEW a \in Point, NEW b \in Point, NEW p \in Point, NEW c \in Point, NEW d \in Point,
         NEW k, NEW m, Divides(p, a, b, k, m)
  PROVE  k * (Cross(c, d, p) - Cross(c, d, a)) = m * (Cross(c, d, b) - Cross(c, d, a))
<1> PICK ax, ay \in Int : a = <<ax, ay>> /\ a[1] = ax /\ a[2] = ay BY Coordinates
<1> PICK bx, by \in Int : b = <<bx, by>> /\ b[1] = bx /\ b[2] = by BY Coordinates
<1> PICK px, py \in Int : p = <<px, py>> /\ p[1] = px /\ p[2] = py BY Coordinates
<1> PICK cx, cy \in Int : c = <<cx, cy>> /\ c[1] = cx /\ c[2] = cy BY Coordinates
<1> PICK dx, dy \in Int : d = <<dx, dy>> /\ d[1] = dx /\ d[2] = dy BY Coordinates
<1>1. k \in Int /\ m \in Int /\ k * (px - ax) = m * (bx - ax) /\ k * (py - ay) = m * (by - ay)
  BY DEF Divides
<1>2. /\ Cross(c, d, p) - Cross(c, d, a) = (dx - cx) * (py - ay) - (dy - cy) * (px - ax)
      /\ Cross(c, d, b) - Cross(c, d, a) = (dx - cx) * (by - ay) - (dy - cy) * (bx - ax)
  BY DEF Cross
<1>3. /\ (dx - cx) * (k * (py - ay)) = (dx - cx) * (m * (by - ay))
      /\ (dy - cy) * (k * (px - ax)) = (dy - cy) * (m * (bx - ax))
  BY <1>1
<1>4. k * ((dx - cx) * (py - ay) - (dy - cy) * (px - ax))
       = m * ((dx - cx) * (by - ay) - (dy - cy) * (bx - ax))
  BY <1>1, <1>3
<1> QED BY <1>2, <1>4

LEMMA DividesOnSegment ==
  ASSUME NEW a \in Point, NEW b \in Point, NEW p \in Point, NEW k, NEW m, Divides(p, a, b, k, m)
  PROVE  /\ OnSegment(p, a, b)
         /\ a # b => (p = a <=> m = 0) /\ (p = b <=> m = k)
<1> PICK ax, ay \in Int : a = <<ax, ay>> /\ a[1] = ax /\ a[2] = ay BY Coordinates
<1> PICK bx, by \in Int : b = <<bx, by>> /\ b[1] = bx /\ b[2] = by BY Coordinates
<1> PICK px, py \in Int : p = <<px, py>> /\ p[1] = px /\ p[2] = py BY Coordinates
<1>1. k \in Nat \ {0} /\ m \in 0 .. k /\ k * (px - ax) = m * (bx - ax) /\ k * (py - ay) = m * (by - ay)
  BY DEF Divides
<1>2. Cross(a, b, a) = 0 /\ Cross(a, b, b) = 0 /\ Cross(a, b, p) \in Int
  BY CrossAtEnds, CrossIsInt
<1>3. k * Cross(a, b, p) = 0
  BY <1>1, <1>2, CrossAlong
<1>4. Cross(a, b, p) = 0
  BY <1>1, <1>2, <1>3
<1>5. /\ Between(px - ax, 0, bx - ax) /\ Between(py - ay, 0, by - ay)
      /\ px - ax = 0 <=> m = 0 \/ bx - ax = 0
      /\ py - ay = 0 <=> m = 0 \/ by - ay = 0
  <2>0. k \in Nat \ {0} /\ m \in 0 .. k
    BY <1>1
  <2>1. ASSUME NEW x \in Int, NEW y \in Int, k * x = m * y
        PROVE  Between(x, 0, y) /\ (x = 0 <=> m = 0 \/ y = 0)
    <3>1. Between(x, 0, y)
      BY <2>0, <2>1, PartOf, Zenon
    <3>2. k * x = 0 <=> x = 0
      BY <2>0
    <3>3. m * y = 0 <=> m = 0 \/ y = 0
      BY <2>0
    <3> QED BY <2>1, <3>1, <3>2, <3>3
  <2>2. px - ax \in Int /\ py - ay \in Int /\ bx - ax \in Int /\ by - ay \in Int
    OBVIOUS
  <2> QED BY <1>1, <2>1, <2>2
<1>6. OnSegment(p, a, b)
  BY <1>4, <1>5 DEF OnSegment, Between
<1>7. a # b => (p = a <=> m = 0)
  BY <1>5
<1>8. ASSUME m = k PROVE p = b
  BY <1>1, <1>8
<1>9. ASSUME a # b, p = b PROVE m = k
  <2>1. (bx - ax # 0 /\ k * (bx - ax) = m * (bx - ax)) \/ (by - ay # 0 /\ k * (by - ay) = m * (by - ay))
    BY <1>1, <1>9
  <2> QED BY <1>1, <2>1
<1> QED BY <1>6, <1>7, <1>8, <1>9

LEMMA EndsOnSegment ==
  ASSUME NEW a \in Point, NEW b \in Point
  PROVE  OnSegment(a, a, b) /\ OnSegment(b, a, b)
<1> PICK ax, ay \in Int : a = <<ax, ay>> /\ a[1] = ax /\ a[2] = ay BY Coordinates
<1> PICK bx, by \in Int : b = <<bx, by>> /\ b[1] = bx /\ b[2] = by BY Coordinates
<1> QED BY DEF OnSegment, Cross, Between

LEMMA OnSegmentReversed ==
  ASSUME NEW a \in Point, NEW b \in Point, NEW p \in Point, OnSegment(p, a, b)
  PROVE  OnSegment(p, b, a)
<1> PICK ax, ay \in Int : a = <<ax, ay>> /\ a[1] = ax /\ a[2] = ay BY Coordinates
<1> PICK bx, by \in Int : b = <<bx, by>> /\ b[1] = bx /\ b[2] = by BY Coordinates
<1> PICK px, py \in Int : p = <<px, py>> /\ p[1] = px /\ p[2] = py BY Coordinates
<1> QED BY DEF OnSegment, Cross, Between

\* A part of a part of a segment is a part of the segment.
LEMMA SubSegment ==
  ASSUME NEW a \in Point, NEW b \in Point, NEW s \in Point, NEW t \in Point, NEW p \in Point,
         OnSegment(s, a, b), OnSegment(t, a, b), OnSegment(p, s, t)
  PROVE  OnSegment(p, a, b)
<1> PICK ax, ay \in Int : a = <<ax, ay>> /\ a[1] = ax /\ a[2] = ay BY Coordinates
<1> PICK bx, by \in Int : b = <<bx, by>> /\ b[1] = bx /\ b[2] = by BY Coordinates
<1> PICK px, py \in Int : p = <<px, py>> /\ p[1] = px /\ p[2] = py BY Coordinates
<1> PICK sx, sy \in Int : s = <<sx, sy>> /\ s[1] = sx /\ s[2] = sy BY Coordinates
<1> PICK tx, ty \in Int : t = <<tx, ty>> /\ t[1] = tx /\ t[2] = ty BY Coordinates
<1>1. PICK k, i : Divides(s, a, b, k, i)
  BY OnSegmentDivides
<1>2. PICK l, j : Divides(t, a, b, l, j)
  BY OnSegmentDivides
<1>3. PICK n, m : Divides(p, s, t, n, m)
  BY OnSegmentDivides
<1>4. /\ k \in Nat \ {0} /\ i \in 0 .. k /\ l \in Nat \ {0} /\ j \in 0 .. l /\ n \in Nat \ {0} /\ m \in 0 .. n
  BY <1>1, <1>2, <1>3 DEF Divides
<1>5. /\ k * (sx - ax) = i * (bx - ax) /\ k * (sy - ay) = i * (by - ay)
      /\ l * (tx - ax) = j * (bx - ax) /\ l * (ty - ay) = j * (by - ay)
      /\ n * (px - sx) = m * (tx - sx) /\ n * (py - sy) = m * (ty - sy)
  BY <1>1, <1>2, <1>3 DEF Divides
<1> DEFINE K == k * l * n
           M == l * i * (n - m) + k * j * m
<1>6. K \in Nat \ {0} /\ M \in 0 .. K
  <2>1. l * i \in 0 .. (k * l) /\ k * j \in 0 .. (k * l) /\ k * l \in Nat \ {0}
    BY <1>4
  <2>2. (l * i) * (n - m) \in 0 .. (k * l) * (n - m) /\ (k * j) * m \in 0 .. (k * l) * m
    BY <1>4, <2>1
  <2> QED BY <1>4, <2>1, <2>2
<1>7. ASSUME NEW u \in Int, NEW v \in Int, NEW q \in Int, NEW w \in Int,
             k * u = i * w, l * v = j * w, n * (q - u) = m * (v - u)
      PROVE  K * q = M * w
  <2>1. (l * (n - m)) * (k * u) = (l * (n - m)) * (i * w) /\ (k * m) * (l * v) = (k * m) * (j * w)
    BY <1>7
  <2>2. (k * l) * (n * (q - u)) = (k * l) * (m * (v - u))
    BY <1>7
  <2>3. K * q = (k * l) * (n * (q - u)) + (k * l * n) * u
    BY <1>4
  <2>4. (k * l) * (m * (v - u)) + (k * l * n) * u = (l * (n - m)) * (k * u) + (k * m) * (l * v)
    BY <1>4
  <2>5. M * w = (l * (n - m)) * (i * w) + (k * m) * (j * w)
    BY <1>4
  <2> QED BY <2>1, <2>2, <2>3, <2>4, <2>5
<1>8. /\ n * ((px - ax) - (sx - ax)) = m * ((tx - ax) - (sx - ax))
      /\ n * ((py - ay) - (sy - ay)) = m * ((ty - ay) - (sy - ay))
  BY <1>5
<1> HIDE DEF K, M
<1>9. K * (px - ax) = M * (bx - ax) /\ K * (py - ay) = M * (by - ay)
  <2>1. /\ sx - ax \in Int /\ tx - ax \in Int /\ px - ax \in Int /\ bx - ax \in Int
        /\ sy - ay \in Int /\ ty - ay \in Int /\ py - ay \in Int /\ by - ay \in Int
    OBVIOUS
  <2>2. K * (px - ax) = M * (bx - ax)
    <3>1. /\ k * (sx - ax) = i * (bx - ax) /\ l * (tx - ax) = j * (bx - ax)
          /\ n * ((px - ax) - (sx - ax)) = m * ((tx - ax) - (sx - ax))
      BY <1>5, <1>8
    <3>2. ASSUME NEW u \in Int, NEW v \in Int, NEW q \in Int, NEW w \in Int,
                 u = sx - ax, v = tx - ax, q = px - ax, w = bx - ax
          PROVE  K * q = M * w
      <4>1. k * u = i * w /\ l * v = j * w /\ n * (q - u) = m * (v - u)
        BY <3>1, <3>2
      <4> QED BY <1>7, <4>1
    <3> QED BY <2>1, <3>2
  <2>3. K * (py - ay) = M * (by - ay)
    <3>1. /\ k * (sy - ay) = i * (by - ay) /\ l * (ty - ay) = j * (by - ay)
          /\ n * ((py - ay) - (sy - ay)) = m * ((ty - ay) - (sy - ay))
      BY <1>5, <1>8
    <3>2. ASSUME NEW u \in Int, NEW v \in Int, NEW q \in Int, NEW w \in Int,
                 u = sy - ay, v = ty - ay, q = py - ay, w = by - ay
          PROVE  K * q = M * w
      <4>1. k * u = i * w /\ l * v = j * w /\ n * (q - u) = m * (v - u)
        BY <3>1, <3>2
      <4> QED BY <1>7, <4>1
    <3> QED BY <2>1, <3>2
  <2> QED BY <2>2, <2>3
<1>10. Divides(p, a, b, K, M)
  BY <1>6, <1>9 DEF Divides
<1> QED BY <1>10, DividesOnSegment

-----------------------------------------------------------------------------
(* A picture drawn w times larger: a point of it stands for one of the     *)
(* original with coordinates that are multiples of 1/w.                    *)

Scaled(w, p) == <<w * p[1], w * p[2]>>

LEMMA ScaledPoint ==
  ASSUME NEW w \in Nat \ {0}, NEW p \in Point
  PROVE  Scaled(w, p) \in Point
<1> PICK px, py \in Int : p = <<px, py>> /\ p[1] = px /\ p[2] = py BY Coordinates
<1> QED BY DEF Scaled, Point

LEMMA ScaledEqual ==
  ASSUME NEW w \in Nat \ {0}, NEW p \in Point, NEW q \in Point, Scaled(w, p) = Scaled(w, q)
  PROVE  p = q
<1> PICK px, py \in Int : p = <<px, py>> /\ p[1] = px /\ p[2] = py BY Coordinates
<1> PICK qx, qy \in Int : q = <<qx, qy>> /\ q[1] = qx /\ q[2] = qy BY Coordinates
<1>1. w * px = w * qx /\ w * py = w * qy
  BY DEF Scaled
<1> QED BY <1>1

LEMMA ScaledCross ==
  ASSUME NEW w \in Nat \ {0}, NEW o \in Point, NEW a \in Point, NEW b \in Point
  PROVE  Cross(Scaled(w, o), Scaled(w, a), Scaled(w, b)) = (w * w) * Cross(o, a, b)
<1> PICK ox, oy \in Int : o = <<ox, oy>> /\ o[1] = ox /\ o[2] = oy BY Coordinates
<1> PICK ax, ay \in Int : a = <<ax, ay>> /\ a[1] = ax /\ a[2] = ay BY Coordinates
<1> PICK bx, by \in Int : b = <<bx, by>> /\ b[1] = bx /\ b[2] = by BY Coordinates
<1> QED BY DEF Scaled, Cross

LEMMA ScaledOrder ==
  ASSUME NEW w \in Nat \ {0}, NEW x \in Int, NEW y \in Int
  PROVE  /\ w * x <= w * y <=> x <= y
         /\ w * x < w * y <=> x < y
         /\ w * x = w * y <=> x = y
OBVIOUS

LEMMA ScaledOnSegment ==
  ASSUME NEW w \in Nat \ {0}, NEW p \in Point, NEW a \in Point, NEW b \in Point
  PROVE  OnSegment(Scaled(w, p), Scaled(w, a), Scaled(w, b)) <=> OnSegment(p, a, b)
<1> PICK px, py \in Int : p = <<px, py>> /\ p[1] = px /\ p[2] = py BY Coordinates
<1> PICK ax, ay \in Int : a = <<ax, ay>> /\ a[1] = ax /\ a[2] = ay BY Coordinates
<1> PICK bx, by \in Int : b = <<bx, by>> /\ b[1] = bx /\ b[2] = by BY Coordinates
<1>1. Cross(a, b, p) \in Int
  BY CrossIsInt
<1>2. Cross(Scaled(w, a), Scaled(w, b), Scaled(w, p)) = 0 <=> Cross(a, b, p) = 0
  BY <1>1, ScaledCross
<1>3. /\ Scaled(w, p)[1] = w * px /\ Scaled(w, p)[2] = w * py
      /\ Scaled(w, a)[1] = w * ax /\ Scaled(w, a)[2] = w * ay
      /\ Scaled(w, b)[1] = w * bx /\ Scaled(w, b)[2] = w * by
  BY DEF Scaled
<1>4. ASSUME NEW x \in Int, NEW y \in Int, NEW z \in Int
      PROVE  Between(w * x, w * y, w * z) <=> Between(x, y, z)
  BY ScaledOrder DEF Between
<1>5. /\ Between(Scaled(w, p)[1], Scaled(w, a)[1], Scaled(w, b)[1]) <=> Between(p[1], a[1], b[1])
      /\ Between(Scaled(w, p)[2], Scaled(w, a)[2], Scaled(w, b)[2]) <=> Between(p[2], a[2], b[2])
  <2>1. Between(w * px, w * ax, w * bx) <=> Between(px, ax, bx)
    BY <1>4
  <2>2. Between(w * py, w * ay, w * by) <=> Between(py, ay, by)
    BY <1>4
  <2> QED BY <1>3, <2>1, <2>2
<1> QED BY <1>2, <1>5 DEF OnSegment

LEMMA ScaledBefore ==
  ASSUME NEW w \in Nat \ {0}, NEW p \in Point, NEW q \in Point
  PROVE  Before(Scaled(w, p), Scaled(w, q)) <=> Before(p, q)
<1> PICK px, py \in Int : p = <<px, py>> /\ p[1] = px /\ p[2] = py BY Coordinates
<1> PICK qx, qy \in Int : q = <<qx, qy>> /\ q[1] = qx /\ q[2] = qy BY Coordinates
<1> QED BY ScaledOrder DEF Scaled, Before

LEMMA ScaledMeeting ==
  ASSUME NEW w \in Nat \ {0}, NEW a \in Point, NEW b \in Point, NEW c \in Point, NEW d \in Point
  PROVE  /\ ProperlyCross(Scaled(w, a), Scaled(w, b), Scaled(w, c), Scaled(w, d))
              <=> ProperlyCross(a, b, c, d)
         /\ Overlap(Scaled(w, a), Scaled(w, b), Scaled(w, c), Scaled(w, d))
              <=> Overlap(a, b, c, d)
<1>1. ASSUME NEW o \in Point, NEW p \in Point, NEW q \in Point
      PROVE  /\ Cross(o, p, q) \in Int
             /\ Cross(Scaled(w, o), Scaled(w, p), Scaled(w, q)) = (w * w) * Cross(o, p, q)
  BY CrossIsInt, ScaledCross
<1>2. ASSUME NEW x \in Int, NEW y \in Int
      PROVE  /\ ((w * w) * x) * ((w * w) * y) < 0 <=> x * y < 0
             /\ (w * w) * x = 0 <=> x = 0
  <2>1. w * w \in Nat \ {0} /\ (w * w) * (w * w) \in Nat \ {0}
    OBVIOUS
  <2>2. ASSUME NEW v \in Nat \ {0}, NEW z \in Int
        PROVE  (v * z < 0 <=> z < 0) /\ (v * z = 0 <=> z = 0)
    OBVIOUS
  <2>3. ((w * w) * x) * ((w * w) * y) = ((w * w) * (w * w)) * (x * y)
    OBVIOUS
  <2> QED BY <2>1, <2>2, <2>3
<1>3. ProperlyCross(Scaled(w, a), Scaled(w, b), Scaled(w, c), Scaled(w, d))
              <=> ProperlyCross(a, b, c, d)
  BY <1>1, <1>2 DEF ProperlyCross
<1>4. ASSUME NEW o \in Point, NEW p \in Point, NEW q \in Point
      PROVE  Cross(Scaled(w, o), Scaled(w, p), Scaled(w, q)) = 0 <=> Cross(o, p, q) = 0
  <2>1. Cross(o, p, q) \in Int
    BY CrossIsInt
  <2>2. (w * w) * Cross(o, p, q) = 0 <=> Cross(o, p, q) = 0
    BY <1>2, <2>1
  <2> QED BY <1>1, <2>2
<1>5. Overlap(Scaled(w, a), Scaled(w, b), Scaled(w, c), Scaled(w, d))
              <=> Overlap(a, b, c, d)
  BY <1>4, ScaledBefore DEF Overlap
<1> QED BY <1>3, <1>5

-----------------------------------------------------------------------------
(* Two segments have a point in common that is an end of neither, of       *)
(* rational coordinates, if and only if they cross or overlap.             *)

Lower(p, q)  == IF Before(p, q) THEN p ELSE q
Higher(p, q) == IF Before(p, q) THEN q ELSE p

\* Overlap, with the local definitions named.
LEMMA OverlapEnds ==
  ASSUME NEW a, NEW b, NEW c, NEW d
  PROVE  Overlap(a, b, c, d) <=>
           /\ Cross(a, b, c) = 0 /\ Cross(a, b, d) = 0
           /\ Before(Lower(a, b), Higher(c, d)) /\ Before(Lower(c, d), Higher(a, b))
BY DEF Overlap, Lower, Higher

LEMMA BeforeIsTotal ==
  ASSUME NEW p \in Point, NEW q \in Point, NEW r \in Point
  PROVE  /\ Before(p, q) \/ p = q \/ Before(q, p)
         /\ ~ (Before(p, q) /\ Before(q, p))
         /\ ~ Before(p, p)
         /\ Before(p, q) /\ Before(q, r) => Before(p, r)
<1> PICK px, py \in Int : p = <<px, py>> /\ p[1] = px /\ p[2] = py BY Coordinates
<1> PICK qx, qy \in Int : q = <<qx, qy>> /\ q[1] = qx /\ q[2] = qy BY Coordinates
<1> PICK rx, ry \in Int : r = <<rx, ry>> /\ r[1] = rx /\ r[2] = ry BY Coordinates
<1> QED BY DEF Before

LEMMA InsideIsBetweenEnds ==
  ASSUME NEW a \in Point, NEW b \in Point, NEW p \in Point,
         OnSegment(p, a, b), p \notin {a, b}
  PROVE  Before(Lower(a, b), p) /\ Before(p, Higher(a, b))
<1> PICK ax, ay \in Int : a = <<ax, ay>> /\ a[1] = ax /\ a[2] = ay BY Coordinates
<1> PICK bx, by \in Int : b = <<bx, by>> /\ b[1] = bx /\ b[2] = by BY Coordinates
<1> PICK px, py \in Int : p = <<px, py>> /\ p[1] = px /\ p[2] = py BY Coordinates
<1>1. /\ (bx - ax) * (py - ay) = (by - ay) * (px - ax)
      /\ Between(px, ax, bx) /\ Between(py, ay, by)
  BY DEF OnSegment, Cross
<1>2. (px # ax \/ py # ay) /\ (px # bx \/ py # by)
  OBVIOUS
<1>3. px = ax /\ bx # ax => py = ay
  BY <1>1
<1>4. px = bx /\ bx # ax => py = by
  <2>1. ASSUME px = bx, bx # ax PROVE py = by
    <3>1. (bx - ax) * ((py - ay) - (by - ay)) = 0
      BY <1>1, <2>1
    <3> QED BY <2>1, <3>1
  <2> QED BY <2>1
<1>5. CASE bx > ax
  <2>1. ax < px /\ px < bx
    BY <1>1, <1>2, <1>3, <1>4, <1>5 DEF Between
  <2> QED BY <1>5, <2>1 DEF Before, Lower, Higher
<1>6. CASE bx < ax
  <2>1. bx < px /\ px < ax
    BY <1>1, <1>2, <1>3, <1>4, <1>6 DEF Between
  <2> QED BY <1>6, <2>1 DEF Before, Lower, Higher
<1>7. CASE bx = ax
  <2>1. px = ax /\ ((ay < py /\ py < by) \/ (by < py /\ py < ay))
    BY <1>1, <1>2, <1>7 DEF Between
  <2> QED BY <1>7, <2>1 DEF Before, Lower, Higher
<1> QED BY <1>5, <1>6, <1>7

\* Segments in one direction lie on one line if an end does.
LEMMA CrossDifference ==
  ASSUME NEW a \in Point, NEW b \in Point, NEW c \in Point, NEW d \in Point
  PROVE  Cross(c, d, b) - Cross(c, d, a) = Cross(a, b, c) - Cross(a, b, d)
<1> PICK ax, ay \in Int : a = <<ax, ay>> /\ a[1] = ax /\ a[2] = ay BY Coordinates
<1> PICK bx, by \in Int : b = <<bx, by>> /\ b[1] = bx /\ b[2] = by BY Coordinates
<1> PICK cx, cy \in Int : c = <<cx, cy>> /\ c[1] = cx /\ c[2] = cy BY Coordinates
<1> PICK dx, dy \in Int : d = <<dx, dy>> /\ d[1] = dx /\ d[2] = dy BY Coordinates
<1> QED BY DEF Cross

\* The ends of a segment are on two sides of a line through its inside, or on it.
LEMMA EndsOnTwoSides ==
  ASSUME NEW a \in Point, NEW b \in Point, NEW c \in Point, NEW d \in Point, NEW p \in Point,
         OnSegment(p, a, b), p \notin {a, b}, Cross(c, d, p) = 0
  PROVE  \/ Cross(c, d, a) * Cross(c, d, b) < 0
         \/ Cross(c, d, a) = 0 /\ Cross(c, d, b) = 0
<1>1. PICK k, m : Divides(p, a, b, k, m)
  BY OnSegmentDivides
<1>2. a # b
  <2>1. ASSUME a = b PROVE FALSE
    <3> PICK ax, ay \in Int : a = <<ax, ay>> /\ a[1] = ax /\ a[2] = ay BY Coordinates
    <3> PICK px, py \in Int : p = <<px, py>> /\ p[1] = px /\ p[2] = py BY Coordinates
    <3> QED BY <2>1 DEF OnSegment, Between
  <2> QED BY <2>1
<1>3. m # 0 /\ m # k
  BY <1>1, <1>2, DividesOnSegment
<1>4. k \in Nat \ {0} /\ m \in 0 .. k
  BY <1>1 DEF Divides
<1>5. k * (Cross(c, d, p) - Cross(c, d, a)) = m * (Cross(c, d, b) - Cross(c, d, a))
  BY <1>1, CrossAlong
<1>6. PICK u, v \in Int : u = Cross(c, d, a) /\ v = Cross(c, d, b)
  BY CrossIsInt
<1>7. k * (0 - u) = m * (v - u)
  BY <1>5, <1>6
<1>8. (k - m) * u + m * v = 0
  BY <1>4, <1>7
<1>9. k - m \in Nat \ {0} /\ m \in Nat \ {0}
  BY <1>3, <1>4
<1>10. ASSUME NEW i \in Nat \ {0}, NEW j \in Nat \ {0}, i * u + j * v = 0
       PROVE  u * v < 0 \/ (u = 0 /\ v = 0)
  <2>1. CASE u > 0
    <3>1. i * u > 0
      BY <2>1
    <3>2. j * v < 0
      BY <1>10, <3>1
    <3>3. v < 0
      BY <3>2
    <3> QED BY <2>1, <3>3, SignOfProduct
  <2>2. CASE u < 0
    <3>1. i * u < 0
      BY <2>2
    <3>2. j * v > 0
      BY <1>10, <3>1
    <3>3. v > 0
      BY <3>2
    <3> QED BY <2>2, <3>3, SignOfProduct
  <2>3. CASE u = 0
    BY <1>10, <2>3
  <2> QED BY <2>1, <2>2, <2>3
<1>11. u * v < 0 \/ (u = 0 /\ v = 0)
  BY <1>8, <1>9, <1>10
<1> QED BY <1>6, <1>11

LEMMA SharedInside ==
  ASSUME NEW a \in Point, NEW b \in Point, NEW c \in Point, NEW d \in Point, NEW p \in Point,
         OnSegment(p, a, b), OnSegment(p, c, d), p \notin {a, b, c, d}
  PROVE  ProperlyCross(a, b, c, d) \/ Overlap(a, b, c, d)
<1>1. Cross(a, b, p) = 0 /\ Cross(c, d, p) = 0
  BY DEF OnSegment
<1>2. PICK u, v, s, t \in Int : /\ u = Cross(c, d, a) /\ v = Cross(c, d, b)
                                /\ s = Cross(a, b, c) /\ t = Cross(a, b, d)
  BY CrossIsInt
<1>3. u * v < 0 \/ (u = 0 /\ v = 0)
  BY <1>1, <1>2, EndsOnTwoSides
<1>4. s * t < 0 \/ (s = 0 /\ t = 0)
  BY <1>1, <1>2, EndsOnTwoSides
<1>5. v - u = s - t
  BY <1>2, CrossDifference
<1>6. CASE u * v < 0 /\ s * t < 0
  BY <1>2, <1>6 DEF ProperlyCross
<1>7. CASE s = 0 /\ t = 0
  <2>1. Before(Lower(a, b), p) /\ Before(p, Higher(a, b))
        /\ Before(Lower(c, d), p) /\ Before(p, Higher(c, d))
    BY InsideIsBetweenEnds
  <2>2. {Lower(a, b), Higher(a, b), Lower(c, d), Higher(c, d)} \subseteq Point
    BY DEF Lower, Higher
  <2>3. Before(Lower(a, b), Higher(c, d)) /\ Before(Lower(c, d), Higher(a, b))
    BY <2>1, <2>2, BeforeIsTotal
  <2> QED BY <1>2, <1>7, <2>3, OverlapEnds
<1>8. CASE u = 0 /\ v = 0 /\ s * t < 0
  <2>1. s = t
    BY <1>5, <1>8
  <2> QED BY <1>8, <2>1, SignOfProduct
<1> QED BY <1>3, <1>4, <1>6, <1>7, <1>8

\* q, a point of the picture drawn w times larger, is on the segment and is no
\* end of it.
StrictlyInside(w, q, a, b) ==
  /\ OnSegment(q, Scaled(w, a), Scaled(w, b))
  /\ q \notin {Scaled(w, a), Scaled(w, b)}

LEMMA SharedStrictly ==
  ASSUME NEW w \in Nat \ {0}, NEW q \in Point,
         NEW a \in Point, NEW b \in Point, NEW c \in Point, NEW d \in Point,
         StrictlyInside(w, q, a, b), StrictlyInside(w, q, c, d)
  PROVE  ProperlyCross(a, b, c, d) \/ Overlap(a, b, c, d)
<1>1. {Scaled(w, a), Scaled(w, b), Scaled(w, c), Scaled(w, d)} \subseteq Point
  BY ScaledPoint
<1>2. \/ ProperlyCross(Scaled(w, a), Scaled(w, b), Scaled(w, c), Scaled(w, d))
      \/ Overlap(Scaled(w, a), Scaled(w, b), Scaled(w, c), Scaled(w, d))
  BY <1>1, SharedInside DEF StrictlyInside
<1> QED BY <1>2, ScaledMeeting

\* The point m w-ths of the way from a to b.
LEMMA PartWayStrictly ==
  ASSUME NEW a \in Point, NEW b \in Point, a # b, NEW w \in Nat \ {0}, NEW m \in 1 .. w - 1,
         NEW q \in Point,
         q[1] - w * a[1] = m * (b[1] - a[1]), q[2] - w * a[2] = m * (b[2] - a[2])
  PROVE  StrictlyInside(w, q, a, b)
<1> PICK ax, ay \in Int : a = <<ax, ay>> /\ a[1] = ax /\ a[2] = ay BY Coordinates
<1> PICK bx, by \in Int : b = <<bx, by>> /\ b[1] = bx /\ b[2] = by BY Coordinates
<1> PICK qx, qy \in Int : q = <<qx, qy>> /\ q[1] = qx /\ q[2] = qy BY Coordinates
<1>1. Scaled(w, a) \in Point /\ Scaled(w, b) \in Point /\ Scaled(w, a) # Scaled(w, b)
  BY ScaledPoint, ScaledEqual
<1>2. /\ Scaled(w, a)[1] = w * ax /\ Scaled(w, a)[2] = w * ay
      /\ Scaled(w, b)[1] = w * bx /\ Scaled(w, b)[2] = w * by
  BY DEF Scaled
<1>3. qx - w * ax = m * (bx - ax) /\ qy - w * ay = m * (by - ay)
  OBVIOUS
<1>4. /\ w * (qx - w * ax) = w * (m * (bx - ax)) /\ w * (qy - w * ay) = w * (m * (by - ay))
  BY <1>3
<1>5. /\ w * (m * (bx - ax)) = m * (w * bx - w * ax)
      /\ w * (m * (by - ay)) = m * (w * by - w * ay)
  OBVIOUS
<1>6. w \in Nat \ {0} /\ m \in 0 .. w /\ m # 0 /\ m # w
  OBVIOUS
<1>7. Divides(q, Scaled(w, a), Scaled(w, b), w, m)
  BY <1>2, <1>4, <1>5, <1>6 DEF Divides
<1> QED BY <1>1, <1>6, <1>7, DividesOnSegment DEF StrictlyInside

LEMMA CrossingPoint ==
  ASSUME NEW a \in Point, NEW b \in Point, NEW c \in Point, NEW d \in Point,
         ProperlyCross(a, b, c, d)
  PROVE  \E w \in Nat \ {0}, q \in Point :
           StrictlyInside(w, q, a, b) /\ StrictlyInside(w, q, c, d)
<1> PICK ax, ay \in Int : a = <<ax, ay>> /\ a[1] = ax /\ a[2] = ay BY Coordinates
<1> PICK bx, by \in Int : b = <<bx, by>> /\ b[1] = bx /\ b[2] = by BY Coordinates
<1> PICK cx, cy \in Int : c = <<cx, cy>> /\ c[1] = cx /\ c[2] = cy BY Coordinates
<1> PICK dx, dy \in Int : d = <<dx, dy>> /\ d[1] = dx /\ d[2] = dy BY Coordinates
<1>1. PICK u, v, s, t \in Int : /\ u = Cross(c, d, a) /\ v = Cross(c, d, b)
                                /\ s = Cross(a, b, c) /\ t = Cross(a, b, d)
  BY CrossIsInt
<1>2. u * v < 0 /\ s * t < 0
  BY <1>1 DEF ProperlyCross
<1>3. v - u = s - t
  BY <1>1, CrossDifference
<1>4. a # b /\ c # d
  <2>1. a # b
    BY <1>1, <1>2, SignOfProduct
  <2>2. c # d
    BY <1>1, <1>2, SignOfProduct
  <2> QED BY <2>1, <2>2
<1>5. /\ u * bx - v * ax = t * cx - s * dx
      /\ u * by - v * ay = t * cy - s * dy
  <2>1. /\ u = (dx - cx) * (ay - cy) - (dy - cy) * (ax - cx)
        /\ v = (dx - cx) * (by - cy) - (dy - cy) * (bx - cx)
        /\ s = (bx - ax) * (cy - ay) - (by - ay) * (cx - ax)
        /\ t = (bx - ax) * (dy - ay) - (by - ay) * (dx - ax)
    BY <1>1 DEF Cross
  <2> QED BY <2>1
<1>6. CASE u > 0
  <2>1. v < 0 /\ t > 0 /\ s < 0
    <3>1. v < 0
      BY <1>2, <1>6, SignOfProduct
    <3>2. s < t
      BY <1>3, <1>6, <3>1
    <3> QED BY <1>2, <3>1, <3>2, SignOfProduct
  <2> DEFINE w == u - v
             q == <<u * bx - v * ax, u * by - v * ay>>
  <2>2. w \in Nat \ {0} /\ u \in 1 .. w - 1 /\ -s \in 1 .. w - 1 /\ w = t - s
    BY <1>3, <1>6, <2>1
  <2>3. q \in Point
    BY DEF Point
  <2>4. /\ q[1] - w * ax = u * (bx - ax) /\ q[2] - w * ay = u * (by - ay)
        /\ q[1] - w * cx = (-s) * (dx - cx) /\ q[2] - w * cy = (-s) * (dy - cy)
    BY <1>3, <1>5
  <2> HIDE DEF w, q
  <2>5. StrictlyInside(w, q, a, b) /\ StrictlyInside(w, q, c, d)
    BY <1>4, <2>2, <2>3, <2>4, PartWayStrictly
  <2> QED BY <2>2, <2>3, <2>5
<1>7. CASE u < 0
  <2>1. v > 0 /\ t < 0 /\ s > 0
    <3>1. v > 0
      BY <1>2, <1>7, SignOfProduct
    <3>2. s > t
      BY <1>3, <1>7, <3>1
    <3> QED BY <1>2, <3>1, <3>2, SignOfProduct
  <2> DEFINE w == v - u
             q == <<v * ax - u * bx, v * ay - u * by>>
  <2>2. w \in Nat \ {0} /\ -u \in 1 .. w - 1 /\ s \in 1 .. w - 1 /\ w = s - t
    BY <1>3, <1>7, <2>1
  <2>3. q \in Point
    BY DEF Point
  <2>4. /\ q[1] - w * ax = (-u) * (bx - ax) /\ q[2] - w * ay = (-u) * (by - ay)
        /\ q[1] - w * cx = s * (dx - cx) /\ q[2] - w * cy = s * (dy - cy)
    BY <1>3, <1>5
  <2> HIDE DEF w, q
  <2>5. StrictlyInside(w, q, a, b) /\ StrictlyInside(w, q, c, d)
    BY <1>4, <2>2, <2>3, <2>4, PartWayStrictly
  <2> QED BY <2>2, <2>3, <2>5
<1> QED BY <1>2, <1>6, <1>7, SignOfProduct

\* A point of the line through a and b that is not before both nor after both.
LEMMA CollinearBetween ==
  ASSUME NEW a \in Point, NEW b \in Point, NEW p \in Point, Cross(a, b, p) = 0,
         ~ Before(p, Lower(a, b)), ~ Before(Higher(a, b), p), a # b
  PROVE  OnSegment(p, a, b)
<1> PICK ax, ay \in Int : a = <<ax, ay>> /\ a[1] = ax /\ a[2] = ay BY Coordinates
<1> PICK bx, by \in Int : b = <<bx, by>> /\ b[1] = bx /\ b[2] = by BY Coordinates
<1> PICK px, py \in Int : p = <<px, py>> /\ p[1] = px /\ p[2] = py BY Coordinates
<1>1. (bx - ax) * (py - ay) = (by - ay) * (px - ax)
  BY DEF Cross
<1>2. CASE bx > ax
  <2>1. ax <= px /\ px <= bx
    BY <1>2 DEF Before, Lower, Higher
  <2>2. Divides(p, a, b, bx - ax, px - ax)
    BY <1>1, <1>2, <2>1 DEF Divides
  <2> QED BY <2>2, DividesOnSegment
<1>3. CASE bx < ax
  <2>1. bx <= px /\ px <= ax
    BY <1>3 DEF Before, Lower, Higher
  <2>2. Divides(p, a, b, ax - bx, ax - px)
    BY <1>1, <1>3, <2>1 DEF Divides
  <2> QED BY <2>2, DividesOnSegment
<1>4. CASE bx = ax
  <2>1. px = ax /\ Between(py, ay, by)
    BY <1>4 DEF Before, Lower, Higher, Between
  <2> QED BY <1>4, <2>1 DEF OnSegment, Between
<1> QED BY <1>2, <1>3, <1>4

LEMMA OnOneLine ==
  ASSUME NEW a \in Point, NEW b \in Point, a # b, NEW c \in Point, NEW d \in Point,
         Cross(a, b, c) = 0, Cross(a, b, d) = 0
  PROVE  Cross(c, d, a) = 0 /\ Cross(c, d, b) = 0
<1> PICK ax, ay \in Int : a = <<ax, ay>> /\ a[1] = ax /\ a[2] = ay BY Coordinates
<1> PICK bx, by \in Int : b = <<bx, by>> /\ b[1] = bx /\ b[2] = by BY Coordinates
<1> PICK cx, cy \in Int : c = <<cx, cy>> /\ c[1] = cx /\ c[2] = cy BY Coordinates
<1> PICK dx, dy \in Int : d = <<dx, dy>> /\ d[1] = dx /\ d[2] = dy BY Coordinates
<1>1. PICK u1, u2, v1, v2, w1, w2 \in Int :
        /\ u1 = bx - ax /\ u2 = by - ay /\ v1 = cx - ax /\ v2 = cy - ay
        /\ w1 = dx - ax /\ w2 = dy - ay
  OBVIOUS
<1>2. (u1 # 0 \/ u2 # 0) /\ u1 * v2 = u2 * v1 /\ u1 * w2 = u2 * w1
  BY <1>1 DEF Cross
<1>3. v1 * w2 = v2 * w1
  <2>1. v1 * (u1 * w2) = v1 * (u2 * w1) /\ v2 * (u1 * w2) = v2 * (u2 * w1)
        /\ w1 * (u1 * v2) = w1 * (u2 * v1) /\ w2 * (u1 * v2) = w2 * (u2 * v1)
    BY <1>2
  <2>2. u1 * (v1 * w2 - v2 * w1) = 0 /\ u2 * (v1 * w2 - v2 * w1) = 0
    BY <2>1
  <2>3. v1 * w2 - v2 * w1 \in Int
    OBVIOUS
  <2>4. v1 * w2 - v2 * w1 = 0
    BY <1>2, <2>2, <2>3, SignOfProduct
  <2> QED BY <2>4
<1>4. (cx - ax) * (dy - ay) = (cy - ay) * (dx - ax)
  BY <1>1, <1>3
<1>5. Cross(c, d, a) = 0
  BY <1>4 DEF Cross
<1>6. Cross(c, d, b) - Cross(c, d, a) = 0 - 0
  BY CrossDifference
<1>7. Cross(c, d, b) \in Int
  BY CrossIsInt
<1> QED BY <1>5, <1>6, <1>7

LEMMA OverlapPoint ==
  ASSUME NEW a \in Point, NEW b \in Point, NEW c \in Point, NEW d \in Point,
         a # b, c # d, Overlap(a, b, c, d)
  PROVE  \E w \in Nat \ {0}, q \in Point :
           StrictlyInside(w, q, a, b) /\ StrictlyInside(w, q, c, d)
<1> DEFINE lo == IF Before(Lower(a, b), Lower(c, d)) THEN Lower(c, d) ELSE Lower(a, b)
           hi == IF Before(Higher(a, b), Higher(c, d)) THEN Higher(a, b) ELSE Higher(c, d)
           q  == <<lo[1] + hi[1], lo[2] + hi[2]>>
<1>1. lo \in {a, b, c, d} /\ hi \in {a, b, c, d} /\ {lo, hi} \subseteq Point
  BY DEF Lower, Higher
<1>2. /\ Before(Lower(a, b), Higher(c, d)) /\ Before(Lower(c, d), Higher(a, b))
      /\ Cross(a, b, c) = 0 /\ Cross(a, b, d) = 0
  BY OverlapEnds
<1>3. Cross(c, d, a) = 0 /\ Cross(c, d, b) = 0
  BY <1>2, OnOneLine
<1>4. ASSUME NEW p \in {lo, hi}
      PROVE  Cross(a, b, p) = 0 /\ Cross(c, d, p) = 0
  BY <1>1, <1>2, <1>3, CrossAtEnds
<1>5. /\ Before(Lower(a, b), Higher(a, b)) /\ Before(Lower(c, d), Higher(c, d))
      /\ {Lower(a, b), Lower(c, d), Higher(a, b), Higher(c, d)} \subseteq Point
  BY BeforeIsTotal DEF Lower, Higher
<1>6. /\ Before(lo, hi)
      /\ ~ Before(lo, Lower(a, b)) /\ ~ Before(lo, Lower(c, d))
      /\ ~ Before(Higher(a, b), hi) /\ ~ Before(Higher(c, d), hi)
  BY <1>2, <1>5, BeforeIsTotal
<1>7. /\ ~ Before(Higher(a, b), lo) /\ ~ Before(Higher(c, d), lo)
      /\ ~ Before(hi, Lower(a, b)) /\ ~ Before(hi, Lower(c, d))
  BY <1>1, <1>5, <1>6, BeforeIsTotal
<1> HIDE DEF lo, hi
<1>8. /\ OnSegment(lo, a, b) /\ OnSegment(hi, a, b)
      /\ OnSegment(lo, c, d) /\ OnSegment(hi, c, d)
  BY <1>1, <1>4, <1>6, <1>7, CollinearBetween
<1> PICK lx, ly \in Int : lo = <<lx, ly>> /\ lo[1] = lx /\ lo[2] = ly BY <1>1, Coordinates
<1> PICK hx, hy \in Int : hi = <<hx, hy>> /\ hi[1] = hx /\ hi[2] = hy BY <1>1, Coordinates
<1>9. q \in Point /\ q = <<lx + hx, ly + hy>>
  BY DEF Point
<1>10. lo # hi
  BY <1>1, <1>6, BeforeIsTotal
<1>11. StrictlyInside(2, q, lo, hi)
  <2> DEFINE w == 2
             m == 1
  <2>1. q[1] - w * lo[1] = m * (hi[1] - lo[1]) /\ q[2] - w * lo[2] = m * (hi[2] - lo[2])
    BY <1>9
  <2>2. w \in Nat \ {0} /\ m \in 1 .. w - 1 /\ q \in Point /\ lo \in Point /\ hi \in Point
    BY <1>1, <1>9
  <2> HIDE DEF q, w, m
  <2>3. StrictlyInside(w, q, lo, hi)
    BY <1>10, <2>1, <2>2, PartWayStrictly
  <2> QED BY <2>3 DEF w
<1> HIDE DEF q
<1>12. ASSUME NEW x \in Point, NEW y \in Point, OnSegment(lo, x, y), OnSegment(hi, x, y),
              ~ Before(lo, Lower(x, y)), ~ Before(Higher(x, y), hi)
       PROVE  StrictlyInside(2, q, x, y)
  <2>1. /\ {Scaled(2, x), Scaled(2, y), Scaled(2, lo), Scaled(2, hi)} \subseteq Point
        /\ OnSegment(Scaled(2, lo), Scaled(2, x), Scaled(2, y))
        /\ OnSegment(Scaled(2, hi), Scaled(2, x), Scaled(2, y))
    BY <1>1, <1>12, ScaledPoint, ScaledOnSegment
  <2>2. OnSegment(q, Scaled(2, x), Scaled(2, y))
    BY <1>9, <1>11, <2>1, SubSegment DEF StrictlyInside
  <2>3. /\ Before(Lower(Scaled(2, lo), Scaled(2, hi)), q)
        /\ Before(q, Higher(Scaled(2, lo), Scaled(2, hi)))
    BY <1>9, <1>11, <2>1, InsideIsBetweenEnds DEF StrictlyInside
  <2>4. Before(Scaled(2, lo), Scaled(2, hi))
    BY <1>1, <1>6, ScaledBefore
  <2>5. Before(Scaled(2, lo), q) /\ Before(q, Scaled(2, hi))
    BY <2>3, <2>4 DEF Lower, Higher
  <2>6. {x, y} = {Lower(x, y), Higher(x, y)}
    BY DEF Lower, Higher
  <2>7. q # Scaled(2, Lower(x, y))
    <3>1. ASSUME q = Scaled(2, Lower(x, y)) PROVE FALSE
      <4>1. Before(Scaled(2, lo), Scaled(2, Lower(x, y)))
        BY <2>5, <3>1
      <4> QED BY <1>1, <1>12, <2>6, <4>1, ScaledBefore
    <3> QED BY <3>1
  <2>8. q # Scaled(2, Higher(x, y))
    <3>1. ASSUME q = Scaled(2, Higher(x, y)) PROVE FALSE
      <4>1. Before(Scaled(2, Higher(x, y)), Scaled(2, hi))
        BY <2>5, <3>1
      <4> QED BY <1>1, <1>12, <2>6, <4>1, ScaledBefore
    <3> QED BY <3>1
  <2> QED BY <2>2, <2>6, <2>7, <2>8 DEF StrictlyInside
<1>13. StrictlyInside(2, q, a, b) /\ StrictlyInside(2, q, c, d)
  BY <1>6, <1>8, <1>12
<1>14. 2 \in Nat \ {0}
  OBVIOUS
<1> QED BY <1>9, <1>13, <1>14

-----------------------------------------------------------------------------
(* Lines as sets of points of rational coordinates.                        *)

\* q, a point of the picture drawn w times larger, is on segment i of the line.
OnPart(w, q, g, i) == OnSegment(q, Scaled(w, g[i]), Scaled(w, g[i + 1]))

AtEnd(w, q, g) == q \in {Scaled(w, StartPoint(g)), Scaled(w, EndPoint(g))}

InteriorAt(w, q, g) == ~ AtEnd(w, q, g) /\ \E i \in 1 .. Len(g) - 1 : OnPart(w, q, g, i)

\* The interiors have a point in common.
ShareInterior(g, h) ==
  \E w \in Nat \ {0}, q \in Point : InteriorAt(w, q, g) /\ InteriorAt(w, q, h)

\* Two segments of the line only share the vertex between them, or the two
\* ends of a closed line.
PartsShareVertices(g) ==
  \A w \in Nat \ {0}, q \in Point : \A i, j \in 1 .. Len(g) - 1 :
    i < j /\ OnPart(w, q, g, i) /\ OnPart(w, q, g, j) =>
      \/ j = i + 1 /\ q = Scaled(w, g[j])
      \/ i = 1 /\ j = Len(g) - 1 /\ g[1] = g[Len(g)] /\ q = Scaled(w, g[1])

LEMMA LineVertices ==
  ASSUME NEW g \in Line
  PROVE  /\ g \in Seq(Point) /\ Len(g) \in Nat /\ Len(g) >= 2
         /\ \A i \in 1 .. Len(g) : g[i] \in Point
         /\ \A i \in 1 .. Len(g) - 1 : g[i] \in Point /\ g[i + 1] \in Point /\ g[i] # g[i + 1]
         /\ StartPoint(g) \in Point /\ EndPoint(g) \in Point
<1>1. g \in Seq(Point) /\ Len(g) >= 2 /\ \A i \in 1 .. Len(g) - 1 : g[i] # g[i + 1]
  BY DEF Line
<1>2. Len(g) \in Nat /\ \A i \in 1 .. Len(g) : g[i] \in Point
  BY <1>1, ElementOfSeq, LenProperties
<1>3. \A i \in 1 .. Len(g) - 1 : i \in 1 .. Len(g) /\ i + 1 \in 1 .. Len(g)
  BY <1>2
<1>4. 1 \in 1 .. Len(g) /\ Len(g) \in 1 .. Len(g)
  BY <1>1, <1>2
<1> QED BY <1>1, <1>2, <1>3, <1>4 DEF StartPoint, EndPoint

\* A vertex of the line is at the same place in the larger picture.
LEMMA VertexOnPart ==
  ASSUME NEW g \in Line, NEW w \in Nat \ {0}, NEW p \in Point, NEW i \in 1 .. Len(g) - 1
  PROVE  OnPart(w, Scaled(w, p), g, i) <=> OnSegment(p, g[i], g[i + 1])
BY LineVertices, ScaledOnSegment DEF OnPart

LEMMA EndsOfParts ==
  ASSUME NEW g \in Line, NEW w \in Nat \ {0}, NEW i \in 1 .. Len(g) - 1
  PROVE  OnPart(w, Scaled(w, g[i]), g, i) /\ OnPart(w, Scaled(w, g[i + 1]), g, i)
BY LineVertices, VertexOnPart, EndsOnSegment

LEMMA PassesPart ==
  ASSUME NEW g, NEW p
  PROVE  Passes(g, p) <=> \E i \in 1 .. Len(g) - 1 : OnSegment(p, g[i], g[i + 1])
<1>1. ASSUME NEW i \in 1 .. Len(g) - 1, OnSegment(p, g[i], g[i + 1])
      PROVE  Passes(g, p)
  <2> DEFINE t == <<g[i], g[i + 1]>>
  <2>1. t \in Segments(g)
    BY DEF Segments
  <2>2. t[1] = g[i] /\ t[2] = g[i + 1]
    OBVIOUS
  <2> HIDE DEF t
  <2> QED BY <1>1, <2>1, <2>2 DEF Passes
<1>2. ASSUME Passes(g, p)
      PROVE  \E i \in 1 .. Len(g) - 1 : OnSegment(p, g[i], g[i + 1])
  <2>1. PICK t \in Segments(g) : OnSegment(p, t[1], t[2])
    BY <1>2 DEF Passes
  <2>2. PICK i \in 1 .. Len(g) - 1 : t = <<g[i], g[i + 1]>>
    BY DEF Segments
  <2>3. t[1] = g[i] /\ t[2] = g[i + 1]
    BY <2>2
  <2> QED BY <2>1, <2>3
<1> QED BY <1>1, <1>2

LEMMA PassesOnPart ==
  ASSUME NEW g \in Line, NEW w \in Nat \ {0}, NEW p \in Point
  PROVE  InInterior(p, g) <=> InteriorAt(w, Scaled(w, p), g)
<1>1. Passes(g, p) <=> \E i \in 1 .. Len(g) - 1 : OnSegment(p, g[i], g[i + 1])
  BY PassesPart
<1>2. Passes(g, p) <=> \E i \in 1 .. Len(g) - 1 : OnPart(w, Scaled(w, p), g, i)
  BY <1>1, VertexOnPart
<1>3. p \in {StartPoint(g), EndPoint(g)} <=> AtEnd(w, Scaled(w, p), g)
  BY LineVertices, ScaledEqual DEF AtEnd
<1> QED BY <1>2, <1>3 DEF InInterior, InteriorAt

LEMMA SimpleSharesVertices ==
  ASSUME NEW g \in Line, IsSimple(g)
  PROVE  PartsShareVertices(g)
<1> SUFFICES ASSUME NEW w \in Nat \ {0}, NEW q \in Point,
                    NEW i \in 1 .. Len(g) - 1, NEW j \in 1 .. Len(g) - 1,
                    i < j, OnPart(w, q, g, i), OnPart(w, q, g, j)
             PROVE  \/ j = i + 1 /\ q = Scaled(w, g[j])
                    \/ i = 1 /\ j = Len(g) - 1 /\ g[1] = g[Len(g)] /\ q = Scaled(w, g[1])
  BY DEF PartsShareVertices
<1>1. /\ Len(g) \in Nat
      /\ i \in 1 .. Len(g) /\ i + 1 \in 1 .. Len(g) /\ j \in 1 .. Len(g) /\ j + 1 \in 1 .. Len(g)
      /\ \A k \in 1 .. Len(g) : g[k] \in Point
      /\ {g[i], g[i + 1], g[j], g[j + 1]} \subseteq Point
  BY LineVertices
<1>2. PICK k \in {i, i + 1, j, j + 1} : q = Scaled(w, g[k])
  <2>1. ASSUME q \notin {Scaled(w, g[i]), Scaled(w, g[i + 1]), Scaled(w, g[j]), Scaled(w, g[j + 1])}
        PROVE  FALSE
    <3>1. StrictlyInside(w, q, g[i], g[i + 1]) /\ StrictlyInside(w, q, g[j], g[j + 1])
      BY <2>1 DEF StrictlyInside, OnPart
    <3>2. ProperlyCross(g[i], g[i + 1], g[j], g[j + 1]) \/ Overlap(g[i], g[i + 1], g[j], g[j + 1])
      BY <1>1, <3>1, SharedStrictly
    <3> QED BY <3>2 DEF IsSimple
  <2> QED BY <2>1
<1>3. k \in 1 .. Len(g) /\ g[k] \in Point
  BY <1>1
<1>4. OnSegment(g[k], g[i], g[i + 1]) /\ OnSegment(g[k], g[j], g[j + 1])
  BY <1>2, <1>3, VertexOnPart
<1>5. g[k] \in {g[i], g[i + 1]} /\ g[k] \in {g[j], g[j + 1]}
  BY <1>3, <1>4 DEF IsSimple
<1>6. PICK a \in {i, i + 1}, b \in {j, j + 1} : g[k] = g[a] /\ g[k] = g[b]
  BY <1>5
<1>7. a \in 1 .. Len(g) /\ b \in 1 .. Len(g) /\ a <= b
  BY <1>1
<1>8. CASE a = b
  BY <1>1, <1>2, <1>6, <1>8
<1>9. CASE a # b
  <2>1. a \in Int /\ b \in Int /\ a < b
    BY <1>7, <1>9
  <2>2. a = 1 /\ b = Len(g)
    <3>1. \A x, y \in 1 .. Len(g) : (x < y /\ g[x] = g[y]) => (x = 1 /\ y = Len(g))
      BY DEF IsSimple
    <3>2. g[a] = g[b]
      BY <1>6
    <3> QED BY <1>7, <2>1, <3>1, <3>2
  <2>3. a = i /\ i = 1
    BY <1>1, <2>2
  <2>4. b = j + 1 /\ j = Len(g) - 1
    BY <1>1, <2>2
  <2>5. g[1] = g[Len(g)] /\ q = Scaled(w, g[1])
    BY <1>2, <1>6, <2>2
  <2> QED BY <2>3, <2>4, <2>5
<1> QED BY <1>8, <1>9

LEMMA SharingVerticesIsSimple ==
  ASSUME NEW g \in Line, PartsShareVertices(g)
  PROVE  IsSimple(g)
<1>1. /\ Len(g) \in Nat /\ Len(g) >= 2
      /\ \A k \in 1 .. Len(g) : g[k] \in Point
      /\ \A k \in 1 .. Len(g) - 1 : g[k] \in Point /\ g[k + 1] \in Point /\ g[k] # g[k + 1]
  BY LineVertices
<1>2. 1 \in Nat \ {0}
  OBVIOUS
<1>3. ASSUME NEW k \in 1 .. Len(g), NEW i \in 1 .. Len(g) - 1, NEW j \in 1 .. Len(g) - 1, i < j,
             OnSegment(g[k], g[i], g[i + 1]), OnSegment(g[k], g[j], g[j + 1])
      PROVE  \/ j = i + 1 /\ g[k] = g[j]
             \/ i = 1 /\ j = Len(g) - 1 /\ g[1] = g[Len(g)] /\ g[k] = g[1]
  <2>1. Scaled(1, g[k]) \in Point
    BY <1>1, <1>2, ScaledPoint
  <2>2. OnPart(1, Scaled(1, g[k]), g, i) /\ OnPart(1, Scaled(1, g[k]), g, j)
    BY <1>1, <1>2, <1>3, VertexOnPart
  <2>3. \/ j = i + 1 /\ Scaled(1, g[k]) = Scaled(1, g[j])
        \/ i = 1 /\ j = Len(g) - 1 /\ g[1] = g[Len(g)] /\ Scaled(1, g[k]) = Scaled(1, g[1])
    BY <1>2, <1>3, <2>1, <2>2 DEF PartsShareVertices
  <2>4. g[j] \in Point /\ g[1] \in Point /\ g[k] \in Point
    BY <1>1
  <2> QED BY <1>2, <2>3, <2>4, ScaledEqual
<1>4. ASSUME NEW i \in 1 .. Len(g) - 1
      PROVE  OnSegment(g[i], g[i], g[i + 1]) /\ OnSegment(g[i + 1], g[i], g[i + 1])
  BY <1>1, EndsOnSegment
<1>5. ASSUME NEW i \in 1 .. Len(g), NEW j \in 1 .. Len(g), i < j, g[i] = g[j]
      PROVE  i = 1 /\ j = Len(g)
  <2>1. i \in 1 .. Len(g) - 1 /\ j - 1 \in 1 .. Len(g) - 1 /\ (j - 1) + 1 = j /\ i <= j - 1
    BY <1>1, <1>5
  <2>2. OnSegment(g[i], g[i], g[i + 1])
    BY <1>4, <2>1
  <2>3. OnSegment(g[i], g[j - 1], g[(j - 1) + 1])
    <3>1. OnSegment(g[(j - 1) + 1], g[j - 1], g[(j - 1) + 1])
      BY <1>4, <2>1
    <3> QED BY <1>5, <2>1, <3>1
  <2>4. i # j - 1
    BY <1>1, <1>5, <2>1
  <2>5. \/ j - 1 = i + 1 /\ g[i] = g[j - 1]
        \/ i = 1 /\ j - 1 = Len(g) - 1 /\ g[1] = g[Len(g)] /\ g[i] = g[1]
    <3>1. i < j - 1
      BY <2>1, <2>4
    <3> QED BY <1>3, <2>1, <2>2, <2>3, <3>1
  <2>6. ~ (j - 1 = i + 1 /\ g[i] = g[j - 1])
    BY <1>1, <2>1
  <2> QED BY <1>1, <2>5, <2>6
<1>6. ASSUME NEW i \in 1 .. Len(g), NEW j \in 1 .. Len(g) - 1, OnSegment(g[i], g[j], g[j + 1])
      PROVE  g[i] \in {g[j], g[j + 1]}
  <2>1. CASE i < j
    <3>1. i \in 1 .. Len(g) - 1
      BY <1>1, <2>1
    <3>2. OnSegment(g[i], g[i], g[i + 1])
      BY <1>4, <3>1
    <3>3. \/ j = i + 1 /\ g[i] = g[j]
          \/ j = Len(g) - 1 /\ g[1] = g[Len(g)] /\ g[i] = g[1]
      BY <1>3, <1>6, <2>1, <3>1, <3>2
    <3> QED BY <1>1, <3>3
  <2>2. CASE i > j + 1
    <3>1. i - 1 \in 1 .. Len(g) - 1 /\ (i - 1) + 1 = i /\ j < i - 1
      BY <1>1, <2>2
    <3>2. OnSegment(g[i], g[i - 1], g[(i - 1) + 1])
      <4>1. OnSegment(g[(i - 1) + 1], g[i - 1], g[(i - 1) + 1])
        BY <1>4, <3>1
      <4> QED BY <3>1, <4>1
    <3>3. \/ i - 1 = j + 1 /\ g[i] = g[i - 1]
          \/ j = 1 /\ g[i] = g[1]
      BY <1>3, <1>6, <3>1, <3>2
    <3>4. g[i - 1] # g[i]
      BY <1>1, <3>1
    <3> QED BY <3>3, <3>4
  <2> QED BY <1>1, <2>1, <2>2
<1>7. ASSUME NEW i \in 1 .. Len(g) - 1, NEW j \in 1 .. Len(g) - 1, i < j,
             ProperlyCross(g[i], g[i + 1], g[j], g[j + 1]) \/ Overlap(g[i], g[i + 1], g[j], g[j + 1])
      PROVE  FALSE
  <2>1. PICK w \in Nat \ {0}, q \in Point :
          StrictlyInside(w, q, g[i], g[i + 1]) /\ StrictlyInside(w, q, g[j], g[j + 1])
    <3>1. /\ g[i] \in Point /\ g[i + 1] \in Point /\ g[i] # g[i + 1]
          /\ g[j] \in Point /\ g[j + 1] \in Point /\ g[j] # g[j + 1]
      BY <1>1
    <3>2. CASE ProperlyCross(g[i], g[i + 1], g[j], g[j + 1])
      BY <3>1, <3>2, CrossingPoint
    <3>3. CASE Overlap(g[i], g[i + 1], g[j], g[j + 1])
      BY <3>1, <3>3, OverlapPoint
    <3> QED BY <1>7, <3>2, <3>3
  <2>2. OnPart(w, q, g, i) /\ OnPart(w, q, g, j)
    BY <2>1 DEF StrictlyInside, OnPart
  <2>3. q = Scaled(w, g[j]) \/ (i = 1 /\ q = Scaled(w, g[1]))
    BY <1>7, <2>2 DEF PartsShareVertices
  <2> QED BY <2>1, <2>3 DEF StrictlyInside
<1> QED BY <1>5, <1>6, <1>7 DEF IsSimple

LEMMA SegmentsAreParts ==
  ASSUME NEW g
  PROVE  /\ \A t \in Segments(g) : \E i \in 1 .. Len(g) - 1 : t[1] = g[i] /\ t[2] = g[i + 1]
         /\ \A i \in 1 .. Len(g) - 1 : \E t \in Segments(g) : t[1] = g[i] /\ t[2] = g[i + 1]
<1>1. \A i \in 1 .. Len(g) - 1 : <<g[i], g[i + 1]>>[1] = g[i] /\ <<g[i], g[i + 1]>>[2] = g[i + 1]
  OBVIOUS
<1>2. \A i \in 1 .. Len(g) - 1 : <<g[i], g[i + 1]>> \in Segments(g)
  BY DEF Segments
<1>3. \A t \in Segments(g) : \E i \in 1 .. Len(g) - 1 : t = <<g[i], g[i + 1]>>
  BY DEF Segments
<1>4. \A t \in Segments(g) : \E i \in 1 .. Len(g) - 1 : t[1] = g[i] /\ t[2] = g[i + 1]
  BY <1>1, <1>3
<1>5. ASSUME NEW i \in 1 .. Len(g) - 1
      PROVE  \E t \in Segments(g) : t[1] = g[i] /\ t[2] = g[i + 1]
  BY <1>1, <1>2
<1> QED BY <1>4, <1>5

LEMMA InsideIsInterior ==
  ASSUME NEW g \in Line, IsSimple(g), NEW i \in 1 .. Len(g) - 1,
         NEW w \in Nat \ {0}, NEW q \in Point, StrictlyInside(w, q, g[i], g[i + 1])
  PROVE  InteriorAt(w, q, g)
<1>1. OnPart(w, q, g, i)
  BY DEF StrictlyInside, OnPart
<1>2. ASSUME NEW k \in {1, Len(g)}, q = Scaled(w, g[k])
      PROVE  FALSE
  <2>1. k \in 1 .. Len(g) /\ g[k] \in Point
    BY LineVertices
  <2>2. OnSegment(g[k], g[i], g[i + 1])
    BY <1>1, <1>2, <2>1, VertexOnPart
  <2>3. g[k] \in {g[i], g[i + 1]}
    BY <2>1, <2>2 DEF IsSimple
  <2> QED BY <1>2, <2>3 DEF StrictlyInside
<1>3. ~ AtEnd(w, q, g)
  BY <1>2 DEF AtEnd, StartPoint, EndPoint
<1> QED BY <1>1, <1>3 DEF InteriorAt

\* What InteriorsMeet looks for, segments that cross or overlap and vertices of
\* one line in the interior of both, is all there is to look for.
LEMMA MeetingInteriorsShare ==
  ASSUME NEW g \in Line, NEW h \in Line, IsSimple(g), IsSimple(h), InteriorsMeet(g, h)
  PROVE  ShareInterior(g, h)
<1>1. ASSUME NEW p \in Vertices(g) \cup Vertices(h), InInterior(p, g), InInterior(p, h)
      PROVE  ShareInterior(g, h)
  <2>1. p \in Point
    BY LineVertices DEF Vertices
  <2>2. 1 \in Nat \ {0} /\ Scaled(1, p) \in Point
    BY <2>1, ScaledPoint
  <2>3. InteriorAt(1, Scaled(1, p), g) /\ InteriorAt(1, Scaled(1, p), h)
    BY <1>1, <2>1, <2>2, PassesOnPart
  <2> QED BY <2>2, <2>3 DEF ShareInterior
<1>2. ASSUME NEW t \in Segments(g), NEW u \in Segments(h),
             ProperlyCross(t[1], t[2], u[1], u[2]) \/ Overlap(t[1], t[2], u[1], u[2])
      PROVE  ShareInterior(g, h)
  <2>1. PICK i \in 1 .. Len(g) - 1 : t[1] = g[i] /\ t[2] = g[i + 1]
    BY SegmentsAreParts
  <2>2. PICK j \in 1 .. Len(h) - 1 : u[1] = h[j] /\ u[2] = h[j + 1]
    BY SegmentsAreParts
  <2>3. /\ g[i] \in Point /\ g[i + 1] \in Point /\ g[i] # g[i + 1]
        /\ h[j] \in Point /\ h[j + 1] \in Point /\ h[j] # h[j + 1]
    BY LineVertices
  <2>4. PICK w \in Nat \ {0}, q \in Point :
          StrictlyInside(w, q, g[i], g[i + 1]) /\ StrictlyInside(w, q, h[j], h[j + 1])
    <3>1. CASE ProperlyCross(g[i], g[i + 1], h[j], h[j + 1])
      BY <2>3, <3>1, CrossingPoint
    <3>2. CASE Overlap(g[i], g[i + 1], h[j], h[j + 1])
      BY <2>3, <3>2, OverlapPoint
    <3> QED BY <1>2, <2>1, <2>2, <3>1, <3>2
  <2>5. InteriorAt(w, q, g) /\ InteriorAt(w, q, h)
    BY <2>4, InsideIsInterior
  <2> QED BY <2>5 DEF ShareInterior
<1> QED BY <1>1, <1>2 DEF InteriorsMeet

LEMMA SharingInteriorsMeet ==
  ASSUME NEW g \in Line, NEW h \in Line, ShareInterior(g, h)
  PROVE  InteriorsMeet(g, h)
<1>1. PICK w \in Nat \ {0}, q \in Point : InteriorAt(w, q, g) /\ InteriorAt(w, q, h)
  BY DEF ShareInterior
<1>2. PICK i \in 1 .. Len(g) - 1 : OnPart(w, q, g, i)
  BY <1>1 DEF InteriorAt
<1>3. PICK j \in 1 .. Len(h) - 1 : OnPart(w, q, h, j)
  BY <1>1 DEF InteriorAt
<1>4. /\ g[i] \in Point /\ g[i + 1] \in Point /\ h[j] \in Point /\ h[j + 1] \in Point
      /\ {g[i], g[i + 1]} \subseteq Vertices(g) /\ {h[j], h[j + 1]} \subseteq Vertices(h)
  <2>1. i \in 1 .. Len(g) /\ i + 1 \in 1 .. Len(g) /\ j \in 1 .. Len(h) /\ j + 1 \in 1 .. Len(h)
    BY LineVertices
  <2> QED BY <2>1, LineVertices DEF Vertices
<1>5. CASE q \in {Scaled(w, g[i]), Scaled(w, g[i + 1]), Scaled(w, h[j]), Scaled(w, h[j + 1])}
  <2>1. PICK p \in {g[i], g[i + 1], h[j], h[j + 1]} : q = Scaled(w, p)
    BY <1>5
  <2>2. p \in Point /\ p \in Vertices(g) \cup Vertices(h)
    BY <1>4
  <2>3. InInterior(p, g) /\ InInterior(p, h)
    BY <1>1, <2>1, <2>2, PassesOnPart
  <2> QED BY <2>2, <2>3 DEF InteriorsMeet
<1>6. CASE q \notin {Scaled(w, g[i]), Scaled(w, g[i + 1]), Scaled(w, h[j]), Scaled(w, h[j + 1])}
  <2>1. StrictlyInside(w, q, g[i], g[i + 1]) /\ StrictlyInside(w, q, h[j], h[j + 1])
    BY <1>2, <1>3, <1>6 DEF StrictlyInside, OnPart
  <2>2. ProperlyCross(g[i], g[i + 1], h[j], h[j + 1]) \/ Overlap(g[i], g[i + 1], h[j], h[j + 1])
    BY <1>4, <2>1, SharedStrictly
  <2>3. PICK t \in Segments(g) : t[1] = g[i] /\ t[2] = g[i + 1]
    BY SegmentsAreParts
  <2>4. PICK u \in Segments(h) : u[1] = h[j] /\ u[2] = h[j + 1]
    BY SegmentsAreParts
  <2> QED BY <2>2, <2>3, <2>4 DEF InteriorsMeet
<1> QED BY <1>5, <1>6

-----------------------------------------------------------------------------
(* Boxes.                                                                  *)

LEMMA LeastNumber ==
  ASSUME NEW S \in SUBSET Nat, S # {}
  PROVE  \E x \in S : \A y \in S : x <= y
<1>1. PICK x \in S : \A y \in S : ~ (<<y, x>> \in OpToRel(<, Nat))
  BY NatLessThanWellFounded, WFMin
<1>2. \A y \in S : ~ (y < x)
  BY <1>1 DEF OpToRel
<1> QED BY <1>2

\* A coordinate of the vertices of a line has a least and a greatest value.
LEMMA LeastOfMany ==
  ASSUME NEW n \in Nat \ {0}, NEW f, \A i \in 1 .. n : f[i] \in Int
  PROVE  \E k \in 1 .. n : \A i \in 1 .. n : f[k] <= f[i]
<1> DEFINE has(m) == \E k \in 1 .. m : \A i \in 1 .. m : f[k] <= f[i]
           lacking == {m \in 1 .. n : ~ has(m)}
<1>1. ASSUME lacking # {} PROVE FALSE
  <2>1. lacking \in SUBSET Nat
    OBVIOUS
  <2>2. PICK m \in lacking : \A y \in lacking : m <= y
    BY <1>1, <2>1, LeastNumber
  <2>3. m # 1
    <3>1. has(1)
      OBVIOUS
    <3> QED BY <2>2, <3>1
  <2>4. m - 1 \in 1 .. n /\ m - 1 \notin lacking
    <3>1. m \in 1 .. n
      OBVIOUS
    <3>2. m - 1 \in 1 .. n
      BY <2>3, <3>1
    <3>3. ~ (m <= m - 1)
      BY <3>1
    <3> QED BY <2>2, <3>2, <3>3
  <2>5. PICK k \in 1 .. m - 1 : \A i \in 1 .. m - 1 : f[k] <= f[i]
    BY <2>4
  <2>6. f[k] \in Int /\ f[m] \in Int /\ \A i \in 1 .. m : i \in 1 .. m - 1 \/ i = m
    BY <2>2, <2>4
  <2>7. CASE f[k] <= f[m]
    <3>1. k \in 1 .. m /\ \A i \in 1 .. m : f[k] <= f[i]
      BY <2>2, <2>5, <2>6, <2>7
    <3> QED BY <2>2, <3>1
  <2>8. CASE f[m] < f[k]
    <3>1. \A i \in 1 .. m : f[m] <= f[i]
      <4>1. \A i \in 1 .. m - 1 : f[i] \in Int /\ f[k] <= f[i]
        BY <2>2, <2>5
      <4> QED BY <2>6, <2>8, <4>1
    <3>2. m \in 1 .. m
      BY <2>2
    <3> QED BY <2>2, <3>1, <3>2
  <2> QED BY <2>6, <2>7, <2>8
<1>2. lacking = {}
  <2> HIDE DEF lacking
  <2> QED BY <1>1
<1>3. n \in 1 .. n
  OBVIOUS
<1>4. has(n)
  <2> HIDE DEF has
  <2> QED BY <1>2, <1>3
<1> QED BY <1>4

LEMMA LeastAndGreatest ==
  ASSUME NEW n \in Nat \ {0}, NEW f, \A i \in 1 .. n : f[i] \in Int,
         NEW S, S = {f[i] : i \in 1 .. n}
  PROVE  /\ Min(S) \in Int /\ Max(S) \in Int
         /\ \A i \in 1 .. n : Min(S) <= f[i] /\ f[i] <= Max(S)
<1>1. \E x \in S : \A y \in S : x <= y
  <2>1. PICK k \in 1 .. n : \A i \in 1 .. n : f[k] <= f[i]
    BY LeastOfMany
  <2>2. f[k] \in S /\ \A y \in S : f[k] <= y
    BY <2>1
  <2> QED BY <2>2
<1>2. \E x \in S : \A y \in S : x >= y
  <2> DEFINE m == [i \in 1 .. n |-> - f[i]]
  <2>1. \A i \in 1 .. n : m[i] \in Int /\ m[i] = - f[i] /\ f[i] \in Int
    OBVIOUS
  <2> HIDE DEF m
  <2>2. PICK k \in 1 .. n : \A i \in 1 .. n : m[k] <= m[i]
    BY <2>1, LeastOfMany
  <2>3. \A i \in 1 .. n : f[k] >= f[i]
    BY <2>1, <2>2
  <2>4. f[k] \in S /\ \A y \in S : f[k] >= y
    BY <2>3
  <2> QED BY <2>4
<1>3. Min(S) \in S /\ \A y \in S : Min(S) <= y
  BY <1>1 DEF Min
<1>4. Max(S) \in S /\ \A y \in S : Max(S) >= y
  BY <1>2 DEF Max
<1>5. \A i \in 1 .. n : f[i] \in S
  OBVIOUS
<1>6. \A y \in S : y \in Int
  OBVIOUS
<1>7. Min(S) \in Int /\ Max(S) \in Int
  BY <1>3, <1>4, <1>6
<1>8. ASSUME NEW i \in 1 .. n PROVE Min(S) <= f[i] /\ f[i] <= Max(S)
  <2>1. f[i] \in Int /\ f[i] \in S
    BY <1>5
  <2> QED BY <1>3, <1>4, <1>7, <2>1
<1> QED BY <1>7, <1>8

LEMMA BoxAroundVertices ==
  ASSUME NEW g \in Line
  PROVE  LET b == LineBox(g)
         IN  /\ b.lo[1] \in Int /\ b.lo[2] \in Int /\ b.hi[1] \in Int /\ b.hi[2] \in Int
             /\ \A i \in 1 .. Len(g) : /\ b.lo[1] <= g[i][1] /\ g[i][1] <= b.hi[1]
                                       /\ b.lo[2] <= g[i][2] /\ g[i][2] <= b.hi[2]
<1> DEFINE b == LineBox(g)
           x == [i \in 1 .. Len(g) |-> g[i][1]]
           y == [i \in 1 .. Len(g) |-> g[i][2]]
           X == {p[1] : p \in Vertices(g)}
           Y == {p[2] : p \in Vertices(g)}
<1>1. /\ b.lo[1] = Min(X) /\ b.hi[1] = Max(X)
      /\ b.lo[2] = Min(Y) /\ b.hi[2] = Max(Y)
  BY DEF LineBox, BoxOf
<1>2. Len(g) \in Nat \ {0} /\ \A i \in 1 .. Len(g) : g[i] \in Point
  BY LineVertices
<1>3. \A i \in 1 .. Len(g) : /\ x[i] = g[i][1] /\ x[i] \in Int
                             /\ y[i] = g[i][2] /\ y[i] \in Int
  BY <1>2 DEF Point
<1>4. X = {x[i] : i \in 1 .. Len(g)} /\ Y = {y[i] : i \in 1 .. Len(g)}
  BY DEF Vertices
<1> HIDE DEF b, x, y, X, Y
<1>5. /\ Min(X) \in Int /\ Max(X) \in Int
      /\ \A i \in 1 .. Len(g) : Min(X) <= x[i] /\ x[i] <= Max(X)
  <2>1. \A i \in 1 .. Len(g) : x[i] \in Int
    BY <1>3
  <2> QED BY <1>2, <1>4, <2>1, LeastAndGreatest
<1>6. /\ Min(Y) \in Int /\ Max(Y) \in Int
      /\ \A i \in 1 .. Len(g) : Min(Y) <= y[i] /\ y[i] <= Max(Y)
  <2>1. \A i \in 1 .. Len(g) : y[i] \in Int
    BY <1>3
  <2> QED BY <1>2, <1>4, <2>1, LeastAndGreatest
<1>7. ASSUME NEW i \in 1 .. Len(g)
      PROVE  /\ b.lo[1] <= g[i][1] /\ g[i][1] <= b.hi[1]
             /\ b.lo[2] <= g[i][2] /\ g[i][2] <= b.hi[2]
  BY <1>1, <1>3, <1>5, <1>6
<1>8. b.lo[1] \in Int /\ b.lo[2] \in Int /\ b.hi[1] \in Int /\ b.hi[2] \in Int
  BY <1>1, <1>5, <1>6
<1> QED BY <1>7, <1>8 DEF b

LEMMA PartInBox ==
  ASSUME NEW g \in Line, NEW i \in 1 .. Len(g) - 1,
         NEW w \in Nat \ {0}, NEW q \in Point, OnPart(w, q, g, i)
  PROVE  LET b == LineBox(g)
         IN  \A k \in {1, 2} : w * b.lo[k] <= q[k] /\ q[k] <= w * b.hi[k]
<1> PICK qx, qy \in Int : q = <<qx, qy>> /\ q[1] = qx /\ q[2] = qy BY Coordinates
<1>1. g[i] \in Point /\ g[i + 1] \in Point /\ i \in 1 .. Len(g) /\ i + 1 \in 1 .. Len(g)
  BY LineVertices
<1> PICK ax, ay \in Int : g[i] = <<ax, ay>> /\ g[i][1] = ax /\ g[i][2] = ay
  BY <1>1, Coordinates
<1> PICK bx, by \in Int : g[i + 1] = <<bx, by>> /\ g[i + 1][1] = bx /\ g[i + 1][2] = by
  BY <1>1, Coordinates
<1> DEFINE b   == LineBox(g)
           wax == w * ax
           way == w * ay
           wbx == w * bx
           wby == w * by
<1>2. Between(qx, wax, wbx) /\ Between(qy, way, wby)
  BY DEF OnPart, OnSegment, Scaled
<1>3. PICK lx, ly, hx, hy \in Int : /\ b.lo[1] = lx /\ b.lo[2] = ly
                                    /\ b.hi[1] = hx /\ b.hi[2] = hy
  BY BoxAroundVertices
<1>4. /\ lx <= ax /\ ax <= hx /\ ly <= ay /\ ay <= hy
      /\ lx <= bx /\ bx <= hx /\ ly <= by /\ by <= hy
  BY <1>1, <1>3, BoxAroundVertices
<1> DEFINE wlx == w * lx
           wly == w * ly
           whx == w * hx
           why == w * hy
<1>5. /\ wlx <= wax /\ wax <= whx /\ wlx <= wbx /\ wbx <= whx
      /\ wly <= way /\ way <= why /\ wly <= wby /\ wby <= why
  BY <1>4, ScaledOrder
<1>6. /\ wlx \in Int /\ whx \in Int /\ wax \in Int /\ wbx \in Int
      /\ wly \in Int /\ why \in Int /\ way \in Int /\ wby \in Int
  OBVIOUS
<1>7. wlx <= qx /\ qx <= whx /\ wly <= qy /\ qy <= why
  <2> HIDE DEF wlx, whx, wax, wbx, wly, why, way, wby
  <2> QED BY <1>2, <1>5, <1>6 DEF Between
<1> HIDE DEF b
<1> QED BY <1>3, <1>7 DEF b

\* The index of the EDGE table only holds back edges the new line cannot meet.
LEMMA SharingBoxesMeet ==
  ASSUME NEW g \in Line, NEW h \in Line, ShareInterior(g, h)
  PROVE  BoxesMeet(LineBox(g), LineBox(h))
<1>1. PICK w \in Nat \ {0}, q \in Point : InteriorAt(w, q, g) /\ InteriorAt(w, q, h)
  BY DEF ShareInterior
<1>2. PICK i \in 1 .. Len(g) - 1 : OnPart(w, q, g, i)
  BY <1>1 DEF InteriorAt
<1>3. PICK j \in 1 .. Len(h) - 1 : OnPart(w, q, h, j)
  BY <1>1 DEF InteriorAt
<1> DEFINE b == LineBox(g)
           c == LineBox(h)
<1>4. /\ \A k \in {1, 2} : w * b.lo[k] <= q[k] /\ q[k] <= w * b.hi[k]
      /\ \A k \in {1, 2} : w * c.lo[k] <= q[k] /\ q[k] <= w * c.hi[k]
  BY <1>2, <1>3, PartInBox
<1>5. \A k \in {1, 2} : b.lo[k] \in Int /\ b.hi[k] \in Int /\ c.lo[k] \in Int /\ c.hi[k] \in Int
  BY BoxAroundVertices
<1>6. \A k \in {1, 2} : q[k] \in Int
  BY Coordinates
<1> HIDE DEF b, c
<1>7. ASSUME NEW x \in Int, NEW y \in Int, NEW z \in Int, w * x <= z, z <= w * y
      PROVE  x <= y
  <2>1. w * x <= w * y
    BY <1>7
  <2> QED BY <2>1, ScaledOrder
<1>8. ASSUME NEW k \in {1, 2} PROVE b.lo[k] <= c.hi[k] /\ c.lo[k] <= b.hi[k]
  BY <1>4, <1>5, <1>6, <1>7
<1>9. BoxesMeet(b, c)
  BY <1>8 DEF BoxesMeet
<1> QED BY <1>9 DEF b, c

\* The test for a crossing, which only looks at vertices and at signs of
\* areas, is exact: it finds every common point of two interiors, and finds
\* nothing else (the relate pattern T******** of _rtt_CheckEdgeCrossing).
THEOREM CrossingTestIsExact ==
  \A g, h \in Line : IsSimple(g) /\ IsSimple(h) => (InteriorsMeet(g, h) <=> ShareInterior(g, h))
BY MeetingInteriorsShare, SharingInteriorsMeet

\* The box filter of the backend (getEdgeWithinBox2D, the only edges that
\* _rtt_CheckEdgeCrossing looks at) hides no crossing.
THEOREM BoxFilterHidesNoCrossing ==
  \A g, h \in Line :
    IsSimple(g) /\ IsSimple(h) /\ InteriorsMeet(g, h) => BoxesMeet(LineBox(g), LineBox(h))
BY MeetingInteriorsShare, SharingBoxesMeet

-----------------------------------------------------------------------------
(* Cutting a line at a point of its interior.                              *)

LEMMA SidesOfCut ==
  ASSUME NEW a \in Point, NEW b \in Point, NEW p \in Point, NEW q \in Point,
         OnSegment(p, a, b), OnSegment(q, a, p), OnSegment(q, p, b)
  PROVE  q = p
<1> PICK ax, ay \in Int : a = <<ax, ay>> /\ a[1] = ax /\ a[2] = ay BY Coordinates
<1> PICK bx, by \in Int : b = <<bx, by>> /\ b[1] = bx /\ b[2] = by BY Coordinates
<1> PICK px, py \in Int : p = <<px, py>> /\ p[1] = px /\ p[2] = py BY Coordinates
<1> PICK qx, qy \in Int : q = <<qx, qy>> /\ q[1] = qx /\ q[2] = qy BY Coordinates
<1>1. qx = px /\ qy = py
  BY DEF OnSegment, Between
<1> QED BY <1>1

LEMMA CutIndexOfPoint ==
  ASSUME NEW g \in Line, NEW p \in Point, InInterior(p, g)
  PROVE  LET i == CutIndex(g, p)
         IN  i \in 1 .. Len(g) - 1 /\ p # g[i] /\ OnSegment(p, g[i], g[i + 1])
<1>1. PICK i \in 1 .. Len(g) - 1 : OnSegment(p, g[i], g[i + 1])
  BY SegmentsAreParts DEF InInterior, Passes
<1>2. \E j \in 1 .. Len(g) - 1 : p # g[j] /\ OnSegment(p, g[j], g[j + 1])
  <2>1. CASE p # g[i]
    BY <1>1, <2>1
  <2>2. CASE p = g[i]
    <3>1. i # 1
      BY <2>2 DEF InInterior, StartPoint
    <3>2. i - 1 \in 1 .. Len(g) - 1 /\ (i - 1) + 1 = i
      BY <3>1, LineVertices
    <3>3. g[i - 1] \in Point /\ g[i] \in Point /\ g[i - 1] # g[i]
      BY <3>2, LineVertices
    <3>4. OnSegment(p, g[i - 1], g[(i - 1) + 1])
      BY <2>2, <3>2, <3>3, EndsOnSegment
    <3> QED BY <2>2, <3>2, <3>3, <3>4
  <2> QED BY <2>1, <2>2
<1> QED BY <1>2 DEF CutIndex

LEMMA HeadAtPart ==
  ASSUME NEW g \in Line, NEW p \in Point, NEW i \in 1 .. Len(g) - 1, p # g[i]
  PROVE  LET h == HeadAt(g, i, p)
         IN  /\ h \in Line /\ Len(h) = i + 1
             /\ \A k \in 1 .. i : h[k] = g[k]
             /\ h[i + 1] = p
             /\ StartPoint(h) = StartPoint(g) /\ EndPoint(h) = p
<1> DEFINE h == HeadAt(g, i, p)
           s == SubSeq(g, 1, i)
<1>1. i \in 1 .. Len(g) - 1 /\ p # g[i] /\ i \in 1 .. Len(g) /\ i \in Nat
  BY LineVertices
<1>2. /\ g \in Seq(Point) /\ Len(g) \in Nat
      /\ \A k \in 1 .. Len(g) : g[k] \in Point
      /\ \A k \in 1 .. Len(g) - 1 : g[k] # g[k + 1]
  BY LineVertices
<1>3. \A k \in 1 .. i : g[k] \in Point
  BY <1>1, <1>2
<1>4. s \in Seq(Point) /\ Len(s) = i /\ \A k \in 1 .. i : s[k] = g[k]
  <2>1. 1 \in Int /\ i \in Int /\ 1 <= i
    BY <1>1
  <2>2. /\ s \in Seq(Point) /\ Len(s) = IF 1 <= i THEN i - 1 + 1 ELSE 0
        /\ \A k \in 1 .. i - 1 + 1 : s[k] = g[1 + k - 1]
    BY <1>3, <2>1, SubSeqProperties
  <2>3. \A k \in 1 .. i : k \in 1 .. i - 1 + 1 /\ 1 + k - 1 = k
    BY <2>1
  <2> QED BY <2>1, <2>2, <2>3
<1>5. h = Append(s, p)
  BY DEF HeadAt
<1> HIDE DEF s, h
<1>6. /\ h \in Seq(Point) /\ Len(h) = i + 1
      /\ \A k \in 1 .. i : h[k] = g[k]
      /\ h[i + 1] = p
  BY <1>4, <1>5, AppendProperties
<1>7. Len(h) >= 2 /\ \A k \in 1 .. Len(h) - 1 : h[k] # h[k + 1]
  <2>1. Len(h) >= 2
    BY <1>1, <1>6
  <2>2. ASSUME NEW k \in 1 .. i PROVE h[k] # h[k + 1]
    <3>1. CASE k = i
      BY <1>1, <1>6, <3>1
    <3>2. CASE k # i
      <4>1. k + 1 \in 1 .. i /\ k \in 1 .. Len(g) - 1
        BY <1>1, <3>2
      <4> QED BY <1>2, <1>6, <4>1
    <3> QED BY <3>1, <3>2
  <2>3. Len(h) - 1 = i
    BY <1>1, <1>6
  <2> QED BY <2>1, <2>2, <2>3
<1>8. h \in Line
  BY <1>6, <1>7 DEF Line
<1>9. StartPoint(h) = StartPoint(g) /\ EndPoint(h) = p
  BY <1>1, <1>6 DEF StartPoint, EndPoint
<1> QED BY <1>6, <1>8, <1>9 DEF h

LEMMA TailAtPart ==
  ASSUME NEW g \in Line, NEW p \in Point, NEW i \in 1 .. Len(g) - 1,
         i = Len(g) - 1 => p # EndPoint(g)
  PROVE  LET t == TailAt(g, i, p)
             o == IF g[i + 1] = p THEN i ELSE i - 1
         IN  /\ t \in Line /\ Len(t) = Len(g) - o
             /\ t[1] = p
             /\ \A k \in 2 .. Len(t) : t[k] = g[k + o]
             /\ StartPoint(t) = p /\ EndPoint(t) = EndPoint(g)
<1> DEFINE t == TailAt(g, i, p)
           o == IF g[i + 1] = p THEN i ELSE i - 1
           s == SubSeq(g, o + 2, Len(g))
<1>2. /\ g \in Seq(Point) /\ Len(g) \in Nat
      /\ \A k \in 1 .. Len(g) : g[k] \in Point
      /\ \A k \in 1 .. Len(g) - 1 : g[k] # g[k + 1]
      /\ i = Len(g) - 1 => p # g[Len(g)]
  BY LineVertices DEF EndPoint
<1>3. t = <<p>> \o s
  <2>1. t = <<p>> \o SubSeq(g, IF g[i + 1] = p THEN i + 2 ELSE i + 1, Len(g))
    BY DEF TailAt
  <2>2. o + 2 = IF g[i + 1] = p THEN i + 2 ELSE i + 1
    OBVIOUS
  <2> QED BY <2>1, <2>2
<1>4. o \in 0 .. Len(g) - 2 /\ (g[o + 2] # p)
  <2>1. CASE g[i + 1] = p
    <3>1. i + 1 # Len(g) /\ o = i
      BY <1>2, <2>1
    <3>2. i + 1 \in 1 .. Len(g) - 1
      BY <1>2, <3>1
    <3>3. g[i + 1] # g[(i + 1) + 1]
      BY <1>2, <3>2
    <3>4. (i + 1) + 1 = o + 2
      BY <3>1
    <3> QED BY <1>2, <2>1, <3>1, <3>2, <3>3, <3>4
  <2>2. CASE g[i + 1] # p
    BY <1>2, <2>2
  <2> QED BY <2>1, <2>2
<1>5. s \in Seq(Point) /\ Len(s) = Len(g) - o - 1 /\ \A k \in 1 .. Len(g) - o - 1 : s[k] = g[k + 1 + o]
  <2> HIDE DEF o
  <2>1. o + 2 \in Int /\ Len(g) \in Int /\ o + 2 <= Len(g)
    BY <1>2, <1>4
  <2>2. \A k \in o + 2 .. Len(g) : g[k] \in Point
    BY <1>2, <1>4
  <2>3. /\ s \in Seq(Point) /\ Len(s) = IF o + 2 <= Len(g) THEN Len(g) - (o + 2) + 1 ELSE 0
        /\ \A k \in 1 .. Len(g) - (o + 2) + 1 : s[k] = g[(o + 2) + k - 1]
    BY <2>1, <2>2, SubSeqProperties
  <2>4. \A k \in 1 .. Len(g) - o - 1 : k \in 1 .. Len(g) - (o + 2) + 1 /\ (o + 2) + k - 1 = k + 1 + o
    BY <1>4, <2>1
  <2> QED BY <1>4, <2>1, <2>3, <2>4
<1>6. <<p>> \in Seq(Point) /\ Len(<<p>>) = 1 /\ <<p>>[1] = p
  OBVIOUS
<1> HIDE DEF o, s, t
<1>7. t \in Seq(Point) /\ Len(t) = Len(g) - o /\ t[1] = p /\ \A k \in 2 .. Len(t) : t[k] = g[k + o]
  <2>1. /\ t \in Seq(Point) /\ Len(t) = Len(<<p>>) + Len(s)
        /\ \A k \in 1 .. Len(<<p>>) + Len(s) : t[k] =
             IF k <= Len(<<p>>) THEN <<p>>[k] ELSE s[k - Len(<<p>>)]
    BY <1>3, <1>5, <1>6, ConcatProperties
  <2>2. Len(t) = Len(g) - o /\ Len(t) = 1 + Len(s) /\ Len(s) \in Nat
    BY <1>2, <1>4, <1>5, <1>6, <2>1
  <2>3. t[1] = p
    BY <1>6, <2>1, <2>2
  <2>4. ASSUME NEW k \in 2 .. Len(t) PROVE t[k] = g[k + o]
    <3>1. k \in 1 .. 1 + Len(s) /\ ~ (k <= 1) /\ k - 1 \in 1 .. Len(g) - o - 1 /\ (k - 1) + 1 + o = k + o
      BY <1>2, <1>4, <1>5, <2>2
    <3>2. t[k] = s[k - 1]
      BY <1>6, <2>1, <3>1
    <3> QED BY <1>5, <3>1, <3>2
  <2> QED BY <2>1, <2>2, <2>3, <2>4
<1>8. Len(t) >= 2 /\ \A k \in 1 .. Len(t) - 1 : t[k] # t[k + 1]
  <2>1. Len(t) >= 2 /\ Len(t) \in Nat
    BY <1>2, <1>4, <1>7
  <2>2. ASSUME NEW k \in 1 .. Len(t) - 1 PROVE t[k] # t[k + 1]
    <3>1. CASE k = 1
      <4>1. t[k + 1] = g[o + 2]
        BY <1>4, <1>7, <2>1, <3>1
      <4> QED BY <1>4, <1>7, <3>1, <4>1
    <3>2. CASE k # 1
      <4>1. k \in 2 .. Len(t) /\ k + 1 \in 2 .. Len(t) /\ k + o \in 1 .. Len(g) - 1 /\ (k + 1) + o = (k + o) + 1
        BY <1>2, <1>4, <1>7, <2>1, <3>2
      <4> QED BY <1>2, <1>7, <4>1
    <3> QED BY <3>1, <3>2
  <2> QED BY <2>1, <2>2
<1>9. t \in Line
  BY <1>7, <1>8 DEF Line
<1>10. StartPoint(t) = p /\ EndPoint(t) = EndPoint(g)
  <2>1. Len(t) \in 2 .. Len(t) /\ Len(t) + o = Len(g)
    BY <1>2, <1>4, <1>7, <1>8
  <2> QED BY <1>7, <2>1 DEF StartPoint, EndPoint
<1> QED BY <1>7, <1>9, <1>10 DEF t, o

LEMMA HeadOfLine ==
  ASSUME NEW g \in Line, NEW p \in Point, InInterior(p, g)
  PROVE  LET i == CutIndex(g, p)
             h == HeadUpTo(g, p)
         IN  /\ h \in Line /\ Len(h) = i + 1
             /\ \A k \in 1 .. i : h[k] = g[k]
             /\ h[i + 1] = p
             /\ StartPoint(h) = StartPoint(g) /\ EndPoint(h) = p
BY CutIndexOfPoint, HeadAtPart DEF HeadUpTo

LEMMA TailOfLine ==
  ASSUME NEW g \in Line, NEW p \in Point, InInterior(p, g)
  PROVE  LET i == CutIndex(g, p)
             t == TailFrom(g, p)
             o == IF g[i + 1] = p THEN i ELSE i - 1
         IN  /\ t \in Line /\ Len(t) = Len(g) - o
             /\ t[1] = p
             /\ \A k \in 2 .. Len(t) : t[k] = g[k + o]
             /\ StartPoint(t) = p /\ EndPoint(t) = EndPoint(g)
<1>1. p # EndPoint(g)
  BY DEF InInterior
<1> QED BY <1>1, CutIndexOfPoint, TailAtPart DEF TailFrom

\* The pieces of a line are within it, part for part.
LEMMA HeadWithinLine ==
  ASSUME NEW g \in Line, NEW p \in Point, InInterior(p, g), NEW w \in Nat \ {0}, NEW q \in Point,
         NEW k \in 1 .. Len(HeadUpTo(g, p)) - 1, OnPart(w, q, HeadUpTo(g, p), k)
  PROVE  LET i == CutIndex(g, p)
         IN  /\ k \in 1 .. i /\ OnPart(w, q, g, k)
             /\ k = i => OnSegment(q, Scaled(w, g[i]), Scaled(w, p))
<1> DEFINE i == CutIndex(g, p)
           h == HeadUpTo(g, p)
<1>1. i \in 1 .. Len(g) - 1 /\ OnSegment(p, g[i], g[i + 1])
  BY CutIndexOfPoint
<1>2. /\ Len(h) = i + 1 /\ h[i + 1] = p
      /\ \A j \in 1 .. i : h[j] = g[j]
  BY HeadOfLine
<1>3. OnSegment(q, Scaled(w, h[k]), Scaled(w, h[k + 1]))
  BY DEF OnPart
<1>4. Len(h) - 1 = i
  BY <1>1, <1>2
<1> HIDE DEF i, h
<1>5. k \in 1 .. i
  BY <1>4 DEF h
<1>6. CASE k = i
  <2>1. OnSegment(q, Scaled(w, g[i]), Scaled(w, p))
    BY <1>2, <1>3, <1>5, <1>6
  <2>2. g[i] \in Point /\ g[i + 1] \in Point
    BY <1>1, LineVertices
  <2>3. OnSegment(Scaled(w, p), Scaled(w, g[i]), Scaled(w, g[i + 1]))
    BY <1>1, <2>2, ScaledOnSegment
  <2>4. Scaled(w, g[i]) \in Point /\ Scaled(w, g[i + 1]) \in Point /\ Scaled(w, p) \in Point
    BY <2>2, ScaledPoint
  <2>5. OnSegment(Scaled(w, g[i]), Scaled(w, g[i]), Scaled(w, g[i + 1]))
    BY <2>4, EndsOnSegment
  <2>6. OnSegment(q, Scaled(w, g[i]), Scaled(w, g[i + 1]))
    BY <2>1, <2>3, <2>4, <2>5, SubSegment
  <2> QED BY <1>5, <1>6, <2>1, <2>6 DEF OnPart, i
<1>7. CASE k # i
  <2>1. k + 1 \in 1 .. i
    BY <1>1, <1>5, <1>7
  <2>2. OnSegment(q, Scaled(w, g[k]), Scaled(w, g[k + 1]))
    BY <1>2, <1>3, <1>5, <2>1
  <2> QED BY <1>5, <1>7, <2>2 DEF OnPart, i
<1> QED BY <1>6, <1>7

LEMMA TailWithinLine ==
  ASSUME NEW g \in Line, NEW p \in Point, InInterior(p, g), NEW w \in Nat \ {0}, NEW q \in Point,
         NEW k \in 1 .. Len(TailFrom(g, p)) - 1, OnPart(w, q, TailFrom(g, p), k)
  PROVE  LET i == CutIndex(g, p)
             o == IF g[i + 1] = p THEN i ELSE i - 1
         IN  /\ k + o \in 1 .. Len(g) - 1 /\ OnPart(w, q, g, k + o)
             /\ k + o = i => k = 1 /\ OnSegment(q, Scaled(w, p), Scaled(w, g[i + 1]))
<1> DEFINE i == CutIndex(g, p)
           t == TailFrom(g, p)
           o == IF g[i + 1] = p THEN i ELSE i - 1
<1>1. i \in 1 .. Len(g) - 1 /\ OnSegment(p, g[i], g[i + 1])
  BY CutIndexOfPoint
<1>2. /\ Len(t) = Len(g) - o /\ t[1] = p
      /\ \A j \in 2 .. Len(t) : t[j] = g[j + o]
  BY TailOfLine
<1>3. OnSegment(q, Scaled(w, t[k]), Scaled(w, t[k + 1])) /\ k \in 1 .. Len(t) - 1
  BY DEF OnPart
<1> HIDE DEF i, t
<1>4. Len(g) \in Nat /\ o \in 0 .. Len(g) - 1 /\ o \in {i - 1, i} /\ (o = i <=> g[i + 1] = p)
  BY <1>1, LineVertices
<1> HIDE DEF o
<1>5. k + o \in 1 .. Len(g) - 1 /\ k + 1 \in 2 .. Len(t) /\ (k + 1) + o = (k + o) + 1
  <2>1. Len(t) = Len(g) - o /\ k \in 1 .. (Len(g) - o) - 1 /\ o \in Int
    BY <1>2, <1>3, <1>4
  <2> QED BY <1>4, <2>1
<1>6. t[k + 1] = g[(k + o) + 1]
  BY <1>2, <1>5
<1>7. CASE k + o = i
  <2>1. k = 1
    BY <1>1, <1>4, <1>5, <1>7
  <2>2. OnSegment(q, Scaled(w, p), Scaled(w, g[i + 1]))
    BY <1>2, <1>3, <1>6, <1>7, <2>1
  <2>3. g[i] \in Point /\ g[i + 1] \in Point
    BY <1>1, LineVertices
  <2>4. OnSegment(Scaled(w, p), Scaled(w, g[i]), Scaled(w, g[i + 1]))
    BY <1>1, <2>3, ScaledOnSegment
  <2>5. Scaled(w, g[i]) \in Point /\ Scaled(w, g[i + 1]) \in Point /\ Scaled(w, p) \in Point
    BY <2>3, ScaledPoint
  <2>6. OnSegment(Scaled(w, g[i + 1]), Scaled(w, g[i]), Scaled(w, g[i + 1]))
    BY <2>5, EndsOnSegment
  <2>7. OnSegment(q, Scaled(w, g[i]), Scaled(w, g[i + 1]))
    BY <2>2, <2>4, <2>5, <2>6, SubSegment
  <2>8. OnPart(w, q, g, k + o)
    BY <1>7, <2>7 DEF OnPart
  <2> QED BY <1>5, <2>1, <2>2, <2>8 DEF o, i
<1>8. CASE k + o # i
  <2>1. t[k] = g[k + o]
    <3>1. CASE k = 1
      <4>1. o = i
        BY <1>1, <1>4, <1>8, <3>1
      <4>2. g[i + 1] = p /\ k + o = i + 1
        BY <1>1, <1>4, <3>1, <4>1
      <4> QED BY <1>2, <3>1, <4>2
    <3>2. CASE k # 1
      <4>1. k \in 2 .. Len(t)
        BY <1>3, <1>5, <3>2
      <4> QED BY <1>2, <4>1
    <3> QED BY <3>1, <3>2
  <2>2. OnPart(w, q, g, k + o)
    BY <1>3, <1>6, <2>1 DEF OnPart
  <2> QED BY <1>5, <1>8, <2>2 DEF o, i
<1> QED BY <1>7, <1>8

\* The two pieces share the point of the cut, and the end of a closed line.
LEMMA PiecesShareCut ==
  ASSUME NEW g \in Line, IsSimple(g), NEW p \in Point, InInterior(p, g),
         NEW w \in Nat \ {0}, NEW q \in Point,
         NEW k \in 1 .. Len(HeadUpTo(g, p)) - 1, OnPart(w, q, HeadUpTo(g, p), k),
         NEW l \in 1 .. Len(TailFrom(g, p)) - 1, OnPart(w, q, TailFrom(g, p), l)
  PROVE  \/ q = Scaled(w, p)
         \/ q = Scaled(w, StartPoint(g)) /\ q = Scaled(w, EndPoint(g))
<1> DEFINE i == CutIndex(g, p)
           o == IF g[i + 1] = p THEN i ELSE i - 1
           m == l + o
<1>1. i \in 1 .. Len(g) - 1 /\ p # g[i] /\ OnSegment(p, g[i], g[i + 1])
  BY CutIndexOfPoint
<1>2. k \in 1 .. i /\ OnPart(w, q, g, k) /\ (k = i => OnSegment(q, Scaled(w, g[i]), Scaled(w, p)))
  BY HeadWithinLine
<1>3. /\ m \in 1 .. Len(g) - 1 /\ OnPart(w, q, g, m)
      /\ m = i => OnSegment(q, Scaled(w, p), Scaled(w, g[i + 1]))
  BY TailWithinLine
<1> HIDE DEF i
<1>4. m >= i /\ (g[i + 1] = p => m > i) /\ o \in Int /\ l \in Int /\ l >= 1
      /\ k \in 1 .. Len(g) - 1 /\ Len(g) \in Nat
  BY <1>1, <1>2, LineVertices
<1> HIDE DEF o, m
<1>5. /\ g[i] \in Point /\ g[i + 1] \in Point
      /\ Scaled(w, g[i]) \in Point /\ Scaled(w, g[i + 1]) \in Point /\ Scaled(w, p) \in Point
      /\ OnSegment(Scaled(w, p), Scaled(w, g[i]), Scaled(w, g[i + 1]))
  <2>1. g[i] \in Point /\ g[i + 1] \in Point
    BY <1>1, LineVertices
  <2> QED BY <1>1, <2>1, ScaledOnSegment, ScaledPoint
<1>6. CASE k = m
  <2>1. k = i /\ m = i
    BY <1>1, <1>2, <1>3, <1>4, <1>6
  <2> QED BY <1>2, <1>3, <1>5, <2>1, SidesOfCut
<1>7. CASE k < m
  <2>1. \/ m = k + 1 /\ q = Scaled(w, g[m])
        \/ k = 1 /\ m = Len(g) - 1 /\ g[1] = g[Len(g)] /\ q = Scaled(w, g[1])
    BY <1>2, <1>3, <1>4, <1>7, SimpleSharesVertices DEF PartsShareVertices
  <2>2. CASE k = 1 /\ m = Len(g) - 1 /\ g[1] = g[Len(g)] /\ q = Scaled(w, g[1])
    BY <2>2 DEF StartPoint, EndPoint
  <2>3. CASE m = k + 1 /\ q = Scaled(w, g[m]) /\ m = i
    <3>1. OnSegment(q, Scaled(w, g[i]), Scaled(w, p))
      BY <1>5, <2>3, EndsOnSegment
    <3> QED BY <1>3, <1>5, <2>3, <3>1, SidesOfCut
  <2>4. CASE m = k + 1 /\ q = Scaled(w, g[m]) /\ m # i
    <3>1. k = i /\ m = i + 1
      BY <1>1, <1>2, <1>4, <2>4
    <3>2. OnSegment(q, Scaled(w, p), Scaled(w, g[i + 1]))
      BY <1>5, <2>4, <3>1, EndsOnSegment
    <3> QED BY <1>2, <1>5, <3>1, <3>2, SidesOfCut
  <2> QED BY <2>1, <2>2, <2>3, <2>4
<1>8. k < m \/ k = m
  BY <1>2, <1>3, <1>4, <1>1
<1> QED BY <1>6, <1>7, <1>8

LEMMA HeadIsSimple ==
  ASSUME NEW g \in Line, IsSimple(g), NEW p \in Point, InInterior(p, g)
  PROVE  IsSimple(HeadUpTo(g, p))
<1> DEFINE i == CutIndex(g, p)
           h == HeadUpTo(g, p)
<1>1. i \in 1 .. Len(g) - 1 /\ OnSegment(p, g[i], g[i + 1]) /\ Len(g) \in Nat
  BY CutIndexOfPoint, LineVertices
<1>2. h \in Line /\ Len(h) = i + 1 /\ \A j \in 1 .. i : h[j] = g[j]
  BY HeadOfLine
<1>3. ASSUME NEW w \in Nat \ {0}, NEW q \in Point,
             NEW k \in 1 .. Len(h) - 1, NEW l \in 1 .. Len(h) - 1,
             k < l, OnPart(w, q, h, k), OnPart(w, q, h, l)
      PROVE  l = k + 1 /\ q = Scaled(w, h[l])
  <2>1. k \in 1 .. i /\ OnPart(w, q, g, k)
    BY <1>3, HeadWithinLine
  <2>2. l \in 1 .. i /\ OnPart(w, q, g, l) /\ (l = i => OnSegment(q, Scaled(w, g[i]), Scaled(w, p)))
    BY <1>3, HeadWithinLine
  <2> HIDE DEF i, h
  <2>3. k \in 1 .. Len(g) - 1 /\ l \in 1 .. Len(g) - 1
    BY <1>1, <2>1, <2>2
  <2>4. \/ l = k + 1 /\ q = Scaled(w, g[l])
        \/ k = 1 /\ l = Len(g) - 1 /\ g[1] = g[Len(g)] /\ q = Scaled(w, g[1])
    BY <1>3, <2>1, <2>2, <2>3, SimpleSharesVertices DEF PartsShareVertices
  <2>5. CASE l = Len(g) - 1 /\ q = Scaled(w, g[Len(g)])
    <3>1. l = i /\ i + 1 = Len(g)
      BY <1>1, <2>2, <2>5
    <3>2. /\ g[i] \in Point /\ g[i + 1] \in Point
          /\ Scaled(w, g[i]) \in Point /\ Scaled(w, g[i + 1]) \in Point /\ Scaled(w, p) \in Point
          /\ OnSegment(Scaled(w, p), Scaled(w, g[i]), Scaled(w, g[i + 1]))
      <4>1. g[i] \in Point /\ g[i + 1] \in Point
        BY <1>1, LineVertices
      <4> QED BY <1>1, <4>1, ScaledOnSegment, ScaledPoint
    <3>3. OnSegment(q, Scaled(w, p), Scaled(w, g[i + 1]))
      BY <2>5, <3>1, <3>2, EndsOnSegment
    <3>4. q = Scaled(w, p)
      BY <2>2, <3>1, <3>2, <3>3, SidesOfCut
    <3>5. p = g[Len(g)]
      BY <2>5, <3>1, <3>2, <3>4, ScaledEqual
    <3> QED BY <3>5 DEF InInterior, EndPoint
  <2> QED BY <1>2, <2>2, <2>4, <2>5
<1> HIDE DEF i, h
<1>4. PartsShareVertices(h)
  BY <1>3 DEF PartsShareVertices
<1>5. IsSimple(h)
  BY <1>2, <1>4, SharingVerticesIsSimple
<1> QED BY <1>5 DEF h

LEMMA TailIsSimple ==
  ASSUME NEW g \in Line, IsSimple(g), NEW p \in Point, InInterior(p, g)
  PROVE  IsSimple(TailFrom(g, p))
<1> DEFINE i == CutIndex(g, p)
           t == TailFrom(g, p)
           o == IF g[i + 1] = p THEN i ELSE i - 1
<1>1. i \in 1 .. Len(g) - 1 /\ p # g[i] /\ OnSegment(p, g[i], g[i + 1]) /\ Len(g) \in Nat
  BY CutIndexOfPoint, LineVertices
<1>2. t \in Line /\ Len(t) = Len(g) - o /\ \A k \in 2 .. Len(t) : t[k] = g[k + o]
  BY TailOfLine
<1>3. ASSUME NEW w \in Nat \ {0}, NEW q \in Point,
             NEW k \in 1 .. Len(t) - 1, NEW l \in 1 .. Len(t) - 1,
             k < l, OnPart(w, q, t, k), OnPart(w, q, t, l)
      PROVE  l = k + 1 /\ q = Scaled(w, t[l])
  <2>1. /\ k + o \in 1 .. Len(g) - 1 /\ OnPart(w, q, g, k + o)
        /\ k + o = i => OnSegment(q, Scaled(w, p), Scaled(w, g[i + 1]))
    BY <1>3, TailWithinLine
  <2>2. l + o \in 1 .. Len(g) - 1 /\ OnPart(w, q, g, l + o)
    BY <1>3, TailWithinLine
  <2>3. o \in {i, i - 1} /\ i \in Int /\ i >= 1 /\ o \in Int
    BY <1>1
  <2> HIDE DEF i, t, o
  <2>4. k \in Int /\ l \in Int /\ k + o < l + o /\ k >= 1
    BY <1>3, <2>3
  <2>5. \/ l + o = (k + o) + 1 /\ q = Scaled(w, g[l + o])
        \/ k + o = 1 /\ l + o = Len(g) - 1 /\ g[1] = g[Len(g)] /\ q = Scaled(w, g[1])
    BY <2>1, <2>2, <2>4, SimpleSharesVertices DEF PartsShareVertices
  <2>6. CASE k + o = 1 /\ q = Scaled(w, g[1])
    <3>1. k + o = i /\ i = 1
      BY <2>3, <2>4, <2>6
    <3>2. /\ g[i] \in Point /\ g[i + 1] \in Point
          /\ Scaled(w, g[i]) \in Point /\ Scaled(w, g[i + 1]) \in Point /\ Scaled(w, p) \in Point
          /\ OnSegment(Scaled(w, p), Scaled(w, g[i]), Scaled(w, g[i + 1]))
      <4>1. g[i] \in Point /\ g[i + 1] \in Point
        BY <1>1, LineVertices
      <4> QED BY <1>1, <4>1, ScaledOnSegment, ScaledPoint
    <3>3. OnSegment(q, Scaled(w, g[i]), Scaled(w, p))
      BY <2>6, <3>1, <3>2, EndsOnSegment
    <3>4. q = Scaled(w, p)
      BY <2>1, <3>1, <3>2, <3>3, SidesOfCut
    <3>5. p = g[i]
      BY <2>6, <3>1, <3>2, <3>4, ScaledEqual
    <3> QED BY <1>1, <3>5
  <2>7. CASE l + o = (k + o) + 1 /\ q = Scaled(w, g[l + o])
    <3>1. l = k + 1
      BY <2>3, <2>4, <2>7
    <3>2. l \in 2 .. Len(t)
      BY <1>3, <2>4, <1>2, LineVertices
    <3>3. t[l] = g[l + o]
      BY <1>2, <3>2
    <3> QED BY <2>7, <3>1, <3>3
  <2> QED BY <2>5, <2>6, <2>7
<1> HIDE DEF i, t, o
<1>4. PartsShareVertices(t)
  BY <1>3 DEF PartsShareVertices
<1>5. IsSimple(t)
  BY <1>2, <1>4, SharingVerticesIsSimple
<1> QED BY <1>5 DEF t

\* The interior of either piece is in the interior of the line, and they have
\* no point in common.
LEMMA PiecesOfLine ==
  ASSUME NEW g \in Line, IsSimple(g), NEW p \in Point, InInterior(p, g)
  PROVE  LET h == HeadUpTo(g, p)
             t == TailFrom(g, p)
         IN  /\ \A w \in Nat \ {0}, q \in Point :
                  InteriorAt(w, q, h) \/ InteriorAt(w, q, t) => InteriorAt(w, q, g)
             /\ ~ ShareInterior(h, t)
<1> DEFINE i == CutIndex(g, p)
           h == HeadUpTo(g, p)
           t == TailFrom(g, p)
           o == IF g[i + 1] = p THEN i ELSE i - 1
<1>1. /\ h \in Line /\ Len(h) = i + 1 /\ StartPoint(h) = StartPoint(g) /\ EndPoint(h) = p
      /\ \A k \in 1 .. i : h[k] = g[k]
  BY HeadOfLine
<1>2. /\ t \in Line /\ Len(t) = Len(g) - o /\ StartPoint(t) = p /\ EndPoint(t) = EndPoint(g)
  BY TailOfLine
<1>3. ASSUME NEW w \in Nat \ {0}, NEW q \in Point,
             NEW k \in 1 .. Len(h) - 1, OnPart(w, q, h, k),
             NEW l \in 1 .. Len(t) - 1, OnPart(w, q, t, l)
      PROVE  q = Scaled(w, p) \/ (q = Scaled(w, StartPoint(g)) /\ q = Scaled(w, EndPoint(g)))
  BY <1>3, PiecesShareCut
<1>4. ASSUME NEW w \in Nat \ {0}, NEW q \in Point, NEW k \in 1 .. Len(h) - 1, OnPart(w, q, h, k)
      PROVE  k \in 1 .. Len(g) - 1 /\ OnPart(w, q, g, k)
  <2>1. k \in 1 .. i /\ OnPart(w, q, g, k)
    BY <1>4, HeadWithinLine
  <2>2. i \in 1 .. Len(g) - 1
    BY CutIndexOfPoint
  <2> HIDE DEF i
  <2> QED BY <2>1, <2>2, LineVertices
<1>5. ASSUME NEW w \in Nat \ {0}, NEW q \in Point, NEW l \in 1 .. Len(t) - 1, OnPart(w, q, t, l)
      PROVE  l + o \in 1 .. Len(g) - 1 /\ OnPart(w, q, g, l + o)
  BY <1>5, TailWithinLine
<1> HIDE DEF i, o, h, t
<1>6. ASSUME NEW w \in Nat \ {0}, NEW x \in Point,
      NEW f \in Line
      PROVE  /\ x = StartPoint(f) => \E k \in 1 .. Len(f) - 1 : OnPart(w, Scaled(w, x), f, k)
             /\ x = EndPoint(f) => \E k \in 1 .. Len(f) - 1 : OnPart(w, Scaled(w, x), f, k)
  <2>1. 1 \in 1 .. Len(f) - 1 /\ Len(f) - 1 \in 1 .. Len(f) - 1 /\ (Len(f) - 1) + 1 = Len(f)
    BY LineVertices
  <2>2. OnPart(w, Scaled(w, f[1]), f, 1) /\ OnPart(w, Scaled(w, f[(Len(f) - 1) + 1]), f, Len(f) - 1)
    BY <2>1, EndsOfParts
  <2> QED BY <2>1, <2>2 DEF StartPoint, EndPoint
<1>7. ASSUME NEW w \in Nat \ {0}, NEW q \in Point, InteriorAt(w, q, h)
      PROVE  InteriorAt(w, q, g)
  <2>1. PICK k \in 1 .. Len(h) - 1 : OnPart(w, q, h, k)
    BY <1>7 DEF InteriorAt
  <2>2. q # Scaled(w, StartPoint(g)) /\ q # Scaled(w, p)
    BY <1>1, <1>7 DEF InteriorAt, AtEnd
  <2>3. q # Scaled(w, EndPoint(g))
    <3>1. ASSUME q = Scaled(w, EndPoint(g)) PROVE FALSE
      <4>1. PICK l \in 1 .. Len(t) - 1 : OnPart(w, q, t, l)
        BY <1>2, <1>6, <3>1, LineVertices
      <4> QED BY <1>3, <2>1, <2>2, <4>1
    <3> QED BY <3>1
  <2>4. k \in 1 .. Len(g) - 1 /\ OnPart(w, q, g, k)
    BY <1>4, <2>1
  <2> QED BY <2>2, <2>3, <2>4 DEF InteriorAt, AtEnd
<1>8. ASSUME NEW w \in Nat \ {0}, NEW q \in Point, InteriorAt(w, q, t)
      PROVE  InteriorAt(w, q, g)
  <2>1. PICK l \in 1 .. Len(t) - 1 : OnPart(w, q, t, l)
    BY <1>8 DEF InteriorAt
  <2>2. q # Scaled(w, EndPoint(g)) /\ q # Scaled(w, p)
    BY <1>2, <1>8 DEF InteriorAt, AtEnd
  <2>3. q # Scaled(w, StartPoint(g))
    <3>1. ASSUME q = Scaled(w, StartPoint(g)) PROVE FALSE
      <4>1. PICK k \in 1 .. Len(h) - 1 : OnPart(w, q, h, k)
        BY <1>1, <1>6, <3>1, LineVertices
      <4> QED BY <1>3, <2>1, <2>2, <4>1
    <3> QED BY <3>1
  <2>4. l + o \in 1 .. Len(g) - 1 /\ OnPart(w, q, g, l + o)
    BY <1>5, <2>1
  <2> QED BY <2>2, <2>3, <2>4 DEF InteriorAt, AtEnd
<1>9. ASSUME ShareInterior(h, t) PROVE FALSE
  <2>1. PICK w \in Nat \ {0}, q \in Point : InteriorAt(w, q, h) /\ InteriorAt(w, q, t)
    BY <1>9 DEF ShareInterior
  <2>2. PICK k \in 1 .. Len(h) - 1 : OnPart(w, q, h, k)
    BY <2>1 DEF InteriorAt
  <2>3. PICK l \in 1 .. Len(t) - 1 : OnPart(w, q, t, l)
    BY <2>1 DEF InteriorAt
  <2>4. q # Scaled(w, p) /\ q # Scaled(w, StartPoint(g))
    BY <1>1, <2>1 DEF InteriorAt, AtEnd
  <2> QED BY <1>3, <2>2, <2>3, <2>4
<1> QED BY <1>7, <1>8, <1>9 DEF h, t

-----------------------------------------------------------------------------
(* Lines walked backward.                                                  *)

LEMMA ReversedLine ==
  ASSUME NEW g \in Line
  PROVE  /\ Reverse(g) \in Line /\ Len(Reverse(g)) = Len(g)
         /\ \A i \in 1 .. Len(g) : Reverse(g)[i] = g[Len(g) - i + 1]
         /\ StartPoint(Reverse(g)) = EndPoint(g) /\ EndPoint(Reverse(g)) = StartPoint(g)
<1> DEFINE r == Reverse(g)
<1>1. /\ Len(g) \in Nat /\ Len(g) >= 2
      /\ \A i \in 1 .. Len(g) : g[i] \in Point
      /\ \A i \in 1 .. Len(g) - 1 : g[i] # g[i + 1]
  BY LineVertices
<1>2. r = [i \in 1 .. Len(g) |-> g[Len(g) - i + 1]]
  BY DEF Reverse
<1>3. \A i \in 1 .. Len(g) : r[i] = g[Len(g) - i + 1] /\ Len(g) - i + 1 \in 1 .. Len(g)
  BY <1>1, <1>2
<1>4. r \in Seq(Point) /\ Len(r) = Len(g)
  <2>1. r \in [1 .. Len(g) -> Point]
    BY <1>1, <1>2, <1>3
  <2> QED BY <1>1, <2>1, LenProperties
<1> HIDE DEF r
<1>5. ASSUME NEW i \in 1 .. Len(r) - 1 PROVE r[i] # r[i + 1]
  <2>1. Len(g) - i \in 1 .. Len(g) - 1 /\ Len(g) - (i + 1) + 1 = Len(g) - i
        /\ i \in 1 .. Len(g) /\ i + 1 \in 1 .. Len(g)
    BY <1>1, <1>4
  <2>2. g[Len(g) - i] # g[(Len(g) - i) + 1]
    BY <1>1, <2>1
  <2> QED BY <1>3, <2>1, <2>2
<1>6. r \in Line
  BY <1>1, <1>4, <1>5 DEF Line
<1>7. StartPoint(r) = EndPoint(g) /\ EndPoint(r) = StartPoint(g)
  <2>1. 1 \in 1 .. Len(g) /\ Len(g) \in 1 .. Len(g) /\ Len(g) - 1 + 1 = Len(g) /\ Len(g) - Len(g) + 1 = 1
    BY <1>1
  <2> QED BY <1>3, <1>4, <2>1 DEF StartPoint, EndPoint
<1> QED BY <1>3, <1>4, <1>6, <1>7 DEF r

LEMMA ReversedParts ==
  ASSUME NEW g \in Line, NEW w \in Nat \ {0}, NEW q \in Point, NEW i \in 1 .. Len(g) - 1,
         OnPart(w, q, Reverse(g), i)
  PROVE  Len(g) - i \in 1 .. Len(g) - 1 /\ OnPart(w, q, g, Len(g) - i)
<1>1. Len(g) \in Nat /\ i \in 1 .. Len(g) /\ i + 1 \in 1 .. Len(g)
      /\ Len(g) - i \in 1 .. Len(g) - 1 /\ Len(g) - (i + 1) + 1 = Len(g) - i
  BY LineVertices
<1>2. Reverse(g)[i] = g[(Len(g) - i) + 1] /\ Reverse(g)[i + 1] = g[Len(g) - i]
  BY <1>1, ReversedLine
<1>3. OnSegment(q, Scaled(w, g[(Len(g) - i) + 1]), Scaled(w, g[Len(g) - i]))
  BY <1>2 DEF OnPart
<1>4. Scaled(w, g[(Len(g) - i) + 1]) \in Point /\ Scaled(w, g[Len(g) - i]) \in Point
  BY <1>1, LineVertices, ScaledPoint
<1>5. OnPart(w, q, g, Len(g) - i)
  BY <1>3, <1>4, OnSegmentReversed DEF OnPart
<1> QED BY <1>1, <1>5

LEMMA ReversedInterior ==
  ASSUME NEW g \in Line, NEW w \in Nat \ {0}, NEW q \in Point
  PROVE  InteriorAt(w, q, Reverse(g)) => InteriorAt(w, q, g)
<1> SUFFICES ASSUME InteriorAt(w, q, Reverse(g)) PROVE InteriorAt(w, q, g)
  OBVIOUS
<1>1. PICK i \in 1 .. Len(g) - 1 : OnPart(w, q, Reverse(g), i)
  BY ReversedLine DEF InteriorAt
<1>2. Len(g) - i \in 1 .. Len(g) - 1 /\ OnPart(w, q, g, Len(g) - i)
  BY <1>1, ReversedParts
<1>3. ~ AtEnd(w, q, g)
  BY ReversedLine DEF InteriorAt, AtEnd
<1> QED BY <1>2, <1>3 DEF InteriorAt

LEMMA ReversedIsSimple ==
  ASSUME NEW g \in Line, IsSimple(g)
  PROVE  IsSimple(Reverse(g))
<1> DEFINE r == Reverse(g)
<1>1. /\ r \in Line /\ Len(r) = Len(g) /\ Len(g) \in Nat /\ Len(g) >= 2
      /\ \A i \in 1 .. Len(g) : r[i] = g[Len(g) - i + 1]
  BY ReversedLine, LineVertices
<1>2. ASSUME NEW w \in Nat \ {0}, NEW q \in Point,
             NEW i \in 1 .. Len(r) - 1, NEW j \in 1 .. Len(r) - 1,
             i < j, OnPart(w, q, r, i), OnPart(w, q, r, j)
      PROVE  \/ j = i + 1 /\ q = Scaled(w, r[j])
             \/ i = 1 /\ j = Len(r) - 1 /\ r[1] = r[Len(r)] /\ q = Scaled(w, r[1])
  <2> DEFINE k == Len(g) - j
             l == Len(g) - i
  <2>1. i \in 1 .. Len(g) - 1 /\ j \in 1 .. Len(g) - 1
    BY <1>1
  <2>2. /\ k \in 1 .. Len(g) - 1 /\ OnPart(w, q, g, k)
        /\ l \in 1 .. Len(g) - 1 /\ OnPart(w, q, g, l)
    BY <1>2, <2>1, ReversedParts
  <2>3. k < l
    BY <1>1, <1>2, <2>1
  <2> HIDE DEF k, l
  <2>4. \/ l = k + 1 /\ q = Scaled(w, g[l])
        \/ k = 1 /\ l = Len(g) - 1 /\ g[1] = g[Len(g)] /\ q = Scaled(w, g[1])
    BY <2>2, <2>3, SimpleSharesVertices DEF PartsShareVertices
  <2>5. CASE l = k + 1 /\ q = Scaled(w, g[l])
    <3>1. j = i + 1 /\ Len(g) - j + 1 = l /\ j \in 1 .. Len(g)
      BY <1>1, <2>1, <2>5 DEF k, l
    <3> QED BY <1>1, <2>5, <3>1
  <2>6. CASE k = 1 /\ l = Len(g) - 1 /\ g[1] = g[Len(g)] /\ q = Scaled(w, g[1])
    <3>1. j = Len(g) - 1 /\ i = 1 /\ Len(g) \in 1 .. Len(g) /\ 1 \in 1 .. Len(g)
          /\ Len(g) - 1 + 1 = Len(g) /\ Len(g) - Len(g) + 1 = 1
      BY <1>1, <2>1, <2>6 DEF k, l
    <3>2. r[1] = g[Len(g)] /\ r[Len(g)] = g[1]
      BY <1>1, <3>1
    <3> QED BY <1>1, <2>6, <3>1, <3>2
  <2> QED BY <2>4, <2>5, <2>6
<1> HIDE DEF r
<1>3. PartsShareVertices(r)
  BY <1>2 DEF PartsShareVertices
<1>4. IsSimple(r)
  BY <1>1, <1>3, SharingVerticesIsSimple
<1> QED BY <1>4 DEF r

-----------------------------------------------------------------------------
(* Joining two lines at the end of one and the start of the other.         *)

LEMMA JoinedLine ==
  ASSUME NEW g \in Line, NEW h \in Line, EndPoint(g) = StartPoint(h)
  PROVE  LET j == Joined(g, h)
         IN  /\ j \in Line /\ Len(j) = Len(g) + Len(h) - 1
             /\ \A i \in 1 .. Len(g) : j[i] = g[i]
             /\ \A i \in 1 .. Len(h) : j[Len(g) + i - 1] = h[i]
             /\ StartPoint(j) = StartPoint(g) /\ EndPoint(j) = EndPoint(h)
<1> DEFINE j == Joined(g, h)
           t == Tail(h)
<1>1. /\ g \in Seq(Point) /\ h \in Seq(Point) /\ h # << >>
      /\ Len(g) \in Nat /\ Len(g) >= 2 /\ Len(h) \in Nat /\ Len(h) >= 2
      /\ \A i \in 1 .. Len(g) - 1 : g[i] # g[i + 1]
      /\ \A i \in 1 .. Len(h) - 1 : h[i] # h[i + 1]
  BY LineVertices
<1>2. t \in Seq(Point) /\ Len(t) = Len(h) - 1 /\ \A i \in 1 .. Len(t) : t[i] = h[i + 1]
  BY <1>1, HeadTailProperties
<1>3. j = g \o t
  BY DEF Joined
<1> HIDE DEF j, t
<1>4. /\ j \in Seq(Point) /\ Len(j) = Len(g) + Len(t)
      /\ \A i \in 1 .. Len(g) + Len(t) : j[i] = IF i <= Len(g) THEN g[i] ELSE t[i - Len(g)]
  <2>1. g \in Seq(Point) /\ t \in Seq(Point)
    BY <1>1, <1>2
  <2> QED BY <1>3, <2>1, ConcatProperties
<1>5. Len(j) = Len(g) + Len(h) - 1
  BY <1>1, <1>2, <1>4
<1>6. ASSUME NEW i \in 1 .. Len(g) PROVE j[i] = g[i]
  <2>1. i \in 1 .. Len(g) + Len(t) /\ i <= Len(g)
    BY <1>1, <1>2
  <2> QED BY <1>4, <2>1
<1>7. ASSUME NEW i \in 1 .. Len(h) PROVE j[Len(g) + i - 1] = h[i]
  <2>1. CASE i = 1
    <3>1. Len(g) + i - 1 = Len(g) /\ Len(g) \in 1 .. Len(g)
      BY <1>1, <2>1
    <3> QED BY <1>6, <2>1, <3>1 DEF EndPoint, StartPoint
  <2>2. CASE i # 1
    <3>1. Len(g) + i - 1 \in 1 .. Len(g) + Len(t) /\ ~ (Len(g) + i - 1 <= Len(g))
          /\ (Len(g) + i - 1) - Len(g) = i - 1 /\ i - 1 \in 1 .. Len(t) /\ (i - 1) + 1 = i
      BY <1>1, <1>2, <2>2
    <3> QED BY <1>2, <1>4, <3>1
  <2> QED BY <2>1, <2>2
<1>8. ASSUME NEW i \in 1 .. Len(j) - 1 PROVE j[i] # j[i + 1]
  <2>1. CASE i < Len(g)
    <3>1. i \in 1 .. Len(g) /\ i + 1 \in 1 .. Len(g) /\ i \in 1 .. Len(g) - 1
      BY <1>1, <2>1
    <3> QED BY <1>1, <1>6, <3>1
  <2>2. CASE ~ (i < Len(g))
    <3> DEFINE k == i - Len(g) + 1
    <3>1. k \in 1 .. Len(h) /\ k + 1 \in 1 .. Len(h) /\ k \in 1 .. Len(h) - 1
          /\ Len(g) + k - 1 = i /\ Len(g) + (k + 1) - 1 = i + 1
      BY <1>1, <1>5, <2>2
    <3> HIDE DEF k
    <3>2. j[i] = h[k] /\ j[i + 1] = h[k + 1]
      BY <1>7, <3>1
    <3> QED BY <1>1, <3>1, <3>2
  <2> QED BY <2>1, <2>2
<1>9. j \in Line
  BY <1>1, <1>4, <1>5, <1>8 DEF Line
<1>10. StartPoint(j) = StartPoint(g) /\ EndPoint(j) = EndPoint(h)
  <2>1. 1 \in 1 .. Len(g) /\ Len(h) \in 1 .. Len(h) /\ Len(j) = Len(g) + Len(h) - 1
    BY <1>1, <1>5
  <2> QED BY <1>6, <1>7, <2>1 DEF StartPoint, EndPoint
<1> QED BY <1>5, <1>6, <1>7, <1>9, <1>10 DEF j

LEMMA JoinedParts ==
  ASSUME NEW g \in Line, NEW h \in Line, EndPoint(g) = StartPoint(h),
         NEW w \in Nat \ {0}, NEW q \in Point,
         NEW i \in 1 .. Len(Joined(g, h)) - 1, OnPart(w, q, Joined(g, h), i)
  PROVE  \/ i \in 1 .. Len(g) - 1 /\ OnPart(w, q, g, i)
         \/ i - Len(g) + 1 \in 1 .. Len(h) - 1 /\ OnPart(w, q, h, i - Len(g) + 1)
<1> DEFINE j == Joined(g, h)
           k == i - Len(g) + 1
<1>1. /\ Len(j) = Len(g) + Len(h) - 1
      /\ \A x \in 1 .. Len(g) : j[x] = g[x]
      /\ \A x \in 1 .. Len(h) : j[Len(g) + x - 1] = h[x]
  BY JoinedLine
<1>2. i \in 1 .. Len(j) - 1 /\ OnSegment(q, Scaled(w, j[i]), Scaled(w, j[i + 1]))
  BY DEF OnPart
<1>3. Len(g) \in Nat /\ Len(g) >= 2 /\ Len(h) \in Nat /\ Len(h) >= 2
  BY LineVertices
<1> HIDE DEF j
<1>4. CASE i < Len(g)
  <2>1. i \in 1 .. Len(g) - 1 /\ i \in 1 .. Len(g) /\ i + 1 \in 1 .. Len(g)
    BY <1>2, <1>3, <1>4
  <2>2. OnPart(w, q, g, i)
    BY <1>1, <1>2, <2>1 DEF OnPart
  <2> QED BY <2>1, <2>2
<1>5. CASE ~ (i < Len(g))
  <2>1. i \in 1 .. (Len(g) + Len(h) - 1) - 1
    BY <1>1, <1>2
  <2>2. k \in 1 .. Len(h) - 1 /\ k \in 1 .. Len(h) /\ k + 1 \in 1 .. Len(h)
        /\ Len(g) + k - 1 = i /\ Len(g) + (k + 1) - 1 = i + 1
    BY <1>3, <1>5, <2>1
  <2> HIDE DEF k
  <2>3. OnPart(w, q, h, k)
    BY <1>1, <1>2, <2>2 DEF OnPart
  <2> QED BY <2>2, <2>3 DEF k
<1> QED BY <1>4, <1>5

LEMMA JoinedInterior ==
  ASSUME NEW g \in Line, NEW h \in Line, EndPoint(g) = StartPoint(h),
         NEW w \in Nat \ {0}, NEW q \in Point, InteriorAt(w, q, Joined(g, h))
  PROVE  InteriorAt(w, q, g) \/ InteriorAt(w, q, h) \/ q = Scaled(w, EndPoint(g))
<1>1. PICK i \in 1 .. Len(Joined(g, h)) - 1 : OnPart(w, q, Joined(g, h), i)
  BY DEF InteriorAt
<1>2. q # Scaled(w, StartPoint(g)) /\ q # Scaled(w, EndPoint(h))
  BY JoinedLine DEF InteriorAt, AtEnd
<1>3. CASE i \in 1 .. Len(g) - 1 /\ OnPart(w, q, g, i)
  BY <1>2, <1>3 DEF InteriorAt, AtEnd
<1>4. CASE i - Len(g) + 1 \in 1 .. Len(h) - 1 /\ OnPart(w, q, h, i - Len(g) + 1)
  BY <1>2, <1>4 DEF InteriorAt, AtEnd
<1> QED BY <1>1, <1>3, <1>4, JoinedParts

\* Only its first part is where an open line starts, only its last where it ends.
LEMMA PartsAtEnds ==
  ASSUME NEW g \in Line, IsSimple(g), ~ IsClosed(g), NEW w \in Nat \ {0},
         NEW i \in 1 .. Len(g) - 1
  PROVE  /\ OnPart(w, Scaled(w, StartPoint(g)), g, i) => i = 1
         /\ OnPart(w, Scaled(w, EndPoint(g)), g, i) => i = Len(g) - 1
<1>1. /\ Len(g) \in Nat /\ Len(g) >= 2 /\ g[1] # g[Len(g)]
      /\ 1 \in 1 .. Len(g) - 1 /\ Len(g) - 1 \in 1 .. Len(g) - 1 /\ (Len(g) - 1) + 1 = Len(g)
  BY LineVertices DEF IsClosed, StartPoint, EndPoint
<1>2. \A k \in 1 .. Len(g) - 1 : /\ g[k] \in Point /\ g[k + 1] \in Point /\ g[k] # g[k + 1]
                                 /\ Scaled(w, g[k]) # Scaled(w, g[k + 1])
                                 /\ Scaled(w, g[k]) \in Point /\ Scaled(w, g[k + 1]) \in Point
  BY LineVertices, ScaledEqual, ScaledPoint
<1>3. ASSUME OnPart(w, Scaled(w, g[1]), g, i), i # 1 PROVE FALSE
  <2>1. OnPart(w, Scaled(w, g[1]), g, 1)
    BY <1>1, EndsOfParts
  <2>2. i = 1 + 1 /\ Scaled(w, g[1]) = Scaled(w, g[i])
    BY <1>1, <1>2, <1>3, <2>1, SimpleSharesVertices DEF PartsShareVertices
  <2> QED BY <1>1, <1>2, <2>2
<1>4. ASSUME OnPart(w, Scaled(w, g[Len(g)]), g, i), i # Len(g) - 1 PROVE FALSE
  <2>1. OnPart(w, Scaled(w, g[Len(g)]), g, Len(g) - 1)
    BY <1>1, EndsOfParts
  <2>2. i < Len(g) - 1 /\ Scaled(w, g[Len(g)]) \in Point
    <3>1. i < Len(g) - 1
      <4>1. Len(g) \in Nat
        BY <1>1
      <4>2. i # Len(g) - 1
        BY <1>4
      <4> QED BY <4>1, <4>2
    <3>2. Scaled(w, g[(Len(g) - 1) + 1]) \in Point
      BY <1>1, <1>2
    <3> QED BY <1>1, <3>1, <3>2
  <2>3. Scaled(w, g[Len(g)]) = Scaled(w, g[Len(g) - 1])
    BY <1>1, <1>4, <2>1, <2>2, SimpleSharesVertices DEF PartsShareVertices
  <2> QED BY <1>1, <1>2, <2>3
<1> QED BY <1>3, <1>4 DEF StartPoint, EndPoint

LEMMA JoinedIsSimple ==
  ASSUME NEW g \in Line, NEW h \in Line, EndPoint(g) = StartPoint(h),
         IsSimple(g), IsSimple(h), ~ IsClosed(g), ~ IsClosed(h), ~ ShareInterior(g, h),
         ~ InInterior(StartPoint(g), h), ~ InInterior(EndPoint(h), g)
  PROVE  IsSimple(Joined(g, h))
<1> DEFINE j == Joined(g, h)
<1>1. /\ j \in Line /\ Len(j) = Len(g) + Len(h) - 1
      /\ \A x \in 1 .. Len(g) : j[x] = g[x]
      /\ \A x \in 1 .. Len(h) : j[Len(g) + x - 1] = h[x]
  BY JoinedLine
<1>2. /\ Len(g) \in Nat /\ Len(g) >= 2 /\ Len(h) \in Nat /\ Len(h) >= 2
      /\ StartPoint(g) \in Point /\ EndPoint(h) \in Point /\ EndPoint(g) \in Point
      /\ StartPoint(g) = g[1] /\ EndPoint(h) = h[Len(h)] /\ EndPoint(g) = g[Len(g)]
      /\ StartPoint(h) = h[1] /\ g[1] # g[Len(g)] /\ h[1] # h[Len(h)]
  BY LineVertices DEF IsClosed, StartPoint, EndPoint
<1>3. ASSUME NEW w \in Nat \ {0}, NEW q \in Point,
             NEW a \in 1 .. Len(j) - 1, NEW b \in 1 .. Len(j) - 1,
             a < b, OnPart(w, q, j, a), OnPart(w, q, j, b)
      PROVE  \/ b = a + 1 /\ q = Scaled(w, j[b])
             \/ a = 1 /\ b = Len(j) - 1 /\ j[1] = j[Len(j)] /\ q = Scaled(w, j[1])
  <2> DEFINE c == a - Len(g) + 1
             d == b - Len(g) + 1
  <2>1. \/ a \in 1 .. Len(g) - 1 /\ OnPart(w, q, g, a)
        \/ c \in 1 .. Len(h) - 1 /\ OnPart(w, q, h, c)
    BY <1>3, JoinedParts
  <2>2. \/ b \in 1 .. Len(g) - 1 /\ OnPart(w, q, g, b)
        \/ d \in 1 .. Len(h) - 1 /\ OnPart(w, q, h, d)
    BY <1>3, JoinedParts
  <2>3. CASE a \in 1 .. Len(g) - 1 /\ OnPart(w, q, g, a) /\ b \in 1 .. Len(g) - 1 /\ OnPart(w, q, g, b)
    <3>1. b = a + 1 /\ q = Scaled(w, g[b])
      BY <1>2, <1>3, <2>3, SimpleSharesVertices DEF PartsShareVertices
    <3>2. j[b] = g[b]
      <4>1. b \in 1 .. Len(g)
        BY <1>2, <2>3
      <4> QED BY <1>1, <4>1
    <3> QED BY <3>1, <3>2
  <2>4. CASE c \in 1 .. Len(h) - 1 /\ OnPart(w, q, h, c) /\ d \in 1 .. Len(h) - 1 /\ OnPart(w, q, h, d)
    <3>1. c < d /\ a \in Int /\ b \in Int /\ Len(g) + d - 1 = b
      BY <1>2, <1>3
    <3>2. d = c + 1 /\ q = Scaled(w, h[d])
      BY <1>2, <2>4, <3>1, SimpleSharesVertices DEF PartsShareVertices
    <3>3. j[b] = h[d] /\ b = a + 1
      <4>1. d \in 1 .. Len(h)
        BY <1>2, <2>4
      <4>2. j[Len(g) + d - 1] = h[d]
        BY <1>1, <4>1
      <4> QED BY <1>2, <3>1, <3>2, <4>2
    <3> QED BY <3>2, <3>3
  <2>5. CASE b \in 1 .. Len(g) - 1 /\ c \in 1 .. Len(h) - 1
    BY <1>2, <1>3, <2>5
  <2>6. CASE a \in 1 .. Len(g) - 1 /\ OnPart(w, q, g, a) /\ d \in 1 .. Len(h) - 1 /\ OnPart(w, q, h, d)
    <3> HIDE DEF c, d
    <3>1. q \in {Scaled(w, g[1]), Scaled(w, g[Len(g)]), Scaled(w, h[Len(h)])}
      <4>1. ~ (InteriorAt(w, q, g) /\ InteriorAt(w, q, h))
        BY DEF ShareInterior
      <4> QED BY <1>2, <2>6, <4>1 DEF InteriorAt, AtEnd
    <3>2. CASE q = Scaled(w, g[Len(g)])
      <4>1. a = Len(g) - 1 /\ d = 1
        BY <1>2, <2>6, <3>2, PartsAtEnds
      <4>2. b = a + 1 /\ b = Len(g) /\ b \in 1 .. Len(g)
        BY <1>2, <1>3, <4>1 DEF d
      <4> QED BY <1>1, <3>2, <4>2
    <3>3. ASSUME q = Scaled(w, g[1]) \/ q = Scaled(w, h[Len(h)]), q # Scaled(w, g[Len(g)])
          PROVE  g[1] = h[Len(h)]
      <4>1. CASE q = Scaled(w, g[1])
        <5>1. ~ InteriorAt(w, q, h)
          BY <1>2, <4>1, PassesOnPart
        <5>2. q = Scaled(w, h[Len(h)])
          BY <1>2, <2>6, <3>3, <5>1 DEF InteriorAt, AtEnd
        <5> QED BY <1>2, <4>1, <5>2, ScaledEqual
      <4>2. CASE q = Scaled(w, h[Len(h)])
        <5>1. ~ InteriorAt(w, q, g)
          BY <1>2, <4>2, PassesOnPart
        <5>2. q = Scaled(w, g[1])
          BY <1>2, <2>6, <3>3, <5>1 DEF InteriorAt, AtEnd
        <5> QED BY <1>2, <4>2, <5>2, ScaledEqual
      <4> QED BY <3>3, <4>1, <4>2
    <3>4. ASSUME q # Scaled(w, g[Len(g)])
          PROVE  a = 1 /\ b = Len(j) - 1 /\ j[1] = j[Len(j)] /\ q = Scaled(w, j[1])
      <4>1. g[1] = h[Len(h)] /\ q = Scaled(w, g[1])
        BY <3>1, <3>3, <3>4
      <4>2. a = 1 /\ d = Len(h) - 1
        BY <1>2, <2>6, <4>1, PartsAtEnds
      <4>3. b = Len(j) - 1
        BY <1>1, <1>2, <1>3, <4>2 DEF d
      <4>4. j[1] = g[1] /\ j[Len(j)] = h[Len(h)]
        <5>1. 1 \in 1 .. Len(g) /\ Len(h) \in 1 .. Len(h)
          BY <1>2
        <5> QED BY <1>1, <5>1
      <4> QED BY <4>1, <4>2, <4>3, <4>4
    <3> QED BY <3>2, <3>4
  <2> QED BY <2>1, <2>2, <2>3, <2>4, <2>5, <2>6
<1> HIDE DEF j
<1>4. PartsShareVertices(j)
  BY <1>3 DEF PartsShareVertices
<1>5. IsSimple(j)
  BY <1>1, <1>4, SharingVerticesIsSimple
<1> QED BY <1>5 DEF j

-----------------------------------------------------------------------------
(* Points of lines that are cut, reversed and joined.                      *)

LEMMA NearSideOfCut ==
  ASSUME NEW a \in Point, NEW b \in Point, NEW p \in Point, NEW q \in Point,
         NEW k, NEW m, Divides(p, a, b, k, m), NEW j, NEW l, Divides(q, a, b, j, l),
         l * k <= m * j
  PROVE  OnSegment(q, a, p)
<1> PICK ax, ay \in Int : a = <<ax, ay>> /\ a[1] = ax /\ a[2] = ay BY Coordinates
<1> PICK bx, by \in Int : b = <<bx, by>> /\ b[1] = bx /\ b[2] = by BY Coordinates
<1> PICK px, py \in Int : p = <<px, py>> /\ p[1] = px /\ p[2] = py BY Coordinates
<1> PICK qx, qy \in Int : q = <<qx, qy>> /\ q[1] = qx /\ q[2] = qy BY Coordinates
<1>1. /\ k \in Nat \ {0} /\ m \in 0 .. k /\ j \in Nat \ {0} /\ l \in 0 .. j
      /\ k * (px - ax) = m * (bx - ax) /\ k * (py - ay) = m * (by - ay)
      /\ j * (qx - ax) = l * (bx - ax) /\ j * (qy - ay) = l * (by - ay)
  BY DEF Divides
<1>2. CASE m = 0
  <2>1. l = 0
    BY <1>1, <1>2
  <2>2. a # b => p = a /\ q = a
    BY <1>2, <2>1, DividesOnSegment
  <2>3. OnSegment(a, a, a)
    BY EndsOnSegment
  <2>4. OnSegment(q, a, b) /\ OnSegment(p, a, b)
    BY DividesOnSegment
  <2>5. ASSUME a = b PROVE q = a /\ p = a
    BY <2>4, <2>5 DEF OnSegment, Between
  <2> QED BY <2>2, <2>3, <2>5
<1>3. CASE m # 0
  <2>1. m * j \in Nat \ {0} /\ l * k \in 0 .. m * j
    BY <1>1, <1>3
  <2>2. ASSUME NEW x \in Int, NEW y \in Int, NEW z \in Int, k * x = m * z, j * y = l * z
        PROVE  (m * j) * y = (l * k) * x
    <3>1. m * (j * y) = m * (l * z) /\ l * (k * x) = l * (m * z)
      BY <2>2
    <3>2. k \in Int /\ m \in Int /\ j \in Int /\ l \in Int
      BY <1>1
    <3> QED BY <2>2, <3>1, <3>2
  <2>3. (m * j) * (qx - ax) = (l * k) * (px - ax) /\ (m * j) * (qy - ay) = (l * k) * (py - ay)
    BY <1>1, <2>2
  <2>4. Divides(q, a, p, m * j, l * k)
    BY <2>1, <2>3 DEF Divides
  <2> QED BY <2>4, DividesOnSegment
<1> QED BY <1>2, <1>3

\* A point of a segment that is cut is on one side of the cut.
LEMMA SideOfCut ==
  ASSUME NEW a \in Point, NEW b \in Point, NEW p \in Point, NEW q \in Point,
         OnSegment(p, a, b), OnSegment(q, a, b)
  PROVE  OnSegment(q, a, p) \/ OnSegment(q, p, b)
<1>1. PICK k, m : Divides(p, a, b, k, m)
  BY OnSegmentDivides
<1>2. PICK j, l : Divides(q, a, b, j, l)
  BY OnSegmentDivides
<1>3. k \in Nat \ {0} /\ m \in 0 .. k /\ j \in Nat \ {0} /\ l \in 0 .. j
  BY <1>1, <1>2 DEF Divides
<1>4. CASE l * k <= m * j
  BY <1>1, <1>2, <1>4, NearSideOfCut
<1>5. CASE ~ (l * k <= m * j)
  <2>1. Divides(p, b, a, k, k - m)
    <3> PICK ax, ay \in Int : a = <<ax, ay>> /\ a[1] = ax /\ a[2] = ay BY Coordinates
    <3> PICK bx, by \in Int : b = <<bx, by>> /\ b[1] = bx /\ b[2] = by BY Coordinates
    <3> PICK px, py \in Int : p = <<px, py>> /\ p[1] = px /\ p[2] = py BY Coordinates
    <3> QED BY <1>1 DEF Divides
  <2>2. Divides(q, b, a, j, j - l)
    <3> PICK ax, ay \in Int : a = <<ax, ay>> /\ a[1] = ax /\ a[2] = ay BY Coordinates
    <3> PICK bx, by \in Int : b = <<bx, by>> /\ b[1] = bx /\ b[2] = by BY Coordinates
    <3> PICK qx, qy \in Int : q = <<qx, qy>> /\ q[1] = qx /\ q[2] = qy BY Coordinates
    <3> QED BY <1>2 DEF Divides
  <2>3. (j - l) * k <= (k - m) * j
    BY <1>3, <1>5
  <2>4. OnSegment(q, b, p)
    BY <2>1, <2>2, <2>3, NearSideOfCut
  <2> QED BY <2>4, OnSegmentReversed
<1> QED BY <1>4, <1>5

LEMMA PassesReversed ==
  ASSUME NEW g \in Line, NEW q \in Point
  PROVE  Passes(Reverse(g), q) <=> Passes(g, q)
<1> DEFINE r == Reverse(g)
<1>1. Len(r) = Len(g) /\ \A i \in 1 .. Len(g) : r[i] = g[Len(g) - i + 1]
  BY ReversedLine
<1> HIDE DEF r
<1>2. ASSUME NEW i \in 1 .. Len(g) - 1
      PROVE  /\ Len(g) - i \in 1 .. Len(g) - 1 /\ Len(g) - (Len(g) - i) = i
             /\ r[i] = g[(Len(g) - i) + 1] /\ r[i + 1] = g[Len(g) - i]
             /\ OnSegment(q, r[i], r[i + 1]) <=> OnSegment(q, g[Len(g) - i], g[(Len(g) - i) + 1])
  <2>1. Len(g) \in Nat /\ i \in 1 .. Len(g) /\ i + 1 \in 1 .. Len(g)
        /\ Len(g) - i \in 1 .. Len(g) - 1 /\ Len(g) - (i + 1) + 1 = Len(g) - i
        /\ Len(g) - (Len(g) - i) = i
    BY LineVertices
  <2>2. r[i] = g[(Len(g) - i) + 1] /\ r[i + 1] = g[Len(g) - i]
    BY <1>1, <2>1
  <2>3. g[(Len(g) - i) + 1] \in Point /\ g[Len(g) - i] \in Point
    BY <2>1, LineVertices
  <2> QED BY <2>1, <2>2, <2>3, OnSegmentReversed
<1>3. Passes(r, q) => Passes(g, q)
  BY <1>1, <1>2, PassesPart
<1>4. ASSUME Passes(g, q) PROVE Passes(r, q)
  <2>1. PICK k \in 1 .. Len(g) - 1 : OnSegment(q, g[k], g[k + 1])
    BY <1>4, PassesPart
  <2>2. Len(g) - k \in 1 .. Len(g) - 1 /\ Len(g) - (Len(g) - k) = k
    BY <1>2
  <2>3. OnSegment(q, r[Len(g) - k], r[(Len(g) - k) + 1])
    BY <1>2, <2>1, <2>2
  <2> QED BY <1>1, <2>2, <2>3, PassesPart
<1> QED BY <1>3, <1>4 DEF r

LEMMA PassesJoined ==
  ASSUME NEW g \in Line, NEW h \in Line, EndPoint(g) = StartPoint(h), NEW q \in Point
  PROVE  Passes(Joined(g, h), q) <=> Passes(g, q) \/ Passes(h, q)
<1> DEFINE j == Joined(g, h)
<1>1. /\ Len(j) = Len(g) + Len(h) - 1
      /\ \A i \in 1 .. Len(g) : j[i] = g[i]
      /\ \A i \in 1 .. Len(h) : j[Len(g) + i - 1] = h[i]
  BY JoinedLine
<1>2. Len(g) \in Nat /\ Len(g) >= 2 /\ Len(h) \in Nat /\ Len(h) >= 2
  BY LineVertices
<1> HIDE DEF j
<1>3. ASSUME NEW i \in 1 .. Len(g) - 1
      PROVE  i \in 1 .. Len(j) - 1 /\ j[i] = g[i] /\ j[i + 1] = g[i + 1]
  <2>1. i \in 1 .. Len(j) - 1 /\ i \in 1 .. Len(g) /\ i + 1 \in 1 .. Len(g)
    BY <1>1, <1>2
  <2> QED BY <1>1, <2>1
<1>4. ASSUME NEW i \in 1 .. Len(h) - 1
      PROVE  /\ Len(g) + i - 1 \in 1 .. Len(j) - 1
             /\ j[Len(g) + i - 1] = h[i] /\ j[(Len(g) + i - 1) + 1] = h[i + 1]
  <2>1. /\ Len(g) + i - 1 \in 1 .. Len(j) - 1 /\ i \in 1 .. Len(h) /\ i + 1 \in 1 .. Len(h)
        /\ (Len(g) + i - 1) + 1 = Len(g) + (i + 1) - 1
    BY <1>1, <1>2
  <2> QED BY <1>1, <2>1
<1>5. ASSUME NEW i \in 1 .. Len(j) - 1, ~ (i \in 1 .. Len(g) - 1)
      PROVE  i - Len(g) + 1 \in 1 .. Len(h) - 1 /\ Len(g) + (i - Len(g) + 1) - 1 = i
  BY <1>1, <1>2, <1>5
<1>6. Passes(g, q) => Passes(j, q)
  BY <1>3, PassesPart
<1>7. Passes(h, q) => Passes(j, q)
  <2> SUFFICES ASSUME Passes(h, q) PROVE Passes(j, q)
    OBVIOUS
  <2>1. PICK i \in 1 .. Len(h) - 1 : OnSegment(q, h[i], h[i + 1])
    BY PassesPart
  <2> QED BY <1>4, <2>1, PassesPart
<1>8. ASSUME Passes(j, q) PROVE Passes(g, q) \/ Passes(h, q)
  <2>1. PICK i \in 1 .. Len(j) - 1 : OnSegment(q, j[i], j[i + 1])
    BY <1>8, PassesPart
  <2>2. CASE i \in 1 .. Len(g) - 1
    BY <1>3, <2>1, <2>2, PassesPart
  <2>3. CASE ~ (i \in 1 .. Len(g) - 1)
    <3> DEFINE k == i - Len(g) + 1
    <3>1. k \in 1 .. Len(h) - 1 /\ Len(g) + k - 1 = i
      BY <1>5, <2>3
    <3> HIDE DEF k
    <3>2. OnSegment(q, h[k], h[k + 1])
      BY <1>4, <2>1, <3>1
    <3> QED BY <3>1, <3>2, PassesPart
  <2> QED BY <2>2, <2>3
<1> QED BY <1>6, <1>7, <1>8 DEF j

LEMMA PassesPieces ==
  ASSUME NEW g \in Line, NEW p \in Point, InInterior(p, g), NEW q \in Point
  PROVE  Passes(g, q) <=> Passes(HeadUpTo(g, p), q) \/ Passes(TailFrom(g, p), q)
<1> DEFINE i == CutIndex(g, p)
           h == HeadUpTo(g, p)
           t == TailFrom(g, p)
           o == IF g[i + 1] = p THEN i ELSE i - 1
<1>0. 1 \in Nat \ {0} /\ Scaled(1, q) \in Point
  BY ScaledPoint
<1>1. i \in 1 .. Len(g) - 1 /\ p # g[i] /\ OnSegment(p, g[i], g[i + 1])
  BY CutIndexOfPoint
<1>2. h \in Line /\ Len(h) = i + 1 /\ h[i + 1] = p /\ \A k \in 1 .. i : h[k] = g[k]
  BY HeadOfLine
<1>3. t \in Line /\ Len(t) = Len(g) - o /\ t[1] = p /\ \A k \in 2 .. Len(t) : t[k] = g[k + o]
  BY TailOfLine
<1>4. ASSUME Passes(h, q) PROVE Passes(g, q)
  <2>1. PICK k \in 1 .. Len(h) - 1 : OnSegment(q, h[k], h[k + 1])
    BY <1>4, PassesPart
  <2>2. OnPart(1, Scaled(1, q), h, k)
    BY <1>0, <1>2, <2>1, VertexOnPart
  <2>3. k \in 1 .. i /\ OnPart(1, Scaled(1, q), g, k)
    BY <1>0, <2>2, HeadWithinLine
  <2> HIDE DEF i, h
  <2>4. k \in 1 .. Len(g) - 1
    BY <1>1, <2>3, LineVertices
  <2> QED BY <1>0, <2>3, <2>4, VertexOnPart, PassesPart
<1>5. ASSUME Passes(t, q) PROVE Passes(g, q)
  <2>1. PICK k \in 1 .. Len(t) - 1 : OnSegment(q, t[k], t[k + 1])
    BY <1>5, PassesPart
  <2>2. OnPart(1, Scaled(1, q), t, k)
    BY <1>0, <1>3, <2>1, VertexOnPart
  <2>3. k + o \in 1 .. Len(g) - 1 /\ OnPart(1, Scaled(1, q), g, k + o)
    BY <1>0, <2>2, TailWithinLine
  <2> HIDE DEF o, t
  <2> QED BY <1>0, <2>3, VertexOnPart, PassesPart
<1> HIDE DEF i, h, t
<1>6. /\ Len(g) \in Nat /\ i \in Nat /\ o \in Nat /\ o \in {i - 1, i} /\ (o = i <=> g[i + 1] = p)
      /\ g[i] \in Point /\ g[i + 1] \in Point
  BY <1>1, LineVertices
<1> HIDE DEF o
<1>7. ASSUME Passes(g, q) PROVE Passes(h, q) \/ Passes(t, q)
  <2>1. PICK k \in 1 .. Len(g) - 1 : OnSegment(q, g[k], g[k + 1])
    BY <1>7, PassesPart
  <2>2. CASE k < i
    <3>1. k \in 1 .. i /\ k + 1 \in 1 .. i /\ k \in 1 .. Len(h) - 1
      BY <1>2, <1>6, <2>2
    <3>2. OnSegment(q, h[k], h[k + 1])
      BY <1>2, <2>1, <3>1
    <3> QED BY <3>1, <3>2, PassesPart
  <2>3. CASE k > i
    <3> DEFINE l == k - o
    <3>1. l \in 1 .. Len(t) - 1 /\ l + 1 \in 2 .. Len(t) /\ l + o = k /\ (l + 1) + o = k + 1
      BY <1>3, <1>6, <2>3
    <3>2. l = 1 => o = i /\ k = i + 1
      BY <1>6, <2>3
    <3> HIDE DEF l
    <3>3. t[l] = g[k]
      <4>1. CASE l = 1
        BY <1>3, <1>6, <3>2, <4>1
      <4>2. CASE l # 1
        <5>1. l \in 2 .. Len(t)
          BY <3>1, <4>2
        <5> QED BY <1>3, <3>1, <5>1
      <4> QED BY <4>1, <4>2
    <3>4. OnSegment(q, t[l], t[l + 1])
      BY <1>3, <2>1, <3>1, <3>3
    <3> QED BY <3>1, <3>4, PassesPart
  <2>4. CASE k = i
    <3>1. OnSegment(q, g[i], p) \/ OnSegment(q, p, g[i + 1])
      BY <1>1, <1>6, <2>1, <2>4, SideOfCut
    <3>2. ASSUME OnSegment(q, g[i], p) PROVE Passes(h, q)
      <4>1. i \in 1 .. Len(h) - 1 /\ i \in 1 .. i
        BY <1>1, <1>2, <1>6
      <4>2. OnSegment(q, h[i], h[i + 1])
        BY <1>2, <3>2, <4>1
      <4> QED BY <4>1, <4>2, PassesPart
    <3>3. ASSUME OnSegment(q, p, g[i + 1]) PROVE Passes(h, q) \/ Passes(t, q)
      <4>1. CASE o = i
        <5>1. OnSegment(q, p, p)
          BY <1>6, <3>3, <4>1
        <5>2. q = p
          <6> PICK px, py \in Int : p = <<px, py>> /\ p[1] = px /\ p[2] = py BY Coordinates
          <6> PICK qx, qy \in Int : q = <<qx, qy>> /\ q[1] = qx /\ q[2] = qy BY Coordinates
          <6>1. qx = px /\ qy = py
            BY <5>1 DEF OnSegment, Between
          <6> QED BY <6>1
        <5> QED BY <1>6, <3>2, <5>2, EndsOnSegment
      <4>2. CASE o # i
        <5>1. 1 \in 1 .. Len(t) - 1 /\ 1 + 1 \in 2 .. Len(t) /\ (1 + 1) + o = i + 1
          BY <1>1, <1>3, <1>6, <4>2
        <5>2. OnSegment(q, t[1], t[1 + 1])
          BY <1>3, <3>3, <5>1
        <5> QED BY <5>1, <5>2, PassesPart
      <4> QED BY <4>1, <4>2
    <3> QED BY <3>1, <3>2, <3>3
  <2>5. k \in Nat
    BY <1>6
  <2> QED BY <1>6, <2>2, <2>3, <2>4, <2>5
<1> QED BY <1>4, <1>5, <1>7 DEF h, t
=============================================================================
