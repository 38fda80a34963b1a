--------------------------- MODULE PlanarGeometry ---------------------------
(***************************************************************************)
(* The plane geometry the topology editor asks for: turning order of edge  *)
(* ends around a node, winding of a ring, point in ring, crossing of lines *)
(* and bounding boxes.                                                     *)
(*                                                                         *)
(* A point is a pair <<x, y>> of integers, a line a sequence of at least   *)
(* two points without consecutive repetitions.  The inputs used with TLC   *)
(* have even coordinates, so that the midpoint of a segment is a point;    *)
(* rounding of doubles is outside the model.                               *)
(***************************************************************************)
EXTENDS Integers, Sequences, FiniteSets, FiniteSetsExt, SequencesExt

Point == Int \X Int
Line  == {g \in Seq(Point) : Len(g) >= 2 /\ \A i \in 1 .. Len(g) - 1 : g[i] # g[i + 1]}

-----------------------------------------------------------------------------
(* Segments.                                                               *)

\* Twice the signed area of the triangle o, a, b: positive when it turns left.
Cross(o, a, b) ==
  (a[1] - o[1]) * (b[2] - o[2]) - (a[2] - o[2]) * (b[1] - o[1])

Between(x, a, b) == (a <= x /\ x <= b) \/ (b <= x /\ x <= a)

OnSegment(p, a, b) ==
  /\ Cross(a, b, p) = 0
  /\ Between(p[1], a[1], b[1])
  /\ Between(p[2], a[2], b[2])

\* Lexicographic order of points, to compare the ends of collinear segments.
Before(p, q) == p[1] < q[1] \/ (p[1] = q[1] /\ p[2] < q[2])

\* The segments have a common point that is an end of neither.
ProperlyCross(a, b, c, d) ==
  /\ Cross(a, b, c) * Cross(a, b, d) < 0
  /\ Cross(c, d, a) * Cross(c, d, b) < 0

\* The segments share more than a point.
Overlap(a, b, c, d) ==
  LET lo(p, q) == IF Before(p, q) THEN p ELSE q
      hi(p, q) == IF Before(p, q) THEN q ELSE p
  IN  /\ Cross(a, b, c) = 0
      /\ Cross(a, b, d) = 0
      /\ Before(lo(a, b), hi(c, d))
      /\ Before(lo(c, d), hi(a, b))

-----------------------------------------------------------------------------
(* Lines.                                                                  *)

StartPoint(g) == g[1]
EndPoint(g)   == g[Len(g)]
IsClosed(g)   == StartPoint(g) = EndPoint(g)
Segments(g)   == {<<g[i], g[i + 1]>> : i \in 1 .. Len(g) - 1}
Vertices(g)   == {g[i] : i \in 1 .. Len(g)}

Passes(g, p) == \E t \in Segments(g) : OnSegment(p, t[1], t[2])

\* p is on the line and not on its boundary (its two ends, also of a closed
\* line: the "endpoint" boundary rule).
InInterior(p, g) == p \notin {StartPoint(g), EndPoint(g)} /\ Passes(g, p)

InteriorsMeet(g, h) ==
  \/ \E t \in Segments(g), u \in Segments(h) :
       \/ ProperlyCross(t[1], t[2], u[1], u[2])
       \/ Overlap(t[1], t[2], u[1], u[2])
  \/ \E p \in Vertices(g) \cup Vertices(h) : InInterior(p, g) /\ InInterior(p, h)

\* The line does not pass twice through a point, its ends excepted.
IsSimple(g) ==
  /\ \A i, j \in 1 .. Len(g) :
       (i < j /\ g[i] = g[j]) => (i = 1 /\ j = Len(g))
  /\ \A i \in 1 .. Len(g), j \in 1 .. Len(g) - 1 :
       OnSegment(g[i], g[j], g[j + 1]) => g[i] \in {g[j], g[j + 1]}
  /\ \A i, j \in 1 .. Len(g) - 1 :
       i < j => /\ ~ ProperlyCross(g[i], g[i + 1], g[j], g[j + 1])
                /\ ~ Overlap(g[i], g[i + 1], g[j], g[j + 1])

\* A point of the line that is not one of its ends: its first inner vertex,
\* else the middle of its only segment.
InteriorPoint(g) ==
  IF Len(g) > 2 THEN g[2]
  ELSE <<(g[1][1] + g[2][1]) \div 2, (g[1][2] + g[2][2]) \div 2>>

\* The two pieces of g cut at the point p of its part i.
HeadAt(g, i, p) == Append(SubSeq(g, 1, i), p)

TailAt(g, i, p) ==
  <<p>> \o SubSeq(g, IF g[i + 1] = p THEN i + 2 ELSE i + 1, Len(g))

\* The two pieces of g cut at a point of its interior.
CutIndex(g, p) ==
  CHOOSE i \in 1 .. Len(g) - 1 : p # g[i] /\ OnSegment(p, g[i], g[i + 1])

HeadUpTo(g, p) == HeadAt(g, CutIndex(g, p), p)

TailFrom(g, p) == TailAt(g, CutIndex(g, p), p)

\* h appended to g, the vertex they share written once.
Joined(g, h) == g \o Tail(h)

-----------------------------------------------------------------------------
(* Directions around a point, clockwise as azimuths grow.                  *)

Direction(p, q) == <<q[1] - p[1], q[2] - p[2]>>

\* How far clockwise of u the direction v is, in quarters of an ordering:
\* same direction, to the right, opposite, to the left.
Turn(u, v) ==
  LET c == u[1] * v[2] - u[2] * v[1]
      d == u[1] * v[1] + u[2] * v[2]
  IN  IF c < 0 THEN 1 ELSE IF c > 0 THEN 3 ELSE IF d > 0 THEN 0 ELSE 2

\* Turning clockwise from u, v is met strictly before w.
MetBefore(u, v, w) ==
  \/ Turn(u, v) < Turn(u, w)
  \/ /\ Turn(u, v) = Turn(u, w)
     /\ Turn(u, v) \in {1, 3}
     /\ v[1] * w[2] - v[2] * w[1] < 0

-----------------------------------------------------------------------------
(* Rings: a ring is given by the finite set of lines it is made of, each   *)
(* once in each direction it is walked.                                    *)

\* Twice the signed area swept by the line from the origin, positive when
\* counterclockwise.
Sweep(g) ==
  LET sum[i \in 1 .. Len(g)] ==
        IF i = 1 THEN 0
        ELSE sum[i - 1] + g[i - 1][1] * g[i][2] - g[i][1] * g[i - 1][2]
  IN  sum[Len(g)]

\* The segment a, b crosses the horizontal ray that leaves p to the right.
CrossesRay(p, a, b) ==
  /\ (a[2] > p[2]) # (b[2] > p[2])
  /\ (b[2] > a[2]) = (Cross(a, b, p) > 0)

Crossings(p, g) ==
  Cardinality({i \in 1 .. Len(g) - 1 : CrossesRay(p, g[i], g[i + 1])})

\* p is strictly inside the ring (even-odd rule).
Inside(p, lines) ==
  /\ \A g \in lines : ~ Passes(g, p)
  /\ MapThenSumSet(LAMBDA g : Crossings(p, g), lines) % 2 = 1

-----------------------------------------------------------------------------
(* Bounding boxes.                                                         *)

BoxOf(points) ==
  [lo |-> <<Min({p[1] : p \in points}), Min({p[2] : p \in points})>>,
   hi |-> <<Max({p[1] : p \in points}), Max({p[2] : p \in points})>>]

LineBox(g) == BoxOf(Vertices(g))

BoxUnion(b, c) == BoxOf({b.lo, b.hi, c.lo, c.hi})

BoxesMeet(b, c) ==
  \A k \in {1, 2} : b.lo[k] <= c.hi[k] /\ c.lo[k] <= b.hi[k]

InBox(p, b) == \A k \in {1, 2} : b.lo[k] <= p[k] /\ p[k] <= b.hi[k]
=============================================================================
