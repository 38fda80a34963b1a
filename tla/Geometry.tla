------------------------------- MODULE Geometry -----------------------------
(***************************************************************************)
(* Geometries in memory (RTGEOM and its variants) and their boxes.  One    *)
(* record stands for all types: `arrays` are the point arrays (one for a   *)
(* point, line, circular string or triangle, one per ring for a polygon),  *)
(* `geoms` the parts of a collection.  A point is the sequence of its      *)
(* ordinates, x and y first, then z and m as far as the geometry has them. *)
(* Ordinates are integers; those that are multiples of FloatStep stand for *)
(* the doubles that are also floats.                                       *)
(***************************************************************************)
EXTENDS Integers, Sequences, FiniteSets, FiniteSetsExt, SequencesExt

CONSTANT FloatStep     \* the distance of two neighbouring floats, in doubles

ASSUME FloatStepAssumption == FloatStep \in Nat \ {0}

\* The types in the order of their numbers.
TypeName == <<"Point", "Line", "Polygon", "MultiPoint", "MultiLine",
  "MultiPolygon", "Collection", "CircString", "Compound", "CurvePoly",
  "MultiCurve", "MultiSurface", "PolyhedralSurface", "Triangle", "Tin">>
TypeCode(type) == CHOOSE i \in DOMAIN TypeName : TypeName[i] = type

SimpleTypes == {"Point", "Line", "CircString", "Triangle", "Polygon"}
Collections == Range(TypeName) \ SimpleTypes

SridUnknown == 0

-----------------------------------------------------------------------------
(* Boxes.  One bound per ordinate. *)

NoBox == [z |-> FALSE, m |-> FALSE, lo |-> <<>>, hi |-> <<>>]
IsBox(b) == b.lo # <<>>

NDims(z, m) == 2 + (IF z THEN 1 ELSE 0) + (IF m THEN 1 ELSE 0)

Lower(a, b) == IF a < b THEN a ELSE b
Upper(a, b) == IF a > b THEN a ELSE b
AllLower(s, t) == [i \in DOMAIN s |-> Lower(s[i], t[i])]
AllUpper(s, t) == [i \in DOMAIN s |-> Upper(s[i], t[i])]

\* ptarray_calculate_gbox_cartesian
PointsBox(z, m, ps) ==
  IF ps = <<>> THEN NoBox
  ELSE [z |-> z, m |-> m, lo |-> FoldSeq(AllLower, ps[1], ps),
        hi |-> FoldSeq(AllUpper, ps[1], ps)]

\* gbox_merge: boxes of other dimensions are left out.
Merged(b, into) ==
  IF <<b.z, b.m>> # <<into.z, into.m>> THEN into
  ELSE [into EXCEPT !.lo = AllLower(into.lo, b.lo), !.hi = AllUpper(into.hi, b.hi)]

AllMerged(boxes) == IF boxes = <<>> THEN NoBox ELSE FoldSeq(Merged, boxes[1], boxes)

FloatDown(x) == x - (x % FloatStep)
FloatUp(x) == -FloatDown(-x)
FloatRound(b) == [b EXCEPT !.lo = [i \in DOMAIN b.lo |-> FloatDown(b.lo[i])],
                           !.hi = [i \in DOMAIN b.hi |-> FloatUp(b.hi[i])]]

\* Box b bounds every ordinate that box c bounds.
BoxCovers(b, c) ==
  /\ <<b.z, b.m>> = <<c.z, c.m>>
  /\ \A i \in DOMAIN c.lo : b.lo[i] <= c.lo[i] /\ c.hi[i] <= b.hi[i]

Overlap2D(b, c) == \A i \in {1, 2} : b.lo[i] <= c.hi[i] /\ c.lo[i] <= b.hi[i]

-----------------------------------------------------------------------------
(* Arcs.  Centre and radius are integers in the arcs that are modelled. *)

SegmentSide(a, b, c) == (b[1] - a[1]) * (c[2] - a[2]) - (b[2] - a[2]) * (c[1] - a[1])
Sign(n) == IF n > 0 THEN 1 ELSE IF n < 0 THEN -1 ELSE 0
DistSq(a, b) == (a[1] - b[1]) * (a[1] - b[1]) + (a[2] - b[2]) * (a[2] - b[2])

\* The centre is half way for a full circle, else equally far from all three.
ArcCentre(a1, a2, a3) ==
  IF a1[1] = a3[1] /\ a1[2] = a3[2]
  THEN <<(a1[1] + a2[1]) \div 2, (a1[2] + a2[2]) \div 2>>
  ELSE LET dx == <<a2[1] - a1[1], a3[1] - a1[1]>>
           dy == <<a2[2] - a1[2], a3[2] - a1[2]>>
           sq == [i \in 1..2 |-> dx[i] * dx[i] + dy[i] * dy[i]]
           det == 2 * (dx[1] * dy[2] - dx[2] * dy[1])
       IN  <<a1[1] + (sq[1] * dy[2] - sq[2] * dy[1]) \div det,
             a1[2] + (dx[1] * sq[2] - dx[2] * sq[1]) \div det>>
Radius(c, a) == CHOOSE r \in 0..Upper(DistSq(c, a), 1) : r * r = DistSq(c, a)

\* rt_arc_calculate_gbox_cartesian: the ends, and the extreme points of the
\* circle of centre c and radius r on the side of the chord where the middle
\* point is.
CircleBox(ends, a1, a2, a3, c, r) ==
  LET Reached(p) == \/ a1[1] = a3[1] /\ a1[2] = a3[2]
                    \/ Sign(SegmentSide(a1, a3, a2)) = Sign(SegmentSide(a1, a3, p))
  IN  [ends EXCEPT
         !.lo[1] = IF Reached(<<c[1] - r, c[2]>>) THEN c[1] - r ELSE @,
         !.lo[2] = IF Reached(<<c[1], c[2] - r>>) THEN c[2] - r ELSE @,
         !.hi[1] = IF Reached(<<c[1] + r, c[2]>>) THEN c[1] + r ELSE @,
         !.hi[2] = IF Reached(<<c[1], c[2] + r>>) THEN c[2] + r ELSE @]
BoxAround(ends, a1, a2, a3, c) == CircleBox(ends, a1, a2, a3, c, Radius(c, a1))
ArcBox(z, m, a1, a2, a3) ==
  IF SegmentSide(a1, a2, a3) = 0 /\ (a1[1] # a3[1] \/ a1[2] # a3[2])
  THEN PointsBox(z, m, <<a1, a3>>)
  ELSE BoxAround(PointsBox(z, m, <<a1, a3>>), a1, a2, a3, ArcCentre(a1, a2, a3))

ArcsBox(g, ps) ==
  IF Len(ps) < 3 THEN NoBox
  ELSE AllMerged([k \in 1..(Len(ps) - 1) \div 2 |->
                    ArcBox(g.z, g.m, ps[2*k - 1], ps[2*k], ps[2*k + 1])])

-----------------------------------------------------------------------------
(* Geometries *)

\* `flag` is the BBOX bit of the flags, `box` the cached box.
NewGeom(type, srid, z, m, box, arrays, geoms) ==
  [type |-> type, srid |-> srid, z |-> z, m |-> m, box |-> box,
   flag |-> IsBox(box), arrays |-> arrays, geoms |-> geoms]

ConstructEmpty(type, srid, z, m) ==
  NewGeom(type, srid, z, m, NoBox,
          IF type \in SimpleTypes \ {"Polygon"} THEN << <<>> >> ELSE <<>>, <<>>)

AllowsSubtype(type, sub) ==
  \/ type = "Collection"
  \/ type = "MultiPoint" /\ sub = "Point"
  \/ type = "MultiLine" /\ sub = "Line"
  \/ type \in {"MultiPolygon", "PolyhedralSurface"} /\ sub = "Polygon"
  \/ type = "Compound" /\ sub \in {"Line", "CircString"}
  \/ type \in {"CurvePoly", "MultiCurve"} /\ sub \in {"CircString", "Line", "Compound"}
  \/ type = "MultiSurface" /\ sub \in {"Polygon", "CurvePoly"}
  \/ type = "Tin" /\ sub = "Triangle"

IsCollection(g) == g.type \in Collections

RECURSIVE IsEmpty(_)
IsEmpty(g) ==
  IF IsCollection(g) THEN \A i \in DOMAIN g.geoms : IsEmpty(g.geoms[i])
  ELSE g.arrays = <<>> \/ g.arrays[1] = <<>>

\* The geometry and everything in it.
RECURSIVE Nodes(_)
Nodes(g) == {g} \cup UNION {Nodes(g.geoms[i]) : i \in DOMAIN g.geoms}

SumOf(s) == FoldSeq(+, 0, s)

RECURSIVE CountVertices(_)
CountVertices(g) ==
  IF IsEmpty(g) THEN 0
  ELSE IF IsCollection(g) THEN SumOf([i \in DOMAIN g.geoms |-> CountVertices(g.geoms[i])])
  ELSE SumOf([i \in DOMAIN g.arrays |-> Len(g.arrays[i])])

\* rtgeom_calculate_gbox_cartesian: a polygon is bounded by its first ring.
RECURSIVE CalculateBox(_)
CalculateBox(g) ==
  CASE IsCollection(g) ->
         AllMerged(SelectSeq([i \in DOMAIN g.geoms |-> CalculateBox(g.geoms[i])], IsBox))
    [] g.type = "CircString" -> ArcsBox(g, g.arrays[1])
    [] g.arrays = <<>> -> NoBox
    [] OTHER -> PointsBox(g.z, g.m, g.arrays[1])

\* Geometries whose box is not worth caching.
NeedsBox(g) ==
  CASE g.type = "Point" -> FALSE
    [] g.type = "Line" -> CountVertices(g) > 2
    [] g.type = "MultiPoint" -> Len(g.geoms) # 1
    [] g.type = "MultiLine" -> Len(g.geoms) # 1 \/ CountVertices(g) > 2
    [] OTHER -> TRUE

\* The new box stays at zero when the geometry has no extent.
ZeroBox(z, m) ==
  LET zeros == [i \in 1..NDims(z, m) |-> 0]
  IN  [z |-> z, m |-> m, lo |-> zeros, hi |-> zeros]
OrZero(box, g) == IF IsBox(box) THEN box ELSE ZeroBox(g.z, g.m)
NewBox(g) == OrZero(CalculateBox(g), g)

AddBox(g) ==
  IF IsEmpty(g) \/ IsBox(g.box) THEN g ELSE [g EXCEPT !.flag = TRUE, !.box = NewBox(g)]

DropBox(g) == [g EXCEPT !.flag = FALSE, !.box = NoBox]

\* rtgeom_clone; an empty collection loses its box but not its flag.
RECURSIVE Clone(_)
Clone(g) ==
  IF ~ IsCollection(g) THEN g
  ELSE [g EXCEPT !.geoms = [i \in DOMAIN @ |-> Clone(@[i])],
                 !.box = IF g.geoms = <<>> THEN NoBox ELSE @]

RECURSIVE SetSrid(_, _)
SetSrid(g, srid) ==
  [g EXCEPT !.srid = srid, !.geoms = [i \in DOMAIN @ |-> SetSrid(@[i], srid)]]

\* clamp_srid, numbers above the maximum left out.
ClampSrid(srid) == IF srid <= 0 THEN SridUnknown ELSE srid

\* Two geometries without their cached boxes.
RECURSIVE Bare(_)
Bare(g) == [DropBox(g) EXCEPT !.geoms = [i \in DOMAIN @ |-> Bare(@[i])]]
=============================================================================
