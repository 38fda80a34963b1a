------------------------------ MODULE Distances -----------------------------
(***************************************************************************)
(* Least and greatest distances of two geometries in the plane             *)
(* (measures.c).  All functions pass on one record, DISTPTS: the best      *)
(* distance so far with the two points it was found at, what is looked     *)
(* for, the tolerance that ends the search, and `twisted`, which says      *)
(* whether the geometries have changed places on the way.                  *)
(*                                                                         *)
(* Distances are squared and are fractions; a point of a segment is        *)
(* <<x, y, w>> for (x/w, y/w).  Arcs are not measured.                     *)
(***************************************************************************)
EXTENDS GeomOps

Fraction(num, den) == [num |-> num, den |-> den]

\* Compared by whole part and rest, which keeps the products small.
Less(d, e) ==
  \/ (d.num \div d.den) < (e.num \div e.den)
  \/ /\ (d.num \div d.den) = (e.num \div e.den)
     /\ (d.num % d.den) * e.den < (e.num % e.den) * d.den

\* FLT_MAX and -1, the distances before anything is measured.
Endless == Fraction(1000000000, 1)
Negative == Fraction(-1, 1)

DistPts(mode, tolerance, dist) ==
  [mode |-> mode, tolerance |-> tolerance, dist |-> dist, p1 |-> <<>>, p2 |-> <<>>,
   twisted |-> 1, done |-> FALSE, failed |-> FALSE, reach |-> dist]

\* The answer is already given.
Given(dl) == dl.mode = "min" /\ ~ Less(Fraction(dl.tolerance * dl.tolerance, 1), dl.dist)

\* A loop that is left as soon as the search is done, and the return of the
\* function around it.
Each(dl, Do(_, _), items) ==
  FoldLeft(LAMBDA d, x : IF d.done \/ d.failed THEN d ELSE Do(d, x), dl, items)
Return(dl) == [dl EXCEPT !.done = FALSE]
Checked(dl) == [dl EXCEPT !.done = Given(dl)]
Flipped(dl) == [dl EXCEPT !.twisted = -@]
TwistedTo(dl, twist) == [dl EXCEPT !.twisted = twist]
Failed(dl) == [dl EXCEPT !.failed = TRUE]

Whole(p) == <<p[1], p[2], 1>>
Zero(dl, c) == [dl EXCEPT !.dist = Fraction(0, 1), !.p1 = c, !.p2 = c]

-----------------------------------------------------------------------------
(* Points and segments *)

\* rt_dist2d_pt_pt, the distance being known
Compared(dl, dist, a, b) ==
  IF ~ (IF dl.mode = "min" THEN Less(dist, dl.dist) ELSE Less(dl.dist, dist)) THEN dl
  ELSE [dl EXCEPT !.dist = dist, !.p1 = IF dl.twisted > 0 THEN a ELSE b,
                                 !.p2 = IF dl.twisted > 0 THEN b ELSE a]
PtPt(dl, p, q) == Compared(dl, Fraction(DistSq(p, q), 1), Whole(p), Whole(q))

Projection(p, a, b) == (p[1] - a[1]) * (b[1] - a[1]) + (p[2] - a[2]) * (b[2] - a[2])
\* a + (n / l) (b - a)
PointAt(a, b, n, l) == <<a[1] * l + n * (b[1] - a[1]), a[2] * l + n * (b[2] - a[2]), l>>

\* rt_dist2d_pt_seg, beside the inside of the segment
Beside(dl, p, a, b, n, l) ==
  Compared(IF SegmentSide(a, b, p) = 0 /\ dl.mode = "min" THEN Zero(dl, Whole(p)) ELSE dl,
           Fraction(SegmentSide(a, b, p) * SegmentSide(a, b, p), l), Whole(p), PointAt(a, b, n, l))
PtSegAt(dl, p, a, b, n, l) ==
  CASE l = 0 -> PtPt(dl, p, a)
    [] dl.mode = "max" -> PtPt(dl, p, IF 2 * n >= l THEN a ELSE b)
    [] n < 0 -> PtPt(dl, p, a)
    [] n >= l -> PtPt(dl, p, b)
    [] OTHER -> Beside(dl, p, a, b, n, l)
PtSeg(dl, p, a, b) == PtSegAt(dl, p, a, b, Projection(p, a, b), DistSq(a, b))

\* rt_dist2d_selected_seg_seg: the segments do not cross.
SelectedSegSeg_mutant(dl, a, b, c, d) ==
  CASE Same2D(a, b) -> PtSeg(dl, a, c, d)
    [] Same2D(c, d) -> PtSeg(dl, d, a, b)
    [] OTHER -> PtSeg(PtSeg(PtSeg(PtSeg(dl, a, c, d), b, c, d), c, a, b), d, a, b)
SelectedSegSeg(dl, a, b, c, d) ==
  CASE Same2D(a, b) -> PtSeg(dl, a, c, d)
    [] Same2D(c, d) -> PtSeg(Flipped(dl), d, a, b)
    [] OTHER -> PtSeg(PtSeg(Flipped(PtSeg(PtSeg(dl, a, c, d), b, c, d)), c, a, b), d, a, b)

\* rt_dist2d_seg_seg: where they meet when they do, found from the numerators
\* r and s of the parameters and their denominator.
MeetAt(a, b, c, d, r, bot) ==
  CASE Same2D(a, c) \/ Same2D(a, d) -> Whole(a)
    [] Same2D(b, c) \/ Same2D(b, d) -> Whole(b)
    [] OTHER -> PointAt(a, b, r, bot)
Within(r, bot) == 0 <= r * Sign(bot) /\ r * Sign(bot) <= bot * Sign(bot)
SegSegAt(dl, a, b, c, d, r, s, bot) ==
  IF /\ ~ Same2D(a, b) /\ ~ Same2D(c, d) /\ dl.mode = "min"
     /\ bot # 0 /\ Within(r, bot) /\ Within(s, bot)
  THEN Zero(dl, MeetAt(a, b, c, d, r * Sign(bot), bot * Sign(bot)))
  ELSE SelectedSegSeg(dl, a, b, c, d)
SegSeg(dl, a, b, c, d) ==
  SegSegAt(dl, a, b, c, d,
           (a[2] - c[2]) * (d[1] - c[1]) - (a[1] - c[1]) * (d[2] - c[2]),
           (a[2] - c[2]) * (b[1] - a[1]) - (a[1] - c[1]) * (b[2] - a[2]),
           (b[1] - a[1]) * (d[2] - c[2]) - (b[2] - a[2]) * (d[1] - c[1]))

-----------------------------------------------------------------------------
(* Point arrays *)

UpTo(n) == [k \in 1..n |-> k]

\* rt_dist2d_pt_ptarray
PtArray(dl, p, ps) ==
  Return(Each(PtPt(dl, p, ps[1]),
              LAMBDA acc, t : Checked(PtSeg(TwistedTo(acc, dl.twisted), p, ps[t], ps[t + 1])),
              UpTo(Len(ps) - 1)))

\* rt_dist2d_ptarray_ptarray; it leaves `twisted` as the last segments did.
FarthestPoints(dl, ps, qs) ==
  Each(dl, LAMBDA acc, p : Each(acc, LAMBDA d, q : PtPt(d, p, q), qs), ps)
NearestSegments(dl, ps, qs) ==
  Return(Each(dl,
              LAMBDA acc, t : Each(acc,
                LAMBDA d, u : Checked(SegSeg(TwistedTo(d, dl.twisted), ps[t], ps[t + 1], qs[u], qs[u + 1])),
                UpTo(Len(qs) - 1)),
              UpTo(Len(ps) - 1)))
ArrayArray(dl, ps, qs) ==
  IF dl.mode = "max" THEN FarthestPoints(dl, ps, qs) ELSE NearestSegments(dl, ps, qs)

-----------------------------------------------------------------------------
(* Brute force *)

Outside(ring, p) == RingContains(ring, p).at = "outside"
\* The holes of a polygon that p is not outside of; the first counts.
HolesAround(rings, p) == SelectSeq(Tail(rings), LAMBDA ring : ~ Outside(ring, p))

\* rt_dist2d_point_poly
PointPoly(dl, p, rings) ==
  CASE dl.mode = "max" \/ Outside(rings[1], p) -> PtArray(dl, p, rings[1])
    [] HolesAround(rings, p) # <<>> -> PtArray(dl, p, HolesAround(rings, p)[1])
    [] OTHER -> Zero(dl, Whole(p))

\* rt_dist2d_line_poly: when the line starts inside, the distance to all holes,
\* and then whether it starts in one.
InPolygon(dl, ps, rings) ==
  IF \/ Len(rings) > 1 /\ Given(dl)
     \/ HolesAround(rings, ps[1]) # <<>>
     \/ dl.mode = "max"
  THEN dl
  ELSE Zero(dl, Whole(ps[1]))
LinePoly(dl, ps, rings) ==
  IF Outside(rings[1], ps[1]) THEN ArrayArray(dl, ps, rings[1])
  ELSE InPolygon(Return(Each(dl, LAMBDA acc, ring : Checked(ArrayArray(acc, ps, ring)), Tail(rings))),
                 ps, rings)

\* rt_dist2d_poly_poly
PolyPoly(dl, rs, qs) ==
  CASE \/ dl.mode = "max"
       \/ Outside(qs[1], rs[1][1]) /\ Outside(rs[1], qs[1][1]) -> ArrayArray(dl, rs[1], qs[1])
    [] HolesAround(rs, qs[1][1]) # <<>> -> ArrayArray(dl, HolesAround(rs, qs[1][1])[1], qs[1])
    [] HolesAround(qs, rs[1][1]) # <<>> -> ArrayArray(dl, rs[1], HolesAround(qs, rs[1][1])[1])
    [] ~ Outside(qs[1], rs[1][1]) -> Zero(dl, Whole(rs[1][1]))
    [] OTHER -> Zero(dl, Whole(qs[1][1]))

\* rt_dist2d_distribute_bruteforce; other types are an error.
ByTypes(dl, g, h, kinds, ps, qs) ==
  CASE kinds = <<"Point", "Point">> -> PtPt(TwistedTo(dl, 1), ps[1], qs[1])
    [] kinds = <<"Point", "Line">> -> PtArray(TwistedTo(dl, 1), ps[1], qs)
    [] kinds = <<"Point", "Polygon">> -> PointPoly(TwistedTo(dl, 1), ps[1], h.arrays)
    [] kinds = <<"Line", "Point">> -> PtArray(TwistedTo(dl, -1), qs[1], ps)
    [] kinds = <<"Line", "Line">> -> ArrayArray(TwistedTo(dl, 1), ps, qs)
    [] kinds = <<"Line", "Polygon">> -> LinePoly(TwistedTo(dl, 1), ps, h.arrays)
    [] kinds = <<"Polygon", "Point">> -> PointPoly(TwistedTo(dl, -1), qs[1], g.arrays)
    [] kinds = <<"Polygon", "Line">> -> LinePoly(TwistedTo(dl, -1), qs, g.arrays)
    [] kinds = <<"Polygon", "Polygon">> -> PolyPoly(TwistedTo(dl, 1), g.arrays, h.arrays)
    [] OTHER -> Failed(dl)
BruteForce(dl, g, h) == ByTypes(dl, g, h, <<g.type, h.type>>, g.arrays[1], h.arrays[1])

-----------------------------------------------------------------------------
(* The fast way, for lines and polygons whose boxes do not overlap: points *)
(* are looked at in their order along the line of the boxes' centres, and  *)
(* not at all when that alone keeps them farther than the best found.      *)

\* Twice the way from one centre to the other.
BetweenCentres(b, c) == [j \in {1, 2} |-> (c.lo[j] + c.hi[j]) - (b.lo[j] + b.hi[j])]

\* `themeasure`, times the longer side of that way; it grows with y or x.
Grows(way) == Sign(IF way[1] * way[1] < way[2] * way[2] THEN way[2] ELSE way[1])
Measure(p, way) == Grows(way) * (p[1] * way[1] + p[2] * way[2])
ByMeasure(ps, way) ==
  SortSeq([k \in DOMAIN ps |-> k],
          LAMBDA k, l : \/ Measure(ps[k], way) < Measure(ps[l], way)
                        \/ Measure(ps[k], way) = Measure(ps[l], way) /\ k < l)

\* How far apart two measures keep their points, squared.
Ahead_mutant(distance, way) ==
  IF distance < 0 THEN Negative
  ELSE Fraction(distance * distance, Upper(way[1] * way[1], way[2] * way[2]))
Ahead(distance, way) ==
  IF distance < 0 THEN Negative
  ELSE Fraction(distance * distance, way[1] * way[1] + way[2] * way[2])
Apart(p, q, way) == Ahead(Measure(q, way) - Measure(p, way), way)

\* The vertex before (-1) or after (1): over the end of a ring, but not of a line.
Neighbour(ps, k, step) ==
  IF k + step \in DOMAIN ps THEN k + step
  ELSE LET other == IF step = 1 THEN 1 ELSE Len(ps) IN IF Same2D(ps[k], ps[other]) THEN other ELSE k

\* rt_dist2d_pre_seg_seg; `reach` is the distance maxmeasure was taken from.
\* Vertices i of ps, from the nearest on, before and after their segments, with
\* vertices k of qs.
Reached(dl) == [dl EXCEPT !.reach = dl.dist]
OneSegment(dl, twist, a, b, qs, k, step) ==
  SelectedSegSeg(TwistedTo(dl, twist), a, b, qs[k], qs[Neighbour(qs, k, step)])
BothSegments(dl, twist, a, b, qs, k) ==
  Reached(OneSegment(OneSegment(dl, twist, a, b, qs, k, -1), twist, a, b, qs, k, 1))
OutOfReach(dl, p, nearest, q, way) ==
  \/ Less(dl.reach, Apart(p, nearest, way))
  \/ ~ Less(Apart(p, q, way), dl.reach)
PreSegStep(dl, twist, ps, qs, i, step, k, first, way) ==
  IF OutOfReach(dl, ps[i], qs[first], qs[k], way) THEN dl
  ELSE BothSegments(dl, twist, ps[i], ps[Neighbour(ps, i, step)], qs, k)
PreSegSeg(dl, ps, qs, list1, list2, way) ==
  Each(Reached(PtPt(dl, ps[list1[1]], qs[list2[1]])),
       LAMBDA acc, i : Each(acc,
         LAMBDA d, step : Each(d,
           LAMBDA e, k : PreSegStep(e, dl.twisted, ps, qs, i, step, k, list2[1], way),
           list2),
         <<-1, 1>>),
       Reverse(list1))

\* rt_dist2d_fast_ptarray_ptarray: the array behind comes first.
FastArrays(dl, ps, qs, way) ==
  IF Grows(way) > 0 THEN PreSegSeg(dl, ps, qs, ByMeasure(ps, way), ByMeasure(qs, way), way)
  ELSE PreSegSeg(Flipped(dl), qs, ps, ByMeasure(qs, way), ByMeasure(ps, way), way)

\* rt_dist2d_distribute_fast: of a polygon the outer ring.
Fast(dl, g, h) ==
  FastArrays(TwistedTo(dl, 1), g.arrays[1], h.arrays[1],
             BetweenCentres(AddBox(g).box, AddBox(h).box))

-----------------------------------------------------------------------------
(* Geometries *)

\* rt_dist2d_is_collection: a Tin is none, nor a curve polygon.
HasParts(g) == g.type \in Collections \ {"Tin", "CurvePoly"}
PartsToMeasure(g) == IF HasParts(g) THEN g.geoms ELSE <<g>>

\* rt_dist2d_check_overlap
MaybeFast(dl, g, h) ==
  /\ dl.mode # "max"
  /\ {g.type, h.type} \subseteq {"Line", "Polygon"}
  /\ ~ Overlap2D(AddBox(g).box, AddBox(h).box)
MeasurePair(dl, g, h) ==
  CASE IsEmpty(g) \/ IsEmpty(h) -> [dl EXCEPT !.done = TRUE]
    [] MaybeFast(dl, g, h) -> Fast(dl, g, h)
    [] OTHER -> Checked(BruteForce(dl, g, h))

\* rt_dist2d_recursive: every part with every other, parts of parts one level
\* down.  An empty part ends the search through these two geometries.
PairsToMeasure(g, h) ==
  FlattenSeq([i \in DOMAIN PartsToMeasure(g) |->
    LET a == PartsToMeasure(g)[i]
    IN  IF IsEmpty(a) \/ HasParts(a) THEN << <<a>> >>
        ELSE [j \in DOMAIN PartsToMeasure(h) |-> <<a, PartsToMeasure(h)[j]>>]])
RECURSIVE MeasureAll(_, _, _)
MeasureAll(dl, g, h) ==
  Return(Each(dl,
    LAMBDA acc, pair :
      CASE IsEmpty(pair[1]) -> [acc EXCEPT !.done = TRUE]
        [] Len(pair) = 1 -> MeasureAll(acc, pair[1], h)
        [] HasParts(pair[2]) -> MeasureAll(acc, pair[1], pair[2])
        [] OTHER -> MeasurePair(acc, pair[1], pair[2]),
    PairsToMeasure(g, h)))

\* rtgeom_mindistance2d_tolerance, rtgeom_maxdistance2d_tolerance
MinDistance(g, h, tolerance) == MeasureAll(DistPts("min", tolerance, Endless), g, h)
MaxDistance(g, h) == MeasureAll(DistPts("max", 0, Negative), g, h)

\* rt_dist2d_distanceline: no points where nothing was measured.
LineFound(dl, start) == IF dl.dist = start THEN <<>> ELSE <<dl.p1, dl.p2>>
DistanceLineFrom(g, h, mode, start) == LineFound(MeasureAll(DistPts(mode, 0, start), g, h), start)
DistanceLine(g, h, mode) ==
  DistanceLineFrom(g, h, mode, IF mode = "min" THEN Endless ELSE Negative)
=============================================================================
