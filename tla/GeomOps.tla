------------------------------- MODULE GeomOps ------------------------------
(***************************************************************************)
(* What the library does to geometries in memory (ptarray.c, rtline.c,     *)
(* rtpoly.c, rtcollection.c, rtgeom.c, rthomogenize.c): operations that    *)
(* change a geometry in place and operations that return a new one.  Where *)
(* the code may return nothing the result is a sequence of one geometry or *)
(* of none.  Distances are cut off to whole numbers.                       *)
(***************************************************************************)
EXTENDS Geometry

-----------------------------------------------------------------------------
(* Points and point arrays *)

\* rt_getPoint4d_p: the ordinates that are missing are zero.
Point4D(p, z, m) ==
  <<p[1], p[2], IF z THEN p[3] ELSE 0, IF m THEN p[NDims(z, m)] ELSE 0>>

\* ptarray_set_point4d: only as many ordinates as the array has.
Stored(q, z, m) ==
  <<q[1], q[2]>> \o (IF z THEN <<q[3]>> ELSE <<>>) \o (IF m THEN <<q[4]>> ELSE <<>>)

Same2D(p, q) == p[1] = q[1] /\ p[2] = q[2]

\* ptarray_append_point; a point that repeats the last one can be left out.
AppendPoint(ps, p, repeated) ==
  IF ~ repeated /\ ps # <<>> /\ Last(ps) = p THEN ps ELSE Append(ps, p)
WithoutRepeats(ps) == FoldSeq(LAMBDA p, qs : AppendPoint(qs, p, FALSE), <<>>, ps)

\* ptarray_append_ptarray with any gap allowed: a shared end is not doubled.
AppendPoints(ps, qs) ==
  IF ps # <<>> /\ qs # <<>> /\ Same2D(Last(ps), Head(qs)) THEN ps \o Tail(qs) ELSE ps \o qs

ReversePoints(ps) == Reverse(ps)

\* ptarray_is_closed_2d, ptarray_is_closed_3d
ClosedIn(ps, dims) == \A j \in 1..dims : ps[1][j] = Last(ps)[j]
ClosedPoints(ps, z) == ClosedIn(ps, IF z THEN 3 ELSE 2)

\* Twice ptarray_signed_area: positive for a clockwise ring.
SignedArea(ps) ==
  IF Len(ps) < 3 THEN 0
  ELSE SumOf([i \in 1..(Len(ps) - 2) |->
                (ps[i + 1][1] - ps[1][1]) * (ps[i][2] - ps[i + 2][2])])
IsCcw(ps) == SignedArea(ps) <= 0

\* ptarray_contains_point_partial: where a point is, and the winding number.
Between(a, x, b) == Lower(a, b) <= x /\ x <= Upper(a, b)
RingContains(ps, p) ==
  LET segments == {i \in 1..(Len(ps) - 1) : /\ ~ Same2D(ps[i], ps[i + 1])
                                            /\ Between(ps[i][2], p[2], ps[i + 1][2])}
      On(i) == SegmentSide(ps[i], ps[i + 1], p) = 0 /\ Between(ps[i][1], p[1], ps[i + 1][1])
      \* the side is negative on the left of the segment
      Turns(i) == CASE SegmentSide(ps[i], ps[i + 1], p) > 0 /\ ps[i][2] <= p[2] /\ p[2] < ps[i + 1][2] -> 1
                    [] SegmentSide(ps[i], ps[i + 1], p) < 0 /\ ps[i + 1][2] <= p[2] /\ p[2] < ps[i][2] -> -1
                    [] OTHER -> 0
      wn == SumOf([i \in 1..(Len(ps) - 1) |-> IF i \in segments THEN Turns(i) ELSE 0])
  IN  CASE \E i \in segments : On(i) -> [at |-> "boundary", winding |-> 0]
        [] wn = 0 -> [at |-> "outside", winding |-> wn]
        [] OTHER -> [at |-> "inside", winding |-> wn]

\* rtpoly_contains_point
PolyContains(g, p) ==
  /\ ~ IsEmpty(g)
  /\ RingContains(g.arrays[1], p).at # "outside"
  /\ \A i \in 2..Len(g.arrays) : RingContains(g.arrays[i], p).at # "inside"

\* distance2d_pt_pt, cut off to a whole number
Distance(a, b) ==
  CHOOSE d \in 0..Upper(DistSq(a, b), 1) : d * d <= DistSq(a, b) /\ DistSq(a, b) < (d + 1) * (d + 1)
Along(a, b, length, dist) == [j \in DOMAIN a |-> a[j] + ((b[j] - a[j]) * dist) \div length]

\* ptarray_segmentize2d: what is appended from point p1 on to point i of ps.
RECURSIVE SegmentizedFrom(_, _, _, _, _)
SegmentizedFrom(out, ps, p1, i, dist) ==
  IF i > Len(ps) THEN out
  ELSE LET length == Distance(p1, ps[i])
           mid == Along(p1, ps[i], length, dist)
       IN  IF length > dist THEN SegmentizedFrom(AppendPoint(out, mid, FALSE), ps, mid, i, dist)
           ELSE SegmentizedFrom(AppendPoint(out, ps[i], Len(ps) = 2), ps, ps[i], i + 1, dist)
SegmentizedPoints(ps, dist) == SegmentizedFrom(<<ps[1]>>, ps, ps[1], 2, dist)

\* ptarray_remove_repeated_points_minpoints: with a tolerance, points near
\* the last one that was kept go, else those that repeat the one before.
RECURSIVE KeptFrom(_, _, _, _, _, _)
KeptFrom(out, kept, ps, i, tol, min) ==
  IF i > Len(ps) THEN out
  ELSE IF \/ i - 1 >= Len(ps) - min + 1 /\ Len(out) < min
          \/ tol = 0 /\ ps[i - 1] # ps[i]
          \/ tol > 0 /\ DistSq(kept, ps[i]) > tol * tol
       THEN KeptFrom(Append(out, ps[i]), ps[i], ps, i + 1, tol, min)
       ELSE KeptFrom(out, kept, ps, i + 1, tol, min)
UnrepeatedPoints_mutant(ps, tol, min) ==
  IF Len(ps) < 3 THEN ps ELSE KeptFrom(<<ps[1]>>, ps[1], SubSeq(ps, 1, Len(ps) - 1), 2, tol, min)
UnrepeatedPoints(ps, tol, min) ==
  IF Len(ps) < 3 THEN ps ELSE KeptFrom(<<ps[1]>>, ps[1], ps, 2, tol, min)

\* distance2d_sqr_pt_seg, times the squared length of the segment
SegDistSq(p, a, b) ==
  LET l == DistSq(a, b)
      r == (p[1] - a[1]) * (b[1] - a[1]) + (p[2] - a[2]) * (b[2] - a[2])
  IN  IF l = 0 THEN DistSq(p, a)
      ELSE IF r <= 0 THEN l * DistSq(p, a)
      ELSE IF r >= l THEN l * DistSq(p, b)
      ELSE SegmentSide(a, b, p) * SegmentSide(a, b, p)
Farther(p, q, a, b) == SegDistSq(p, a, b) > SegDistSq(q, a, b)
Beyond(p, a, b, dist) == SegDistSq(p, a, b) > dist * dist * Upper(DistSq(a, b), 1)

\* ptarray_dp_findsplit: the first of the farthest points between two.
SplitPoint(ps, p1, p2) ==
  CHOOSE k \in (p1 + 1)..(p2 - 1) : \A i \in (p1 + 1)..(p2 - 1) :
    /\ ~ Farther(ps[i], ps[k], ps[p1], ps[p2])
    /\ i < k => Farther(ps[k], ps[i], ps[p1], ps[p2])

\* ptarray_simplify from point p1 on, with a stack of the points to reach.
RECURSIVE SimplifiedFrom(_, _, _, _, _, _)
SimplifiedFrom(ps, out, p1, stack, dist, min) ==
  IF stack = <<>> THEN out
  ELSE IF /\ p1 + 1 < Last(stack)
          /\ \/ Beyond(ps[SplitPoint(ps, p1, Last(stack))], ps[p1], ps[Last(stack)], dist)
             \/ Len(out) + Len(stack) < min
       THEN SimplifiedFrom(ps, out, p1, Append(stack, SplitPoint(ps, p1, Last(stack))), dist, min)
       ELSE SimplifiedFrom(ps, AppendPoint(out, ps[Last(stack)], FALSE), Last(stack), Front(stack), dist, min)
SimplifiedPoints(ps, dist, min) == SimplifiedFrom(ps, <<ps[1]>>, 1, <<Len(ps)>>, dist, min)

\* ptarray_grid; rint takes the even one of two neighbours.
Rint(n, d) ==
  LET q == n \div d
      r == n % d
  IN  IF 2 * r < d \/ (2 * r = d /\ q % 2 = 0) THEN q ELSE q + 1
GriddedPoints(ps, size) ==
  WithoutRepeats([i \in DOMAIN ps |-> [j \in DOMAIN ps[i] |-> Rint(ps[i][j], size) * size]])

\* ptarray_force_dims
ForcedPoints_mutant(ps, g, z, m) == ps
ForcedPoints(ps, g, z, m) == [i \in DOMAIN ps |-> Stored(Point4D(ps[i], g.z, g.m), z, m)]

-----------------------------------------------------------------------------
(* Changes in place *)

SwapOrdinates(o1, o2) == [how |-> "swap", a |-> <<o1>>, b |-> <<o2>>]
Scale(x, y) == [how |-> "scale", a |-> <<x>>, b |-> <<y>>]
Affine(row1, row2) == [how |-> "affine", a |-> row1, b |-> row2]
LongitudeShift == [how |-> "shift", a |-> <<>>, b |-> <<>>]

Swapped(q, a, b) == [q EXCEPT ![a] = q[b], ![b] = q[a]]
PointChanged(c, p, z, m) ==
  LET q == Point4D(p, z, m)
  IN  CASE c.how = "swap" -> Stored(Swapped(q, c.a[1], c.b[1]), z, m)
        [] c.how = "scale" -> [p EXCEPT ![1] = @ * c.a[1], ![2] = @ * c.b[1]]
        [] c.how = "affine" -> [p EXCEPT ![1] = c.a[1] * p[1] + c.a[2] * p[2] + c.a[3],
                                         ![2] = c.b[1] * p[1] + c.b[2] * p[2] + c.b[3]]
        [] c.how = "shift" -> [p EXCEPT ![1] = IF @ < 0 THEN @ + 360 ELSE IF @ > 180 THEN @ - 360 ELSE @]

\* What happens to the cached box: a swap that concerns x or y refreshes it,
\* scaling multiplies the bounds, and the others leave it as it was.
BoxChanged(c, g) ==
  CASE c.how = "swap" /\ IsBox(g.box) /\ (c.a[1] <= 2 \/ c.b[1] <= 2) -> AddBox(DropBox(g))
    [] c.how = "scale" /\ IsBox(g.box) ->
         [g EXCEPT !.box.lo = PointChanged(c, @, FALSE, FALSE), !.box.hi = PointChanged(c, @, FALSE, FALSE)]
    [] OTHER -> g

\* rtgeom_swap_ordinates, rtgeom_scale, rtgeom_affine, rtgeom_longitude_shift
RECURSIVE Changed(_, _)
Changed(g, c) ==
  IF c.how = "swap" /\ IsEmpty(g) THEN g
  ELSE BoxChanged(c,
         [g EXCEPT !.arrays = [i \in DOMAIN @ |-> [k \in DOMAIN @[i] |-> PointChanged(c, @[i][k], g.z, g.m)]],
                   !.geoms = [i \in DOMAIN @ |-> Changed(@[i], c)]])

\* The changes after which a cached box need not fit.
LeavesStaleBox(c) ==
  \/ c.how \in {"affine", "shift"}
  \/ c.how = "swap" /\ c.a[1] > 2 /\ c.b[1] > 2
  \/ c.how = "scale" /\ (c.a[1] < 0 \/ c.b[1] < 0)

\* rtgeom_reverse
RECURSIVE Reversed(_)
Reversed(g) ==
  CASE g.type \in {"Line", "Polygon", "Triangle"} -> [g EXCEPT !.arrays = [i \in DOMAIN @ |-> ReversePoints(@[i])]]
    [] g.type \in {"MultiLine", "MultiPolygon", "PolyhedralSurface", "Tin", "Collection"} ->
         [g EXCEPT !.geoms = [i \in DOMAIN @ |-> Reversed(@[i])]]
    [] OTHER -> g

\* rtgeom_force_clockwise: shells clockwise, holes the other way.
RingForced(ps, i) == IF (i = 1) = IsCcw(ps) THEN ReversePoints(ps) ELSE ps
RECURSIVE ForcedClockwise(_)
ForcedClockwise(g) ==
  CASE g.type = "Polygon" /\ IsEmpty(g) -> g
    [] g.type \in {"Polygon", "Triangle"} -> [g EXCEPT !.arrays = [i \in DOMAIN @ |-> RingForced(@[i], i)]]
    [] g.type \in {"MultiPolygon", "Collection"} -> [g EXCEPT !.geoms = [i \in DOMAIN @ |-> ForcedClockwise(@[i])]]
    [] OTHER -> g

\* rtgeom_add_bbox_deep: parts get the box of the whole.
RECURSIVE AddBoxDeep(_, _)
AddBoxDeep(g, box) ==
  IF IsEmpty(g) THEN g
  ELSE LET mine == IF IsBox(g.box) THEN g.box ELSE IF IsBox(box) THEN box ELSE NewBox(g)
       IN  [g EXCEPT !.flag = TRUE, !.box = mine, !.geoms = [i \in DOMAIN @ |-> AddBoxDeep(@[i], mine)]]

RefreshedBox(g) == IF IsBox(g.box) THEN AddBox(DropBox(g)) ELSE g

\* rtline_setPoint4d, rtline_add_rtpoint (a point of other dimensions gets
\* those of the line)
SetPoint_mutant(g, i, p) == [g EXCEPT !.arrays[1][i] = Stored(p, g.z, g.m)]
SetPoint(g, i, p) == RefreshedBox([g EXCEPT !.arrays[1][i] = Stored(p, g.z, g.m)])
InsertPoint(g, i, p) == RefreshedBox([g EXCEPT !.arrays[1] = InsertAt(@, i, Stored(p, g.z, g.m))])

\* rtline_removepoint: the new line has a box.
RemovePoint(g, i) ==
  AddBox(NewGeom(g.type, g.srid, g.z, g.m, NoBox, <<RemoveAt(g.arrays[1], i)>>, <<>>))
=============================================================================
