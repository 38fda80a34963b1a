----------------------------- MODULE MeasuredLines ---------------------------
(***************************************************************************)
(* Lines whose points carry a measure (rtlinearreferencing.c): the parts   *)
(* of a line between two measures, the points at one, and the moment at    *)
(* which two moving points are closest, the measure being the time.  They  *)
(* are asked of two lines that grow point by point.                        *)
(*                                                                         *)
(* A point is <<x, y, measure>>.  Interpolation is exact: the courses and  *)
(* measures are chosen so that no point falls between integers.            *)
(***************************************************************************)
EXTENDS Integers, Sequences, SequencesExt

LOCAL INSTANCE Distances WITH FloatStep <- 1

CONSTANTS
  Courses,    \* for each line the x of its points
  Offsets,    \* the y a point may have
  Measures

ASSUME InterpolationIsExact ==
  /\ Len(Courses) = 2 /\ Measures \subseteq Nat /\ Offsets \subseteq Int
  /\ \A k \in 1..2 : \A i \in 2..Len(Courses[k]) :
       \A a, b \in Measures : a < b => (Courses[k][i] - Courses[k][i - 1]) % (b - a) = 0
  /\ \A a, b \in Measures, y, z \in Offsets : a < b => (y - z) % (b - a) = 0

VARIABLE tracks   \* the two lines

TracksInit == tracks = << <<>>, <<>> >>

\* rtline_is_trajectory; rtgeom_tcpa asks for two points as well.
IsTrajectory(ps) == \A i \in 2..Len(ps) : ps[i - 1][3] < ps[i][3]
Moves(ps) == IsTrajectory(ps) /\ Len(ps) >= 2

\* A point is added to a line (ptarray_append_point): to the first, and when that
\* is the way of a moving point to the second, whose measures are times as well.
AddToTrack ==
  \E k \in 1..2, y \in Offsets, m \in Measures :
    /\ Len(tracks[k]) < Len(Courses[k])
    /\ k = 1 => tracks[2] = <<>>
    /\ k = 2 => Moves(tracks[1]) /\ (tracks[2] # <<>> => Last(tracks[2])[3] < m)
    /\ tracks' = [tracks EXCEPT ![k] = Append(@, <<Courses[k][Len(@) + 1], y, m>>)]

TracksOK ==
  \A k \in 1..2 : /\ tracks[k] \in Seq(Int \X Offsets \X Measures)
                  /\ \A i \in DOMAIN tracks[k] : tracks[k][i][1] = Courses[k][i]

-----------------------------------------------------------------------------
(* Clipping (rtline_clip_to_ordinate_range)                                *)

\* point_interpolate
Interpolated(p, q, m) ==
  [j \in DOMAIN p |-> p[j] + ((m - p[3]) * (q[j] - p[j])) \div (q[3] - p[3])]

\* The range is entered or left through one of its ends.
Through(p, q, outside, from, to) == Interpolated(p, q, IF outside[3] > to THEN to ELSE from)

\* What the loop remembers: the part being made, how its last point came in
\* (added_last_point: not at all, inside, on the boundary), the point before, and
\* the parts that are finished.
Start == [dp |-> <<>>, added |-> "no", before |-> <<>>, parts |-> <<>>]

\* A part begins where the line comes in, unless it does so at the very point.
ComesFromBeyond(q, p, from, to) ==
  \/ from < p[3] /\ p[3] < to
  \/ p[3] = from /\ q[3] > to
  \/ p[3] = to /\ q[3] < from
Entry(c, p, from, to) ==
  IF c.before # <<>> /\ ComesFromBeyond(c.before, p, from, to)
  THEN <<Through(c.before, p, c.before, from, to)>> ELSE <<>>
InRange(c, p, from, to) ==
  [c EXCEPT !.dp = AppendPoint(IF c.added = "no" THEN Entry(c, p, from, to) ELSE @, p, FALSE),
            !.added = IF p[3] \in {from, to} THEN "boundary" ELSE "inside",
            !.before = p]

\* It ends where the line goes out; from one end of the range the line may still
\* cross all of it, and so it may between two points outside.
CrossesAll(q, p, from, to) ==
  /\ from # to
  /\ \/ q[3] = from /\ p[3] > from
     \/ q[3] = to /\ p[3] < to
Ended_mutant(c, p, from, to) ==
  CASE c.added = "inside" ->
         AppendPoint(c.dp, Through(c.before, p, p, from, to), FALSE)
    [] c.added = "no" /\ c.before # <<>> /\ c.before[3] < from /\ p[3] > to ->
         <<Interpolated(p, c.before, from), Interpolated(p, c.before, to)>>
    [] c.added = "no" /\ c.before # <<>> /\ c.before[3] > to /\ p[3] < from ->
         <<Interpolated(p, c.before, to), Interpolated(p, c.before, from)>>
    [] OTHER -> c.dp
Ended(c, p, from, to) ==
  CASE c.added = "inside" \/ (c.added = "boundary" /\ CrossesAll(c.before, p, from, to)) ->
         AppendPoint(c.dp, Through(c.before, p, p, from, to), FALSE)
    [] c.added = "no" /\ c.before # <<>> /\ c.before[3] < from /\ p[3] > to ->
         <<Interpolated(p, c.before, from), Interpolated(p, c.before, to)>>
    [] c.added = "no" /\ c.before # <<>> /\ c.before[3] > to /\ p[3] < from ->
         <<Interpolated(p, c.before, to), Interpolated(p, c.before, from)>>
    [] OTHER -> c.dp
Finished(parts, dp) == IF dp = <<>> THEN parts ELSE Append(parts, dp)
OutOfRange(c, p, from, to) ==
  [c EXCEPT !.parts = Finished(@, Ended(c, p, from, to)), !.dp = <<>>, !.added = "no", !.before = p]

ToTheEnd(c) == Finished(c.parts, c.dp)
ClipPoints(ps, from, to) ==
  ToTheEnd(FoldLeft(LAMBDA c, p : IF from <= p[3] /\ p[3] <= to THEN InRange(c, p, from, to)
                                  ELSE OutOfRange(c, p, from, to), Start, ps))

\* A part of one point makes the whole a collection.
PartOf(dp) == NewGeom(IF Len(dp) = 1 THEN "Point" ELSE "Line", 0, FALSE, TRUE, NoBox, <<dp>>, <<>>)
CollectionOf(parts) ==
  NewGeom(IF \E i \in DOMAIN parts : Len(parts[i]) = 1 THEN "Collection" ELSE "MultiLine",
          0, FALSE, TRUE, NoBox, <<>>, [i \in DOMAIN parts |-> PartOf(parts[i])])
ClipLine(ps, from, to) == CollectionOf(ClipPoints(ps, Lower(from, to), Upper(from, to)))

\* rtmline_clip_to_ordinate_range returns nothing when nothing is left.
Nothing(g) == g.geoms = <<>>
Together(each) ==
  NewGeom(IF \A k \in DOMAIN each : each[k].type = "MultiLine" THEN "MultiLine" ELSE "Collection",
          0, FALSE, TRUE, NoBox, <<>>, FlattenSeq([k \in DOMAIN each |-> each[k].geoms]))
UnlessNothing(g) == IF Nothing(g) THEN <<>> ELSE <<g>>
ClipMultiLine(lines, from, to) ==
  UnlessNothing(Together([k \in DOMAIN lines |-> ClipLine(lines[k], from, to)]))

\* rtmpoint_clip_to_ordinate_range, rtpoint_clip_to_ordinate_range
PointParts(ps) == NewGeom("MultiPoint", 0, FALSE, TRUE, NoBox, <<>>, [i \in DOMAIN ps |-> PartOf(<<ps[i]>>)])
ClipMultiPoint(ps, from, to) ==
  PointParts(SelectSeq(ps, LAMBDA p : Lower(from, to) <= p[3] /\ p[3] <= Upper(from, to)))

ClipPoint(p, from, to) == ClipMultiPoint(<<p>>, from, to)

\* rtgeom_clip_to_ordinate_range without an offset; empty for an error
Members(g) == IF HasParts(g) THEN [k \in DOMAIN g.geoms |-> g.geoms[k].arrays[1]] ELSE g.arrays
ClipGeom(g, from, to) ==
  CASE g.type = "Line" -> <<ClipLine(g.arrays[1], from, to)>>
    [] g.type = "MultiLine" -> ClipMultiLine(Members(g), from, to)
    [] g.type = "MultiPoint" -> <<ClipMultiPoint(FlattenSeq(Members(g)), from, to)>>
    [] g.type = "Point" -> <<ClipPoint(g.arrays[1][1], from, to)>>

-----------------------------------------------------------------------------
(* rtgeom_locate_along of a line *)

\* segment_locate_along: a segment along which the measure does not change is an
\* error, unless it has no length.
InSegment(p, q, m) == Lower(p[3], q[3]) <= m /\ m <= Upper(p[3], q[3])
IsZeroMeasure(p, q, m) == InSegment(p, q, m) /\ p[3] = q[3] /\ p # q
SegmentAlong(p, q, m) == IF p = q THEN p ELSE Interpolated(p, q, m)

AlongLine(ps, m) ==
  FoldLeft(LAMBDA dpa, i : IF InSegment(ps[i], ps[i + 1], m)
                           THEN AppendPoint(dpa, SegmentAlong(ps[i], ps[i + 1], m), FALSE) ELSE dpa,
           <<>>, [i \in 1..(Len(ps) - 1) |-> i])
LocateError(g, m) ==
  /\ g.type \in {"Line", "MultiLine"}
  /\ \E k \in DOMAIN Members(g) : \E i \in 1..(Len(Members(g)[k]) - 1) :
       IsZeroMeasure(Members(g)[k][i], Members(g)[k][i + 1], m)
LocateAlong(g, m) ==
  FlattenSeq([k \in DOMAIN Members(g) |->
                IF g.type \in {"Line", "MultiLine"} THEN AlongLine(Members(g)[k], m)
                ELSE SelectSeq(Members(g)[k], LAMBDA p : p[3] = m)])

-----------------------------------------------------------------------------
(* Lines by their length (ptarray_substring, ptarray_locate_point).  The   *)
(* segments of these go along an axis, so that lengths are exact.          *)

Away(x, y) == Upper(x - y, y - x)
LengthOf(p, q) == Away(p[1], q[1]) + Away(p[2], q[2])
LengthUpTo(ps, i) == FoldLeft(LAMBDA l, k : l + LengthOf(ps[k], ps[k + 1]), 0, [k \in 1..(i - 1) |-> k])
Length2D(ps) == LengthUpTo(ps, Len(ps))

\* rtline_measured_from_rtline
MeasureAt(ps, i, start, end, length) ==
  CASE length > 0 -> start + ((end - start) * LengthUpTo(ps, i)) \div length
    [] length = 0 /\ Len(ps) > 1 -> start + ((end - start) * (i - 1)) \div (Len(ps) - 1)
    [] OTHER -> 0
MeasuredFrom(ps, start, end) ==
  [i \in DOMAIN ps |-> <<ps[i][1], ps[i][2], MeasureAt(ps, i, start, end, Length2D(ps))>>]

\* interpolate_point4d
Partway(p, q, part, whole) == [j \in DOMAIN p |-> p[j] + ((q[j] - p[j]) * part) \div whole]

\* The loop of ptarray_substring: before the part, in it, past it.
Near(x, y, tol) == Away(x, y) <= tol
EntersAt(c, p, q, after, from, tol) ==
  IF Near(from, c.so_far, tol) THEN p ELSE Partway(p, q, from - c.so_far, after - c.so_far)
Added(c, p) == [c EXCEPT !.dpa = AppendPoint(@, p, FALSE), !.state = "inside"]
Leaves(c, p, q, after, to, tol) ==
  CASE Near(to, after, tol) -> [Added(c, q) EXCEPT !.state = "past"]
    [] ~ Near(to, after, tol) /\ Near(to, c.so_far, tol) -> [Added(c, p) EXCEPT !.state = "past"]
    [] ~ Near(to, after, tol) /\ ~ Near(to, c.so_far, tol) /\ to > after -> Added(c, q)
    [] OTHER -> [Added(c, Partway(p, q, to - c.so_far, after - c.so_far)) EXCEPT !.state = "past"]
AlongSegment(c, p, q, after, from, to, tol) ==
  CASE c.state = "past" -> c
    [] c.state = "before" /\ Near(from, after, tol) -> Added(c, q)
    [] c.state = "before" /\ ~ Near(from, after, tol) /\ ~ Near(from, c.so_far, tol) /\ from > after -> c
    [] OTHER ->
         Leaves(IF c.state = "inside" THEN c ELSE Added(c, EntersAt(c, p, q, after, from, tol)),
                p, q, after, to, tol)
NextSegment(c, p, q, after, from, to, tol) ==
  [AlongSegment(c, p, q, after, from, to, tol) EXCEPT !.so_far = after]
SubstringOf(ps, from, to, tol) ==
  FoldLeft(LAMBDA c, i : NextSegment(c, ps[i], ps[i + 1], c.so_far + LengthOf(ps[i], ps[i + 1]), from, to, tol),
           [dpa |-> <<>>, state |-> "before", so_far |-> 0], [i \in 1..(Len(ps) - 1) |-> i]).dpa
PartOfLength(length, f) == (length * f.num) \div f.den
Substring(ps, from, to, tol) ==
  SubstringOf(ps, PartOfLength(Length2D(ps), from), PartOfLength(Length2D(ps), to), tol)

\* closest_point_on_segment
Shadow(p, a, b) == (p[1] - a[1]) * (b[1] - a[1]) + (p[2] - a[2]) * (b[2] - a[2])
ClosestOnSegment(p, a, b) ==
  CASE DistSq(a, b) = 0 \/ Shadow(p, a, b) < 0 -> a
    [] Shadow(p, a, b) > DistSq(a, b) /\ DistSq(a, b) # 0 -> b
    [] OTHER -> Partway(a, b, Shadow(p, a, b), DistSq(a, b))

\* ptarray_locate_point: the first of the nearest segments, the place on it, and
\* where along the line that is.
SegmentDistance(p, a, b) == Fraction(SegDistSq(p, a, b), Upper(DistSq(a, b), 1))
NearestSegment(ps, p) ==
  FoldLeft(LAMBDA seg, t : IF Less(SegmentDistance(p, ps[t], ps[t + 1]), SegmentDistance(p, ps[seg], ps[seg + 1]))
                           THEN t ELSE seg, 1, [t \in 1..(Len(ps) - 1) |-> t])
PlaceOf(ps, seg, proj, length) ==
  CASE seg >= Len(ps) - 1 /\ LengthOf(proj, Last(ps)) = 0 -> Fraction(1, 1)
    [] ~ (seg >= Len(ps) - 1 /\ LengthOf(proj, Last(ps)) = 0) /\ length = 0 -> Fraction(0, 1)
    [] OTHER -> Fraction(LengthUpTo(ps, seg) + LengthOf(ps[seg], proj), length)
Located(ps, seg, proj) == [at |-> PlaceOf(ps, seg, proj, Length2D(ps)), proj |-> proj]
OnNearest(ps, p, seg) == Located(ps, seg, ClosestOnSegment(p, ps[seg], ps[seg + 1]))
LocatePoint(ps, p) ==
  IF Len(ps) = 1 THEN [at |-> Fraction(0, 1), proj |-> ps[1]] ELSE OnNearest(ps, p, NearestSegment(ps, p))
\* rtgeom_interpolate_point
InterpolatePoint(ps, p) == LocatePoint(ps, p).proj[3]

-----------------------------------------------------------------------------
(* Closest point of approach (rtgeom_tcpa, rtgeom_cpa_within)              *)

\* ptarray_locate_along_linear: a segment with the measure, not before a given one.
FirstSegment(ps, m, i) == Min({k \in i..(Len(ps) - 1) : InSegment(ps[k], ps[k + 1], m)})
PointOn(ps, m, k) == SegmentAlong(ps[k], ps[k + 1], m)
PointAtTime(ps, m, i) == PointOn(ps, m, FirstSegment(ps, m, i))

\* The times at which either has a point while both are under way.
CommonRange(box1, box2) == <<Upper(box1.lo[3], box2.lo[3]), Lower(box1.hi[3], box2.hi[3])>>
TimeRange(l1, l2) == CommonRange(PointsBox(FALSE, TRUE, l1), PointsBox(FALSE, TRUE, l2))
TimesIn(l1, l2, range) ==
  SetToSortSeq({m \in {p[3] : p \in ToSet(l1) \cup ToSet(l2)} : range[1] <= m /\ m <= range[2]}, <)
Mvals(l1, l2) == TimesIn(l1, l2, TimeRange(l1, l2))

\* Both points at both ends of a stretch of time, found from the segments at its start.
Stretch(l1, l2, t0, t1) ==
  [p0 |-> PointAtTime(l1, t0, 1), p1 |-> PointAtTime(l1, t1, FirstSegment(l1, t0, 1)),
   q0 |-> PointAtTime(l2, t0, 1), q1 |-> PointAtTime(l2, t1, FirstSegment(l2, t0, 1))]

\* segments_tcpa: the fraction of the stretch until they are closest, cut off at
\* its ends; and how far they are apart then.
Product(u, v) == u[1] * v[1] + u[2] * v[2]
Less2D(p, q) == <<p[1] - q[1], p[2] - q[2]>>
Cut_mutant(n, den) == n
Cut(n, den) == Lower(Upper(n, 0), den)
ClosestIn(t0, t1, w2, along, dv2, n) ==
  IF dv2 = 0 THEN [time |-> Fraction(t0, 1), dist2 |-> Fraction(w2, 1)]
  ELSE [time |-> Fraction(t0 * dv2 + (t1 - t0) * n, dv2), dist2 |-> Fraction(w2 * dv2 + 2 * along * n + n * n, dv2)]
CutIn(t0, t1, w2, along, dv2) == ClosestIn(t0, t1, w2, along, dv2, Cut(- along, dv2))
BetweenMotions(t0, t1, w0, dv) == CutIn(t0, t1, Product(w0, w0), Product(w0, dv), Product(dv, dv))
SegmentsTcpa(s, t0, t1) ==
  BetweenMotions(t0, t1, Less2D(s.p0, s.q0), Less2D(Less2D(s.p1, s.p0), Less2D(s.q1, s.q0)))

Approaches(l1, l2, mvals) ==
  [i \in 1..(Len(mvals) - 1) |->
     SegmentsTcpa(Stretch(l1, l2, mvals[i], mvals[i + 1]), mvals[i], mvals[i + 1])]

Never == [time |-> Fraction(-2, 1), dist2 |-> Endless]
AtOnce(l1, l2, t) ==
  [time |-> Fraction(t, 1), dist2 |-> Fraction(DistSq(PointAtTime(l1, t, 1), PointAtTime(l2, t, 1)), 1)]
CloserOf(best, a) == IF Less(a.dist2, best.dist2) THEN a ELSE best

TcpaAt(l1, l2, range, mvals) ==
  CASE range[2] < range[1] -> Never
    [] range[1] <= range[2] /\ Len(mvals) < 2 -> AtOnce(l1, l2, mvals[1])
    [] OTHER -> FoldLeft(CloserOf, [time |-> Fraction(range[1], 1), dist2 |-> Endless],
                         Approaches(l1, l2, mvals))
Tcpa(l1, l2) == TcpaAt(l1, l2, TimeRange(l1, l2), Mvals(l1, l2))

NotFarther(d2, maxdist) == ~ Less(Fraction(maxdist * maxdist, 1), d2)
CpaWithinAt(l1, l2, maxdist, range, mvals) ==
  /\ range[1] <= range[2]
  /\ IF Len(mvals) < 2 THEN NotFarther(AtOnce(l1, l2, mvals[1]).dist2, maxdist)
     ELSE \E a \in ToSet(Approaches(l1, l2, mvals)) : NotFarther(a.dist2, maxdist)
CpaWithin(l1, l2, maxdist) == CpaWithinAt(l1, l2, maxdist, TimeRange(l1, l2), Mvals(l1, l2))

-----------------------------------------------------------------------------
(* Properties *)

\* Twelfths of a line: the measure between two of its points, where its point
\* number x/12 along the course is.
Scale12(ps) == 0..(12 * (Len(ps) - 1))
At12(ps, u, j) ==
  LET i == (u \div 12) + 1
  IN  IF i = Len(ps) THEN 12 * ps[i][j] ELSE 12 * ps[i][j] + (u % 12) * (ps[i + 1][j] - ps[i][j])

\* Courses go one way, so a part covers what is between its ends.
CoversAt(dp, x) == Between(12 * dp[1][1], x, 12 * Last(dp)[1])
IsOnTrack(ps, p) == \E u \in Scale12(ps) : \A j \in 1..3 : At12(ps, u, j) = 12 * p[j]

\* A clip is where the measure of the line is between the two and nowhere else,
\* vertices included, of parts of the types it allows.
PartAt(g, i) == g.geoms[i].arrays[1]
IsClip(g, ps, from, to) ==
  /\ \A i \in DOMAIN g.geoms : /\ AllowsSubtype(g.type, g.geoms[i].type)
                               /\ \A p \in ToSet(PartAt(g, i)) : IsOnTrack(ps, p)
  /\ \A u \in Scale12(ps) :
       Between(12 * from, At12(ps, u, 3), 12 * to)
         <=> \E i \in DOMAIN g.geoms : CoversAt(PartAt(g, i), At12(ps, u, 1))
  /\ \A i \in DOMAIN ps :
       Between(from, ps[i][3], to) => \E k \in DOMAIN g.geoms : ps[i] \in ToSet(PartAt(g, k))

\* Parts are apart and in order, and have no point twice in a row unless the
\* line only passes a single measure.
PartsApart(g, from, to) ==
  \A i \in DOMAIN g.geoms :
    /\ from # to => \A k \in 2..Len(PartAt(g, i)) : PartAt(g, i)[k] # PartAt(g, i)[k - 1]
    /\ i > 1 => ~ CoversAt(PartAt(g, i - 1), 12 * PartAt(g, i)[1][1])

\* The same line in two, its first segment and the rest; and only its points.
InTwo(ps) == NewGeom("MultiLine", 0, FALSE, TRUE, NoBox, <<>>, <<PartOf(SubSeq(ps, 1, 2)), PartOf(Tail(ps))>>)

ClipsAgree(ps, from, to, line, two) ==
  /\ IsClip(line, ps, from, to) /\ PartsApart(line, from, to)
  /\ (two = <<>>) <=> Nothing(line)
  /\ two # <<>> => IsClip(two[1], ps, from, to)
ClipsTrack(ps, from, to) ==
  /\ ClipGeom(PartOf(ps), from, to) = ClipGeom(PartOf(ps), to, from)
  /\ \A line \in {ClipGeom(PartOf(ps), from, to)[1]}, two \in {ClipGeom(InTwo(ps), from, to)} :
       ClipsAgree(ps, from, to, line, two)
  /\ FlattenSeq(Members(ClipGeom(PointParts(ps), from, to)[1]))
       = SelectSeq(ps, LAMBDA p : Between(from, p[3], to))
  /\ \A p \in ToSet(ps) : Nothing(ClipGeom(PartOf(<<p>>), from, to)[1]) <=> ~ Between(from, p[3], to)

\* What is located at a measure is what is left between it and itself.
FirstPoints(parts) == [i \in DOMAIN parts |-> parts[i][1]]
LocatesAgree(ps, m, along) ==
  /\ along = FirstPoints(ClipPoints(ps, m, m))
  /\ ToSet(along) = ToSet(LocateAlong(InTwo(ps), m))
  /\ ToSet(LocateAlong(PointParts(ps), m)) = ToSet(ps) \cap ToSet(along)
LocatesTrack(ps, m) ==
  /\ LocateError(PartOf(ps), m) <=> LocateError(InTwo(ps), m)
  /\ ~ LocateError(PartOf(ps), m) => \A along \in {LocateAlong(PartOf(ps), m)} : LocatesAgree(ps, m, along)

\* A line along the axes, with the measures of a track for coordinates, that turns
\* back, closes and stands still; measured by its length or from its end.
Winding(ps) ==
  [i \in DOMAIN ps |-> LET k == Upper(i - 1, 1)
                       IN  <<4 * ps[IF i % 2 = 1 THEN i ELSE k][3], 4 * ps[IF i % 2 = 1 THEN k ELSE i][3]>>]
Quarter(n) == Fraction(n, 4)

\* The part between two fractions of the length is what clipping leaves of the
\* measured line, and a tolerance moves its ends by no more than that.
SubstringIsClip(line, m, n, from, to) == <<Substring(line, Quarter(m), Quarter(n), 0)>> = ClipPoints(line, from, to)
PartMeasures(part, length, slack) == Away(Length2D(part), length) <= slack
SubstringsAreClips(on, back, length) ==
  \A m, n \in 0..4 :
    /\ m < n => /\ SubstringIsClip(on, m, n, (length * m) \div 4, (length * n) \div 4)
                /\ SubstringIsClip(back, m, n, (length * (4 - n)) \div 4, (length * (4 - m)) \div 4)
    /\ m <= n => PartMeasures(Substring(on, Quarter(m), Quarter(n), 2), (length * (n - m)) \div 4, 4)

\* A point is located where the line comes nearest to it: the part up to there
\* ends at the place, whose measure, of a measured line, is that length.
IsLocated(on, length, p, found) ==
  /\ InterpolatePoint(on, p) * found.at.den = length * found.at.num
  /\ Last(Substring(on, Fraction(0, 1), found.at, 0)) = found.proj
  /\ \A i \in 1..(Len(on) - 1) : \A u \in on[i][3]..on[i + 1][3] :
       on[i] # on[i + 1] => DistSq(p, found.proj) <= DistSq(p, Interpolated(on[i], on[i + 1], u))
PointsAreLocated(on, length) ==
  \A p \in {<<x, 3 * m>> : x \in Offsets, m \in Measures} :
    \A found \in {LocatePoint(on, p)} : IsLocated(on, length, p, found)

LengthsAgree(w, length) ==
  \A on \in {MeasuredFrom(w, 0, length)}, back \in {MeasuredFrom(w, length, 0)} :
    SubstringsAreClips(on, back, length) /\ PointsAreLocated(on, length)

\* The parts of a line between two measures, whichever is given first and
\* whether the line is in one piece, in two or only its points; the places at a
\* measure; and parts and places by length, agree with one another and with
\* where the measure, going evenly along each segment, is what was asked for
\* (rtgeom_clip_to_ordinate_range, rtgeom_locate_along, ptarray_substring,
\* ptarray_locate_point).
ClipsAreExact ==
  Len(tracks[1]) >= 2 /\ tracks[2] = <<>> =>
    /\ \A from, to \in Measures : from <= to => ClipsTrack(tracks[1], from, to)
    /\ \A m \in Measures : LocatesTrack(tracks[1], m)
    /\ (\A i \in DOMAIN tracks[1] : tracks[1][i][2] = tracks[1][1][2]) =>
         \A w \in {Winding(tracks[1])} : LengthsAgree(w, Length2D(w))

\* Where a line is at a time, a fraction: its point times the denominator.
UnderWay(ps, t) ==
  CHOOSE k \in 1..(Len(ps) - 1) : ps[k][3] * t.den <= t.num /\ t.num <= ps[k + 1][3] * t.den
PlaceFrom(p, q, t) ==
  [j \in 1..2 |-> p[j] * t.den + ((q[j] - p[j]) \div (q[3] - p[3])) * (t.num - p[3] * t.den)]
PlaceOn(ps, t, i) == PlaceFrom(ps[i], ps[i + 1], t)
PlaceAt(ps, t) == PlaceOn(ps, t, UnderWay(ps, t))
Gap2(l1, l2, t) == Fraction(DistSq(PlaceAt(l1, t), PlaceAt(l2, t)), t.den * t.den)

\* At the time of closest approach two points that move are both under way and as
\* far apart as the distance found, at no time of their common way are they closer, and before
\* they are farther; and the question whether they come within a distance is
\* answered alike.
IsApproach(l1, l2, found, times) ==
  /\ (found = Never) <=> times = {}
  /\ times # {} =>
       /\ \E t \in times : ~ Less(found.time, t)
       /\ \E t \in times : ~ Less(t, found.time)
       /\ \A gap \in {Gap2(l1, l2, found.time)} : ~ Less(gap, found.dist2) /\ ~ Less(found.dist2, gap)
  /\ \A t \in times : \A gap \in {Gap2(l1, l2, t)} :
       ~ Less(gap, found.dist2) /\ (Less(t, found.time) => Less(found.dist2, gap))
  /\ \A d \in {0, 3, 6, 9} : CpaWithin(l1, l2, d) <=> times # {} /\ NotFarther(found.dist2, d)
SixthsOf(range) == {Fraction(n, 6) : n \in (6 * range[1])..(6 * range[2])}
ApproachIsClosest ==
  Moves(tracks[1]) /\ Moves(tracks[2]) =>
    \A found \in {Tcpa(tracks[1], tracks[2])} :
      IsApproach(tracks[1], tracks[2], found, SixthsOf(TimeRange(tracks[1], tracks[2])))
=============================================================================
