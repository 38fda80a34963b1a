------------------------------- MODULE GeomLife ------------------------------
(***************************************************************************)
(* The life of one geometry in the hands of a program: it is changed in    *)
(* place, made into others, taken apart, given and deprived of boxes, and  *)
(* sent through the binary forms.  In every state the invariants ask what  *)
(* the library would return for it.                                        *)
(***************************************************************************)
EXTENDS GeomMake, Wkb, Serialized, Twkb, Distances

CONSTANTS
  Pool,         \* the geometries a life starts with
  Parts,        \* geometries that are added to collections
  MaxSteps,     \* the length of a life
  Changes,      \* changes in place
  NewPoints,    \* points <<x, y, z, m>> that are put into lines
  Tolerance,    \* of simplifying and removing repeated points
  SegmentLength,
  GridSize,
  WkbVariants,  \* sets of flags
  Targets,      \* geometries that distances are measured to
  Reach         \* distances are measured within -Reach..Reach, where their
                \* squares fit in an integer of TLC

ASSUME GeomLifeAssumption ==
  /\ MaxSteps \in Nat
  /\ {Tolerance, SegmentLength, GridSize} \subseteq Nat \ {0}
  /\ Reach \in 0..40

VARIABLES
  geom,    \* the geometry
  stale,   \* a cached box may no longer fit: something was done to the
           \* coordinates or parts that leaves the box alone
  steps
vars == <<geom, stale, steps>>

Init == geom \in Pool /\ stale = FALSE /\ steps = 0

HasBox(g) == \E n \in Nodes(g) : IsBox(n.box)

\* The next geometry, and whether its box was left behind.
Becomes(g, leavesBox) ==
  /\ steps < MaxSteps
  /\ steps' = steps + 1
  /\ geom' = g
  /\ stale' = (HasBox(g) /\ (stale \/ leavesBox))
BecomesOneOf(results) == results # <<>> /\ Becomes(results[1], FALSE)

-----------------------------------------------------------------------------
(* Changes in place *)

rtline_setPoint4d ==
  /\ geom.type = "Line"
  /\ \E i \in DOMAIN geom.arrays[1], p \in NewPoints : Becomes(SetPoint(geom, i, p), FALSE)
rtline_add_rtpoint ==
  /\ geom.type = "Line"
  /\ \E i \in 1..(Len(geom.arrays[1]) + 1), p \in NewPoints : Becomes(InsertPoint(geom, i, p), FALSE)
\* Shifting some points of an arc would leave it no whole centre.
rtgeom_change ==
  \E c \in Changes :
    /\ c = LongitudeShift => \A n \in Nodes(geom) : n.type # "CircString"
    /\ Becomes(Changed(geom, c), LeavesStaleBox(c))
rtgeom_reverse == Becomes(Reversed(geom), FALSE)
rtgeom_force_clockwise == Becomes(ForcedClockwise(geom), FALSE)
rtgeom_add_bbox == Becomes(AddBox(geom), FALSE)
rtgeom_add_bbox_deep == Becomes(AddBoxDeep(geom, NoBox), FALSE)
rtgeom_drop_bbox == Becomes(DropBox(geom), FALSE)
rtgeom_set_srid == \E srid \in {-1, 7} : Becomes(SetSrid(geom, ClampSrid(srid)), FALSE)

\* A part of the same dimensions is added; the box of the whole is not looked at.
rtcollection_add_rtgeom ==
  /\ IsCollection(geom)
  /\ \E g \in Parts :
       /\ <<g.z, g.m>> = <<geom.z, geom.m>>
       /\ geom.type = "Compound" => g.type \in {"Line", "CircString"}
       /\ LET r == IF geom.type = "Compound" THEN AddCurve(geom, g) ELSE AddGeom(geom, g)
          IN  r # <<>> /\ Becomes(r[1], TRUE)

-----------------------------------------------------------------------------
(* Other geometries *)

rtline_removepoint ==
  /\ geom.type = "Line"
  /\ \E i \in DOMAIN geom.arrays[1] : Len(geom.arrays[1]) > 1 /\ Becomes(RemovePoint(geom, i), FALSE)
rtcollection_getsubgeom == \E i \in DOMAIN geom.geoms : Becomes(geom.geoms[i], FALSE)
\* Not for a multi-curve: the number after its own is another kind of type.
rtgeom_as_multi == geom.type # "MultiCurve" /\ Becomes(AsMulti(geom), FALSE)
rtgeom_as_curve == Becomes(AsCurve(geom), FALSE)
rtgeom_force_sfs == BecomesOneOf(ForceSfs(geom))
rtgeom_force_dims == \E z \in BOOLEAN, m \in BOOLEAN : Becomes(ForceDims(geom, z, m), FALSE)
rtpoly_from_rtlines == geom.type = "Line" /\ BecomesOneOf(PolyFromLines(geom, <<>>))
rtline_from_rtgeom_array == geom.geoms # <<>> /\ BecomesOneOf(LineFrom(geom.srid, geom.geoms))
rtcollection_extract ==
  /\ geom.type = "Collection"
  /\ \E type \in {"Point", "Line", "Polygon"} : Becomes(Extract(geom, type), FALSE)
rtgeom_homogenize == Becomes(Homogenize(geom), FALSE)
\* Lines have points.
rtgeom_segmentize2d ==
  /\ \A n \in Nodes(geom) : n.type = "Line" => ~ IsEmpty(n)
  /\ Becomes(Segmentize(geom, SegmentLength), FALSE)
rtgeom_remove_repeated_points == Becomes(RemoveRepeated(geom, Tolerance), FALSE)
rtgeom_simplify == \E preserve \in BOOLEAN : BecomesOneOf(Simplify(geom, Tolerance, preserve))
rtgeom_grid == BecomesOneOf(Grid(geom, GridSize))

-----------------------------------------------------------------------------
(* Binary forms *)

rtgeom_from_wkb == \E v \in WkbVariants \cap {{"ISO"}, {"EXTENDED", "XDR"}} : BecomesOneOf(FromWkb(ToWkb(geom, v), {}))
Readable(g) == g.flag => IsBox(g.box)
rtgeom_from_gserialized ==
  /\ Readable(Prepared(geom))
  /\ ToSerialized(Prepared(geom)) # <<>>
  /\ BecomesOneOf(FromSerialized(ToSerialized(Prepared(geom))[1]))
rtgeom_from_twkb ==
  /\ ToTwkb(geom, {"BBOX"}, 0) # <<>>
  /\ geom.z = geom.m
  /\ BecomesOneOf(FromTwkb(ToTwkb(geom, {"BBOX"}, 0), {}))

Next ==
  \/ rtline_setPoint4d \/ rtline_add_rtpoint \/ rtline_removepoint
  \/ rtgeom_change \/ rtgeom_reverse \/ rtgeom_force_clockwise
  \/ rtgeom_add_bbox \/ rtgeom_add_bbox_deep \/ rtgeom_drop_bbox
  \/ rtgeom_set_srid \/ rtcollection_add_rtgeom \/ rtcollection_getsubgeom
  \/ rtgeom_as_multi \/ rtgeom_as_curve \/ rtgeom_force_sfs \/ rtgeom_force_dims
  \/ rtpoly_from_rtlines \/ rtline_from_rtgeom_array
  \/ rtcollection_extract \/ rtgeom_homogenize
  \/ rtgeom_segmentize2d \/ rtgeom_remove_repeated_points
  \/ rtgeom_simplify \/ rtgeom_grid
  \/ rtgeom_from_wkb \/ rtgeom_from_gserialized \/ rtgeom_from_twkb

Spec == Init /\ [][Next]_vars

-----------------------------------------------------------------------------
(* What a geometry is *)

\* Type correctness: parts are of the types their holder allows, and of its
\* dimensions; points have as many ordinates as the geometry says.
WellFormed(g) ==
  \A n \in Nodes(g) :
    /\ n.type \in Range(TypeName)
    /\ IsCollection(n) => n.arrays = <<>>
    /\ ~ IsCollection(n) => n.geoms = <<>>
    /\ \A i \in DOMAIN n.geoms : /\ AllowsSubtype(n.type, n.geoms[i].type)
                                 /\ <<n.geoms[i].z, n.geoms[i].m>> = <<n.z, n.m>>
    /\ \A i \in DOMAIN n.arrays : \A k \in DOMAIN n.arrays[i] : Len(n.arrays[i][k]) = NDims(n.z, n.m)

\* Whatever is done to a geometry, it stays well formed.
GeomTypeOK == WellFormed(geom) /\ stale \in BOOLEAN /\ steps \in 0..MaxSteps

\* A box that is cached covers the geometry, unless something was done that
\* is known to leave boxes alone: no operation forgets to refresh, drop or
\* move a box (rtgeom_add_bbox, rtgeom_refresh_bbox, rtgeom_scale ...).
BoxesCover ==
  stale \/ \A n \in Nodes(geom) :
             IsBox(n.box) /\ IsBox(CalculateBox(n)) => BoxCovers(n.box, CalculateBox(n))

RingsClosed(g) ==
  \A n \in Nodes(g) : n.type \in {"Polygon", "Triangle"} /\ ~ IsEmpty(n)
                        => \A i \in DOMAIN n.arrays : Closed(n.arrays[i], 2)

-----------------------------------------------------------------------------
(* What the binary forms keep *)

\* Reading a WKB of any variant gives back what the variant has room for; in
\* particular the size calculated beforehand is the size written
\* (rtgeom_to_wkb returns nothing when it is not).  The basic variant writes
\* more NaN for an empty point with z or m than a reader looks for.
Written2D(v) == v \cap {"ISO", "EXTENDED"} = {}
WkbRestorable(v) ==
  Written2D(v) => \A n \in Nodes(geom) : n.type = "Point" /\ IsEmpty(n) => ~ n.z /\ ~ n.m
WkbRestores ==
  \A v \in WkbVariants :
    WkbRestorable(v) => FromWkb(ToWkb(geom, v), {}) = <<WkbKept(geom, v)>>

\* The box that is read from a serialization covers the geometry: stored, or
\* peeked at in the few words of a simple one, or calculated.  Unless a larger
\* box was cached it is the one of the geometry, rounded outwards to floats.
BoxFromBytes(s) ==
  ~ stale /\ IsBox(CalculateBox(geom)) =>
    /\ BoxCovers(GetBox(s), CalculateBox(geom))
    /\ ~ IsBox(geom.box) => GetBox(s) = FloatRound(CalculateBox(geom))

\* Serializing and reading back keeps everything but the boxes and the SRIDs
\* of parts; without reading it a serialized geometry is found empty exactly
\* when it is (gserialized_is_empty walks over it), and its box is found
\* (gserialized_get_gbox_p).  The geometry must not say that it has a box when
\* it has none.
SerializedRestores ==
  LET g == Prepared(geom)
      s == ToSerialized(g)
  IN  Readable(g) => /\ s # <<>>
                     /\ LET back == FromSerialized(s[1])
                        IN  back # <<>> /\ Bare(back[1]) = SerializedKept(geom)
                     /\ SerializedIsEmpty(s[1]) = IsEmpty(geom)
                     /\ BoxFromBytes(s[1])

TwkbOptions == {{}, {"BBOX", "SIZE"}, {"SIZE", "IDS"}}

\* The size in the header is the number of bytes after it.
SizeAgrees(words) ==
  LET at == IF Bit(words[2].v, 8) THEN 4 ELSE 3
  IN  words[at].v = TwkbBytes(SubSeq(words, at + 1, Len(words)))

\* Reading TWKB gives back the rounded geometry, whatever the options and the
\* precision: no point is read relative to another than it was written
\* relative to, and a size lets a reader step over the geometry.  A box that
\* was asked for covers what was read; with a box there must be both or
\* neither of z and m (see the README on header_from_twkb_state).
TwkbRestores ==
  RingsClosed(geom) =>
    \A opts \in TwkbOptions, drop \in {0, 1} :
      LET words == ToTwkb(geom, opts, drop)
          back == FromTwkb(words, {})
      IN  words # <<>> =>
            /\ "SIZE" \in opts => SizeAgrees(words)
            /\ "BBOX" \notin opts \/ geom.z = geom.m =>
                 back # <<>> /\ Bare(back[1]) = TwkbKept(geom, drop)
            /\ "BBOX" \in opts /\ geom.z = geom.m /\ ~ IsEmpty(geom) =>
                 BoxCovers(back[1].box, CalculateBox(back[1]))

-----------------------------------------------------------------------------
(* What the operations promise *)

\* Turning a geometry round, forcing its rings clockwise and removing points
\* that repeat the one before (tolerance 0) are matters of notation: closed
\* rings, lines and surfaces stay closed, and area, dimension, rings and
\* extent are what they were.
SameShape(g, h) ==
  /\ IsClosedGeom(g) = IsClosedGeom(h) /\ (RingsClosed(g) => RingsClosed(h))
  /\ <<Area(g), Dimension(g), CountRings(g)>> = <<Area(h), Dimension(h), CountRings(h)>>
  /\ CalculateBox(g) = CalculateBox(h)

\* rtgeom_homogenize keeps every vertex, every ring and the area, and makes a
\* well-formed geometry (without compound curves and curve polygons: see the
\* README on rtcollection_build_buffer).
SameParts(g, h) ==
  /\ WellFormed(h)
  /\ <<CountVertices(g), CountRings(g), Area(g)>> = <<CountVertices(h), CountRings(h), Area(h)>>

ShapesKept ==
  /\ \A g \in {Reversed(geom), ForcedClockwise(geom), RemoveRepeated(geom, 0)} : SameShape(geom, g)
  /\ (\A n \in Nodes(geom) : n.type \notin {"Compound", "CurvePoly"}) =>
       \A g \in {Homogenize(geom)} : SameParts(geom, g)

-----------------------------------------------------------------------------
(* What is measured *)

Leaves(g) == {n \in Nodes(g) : ~ HasParts(n)}
SegmentsOf(n) ==
  UNION {{<<n.arrays[i][k], n.arrays[i][Upper(k - 1, 1)]>> : k \in DOMAIN n.arrays[i]} : i \in DOMAIN n.arrays}

\* No part is empty, a tin or an arc; lines are lines and rings are closed.
Measurable(g) ==
  \A n \in Nodes(g) :
    /\ ~ IsEmpty(n)
    /\ n.type \in {"Point", "Line", "Polygon", "MultiPoint", "MultiLine", "MultiPolygon", "Collection"}
    /\ n.type = "Line" => Len(n.arrays[1]) >= 2
    /\ \A i \in DOMAIN n.arrays :
         /\ n.type = "Polygon" => Closed(n.arrays[i], 2)
         /\ \A k \in DOMAIN n.arrays[i] : \A j \in {1, 2} : n.arrays[i][k][j] \in (-Reach)..Reach

CrossEachOther(s, t) ==
  /\ Sign(SegmentSide(s[1], s[2], t[1])) * Sign(SegmentSide(s[1], s[2], t[2])) < 0
  /\ Sign(SegmentSide(t[1], t[2], s[1])) * Sign(SegmentSide(t[1], t[2], s[2])) < 0
Covers(n, p) == n.type = "Polygon" /\ PolyContains(n, p)
Meet(a, b) ==
  \/ \E s \in SegmentsOf(a) : Covers(b, s[1])
  \/ \E t \in SegmentsOf(b) : Covers(a, t[1])
  \/ \E s \in SegmentsOf(a), t \in SegmentsOf(b) : CrossEachOther(s, t)

\* The definition of a distance: the least of any vertex from any segment,
\* unless the two meet.
PointGap(p, t) == Fraction(SegDistSq(p, t[1], t[2]), Upper(DistSq(t[1], t[2]), 1))
SameDistance(d, e) == ~ Less(d, e) /\ ~ Less(e, d)
NoGapBelow(d, a, b) ==
  /\ Meet(a, b) => ~ Less(Fraction(0, 1), d)
  /\ \A s \in SegmentsOf(a), t \in SegmentsOf(b) : /\ ~ Less(PointGap(s[1], t), d)
                                                   /\ ~ Less(PointGap(t[1], s), d)
IsGap(d, a, b) ==
  \/ Meet(a, b) /\ SameDistance(d, Fraction(0, 1))
  \/ \E s \in SegmentsOf(a), t \in SegmentsOf(b) : \/ SameDistance(d, PointGap(s[1], t))
                                                   \/ SameDistance(d, PointGap(t[1], s))
IsLeast(d, g, h) ==
  /\ \A a \in Leaves(g), b \in Leaves(h) : NoGapBelow(d, a, b)
  /\ \E a \in Leaves(g), b \in Leaves(h) : IsGap(d, a, b)

\* Of polygons the outer rings, the holes are inside them.
OuterPoints(g) == UNION {Range(n.arrays[1]) : n \in Leaves(g)}
GreatestSpan(g, h) == Max({DistSq(p, q) : p \in OuterPoints(g), q \in OuterPoints(h)})

\* A line starts in a polygon: of the greatest distance only the part to the
\* holes is found (see the README on rt_dist2d_line_poly).
LineStartsIn(g, h) ==
  \E a \in Leaves(g), b \in Leaves(h) :
    a.type = "Line" /\ b.type = "Polygon" /\ ~ Outside(b.arrays[1], a.arrays[1][1])

\* The distance that is returned is the least (greatest) there is, whichever
\* geometry comes first and whichever way it is found: segment by segment, by
\* the first point in a ring or a hole, or in the order of measures with most
\* segments left out; and a tolerance that ends the search early does not
\* change whether two geometries are within it.
DistancesAreExtreme ==
  Measurable(geom) /\ ~ stale =>
    \A h \in Targets :
      \E least \in {MinDistance(geom, h, 0).dist} :
        /\ IsLeast(least, geom, h)
        /\ Given(MinDistance(h, geom, Tolerance)) = Given(DistPts("min", Tolerance, least))
        /\ ~ LineStartsIn(geom, h) /\ ~ LineStartsIn(h, geom) =>
             SameDistance(MaxDistance(geom, h).dist, Fraction(GreatestSpan(geom, h), 1))

\* A point is on a geometry.
OnSegmentAt(p, s) ==
  /\ (s[2][1] - s[1][1]) * (p[2] - s[1][2] * p[3]) = (s[2][2] - s[1][2]) * (p[1] - s[1][1] * p[3])
  /\ \A j \in {1, 2} : Between(s[1][j] * p[3], p[j], s[2][j] * p[3])
IsOn(p, g) ==
  \E n \in Leaves(g) : \/ \E s \in SegmentsOf(n) : OnSegmentAt(p, s)
                       \/ p[3] = 1 /\ Covers(n, p)

\* The shortest line goes from the first geometry to the second.
JoinsInOrder(g, h) ==
  \E line \in {DistanceLine(g, h, "min")} : line # <<>> /\ IsOn(line[1], g) /\ IsOn(line[2], h)
AtMostOneHole(g) == \A n \in Nodes(g) : n.type = "Polygon" => Len(n.arrays) <= 2
ShortestLineJoins ==
  Measurable(geom) /\ ~ stale /\ AtMostOneHole(geom) =>
    \A h \in Targets : JoinsInOrder(geom, h) /\ JoinsInOrder(h, geom)

\* The same for polygons with several holes.  measures.c:2139 says where the
\* points are stored: "To get the points in right order. twisted is updated
\* between 1 and (-1) every time the order is changed earlier in the chain".
ShortestLineInOrder ==
  Measurable(geom) /\ ~ stale =>
    \A h \in Targets : JoinsInOrder(geom, h) /\ JoinsInOrder(h, geom)
=============================================================================
