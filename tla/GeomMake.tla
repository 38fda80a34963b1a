------------------------------- MODULE GeomMake -----------------------------
(***************************************************************************)
(* Operations that make a geometry out of others (rtcollection.c,          *)
(* rtgeom.c, rtline.c, rtpoly.c, rtcompound.c, rtcurvepoly.c,              *)
(* rthomogenize.c), and the questions that are asked of one.  A result     *)
(* that may be nothing is a sequence of one geometry or of none.           *)
(***************************************************************************)
EXTENDS GeomOps

\* rtcollection_construct: the dimensions are those of the first part.
NewCollection(type, srid, box, geoms) ==
  IF geoms = <<>> THEN NewGeom(type, srid, FALSE, FALSE, box, <<>>, <<>>)
  ELSE NewGeom(type, srid, geoms[1].z, geoms[1].m, box, <<>>, geoms)
NewLike(g, arrays) == NewGeom(g.type, g.srid, g.z, g.m, NoBox, arrays, <<>>)

\* rtcollection_add_rtgeom: dimensions and SRID are not looked at.
AddGeom(col, g) ==
  IF AllowsSubtype(col.type, g.type) THEN << [col EXCEPT !.geoms = Append(@, g)] >> ELSE <<>>

\* rtcompound_add_rtgeom: a part starts where the one before ends.
AddCurve(comp, g) ==
  IF \/ IsEmpty(g)
     \/ comp.geoms # <<>> /\ ~ Same2D(Last(Last(comp.geoms).arrays[1]), g.arrays[1][1])
  THEN <<>> ELSE AddGeom(comp, g)

-----------------------------------------------------------------------------
(* Questions *)

\* rtpsurface_is_closed, rttin_is_closed: every segment is in two faces (of
\* faces that have no segment twice).
Segment(a, b) == {SubSeq(a, 1, 3), SubSeq(b, 1, 3)}
FaceSegments(ps, n) == {Segment(ps[i], ps[i + 1]) : i \in 1..n}
SurfaceClosed(g) ==
  LET Sides(i) == LET ps == g.geoms[i].arrays[1]
                  IN  FaceSegments(ps, IF g.type = "Tin" THEN 3 ELSE Len(ps) - 1)
      all == UNION {Sides(i) : i \in DOMAIN g.geoms}
      solid == {s \in all : Cardinality(s) = 2 \/ g.type = "Tin"}
  IN  /\ g.z
      /\ g.type = "Tin" \/ Len(g.geoms) >= 4
      /\ \A s \in solid : Cardinality({i \in DOMAIN g.geoms : s \in Sides(i)}) = 2
      /\ Cardinality(solid) >= Len(g.geoms)

\* rtgeom_is_closed.  A compound curve compares its two ends.
RECURSIVE IsClosedGeom(_)
IsClosedGeom(g) ==
  /\ ~ IsEmpty(g)
  /\ CASE g.type = "Compound" ->
            ClosedPoints(<<g.geoms[1].arrays[1][1], Last(Last(g.geoms).arrays[1])>>, g.z)
       [] g.type \in {"Tin", "PolyhedralSurface"} -> SurfaceClosed(g)
       [] IsCollection(g) -> \A i \in DOMAIN g.geoms : IsClosedGeom(g.geoms[i])
       [] g.type \in {"Line", "CircString", "Polygon"} ->
            \A i \in DOMAIN g.arrays : ClosedPoints(g.arrays[i], g.z)
       [] OTHER -> TRUE

\* rtgeom_dimension, rtgeom_dimensionality
RECURSIVE Dimension(_)
Dimension(g) ==
  CASE g.type \in {"Point", "MultiPoint"} -> 0
    [] g.type \in {"Line", "MultiLine", "CircString", "Compound", "MultiCurve"} -> 1
    [] g.type = "PolyhedralSurface" -> IF SurfaceClosed(g) THEN 3 ELSE 2
    [] g.type = "Collection" -> Max({0} \cup {Dimension(g.geoms[i]) : i \in DOMAIN g.geoms})
    [] OTHER -> 2

\* rtgeom_count_rings; the rings of a curve polygon are its parts.
RECURSIVE CountRings(_)
CountRings(g) ==
  CASE IsEmpty(g) -> 0
    [] g.type = "Polygon" -> Len(g.arrays)
    [] g.type = "Triangle" -> 1
    [] g.type = "CurvePoly" -> Len(g.geoms)
    [] g.type \in {"MultiSurface", "MultiPolygon", "PolyhedralSurface", "Tin", "Collection"} ->
         SumOf([i \in DOMAIN g.geoms |-> CountRings(g.geoms[i])])
    [] OTHER -> 0

\* rtgeom_same: cached boxes are compared when both have one.
RECURSIVE SameGeom(_, _)
SameGeom(g, h) ==
  /\ <<g.type, g.z, g.m>> = <<h.type, h.z, h.m>>
  /\ IsBox(g.box) /\ IsBox(h.box) => g.box = h.box
  /\ g.arrays = h.arrays
  /\ Len(g.geoms) = Len(h.geoms)
  /\ \A i \in DOMAIN g.geoms : SameGeom(g.geoms[i], h.geoms[i])

\* rtgeom_startpoint: of the first part, and of nothing for other types
RECURSIVE StartPoint(_)
StartPoint(g) ==
  CASE g.type \in SimpleTypes -> IF g.arrays = <<>> \/ g.arrays[1] = <<>> THEN <<>> ELSE <<g.arrays[1][1]>>
    [] g.type \in {"CurvePoly", "Compound", "MultiPoint", "MultiLine", "MultiPolygon", "Collection"} ->
         IF g.geoms = <<>> THEN <<>> ELSE StartPoint(g.geoms[1])
    [] OTHER -> <<>>

\* Twice rtgeom_area, where nothing is curved
RECURSIVE Area(_)
Area(g) ==
  LET Size(n) == IF n < 0 THEN -n ELSE n
  IN  CASE g.type = "Polygon" ->
             SumOf([i \in DOMAIN g.arrays |-> (IF i = 1 THEN 1 ELSE -1) * Size(SignedArea(g.arrays[i]))])
        [] g.type = "Triangle" -> Size(SignedArea(g.arrays[1]))
        [] IsCollection(g) -> SumOf([i \in DOMAIN g.geoms |-> Area(g.geoms[i])])
        [] OTHER -> 0

-----------------------------------------------------------------------------
(* Other types *)

MultiType(type) ==
  CASE type = "Point" -> "MultiPoint"
    [] type = "Line" -> "MultiLine"
    [] type = "Polygon" -> "MultiPolygon"
    [] type \in {"CircString", "Compound"} -> "MultiCurve"
    [] type = "CurvePoly" -> "MultiSurface"
    [] type = "MultiCurve" -> "PolyhedralSurface"
    [] type = "Triangle" -> "Tin"
    [] OTHER -> type

\* rtgeom_as_multi: the box moves up, the flag that told of it stays.
AsMulti(g) ==
  LET type == MultiType(g.type)
  IN  IF type = g.type THEN Clone(g)
      ELSE IF IsEmpty(g) THEN ConstructEmpty(type, g.srid, g.z, g.m)
      ELSE NewCollection(type, g.srid, g.box, << [Clone(g) EXCEPT !.box = NoBox, !.srid = SridUnknown] >>)

\* rtgeom_as_curve
AsCurve(g) ==
  CASE g.type = "Line" /\ IsEmpty(g) -> ConstructEmpty("Compound", g.srid, g.z, g.m)
    [] g.type = "Line" -> NewGeom("Compound", g.srid, g.z, g.m, NoBox, <<>>, <<g>>)
    [] g.type = "Polygon" ->
         [g EXCEPT !.type = "CurvePoly", !.arrays = <<>>,
                   !.geoms = [i \in DOMAIN g.arrays |-> NewGeom("Line", g.srid, g.z, g.m, NoBox, <<g.arrays[i]>>, <<>>)]]
    [] g.type = "MultiLine" -> [Clone(g) EXCEPT !.type = "MultiCurve"]
    [] g.type = "MultiPolygon" -> [Clone(g) EXCEPT !.type = "MultiSurface"]
    [] OTHER -> Clone(g)

\* rtpoly_from_rtlines: closed lines of four points or more, of one SRID.
IsShell(g) == Len(g.arrays[1]) >= 4 /\ ClosedPoints(g.arrays[1], FALSE)
PolyFromLines(shell, holes) ==
  IF IsShell(shell) /\ \A i \in DOMAIN holes : IsShell(holes[i]) /\ holes[i].srid = shell.srid
  THEN << NewGeom("Polygon", shell.srid, shell.z, shell.m, NoBox,
                  shell.arrays \o [i \in DOMAIN holes |-> holes[i].arrays[1]], <<>>) >>
  ELSE <<>>

\* rtgeom_force_sfs, version 1.1: triangles become polygons; nothing for the
\* curves, which are stroked.
RECURSIVE ForceSfs(_)
ForceSfs(g) ==
  CASE g.type = "Triangle" -> PolyFromLines(g, <<>>)
    [] g.type = "Tin" ->
         LET polys == FlattenSeq([i \in DOMAIN g.geoms |-> PolyFromLines(g.geoms[i], <<>>)])
         IN  IF Len(polys) = Len(g.geoms) THEN << [g EXCEPT !.type = "Collection", !.geoms = polys] >> ELSE <<>>
    [] g.type = "PolyhedralSurface" -> << [g EXCEPT !.type = "Collection"] >>
    [] g.type = "Collection" ->
         LET parts == FlattenSeq([i \in DOMAIN g.geoms |-> ForceSfs(g.geoms[i])])
         IN  IF Len(parts) = Len(g.geoms) THEN << [g EXCEPT !.geoms = parts] >> ELSE <<>>
    [] g.type \in {"CircString", "Compound", "CurvePoly", "MultiCurve", "MultiSurface"} -> <<>>
    [] OTHER -> <<g>>

\* rtgeom_force_dims: boxes go, missing ordinates become zero.
RECURSIVE ForceDims(_, _, _)
ForceDims(g, z, m) ==
  IF IsEmpty(g) THEN ConstructEmpty(g.type, g.srid, z, m)
  ELSE NewGeom(g.type, g.srid, z, m, NoBox, [i \in DOMAIN g.arrays |-> ForcedPoints(g.arrays[i], g, z, m)],
               [i \in DOMAIN g.geoms |-> ForceDims(g.geoms[i], z, m)])

\* rtline_from_rtgeom_array: room for every ordinate that any of them has
\* (the points of a line are only joined to points of the same dimensions).
LineFrom(srid, geoms) ==
  LET z == \E i \in DOMAIN geoms : geoms[i].z
      m == \E i \in DOMAIN geoms : geoms[i].m
      some == SelectSeq(geoms, LAMBDA g : ~ IsEmpty(g))
      Joined(ps, g) == CASE g.type = "Point" -> ps \o ForcedPoints(g.arrays[1], g, z, m)
                         [] <<g.z, g.m>> = <<z, m>> -> AppendPoints(ps, g.arrays[1])
                         [] OTHER -> ps
  IN  IF \A i \in DOMAIN some : some[i].type \in {"Point", "Line"}
      THEN << NewGeom("Line", srid, z, m, NoBox, << FoldSeq(LAMBDA g, ps : Joined(ps, g), <<>>, some) >>, <<>>) >>
      ELSE <<>>

-----------------------------------------------------------------------------
(* Parts *)

\* rtcollection_extract: the parts of a type, at any depth; the box is
\* calculated, the flag is not set.
ExtractedType(type) ==
  CASE type = "Point" -> "MultiPoint" [] type = "Line" -> "MultiLine" [] type = "Polygon" -> "MultiPolygon"
RECURSIVE PartsOf(_, _)
PartsOf(g, type) ==
  FlattenSeq([i \in DOMAIN g.geoms |->
    CASE IsEmpty(g.geoms[i]) -> <<>>
      [] g.geoms[i].type = type -> <<Clone(g.geoms[i])>>
      [] OTHER -> PartsOf(g.geoms[i], type)])
Extract(g, type) ==
  LET parts == PartsOf(g, type)
      col == NewCollection(ExtractedType(type), g.srid, NoBox, parts)
  IN  IF parts = <<>> THEN ConstructEmpty(ExtractedType(type), g.srid, g.z, g.m)
      ELSE [col EXCEPT !.box = CalculateBox(col)]

\* rttype_get_collectiontype
HolderType(type) ==
  CASE type \in {"CircString", "Compound"} -> "MultiCurve" [] type = "CurvePoly" -> "MultiSurface"
    [] type = "Triangle" -> "Tin" [] OTHER -> ExtractedType(type)

Singles == {"Point", "Line", "CircString", "Compound", "Triangle", "CurvePoly", "Polygon"}

\* rtcollection_build_buffer: the single geometries in g, in order, each with
\* the SRID of the collection it is in.  A compound curve or curve polygon is
\* looked into as well as taken: the case of the single types has no break.
RECURSIVE SinglesIn(_)
SinglesIn(g) ==
  IF IsEmpty(g) THEN <<>>
  ELSE FlattenSeq([i \in DOMAIN g.geoms |->
         (IF g.geoms[i].type \in Singles THEN << [srid |-> g.srid, part |-> Clone(g.geoms[i])] >> ELSE <<>>)
           \o SinglesIn(g.geoms[i])])

\* rtcollection_homogenize: types in the order of their numbers
HomogenizedCollection(g) ==
  LET singles == SinglesIn(g)
      types == SelectSeq(TypeName, LAMBDA type : \E i \in DOMAIN singles : singles[i].part.type = type)
      Held(type) == LET found == SelectSeq(singles, LAMBDA s : s.part.type = type)
                    IN  IF Len(found) = 1 THEN found[1].part
                        ELSE NewGeom(HolderType(type), found[1].srid, g.z, g.m, NoBox, <<>>,
                                     [i \in DOMAIN found |-> found[i].part])
  IN  IF Len(types) = 1 THEN [Held(types[1]) EXCEPT !.srid = g.srid]
      ELSE NewGeom("Collection", g.srid, g.z, g.m, NoBox, <<>>, [i \in DOMAIN types |-> Held(types[i])])

\* rtgeom_homogenize
Homogenize(g) ==
  CASE IsEmpty(g) -> IF IsCollection(g) THEN ConstructEmpty(g.type, g.srid, g.z, g.m) ELSE Clone(g)
    [] g.type \in Singles -> Clone(g)
    [] g.type = "Collection" -> HomogenizedCollection(g)
    [] Len(g.geoms) = 1 ->
         [Clone(g.geoms[1]) EXCEPT !.srid = g.srid, !.box = IF IsBox(g.box) THEN g.box ELSE @]
    [] OTHER -> Clone(g)

-----------------------------------------------------------------------------
(* Fewer or more points *)

\* rtgeom_segmentize2d: boxes go.
RECURSIVE Segmentize(_, _)
Segmentize(g, dist) ==
  CASE g.type \in {"Line", "Polygon"} -> NewLike(g, [i \in DOMAIN g.arrays |-> SegmentizedPoints(g.arrays[i], dist)])
    [] g.type \in {"MultiLine", "MultiPolygon", "Collection"} /\ g.geoms # <<>> ->
         NewCollection(g.type, g.srid, NoBox, [i \in DOMAIN g.geoms |-> Segmentize(g.geoms[i], dist)])
    [] OTHER -> Clone(g)

\* rtgeom_remove_repeated_points: the box is kept.
RECURSIVE RemoveRepeated(_, _)
RemoveRepeated(g, tol) ==
  CASE IsEmpty(g) -> Clone(g)
    [] g.type \in {"Line", "Polygon"} ->
         NewGeom(g.type, g.srid, g.z, g.m, g.box,
           [i \in DOMAIN g.arrays |-> UnrepeatedPoints(g.arrays[i], tol, IF g.type = "Line" THEN 2 ELSE 4)], <<>>)
    [] g.type = "MultiPoint" ->
         NewCollection(g.type, g.srid, g.box,
           FoldSeq(LAMBDA p, seen : IF \E i \in DOMAIN seen : SameGeom(seen[i], p) THEN seen ELSE Append(seen, p),
                   <<>>, g.geoms))
    [] g.type \in {"MultiLine", "Collection", "MultiPolygon", "PolyhedralSurface"} ->
         NewCollection(g.type, g.srid, g.box, [i \in DOMAIN g.geoms |-> RemoveRepeated(g.geoms[i], tol)])
    [] OTHER -> Clone(g)

\* Rings that are left with four points, as long as the first one is.
Rings(arrays) ==
  IF arrays = <<>> \/ Len(arrays[1]) < 4 THEN <<>> ELSE SelectSeq(arrays, LAMBDA ps : Len(ps) >= 4)

\* rtgeom_simplify: what collapses is left out.
RECURSIVE Simplify(_, _, _)
Simplify(g, dist, preserve) ==
  CASE g.type \in {"Point", "MultiPoint"} -> <<Clone(g)>>
    [] g.type \in {"Line", "Polygon"} /\ IsEmpty(g) -> <<>>
    [] g.type = "Line" ->
         LET ps == SimplifiedPoints(g.arrays[1], dist, 2)
         IN  IF Len(ps) > 1 THEN << NewLike(g, <<ps>>) >>
             ELSE IF preserve THEN << NewLike(g, <<ps \o ps>>) >> ELSE <<>>
    [] g.type = "Polygon" ->
         LET rings == Rings([i \in DOMAIN g.arrays |-> SimplifiedPoints(g.arrays[i], dist, IF preserve /\ i = 1 THEN 4 ELSE 0)])
         IN  IF rings = <<>> THEN <<>> ELSE << NewLike(g, rings) >>
    [] g.type \in {"MultiLine", "MultiPolygon", "Collection"} ->
         << NewGeom(g.type, g.srid, g.z, g.m, NoBox, <<>>,
              IF IsEmpty(g) THEN <<>> ELSE FlattenSeq([i \in DOMAIN g.geoms |-> Simplify(g.geoms[i], dist, preserve)])) >>
    [] OTHER -> <<>>

\* rtgeom_grid
RECURSIVE Grid(_, _)
Grid(g, size) ==
  CASE g.type = "Point" -> << NewLike(g, <<GriddedPoints(g.arrays[1], size)>>) >>
    [] g.type \in {"Line", "CircString"} ->
         LET ps == GriddedPoints(g.arrays[1], size) IN  IF Len(ps) < 2 THEN <<>> ELSE << NewLike(g, <<ps>>) >>
    [] g.type = "Polygon" ->
         LET rings == Rings([i \in DOMAIN g.arrays |-> GriddedPoints(g.arrays[i], size)])
         IN  IF rings = <<>> THEN <<>> ELSE << NewLike(g, rings) >>
    [] g.type \in {"MultiPoint", "MultiLine", "MultiPolygon", "Collection", "Compound"} ->
         << NewGeom(g.type, g.srid, g.z, g.m, NoBox, <<>>, FlattenSeq([i \in DOMAIN g.geoms |-> Grid(g.geoms[i], size)])) >>
    [] OTHER -> <<>>
=============================================================================
