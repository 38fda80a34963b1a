------------------------------ MODULE MCGeomLife -----------------------------
(***************************************************************************)
(* Lives of two operations from geometries of every type: without          *)
(* coordinates, of two to four dimensions, with repeated points, holes,    *)
(* arcs, empty parts and parts in parts.                                   *)
(***************************************************************************)
EXTENDS GeomLife

Simple(type, srid, z, m, ps) == NewGeom(type, srid, z, m, NoBox, <<ps>>, <<>>)
Polygon(srid, z, m, rings) == NewGeom("Polygon", srid, z, m, NoBox, rings, <<>>)
Holding(type, srid, geoms) == NewCollection(type, srid, NoBox, geoms)

Here == Simple("Point", 4, FALSE, FALSE, << <<5, 10>> >>)
High == Simple("Point", 0, TRUE, FALSE, << <<5, 11, 7>> >>)
Nowhere == Simple("Point", 0, TRUE, FALSE, <<>>)
Road == Simple("Line", 4, FALSE, FALSE, << <<0, 0>>, <<18, 24>>, <<18, 25>>, <<18, 25>>, <<-10, 25>> >>)
Track == Simple("Line", 0, TRUE, TRUE, << <<0, 0, 1, 1>>, <<9, 0, 2, 3>> >>)
Loop == Simple("Line", 0, FALSE, FALSE, << <<0, 0>>, <<20, 0>>, <<20, 20>>, <<0, 0>> >>)
Field == Polygon(4, FALSE, FALSE, << << <<0, 0>>, <<40, 0>>, <<40, 40>>, <<0, 40>>, <<0, 0>> >>,
                                     << <<10, 10>>, <<20, 10>>, <<20, 20>>, <<20, 20>>, <<10, 10>> >> >>)
Open == Polygon(0, FALSE, FALSE, << << <<0, 0>>, <<10, 0>>, <<10, 10>>, <<0, 11>> >> >>)
Park == Polygon(0, FALSE, FALSE, << << <<0, 0>>, <<40, 0>>, <<40, 40>>, <<0, 40>>, <<0, 0>> >>,
                                   << <<4, 4>>, <<4, 12>>, <<12, 12>>, <<12, 4>>, <<4, 4>> >>,
                                   << <<24, 24>>, <<24, 36>>, <<36, 36>>, <<36, 24>>, <<24, 24>> >> >>)
Facet == Simple("Triangle", 0, FALSE, FALSE, << <<0, 0>>, <<20, 0>>, <<0, 20>>, <<0, 0>> >>)
Arc == Simple("CircString", 0, FALSE, FALSE, << <<0, 0>>, <<10, 10>>, <<20, 0>> >>)

Side(a, b, c) == Polygon(0, TRUE, FALSE, <<<<a, b, c, a>>>>)
Tent ==
  LET a == <<0, 0, 0>>  b == <<20, 0, 0>>  c == <<0, 20, 0>>  d == <<0, 0, 20>>
  IN  Holding("PolyhedralSurface", 0, <<Side(a, c, b), Side(a, b, d), Side(b, c, d), Side(c, a, d)>>)

ConstPool ==
  { Here, Nowhere, Road, Track, Loop, Field, Park, Open, Facet, Arc,
    ConstructEmpty("Polygon", 0, FALSE, TRUE),
    ConstructEmpty("MultiPoint", 0, FALSE, FALSE),
    Holding("MultiPoint", 3, <<High, Nowhere, High>>),
    Holding("MultiLine", 0, <<Road, Loop>>),
    Holding("MultiPolygon", 0, <<Field, Field>>),
    Holding("Tin", 0, <<Facet, Facet>>),
    Tent,
    Holding("MultiSurface", 4, <<Field>>),
    Holding("Collection", 4, <<Here, Field, Holding("Collection", 0, <<Here, Arc>>)>>),
    Holding("Collection", 0, <<Holding("MultiPoint", 0, <<>>)>>) }

ConstParts == {Here, High, Loop, Open, Facet, Holding("MultiPoint", 0, <<Here>>)}

ConstChanges ==
  { SwapOrdinates(1, 2), SwapOrdinates(1, 3), SwapOrdinates(3, 4), Scale(2, 2), Scale(-1, 1),
    Affine(<<0, -1, 5>>, <<1, 0, 0>>), LongitudeShift }
ConstNewPoints == {<<60, -5, 9, 8>>, <<0, 0, 0, 0>>}
ConstVariants == {{"ISO"}, {"EXTENDED", "XDR"}, {"EXTENDED", "HEX"}, {"SFSQL"}}

Bench == Simple("Line", 0, FALSE, FALSE, << <<28, 27>>, <<34, 29>> >>)
Fence == Simple("Line", 0, FALSE, FALSE, << <<-40, -12>>, <<-33, -5>>, <<-31, 9>>, <<-40, 3>>, <<-40, -12>> >>)
Pond == Polygon(0, FALSE, FALSE, << << <<16, 12>>, <<19, 12>>, <<19, 15>>, <<16, 12>> >> >>)
Post == Simple("Point", 0, FALSE, FALSE, << <<17, 14>> >>)
ConstTargets ==
  {Bench, Pond, Holding("Collection", 0, <<Post, Holding("MultiLine", 0, <<Fence, Loop>>)>>)}
=============================================================================
