--------------------------- MODULE MCTopoPopulate ---------------------------
(***************************************************************************)
(* A world of lines that cross, touch, overlap and enclose one another:    *)
(* the square A B C D, its diagonals, which cross at M, a line that comes  *)
(* in at B and runs along its side, a triangle in one of its quarters      *)
(* that touches nothing, and a line that crosses itself at X.              *)
(***************************************************************************)
EXTENDS TopoPopulate

A == <<0, 0>>   B == <<16, 0>>   C == <<16, 16>>   D == <<0, 16>>
M == <<8, 8>>   L == <<8, 0>>    E == <<24, 0>>    T == <<6, 2>>
P == <<20, 4>>  Q == <<28, 12>>  X == <<24, 8>>    Y == <<20, 12>>

frame == <<A, B, C, D, A>>
rise  == <<A, C>>
fall  == <<D, B>>
along == <<E, L>>
inner == <<T, <<10, 2>>, <<8, 4>>, T>>
knot  == <<P, Q, <<28, 4>>, Y>>

shapes == <<frame, rise, fall, along, inner, knot>>
places == <<A, B, C, D, M, L, E, T, P, Q, X, Y>>

WorldPlaces == Range(places)
WorldProbes == {InteriorPoint(h) : h \in UNION {Segments(g) : g \in
                 {<<A, L, B, C, D, A>>, <<A, M, C>>, <<D, M, B>>, <<B, E>>, inner,
                  <<P, X, Q, <<28, 4>>, X, Y>>}}}
WorldAtoms  == {<<2, 1>>, <<8, 3>>, <<14, 8>>, <<8, 14>>, <<2, 8>>, <<30, 30>>, <<27, 8>>}

WorldSites    == {A, M}
WorldCurves   == {frame, rise, fall, along, inner, knot}
WorldPolygons == {<<frame, inner>>}

\* One identifier per place of a node; three per shape and start of an edge, for
\* the line that leaves X twice and for edges healed and split again.
PlaceOf(p) == CHOOSE i \in DOMAIN places : places[i] = p
WorldEdgeIds == 1 .. 60 * Len(shapes)
NodeIdAt(p) == {PlaceOf(p)}
EdgeIdFor(g) ==
  LET k == CHOOSE i \in DOMAIN shapes : Covers(shapes[i], SubSeq(g, 1, 2))
      i == 20 * (k - 1) + PlaceOf(StartPoint(g))
  IN  {i, i + 20 * Len(shapes), i + 40 * Len(shapes)}
=============================================================================
