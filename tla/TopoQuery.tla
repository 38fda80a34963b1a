------------------------------ MODULE TopoQuery -----------------------------
(***************************************************************************)
(* The questions a client may ask a topology: the geometry and the edges   *)
(* of a face, and what is at a point.  They read the tables in two ways,   *)
(* through the faces the edges are labelled with and through the geometry, *)
(* and change nothing.                                                     *)
(*                                                                         *)
(* A question is answered by an identifier, or by Error.  Where the answer *)
(* depends on what GEOS or the backend may choose it is a set.             *)
(***************************************************************************)
EXTENDS TopoEdit

CONSTANTS
  QueryPoints,  \* points asked about
  Tolerances    \* distances around them

ASSUME QueriesAreGeometries ==
  QueryPoints \subseteq Point /\ Tolerances \subseteq Nat

Error == -1

-----------------------------------------------------------------------------
(* Areas (rtgeom_buildarea).  GEOSPolygonize finds the regions that some   *)
(* edges bound; a region is given by the darts that have it on the left.   *)

\* The darts at the end of d, met clockwise: the first, and the last of some.
FirstOf(s, back, others) ==
  IF others = {} THEN back
  ELSE CHOOSE x \in others : \A y \in others :
         ~ MetBefore(Leaving(s, back), Leaving(s, y), Leaving(s, x))
FirstClockwise(s, edges, d) ==
  FirstOf(s, -d, {x \in DartsAt(s, Target(s, d)) : EdgeOf(x) \in edges /\ x # -d})
LastOf(s, back, others) ==
  CHOOSE x \in others : \A y \in others :
    ~ MetBefore(Leaving(s, back), Leaving(s, x), Leaving(s, y))
LastClockwise(s, darts, d) == LastOf(s, -d, DartsAt(s, Target(s, d)) \cap darts)

\* The topology of some of the edges, without regard to how all were linked.
OnlyEdges(s, edges) ==
  [s EXCEPT !.line = [e \in edges |-> @[e]],
            !.edge = [e \in edges |->
               [@[e] EXCEPT !.next_left = FirstClockwise(s, edges, e),
                            !.next_right = FirstClockwise(s, edges, -e)]]]

\* Edges with the same region on both sides bound nothing.
BoundingIn(t) == {e \in DOMAIN t.edge : -e \notin Ring(t, e)}
Bounding(s, edges) == BoundingIn(OnlyEdges(s, edges))

\* A ring that is no shell is in the smallest shell around it.
AroundRing(t, shells, p) == {r \in shells : Inside(p, RingLines(t, r))}
IsSmallest(t, r, around) == r \in around /\ \A y \in around : RingSweep(t, r) <= RingSweep(t, y)
Holds(t, shells, r, h) ==
  IsSmallest(t, r, AroundRing(t, shells, InteriorPoint(t.line[EdgeOf(CHOOSE d \in h : TRUE)])))
RegionsOf(t, rings, shells) ==
  {r \cup UNION {h \in rings \ shells : Holds(t, shells, r, h)} : r \in shells}
RegionsIn(t, rings) == RegionsOf(t, rings, {r \in rings : RingSweep(t, r) > 0})
RegionsAmong(t) == RegionsIn(t, Rings(t))
Regions(s, edges) == RegionsAmong(OnlyEdges(s, edges))

\* A polygon is the set of its rings, which do not touch themselves.
PolygonRing(s, region, d) ==
  LET walk[i \in 0 .. Cardinality(region)] ==
        IF i = 0 THEN d ELSE LastClockwise(s, region, walk[i - 1])
  IN  Range(walk)
PolygonOf(s, region) == {PolygonRing(s, region, d) : d \in region}

Polygonized(s, edges) == {PolygonOf(s, r) : r \in Regions(s, Bounding(s, edges))}

\* findFaceHoles: g fills a hole of f.
IsParent(s, f, g) ==
  \E hole \in f, shell \in g :
    /\ hole = {-d : d \in shell}
    /\ RingSweep(s, hole) < 0
Parents(s, faces, g) == {f \in faces : IsParent(s, f, g)}

CountParens(s, faces) ==
  LET parens[g \in faces] ==
        LET above(parents) == IF parents = {} THEN 0 ELSE 1 + parens[CHOOSE f \in parents : TRUE]
        IN  above(Parents(s, faces, g))
  IN  parens

\* RTGEOM_GEOS_buildArea: the faces with an even number of ancestors, those
\* that share an edge united.
Evens(faces, parens) == {f \in faces : parens[f] % 2 = 0}
Outline(darts) == {d \in darts : -d \notin darts}
United(s, bound) ==
  {PolygonOf(s, r) : r \in {x \in Regions(s, {EdgeOf(d) : d \in bound}) : x \subseteq bound}}
AreaOf(s, faces) == United(s, Outline(UNION UNION Evens(faces, CountParens(s, faces))))
BuildArea(s, edges) == AreaOf(s, Polygonized(s, edges))

-----------------------------------------------------------------------------
(* rtt_GetFaceGeometry, rtt_GetFaceEdges                                   *)

EdgesOfFace(s, f) == {e \in DOMAIN s.edge : f \in {s.edge[e].face_left, s.edge[e].face_right}}

\* The polygons of a face; there are none when it has no boundary, and an error
\* is no set of polygons.
GetFaceGeometry(s, f) ==
  IF f = Universe \/ (EdgesOfFace(s, f) = {} /\ f \notin DOMAIN s.mbr) THEN {}
  ELSE {BuildArea(s, EdgesOfFace(s, f))}

\* A ring as GEOS gives it, the area on its right, from any of its nodes; it is
\* reversed when the face is in the area.
RingFrom(s, ring, d, reversed) ==
  LET walk[i \in 1 .. Cardinality(ring)] ==
        IF i = 1 THEN d ELSE LastClockwise(s, ring, walk[i - 1])
      darts == IF reversed THEN walk ELSE Reverse([i \in DOMAIN walk |-> -walk[i]])
  IN  FoldLeft(LAMBDA points, x : Joined(points, Path(s, x)), <<Path(s, darts[1])[1]>>, darts)

\* _rtt_FindNextRingEdge: the edges not used so far that go on along the ring.
NextRingEdges_mutant(s, ring, from, unused) ==
  {e \in unused :
     /\ s.edge[e].face_left # s.edge[e].face_right
     /\ \E d \in {e, -e} : Path(s, d)[1] = ring[from]}
NextRingEdges(s, ring, from, unused) ==
  {e \in unused :
     /\ s.edge[e].face_left # s.edge[e].face_right
     /\ \E d \in {e, -e} : Path(s, d)[1] = ring[from] /\ Path(s, d)[2] = ring[from + 1]}

\* The darts that follow a ring from one of its vertices, after `darts`.
RECURSIVE RingEdges(_, _, _, _, _, _), RingEdgesBy(_, _, _, _, _, _, _)
RingEdges(s, f, ring, from, darts, unused) ==
  IF from >= Len(ring) THEN {[ok |-> TRUE, darts |-> darts, unused |-> unused]}
  ELSE RingEdgesBy(s, f, ring, from, darts, unused, NextRingEdges(s, ring, from, unused))
RingEdgesBy(s, f, ring, from, darts, unused, next) ==
  IF next = {} THEN {[ok |-> FALSE, darts |-> <<>>, unused |-> unused]}
  ELSE UNION {RingEdges(s, f, ring, from + Len(s.line[e]) - 1,
                        Append(darts, IF s.edge[e].face_left = f THEN e ELSE -e),
                        unused \ {e}) : e \in next}

\* The list scrolled until the edge with the smallest identifier is first.
Scrolled(darts) ==
  LET first == CHOOSE i \in DOMAIN darts : \A j \in DOMAIN darts :
                 EdgeOf(darts[i]) <= EdgeOf(darts[j])
  IN  SubSeq(darts, first, Len(darts)) \o SubSeq(darts, 1, first - 1)

RingsEdges(s, f, rings) ==
  LET after(o, ring) ==
        IF ~ o.ok THEN {o}
        ELSE {[x EXCEPT !.darts = IF x.ok THEN o.darts \o Scrolled(@) ELSE @] :
                x \in RingEdges(s, f, ring, 1, <<>>, o.unused)}
  IN  FoldLeft(LAMBDA outcomes, ring : UNION {after(o, ring) : o \in outcomes},
               {[ok |-> TRUE, darts |-> <<>>, unused |-> EdgesOfFace(s, f)]}, rings)

\* The rings of a polygon, the shell first, each from any node.
RingLists(s, polygon, reversed) ==
  LET with(lists, ring) ==
        {Append(l, RingFrom(s, ring, d, reversed)) : l \in lists, d \in ring}
      shellFirst(rings) == RingSweep(s, rings[1]) > 0
  IN  UNION {FoldLeft(with, {<<>>}, rings) : rings \in {o \in SetToSeqs(polygon) : shellFirst(o)}}

\* Edges that bound no area make rtgeom_buildarea return nothing, which counts
\* as an error, and a face of several polygons is refused.
EdgesAlong(s, f, area) ==
  IF Cardinality(area) # 1 THEN {[ok |-> FALSE, darts |-> <<>>]}
  ELSE {[ok |-> o.ok, darts |-> o.darts] :
          o \in UNION {RingsEdges(s, f, rings) :
                         rings \in UNION {RingLists(s, p, f # Universe) : p \in area}}}

GetFaceEdges(s, f) ==
  IF EdgesOfFace(s, f) = {} THEN {[ok |-> TRUE, darts |-> <<>>]}
  ELSE EdgesAlong(s, f, BuildArea(s, EdgesOfFace(s, f)))

-----------------------------------------------------------------------------
(* rtt_GetNodeByPoint, rtt_GetEdgeByPoint, rtt_GetFaceByPoint              *)

Reaches(p, q, tol) == LET u == Direction(p, q) IN u[1] * u[1] + u[2] * u[2] <= tol * tol

\* Some point of the segment is within the distance.
SegmentWithin(p, a, b, tol) ==
  LET u == Direction(a, b)
      v == Direction(a, p)
      along == u[1] * v[1] + u[2] * v[2]
      length == u[1] * u[1] + u[2] * u[2]
  IN  \/ Reaches(p, a, tol) \/ Reaches(p, b, tol)
      \/ /\ 0 < along /\ along < length
         /\ Cross(a, b, p) * Cross(a, b, p) <= tol * tol * length

\* getNodeWithinDistance2D, getEdgeWithinDistance2D
NodesWithin(s, p, tol) == {n \in DOMAIN s.node : Reaches(p, s.point[n], tol)}
EdgesWithin(s, p, tol) ==
  {e \in DOMAIN s.edge : \E t \in Segments(s.line[e]) : SegmentWithin(p, t[1], t[2], tol)}

\* None, one, or an error when there are several.
TheOnly(ids) ==
  IF ids = {} THEN 0 ELSE IF Cardinality(ids) > 1 THEN Error ELSE CHOOSE i \in ids : TRUE

GetNodeByPoint(s, p, tol) == TheOnly(NodesWithin(s, p, tol))
GetEdgeByPoint(s, p, tol) == TheOnly(EdgesWithin(s, p, tol))

\* getFaceContainingPoint of any point: none on the boundary of a face.
FaceAround(s, p) ==
  LET through == EdgesWithin(s, p, 0)
  IN  IF through = {} THEN FaceContaining(s, p)
      ELSE IF \E e \in through : s.edge[e].face_left # s.edge[e].face_right THEN Universe
      ELSE s.edge[CHOOSE e \in through : TRUE].face_left

\* The face in which the point is, else the only face that an edge between it and
\* the universe brings within the distance.
FaceBeside(sides) ==
  IF \E pair \in sides : Universe \notin pair THEN Error ELSE TheOnly(UNION sides \ {Universe})
NearestFace(s, p, tol) ==
  FaceBeside({x \in {{s.edge[e].face_left, s.edge[e].face_right} : e \in EdgesWithin(s, p, tol)} :
                Cardinality(x) = 2})

GetFaceByPoint(s, p, tol) ==
  CHOOSE f \in {IF g = Universe THEN NearestFace(s, p, tol) ELSE g : g \in {FaceAround(s, p)}} : TRUE

-----------------------------------------------------------------------------
(* Properties.                                                             *)

FaceBoundary(f) == {d \in DartsOf(db) : Left(db, d) = f /\ Left(db, -d) # f}

\* Closed walks one after the other, each from the smallest of its edges on; the
\* first is the outer boundary when the list is of a face.
AreRings(darts, ofFace) ==
  \E starts \in SUBSET DOMAIN darts : 
    /\ 1 \in starts
    /\ \A i \in starts :
         LET last == Min({j \in DOMAIN darts : j >= i /\ (j = Len(darts) \/ j + 1 \in starts)})
         IN  /\ Target(db, darts[last]) = Origin(db, darts[i])
             /\ \A j \in i .. last : EdgeOf(darts[i]) <= EdgeOf(darts[j])
             /\ \A j \in i .. (last - 1) : Target(db, darts[j]) = Origin(db, darts[j + 1])
             /\ ofFace /\ i = 1 => RingSweep(db, {darts[j] : j \in 1 .. last}) > 0

\* The darts rtt_GetFaceEdges lists, found along the rings of the geometry, are
\* those labelled with the face, each once and with the face on its left, wherever
\* GEOS starts a ring.  The universe has no list when it surrounds several areas,
\* or nothing but dangling edges.
FaceEdgesBoundFace ==
  \A f \in DOMAIN mbr \cup {Universe} : \A answer \in GetFaceEdges(db, f) :
    IF ~ answer.ok THEN f = Universe
    ELSE /\ Range(answer.darts) = FaceBoundary(f)
         /\ Len(answer.darts) = Cardinality(FaceBoundary(f))
         /\ answer.darts # <<>> => AreRings(answer.darts, f # Universe)

\* The geometry of a face built from its edges is where the topology says the
\* face is, and its box is the stored mbr.
FaceGeometryIsFace(areas) ==
  /\ \A f \in DOMAIN mbr : \A area \in areas[f] :
       Cardinality(area) = 1 /\ \A polygon \in area : RingBox(db, UNION polygon) = mbr[f]
  /\ \A p \in {q \in QueryPoints : EdgesWithin(db, q, 0) = {}} :
       {f \in DOMAIN mbr : \E polygon \in UNION areas[f] : Inside(p, RingLines(db, UNION polygon))}
         = {FaceContaining(db, p)} \ {Universe}

\* The faces of whose geometry p or some edge near it is a part.
FacesNear(areas, p, edges) ==
  {f \in DOMAIN mbr : \E polygon \in UNION areas[f] :
     \/ \E d \in UNION polygon : EdgeOf(d) \in edges
     \/ Inside(p, RingLines(db, UNION polygon))}

\* The face found is one that is there; none is found only if there is none, and
\* only a choice between two is refused.
IsFaceOf(f, near) ==
  CASE f = Error -> Cardinality(near) > 1
    [] f = Universe -> near = {}
    [] OTHER -> f \in near

\* So it is at every point and distance.  At a distance of nothing no two nodes are
\* found, and two edges only at a node.
PointsAreLocated(areas) ==
  \A p \in QueryPoints :
    /\ \A tol \in Tolerances : \E near \in {EdgesWithin(db, p, tol)} :
         IsFaceOf(GetFaceByPoint(db, p, tol), FacesNear(areas, p, near))
    /\ GetNodeByPoint(db, p, 0) # Error
    /\ GetEdgeByPoint(db, p, 0) = Error => GetNodeByPoint(db, p, 0) # 0

\* What the labels, the links and the geometry answer is one and the same.
QueriesAgree ==
  /\ FaceEdgesBoundFace
  /\ \E areas \in {[f \in DOMAIN mbr |-> GetFaceGeometry(db, f)]} :
       FaceGeometryIsFace(areas) /\ PointsAreLocated(areas)
=============================================================================
