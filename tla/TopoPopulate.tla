---------------------------- MODULE TopoPopulate ----------------------------
(***************************************************************************)
(* The populating functions of librttopo.h: points, lines and polygons are *)
(* put into the topology wherever they go, on top of what is there, and    *)
(* the faces of a topology that was loaded without them are built in one   *)
(* go by rtt_Polygonize.                                                   *)
(*                                                                         *)
(* The functions are composed of the editing operations of TopoOps.  The   *)
(* model is exact: the tolerance is smaller than any distance between two  *)
(* different points, so that snapping (rtt_tpsnap.c) moves nothing, and    *)
(* noding, done by GEOS, cuts the line where it meets what is there.  The  *)
(* order in which GEOS returns the pieces is not defined.                  *)
(***************************************************************************)
EXTENDS TopoEdit

CONSTANTS
  Polygons,   \* polygons given to rtt_AddPolygon, each a sequence of rings
  Places,     \* the points where lines of the world may meet
  Probes,     \* sample points of the lines
  Atoms,      \* sample points that are on no line
  MaxEdges    \* bound: nothing is put into a topology with more edges

ASSUME WorldIsExact ==
  /\ IsFiniteSet(Places)
  /\ Places \cup Probes \cup Atoms \subseteq Point
  /\ \A q \in Polygons : q \in Seq(Line) /\ \A i \in DOMAIN q : IsClosed(q[i])

VARIABLE
  loading     \* lines were loaded without faces, rtt_Polygonize is still to come

\* The outcome of a call: whether it succeeds, and the topology it leaves.
Done(s)   == [ok |-> TRUE, topo |-> s]
Failed(s) == [ok |-> FALSE, topo |-> s]

\* Identifiers of the backend, for a topology in the middle of a call.
NodeIdIn(s, p) == Smallest((NodeIdsAt(p) \cap NodeIds) \ DOMAIN s.node)
EdgeIdIn(s, g) == Smallest((EdgeIdsFor(g) \cap EdgeIds) \ DOMAIN s.edge)
FaceIdIn(s, taken) == Smallest(FaceIds \ (DOMAIN s.mbr \cup taken))

-----------------------------------------------------------------------------
(* rtt_AddPoint                                                            *)

\* A node that is there is used, an edge that passes is split, else the point
\* is isolated: in the face around it, or in no face when findFace is false.
\* The set of topologies the call may leave.
AddPoint_mutant(s, p, findFace) ==
  IF ExistsCoincidentNode(s, p) THEN {s}
  ELSE LET face == IF findFace THEN FaceContaining(s, p) ELSE NotIsolated
       IN  {WithNode(s, n, face, p) : n \in NodeIdIn(s, p)}
AddPoint(s, p, findFace) ==
  IF ExistsCoincidentNode(s, p) THEN {s}
  ELSE IF ExistsEdgeIntersectingPoint(s, p)
  THEN UNION {{ModEdgeSplit(s, e, p, n, e2) :
                 n \in NodeIdIn(s, p), e2 \in EdgeIdIn(s, TailFrom(s.line[e], p))} :
              e \in {x \in DOMAIN s.edge : Passes(s.line[x], p)}}
  ELSE LET face == IF findFace THEN FaceContaining(s, p) ELSE NotIsolated
       IN  {WithNode(s, n, face, p) : n \in NodeIdIn(s, p)}

-----------------------------------------------------------------------------
(* rtt_AddLine and rtt_AddLineNoFace                                       *)

SameDirection(u, v) == Turn(u, v) = 0

\* The directions in which line g leaves its point p.
Germs(g, p) ==
  {Direction(p, q) : q \in {r \in UNION {{t[1], t[2]} : t \in
                             {x \in Segments(g) : OnSegment(p, x[1], x[2])}} : r # p}}

PartAt(g, h, p) ==
  \/ \E u \in Germs(g, p) : \A v \in Germs(h, p) : ~ SameDirection(u, v)
  \/ \E v \in Germs(h, p) : \A u \in Germs(g, p) : ~ SameDirection(u, v)

\* Where the line is cut: at nodes, where it passes twice, and where it meets an
\* edge or parts from it.
CutPoints(s, g) ==
  {p \in Places :
     /\ Passes(g, p)
     /\ \/ ExistsCoincidentNode(s, p)
        \/ Cardinality(Germs(g, p)) > 2
        \/ \E e \in DOMAIN s.edge : Passes(s.line[e], p) /\ PartAt(g, s.line[e], p)}

\* Where a piece passes p on its way: the segments that p is on, but for the
\* start of the first and the end of the last.
Passages(g, p) ==
  {i \in 1 .. Len(g) - 1 :
     /\ p # g[i]
     /\ OnSegment(p, g[i], g[i + 1])
     /\ i = Len(g) - 1 => p # EndPoint(g)}

\* The pieces cut at p, where a line may pass twice.
CutAt(pieces, p) ==
  LET cut(g) == IF Passages(g, p) = {} THEN {g}
                ELSE LET i == Min(Passages(g, p)) IN {HeadAt(g, i, p), TailAt(g, i, p)}
  IN  UNION {UNION {cut(h) : h \in cut(g)} : g \in pieces}

Pieces(s, g) == FoldSet(LAMBDA p, pieces : CutAt(pieces, p), {g}, CutPoints(s, g))

Covers(g, h) == \A t \in Segments(h) :
  \A p \in {t[1], t[2], InteriorPoint(t)} : Passes(g, p)

\* _rtt_GetEqualEdge
EqualEdges_mutant(s, g) == {e \in DOMAIN s.edge : s.line[e] = g}
EqualEdges(s, g) == {e \in DOMAIN s.edge : Covers(s.line[e], g) /\ Covers(g, s.line[e])}

NodesAt(s, p) == {n \in DOMAIN s.node : s.point[n] = p}

\* _rtt_AddEdge as it is called here: with faces as rtt_AddEdgeModFace, without
\* them (modFace = -1) it takes the face it knows, or none, and splits nothing.
AddEdgeTo(s, n1, n2, g, faces) ==
  UNION {UNION {
    LET f == NewEdgeSides(s, n1, n2, a1, a2).left
    IN  IF /\ CanAddEdge(s, n1, n2, g)
           /\ SidesAgree(s, n1, n2, a1, a2, faces)
           /\ faces => f # -1
        THEN {Done(IF faces THEN AddEdgeModFace(s, n1, n2, g, f, a1, a2, e, nf, spare)
                   ELSE LinkEdge(s, n1, n2, g, f, a1, a2, e)) :
                e \in EdgeIdIn(s, g), spare \in FaceIdIn(s, {nf})}
        ELSE {Failed(s)} :
      a1 \in StartEnds(s, n1, n2, g), a2 \in EndEnds(s, n1, n2, g)} :
    nf \in FaceIdIn(s, {})}

\* _rtt_AddLineEdge: the ends are added as points first, which may split edges
\* and thereby make the edge that equals the piece.
JoinEnds(s, g, faces) ==
  IF EqualEdges(s, g) # {} THEN {Done(s)}
  ELSE UNION {AddEdgeTo(s, n1, n2, g, faces) :
                n1 \in NodesAt(s, StartPoint(g)), n2 \in NodesAt(s, EndPoint(g))}

AddLineEdge(s, g, faces) ==
  UNION {UNION {JoinEnds(ended, g, faces) :
                  ended \in AddPoint(started, EndPoint(g), faces)} :
         started \in AddPoint(s, StartPoint(g), faces)}

\* _rtt_AddLine: the pieces are cut from what is there before the first of them
\* is added, and added one by one until one fails.
AddLine(s, g, faces) ==
  LET after[done \in SUBSET Pieces(s, g)] ==
        IF done = {} THEN {Done(s)}
        ELSE UNION {UNION {
               IF o.ok THEN AddLineEdge(o.topo, h, faces) ELSE {o} :
                 o \in after[done \ {h}]} : h \in done}
  IN  after[Pieces(s, g)]

-----------------------------------------------------------------------------
(* rtt_AddPolygon                                                          *)

AddPolygon(s, rings) ==
  LET add(ring, o) == IF o.ok THEN AddLine(o.topo, ring, TRUE) ELSE {o}
      added[i \in 0 .. Len(rings)] ==
        IF i = 0 THEN {Done(s)} ELSE UNION {add(rings[i], o) : o \in added[i - 1]}
  IN  added[Len(rings)]

\* The returned faces: those in the box of the polygon of which one point, that
\* GEOS finds on their surface, is in the polygon.
IsReturned_mutant(s, rings, f, surfacePoint) ==
  BoxesMeet(s.mbr[f], BoxOf(UNION {Vertices(g) : g \in Range(rings)}))
IsReturned(s, rings, f, surfacePoint) ==
  /\ BoxesMeet(s.mbr[f], BoxOf(UNION {Vertices(g) : g \in Range(rings)}))
  /\ Inside(surfacePoint, Range(rings))

-----------------------------------------------------------------------------
(* rtt_Polygonize                                                          *)

\* The edge side from which a ring is built: edges are visited by identifier,
\* the left side first.
FirstDart(ring) ==
  CHOOSE d \in ring : \A x \in ring :
    EdgeOf(d) < EdgeOf(x) \/ (EdgeOf(d) = EdgeOf(x) /\ d >= x)

\* _rtt_EdgeRingContainsPoint: an odd number of segments crosses the ray from p to
\* the right; p itself is not on the ray.
EdgeRingContainsPoint(s, ring, p) ==
  LET crosses(a, b) == IF b[2] > a[2] THEN Cross(a, b, p) > 0 ELSE Cross(a, b, p) < 0
      crossing(g)   == {t \in Segments(g) : /\ (t[1][2] > p[2]) # (t[2][2] > p[2])
                                            /\ crosses(t[1], t[2])}
  IN  MapThenSumSet(LAMBDA g : Cardinality(crossing(g)), RingLines(s, ring)) % 2 = 1

\* _rtt_FindFaceContainingRing: the last of the candidate shells, in the order
\* of the index, that passes the tests.
ContainingShells_mutant(s, ring, order) ==
  LET box  == RingBox(s, ring)
      contains(b, c) == BoxUnion(b, c) = b
      better(best, shell) ==
        IF /\ EdgeOf(FirstDart(shell)) # EdgeOf(FirstDart(ring))
           /\ RingBox(s, shell) # box
           /\ contains(RingBox(s, shell), box)
           /\ \A b \in best : contains(RingBox(s, b), RingBox(s, shell))
        THEN {shell} ELSE best
  IN  FoldLeft(better, {}, order)
ContainingShells(s, ring, order) ==
  LET box  == RingBox(s, ring)
      p    == s.line[EdgeOf(FirstDart(ring))][1]
      contains(b, c) == BoxUnion(b, c) = b
      better(best, shell) ==
        IF /\ EdgeOf(FirstDart(shell)) # EdgeOf(FirstDart(ring))
           /\ RingBox(s, shell) # box
           /\ contains(RingBox(s, shell), box)
           /\ \A b \in best : contains(RingBox(s, b), RingBox(s, shell))
           /\ EdgeRingContainsPoint(s, shell, p)
        THEN {shell} ELSE best
  IN  FoldLeft(better, {}, order)

ShellRings(s) == {r \in Rings(s) : RingSweep(s, r) > 0}

\* The identifier the backend gives to the i-th face of an empty table.
NthFaceId(i) == {f \in FaceIds : Cardinality({x \in FaceIds : x <= f}) = i}

\* Rings are visited in the order of the sides they are built from.
ShellFaceId(shells, r) ==
  NthFaceId(Cardinality({x \in shells : FirstDart(x \cup r) \in x}))

\* _rtt_RegisterFaceOnEdgeSide: the face of each counterclockwise ring.
ShellFaces(s) ==
  LET shells == ShellRings(s)
  IN  [r \in shells |-> CHOOSE f \in ShellFaceId(shells, r) : TRUE]

\* _rtt_UpdateEdgeRingSideFace of every ring, with the face it is given.
WithSideFaces(s, faceOf) ==
  LET left(d) == faceOf[CHOOSE r \in DOMAIN faceOf : d \in r]
  IN  [s EXCEPT !.edge = [e \in DOMAIN @ |->
         [s.edge[e] EXCEPT !.face_left = left(e), !.face_right = left(-e)]]]

\* Every shell is a new face; the other rings go to the face of the shell found
\* around them, or to the universe.
Polygonize(s) ==
  LET faceOf  == ShellFaces(s)
      shells  == DOMAIN faceOf
      holes   == Rings(s) \ shells
      near(r) == {x \in shells : InBox(s.line[EdgeOf(FirstDart(r))][1], RingBox(s, x))}
      faceIn(h) == IF h = {} THEN Universe ELSE faceOf[CHOOSE x \in h : TRUE]
      around  == UNION {{<<r, faceIn(ContainingShells(s, r, order))>> :
                           order \in SetToSeqs(near(r))} : r \in holes}
      given   == {f \in [holes -> {Universe} \cup Range(faceOf)] :
                    \A r \in holes : <<r, f[r]>> \in around}
      mbrOf(f) == RingBox(s, CHOOSE r \in shells : faceOf[r] = f)
      faces(f) == [r \in Rings(s) |-> IF r \in shells THEN faceOf[r] ELSE f[r]]
  IN  {[WithSideFaces(s, faces(f)) EXCEPT !.mbr = [x \in Range(faceOf) |-> mbrOf(x)]] :
         f \in given}

-----------------------------------------------------------------------------
(* The functions of librttopo.h.                                           *)

Leaves(topologies, load) ==
  /\ Cardinality(DOMAIN edge) <= MaxEdges
  /\ \E t \in topologies : Commit(t)
  /\ loading' = load

\* What a call leaves when it succeeds.
Successes(outcomes) == {o.topo : o \in {x \in outcomes : x.ok}}

rtt_AddPoint ==
  /\ "AddPoint" \in Ops
  /\ ~ loading
  /\ \E p \in Sites : Leaves(AddPoint(db, p, TRUE), FALSE)

rtt_AddLine ==
  /\ "AddLine" \in Ops
  /\ ~ loading
  /\ \E g \in Curves : Leaves(Successes(AddLine(db, g, TRUE)), FALSE)

rtt_AddPolygon ==
  /\ "AddPolygon" \in Ops
  /\ ~ loading
  /\ \E q \in Polygons : Leaves(Successes(AddPolygon(db, q)), FALSE)

rtt_AddLineNoFace ==
  /\ "AddLineNoFace" \in Ops
  /\ mbr = EmptyTable
  /\ \E g \in Curves : Leaves(Successes(AddLine(db, g, FALSE)), TRUE)

rtt_Polygonize ==
  /\ "Polygonize" \in Ops
  /\ mbr = EmptyTable
  /\ \A n \in DOMAIN node : node[n] = NotIsolated
  /\ \A r \in ShellRings(db) : ShellFaceId(ShellRings(db), r) # {}
  /\ \E t \in Polygonize(db) : Commit(t)
  /\ loading' = FALSE

PopulateInit == Init /\ loading = FALSE

\* The header warns that AddLineNoFace leaves the topology in an invalid state and
\* that Polygonize assigns no isolated node to a face: until then only further
\* lines are loaded, and there is no such node.  FaceIds bounds the faces it can
\* build.
PopulateNext ==
  \/ rtt_AddPoint \/ rtt_AddLine \/ rtt_AddPolygon
  \/ rtt_AddLineNoFace \/ rtt_Polygonize
  \/ ~ loading /\ NextCall /\ UNCHANGED loading

PopulateSpec == PopulateInit /\ [][PopulateNext]_<<vars, loading>>

-----------------------------------------------------------------------------
(* Properties.                                                             *)

\* Whatever the populating functions put together out of editing operations,
\* edges stay planar and linked, also while faces are missing, and once they
\* are there the tables are a partition.
PartitionUnlessLoading ==
  /\ IsPlanar(db)
  /\ LinksTurnClockwise(db)
  /\ ~ loading => IsValid(db)

Ground(s)    == {p \in Probes : \E e \in DOMAIN s.edge : Passes(s.line[e], p)}

\* In no order of its pieces does adding line g fail ("crosses a node",
\* "side-location conflict", ...), and afterwards edges run exactly where they ran
\* and where the line runs.
Stores(g, faces) ==
  LET outcomes == AddLine(db, g, faces)
      ground   == Ground(db) \cup {p \in Probes : Passes(g, p)}
  IN  outcomes # {} /\ \A o \in outcomes : o.ok /\ Ground(o.topo) = ground

\* Nothing in the tables names a face.
NamesNoFace ==
  /\ mbr = EmptyTable
  /\ \A n \in DOMAIN node : node[n] = NotIsolated
  /\ \A e \in DOMAIN edge : {edge[e].face_left, edge[e].face_right} = {-1}

\* Any line can be added to a valid topology, and loaded without faces on top of
\* lines that were, whatever it crosses, touches or runs along.
LineIsStored ==
  \A g \in Curves, faces \in BOOLEAN :
    (IF faces THEN ~ loading ELSE NamesNoFace) => Stores(g, faces)

\* The faces kept by splitting them edge by edge are those rtt_Polygonize builds
\* from nothing, up to their identifiers, with the same boxes.
PolygonizeAgrees ==
  ~ loading =>
    \A t \in Polygonize([db EXCEPT !.mbr = EmptyTable]) :
      LET alike == {<<Left(db, d), Left(t, d)>> : d \in DartsOf(db)}
      IN  /\ \A a, b \in alike : (a[1] = b[1]) = (a[2] = b[2])
          /\ \A a \in alike : IF a[1] = Universe THEN a[2] = Universe
                              ELSE a[2] # Universe /\ mbr[a[1]] = t.mbr[a[2]]

\* The faces rtt_AddPolygon returns "sewed together will build up the input
\* polygon", whichever point of each face GEOS looks at.
PolygonIsTiled ==
  ~ loading =>
    \A q \in Polygons : \A o \in AddPolygon(db, q) :
      LET faceAt == [p \in Atoms |-> FaceContaining(o.topo, p)]
      IN  /\ o.ok
          /\ \A p, r \in Atoms : faceAt[p] = faceAt[r] =>
               Inside(p, Range(q)) =
                 (faceAt[r] # Universe /\ IsReturned(o.topo, q, faceAt[r], r))
=============================================================================
