-------------------------------- MODULE TpSnap -------------------------------
(***************************************************************************)
(* Snapping a geometry to the edges of a topology (rtt_tpsnap): the point  *)
(* arrays of its lines and rings are visited one after the other.  To each *)
(* the vertices of near edges are added, then its own vertices that are    *)
(* near the inside of an edge segment are removed, and again while that    *)
(* changes something and iterating was asked for.  One step adds or        *)
(* removes one vertex, or looks at one.                                    *)
(***************************************************************************)
EXTENDS PlanarGeometry

CONSTANT Jobs   \* what is snapped to what: records with the point arrays of
                \* the geometry, the edges of the topology, the tolerances
                \* `snap` and `removal` (-1 for none), and `iterate`

VARIABLES
  job,        \* the call
  arrays,     \* the geometry as far as it is snapped
  current,    \* which array is visited
  phase,      \* "visit", "add", "remove" or "done"
  extent,     \* expanded_workext: where vertices of edges are looked for
  workedges,  \* which edges were fetched from the backend; none yet when empty
  vertex,     \* the vertex that may be removed next
  removed     \* vertices removed in this round
snapVars == <<job, arrays, current, phase, extent, workedges, vertex, removed>>

SnapInit ==
  /\ job \in Jobs
  /\ arrays = job.arrays /\ current = 1 /\ phase = "visit"
  /\ extent = BoxOf({<<0, 0>>}) /\ workedges = {} /\ vertex = 2 /\ removed = 0

pa == arrays[current]

-----------------------------------------------------------------------------
(* Distances are fractions, compared by multiplying. *)

LengthSq(a, b) == (b[1] - a[1]) * (b[1] - a[1]) + (b[2] - a[2]) * (b[2] - a[2])
Dot(p, a, b) == (p[1] - a[1]) * (b[1] - a[1]) + (p[2] - a[2]) * (b[2] - a[2])

\* rt_dist2d_pt_seg, squared
DistanceSq(p, a, b) ==
  IF LengthSq(a, b) = 0 \/ Dot(p, a, b) <= 0 THEN [num |-> LengthSq(p, a), den |-> 1]
  ELSE IF Dot(p, a, b) >= LengthSq(a, b) THEN [num |-> LengthSq(p, b), den |-> 1]
  ELSE [num |-> Cross(a, b, p) * Cross(a, b, p), den |-> LengthSq(a, b)]
Nearer(d, e) == d.num * e.den < e.num * d.den
Within(d, tolerance) == d.num <= tolerance * tolerance * d.den

\* The first of the nearest: the best so far only gives way to a nearer one.
FirstNearest(dist) ==
  CHOOSE i \in DOMAIN dist : \A j \in DOMAIN dist :
    ~ Nearer(dist[j], dist[i]) /\ (j < i => Nearer(dist[i], dist[j]))

\* _rt_find_closest_segment
ClosestSegment(p, g) ==
  LET dist  == [i \in 1..(Len(g) - 1) |-> DistanceSq(p, g[i], g[i + 1])]
      first == FirstNearest(dist)
  IN  [segno |-> first, dist |-> dist[first]]

\* closest_point_on_segment is neither end.
ProjectsInside(p, a, b) == 0 < Dot(p, a, b) /\ Dot(p, a, b) < LengthSq(a, b)

\* Edges of a topology: no vertex of one is on the inside of a segment.
MeetAtVertices(edges) ==
  \A i, j \in DOMAIN edges : \A p \in Vertices(edges[i]) : \A k \in 1..(Len(edges[j]) - 1) :
    ~ (Cross(edges[j][k], edges[j][k + 1], p) = 0 /\ ProjectsInside(p, edges[j][k], edges[j][k + 1]))

ASSUME JobsAssumption ==
  \A j \in Jobs : /\ j.snap \in Nat /\ j.removal \in Int /\ j.iterate \in BOOLEAN
                  /\ j.arrays \in Seq({g \in Seq(Point) : Len(g) >= 2})
                  /\ j.edges \in Seq(Line) /\ MeetAtVertices(j.edges)

-----------------------------------------------------------------------------
(* The edges that are worked with *)

Expanded(box, d) ==
  [lo |-> <<box.lo[1] - d, box.lo[2] - d>>, hi |-> <<box.hi[1] + d, box.hi[2] + d>>]

\* getEdgeWithinBox2D
EdgesWithin(box) == {i \in DOMAIN job.edges : BoxesMeet(LineBox(job.edges[i]), box)}

\* rtgeom_tpsnap_state_get_edges: fetched when there are none.
Known == IF workedges = {} THEN EdgesWithin(extent) ELSE workedges

\* _rt_find_vertices_within_dist: vertices of edges in the extent and near g,
\* each with the segment of g it is nearest to
SnapVertex(p, closest) == [pt |-> p, segno |-> closest.segno, dist |-> closest.dist]
NearVertices(g, edges, box) ==
  {v \in {SnapVertex(p, ClosestSegment(p, g)) :
            p \in {q \in UNION {Vertices(job.edges[i]) : i \in edges} : InBox(q, box)}} :
     Within(v.dist, job.snap)}

\* _rt_segment_covered (GEOSCovers): ends and middle on the edge
Covered(a, b, edges) ==
  \E i \in edges :
    \A p \in {a, b, <<(a[1] + b[1]) \div 2, (a[2] + b[2]) \div 2>>} : Passes(job.edges[i], p)

\* _rt_snap_to_valid_vertex, its conditions
IsValidSnap(v, a, b, edges) == ProjectsInside(v.pt, a, b) /\ ~ Covered(a, b, edges)
ValidSnaps(g, edges, box) ==
  {v \in NearVertices(g, edges, box) : IsValidSnap(v, g[v.segno], g[v.segno + 1], edges)}

\* compare_snapv
SnapsBefore(v, w) ==
  Nearer(v.dist, w.dist) \/ (~ Nearer(w.dist, v.dist) /\ Before(v.pt, w.pt))
FirstSnap(found) == CHOOSE v \in found : \A w \in found \ {v} : SnapsBefore(v, w)
Snapped_mutant(g, v) == InsertAt(g, v.segno, v.pt)
Snapped(g, v) == InsertAt(g, v.segno + 1, v.pt)

\* What removes vertex p: the first of the nearest edges within the
\* tolerance, if p is beside the inside of its closest segment.
OnEdge_mutant(p, g, closest) == [dist |-> closest.dist, inside |-> TRUE]
OnEdge(p, g, closest) ==
  [dist |-> closest.dist,
   inside |-> ProjectsInside(p, g[closest.segno], g[closest.segno + 1])]
Removable(p, edges) ==
  \E found \in {[i \in edges |-> OnEdge(p, job.edges[i], ClosestSegment(p, job.edges[i]))]} :
    \E near \in {{i \in edges : Within(found[i].dist, job.removal)}} :
      near # {} /\ found[FirstNearest([i \in near |-> found[i].dist])].inside

-----------------------------------------------------------------------------
(* Steps *)

\* _rtgeom_tpsnap_ptarray begins: the extent is the array's, the edges are
\* those that were fetched before.
Visit ==
  /\ phase = "visit" /\ current <= Len(arrays)
  /\ extent' = Expanded(LineBox(pa), job.snap)
  /\ phase' = "add"
  /\ UNCHANGED <<job, arrays, current, workedges, vertex, removed>>
Finish ==
  /\ phase = "visit" /\ current > Len(arrays)
  /\ phase' = "done"
  /\ UNCHANGED <<job, arrays, current, extent, workedges, vertex, removed>>

Leave == phase' = "visit" /\ current' = current + 1

\* After the additions: the removals, or the next array.
StartRemoving ==
  /\ vertex' = 2 /\ removed' = 0
  /\ IF job.removal >= 0 THEN phase' = "remove" /\ UNCHANGED current ELSE Leave

\* _rtgeom_tpsnap_ptarray_add: one vertex, and the next one when iterating.
AddVertex_mutant(found) ==
  /\ found # {}
  /\ arrays' = [arrays EXCEPT ![current] = Snapped(@, FirstSnap(found))]
  /\ StartRemoving
AddVertex(found) ==
  /\ found # {}
  /\ arrays' = [arrays EXCEPT ![current] = Snapped(@, FirstSnap(found))]
  /\ IF job.iterate THEN UNCHANGED <<phase, vertex, removed, current>> ELSE StartRemoving
NothingToAdd(found) ==
  /\ found = {}
  /\ StartRemoving
  /\ UNCHANGED arrays
Add ==
  /\ phase = "add"
  /\ workedges' = Known
  /\ \E found \in {ValidSnaps(pa, workedges', extent)} : AddVertex(found) \/ NothingToAdd(found)
  /\ UNCHANGED <<job, extent>>

\* _rtgeom_tpsnap_ptarray_remove
RemoveVertex ==
  /\ phase = "remove" /\ vertex < Len(pa)
  /\ Removable(pa[vertex], Known)
  /\ arrays' = [arrays EXCEPT ![current] = RemoveAt(@, vertex)]
  /\ removed' = removed + 1
  /\ workedges' = Known
  /\ UNCHANGED <<job, current, phase, extent, vertex>>
KeepVertex ==
  /\ phase = "remove" /\ vertex < Len(pa)
  /\ ~ Removable(pa[vertex], Known)
  /\ vertex' = vertex + 1
  /\ workedges' = Known
  /\ UNCHANGED <<job, arrays, current, phase, extent, removed>>
EndRound ==
  /\ phase = "remove" /\ vertex >= Len(pa)
  /\ IF removed > 0 /\ job.iterate THEN phase' = "add" /\ UNCHANGED current ELSE Leave
  /\ workedges' = Known
  /\ UNCHANGED <<job, arrays, extent, vertex, removed>>

SnapNext == \/ Visit \/ Finish \/ Add
            \/ RemoveVertex \/ KeepVertex \/ EndRound

SnapSpec == SnapInit /\ [][SnapNext]_snapVars

-----------------------------------------------------------------------------
(* Properties *)

\* Type correctness.
SnapTypeOK ==
  /\ job \in Jobs /\ DOMAIN arrays = DOMAIN job.arrays
  /\ \A k \in DOMAIN arrays : arrays[k] \in Seq(Point) /\ Len(arrays[k]) >= 2
  /\ current \in 1..(Len(arrays) + 1)
  /\ phase \in {"visit", "add", "remove", "done"}
  /\ vertex \in Nat /\ removed \in Nat

\* Snapping moves no end of a line and puts in nothing but vertices of the
\* topology.
SnapKeepsEnds ==
  \A k \in DOMAIN arrays :
    /\ arrays[k][1] = job.arrays[k][1] /\ Last(arrays[k]) = Last(job.arrays[k])
    /\ Vertices(arrays[k]) \subseteq
         Vertices(job.arrays[k]) \cup UNION {Vertices(job.edges[i]) : i \in DOMAIN job.edges}

\* An added vertex is not lost again to the removals: no step takes out of an
\* array what is a vertex of an edge that is worked with, as every added one is.
SnapKeepsAdded ==
  [][\A k \in DOMAIN arrays :
       Vertices(arrays[k]) \cap UNION {Vertices(job.edges[i]) : i \in workedges}
         \subseteq Vertices(arrays'[k])]_snapVars

ExtentOf(k) == Expanded(LineBox(job.arrays[k]), job.snap)
FinishedArray(k) == k < current

\* The edges known after array k: those near the first array that has any.
KnownFor(k) ==
  {i \in DOMAIN job.edges :
     \E m \in 1..k : /\ i \in EdgesWithin(ExtentOf(m))
                     /\ \A l \in 1..(m - 1) : EdgesWithin(ExtentOf(l)) = {}}

\* With `iterate`, an array that was left has settled: there is no vertex of
\* the edges known to it that could still be added, and none of its own that
\* could be removed, although additions and removals make room for each other.
SnapSettles ==
  \A k \in DOMAIN arrays :
    FinishedArray(k) /\ job.iterate =>
      /\ ValidSnaps(arrays[k], KnownFor(k), ExtentOf(k)) = {}
      /\ job.removal >= 0 =>
           \A i \in 2..(Len(arrays[k]) - 1) : ~ Removable(arrays[k][i], KnownFor(k))

\* Every array is snapped to all the edges of the topology near it, not only
\* the first one.  rtt_tpsnap.c:108-109 says of the edges that are kept: "Edges
\* within workext, will be updated as needed as workext extends".
SnapsToAllEdges ==
  \A k \in DOMAIN arrays :
    FinishedArray(k) /\ job.iterate =>
      ValidSnaps(arrays[k], EdgesWithin(ExtentOf(k)), ExtentOf(k)) = {}
=============================================================================
