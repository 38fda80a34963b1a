------------------------------ MODULE Topology ------------------------------
(***************************************************************************)
(* The tables of a topology and what the editor reads from them.           *)
(*                                                                         *)
(* librttopo keeps no state of its own: the NODE, EDGE and FACE tables     *)
(* live behind the callbacks of a backend, and so do the TopoGeometry      *)
(* objects that are composed of their rows.  A topology is here a record   *)
(* s of tables, each a function from the identifiers in use to a row:      *)
(*                                                                         *)
(*   s.node    containing_face of each node, NotIsolated (-1) when edges   *)
(*             end on it                                                   *)
(*   s.point   geom of each node                                           *)
(*   s.edge    the identifiers of each edge: nodes, next edges, side faces *)
(*   s.line    geom of each edge                                           *)
(*   s.mbr     mbr of each face, the universe face (0) excluded            *)
(*   s.areal   the faces composing one areal TopoGeometry                  *)
(*   s.lineal  the edges composing one lineal TopoGeometry                 *)
(*                                                                         *)
(* A signed edge identifier d, a dart, is the edge walked forward along    *)
(* its left side (d > 0) or backward along its right side (d < 0), as in   *)
(* getRingEdges.                                                           *)
(***************************************************************************)
EXTENDS PlanarGeometry

CONSTANTS
  NodeIds,      \* identifiers of nodes
  EdgeIds,      \* identifiers of edges
  FaceIds       \* identifiers of faces, the universe face excluded

ASSUME IdentifiersArePositive ==
  /\ NodeIds \subseteq Nat \ {0}
  /\ EdgeIds \subseteq Nat \ {0}
  /\ FaceIds \subseteq Nat \ {0}

NotIsolated == -1
Universe    == 0
Faces       == FaceIds \cup {Universe}
Darts       == EdgeIds \cup {-e : e \in EdgeIds}

EdgeRow ==
  [start_node : NodeIds, end_node   : NodeIds,
   next_left  : Darts,   next_right : Darts,
   face_left  : Faces,   face_right : Faces]

\* The identifiers in the tables are of the right kind.
IsTopology(s) ==
  /\ DOMAIN s.node \subseteq NodeIds
  /\ \A n \in DOMAIN s.node : s.node[n] \in Faces \cup {NotIsolated}
  /\ DOMAIN s.edge \subseteq EdgeIds
  /\ \A e \in DOMAIN s.edge : s.edge[e] \in EdgeRow
  /\ DOMAIN s.point = DOMAIN s.node
  /\ DOMAIN s.line = DOMAIN s.edge
  /\ DOMAIN s.mbr \subseteq FaceIds
  /\ s.areal \subseteq Faces
  /\ s.lineal \subseteq EdgeIds

EmptyTable == [x \in {} |-> x]

\* A table with a row added or replaced, and without some of its rows.
WithRow(t, id, row) ==
  [x \in DOMAIN t \cup {id} |-> IF x = id THEN row ELSE t[x]]
WithoutRows(t, ids) == [x \in DOMAIN t \ ids |-> t[x]]

-----------------------------------------------------------------------------
(* Darts.                                                                  *)

EdgeOf(d) == IF d > 0 THEN d ELSE -d

DartsOf(s) == DOMAIN s.edge \cup {-e : e \in DOMAIN s.edge}

Origin(s, d) == IF d > 0 THEN s.edge[d].start_node ELSE s.edge[-d].end_node
Target(s, d) == Origin(s, -d)
Left(s, d)   == IF d > 0 THEN s.edge[d].face_left ELSE s.edge[-d].face_right
Next(s, d)   == IF d > 0 THEN s.edge[d].next_left ELSE s.edge[-d].next_right
Path(s, d)   == IF d > 0 THEN s.line[d] ELSE Reverse(s.line[-d])

\* The direction in which the dart leaves its origin.
Leaving(s, d) == LET g == Path(s, d) IN Direction(g[1], g[2])

DartsAt(s, n) == {d \in DartsOf(s) : Origin(s, d) = n}
Incident(s, n) == {e \in DOMAIN s.edge : n \in {s.edge[e].start_node, s.edge[e].end_node}}

\* getRingEdges: the darts visited by the walk that starts with d and follows
\* next_left and next_right.
Ring(s, d) ==
  LET steps == 2 * Cardinality(DOMAIN s.edge)
      walk[i \in 0 .. steps] == IF i = 0 THEN d ELSE Next(s, walk[i - 1])
  IN  {walk[i] : i \in 0 .. steps}

Rings(s) == {Ring(s, d) : d \in DartsOf(s)}

RingLines(s, r) == {Path(s, d) : d \in r}
RingSweep(s, r) == MapThenSumSet(LAMBDA d : Sweep(Path(s, d)), r)
RingBox(s, r)   == BoxOf(UNION {Vertices(g) : g \in RingLines(s, r)})

-----------------------------------------------------------------------------
(* Spatial reads of the backend.                                           *)

ExistsCoincidentNode(s, p) == \E n \in DOMAIN s.node : s.point[n] = p

ExistsEdgeIntersectingPoint(s, p) ==
  \E e \in DOMAIN s.edge : Passes(s.line[e], p)

\* getFaceContainingPoint, for a point on no edge: the face on the left of the
\* innermost counterclockwise ring around the point, the universe when none.
FaceContaining(s, p) ==
  LET around    == {r \in Rings(s) : RingSweep(s, r) > 0 /\ Inside(p, RingLines(s, r))}
      innermost == {r \in around : \A y \in around : RingSweep(s, r) <= RingSweep(s, y)}
      faces     == {Left(s, d) : d \in DartsOf(s) \cap UNION innermost}
  IN  IF faces = {} THEN Universe ELSE CHOOSE f \in faces : TRUE

\* The new line g between nodes n1 and n2 passes through another node, or its
\* interior meets the interior of an edge other than `myself`.
EdgeCrossing(s, n1, n2, g, myself) ==
  \/ \E n \in DOMAIN s.node \ {n1, n2} : InInterior(s.point[n], g)
  \/ \E e \in DOMAIN s.edge \ {myself} :
       /\ BoxesMeet(LineBox(s.line[e]), LineBox(g))
       /\ InteriorsMeet(s.line[e], g)

\* The darts met first and last turning clockwise around node n from the
\* direction u of an edge end, as records of signed edge identifiers; 0 stands
\* for none, or for the other end of the edge itself, when it is closed and
\* leaves the node in the single direction of `others`.  Edge `myself` is not
\* looked at.
AdjacentEnds(s, n, u, others, myself) ==
  LET ends == {[id |-> d, dir |-> Leaving(s, d)] :
                 d \in {x \in DartsAt(s, n) : EdgeOf(x) # myself}}
              \cup {[id |-> 0, dir |-> v] : v \in others}
  IN  IF ends = {} THEN {[cw |-> 0, ccw |-> 0]}
      ELSE {[cw |-> a.id, ccw |-> b.id] :
              a \in {x \in ends : \A y \in ends : ~ MetBefore(u, y.dir, x.dir)},
              b \in {x \in ends : \A y \in ends : ~ MetBefore(u, x.dir, y.dir)}}

\* The faces the adjacent ends bind on the side of the new end, -1 unknown.
CwFace(s, a)  == IF a.cw = 0 THEN -1 ELSE Left(s, a.cw)
CcwFace(s, a) == IF a.ccw = 0 THEN -1 ELSE Left(s, -a.ccw)
=============================================================================
