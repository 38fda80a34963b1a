-------------------------- MODULE TopoPlanar_proofs --------------------------
(***************************************************************************)
(* The topology stays a plane drawing: whatever is added, split, healed,   *)
(* moved, reshaped and removed, every edge is a simple line between the    *)
(* points of its nodes, and edges meet nodes and each other at their ends  *)
(* only.  It holds for all integer coordinates, lines of any length, sets  *)
(* of identifiers and calls.                                               *)
(*                                                                         *)
(* Planar is not inductive: InteriorsMeet looks at vertices and crossings, *)
(* while cutting or joining lines needs to know of every point, and a node *)
(* that is moved or removed must be known to end no edge.  The inductive   *)
(* invariant is Sound(db) /\ Flat(db), where Flat states ShareInterior (a  *)
(* common point of any rational coordinates) in the place of InteriorsMeet *)
(* and that the lines are lines.  PlanarGeometry_proofs shows that the two *)
(* agree, that the box filter of the spatial index hides no crossing, and  *)
(* what cutting, reversing and joining do to the points of a line.         *)
(***************************************************************************)
EXTENDS TopoEdit_proofs, PlanarGeometry_proofs

-----------------------------------------------------------------------------
(* The inductive invariant.                                                *)

EdgeDrawn(s, e) ==
  /\ s.line[e] \in Line
  /\ IsSimple(s.line[e])
  /\ s.edge[e].start_node \in DOMAIN s.node
  /\ s.edge[e].end_node \in DOMAIN s.node
  /\ StartPoint(s.line[e]) = s.point[s.edge[e].start_node]
  /\ EndPoint(s.line[e]) = s.point[s.edge[e].end_node]
  /\ \A n \in DOMAIN s.node : ~ InInterior(s.point[n], s.line[e])

NodesPlaced(s) ==
  /\ \A n \in DOMAIN s.node : s.point[n] \in Point
  /\ \A m, n \in DOMAIN s.node : s.point[m] = s.point[n] => m = n

Flat(s) ==
  /\ NodesPlaced(s)
  /\ \A e \in DOMAIN s.edge : EdgeDrawn(s, e)
  /\ \A e, x \in DOMAIN s.edge : e # x => ~ ShareInterior(s.line[e], s.line[x])

LEMMA FlatIsPlanar ==
  ASSUME NEW s, Flat(s)
  PROVE  IsPlanar(s)
<1>1. \A m, n \in DOMAIN s.node : s.point[m] = s.point[n] => m = n
  BY DEF Flat, NodesPlaced
<1>2. ASSUME NEW e \in DOMAIN s.edge
      PROVE  /\ IsSimple(s.line[e])
             /\ {s.edge[e].start_node, s.edge[e].end_node} \subseteq DOMAIN s.node
             /\ StartPoint(s.line[e]) = s.point[s.edge[e].start_node]
             /\ EndPoint(s.line[e]) = s.point[s.edge[e].end_node]
             /\ \A n \in DOMAIN s.node : ~ InInterior(s.point[n], s.line[e])
             /\ \A x \in DOMAIN s.edge \ {e} : ~ InteriorsMeet(s.line[e], s.line[x])
  <2>1. EdgeDrawn(s, e)
    BY DEF Flat
  <2>2. ASSUME NEW x \in DOMAIN s.edge \ {e}, InteriorsMeet(s.line[e], s.line[x])
        PROVE  FALSE
    <3>1. EdgeDrawn(s, x) /\ ~ ShareInterior(s.line[e], s.line[x])
      BY DEF Flat
    <3>2. s.line[e] \in Line /\ IsSimple(s.line[e]) /\ s.line[x] \in Line /\ IsSimple(s.line[x])
      BY <2>1, <3>1 DEF EdgeDrawn
    <3> QED BY <2>2, <3>1, <3>2, MeetingInteriorsShare
  <2> QED BY <2>1, <2>2 DEF EdgeDrawn
<1> QED BY <1>1, <1>2 DEF IsPlanar

LEMMA SharingIsSymmetric ==
  ASSUME NEW g, NEW h, ShareInterior(g, h)
  PROVE  ShareInterior(h, g)
BY DEF ShareInterior

-----------------------------------------------------------------------------
(* Changes of a drawing.                                                   *)

\* t draws some of the nodes and edges of s, and all ends of these edges.
DrawsPartOf(t, s) ==
  /\ DOMAIN t.node \subseteq DOMAIN s.node
  /\ \A n \in DOMAIN t.node : t.point[n] = s.point[n]
  /\ DOMAIN t.edge \subseteq DOMAIN s.edge
  /\ \A e \in DOMAIN t.edge :
       /\ t.line[e] = s.line[e]
       /\ t.edge[e].start_node = s.edge[e].start_node
       /\ t.edge[e].end_node = s.edge[e].end_node
       /\ t.edge[e].start_node \in DOMAIN t.node
       /\ t.edge[e].end_node \in DOMAIN t.node

LEMMA PartIsFlat ==
  ASSUME NEW s, Flat(s), NEW t, DrawsPartOf(t, s)
  PROVE  Flat(t)
<1>1. NodesPlaced(t)
  BY DEF DrawsPartOf, Flat, NodesPlaced
<1>2. ASSUME NEW e \in DOMAIN t.edge
      PROVE  EdgeDrawn(t, e)
  <2>1. EdgeDrawn(s, e)
    BY DEF DrawsPartOf, Flat
  <2> QED BY <2>1 DEF DrawsPartOf, EdgeDrawn
<1>3. \A e, x \in DOMAIN t.edge : e # x => ~ ShareInterior(t.line[e], t.line[x])
  BY DEF DrawsPartOf, Flat
<1> QED BY <1>1, <1>2, <1>3 DEF Flat

\* t draws what r draws, with one more node n.
LEMMA NodeDrawn ==
  ASSUME NEW r, Flat(r), NEW t, NEW n, NEW p \in Point,
         DOMAIN t.node = DOMAIN r.node \cup {n}, n \notin DOMAIN r.node, t.point[n] = p,
         \A m \in DOMAIN r.node : t.point[m] = r.point[m] /\ r.point[m] # p,
         DOMAIN t.edge = DOMAIN r.edge,
         \A e \in DOMAIN r.edge : /\ t.line[e] = r.line[e]
                                  /\ t.edge[e].start_node = r.edge[e].start_node
                                  /\ t.edge[e].end_node = r.edge[e].end_node
                                  /\ ~ InInterior(p, r.line[e])
  PROVE  Flat(t)
<1>1. NodesPlaced(t)
  BY DEF Flat, NodesPlaced
<1>2. ASSUME NEW e \in DOMAIN t.edge
      PROVE  EdgeDrawn(t, e)
  <2>1. EdgeDrawn(r, e)
    BY DEF Flat
  <2> QED BY <2>1 DEF EdgeDrawn
<1>3. \A e, x \in DOMAIN t.edge : e # x => ~ ShareInterior(t.line[e], t.line[x])
  BY DEF Flat
<1> QED BY <1>1, <1>2, <1>3 DEF Flat

\* t draws what r draws, with one more edge e.
LEMMA EdgeDrawnToo ==
  ASSUME NEW r, Flat(r), NEW t, NEW e,
         DOMAIN t.node = DOMAIN r.node, \A n \in DOMAIN r.node : t.point[n] = r.point[n],
         DOMAIN t.edge = DOMAIN r.edge \cup {e}, e \notin DOMAIN r.edge,
         \A x \in DOMAIN r.edge : /\ t.line[x] = r.line[x]
                                  /\ t.edge[x].start_node = r.edge[x].start_node
                                  /\ t.edge[x].end_node = r.edge[x].end_node
                                  /\ ~ ShareInterior(r.line[x], t.line[e]),
         EdgeDrawn(t, e)
  PROVE  Flat(t)
<1>1. NodesPlaced(t)
  BY DEF Flat, NodesPlaced
<1>2. ASSUME NEW x \in DOMAIN r.edge
      PROVE  EdgeDrawn(t, x)
  <2>1. EdgeDrawn(r, x)
    BY DEF Flat
  <2> QED BY <2>1 DEF EdgeDrawn
<1>3. ASSUME NEW x \in DOMAIN t.edge, NEW y \in DOMAIN t.edge, x # y
      PROVE  ~ ShareInterior(t.line[x], t.line[y])
  <2>1. CASE x = e
    BY <1>3, <2>1, SharingIsSymmetric
  <2>2. CASE y = e
    BY <1>3, <2>2
  <2>3. CASE x # e /\ y # e
    BY <1>3, <2>3 DEF Flat
  <2> QED BY <2>1, <2>2, <2>3
<1> QED BY <1>1, <1>2, <1>3 DEF Flat

\* A line that passes the checks of a new edge: the points of its nodes are its
\* ends, and no crossing is found where the boxes of two lines meet.
LEMMA UncrossedLine ==
  ASSUME NEW s, Flat(s), NEW n1 \in DOMAIN s.node, NEW n2 \in DOMAIN s.node,
         NEW g \in Line, NEW myself,
         StartPoint(g) = s.point[n1], EndPoint(g) = s.point[n2],
         ~ EdgeCrossing(s, n1, n2, g, myself)
  PROVE  /\ \A n \in DOMAIN s.node : ~ InInterior(s.point[n], g)
         /\ \A x \in DOMAIN s.edge \ {myself} : ~ ShareInterior(s.line[x], g)
<1>1. ASSUME NEW n \in DOMAIN s.node
      PROVE  ~ InInterior(s.point[n], g)
  <2>1. CASE n \in {n1, n2}
    BY <2>1 DEF InInterior
  <2>2. CASE n \notin {n1, n2}
    BY <2>2 DEF EdgeCrossing
  <2> QED BY <2>1, <2>2
<1>2. ASSUME NEW x \in DOMAIN s.edge \ {myself}, ShareInterior(s.line[x], g)
      PROVE  FALSE
  <2>1. s.line[x] \in Line
    BY DEF Flat, EdgeDrawn
  <2>2. InteriorsMeet(s.line[x], g)
    BY <1>2, <2>1, SharingInteriorsMeet
  <2>3. BoxesMeet(LineBox(s.line[x]), LineBox(g))
    BY <1>2, <2>1, SharingBoxesMeet
  <2> QED BY <2>2, <2>3 DEF EdgeCrossing
<1> QED BY <1>1, <1>2

-----------------------------------------------------------------------------
(* Changes that draw nothing and leave lineal objects alone.               *)

SameGeometry(s, t) == t.point = s.point /\ t.line = s.line /\ t.lineal = s.lineal

LEMMA RelabellingKeepsFlat ==
  ASSUME NEW s, Flat(s), NEW t, Relabelled(s, t), SameGeometry(s, t)
  PROVE  Flat(t)
<1>1. DrawsPartOf(t, s)
  BY DEF Relabelled, SameGeometry, DrawsPartOf, Flat, EdgeDrawn
<1> QED BY <1>1, PartIsFlat

LEMMA AddFaceSplitKeepsGeometry ==
  ASSUME NEW s, Typed(s), NEW d, NEW face, NEW mbrOnly, NEW nf
  PROVE  SameGeometry(s, AddFaceSplit(s, d, face, mbrOnly, nf).topo)
<1> DEFINE ring    == Ring(s, d)
           isccw   == RingSweep(s, ring) >= 0
           outside == face # Universe /\ ~ isccw
           box     == SplitBox(s, ring, outside, face)
           edges   == [e \in DOMAIN s.edge |-> SplitEdgeRow(s, e, ring, outside, face, nf)]
           nodes   == [n \in DOMAIN s.node |-> SplitNodeFace(s, n, ring, outside, face, nf)]
           narrowed == [s EXCEPT !.mbr[face] = box]
           divided  == [s EXCEPT !.mbr = WithRow(@, nf, box), !.edge = edges, !.node = nodes]
<1>1. AddFaceSplit(s, d, face, mbrOnly, nf).topo \in {s, narrowed, divided}
  BY DEF AddFaceSplit
<1> HIDE DEF box, edges, nodes
<1>2. SameGeometry(s, s) /\ SameGeometry(s, narrowed) /\ SameGeometry(s, divided)
  BY DEF SameGeometry, Typed, Tables
<1> HIDE DEF narrowed, divided
<1> QED BY <1>1, <1>2

LEMMA TopoGeomFaceSplitKeepsGeometry ==
  ASSUME NEW s, Typed(s), NEW f, NEW new1, NEW new2
  PROVE  SameGeometry(s, TopoGeomFaceSplit(s, f, new1, new2))
BY DEF TopoGeomFaceSplit, SameGeometry, Typed, Tables

LEMMA SplitModFaceKeepsGeometry ==
  ASSUME NEW s, Typed(s), NEW e, NEW f \in Faces, NEW nf \in FaceIds, NEW spare \in FaceIds
  PROVE  SameGeometry(s, SplitModFace(s, e, f, nf, spare))
<1> DEFINE onLeft  == AddFaceSplit(s, e, f, FALSE, nf)
           onRight == AddFaceSplit(s, -e, f, FALSE, nf)
           again   == AddFaceSplit(onLeft.topo, -e, f, TRUE, spare)
           split   == RightSide(s, onLeft, e, f, nf, spare)
<1>1. /\ SameGeometry(s, onLeft.topo) /\ SameGeometry(s, onRight.topo)
      /\ Typed(onLeft.topo) /\ Typed(onRight.topo)
  BY AddFaceSplitKeepsGeometry, AddFaceSplitRelabels
<1>2. onLeft = [face |-> onLeft.face, topo |-> onLeft.topo]
  BY DEF AddFaceSplit
<1>3. split.topo \in {onLeft.topo, again.topo, onRight.topo}
  <2> HIDE DEF onRight, again
  <2>1. split = IF onLeft.face = 0 THEN onLeft
                ELSE IF onLeft.face > 0 THEN [onLeft EXCEPT !.topo = again.topo]
                ELSE onRight
    BY DEF RightSide, onRight, again
  <2> HIDE DEF onLeft, split
  <2> QED BY <1>2, <2>1
<1>4. SplitModFace(s, e, f, nf, spare) = KeepSplit(s, split, f)
  BY DEF SplitModFace
<1> HIDE DEF onLeft, onRight, split
<1>5. SameGeometry(onLeft.topo, again.topo) /\ Typed(again.topo)
  BY <1>1, AddFaceSplitKeepsGeometry, AddFaceSplitRelabels
<1> HIDE DEF again
<1>6. SameGeometry(s, split.topo) /\ Typed(split.topo)
  BY <1>1, <1>3, <1>5 DEF SameGeometry
<1>7. SameGeometry(split.topo, TopoGeomFaceSplit(split.topo, f, split.face, -1))
  BY <1>6, TopoGeomFaceSplitKeepsGeometry
<1> QED BY <1>4, <1>6, <1>7 DEF KeepSplit, SameGeometry

LEMMA SplitNewFacesKeepsGeometry ==
  ASSUME NEW s, Typed(s), NEW e, NEW f \in Faces, NEW nf \in FaceIds, NEW nf1 \in FaceIds
  PROVE  SameGeometry(s, SplitNewFaces(s, e, f, nf, nf1))
<1> DEFINE onRight == AddFaceSplit(s, -e, f, FALSE, nf1)
           onLeft  == AddFaceSplit(onRight.topo, e, f, FALSE, nf)
           parts   == TopoGeomFaceSplit(onLeft.topo, f, onLeft.face, onRight.face)
           final   == [parts EXCEPT !.mbr = WithoutRows(@, {f})]
<1>1. SameGeometry(s, onRight.topo) /\ Typed(onRight.topo)
  BY AddFaceSplitKeepsGeometry, AddFaceSplitRelabels
<1>2. SplitNewFaces(s, e, f, nf, nf1) \in {s, onLeft.topo, final}
  BY DEF SplitNewFaces
<1> HIDE DEF onRight
<1>3. SameGeometry(onRight.topo, onLeft.topo) /\ Typed(onLeft.topo)
  BY <1>1, AddFaceSplitKeepsGeometry, AddFaceSplitRelabels
<1> HIDE DEF onLeft
<1>4. SameGeometry(onLeft.topo, final)
  BY <1>3 DEF TopoGeomFaceSplit, SameGeometry, Typed, Tables
<1> HIDE DEF final
<1> QED BY <1>1, <1>2, <1>3, <1>4 DEF SameGeometry

LEMMA HealFacesKeepsGeometry ==
  ASSUME NEW s, Typed(s), NEW fl, NEW fr, NEW flood
  PROVE  SameGeometry(s, HealFaces(s, fl, fr, flood))
BY DEF HealFaces, ReplaceFace, TopoGeomFaceHeal, SameGeometry, Typed, Tables

LEMMA UnlinkEdgeKeepsGeometry ==
  ASSUME NEW s, Typed(s), NEW e
  PROVE  SameGeometry(s, UnlinkEdge(s, e))
BY DEF UnlinkEdge, SameGeometry, Typed, Tables

-----------------------------------------------------------------------------
(* Nodes.                                                                  *)

\* An edge neither passes through the point nor has a node there.
LEMMA FreePoint ==
  ASSUME NEW s, Flat(s), NEW p,
         ~ ExistsCoincidentNode(s, p), ~ ExistsEdgeIntersectingPoint(s, p)
  PROVE  /\ \A n \in DOMAIN s.node : s.point[n] # p
         /\ \A e \in DOMAIN s.edge : ~ InInterior(p, s.line[e])
BY DEF ExistsCoincidentNode, ExistsEdgeIntersectingPoint, InInterior

LEMMA AddIsoNodeFlat ==
  ASSUME NEW s, Typed(s), Flat(s), NEW face, NEW p \in Point, CanAddIsoNode(s, face, p),
         NEW n \in NodeIds \ DOMAIN s.node
  PROVE  Flat(AddIsoNode(s, face, p, n))
<1> DEFINE f == IF face = -1 THEN FaceContaining(s, p) ELSE face
           t == WithNode(s, n, f, p)
<1>1. AddIsoNode(s, face, p, n) = t
  BY DEF AddIsoNode
<1>2. /\ \A m \in DOMAIN s.node : s.point[m] # p
      /\ \A e \in DOMAIN s.edge : ~ InInterior(p, s.line[e])
  BY FreePoint DEF CanAddIsoNode
<1> HIDE DEF f
<1>3. /\ t.node = WithRow(s.node, n, f) /\ t.point = WithRow(s.point, n, p)
      /\ t.edge = s.edge /\ t.line = s.line
  BY DEF WithNode, Typed, Tables
<1> HIDE DEF t
<1>4. DOMAIN s.point = DOMAIN s.node
  BY DEF Typed, IsTopology
<1>5. /\ DOMAIN t.node = DOMAIN s.node \cup {n} /\ t.point[n] = p
      /\ \A m \in DOMAIN s.node : t.point[m] = s.point[m]
  BY <1>3, <1>4 DEF WithRow
<1>6. Flat(t)
  BY <1>2, <1>3, <1>5, NodeDrawn
<1> QED BY <1>1, <1>6

LEMMA IsolatedIsNoEnd ==
  ASSUME NEW s, Sound(s), NEW n, IsIsoNode(s, n)
  PROVE  /\ n \in DOMAIN s.node
         /\ \A e \in DOMAIN s.edge : s.edge[e].start_node # n /\ s.edge[e].end_node # n
BY DEF IsIsoNode, Sound, IsolationMatchesEdges

LEMMA RemoveIsoNodeFlat ==
  ASSUME NEW s, Sound(s), Flat(s), NEW n, IsIsoNode(s, n)
  PROVE  Flat(WithoutNode(s, n))
<1> DEFINE t == WithoutNode(s, n)
<1> SUFFICES Flat(t) OBVIOUS
<1>1. /\ t.node = WithoutRows(s.node, {n}) /\ t.point = WithoutRows(s.point, {n})
      /\ t.edge = s.edge /\ t.line = s.line /\ DOMAIN s.point = DOMAIN s.node
  BY DEF WithoutNode, Sound, Typed, Tables, IsTopology
<1> HIDE DEF t
<1>2. /\ DOMAIN t.node = DOMAIN s.node \ {n}
      /\ \A m \in DOMAIN t.node : t.point[m] = s.point[m]
  BY <1>1 DEF WithoutRows
<1>3. \A e \in DOMAIN s.edge : /\ s.edge[e].start_node \in DOMAIN s.node \ {n}
                               /\ s.edge[e].end_node \in DOMAIN s.node \ {n}
  BY IsolatedIsNoEnd DEF Flat, EdgeDrawn
<1>4. DrawsPartOf(t, s)
  BY <1>1, <1>2, <1>3 DEF DrawsPartOf
<1> QED BY <1>4, PartIsFlat

\* The drawing without the node, and the node at its new place.
LEMMA MoveIsoNodeFlat ==
  ASSUME NEW s, Sound(s), Flat(s), NEW n, NEW p \in Point, CanMoveIsoNode(s, n, p)
  PROVE  Flat(MoveIsoNode(s, n, p))
<1> DEFINE t == MoveIsoNode(s, n, p)
           r == WithoutNode(s, n)
<1> SUFFICES Flat(t) OBVIOUS
<1>1. /\ t.point = [s.point EXCEPT ![n] = p] /\ t.node = s.node
      /\ t.edge = s.edge /\ t.line = s.line /\ DOMAIN s.point = DOMAIN s.node
  BY DEF MoveIsoNode, Sound, Typed, Tables, IsTopology
<1>2. /\ r.node = WithoutRows(s.node, {n}) /\ r.point = WithoutRows(s.point, {n})
      /\ r.edge = s.edge /\ r.line = s.line
  BY DEF WithoutNode, Sound, Typed, Tables
<1>3. Flat(r) /\ n \in DOMAIN s.node
  BY RemoveIsoNodeFlat, IsolatedIsNoEnd DEF CanMoveIsoNode
<1>4. /\ \A m \in DOMAIN s.node : s.point[m] # p
      /\ \A e \in DOMAIN s.edge : ~ InInterior(p, s.line[e])
  BY FreePoint DEF CanMoveIsoNode
<1> HIDE DEF t, r
<1>5. /\ DOMAIN r.node = DOMAIN s.node \ {n}
      /\ \A m \in DOMAIN r.node : r.point[m] = s.point[m]
  BY <1>1, <1>2 DEF WithoutRows
<1>6. /\ DOMAIN t.node = DOMAIN r.node \cup {n} /\ n \notin DOMAIN r.node /\ t.point[n] = p
      /\ \A m \in DOMAIN r.node : t.point[m] = r.point[m] /\ r.point[m] # p
  BY <1>1, <1>3, <1>4, <1>5
<1> QED BY <1>1, <1>2, <1>3, <1>4, <1>6, NodeDrawn

-----------------------------------------------------------------------------
(* New edges, and edges that go.                                           *)

LEMMA AddIsoEdgeFlat ==
  ASSUME NEW s, Sound(s), Flat(s), NEW n1, NEW n2, NEW g \in Line, CanAddIsoEdge(s, n1, n2, g),
         NEW e \in EdgeIds \ DOMAIN s.edge
  PROVE  Flat(AddIsoEdge(s, n1, n2, g, e))
<1> DEFINE row == [start_node |-> n1, end_node |-> n2,
                   next_left |-> -e, next_right |-> e,
                   face_left |-> s.node[n1], face_right |-> s.node[n1]]
           t == AddIsoEdge(s, n1, n2, g, e)
<1>1. /\ n1 \in DOMAIN s.node /\ n2 \in DOMAIN s.node /\ IsSimple(g)
      /\ StartPoint(g) = s.point[n1] /\ EndPoint(g) = s.point[n2]
      /\ ~ EdgeCrossing(s, n1, n2, g, 0)
  BY DEF CanAddIsoEdge, IsIsoNode
<1>2. 0 \notin DOMAIN s.edge
  BY IdentifiersArePositive DEF Sound, Typed, IsTopology
<1>3. /\ \A n \in DOMAIN s.node : ~ InInterior(s.point[n], g)
      /\ \A x \in DOMAIN s.edge : ~ ShareInterior(s.line[x], g)
  BY <1>1, <1>2, UncrossedLine
<1>4. row.start_node = n1 /\ row.end_node = n2
  OBVIOUS
<1>5. /\ t.edge = WithRow(s.edge, e, row) /\ t.line = WithRow(s.line, e, g)
      /\ DOMAIN t.node = DOMAIN s.node /\ t.point = s.point
      /\ DOMAIN s.line = DOMAIN s.edge
  BY DEF AddIsoEdge, WithContainingFace, WithEdge, Sound, Typed, Tables, IsTopology
<1> HIDE DEF t, row
<1>6. /\ DOMAIN t.edge = DOMAIN s.edge \cup {e} /\ t.edge[e] = row /\ t.line[e] = g
      /\ \A x \in DOMAIN s.edge : t.edge[x] = s.edge[x] /\ t.line[x] = s.line[x]
  BY <1>5 DEF WithRow
<1>7. EdgeDrawn(t, e)
  BY <1>1, <1>3, <1>4, <1>5, <1>6 DEF EdgeDrawn
<1>8. Flat(t)
  BY <1>3, <1>5, <1>6, <1>7, EdgeDrawnToo
<1> QED BY <1>8 DEF t

LEMMA LinkEdgeFlat ==
  ASSUME NEW s, Sound(s), Flat(s), NEW n1 \in DOMAIN s.node, NEW n2 \in DOMAIN s.node,
         NEW g \in Line, CanAddEdge(s, n1, n2, g), NEW f, NEW a1, NEW a2,
         NEW e \in EdgeIds \ DOMAIN s.edge
  PROVE  Flat(LinkEdge(s, n1, n2, g, f, a1, a2, e))
<1> DEFINE relinked(x) ==
             [s.edge[x] EXCEPT !.next_left  = Relinked(s, n1, n2, a1, a2, e, x, @),
                               !.next_right = Relinked(s, n1, n2, a1, a2, e, -x, @)]
           row == NewEdgeRow(s, n1, n2, f, a1, a2, e)
           old == [x \in DOMAIN s.edge |-> relinked(x)]
           t   == LinkEdge(s, n1, n2, g, f, a1, a2, e)
<1>1. /\ IsSimple(g) /\ ~ EdgeCrossing(s, n1, n2, g, 0)
      /\ StartPoint(g) = s.point[n1] /\ EndPoint(g) = s.point[n2]
  BY DEF CanAddEdge
<1>2. 0 \notin DOMAIN s.edge
  BY IdentifiersArePositive DEF Sound, Typed, IsTopology
<1>3. /\ \A n \in DOMAIN s.node : ~ InInterior(s.point[n], g)
      /\ \A x \in DOMAIN s.edge : ~ ShareInterior(s.line[x], g)
  BY <1>1, <1>2, UncrossedLine
<1>4. row.start_node = n1 /\ row.end_node = n2
  BY DEF NewEdgeRow
<1>5. \A x \in DOMAIN s.edge : /\ relinked(x).start_node = s.edge[x].start_node
                               /\ relinked(x).end_node = s.edge[x].end_node
  BY DEF Sound, Typed, IsTopology, EdgeRow
<1> HIDE DEF relinked, row
<1>6. DOMAIN old = DOMAIN s.edge /\ \A x \in DOMAIN s.edge : old[x] = relinked(x)
  OBVIOUS
<1>7. /\ t.edge = WithRow(old, e, row) /\ t.line = WithRow(s.line, e, g)
      /\ DOMAIN t.node = DOMAIN s.node /\ t.point = s.point
      /\ DOMAIN s.line = DOMAIN s.edge
  BY DEF LinkEdge, WithContainingFace, WithEdge, Sound, Typed, Tables, IsTopology, relinked, row
<1> HIDE DEF t, old
<1>8. /\ DOMAIN t.edge = DOMAIN s.edge \cup {e} /\ t.edge[e] = row /\ t.line[e] = g
      /\ \A x \in DOMAIN s.edge : t.edge[x] = relinked(x) /\ t.line[x] = s.line[x]
  BY <1>6, <1>7 DEF WithRow
<1>9. EdgeDrawn(t, e)
  BY <1>1, <1>3, <1>4, <1>7, <1>8 DEF EdgeDrawn
<1>10. Flat(t)
  BY <1>3, <1>5, <1>7, <1>8, <1>9, EdgeDrawnToo
<1> QED BY <1>10 DEF t

LEMMA AddEdgeModFaceFlat ==
  ASSUME NEW s, Sound(s), Flat(s), NEW n1 \in DOMAIN s.node, NEW n2 \in DOMAIN s.node,
         NEW g \in Line, CanAddEdge(s, n1, n2, g), NEW f \in Faces,
         NEW a1, a1.cw \in DartsAt(s, n1) \cup {0},
         NEW a2, a2.cw \in DartsAt(s, n2) \cup {0},
         NEW e \in EdgeIds \ DOMAIN s.edge, NEW nf \in FaceIds, NEW spare \in FaceIds
  PROVE  Flat(AddEdgeModFace(s, n1, n2, g, f, a1, a2, e, nf, spare))
<1> DEFINE t == LinkEdge(s, n1, n2, g, f, a1, a2, e)
           u == SplitModFace(t, e, f, nf, spare)
<1>1. Typed(t) /\ Flat(t)
  BY LinkEdgeSound, LinkEdgeFlat DEF Sound
<1>2. AddEdgeModFace(s, n1, n2, g, f, a1, a2, e, nf, spare) \in {t, u}
  BY DEF AddEdgeModFace
<1> HIDE DEF t
<1>3. Relabelled(t, u) /\ SameGeometry(t, u)
  BY <1>1, SplitModFaceRelabels, SplitModFaceKeepsGeometry
<1> HIDE DEF u
<1> QED BY <1>1, <1>2, <1>3, RelabellingKeepsFlat

LEMMA AddEdgeNewFacesFlat ==
  ASSUME NEW s, Sound(s), Flat(s), NEW n1 \in DOMAIN s.node, NEW n2 \in DOMAIN s.node,
         NEW g \in Line, CanAddEdge(s, n1, n2, g), NEW f \in Faces,
         NEW a1, a1.cw \in DartsAt(s, n1) \cup {0},
         NEW a2, a2.cw \in DartsAt(s, n2) \cup {0},
         NEW e \in EdgeIds \ DOMAIN s.edge, NEW nf \in FaceIds, NEW nf1 \in FaceIds
  PROVE  Flat(AddEdgeNewFaces(s, n1, n2, g, f, a1, a2, e, nf, nf1))
<1> DEFINE t == LinkEdge(s, n1, n2, g, f, a1, a2, e)
           u == SplitNewFaces(t, e, f, nf, nf1)
<1>1. Typed(t) /\ Flat(t)
  BY LinkEdgeSound, LinkEdgeFlat DEF Sound
<1>2. AddEdgeNewFaces(s, n1, n2, g, f, a1, a2, e, nf, nf1) \in {t, u}
  BY DEF AddEdgeNewFaces
<1> HIDE DEF t
<1>3. Relabelled(t, u) /\ SameGeometry(t, u)
  BY <1>1, SplitNewFacesRelabels, SplitNewFacesKeepsGeometry
<1> HIDE DEF u
<1> QED BY <1>1, <1>2, <1>3, RelabellingKeepsFlat

LEMMA RemIsoEdgeFlat ==
  ASSUME NEW s, Typed(s), Flat(s), NEW e
  PROVE  Flat(RemIsoEdge(s, e))
<1> DEFINE t == RemIsoEdge(s, e)
<1>1. /\ t.edge = WithoutRows(s.edge, {e}) /\ t.line = WithoutRows(s.line, {e})
      /\ DOMAIN t.node = DOMAIN s.node /\ t.point = s.point /\ DOMAIN s.line = DOMAIN s.edge
  BY DEF RemIsoEdge, WithContainingFace, WithoutEdges, Typed, Tables, IsTopology
<1> HIDE DEF t
<1>2. DrawsPartOf(t, s)
  BY <1>1 DEF DrawsPartOf, WithoutRows, Flat, EdgeDrawn
<1>3. Flat(t)
  BY <1>2, PartIsFlat
<1> QED BY <1>3 DEF t

LEMMA RemEdgeFlat ==
  ASSUME NEW s, Sound(s), Flat(s), NEW e \in DOMAIN s.edge,
         NEW modFace \in BOOLEAN, NEW nf \in Faces
  PROVE  Flat(RemEdge(s, e, modFace, nf))
<1> DEFINE fl == s.edge[e].face_left
           fr == s.edge[e].face_right
           flood == FloodFace(s, e, modFace, nf)
           unlinked == UnlinkEdge(s, e)
           healed == HealFaces(unlinked, fl, fr, flood)
           u == RemEdge(s, e, modFace, nf)
<1>1. fl \in Faces /\ fr \in Faces
  BY DEF Sound, Typed, IsTopology, EdgeRow
<1>2. flood \in Faces
  BY <1>1 DEF FloodFace, Faces
<1>3. u = WithContainingFace(WithoutEdges(healed, {e}), LonelyEnds(s, e), flood)
  BY DEF RemEdge
<1> HIDE DEF flood, fl, fr, u
<1>4. /\ Typed(unlinked) /\ Relabelled(s, unlinked) /\ SameGeometry(s, unlinked)
  BY UnlinkEdgeRelabels, UnlinkEdgeKeepsGeometry DEF Sound
<1> HIDE DEF unlinked
<1>5. Flat(unlinked)
  BY <1>4, RelabellingKeepsFlat
<1>6. Typed(healed) /\ Relabelled(unlinked, healed) /\ SameGeometry(unlinked, healed)
  BY <1>1, <1>2, <1>4, HealFacesRelabels, HealFacesKeepsGeometry
<1> HIDE DEF healed
<1>7. Flat(healed)
  BY <1>5, <1>6, RelabellingKeepsFlat
<1>8. /\ u.edge = WithoutRows(healed.edge, {e}) /\ u.line = WithoutRows(healed.line, {e})
      /\ DOMAIN u.node = DOMAIN healed.node /\ u.point = healed.point
      /\ DOMAIN healed.line = DOMAIN healed.edge
  BY <1>3, <1>6 DEF WithContainingFace, WithoutEdges, Typed, Tables, IsTopology
<1>9. DrawsPartOf(u, healed)
  BY <1>7, <1>8 DEF DrawsPartOf, WithoutRows, Flat, EdgeDrawn
<1>10. Flat(u)
  BY <1>7, <1>9, PartIsFlat
<1> QED BY <1>10 DEF u

\* The drawing without the edge, and the edge in its new shape.
LEMMA ChangeEdgeGeomFlat ==
  ASSUME NEW s, Sound(s), Flat(s), NEW e \in DOMAIN s.edge, NEW g \in Line,
         CanChangeEdgeGeom(s, e, g)
  PROVE  Flat(ChangeEdgeGeom(s, e, g))
<1> DEFINE n1 == s.edge[e].start_node
           n2 == s.edge[e].end_node
           t == ChangeEdgeGeom(s, e, g)
           r == WithoutEdges(s, {e})
<1>1. EdgeDrawn(s, e)
  BY DEF Flat
<1>2. /\ IsSimple(g) /\ ~ EdgeCrossing(s, n1, n2, g, e)
      /\ StartPoint(g) = s.point[n1] /\ EndPoint(g) = s.point[n2]
      /\ n1 \in DOMAIN s.node /\ n2 \in DOMAIN s.node
  BY <1>1 DEF CanChangeEdgeGeom, EdgeDrawn
<1>3. /\ \A n \in DOMAIN s.node : ~ InInterior(s.point[n], g)
      /\ \A x \in DOMAIN s.edge \ {e} : ~ ShareInterior(s.line[x], g)
  <2> HIDE DEF n1, n2
  <2> QED BY <1>2, UncrossedLine
<1>4. /\ t.line = [s.line EXCEPT ![e] = g] /\ t.edge = s.edge
      /\ t.node = s.node /\ t.point = s.point /\ DOMAIN s.line = DOMAIN s.edge
  BY DEF ChangeEdgeGeom, Sound, Typed, Tables, IsTopology
<1>5. /\ r.edge = WithoutRows(s.edge, {e}) /\ r.line = WithoutRows(s.line, {e})
      /\ r.node = s.node /\ r.point = s.point
  BY DEF WithoutEdges, Sound, Typed, Tables
<1> HIDE DEF t, r
<1>6. DrawsPartOf(r, s)
  BY <1>4, <1>5 DEF DrawsPartOf, WithoutRows, Flat, EdgeDrawn
<1>7. Flat(r)
  BY <1>6, PartIsFlat
<1>8. /\ DOMAIN t.edge = DOMAIN r.edge \cup {e} /\ e \notin DOMAIN r.edge
      /\ t.line[e] = g /\ DOMAIN r.edge = DOMAIN s.edge \ {e}
      /\ \A x \in DOMAIN r.edge : t.edge[x] = r.edge[x] /\ t.line[x] = r.line[x]
                                  /\ r.line[x] = s.line[x]
  BY <1>4, <1>5 DEF WithoutRows
<1>9. EdgeDrawn(t, e)
  BY <1>2, <1>3, <1>4, <1>8 DEF EdgeDrawn
<1>10. Flat(t)
  BY <1>3, <1>4, <1>5, <1>7, <1>8, <1>9, EdgeDrawnToo
<1> QED BY <1>10 DEF t

-----------------------------------------------------------------------------
(* Splitting an edge.                                                      *)

\* What cutting a line at a point says of the nodes and the other edges.
LEMMA PiecesKeepClear ==
  ASSUME NEW g \in Line, IsSimple(g), NEW p \in Point, InInterior(p, g),
         NEW piece \in {HeadUpTo(g, p), TailFrom(g, p)}
  PROVE  /\ piece \in Line /\ IsSimple(piece)
         /\ \A q \in Point : InInterior(q, piece) => InInterior(q, g)
         /\ \A h : ShareInterior(h, piece) => ShareInterior(h, g)
<1>1. piece \in Line /\ IsSimple(piece)
  BY HeadOfLine, TailOfLine, HeadIsSimple, TailIsSimple
<1>2. \A w \in Nat \ {0}, q \in Point : InteriorAt(w, q, piece) => InteriorAt(w, q, g)
  BY PiecesOfLine
<1>3. ASSUME NEW q \in Point, InInterior(q, piece)
      PROVE  InInterior(q, g)
  <2>1. Scaled(1, q) \in Point /\ 1 \in Nat \ {0}
    BY ScaledPoint
  <2>2. InteriorAt(1, Scaled(1, q), piece)
    BY <1>1, <1>3, <2>1, PassesOnPart
  <2>3. InteriorAt(1, Scaled(1, q), g)
    BY <1>2, <2>1, <2>2
  <2> QED BY <2>1, <2>3, PassesOnPart
<1>4. \A h : ShareInterior(h, piece) => ShareInterior(h, g)
  BY <1>2 DEF ShareInterior
<1> QED BY <1>1, <1>3, <1>4

\* In t, edge e of s has given way to a new node n at p and two pieces a and b.
DrawsSplit(t, s, e, p, n, a, b) ==
  /\ n \notin DOMAIN s.node
  /\ a # b /\ (a = e \/ a \notin DOMAIN s.edge) /\ b \notin DOMAIN s.edge
  /\ DOMAIN t.node = DOMAIN s.node \cup {n}
  /\ t.point[n] = p
  /\ \A m \in DOMAIN s.node : t.point[m] = s.point[m]
  /\ DOMAIN t.edge = (DOMAIN s.edge \ {e}) \cup {a, b}
  /\ t.line[a] = HeadUpTo(s.line[e], p)
  /\ t.edge[a].start_node = s.edge[e].start_node /\ t.edge[a].end_node = n
  /\ t.line[b] = TailFrom(s.line[e], p)
  /\ t.edge[b].start_node = n /\ t.edge[b].end_node = s.edge[e].end_node
  /\ \A x \in DOMAIN s.edge \ {e} : /\ t.line[x] = s.line[x]
                                    /\ t.edge[x].start_node = s.edge[x].start_node
                                    /\ t.edge[x].end_node = s.edge[x].end_node

LEMMA SplitIsFlat ==
  ASSUME NEW s, Flat(s), NEW e, NEW p \in Point, CanSplitEdge(s, e, p),
         NEW t, NEW n, NEW a, NEW b, DrawsSplit(t, s, e, p, n, a, b)
  PROVE  Flat(t)
<1> DEFINE g == s.line[e]
           others == DOMAIN s.edge \ {e}
<1> USE DEF DrawsSplit
<1>1. /\ e \in DOMAIN s.edge /\ InInterior(p, g) /\ \A m \in DOMAIN s.node : s.point[m] # p
  BY DEF CanSplitEdge, ExistsCoincidentNode
<1>2. EdgeDrawn(s, e) /\ g \in Line /\ IsSimple(g)
  BY <1>1 DEF Flat, EdgeDrawn
<1>3. NodesPlaced(t)
  BY <1>1 DEF Flat, NodesPlaced
<1>4. ASSUME NEW x \in others
      PROVE  EdgeDrawn(t, x) /\ ~ ShareInterior(s.line[x], g)
  <2>1. EdgeDrawn(s, x) /\ ~ ShareInterior(s.line[x], g)
    BY <1>1 DEF Flat
  <2>2. ~ InInterior(p, s.line[x])
    <3>1. 1 \in Nat \ {0} /\ Scaled(1, p) \in Point
      BY ScaledPoint
    <3>2. InteriorAt(1, Scaled(1, p), g)
      BY <1>1, <1>2, <3>1, PassesOnPart
    <3>3. InInterior(p, s.line[x]) => InteriorAt(1, Scaled(1, p), s.line[x])
      BY <2>1, <3>1, PassesOnPart DEF EdgeDrawn
    <3> QED BY <2>1, <3>1, <3>2, <3>3 DEF ShareInterior
  <2> QED BY <2>1, <2>2 DEF EdgeDrawn
<1>5. ASSUME NEW y \in {a, b}
      PROVE  /\ EdgeDrawn(t, y)
             /\ \A x \in others : ~ ShareInterior(t.line[x], t.line[y])
  <2>1. /\ t.line[y] \in Line /\ IsSimple(t.line[y])
        /\ \A q \in Point : InInterior(q, t.line[y]) => InInterior(q, g)
        /\ \A h : ShareInterior(h, t.line[y]) => ShareInterior(h, g)
    BY <1>1, <1>2, PiecesKeepClear
  <2>2. /\ StartPoint(HeadUpTo(g, p)) = StartPoint(g) /\ EndPoint(HeadUpTo(g, p)) = p
        /\ StartPoint(TailFrom(g, p)) = p /\ EndPoint(TailFrom(g, p)) = EndPoint(g)
    BY <1>1, <1>2, HeadOfLine, TailOfLine
  <2>3. /\ t.edge[y].start_node \in DOMAIN t.node /\ t.edge[y].end_node \in DOMAIN t.node
        /\ StartPoint(t.line[y]) = t.point[t.edge[y].start_node]
        /\ EndPoint(t.line[y]) = t.point[t.edge[y].end_node]
    BY <1>2, <2>2 DEF EdgeDrawn
  <2>4. \A m \in DOMAIN s.node : ~ InInterior(t.point[m], t.line[y])
    BY <1>2, <2>1 DEF EdgeDrawn, Flat, NodesPlaced
  <2>5. ~ InInterior(p, t.line[y])
    BY <2>2 DEF InInterior
  <2>6. EdgeDrawn(t, y)
    BY <2>1, <2>3, <2>4, <2>5 DEF EdgeDrawn
  <2> QED BY <1>4, <2>1, <2>6
<1>6. ~ ShareInterior(t.line[a], t.line[b])
  BY <1>1, <1>2, PiecesOfLine
<1>7. ASSUME NEW x \in DOMAIN t.edge, NEW y \in DOMAIN t.edge, x # y
      PROVE  ~ ShareInterior(t.line[x], t.line[y])
  <2>1. CASE x \in others /\ y \in others
    BY <1>7, <2>1 DEF Flat
  <2>2. CASE x \in others /\ y \in {a, b}
    BY <1>5, <2>2
  <2>3. CASE x \in {a, b} /\ y \in others
    BY <1>5, <2>3, SharingIsSymmetric
  <2>4. CASE x \in {a, b} /\ y \in {a, b}
    BY <1>6, <1>7, <2>4, SharingIsSymmetric
  <2> QED BY <2>1, <2>2, <2>3, <2>4
<1> QED BY <1>3, <1>4, <1>5, <1>7 DEF Flat

LEMMA ModEdgeSplitDraws ==
  ASSUME NEW s, Sound(s), NEW e, NEW p \in Point, CanSplitEdge(s, e, p),
         NEW n \in NodeIds \ DOMAIN s.node, NEW e2 \in EdgeIds \ DOMAIN s.edge
  PROVE  DrawsSplit(ModEdgeSplit(s, e, p, n, e2), s, e, p, n, e, e2)
<1> DEFINE old  == s.edge[e]
           tail == [old EXCEPT !.start_node = n,
                               !.next_left  = IF @ = -e THEN -e2 ELSE @,
                               !.next_right = -e]
           head == [old EXCEPT !.next_left = e2, !.end_node = n]
           rows == WithRow([s.edge EXCEPT ![e] = head], e2, tail)
           relinked(x) ==
             [rows[x] EXCEPT
                !.next_right = IF @ = -e /\ rows[x].start_node = old.end_node THEN -e2 ELSE @,
                !.next_left  = IF @ = -e /\ rows[x].end_node = old.end_node THEN -e2 ELSE @]
           t == ModEdgeSplit(s, e, p, n, e2)
<1>1. /\ e \in DOMAIN s.edge /\ e2 # e /\ DOMAIN s.line = DOMAIN s.edge
      /\ DOMAIN s.point = DOMAIN s.node /\ \A x \in DOMAIN s.edge : s.edge[x] \in EdgeRow
  BY DEF CanSplitEdge, Sound, Typed, IsTopology
<1>2. /\ DOMAIN t.node = DOMAIN s.node \cup {n} /\ t.point = WithRow(s.point, n, p)
      /\ t.edge = [x \in DOMAIN rows |-> IF x = e2 THEN tail ELSE relinked(x)]
      /\ t.line = WithRow([s.line EXCEPT ![e] = HeadUpTo(s.line[e], p)],
                          e2, TailFrom(s.line[e], p))
  BY DEF ModEdgeSplit, WithNode, WithRow, Sound, Typed, Tables
<1>3. /\ tail.start_node = n /\ tail.end_node = old.end_node
      /\ head.start_node = old.start_node /\ head.end_node = n
      /\ DOMAIN head = DOMAIN old
  BY <1>1 DEF EdgeRow
<1> HIDE DEF t, tail, head
<1>4. /\ DOMAIN rows = DOMAIN s.edge \cup {e2} /\ rows[e] = head
      /\ \A x \in DOMAIN s.edge \ {e} : rows[x] = s.edge[x]
  BY <1>1 DEF WithRow
<1> HIDE DEF rows
<1>5. \A x \in DOMAIN s.edge : /\ relinked(x).start_node = rows[x].start_node
                               /\ relinked(x).end_node = rows[x].end_node
  BY <1>1, <1>3, <1>4 DEF EdgeRow
<1> HIDE DEF relinked
<1>6. /\ DOMAIN t.edge = (DOMAIN s.edge \ {e}) \cup {e, e2}
      /\ t.edge[e2] = tail /\ t.edge[e] = relinked(e)
      /\ \A x \in DOMAIN s.edge \ {e} : t.edge[x] = relinked(x)
  BY <1>1, <1>2, <1>4
<1>7. /\ t.line[e] = HeadUpTo(s.line[e], p) /\ t.line[e2] = TailFrom(s.line[e], p)
      /\ \A x \in DOMAIN s.edge \ {e} : t.line[x] = s.line[x]
  BY <1>1, <1>2 DEF WithRow
<1>8. /\ t.point[n] = p
      /\ \A m \in DOMAIN s.node : t.point[m] = s.point[m]
  BY <1>1, <1>2 DEF WithRow
<1>9. /\ t.edge[e].start_node = s.edge[e].start_node /\ t.edge[e].end_node = n
      /\ t.edge[e2].start_node = n /\ t.edge[e2].end_node = s.edge[e].end_node
      /\ \A x \in DOMAIN s.edge \ {e} : /\ t.edge[x].start_node = s.edge[x].start_node
                                        /\ t.edge[x].end_node = s.edge[x].end_node
  BY <1>1, <1>3, <1>4, <1>5, <1>6
<1>10. DrawsSplit(t, s, e, p, n, e, e2)
  BY <1>1, <1>2, <1>6, <1>7, <1>8, <1>9 DEF DrawsSplit
<1> QED BY <1>10 DEF t

LEMMA ModEdgeSplitFlat ==
  ASSUME NEW s, Sound(s), Flat(s), NEW e, NEW p \in Point, CanSplitEdge(s, e, p),
         NEW n \in NodeIds \ DOMAIN s.node, NEW e2 \in EdgeIds \ DOMAIN s.edge
  PROVE  Flat(ModEdgeSplit(s, e, p, n, e2))
BY ModEdgeSplitDraws, SplitIsFlat

LEMMA NewEdgesSplitDraws ==
  ASSUME NEW s, Sound(s), NEW e, NEW p \in Point, CanSplitEdge(s, e, p),
         NEW n \in NodeIds \ DOMAIN s.node,
         NEW e1 \in EdgeIds \ DOMAIN s.edge, NEW e2 \in EdgeIds \ DOMAIN s.edge, e1 # e2
  PROVE  DrawsSplit(NewEdgesSplit(s, e, p, n, e1, e2), s, e, p, n, e1, e2)
<1> DEFINE old  == s.edge[e]
           head == [old EXCEPT !.end_node = n,
                               !.next_left = e2,
                               !.next_right = IF @ = e THEN e1 ELSE IF @ = -e THEN -e2 ELSE @]
           tail == [old EXCEPT !.start_node = n,
                               !.next_right = -e1,
                               !.next_left = IF @ = -e THEN -e2 ELSE IF @ = e THEN e1 ELSE @]
           rows == WithRow(WithRow(WithoutRows(s.edge, {e}), e1, head), e2, tail)
           relinked(x) ==
             [rows[x] EXCEPT
                !.next_right = IF @ = e /\ rows[x].start_node = old.start_node THEN e2
                               ELSE IF @ = -e /\ rows[x].start_node = old.end_node THEN -e1
                               ELSE @,
                !.next_left  = IF @ = e /\ rows[x].end_node = old.start_node THEN e1
                               ELSE IF @ = -e /\ rows[x].end_node = old.end_node THEN -e2
                               ELSE @]
           t == NewEdgesSplit(s, e, p, n, e1, e2)
<1>1. /\ e \in DOMAIN s.edge /\ e1 # e /\ e2 # e /\ DOMAIN s.line = DOMAIN s.edge
      /\ DOMAIN s.point = DOMAIN s.node /\ \A x \in DOMAIN s.edge : s.edge[x] \in EdgeRow
  BY DEF CanSplitEdge, Sound, Typed, IsTopology
<1>2. /\ DOMAIN t.node = DOMAIN s.node \cup {n} /\ t.point = WithRow(s.point, n, p)
      /\ t.edge = [x \in DOMAIN rows |-> relinked(x)]
      /\ t.line = WithRow(WithRow(WithoutRows(s.line, {e}), e1, HeadUpTo(s.line[e], p)),
                          e2, TailFrom(s.line[e], p))
  BY DEF NewEdgesSplit, WithNode, WithRow, Sound, Typed, Tables
<1>3. /\ tail.start_node = n /\ tail.end_node = old.end_node 
      /\ head.start_node = old.start_node /\ head.end_node = n
      /\ DOMAIN tail = DOMAIN old /\ DOMAIN head = DOMAIN old
  BY <1>1 DEF EdgeRow
<1> HIDE DEF t, tail, head
<1>4. /\ DOMAIN rows = (DOMAIN s.edge \ {e}) \cup {e1, e2} /\ rows[e1] = head /\ rows[e2] = tail
      /\ \A x \in DOMAIN s.edge \ {e} : rows[x] = s.edge[x]
  BY <1>1 DEF WithRow, WithoutRows
<1> HIDE DEF rows
<1>5. \A x \in DOMAIN rows : /\ relinked(x).start_node = rows[x].start_node
                             /\ relinked(x).end_node = rows[x].end_node
  BY <1>1, <1>3, <1>4 DEF EdgeRow
<1> HIDE DEF relinked
<1>6. /\ DOMAIN t.edge = (DOMAIN s.edge \ {e}) \cup {e1, e2}
      /\ \A x \in DOMAIN t.edge : /\ t.edge[x].start_node = rows[x].start_node
                                  /\ t.edge[x].end_node = rows[x].end_node
  BY <1>2, <1>4, <1>5
<1>7. /\ t.line[e1] = HeadUpTo(s.line[e], p) /\ t.line[e2] = TailFrom(s.line[e], p)
      /\ \A x \in DOMAIN s.edge \ {e} : t.line[x] = s.line[x]
  BY <1>1, <1>2 DEF WithRow, WithoutRows
<1>8. /\ t.point[n] = p
      /\ \A m \in DOMAIN s.node : t.point[m] = s.point[m]
  BY <1>1, <1>2 DEF WithRow
<1>9. /\ t.edge[e1].start_node = s.edge[e].start_node /\ t.edge[e1].end_node = n
      /\ t.edge[e2].start_node = n /\ t.edge[e2].end_node = s.edge[e].end_node
      /\ \A x \in DOMAIN s.edge \ {e} : /\ t.edge[x].start_node = s.edge[x].start_node
                                        /\ t.edge[x].end_node = s.edge[x].end_node
  BY <1>1, <1>3, <1>4, <1>6
<1>10. DrawsSplit(t, s, e, p, n, e1, e2)
  BY <1>1, <1>2, <1>6, <1>7, <1>8, <1>9 DEF DrawsSplit
<1> QED BY <1>10 DEF t

LEMMA NewEdgesSplitFlat ==
  ASSUME NEW s, Sound(s), Flat(s), NEW e, NEW p \in Point, CanSplitEdge(s, e, p),
         NEW n \in NodeIds \ DOMAIN s.node,
         NEW e1 \in EdgeIds \ DOMAIN s.edge, NEW e2 \in EdgeIds \ DOMAIN s.edge, e1 # e2
  PROVE  Flat(NewEdgesSplit(s, e, p, n, e1, e2))
BY NewEdgesSplitDraws, SplitIsFlat

-----------------------------------------------------------------------------
(* Healing two edges.                                                      *)

\* An edge walked in either direction.
LEMMA DartDrawn ==
  ASSUME NEW s, Typed(s), Flat(s), NEW d \in DartsOf(s)
  PROVE  LET g == Path(s, d)
         IN  /\ g \in Line /\ IsSimple(g)
             /\ Origin(s, d) \in DOMAIN s.node /\ Target(s, d) \in DOMAIN s.node
             /\ StartPoint(g) = s.point[Origin(s, d)] /\ EndPoint(g) = s.point[Target(s, d)]
             /\ \A w \in Nat \ {0}, q \in Point :
                  InteriorAt(w, q, g) => InteriorAt(w, q, s.line[EdgeOf(d)])
             /\ \A n \in DOMAIN s.node : ~ InInterior(s.point[n], g)
<1> DEFINE g == Path(s, d)
           h == s.line[EdgeOf(d)]
<1>1. EdgeDrawn(s, EdgeOf(d)) /\ d \in Int /\ d # 0
  <2>1. d \in Darts /\ d # 0 /\ EdgeOf(d) \in DOMAIN s.edge
    BY DartsAreDarts
  <2>2. DOMAIN s.edge \subseteq EdgeIds
    BY DEF Typed, IsTopology
  <2>3. DOMAIN s.edge \subseteq Nat \ {0}
    BY <2>2, IdentifiersArePositive
  <2>4. d \in Int
    BY <2>3 DEF DartsOf
  <2> QED BY <2>1, <2>4 DEF Flat
<1>2. h \in Line /\ IsSimple(h)
  BY <1>1 DEF EdgeDrawn
<1>3. CASE d > 0
  <2>1. g = h /\ EdgeOf(d) = d
    BY <1>3 DEF Path, EdgeOf
  <2>2. Origin(s, d) = s.edge[d].start_node /\ Target(s, d) = s.edge[d].end_node
    BY <1>1, <1>3 DEF Origin, Target
  <2> QED BY <1>1, <2>1, <2>2 DEF EdgeDrawn
<1>4. CASE d < 0
  <2>1. g = Reverse(h) /\ EdgeOf(d) = -d
    BY <1>1, <1>4 DEF Path, EdgeOf
  <2>2. Origin(s, d) = s.edge[-d].end_node /\ Target(s, d) = s.edge[-d].start_node
    BY <1>1, <1>4 DEF Origin, Target
  <2>3. /\ Reverse(h) \in Line /\ IsSimple(Reverse(h))
        /\ StartPoint(Reverse(h)) = EndPoint(h) /\ EndPoint(Reverse(h)) = StartPoint(h)
    BY <1>2, ReversedLine, ReversedIsSimple
  <2>4. \A w \in Nat \ {0}, q \in Point : InteriorAt(w, q, Reverse(h)) => InteriorAt(w, q, h)
    BY <1>2, ReversedInterior
  <2>5. ASSUME NEW n \in DOMAIN s.node, InInterior(s.point[n], Reverse(h))
        PROVE  FALSE
    <3>1. s.point[n] \in Point /\ 1 \in Nat \ {0} /\ Scaled(1, s.point[n]) \in Point
      BY ScaledPoint DEF Flat, NodesPlaced
    <3>2. InteriorAt(1, Scaled(1, s.point[n]), Reverse(h))
      BY <2>3, <2>5, <3>1, PassesOnPart
    <3>3. InteriorAt(1, Scaled(1, s.point[n]), h)
      BY <2>4, <3>1, <3>2
    <3>4. InInterior(s.point[n], h)
      BY <1>2, <3>1, <3>3, PassesOnPart
    <3> QED BY <1>1, <3>4 DEF EdgeDrawn
  <2> HIDE DEF h
  <2> QED BY <1>1, <2>1, <2>2, <2>3, <2>4, <2>5 DEF EdgeDrawn, h
<1> QED BY <1>1, <1>3, <1>4

\* Two open edges one of which continues the other.
LEMMA JoinedDrawn ==
  ASSUME NEW s, Typed(s), Flat(s), NEW d \in DartsOf(s), NEW c \in DartsOf(s),
         EdgeOf(d) # EdgeOf(c), Target(s, d) = Origin(s, c),
         Origin(s, d) # Target(s, d), Origin(s, c) # Target(s, c)
  PROVE  LET j == Joined(Path(s, d), Path(s, c))
         IN  /\ j \in Line /\ IsSimple(j)
             /\ StartPoint(j) = s.point[Origin(s, d)] /\ EndPoint(j) = s.point[Target(s, c)]
             /\ \A n \in DOMAIN s.node \ {Target(s, d)} : ~ InInterior(s.point[n], j)
             /\ \A x \in DOMAIN s.edge \ {EdgeOf(d), EdgeOf(c)} : ~ ShareInterior(s.line[x], j)
<1> DEFINE g == Path(s, d)
           h == Path(s, c)
           j == Joined(g, h)
           m == Target(s, d)
           e1 == EdgeOf(d)
           e2 == EdgeOf(c)
<1>1. /\ g \in Line /\ IsSimple(g) /\ h \in Line /\ IsSimple(h)
      /\ StartPoint(g) = s.point[Origin(s, d)] /\ EndPoint(g) = s.point[m]
      /\ StartPoint(h) = s.point[m] /\ EndPoint(h) = s.point[Target(s, c)]
      /\ Origin(s, d) \in DOMAIN s.node /\ m \in DOMAIN s.node /\ Target(s, c) \in DOMAIN s.node
  BY DartDrawn
<1>2. /\ \A n \in DOMAIN s.node : ~ InInterior(s.point[n], g)
      /\ \A n \in DOMAIN s.node : ~ InInterior(s.point[n], h)
  BY DartDrawn
<1>3. /\ \A w \in Nat \ {0}, q \in Point : InteriorAt(w, q, g) => InteriorAt(w, q, s.line[e1])
      /\ \A w \in Nat \ {0}, q \in Point : InteriorAt(w, q, h) => InteriorAt(w, q, s.line[e2])
  BY DartDrawn
<1>4. e1 \in DOMAIN s.edge /\ e2 \in DOMAIN s.edge /\ e1 # e2
  BY DartsAreDarts
<1>5. /\ \A n \in DOMAIN s.node : s.point[n] \in Point
      /\ \A n, k \in DOMAIN s.node : s.point[n] = s.point[k] => n = k
  BY DEF Flat, NodesPlaced
<1>6. ~ IsClosed(g) /\ ~ IsClosed(h)
  BY <1>1, <1>5 DEF IsClosed
<1>7. ~ ShareInterior(g, h)
  <2>1. ~ ShareInterior(s.line[e1], s.line[e2])
    BY <1>4 DEF Flat
  <2> HIDE DEF g, h, e1, e2
  <2> QED BY <1>3, <2>1 DEF ShareInterior
<1> HIDE DEF g, h, e1, e2, m
<1>8. /\ j \in Line /\ IsSimple(j)
      /\ StartPoint(j) = StartPoint(g) /\ EndPoint(j) = EndPoint(h)
  <2>1. ~ InInterior(StartPoint(g), h) /\ ~ InInterior(EndPoint(h), g)
    BY <1>1, <1>2
  <2>2. EndPoint(g) = StartPoint(h)
    BY <1>1
  <2> QED BY <1>1, <1>6, <1>7, <2>1, <2>2, JoinedLine, JoinedIsSimple
<1>9. ASSUME NEW w \in Nat \ {0}, NEW q \in Point, InteriorAt(w, q, j)
      PROVE  InteriorAt(w, q, g) \/ InteriorAt(w, q, h) \/ q = Scaled(w, s.point[m])
  <2>1. EndPoint(g) = StartPoint(h) /\ EndPoint(g) = s.point[m]
    BY <1>1
  <2> QED BY <1>1, <1>9, <2>1, JoinedInterior
<1> HIDE DEF j
<1>10. ASSUME NEW n \in DOMAIN s.node \ {m}, InInterior(s.point[n], j)
       PROVE  FALSE
  <2>1. /\ s.point[n] \in Point /\ s.point[m] \in Point
        /\ 1 \in Nat \ {0} /\ Scaled(1, s.point[n]) \in Point
    BY <1>1, <1>5, ScaledPoint
  <2>2. InteriorAt(1, Scaled(1, s.point[n]), j)
    BY <1>8, <1>10, <2>1, PassesOnPart
  <2>3. /\ ~ InteriorAt(1, Scaled(1, s.point[n]), g)
        /\ ~ InteriorAt(1, Scaled(1, s.point[n]), h)
    BY <1>1, <1>2, <2>1, PassesOnPart
  <2>4. Scaled(1, s.point[n]) = Scaled(1, s.point[m])
    BY <1>9, <2>1, <2>2, <2>3
  <2>5. s.point[n] = s.point[m]
    BY <2>1, <2>4, ScaledEqual
  <2> QED BY <1>1, <1>5, <2>5
<1>11. ASSUME NEW x \in DOMAIN s.edge \ {e1, e2}, ShareInterior(s.line[x], j)
       PROVE  FALSE
  <2>1. PICK w \in Nat \ {0}, q \in Point : InteriorAt(w, q, s.line[x]) /\ InteriorAt(w, q, j)
    BY <1>11 DEF ShareInterior
  <2>2. s.line[x] \in Line /\ ~ InInterior(s.point[m], s.line[x])
    BY <1>1 DEF Flat, EdgeDrawn
  <2>3. ~ ShareInterior(s.line[x], s.line[e1]) /\ ~ ShareInterior(s.line[x], s.line[e2])
    BY <1>4 DEF Flat
  <2>4. q = Scaled(w, s.point[m])
    BY <1>3, <1>9, <2>1, <2>3 DEF ShareInterior
  <2>5. s.point[m] \in Point
    BY <1>1, <1>5
  <2> QED BY <2>1, <2>2, <2>4, <2>5, PassesOnPart
<1> QED BY <1>1, <1>8, <1>10, <1>11 DEF g, h, j, m, e1, e2

\* How the healed edge runs: along `first` to the common node and on along
\* `last`, which are e1 and e2 in the one order or the other.
LEMMA HealedDarts ==
  ASSUME NEW s, Typed(s), NEW e1, NEW e2, CanHealEdges(s, e1, e2), NEW m \in Meeting(s, e1, e2)
  PROVE  LET row == HealedRow(s, e1, m)
         IN  \E first, last \in DartsOf(s) :
               /\ {EdgeOf(first), EdgeOf(last)} = {e1, e2}
               /\ Target(s, first) = Target(s, m.arrive) /\ Origin(s, last) = Target(s, m.arrive)
               /\ Origin(s, first) # Target(s, first) /\ Origin(s, last) # Target(s, last)
               /\ HealedLine(s, m) = Joined(Path(s, first), Path(s, last))
               /\ row.start_node = Origin(s, first) /\ row.end_node = Target(s, last)
<1> DEFINE first == IF m.arrive > 0 THEN m.arrive ELSE -m.leave
           last  == IF m.arrive > 0 THEN m.leave ELSE -m.arrive
           row   == HealedRow(s, e1, m)
<1>1. /\ e1 \in DOMAIN s.edge /\ e2 \in DOMAIN s.edge /\ s.edge[e1] \in EdgeRow
      /\ e1 \in Nat \ {0} /\ e2 \in Nat \ {0}
      /\ s.edge[e1].start_node # s.edge[e1].end_node
      /\ s.edge[e2].start_node # s.edge[e2].end_node
  BY IdentifiersArePositive DEF CanHealEdges, Typed, IsTopology
<1>2. /\ m.arrive \in {e1, -e1} /\ m.leave \in {e2, -e2}
      /\ Origin(s, m.leave) = Target(s, m.arrive)
  BY MeetingTyped
<1>3. \A d \in {e1, -e1, e2, -e2} : /\ d \in DartsOf(s) /\ d \in Int /\ -(-d) = d
                                    /\ Origin(s, d) # Target(s, d)
  BY <1>1 DEF DartsOf, Origin, Target
<1>4. first \in {e1, -e1, e2, -e2} /\ last \in {e1, -e1, e2, -e2}
      /\ {EdgeOf(first), EdgeOf(last)} = {e1, e2}
  BY <1>1, <1>2 DEF EdgeOf
<1>5. Target(s, first) = Target(s, m.arrive) /\ Origin(s, last) = Target(s, m.arrive)
  <2>1. CASE m.arrive > 0
    BY <1>2, <2>1
  <2>2. CASE ~ m.arrive > 0
    <3>1. first = -m.leave /\ last = -m.arrive /\ -first = m.leave
      BY <1>2, <1>3, <2>2
    <3> QED BY <1>2, <3>1 DEF Target
  <2> QED BY <2>1, <2>2
<1>6. HealedLine(s, m) = Joined(Path(s, first), Path(s, last))
  BY DEF HealedLine
<1>7. row.start_node = Origin(s, first) /\ row.end_node = Target(s, last)
  <2>1. row = [s.edge[e1] EXCEPT !.start_node = Origin(s, first), !.end_node = Target(s, last),
                                 !.next_left = Next(s, last), !.next_right = Next(s, -first)]
    BY DEF HealedRow
  <2> HIDE DEF first, last, row
  <2> QED BY <1>1, <2>1 DEF EdgeRow
<1> HIDE DEF row
<1>8. /\ first \in DartsOf(s) /\ last \in DartsOf(s)
      /\ Origin(s, first) # Target(s, first) /\ Origin(s, last) # Target(s, last)
  <2> HIDE DEF first, last
  <2> QED BY <1>3, <1>4
<1> HIDE DEF first, last
<1> QED BY <1>4, <1>5, <1>6, <1>7, <1>8 DEF row

LEMMA HealEdgesFlat ==
  ASSUME NEW s, Sound(s), Flat(s), NEW e1, NEW e2, CanHealEdges(s, e1, e2),
         NEW m \in Meeting(s, e1, e2),
         NEW into \in EdgeIds, into = e1 \/ into \notin DOMAIN s.edge
  PROVE  Flat(HealEdges(s, e1, e2, m, into))
<1> DEFINE back   == IF m.arrive > 0 THEN -into ELSE into
           rename(d) == IF d = -m.leave THEN back ELSE IF d = m.arrive THEN -back ELSE d
           row    == HealedRow(s, e1, m)
           rows   == WithRow(s.edge, into, row)
           linked == [x \in DOMAIN rows |->
                        [rows[x] EXCEPT !.next_left = rename(@), !.next_right = rename(@)]]
           gone   == {e1, e2} \ {into}
           common == Target(s, m.arrive)
           t == HealEdges(s, e1, e2, m, into)
           r == WithoutNode(WithoutEdges(s, {e1, e2}), common)
<1>1. /\ e1 \in DOMAIN s.edge /\ e2 \in DOMAIN s.edge /\ e1 # e2 /\ e2 # into
      /\ DOMAIN s.line = DOMAIN s.edge /\ DOMAIN s.point = DOMAIN s.node
      /\ \A x \in DOMAIN s.edge : s.edge[x] \in EdgeRow
  BY DEF CanHealEdges, Sound, Typed, IsTopology
<1>2. PICK first \in DartsOf(s), last \in DartsOf(s) :
        /\ {EdgeOf(first), EdgeOf(last)} = {e1, e2}
        /\ Target(s, first) = common /\ Origin(s, last) = common
        /\ Origin(s, first) # Target(s, first) /\ Origin(s, last) # Target(s, last)
        /\ HealedLine(s, m) = Joined(Path(s, first), Path(s, last))
        /\ row.start_node = Origin(s, first) /\ row.end_node = Target(s, last)
  BY HealedDarts DEF Sound
<1>3. row \in EdgeRow
  BY HealedRowTyped DEF Sound
<1>4. Incident(s, common) \subseteq {e1, e2}
  BY MeetingTyped DEF Sound
<1>5. /\ t.edge = WithoutRows(linked, gone)
      /\ t.line = WithoutRows(WithRow(s.line, into, HealedLine(s, m)), gone)
      /\ DOMAIN t.node = DOMAIN s.node \ {common} /\ t.point = WithoutRows(s.point, {common})
  <2> DEFINE changed == [s EXCEPT !.edge = linked, !.line = WithRow(@, into, HealedLine(s, m)),
                                  !.lineal = IF e2 \in @ THEN (@ \ gone) \cup {into} ELSE @]
  <2>1. t = WithoutNode(WithoutEdges(changed, gone), common)
    BY DEF HealEdges
  <2>2. DOMAIN s = {"node", "point", "edge", "line", "mbr", "areal", "lineal"}
    BY DEF Sound, Typed, Tables
  <2> HIDE DEF t, row, common, linked, rows, gone
  <2>3. /\ DOMAIN changed = DOMAIN s /\ changed.edge = linked
        /\ changed.line = WithRow(s.line, into, HealedLine(s, m))
        /\ changed.node = s.node /\ changed.point = s.point
    BY <2>2
  <2> HIDE DEF changed
  <2>4. /\ t.edge = WithoutRows(changed.edge, gone) /\ t.line = WithoutRows(changed.line, gone)
        /\ t.node = WithoutRows(changed.node, {common}) /\ t.point = WithoutRows(changed.point, {common})
    BY <2>1, <2>2, <2>3 DEF WithoutNode, WithoutEdges
  <2> QED BY <2>3, <2>4 DEF WithoutRows
<1>6. /\ r.edge = WithoutRows(s.edge, {e1, e2}) /\ r.line = WithoutRows(s.line, {e1, e2})
      /\ DOMAIN r.node = DOMAIN s.node \ {common} /\ r.point = WithoutRows(s.point, {common})
  BY DEF WithoutNode, WithoutEdges, WithoutRows, Sound, Typed, Tables
<1> HIDE DEF t, r, row, rename, common
<1>7. /\ DOMAIN rows = DOMAIN s.edge \cup {into} /\ rows[into] = row
      /\ \A x \in DOMAIN s.edge \ {into} : rows[x] = s.edge[x]
      /\ \A x \in DOMAIN rows : rows[x] \in EdgeRow
  BY <1>1, <1>3 DEF WithRow
<1> HIDE DEF rows
<1>8. /\ DOMAIN linked = DOMAIN s.edge \cup {into}
      /\ \A x \in DOMAIN linked : /\ linked[x].start_node = rows[x].start_node
                                  /\ linked[x].end_node = rows[x].end_node
  BY <1>7 DEF EdgeRow
<1> HIDE DEF linked
<1>9. /\ DOMAIN r.edge = DOMAIN s.edge \ {e1, e2}
      /\ \A x \in DOMAIN r.edge : r.edge[x] = s.edge[x] /\ r.line[x] = s.line[x]
      /\ \A n \in DOMAIN r.node : r.point[n] = s.point[n]
  BY <1>1, <1>6 DEF WithoutRows
<1>10. Flat(r)
  <2>1. \A x \in DOMAIN r.edge : /\ s.edge[x].start_node \in DOMAIN s.node \ {common}
                                 /\ s.edge[x].end_node \in DOMAIN s.node \ {common}
    BY <1>4, <1>9 DEF Incident, Flat, EdgeDrawn
  <2>2. DrawsPartOf(r, s)
    BY <1>6, <1>9, <2>1 DEF DrawsPartOf
  <2> QED BY <2>2, PartIsFlat
<1>11. /\ DOMAIN t.edge = DOMAIN r.edge \cup {into} /\ into \notin DOMAIN r.edge
       /\ t.line[into] = HealedLine(s, m)
       /\ t.edge[into].start_node = row.start_node /\ t.edge[into].end_node = row.end_node
       /\ \A x \in DOMAIN r.edge : /\ t.line[x] = r.line[x]
                                   /\ t.edge[x].start_node = r.edge[x].start_node
                                   /\ t.edge[x].end_node = r.edge[x].end_node
  <2>1. /\ DOMAIN t.edge = (DOMAIN s.edge \ {e1, e2}) \cup {into}
        /\ \A x \in DOMAIN t.edge : t.edge[x] = linked[x]
    BY <1>1, <1>5, <1>8 DEF WithoutRows
  <2>2. /\ t.line[into] = HealedLine(s, m)
        /\ \A x \in DOMAIN s.edge \ {e1, e2, into} : t.line[x] = s.line[x]
    BY <1>1, <1>5 DEF WithoutRows, WithRow
  <2>3. into \notin DOMAIN r.edge
    BY <1>9
  <2>4. /\ t.edge[into].start_node = row.start_node /\ t.edge[into].end_node = row.end_node
    BY <1>7, <1>8, <2>1
  <2>5. \A x \in DOMAIN r.edge : /\ t.line[x] = r.line[x]
                                 /\ t.edge[x].start_node = r.edge[x].start_node
                                 /\ t.edge[x].end_node = r.edge[x].end_node
    BY <1>7, <1>8, <1>9, <2>1, <2>2, <2>3
  <2> QED BY <1>9, <2>1, <2>2, <2>3, <2>4, <2>5
<1>12. /\ DOMAIN t.node = DOMAIN r.node /\ DOMAIN r.node = DOMAIN s.node \ {common}
       /\ \A n \in DOMAIN r.node : t.point[n] = s.point[n] /\ r.point[n] = s.point[n]
  BY <1>1, <1>5, <1>6, <1>9 DEF WithoutRows
<1> DEFINE j == HealedLine(s, m)
<1>13. /\ j \in Line /\ IsSimple(j)
       /\ StartPoint(j) = s.point[Origin(s, first)] /\ EndPoint(j) = s.point[Target(s, last)]
       /\ \A n \in DOMAIN s.node \ {common} : ~ InInterior(s.point[n], j)
       /\ \A x \in DOMAIN s.edge \ {e1, e2} : ~ ShareInterior(s.line[x], j)
  <2>1. EdgeOf(first) # EdgeOf(last) /\ Target(s, first) = Origin(s, last)
    BY <1>1, <1>2
  <2>2. {EdgeOf(first), EdgeOf(last)} = {e1, e2} /\ Target(s, first) = common
        /\ j = Joined(Path(s, first), Path(s, last))
    BY <1>2
  <2>3. Typed(s) /\ Origin(s, first) # Target(s, first) /\ Origin(s, last) # Target(s, last)
    BY <1>2 DEF Sound
  <2> HIDE DEF j
  <2> QED BY <2>1, <2>2, <2>3, JoinedDrawn
<1>14. Origin(s, first) \in DOMAIN s.node \ {common} /\ Target(s, last) \in DOMAIN s.node \ {common}
  BY <1>2, DartDrawn DEF Sound
<1> HIDE DEF j
<1>15. EdgeDrawn(t, into)
  BY <1>2, <1>11, <1>12, <1>13, <1>14 DEF EdgeDrawn, j
<1>16. \A x \in DOMAIN r.edge : ~ ShareInterior(r.line[x], t.line[into])
  BY <1>9, <1>11, <1>13 DEF j
<1>17. Flat(t)
  BY <1>10, <1>11, <1>12, <1>15, <1>16, EdgeDrawnToo
<1> QED BY <1>17 DEF t

-----------------------------------------------------------------------------
(* The specification.                                                      *)

LEMMA CommitFlat ==
  ASSUME NEW t, Flat(t), Commit(t)
  PROVE  Flat(db)'
<1>1. /\ db'.node = t.node /\ db'.point = t.point
      /\ db'.edge = t.edge /\ db'.line = t.line
  BY DEF Commit, db
<1> DEFINE u == db'
<1> HIDE DEF u
<1>2. Flat(u)
  BY <1>1 DEF u, Flat, NodesPlaced, EdgeDrawn
<1> QED BY <1>2 DEF u

LEMMA InitFlat == Init => Flat(db)
<1> SUFFICES ASSUME Init PROVE Flat(db)
  OBVIOUS
<1>1. DOMAIN db.node = {} /\ DOMAIN db.edge = {}
  BY TablesOfDb DEF Init, EmptyTable
<1> QED BY <1>1 DEF Flat, NodesPlaced

LEMMA StepFlat == Sound(db) /\ Flat(db) /\ [NextCall]_vars => Flat(db)'
<1> SUFFICES ASSUME Sound(db), Flat(db), [NextCall]_vars PROVE Flat(db)'
  OBVIOUS
<1> USE TablesOfDb
<1>a. Typed(db)
  BY DEF Sound
<1>b. Sites \subseteq Point /\ Curves \subseteq Line
  BY InputsAreGeometries
<1>1. CASE rtt_AddIsoNode
  <2>1. PICK p \in Sites, face \in Faces \cup {-1} :
          /\ CanAddIsoNode(db, face, p)
          /\ \E n \in NewNodeId(p) : Commit(AddIsoNode(db, face, p, n))
    BY <1>1 DEF rtt_AddIsoNode
  <2>2. PICK n \in NewNodeId(p) : Commit(AddIsoNode(db, face, p, n))
    BY <2>1
  <2>3. p \in Point /\ n \in NodeIds \ DOMAIN db.node
    BY <1>b, NewIdentifiersAreFree
  <2>4. Flat(AddIsoNode(db, face, p, n))
    BY <1>a, <2>1, <2>3, AddIsoNodeFlat
  <2> QED BY <2>2, <2>4, CommitFlat
<1>2. CASE rtt_MoveIsoNode
  <2>1. PICK n \in DOMAIN node, p \in Sites :
          CanMoveIsoNode(db, n, p) /\ Commit(MoveIsoNode(db, n, p))
    BY <1>2 DEF rtt_MoveIsoNode
  <2>2. p \in Point
    BY <1>b
  <2>3. Flat(MoveIsoNode(db, n, p))
    BY <2>1, <2>2, MoveIsoNodeFlat
  <2> QED BY <2>1, <2>3, CommitFlat
<1>3. CASE rtt_RemoveIsoNode
  <2>1. PICK n \in DOMAIN node : IsIsoNode(db, n) /\ Commit(WithoutNode(db, n))
    BY <1>3 DEF rtt_RemoveIsoNode
  <2>2. Flat(WithoutNode(db, n))
    BY <2>1, RemoveIsoNodeFlat
  <2> QED BY <2>1, <2>2, CommitFlat
<1>4. CASE rtt_AddIsoEdge
  <2>1. PICK n1 \in DOMAIN node, n2 \in DOMAIN node, g \in Curves :
          /\ CanAddIsoEdge(db, n1, n2, g)
          /\ \E e \in NewEdgeId(g, {}) : Commit(AddIsoEdge(db, n1, n2, g, e))
    BY <1>4 DEF rtt_AddIsoEdge
  <2>2. PICK e \in NewEdgeId(g, {}) : Commit(AddIsoEdge(db, n1, n2, g, e))
    BY <2>1
  <2>3. g \in Line /\ e \in EdgeIds \ DOMAIN db.edge
    BY <1>b, NewIdentifiersAreFree
  <2>4. Flat(AddIsoEdge(db, n1, n2, g, e))
    BY <2>1, <2>3, AddIsoEdgeFlat
  <2> QED BY <2>2, <2>4, CommitFlat
<1>5. CASE rtt_RemIsoEdge
  <2>1. PICK e \in DOMAIN edge : Commit(RemIsoEdge(db, e))
    BY <1>5 DEF rtt_RemIsoEdge
  <2>2. Flat(RemIsoEdge(db, e))
    BY <1>a, RemIsoEdgeFlat
  <2> QED BY <2>1, <2>2, CommitFlat
<1>6. CASE rtt_ModEdgeSplit
  <2>1. PICK e \in DOMAIN edge, p \in Sites :
          /\ CanSplitEdge(db, e, p)
          /\ \E n \in NewNodeId(p), e2 \in NewEdgeId(TailFrom(line[e], p), {}) :
               Commit(ModEdgeSplit(db, e, p, n, e2))
    BY <1>6 DEF rtt_ModEdgeSplit
  <2>2. PICK n \in NewNodeId(p), e2 \in NewEdgeId(TailFrom(line[e], p), {}) :
          Commit(ModEdgeSplit(db, e, p, n, e2))
    BY <2>1
  <2>3. p \in Point /\ n \in NodeIds \ DOMAIN db.node /\ e2 \in EdgeIds \ DOMAIN db.edge
    BY <1>b, NewIdentifiersAreFree
  <2>4. Flat(ModEdgeSplit(db, e, p, n, e2))
    BY <2>1, <2>3, ModEdgeSplitFlat
  <2> QED BY <2>2, <2>4, CommitFlat
<1>7. CASE rtt_NewEdgesSplit
  <2>1. PICK e \in DOMAIN edge, p \in Sites :
          /\ CanSplitEdge(db, e, p)
          /\ \E n \in NewNodeId(p), e1 \in NewEdgeId(HeadUpTo(line[e], p), {}) :
               \E e2 \in NewEdgeId(TailFrom(line[e], p), {e1}) :
                 Commit(NewEdgesSplit(db, e, p, n, e1, e2))
    BY <1>7 DEF rtt_NewEdgesSplit
  <2>2. PICK n \in NewNodeId(p), e1 \in NewEdgeId(HeadUpTo(line[e], p), {}) :
          \E e2 \in NewEdgeId(TailFrom(line[e], p), {e1}) :
            Commit(NewEdgesSplit(db, e, p, n, e1, e2))
    BY <2>1
  <2>3. PICK e2 \in NewEdgeId(TailFrom(line[e], p), {e1}) :
          Commit(NewEdgesSplit(db, e, p, n, e1, e2))
    BY <2>2
  <2>4. /\ p \in Point /\ n \in NodeIds \ DOMAIN db.node
        /\ e1 \in EdgeIds \ DOMAIN db.edge /\ e2 \in EdgeIds \ DOMAIN db.edge /\ e1 # e2
    BY <1>b, NewIdentifiersAreFree
  <2>5. Flat(NewEdgesSplit(db, e, p, n, e1, e2))
    BY <2>1, <2>4, NewEdgesSplitFlat
  <2> QED BY <2>3, <2>5, CommitFlat
<1>8. CASE rtt_AddEdgeModFace
  <2>1. PICK n1 \in DOMAIN node, n2 \in DOMAIN node, g \in Curves :
          /\ CanAddEdge(db, n1, n2, g)
          /\ \E a1 \in StartEnds(db, n1, n2, g), a2 \in EndEnds(db, n1, n2, g),
                e \in NewEdgeId(g, {}), nf \in NewFaceId({}) :
             \E spare \in NewFaceId({nf}) :
               LET f == NewEdgeFace(db, n1, n2, a1, a2)
               IN  f # -1 /\ Commit(AddEdgeModFace(db, n1, n2, g, f, a1, a2, e, nf, spare))
    BY <1>8 DEF rtt_AddEdgeModFace
  <2>2. PICK a1 \in StartEnds(db, n1, n2, g), a2 \in EndEnds(db, n1, n2, g),
             e \in NewEdgeId(g, {}), nf \in NewFaceId({}) :
          \E spare \in NewFaceId({nf}) :
            LET f == NewEdgeFace(db, n1, n2, a1, a2)
            IN  f # -1 /\ Commit(AddEdgeModFace(db, n1, n2, g, f, a1, a2, e, nf, spare))
    BY <2>1
  <2> DEFINE f == NewEdgeFace(db, n1, n2, a1, a2)
  <2>3. PICK spare \in NewFaceId({nf}) :
          f # -1 /\ Commit(AddEdgeModFace(db, n1, n2, g, f, a1, a2, e, nf, spare))
    BY <2>2
  <2>4. /\ g \in Line /\ e \in EdgeIds \ DOMAIN db.edge /\ nf \in FaceIds /\ spare \in FaceIds
    BY <1>b, NewIdentifiersAreFree
  <2>5. /\ a1.cw \in DartsAt(db, n1) \cup {0} /\ a1.ccw \in DartsAt(db, n1) \cup {0}
        /\ a2.cw \in DartsAt(db, n2) \cup {0}
    BY AdjacentEndsAreEnds DEF StartEnds, EndEnds
  <2>6. f \in Faces
    BY <1>a, <2>3, <2>5, NewEdgeFaceTyped
  <2> HIDE DEF f
  <2>7. Flat(AddEdgeModFace(db, n1, n2, g, f, a1, a2, e, nf, spare))
    BY <2>1, <2>4, <2>5, <2>6, AddEdgeModFaceFlat
  <2> QED BY <2>3, <2>7, CommitFlat
<1>9. CASE rtt_AddEdgeNewFaces
  <2>1. PICK n1 \in DOMAIN node, n2 \in DOMAIN node, g \in Curves :
          /\ CanAddEdge(db, n1, n2, g)
          /\ \E a1 \in StartEnds(db, n1, n2, g), a2 \in EndEnds(db, n1, n2, g),
                e \in NewEdgeId(g, {}), nf1 \in NewFaceId({}) :
             \E nf \in NewFaceId({nf1}) :
               LET f == NewEdgeFace(db, n1, n2, a1, a2)
               IN  f # -1 /\ Commit(AddEdgeNewFaces(db, n1, n2, g, f, a1, a2, e, nf, nf1))
    BY <1>9 DEF rtt_AddEdgeNewFaces
  <2>2. PICK a1 \in StartEnds(db, n1, n2, g), a2 \in EndEnds(db, n1, n2, g),
             e \in NewEdgeId(g, {}), nf1 \in NewFaceId({}) :
          \E nf \in NewFaceId({nf1}) :
            LET f == NewEdgeFace(db, n1, n2, a1, a2)
            IN  f # -1 /\ Commit(AddEdgeNewFaces(db, n1, n2, g, f, a1, a2, e, nf, nf1))
    BY <2>1
  <2> DEFINE f == NewEdgeFace(db, n1, n2, a1, a2)
  <2>3. PICK nf \in NewFaceId({nf1}) :
          f # -1 /\ Commit(AddEdgeNewFaces(db, n1, n2, g, f, a1, a2, e, nf, nf1))
    BY <2>2
  <2>4. /\ g \in Line /\ e \in EdgeIds \ DOMAIN db.edge /\ nf \in FaceIds /\ nf1 \in FaceIds
    BY <1>b, NewIdentifiersAreFree
  <2>5. /\ a1.cw \in DartsAt(db, n1) \cup {0} /\ a1.ccw \in DartsAt(db, n1) \cup {0}
        /\ a2.cw \in DartsAt(db, n2) \cup {0}
    BY AdjacentEndsAreEnds DEF StartEnds, EndEnds
  <2>6. f \in Faces
    BY <1>a, <2>3, <2>5, NewEdgeFaceTyped
  <2> HIDE DEF f
  <2>7. Flat(AddEdgeNewFaces(db, n1, n2, g, f, a1, a2, e, nf, nf1))
    BY <2>1, <2>4, <2>5, <2>6, AddEdgeNewFacesFlat
  <2> QED BY <2>3, <2>7, CommitFlat
<1>10. CASE rtt_RemEdgeModFace
  <2>1. PICK e \in DOMAIN edge : Commit(RemEdge(db, e, TRUE, Universe))
    BY <1>10 DEF rtt_RemEdgeModFace
  <2>2. Flat(RemEdge(db, e, TRUE, Universe))
    BY RemEdgeFlat DEF Faces
  <2> QED BY <2>1, <2>2, CommitFlat
<1>11. CASE rtt_RemEdgeNewFace
  <2>1. PICK e \in DOMAIN edge, nf \in NewFaceId({}) : Commit(RemEdge(db, e, FALSE, nf))
    BY <1>11 DEF rtt_RemEdgeNewFace
  <2>2. nf \in Faces
    BY NewIdentifiersAreFree DEF Faces
  <2>3. Flat(RemEdge(db, e, FALSE, nf))
    BY <2>2, RemEdgeFlat
  <2> QED BY <2>1, <2>3, CommitFlat
<1>12. CASE rtt_ModEdgeHeal
  <2>1. PICK e1 \in DOMAIN edge, e2 \in DOMAIN edge :
          /\ CanHealEdges(db, e1, e2)
          /\ \E m \in Meeting(db, e1, e2) : Commit(HealEdges(db, e1, e2, m, e1))
    BY <1>12 DEF rtt_ModEdgeHeal
  <2>2. PICK m \in Meeting(db, e1, e2) : Commit(HealEdges(db, e1, e2, m, e1))
    BY <2>1
  <2>3. e1 \in EdgeIds
    BY DEF Sound, Typed, IsTopology
  <2>4. Flat(HealEdges(db, e1, e2, m, e1))
    BY <2>1, <2>3, HealEdgesFlat
  <2> QED BY <2>2, <2>4, CommitFlat
<1>13. CASE rtt_NewEdgeHeal
  <2>1. PICK e1 \in DOMAIN edge, e2 \in DOMAIN edge :
          /\ CanHealEdges(db, e1, e2)
          /\ \E m \in Meeting(db, e1, e2) : \E e \in NewEdgeId(HealedLine(db, m), {}) :
               Commit(HealEdges(db, e1, e2, m, e))
    BY <1>13 DEF rtt_NewEdgeHeal
  <2>2. PICK m \in Meeting(db, e1, e2) : \E e \in NewEdgeId(HealedLine(db, m), {}) :
          Commit(HealEdges(db, e1, e2, m, e))
    BY <2>1
  <2>3. PICK e \in NewEdgeId(HealedLine(db, m), {}) : Commit(HealEdges(db, e1, e2, m, e))
    BY <2>2
  <2>4. e \in EdgeIds \ DOMAIN db.edge
    BY NewIdentifiersAreFree
  <2>5. Flat(HealEdges(db, e1, e2, m, e))
    BY <2>1, <2>4, HealEdgesFlat
  <2> QED BY <2>3, <2>5, CommitFlat
<1>14. CASE rtt_ChangeEdgeGeom
  <2>1. PICK e \in DOMAIN edge, g \in Curves :
          CanChangeEdgeGeom(db, e, g) /\ Commit(ChangeEdgeGeom(db, e, g))
    BY <1>14 DEF rtt_ChangeEdgeGeom
  <2>2. g \in Line
    BY <1>b
  <2>3. Flat(ChangeEdgeGeom(db, e, g))
    BY <2>1, <2>2, ChangeEdgeGeomFlat
  <2> QED BY <2>1, <2>3, CommitFlat
<1>15. CASE CreateArealTopoGeom
  <2>1. node' = node /\ point' = point /\ edge' = edge /\ line' = line
    BY <1>15 DEF CreateArealTopoGeom
  <2> QED BY <2>1 DEF Flat, NodesPlaced, EdgeDrawn, db
<1>16. CASE CreateLinealTopoGeom
  <2>1. node' = node /\ point' = point /\ edge' = edge /\ line' = line
    BY <1>16 DEF CreateLinealTopoGeom
  <2> QED BY <2>1 DEF Flat, NodesPlaced, EdgeDrawn, db
<1>17. CASE UNCHANGED vars
  <2>1. db' = db
    BY <1>17 DEF vars, db
  <2> QED BY <2>1
<1> QED BY <1>1, <1>2, <1>3, <1>4, <1>5, <1>6, <1>7, <1>8, <1>9, <1>10, <1>11, <1>12,
           <1>13, <1>14, <1>15, <1>16, <1>17 DEF NextCall

LEMMA AlwaysFlat == Spec => [](Sound(db) /\ Flat(db))
<1>1. Init => Sound(db) /\ Flat(db)
  BY InitSound, InitFlat
<1>2. Sound(db) /\ Flat(db) /\ [NextCall]_vars => (Sound(db) /\ Flat(db))'
  BY StepSound, StepFlat
<1> QED BY <1>1, <1>2, PTL DEF Spec

\* The checks of the functions (simple line, ends at their nodes, no crossing
\* found by the box filter and the relation of the two lines, point inside the
\* edge to split, open edges to heal) are enough to keep the edges a plane
\* drawing for ever, for every set of points, lines and identifiers.
THEOREM TopologyIsAlwaysPlanar == Spec => []Planar
<1>1. Flat(db) => Planar
  BY FlatIsPlanar DEF Planar
<1> QED BY <1>1, AlwaysFlat, PTL
=============================================================================
