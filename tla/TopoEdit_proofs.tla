--------------------------- MODULE TopoEdit_proofs --------------------------
(***************************************************************************)
(* The tables stay well typed, and the isolation marks of nodes stay in    *)
(* step with the edge table, for every set of identifiers, points and      *)
(* lines and every choice of calls.                                        *)
(*                                                                         *)
(* The inductive invariant is Sound(db): the tables are typed and          *)
(* IsolationMatchesEdges holds.  Each operation of TopoOps is shown to     *)
(* lead from a sound topology to a sound one.  Those that write no node    *)
(* and no end of an edge are shown to be a relabelling, which keeps the    *)
(* marks by itself; the others are compared row by row.                    *)
(***************************************************************************)
EXTENDS TopoEdit, TLAPS

Tables == {"node", "point", "edge", "line", "mbr", "areal", "lineal"}
Typed(s) == DOMAIN s = Tables /\ IsTopology(s)

-----------------------------------------------------------------------------
(* Tables.                                                                 *)

LEMMA RowAdded ==
  ASSUME NEW t, NEW id, NEW row
  PROVE  /\ DOMAIN WithRow(t, id, row) = DOMAIN t \cup {id}
         /\ WithRow(t, id, row)[id] = row
         /\ \A x \in DOMAIN t \ {id} : WithRow(t, id, row)[x] = t[x]
BY DEF WithRow

LEMMA RowsRemoved ==
  ASSUME NEW t, NEW ids
  PROVE  /\ DOMAIN WithoutRows(t, ids) = DOMAIN t \ ids
         /\ \A x \in DOMAIN t \ ids : WithoutRows(t, ids)[x] = t[x]
BY DEF WithoutRows

LEMMA WithNodeTyped ==
  ASSUME NEW s, Typed(s), NEW n \in NodeIds, NEW f \in Faces \cup {NotIsolated}, NEW p
  PROVE  Typed(WithNode(s, n, f, p))
<1> DEFINE t == WithNode(s, n, f, p)
<1> SUFFICES Typed(t) OBVIOUS
<1>1. /\ DOMAIN t = Tables
      /\ t.node = WithRow(s.node, n, f) /\ t.point = WithRow(s.point, n, p)
      /\ t.edge = s.edge /\ t.line = s.line /\ t.mbr = s.mbr
      /\ t.areal = s.areal /\ t.lineal = s.lineal
  BY DEF Typed, Tables, WithNode
<1> HIDE DEF t
<1>2. DOMAIN t.node \subseteq NodeIds /\ DOMAIN t.point = DOMAIN t.node
  BY <1>1 DEF Typed, IsTopology, WithRow
<1>3. \A x \in DOMAIN t.node : t.node[x] \in Faces \cup {NotIsolated}
  BY <1>1 DEF Typed, IsTopology, WithRow
<1> QED BY <1>1, <1>2, <1>3 DEF Typed, IsTopology

LEMMA WithEdgeTyped ==
  ASSUME NEW s, Typed(s), NEW e \in EdgeIds, NEW row \in EdgeRow, NEW g
  PROVE  Typed(WithEdge(s, e, row, g))
<1> DEFINE t == WithEdge(s, e, row, g)
<1> SUFFICES Typed(t) OBVIOUS
<1>1. /\ DOMAIN t = Tables
      /\ t.edge = WithRow(s.edge, e, row) /\ t.line = WithRow(s.line, e, g)
      /\ t.node = s.node /\ t.point = s.point /\ t.mbr = s.mbr
      /\ t.areal = s.areal /\ t.lineal = s.lineal
  BY DEF Typed, Tables, WithEdge
<1> HIDE DEF t
<1>2. DOMAIN t.edge \subseteq EdgeIds /\ DOMAIN t.line = DOMAIN t.edge
  BY <1>1 DEF Typed, IsTopology, WithRow
<1>3. \A x \in DOMAIN t.edge : t.edge[x] \in EdgeRow
  BY <1>1 DEF Typed, IsTopology, WithRow
<1> QED BY <1>1, <1>2, <1>3 DEF Typed, IsTopology

LEMMA WithoutEdgesTyped ==
  ASSUME NEW s, Typed(s), NEW es
  PROVE  Typed(WithoutEdges(s, es))
<1> DEFINE t == WithoutEdges(s, es)
<1> SUFFICES Typed(t) OBVIOUS
<1>1. /\ DOMAIN t = Tables
      /\ t.edge = WithoutRows(s.edge, es) /\ t.line = WithoutRows(s.line, es)
      /\ t.node = s.node /\ t.point = s.point /\ t.mbr = s.mbr
      /\ t.areal = s.areal /\ t.lineal = s.lineal
  BY DEF Typed, Tables, WithoutEdges
<1> HIDE DEF t
<1> QED BY <1>1 DEF Typed, IsTopology, WithoutRows

LEMMA WithoutNodeTyped ==
  ASSUME NEW s, Typed(s), NEW n
  PROVE  Typed(WithoutNode(s, n))
<1> DEFINE t == WithoutNode(s, n)
<1> SUFFICES Typed(t) OBVIOUS
<1>1. /\ DOMAIN t = Tables
      /\ t.node = WithoutRows(s.node, {n}) /\ t.point = WithoutRows(s.point, {n})
      /\ t.edge = s.edge /\ t.line = s.line /\ t.mbr = s.mbr
      /\ t.areal = s.areal /\ t.lineal = s.lineal
  BY DEF Typed, Tables, WithoutNode
<1> HIDE DEF t
<1> QED BY <1>1 DEF Typed, IsTopology, WithoutRows

LEMMA WithContainingFaceTyped ==
  ASSUME NEW s, Typed(s), NEW ns, NEW f \in Faces \cup {NotIsolated}
  PROVE  Typed(WithContainingFace(s, ns, f))
<1> DEFINE t == WithContainingFace(s, ns, f)
<1> SUFFICES Typed(t) OBVIOUS
<1>1. /\ DOMAIN t = Tables
      /\ t.node = [n \in DOMAIN s.node |-> IF n \in ns THEN f ELSE s.node[n]]
      /\ t.point = s.point /\ t.edge = s.edge /\ t.line = s.line /\ t.mbr = s.mbr
      /\ t.areal = s.areal /\ t.lineal = s.lineal
  BY DEF Typed, Tables, WithContainingFace
<1> HIDE DEF t
<1> QED BY <1>1 DEF Typed, IsTopology

-----------------------------------------------------------------------------
(* Changes that leave nodes, edges and their ends as they are.             *)

Relabelled(s, t) ==
  /\ DOMAIN t.node = DOMAIN s.node
  /\ \A n \in DOMAIN s.node : (t.node[n] = NotIsolated) <=> (s.node[n] = NotIsolated)
  /\ DOMAIN t.edge = DOMAIN s.edge
  /\ \A e \in DOMAIN s.edge : /\ t.edge[e].start_node = s.edge[e].start_node
                              /\ t.edge[e].end_node = s.edge[e].end_node

LEMMA RelabellingIsTransitive ==
  ASSUME NEW s, NEW t, NEW u, Relabelled(s, t), Relabelled(t, u)
  PROVE  Relabelled(s, u)
BY DEF Relabelled

LEMMA RelabellingKeepsIsolation ==
  ASSUME NEW s, NEW t, Relabelled(s, t), IsolationMatchesEdges(s)
  PROVE  IsolationMatchesEdges(t)
BY DEF Relabelled, IsolationMatchesEdges, Incident

\* New links and faces for the rows of edges, new containing faces for nodes.
LEMMA RowsRelabelled ==
  ASSUME NEW s, Typed(s), NEW t, DOMAIN t = Tables,
         DOMAIN t.node = DOMAIN s.node, t.point = s.point,
         DOMAIN t.edge = DOMAIN s.edge, DOMAIN t.line = DOMAIN s.line,
         DOMAIN t.mbr \subseteq FaceIds,
         t.areal \subseteq Faces, t.lineal \subseteq EdgeIds,
         \A n \in DOMAIN s.node : \/ t.node[n] = s.node[n]
                                  \/ s.node[n] \in Faces /\ t.node[n] \in Faces,
         \A e \in DOMAIN s.edge : /\ t.edge[e] \in EdgeRow
                                  /\ t.edge[e].start_node = s.edge[e].start_node
                                  /\ t.edge[e].end_node = s.edge[e].end_node
  PROVE  Typed(t) /\ Relabelled(s, t)
<1>1. NotIsolated \notin Faces
  BY IdentifiersArePositive DEF Faces, Universe, NotIsolated
<1>2. Typed(t)
  BY DEF Typed, IsTopology
<1>3. Relabelled(s, t)
  BY <1>1 DEF Relabelled
<1> QED BY <1>2, <1>3

LEMMA SplitEdgeRowTyped ==
  ASSUME NEW s, Typed(s), NEW e \in DOMAIN s.edge, NEW ring, NEW outside, NEW face,
         NEW nf \in Faces
  PROVE  LET row == SplitEdgeRow(s, e, ring, outside, face, nf)
         IN  /\ row \in EdgeRow
             /\ row.start_node = s.edge[e].start_node
             /\ row.end_node = s.edge[e].end_node
<1>1. s.edge[e] \in EdgeRow
  BY DEF Typed, IsTopology
<1>2. PICK fl \in Faces, fr \in Faces :
        SplitEdgeRow(s, e, ring, outside, face, nf) \in
          {s.edge[e], [s.edge[e] EXCEPT !.face_left = fl, !.face_right = fr]}
  BY <1>1 DEF SplitEdgeRow, EdgeRow
<1> QED BY <1>1, <1>2 DEF EdgeRow

LEMMA SplitNodeFaceTyped ==
  ASSUME NEW s, NEW n, NEW ring, NEW outside, NEW face \in Faces, NEW nf \in Faces
  PROVE  LET f == SplitNodeFace(s, n, ring, outside, face, nf)
         IN  f = s.node[n] \/ (s.node[n] \in Faces /\ f \in Faces)
BY DEF SplitNodeFace

LEMMA AddFaceSplitRelabels ==
  ASSUME NEW s, Typed(s), NEW d, NEW face \in Faces, NEW mbrOnly \in BOOLEAN,
         NEW nf \in FaceIds
  PROVE  LET split == AddFaceSplit(s, d, face, mbrOnly, nf)
         IN  /\ Typed(split.topo) /\ Relabelled(s, split.topo)
             /\ split.face \in {-1, 0, nf}
             /\ face # Universe /\ ~ mbrOnly => split.face \in {0, nf}
<1> DEFINE ring    == Ring(s, d)
           isccw   == RingSweep(s, ring) >= 0
           outside == face # Universe /\ ~ isccw
           box     == SplitBox(s, ring, outside, face)
           narrowed == [s EXCEPT !.mbr[face] = box]
           divided  == [s EXCEPT
              !.mbr  = WithRow(@, nf, box),
              !.edge = [e \in DOMAIN @ |-> SplitEdgeRow(s, e, ring, outside, face, nf)],
              !.node = [n \in DOMAIN @ |-> SplitNodeFace(s, n, ring, outside, face, nf)]]
<1>0. nf \in Faces
  BY DEF Faces
<1>1. Typed(s) /\ Relabelled(s, s)
  BY DEF Relabelled
<1>2. Typed(narrowed) /\ Relabelled(s, narrowed)
  <2> HIDE DEF box
  <2>1. /\ DOMAIN narrowed = Tables
        /\ narrowed.node = s.node /\ narrowed.point = s.point
        /\ narrowed.edge = s.edge /\ narrowed.line = s.line
        /\ narrowed.mbr = [s.mbr EXCEPT ![face] = box]
        /\ narrowed.areal = s.areal /\ narrowed.lineal = s.lineal
    BY DEF Typed, Tables
  <2> HIDE DEF narrowed
  <2> QED BY <2>1 DEF Typed, IsTopology, Relabelled
<1>3. Typed(divided) /\ Relabelled(s, divided)
  <2> HIDE DEF box, outside, ring
  <2>1. /\ DOMAIN divided = Tables
        /\ divided.node = [n \in DOMAIN s.node |-> SplitNodeFace(s, n, ring, outside, face, nf)]
        /\ divided.edge = [e \in DOMAIN s.edge |-> SplitEdgeRow(s, e, ring, outside, face, nf)]
        /\ divided.point = s.point /\ divided.line = s.line
        /\ divided.mbr = WithRow(s.mbr, nf, box)
        /\ divided.areal = s.areal /\ divided.lineal = s.lineal
    BY DEF Typed, Tables
  <2> HIDE DEF divided
  <2>2. \A n \in DOMAIN s.node : \/ divided.node[n] = s.node[n]
                                 \/ s.node[n] \in Faces /\ divided.node[n] \in Faces
    BY <1>0, <2>1, SplitNodeFaceTyped
  <2>3. \A e \in DOMAIN s.edge : /\ divided.edge[e] \in EdgeRow
                                 /\ divided.edge[e].start_node = s.edge[e].start_node
                                 /\ divided.edge[e].end_node = s.edge[e].end_node
    BY <1>0, <2>1, SplitEdgeRowTyped
  <2>4. DOMAIN divided.mbr \subseteq FaceIds
    BY <2>1 DEF Typed, IsTopology, WithRow
  <2> QED BY <2>1, <2>2, <2>3, <2>4, RowsRelabelled DEF Typed, IsTopology
<1>4. AddFaceSplit(s, d, face, mbrOnly, nf) \in
        {[face |-> 0, topo |-> s], [face |-> -1, topo |-> s],
         [face |-> -1, topo |-> narrowed], [face |-> nf, topo |-> divided]}
  BY DEF AddFaceSplit
<1>5. face # Universe /\ ~ mbrOnly => AddFaceSplit(s, d, face, mbrOnly, nf) \in
        {[face |-> 0, topo |-> s], [face |-> nf, topo |-> divided]}
  BY DEF AddFaceSplit
<1> HIDE DEF narrowed, divided
<1> QED BY <1>1, <1>2, <1>3, <1>4, <1>5

LEMMA TopoGeomFaceSplitRelabels ==
  ASSUME NEW s, Typed(s), NEW f, NEW new1 \in Faces, NEW new2 \in Faces \cup {-1}
  PROVE  LET t == TopoGeomFaceSplit(s, f, new1, new2)
         IN  Typed(t) /\ Relabelled(s, t)
<1> DEFINE t == TopoGeomFaceSplit(s, f, new1, new2)
<1> SUFFICES Typed(t) /\ Relabelled(s, t) OBVIOUS
<1>1. /\ DOMAIN t = Tables
      /\ t.node = s.node /\ t.point = s.point /\ t.edge = s.edge /\ t.line = s.line
      /\ t.mbr = s.mbr /\ t.lineal = s.lineal
      /\ t.areal \subseteq s.areal \cup ({new1, new2} \cap Faces)
  BY DEF Typed, Tables, TopoGeomFaceSplit
<1> HIDE DEF t
<1> QED BY <1>1 DEF Typed, IsTopology, Relabelled

LEMMA SplitModFaceRelabels ==
  ASSUME NEW s, Typed(s), NEW e, NEW f \in Faces, NEW nf \in FaceIds, NEW spare \in FaceIds
  PROVE  LET t == SplitModFace(s, e, f, nf, spare)
         IN  Typed(t) /\ Relabelled(s, t)
<1> DEFINE onLeft  == AddFaceSplit(s, e, f, FALSE, nf)
           onRight == AddFaceSplit(s, -e, f, FALSE, nf)
           again   == AddFaceSplit(onLeft.topo, -e, f, TRUE, spare)
           split   == RightSide(s, onLeft, e, f, nf, spare)
<1>1. /\ Typed(onLeft.topo) /\ Relabelled(s, onLeft.topo) /\ onLeft.face \in {-1, 0, nf}
      /\ Typed(onRight.topo) /\ Relabelled(s, onRight.topo) /\ onRight.face \in {-1, 0, nf}
  BY AddFaceSplitRelabels
<1>2. Typed(again.topo) /\ Relabelled(onLeft.topo, again.topo)
  <2> HIDE DEF onLeft
  <2> QED BY <1>1, AddFaceSplitRelabels
<1>3. SplitModFace(s, e, f, nf, spare) = KeepSplit(s, split, f)
  BY DEF SplitModFace
<1>4. /\ onLeft = [face |-> onLeft.face, topo |-> onLeft.topo]
      /\ split = IF onLeft.face = 0 THEN onLeft
                 ELSE IF onLeft.face > 0 THEN [onLeft EXCEPT !.topo = again.topo]
                 ELSE onRight
  BY DEF AddFaceSplit, RightSide
<1> HIDE DEF onLeft, onRight, again, split
<1>5. Relabelled(s, again.topo)
  BY <1>1, <1>2, RelabellingIsTransitive
<1>6. \/ split.face = onLeft.face /\ split.topo \in {onLeft.topo, again.topo}
      \/ split = onRight
  BY <1>4
<1>7. Typed(split.topo) /\ Relabelled(s, split.topo) /\ split.face \in {-1, 0, nf}
  BY <1>1, <1>2, <1>5, <1>6
<1>8. split.face = nf =>
        LET t == TopoGeomFaceSplit(split.topo, f, split.face, -1)
        IN  Typed(t) /\ Relabelled(s, t)
  BY <1>7, TopoGeomFaceSplitRelabels, RelabellingIsTransitive DEF Faces, Universe
<1>9. Relabelled(s, s)
  BY DEF Relabelled
<1> QED BY <1>3, <1>7, <1>8, <1>9 DEF KeepSplit

LEMMA SplitNewFacesRelabels ==
  ASSUME NEW s, Typed(s), NEW e, NEW f \in Faces, NEW nf \in FaceIds, NEW nf1 \in FaceIds
  PROVE  LET t == SplitNewFaces(s, e, f, nf, nf1)
         IN  Typed(t) /\ Relabelled(s, t)
<1> DEFINE onRight == AddFaceSplit(s, -e, f, FALSE, nf1)
           onLeft  == AddFaceSplit(onRight.topo, e, f, FALSE, nf)
           parts   == TopoGeomFaceSplit(onLeft.topo, f, onLeft.face, onRight.face)
           final   == [parts EXCEPT !.mbr = WithoutRows(@, {f})]
<1>1. /\ Typed(onRight.topo) /\ Relabelled(s, onRight.topo)
      /\ onRight.face \in {-1, 0, nf1}
      /\ f # Universe => onRight.face \in {0, nf1}
  BY AddFaceSplitRelabels
<1>2. SplitNewFaces(s, e, f, nf, nf1) =
        IF onRight.face = 0 THEN s ELSE IF f = Universe THEN onLeft.topo ELSE final
  BY DEF SplitNewFaces
<1> HIDE DEF onRight
<1>3. /\ Typed(onLeft.topo) /\ Relabelled(onRight.topo, onLeft.topo)
      /\ onLeft.face \in {-1, 0, nf}
      /\ f # Universe => onLeft.face \in {0, nf}
  BY <1>1, AddFaceSplitRelabels
<1> HIDE DEF onLeft
<1>4. Relabelled(s, onLeft.topo)
  BY <1>1, <1>3, RelabellingIsTransitive
<1>5. f # Universe => Typed(parts) /\ Relabelled(onLeft.topo, parts)
  BY <1>1, <1>3, TopoGeomFaceSplitRelabels DEF Faces, Universe
<1> HIDE DEF parts
<1>6. f # Universe => Typed(final) /\ Relabelled(parts, final)
  <2> SUFFICES ASSUME f # Universe PROVE Typed(final) /\ Relabelled(parts, final)
    OBVIOUS
  <2>1. /\ DOMAIN final = Tables
        /\ final.node = parts.node /\ final.point = parts.point
        /\ final.edge = parts.edge /\ final.line = parts.line
        /\ final.mbr = WithoutRows(parts.mbr, {f})
        /\ final.areal = parts.areal /\ final.lineal = parts.lineal
    BY <1>5 DEF Typed, Tables
  <2> HIDE DEF final
  <2> QED BY <1>5, <2>1 DEF Typed, IsTopology, Relabelled, WithoutRows
<1> HIDE DEF final
<1>7. f # Universe => Relabelled(s, final)
  BY <1>4, <1>5, <1>6, RelabellingIsTransitive
<1>8. Relabelled(s, s)
  BY DEF Relabelled
<1> QED BY <1>2, <1>3, <1>4, <1>6, <1>7, <1>8

-----------------------------------------------------------------------------
(* Adding an edge.                                                         *)

LEMMA DartsAreDarts ==
  ASSUME NEW s, Typed(s), NEW d \in DartsOf(s)
  PROVE  /\ d \in Darts /\ d # 0
         /\ -d \in DartsOf(s)
         /\ EdgeOf(d) \in DOMAIN s.edge
         /\ Left(s, d) \in Faces
         /\ Next(s, d) \in Darts
         /\ Origin(s, d) \in NodeIds /\ Target(s, d) \in NodeIds
<1>1. DOMAIN s.edge \subseteq EdgeIds /\ \A x \in DOMAIN s.edge : s.edge[x] \in EdgeRow
  BY DEF Typed, IsTopology
<1>2. DOMAIN s.edge \subseteq Nat \ {0}
  BY <1>1, IdentifiersArePositive
<1>3. d \in Int /\ d # 0 /\ d \in Darts /\ -d \in DartsOf(s) /\ EdgeOf(d) \in DOMAIN s.edge
  BY <1>1, <1>2 DEF DartsOf, Darts, EdgeOf
<1>4. EdgeOf(d) = (IF d > 0 THEN d ELSE -d)
  BY DEF EdgeOf
<1>5. s.edge[EdgeOf(d)] \in EdgeRow
  BY <1>1, <1>3
<1>6. Left(s, d) \in Faces /\ Next(s, d) \in Darts
  BY <1>4, <1>5 DEF Left, Next, EdgeRow
<1>7. \A x \in DartsOf(s) : Origin(s, x) \in NodeIds
  BY <1>1, <1>2 DEF Origin, DartsOf, EdgeRow
<1>8. Origin(s, d) \in NodeIds /\ Target(s, d) \in NodeIds
  BY <1>3, <1>7 DEF Target
<1> QED BY <1>3, <1>6, <1>8

LEMMA AdjacentEndsAreEnds ==
  ASSUME NEW s, NEW n, NEW u, NEW others, NEW myself,
         NEW a \in AdjacentEnds(s, n, u, others, myself)
  PROVE  a.cw \in DartsAt(s, n) \cup {0} /\ a.ccw \in DartsAt(s, n) \cup {0}
<1> DEFINE ends == {[id |-> d, dir |-> Leaving(s, d)] :
                      d \in {x \in DartsAt(s, n) : EdgeOf(x) # myself}}
                   \cup {[id |-> 0, dir |-> v] : v \in others}
<1>1. \A x \in ends : x.id \in DartsAt(s, n) \cup {0}
  OBVIOUS
<1> HIDE DEF ends
<1>2. AdjacentEnds(s, n, u, others, myself) \subseteq
        {[cw |-> 0, ccw |-> 0]} \cup {[cw |-> x.id, ccw |-> y.id] : x \in ends, y \in ends}
  BY DEF AdjacentEnds, ends
<1> QED BY <1>1, <1>2

LEMMA LinkedNodesHaveEdges ==
  ASSUME NEW s, Typed(s), NEW n, DartsAt(s, n) # {}
  PROVE  Incident(s, n) # {}
<1>1. PICK d \in DartsOf(s) : Origin(s, d) = n
  BY DEF DartsAt
<1>2. EdgeOf(d) \in DOMAIN s.edge
  BY DartsAreDarts
<1>3. n \in {s.edge[EdgeOf(d)].start_node, s.edge[EdgeOf(d)].end_node}
  BY <1>1 DEF Origin, EdgeOf
<1> QED BY <1>2, <1>3 DEF Incident

LEMMA AdjacentFaces ==
  ASSUME NEW s, Typed(s), NEW n, NEW a,
         a.cw \in DartsAt(s, n) \cup {0}, a.ccw \in DartsAt(s, n) \cup {0}
  PROVE  CwFace(s, a) \in Faces \cup {-1} /\ CcwFace(s, a) \in Faces \cup {-1}
BY DartsAreDarts DEF CwFace, CcwFace, DartsAt

LEMMA NewEdgeFaceTyped ==
  ASSUME NEW s, Typed(s), NEW n1 \in DOMAIN s.node, NEW n2 \in DOMAIN s.node,
         NEW a1, a1.cw \in DartsAt(s, n1) \cup {0}, a1.ccw \in DartsAt(s, n1) \cup {0},
         NEW a2
  PROVE  NewEdgeFace(s, n1, n2, a1, a2) \in Faces \cup {-1}
<1> DEFINE named == {s.node[n1], s.node[n2]} \ {NotIsolated}
           given == IF named = {} THEN -1 ELSE CHOOSE f \in named : TRUE
<1>1. CwFace(s, a1) \in Faces \cup {-1} /\ CcwFace(s, a1) \in Faces \cup {-1}
  BY AdjacentFaces
<1>2. given \in Faces \cup {-1}
  BY DEF Typed, IsTopology
<1> HIDE DEF given
<1>3. NewEdgeFace(s, n1, n2, a1, a2) \in
        {-1, given, CwFace(s, a1), CcwFace(s, a1)}
  BY DEF NewEdgeFace, NewEdgeSides, given
<1> QED BY <1>1, <1>2, <1>3

LEMMA NewEdgeRowTyped ==
  ASSUME NEW s, Typed(s), NEW n1 \in NodeIds, NEW n2 \in NodeIds, NEW f \in Faces,
         NEW a1, a1.cw \in DartsAt(s, n1) \cup {0},
         NEW a2, a2.cw \in DartsAt(s, n2) \cup {0},
         NEW e \in EdgeIds
  PROVE  LET row == NewEdgeRow(s, n1, n2, f, a1, a2, e)
         IN  row \in EdgeRow /\ row.start_node = n1 /\ row.end_node = n2
<1>1. e \in Darts /\ -e \in Darts /\ -(-e) \in Darts
  BY IdentifiersArePositive DEF Darts
<1>2. /\ a1.cw # 0 => a1.cw \in Darts
      /\ a2.cw # 0 => a2.cw \in Darts
  BY DartsAreDarts DEF DartsAt
<1> QED BY <1>1, <1>2 DEF NewEdgeRow, NextAfter, EdgeRow

Sound(s) == Typed(s) /\ IsolationMatchesEdges(s)

LEMMA LinkEdgeSound ==
  ASSUME NEW s, Sound(s), NEW n1 \in DOMAIN s.node, NEW n2 \in DOMAIN s.node,
         NEW g, NEW f \in Faces,
         NEW a1, a1.cw \in DartsAt(s, n1) \cup {0},
         NEW a2, a2.cw \in DartsAt(s, n2) \cup {0},
         NEW e \in EdgeIds \ DOMAIN s.edge
  PROVE  Sound(LinkEdge(s, n1, n2, g, f, a1, a2, e))
<1> DEFINE relinked(x) ==
             [s.edge[x] EXCEPT !.next_left  = Relinked(s, n1, n2, a1, a2, e, x, @),
                               !.next_right = Relinked(s, n1, n2, a1, a2, e, -x, @)]
           t == [s EXCEPT !.edge = [x \in DOMAIN @ |-> relinked(x)]]
           row == NewEdgeRow(s, n1, n2, f, a1, a2, e)
           alone == {n \in {n1, n2} : DartsAt(s, n) = {}}
           u == WithEdge(t, e, row, g)
           v == WithContainingFace(u, alone, NotIsolated)
<1>1. n1 \in NodeIds /\ n2 \in NodeIds
  BY DEF Sound, Typed, IsTopology
<1>2. e \in Darts /\ -e \in Darts
  BY IdentifiersArePositive DEF Darts
<1>3. Typed(t) /\ Relabelled(s, t)
  <2>1. /\ DOMAIN t = Tables
        /\ t.edge = [x \in DOMAIN s.edge |-> relinked(x)]
        /\ t.node = s.node /\ t.point = s.point /\ t.line = s.line /\ t.mbr = s.mbr
        /\ t.areal = s.areal /\ t.lineal = s.lineal
    BY DEF Sound, Typed, Tables
  <2>2. \A x \in DOMAIN s.edge : /\ relinked(x) \in EdgeRow
                                 /\ relinked(x).start_node = s.edge[x].start_node
                                 /\ relinked(x).end_node = s.edge[x].end_node
    <3>1. \A d, old : old \in Darts => Relinked(s, n1, n2, a1, a2, e, d, old) \in Darts
      BY <1>2 DEF Relinked
    <3>2. \A x \in DOMAIN s.edge : s.edge[x] \in EdgeRow
      BY DEF Sound, Typed, IsTopology
    <3> QED BY <3>1, <3>2 DEF EdgeRow
  <2> HIDE DEF t, relinked
  <2> QED BY <2>1, <2>2, RowsRelabelled DEF Sound, Typed, IsTopology
<1>4. row \in EdgeRow /\ row.start_node = n1 /\ row.end_node = n2
  BY <1>1, NewEdgeRowTyped DEF Sound
<1>5. LinkEdge(s, n1, n2, g, f, a1, a2, e) = v
  BY DEF LinkEdge
<1> HIDE DEF t, row
<1>6. Typed(u)
  BY <1>3, <1>4, WithEdgeTyped
<1>7. Typed(v)
  <2> HIDE DEF u
  <2> QED BY <1>6, WithContainingFaceTyped
<1>8. /\ v.edge = WithRow(t.edge, e, row)
      /\ v.node = [n \in DOMAIN t.node |-> IF n \in alone THEN NotIsolated ELSE t.node[n]]
  BY <1>3 DEF WithContainingFace, WithEdge, Typed, Tables
<1> HIDE DEF u, v
<1>9. \A n \in {n1, n2} : n \notin alone => s.node[n] = NotIsolated
  BY LinkedNodesHaveEdges DEF Sound, IsolationMatchesEdges, Incident
<1>10. IsolationMatchesEdges(v)
  <2> HIDE DEF alone
  <2>1. alone \subseteq {n1, n2}
    BY DEF alone
  <2>2. \A x \in DOMAIN v.edge : {v.edge[x].start_node, v.edge[x].end_node}
           \subseteq {n \in DOMAIN v.node : v.node[n] = NotIsolated}
    BY <1>3, <1>4, <1>8, <1>9, <2>1
       DEF Sound, IsolationMatchesEdges, Relabelled, WithRow
  <2>3. \A n \in DOMAIN v.node : v.node[n] = NotIsolated => Incident(v, n) # {}
    BY <1>3, <1>4, <1>8, <2>1
       DEF Sound, IsolationMatchesEdges, Relabelled, WithRow, Incident
  <2> QED BY <2>2, <2>3 DEF IsolationMatchesEdges
<1> QED BY <1>5, <1>7, <1>10 DEF Sound

LEMMA RelabellingKeepsSound ==
  ASSUME NEW s, Sound(s), NEW t, Typed(t), Relabelled(s, t)
  PROVE  Sound(t)
BY RelabellingKeepsIsolation DEF Sound

LEMMA AddEdgeModFaceSound ==
  ASSUME NEW s, Sound(s), NEW n1 \in DOMAIN s.node, NEW n2 \in DOMAIN s.node,
         NEW g, NEW f \in Faces,
         NEW a1, a1.cw \in DartsAt(s, n1) \cup {0},
         NEW a2, a2.cw \in DartsAt(s, n2) \cup {0},
         NEW e \in EdgeIds \ DOMAIN s.edge, NEW nf \in FaceIds, NEW spare \in FaceIds
  PROVE  Sound(AddEdgeModFace(s, n1, n2, g, f, a1, a2, e, nf, spare))
<1> DEFINE t == LinkEdge(s, n1, n2, g, f, a1, a2, e)
           u == SplitModFace(t, e, f, nf, spare)
<1>1. Sound(t)
  BY LinkEdgeSound
<1>2. AddEdgeModFace(s, n1, n2, g, f, a1, a2, e, nf, spare) \in {t, u}
  BY DEF AddEdgeModFace
<1> HIDE DEF t
<1>3. Typed(u) /\ Relabelled(t, u)
  BY <1>1, SplitModFaceRelabels DEF Sound
<1> HIDE DEF u
<1> QED BY <1>1, <1>2, <1>3, RelabellingKeepsSound

LEMMA AddEdgeNewFacesSound ==
  ASSUME NEW s, Sound(s), NEW n1 \in DOMAIN s.node, NEW n2 \in DOMAIN s.node,
         NEW g, NEW f \in Faces,
         NEW a1, a1.cw \in DartsAt(s, n1) \cup {0},
         NEW a2, a2.cw \in DartsAt(s, n2) \cup {0},
         NEW e \in EdgeIds \ DOMAIN s.edge, NEW nf \in FaceIds, NEW nf1 \in FaceIds
  PROVE  Sound(AddEdgeNewFaces(s, n1, n2, g, f, a1, a2, e, nf, nf1))
<1> DEFINE t == LinkEdge(s, n1, n2, g, f, a1, a2, e)
           u == SplitNewFaces(t, e, f, nf, nf1)
<1>1. Sound(t)
  BY LinkEdgeSound
<1>2. AddEdgeNewFaces(s, n1, n2, g, f, a1, a2, e, nf, nf1) \in {t, u}
  BY DEF AddEdgeNewFaces
<1> HIDE DEF t
<1>3. Typed(u) /\ Relabelled(t, u)
  BY <1>1, SplitNewFacesRelabels DEF Sound
<1> HIDE DEF u
<1> QED BY <1>1, <1>2, <1>3, RelabellingKeepsSound

-----------------------------------------------------------------------------
(* Isolated nodes and edges.                                               *)

LEMMA FaceContainingIsFace ==
  ASSUME NEW s, Typed(s), NEW p
  PROVE  FaceContaining(s, p) \in Faces
<1> DEFINE around    == {r \in Rings(s) : RingSweep(s, r) > 0 /\ Inside(p, RingLines(s, r))}
           innermost == {r \in around : \A y \in around : RingSweep(s, r) <= RingSweep(s, y)}
           faces     == {Left(s, d) : d \in DartsOf(s) \cap UNION innermost}
<1>1. FaceContaining(s, p) = IF faces = {} THEN Universe ELSE CHOOSE f \in faces : TRUE
  BY DEF FaceContaining
<1> HIDE DEF innermost
<1>2. faces \subseteq Faces
  BY DartsAreDarts
<1> HIDE DEF faces
<1> QED BY <1>1, <1>2 DEF Faces

LEMMA AddIsoNodeSound ==
  ASSUME NEW s, Sound(s), NEW face \in Faces \cup {-1}, NEW p,
         NEW n \in NodeIds \ DOMAIN s.node
  PROVE  Sound(AddIsoNode(s, face, p, n))
<1> DEFINE f == IF face = -1 THEN FaceContaining(s, p) ELSE face
           t == WithNode(s, n, f, p)
<1>1. f \in Faces
  BY FaceContainingIsFace DEF Sound
<1>2. AddIsoNode(s, face, p, n) = t
  BY DEF AddIsoNode
<1> HIDE DEF f
<1>3. Typed(t)
  BY <1>1, WithNodeTyped DEF Sound
<1>4. t.node = WithRow(s.node, n, f) /\ t.edge = s.edge
  BY DEF WithNode, Sound, Typed, Tables
<1>5. f # NotIsolated
  BY <1>1, IdentifiersArePositive DEF Faces, Universe, NotIsolated
<1> HIDE DEF t
<1>6. IsolationMatchesEdges(t)
  BY <1>4, <1>5 DEF Sound, IsolationMatchesEdges, Incident, WithRow
<1> QED BY <1>2, <1>3, <1>6 DEF Sound

LEMMA MoveIsoNodeSound ==
  ASSUME NEW s, Sound(s), NEW n \in DOMAIN s.node, NEW p
  PROVE  Sound(MoveIsoNode(s, n, p))
<1> DEFINE t == MoveIsoNode(s, n, p)
<1> SUFFICES Sound(t) OBVIOUS
<1>1. /\ DOMAIN t = Tables
      /\ t.point = [s.point EXCEPT ![n] = p]
      /\ t.node = s.node /\ t.edge = s.edge /\ t.line = s.line /\ t.mbr = s.mbr
      /\ t.areal = s.areal /\ t.lineal = s.lineal
  BY DEF MoveIsoNode, Sound, Typed, Tables
<1> HIDE DEF t
<1>2. Typed(t)
  BY <1>1 DEF Sound, Typed, IsTopology
<1>3. Relabelled(s, t)
  BY <1>1 DEF Relabelled
<1> QED BY <1>2, <1>3, RelabellingKeepsSound

LEMMA RemoveIsoNodeSound ==
  ASSUME NEW s, Sound(s), NEW n, IsIsoNode(s, n)
  PROVE  Sound(WithoutNode(s, n))
<1> DEFINE t == WithoutNode(s, n)
<1> SUFFICES Sound(t) OBVIOUS
<1>1. Typed(t)
  BY WithoutNodeTyped DEF Sound
<1>2. t.node = WithoutRows(s.node, {n}) /\ t.edge = s.edge
  BY DEF WithoutNode, Sound, Typed, Tables
<1> HIDE DEF t
<1>3. IsolationMatchesEdges(t)
  BY <1>2 DEF Sound, IsolationMatchesEdges, Incident, WithoutRows, IsIsoNode
<1> QED BY <1>1, <1>3 DEF Sound

LEMMA AddIsoEdgeSound ==
  ASSUME NEW s, Sound(s), NEW n1, NEW n2, NEW g, CanAddIsoEdge(s, n1, n2, g),
         NEW e \in EdgeIds \ DOMAIN s.edge
  PROVE  Sound(AddIsoEdge(s, n1, n2, g, e))
<1> DEFINE row == [start_node |-> n1, end_node |-> n2,
                   next_left |-> -e, next_right |-> e,
                   face_left |-> s.node[n1], face_right |-> s.node[n1]]
           t == WithEdge(s, e, row, g)
           u == WithContainingFace(t, {n1, n2}, NotIsolated)
<1>1. n1 \in DOMAIN s.node /\ n2 \in DOMAIN s.node /\ s.node[n1] \in Faces
  BY DEF CanAddIsoEdge, IsIsoNode, Sound, Typed, IsTopology
<1>2. row \in EdgeRow
  BY <1>1, IdentifiersArePositive DEF EdgeRow, Darts, Sound, Typed, IsTopology
<1>3. Typed(t)
  <2> HIDE DEF row
  <2> QED BY <1>2, WithEdgeTyped DEF Sound
<1>4. Typed(u)
  <2> HIDE DEF t
  <2> QED BY <1>3, WithContainingFaceTyped
<1>5. AddIsoEdge(s, n1, n2, g, e) = u
  BY DEF AddIsoEdge
<1>6. /\ u.edge = WithRow(s.edge, e, row)
      /\ u.node = [n \in DOMAIN s.node |-> IF n \in {n1, n2} THEN NotIsolated ELSE s.node[n]]
  BY DEF WithContainingFace, WithEdge, Sound, Typed, Tables
<1>7. row.start_node = n1 /\ row.end_node = n2
  OBVIOUS
<1> HIDE DEF u, row
<1>8. IsolationMatchesEdges(u)
  BY <1>1, <1>6, <1>7 DEF Sound, IsolationMatchesEdges, Incident, WithRow
<1> QED BY <1>4, <1>5, <1>8 DEF Sound

LEMMA RemIsoEdgeSound ==
  ASSUME NEW s, Sound(s), NEW e, CanRemIsoEdge(s, e)
  PROVE  Sound(RemIsoEdge(s, e))
<1> DEFINE t == WithoutEdges(s, {e})
           ends == {s.edge[e].start_node, s.edge[e].end_node}
           f == s.edge[e].face_left
           u == WithContainingFace(t, ends, f)
<1>1. e \in DOMAIN s.edge /\ f \in Faces /\ \A n \in ends : Incident(s, n) \subseteq {e}
  BY DEF CanRemIsoEdge, Sound, Typed, IsTopology, EdgeRow
<1>2. Typed(t)
  BY WithoutEdgesTyped DEF Sound
<1>3. Typed(u)
  <2> HIDE DEF t, ends, f
  <2> QED BY <1>1, <1>2, WithContainingFaceTyped
<1>4. RemIsoEdge(s, e) = u
  BY DEF RemIsoEdge
<1>5. /\ u.edge = WithoutRows(s.edge, {e})
      /\ u.node = [n \in DOMAIN s.node |-> IF n \in ends THEN f ELSE s.node[n]]
  BY DEF WithContainingFace, WithoutEdges, Sound, Typed, Tables
<1> HIDE DEF u
<1>6. f # NotIsolated
  BY <1>1, IdentifiersArePositive DEF Faces, Universe, NotIsolated
<1>7. IsolationMatchesEdges(u)
  <2> DEFINE kept == DOMAIN s.edge \ {e}
  <2>1. /\ DOMAIN u.edge = kept /\ \A x \in kept : u.edge[x] = s.edge[x]
        /\ DOMAIN u.node = DOMAIN s.node
    BY <1>5 DEF WithoutRows
  <2> HIDE DEF ends, f
  <2>2. \A x \in kept : s.edge[x].start_node \notin ends /\ s.edge[x].end_node \notin ends
    BY <1>1 DEF Incident
  <2>3. \A n \in DOMAIN u.node : u.node[n] = NotIsolated <=>
                                 s.node[n] = NotIsolated /\ n \notin ends
    BY <1>5, <1>6
  <2>4. \A x \in DOMAIN u.edge : {u.edge[x].start_node, u.edge[x].end_node}
          \subseteq {n \in DOMAIN u.node : u.node[n] = NotIsolated}
    BY <2>1, <2>2, <2>3 DEF Sound, IsolationMatchesEdges
  <2>5. \A n \in DOMAIN s.node : n \notin ends /\ Incident(s, n) # {} => Incident(u, n) # {}
    BY <2>1 DEF Incident, ends
  <2>6. \A n \in DOMAIN u.node : u.node[n] = NotIsolated => Incident(u, n) # {}
    BY <2>1, <2>3, <2>5 DEF Sound, IsolationMatchesEdges
  <2> QED BY <2>4, <2>6 DEF IsolationMatchesEdges
<1> QED BY <1>3, <1>4, <1>7 DEF Sound

-----------------------------------------------------------------------------
(* Removing an edge.                                                       *)

LEMMA UnlinkEdgeRelabels ==
  ASSUME NEW s, Typed(s), NEW e \in DOMAIN s.edge
  PROVE  Typed(UnlinkEdge(s, e)) /\ Relabelled(s, UnlinkEdge(s, e))
<1> DEFINE row == s.edge[e]
           afterBack == IF row.next_left # e THEN row.next_left ELSE row.next_right
           afterFore == IF row.next_right # -e THEN row.next_right ELSE row.next_left
           skip(d) == IF d = -e THEN afterBack ELSE IF d = e THEN afterFore ELSE d
           near == Incident(s, row.start_node) \cup Incident(s, row.end_node)
           unlinked(x) == IF x \in near \ {e}
                          THEN [s.edge[x] EXCEPT !.next_left = skip(@), !.next_right = skip(@)]
                          ELSE s.edge[x]
           t == UnlinkEdge(s, e)
<1>1. /\ DOMAIN t = Tables
      /\ t.edge = [x \in DOMAIN s.edge |-> unlinked(x)]
      /\ t.node = s.node /\ t.point = s.point /\ t.line = s.line /\ t.mbr = s.mbr
      /\ t.areal = s.areal /\ t.lineal = s.lineal
  BY DEF UnlinkEdge, Typed, Tables
<1>2. \A x \in DOMAIN s.edge : s.edge[x] \in EdgeRow
  BY DEF Typed, IsTopology
<1>3. afterBack \in Darts /\ afterFore \in Darts
  BY <1>2 DEF EdgeRow
<1> HIDE DEF t, near, afterBack, afterFore
<1>4. \A x \in DOMAIN s.edge : /\ unlinked(x) \in EdgeRow
                               /\ unlinked(x).start_node = s.edge[x].start_node
                               /\ unlinked(x).end_node = s.edge[x].end_node
  <2> SUFFICES ASSUME NEW x \in DOMAIN s.edge
               PROVE  /\ unlinked(x) \in EdgeRow
                      /\ unlinked(x).start_node = s.edge[x].start_node
                      /\ unlinked(x).end_node = s.edge[x].end_node
    OBVIOUS
  <2>1. s.edge[x] \in EdgeRow
    BY <1>2
  <2>2. \A d \in Darts : skip(d) \in Darts
    BY <1>3
  <2> HIDE DEF skip
  <2> QED BY <2>1, <2>2 DEF EdgeRow
<1> HIDE DEF unlinked
<1>5. Typed(t) /\ Relabelled(s, t)
  BY <1>1, <1>4, RowsRelabelled DEF Typed, IsTopology
<1> QED BY <1>5 DEF t

LEMMA ReplaceFaceRelabels ==
  ASSUME NEW s, Typed(s), NEW old \in SUBSET Faces, NEW new \in Faces
  PROVE  Typed(ReplaceFace(s, old, new)) /\ Relabelled(s, ReplaceFace(s, old, new))
<1> DEFINE sub(f) == IF f \in old THEN new ELSE f
           renamed(x) == [s.edge[x] EXCEPT !.face_left = sub(@), !.face_right = sub(@)]
           t == ReplaceFace(s, old, new)
<1>1. /\ DOMAIN t = Tables
      /\ t.edge = [x \in DOMAIN s.edge |-> renamed(x)]
      /\ t.node = [n \in DOMAIN s.node |-> sub(s.node[n])]
      /\ t.point = s.point /\ t.line = s.line /\ t.mbr = s.mbr
      /\ t.areal = s.areal /\ t.lineal = s.lineal
  BY DEF ReplaceFace, Typed, Tables
<1> HIDE DEF t
<1>2. \A x \in DOMAIN s.edge : /\ renamed(x) \in EdgeRow
                               /\ renamed(x).start_node = s.edge[x].start_node
                               /\ renamed(x).end_node = s.edge[x].end_node
  <2> SUFFICES ASSUME NEW x \in DOMAIN s.edge
               PROVE  /\ renamed(x) \in EdgeRow
                      /\ renamed(x).start_node = s.edge[x].start_node
                      /\ renamed(x).end_node = s.edge[x].end_node
    OBVIOUS
  <2>1. s.edge[x] \in EdgeRow
    BY DEF Typed, IsTopology
  <2>2. \A f \in Faces : sub(f) \in Faces
    OBVIOUS
  <2> HIDE DEF sub
  <2> QED BY <2>1, <2>2 DEF EdgeRow
<1> HIDE DEF renamed
<1>3. Typed(t) /\ Relabelled(s, t)
  BY <1>1, <1>2, RowsRelabelled DEF Typed, IsTopology
<1> QED BY <1>3 DEF t

LEMMA TopoGeomFaceHealRelabels ==
  ASSUME NEW s, Typed(s), NEW f1, NEW f2, NEW new \in Faces
  PROVE  LET t == TopoGeomFaceHeal(s, f1, f2, new)
         IN  Typed(t) /\ Relabelled(s, t)
<1> DEFINE t == TopoGeomFaceHeal(s, f1, f2, new)
<1> SUFFICES Typed(t) /\ Relabelled(s, t) OBVIOUS
<1>1. /\ DOMAIN t = Tables
      /\ t.node = s.node /\ t.point = s.point /\ t.edge = s.edge /\ t.line = s.line
      /\ t.mbr = s.mbr /\ t.lineal = s.lineal
      /\ t.areal \subseteq s.areal \cup {new}
  BY DEF Typed, Tables, TopoGeomFaceHeal
<1> HIDE DEF t
<1> QED BY <1>1 DEF Typed, IsTopology, Relabelled

LEMMA HealFacesRelabels ==
  ASSUME NEW s, Typed(s), NEW fl \in Faces, NEW fr \in Faces, NEW flood \in Faces
  PROVE  Typed(HealFaces(s, fl, fr, flood)) /\ Relabelled(s, HealFaces(s, fl, fr, flood))
<1> DEFINE box   == HealedMbr(s, fl, fr)
           grown == IF flood = Universe THEN s
                    ELSE [s EXCEPT !.mbr = WithRow(@, flood, box)]
           gone  == {fl, fr} \ {flood}
           clean == ReplaceFace(grown, gone, flood)
           moved == TopoGeomFaceHeal(clean, fr, fl, flood)
           final == [moved EXCEPT !.mbr = WithoutRows(@, gone)]
<1>1. HealFaces(s, fl, fr, flood) = IF fl = fr THEN s ELSE final
  BY DEF HealFaces
<1> HIDE DEF box
<1>2. Typed(grown) /\ Relabelled(s, grown)
  <2> DEFINE t == [s EXCEPT !.mbr = WithRow(@, flood, box)]
  <2>1. /\ DOMAIN t = Tables
        /\ t.node = s.node /\ t.point = s.point /\ t.edge = s.edge /\ t.line = s.line
        /\ t.mbr = WithRow(s.mbr, flood, box)
        /\ t.areal = s.areal /\ t.lineal = s.lineal
    BY DEF Typed, Tables
  <2> HIDE DEF t
  <2>2. flood # Universe => Typed(t) /\ Relabelled(s, t)
    BY <2>1 DEF Typed, IsTopology, Relabelled, WithRow, Faces
  <2>3. Relabelled(s, s)
    BY DEF Relabelled
  <2> QED BY <2>2, <2>3 DEF t
<1> HIDE DEF grown
<1>3. Typed(clean) /\ Relabelled(grown, clean)
  BY <1>2, ReplaceFaceRelabels
<1> HIDE DEF clean
<1>4. Typed(moved) /\ Relabelled(clean, moved)
  BY <1>3, TopoGeomFaceHealRelabels
<1> HIDE DEF moved
<1>5. Typed(final) /\ Relabelled(moved, final)
  <2>1. /\ DOMAIN final = Tables
        /\ final.node = moved.node /\ final.point = moved.point
        /\ final.edge = moved.edge /\ final.line = moved.line
        /\ final.mbr = WithoutRows(moved.mbr, gone)
        /\ final.areal = moved.areal /\ final.lineal = moved.lineal
    BY <1>4 DEF Typed, Tables
  <2> HIDE DEF final, gone
  <2> QED BY <1>4, <2>1 DEF Typed, IsTopology, Relabelled, WithoutRows
<1> HIDE DEF final
<1>6. Relabelled(s, final)
  <2>1. Relabelled(s, clean)
    BY <1>2, <1>3, RelabellingIsTransitive
  <2>2. Relabelled(s, moved)
    BY <1>4, <2>1, RelabellingIsTransitive
  <2> QED BY <1>5, <2>2, RelabellingIsTransitive
<1>7. Relabelled(s, s)
  BY DEF Relabelled
<1> QED BY <1>1, <1>5, <1>6, <1>7

LEMMA RemEdgeSound ==
  ASSUME NEW s, Sound(s), NEW e \in DOMAIN s.edge,
         NEW modFace \in BOOLEAN, NEW nf \in Faces
  PROVE  Sound(RemEdge(s, e, modFace, nf))
<1> DEFINE fl == s.edge[e].face_left
           fr == s.edge[e].face_right
           flood == FloodFace(s, e, modFace, nf)
           unlinked == UnlinkEdge(s, e)
           healed == HealFaces(unlinked, fl, fr, flood)
           t == WithoutEdges(healed, {e})
           lonely == LonelyEnds(s, e)
           u == WithContainingFace(t, lonely, flood)
<1>1. fl \in Faces /\ fr \in Faces
  BY DEF Sound, Typed, IsTopology, EdgeRow
<1>2. flood \in Faces
  BY <1>1 DEF FloodFace, Faces
<1>3. RemEdge(s, e, modFace, nf) = u
  BY DEF RemEdge
<1> HIDE DEF flood, fl, fr
<1>4. Typed(unlinked) /\ Relabelled(s, unlinked)
  BY UnlinkEdgeRelabels DEF Sound
<1> HIDE DEF unlinked
<1>5. Typed(healed) /\ Relabelled(unlinked, healed)
  BY <1>1, <1>2, <1>4, HealFacesRelabels
<1> HIDE DEF healed
<1>6. Relabelled(s, healed)
  BY <1>4, <1>5, RelabellingIsTransitive
<1>7. Typed(t)
  BY <1>5, WithoutEdgesTyped
<1>8. Typed(u)
  <2> HIDE DEF t, lonely
  <2> QED BY <1>2, <1>7, WithContainingFaceTyped
<1>9. /\ u.edge = WithoutRows(healed.edge, {e})
      /\ u.node = [n \in DOMAIN healed.node |-> IF n \in lonely THEN flood ELSE healed.node[n]]
  BY <1>5 DEF WithContainingFace, WithoutEdges, Typed, Tables
<1> HIDE DEF u
<1>10. flood # NotIsolated
  BY <1>2, IdentifiersArePositive DEF Faces, Universe, NotIsolated
<1>11. IsolationMatchesEdges(healed)
  BY <1>6, RelabellingKeepsIsolation DEF Sound
<1>12. \A n : n \in lonely <=> Incident(healed, n) = {e}
  BY <1>6 DEF LonelyEnds, Relabelled, Incident
<1>13. IsolationMatchesEdges(u)
  <2> HIDE DEF lonely
  <2>1. \A x \in DOMAIN u.edge : {u.edge[x].start_node, u.edge[x].end_node}
          \subseteq {n \in DOMAIN u.node : u.node[n] = NotIsolated}
    BY <1>9, <1>11, <1>12 DEF IsolationMatchesEdges, Incident, WithoutRows
  <2>2. \A n \in DOMAIN u.node : u.node[n] = NotIsolated => Incident(u, n) # {}
    BY <1>9, <1>10, <1>11, <1>12 DEF IsolationMatchesEdges, Incident, WithoutRows
  <2> QED BY <2>1, <2>2 DEF IsolationMatchesEdges
<1> QED BY <1>3, <1>8, <1>13 DEF Sound

-----------------------------------------------------------------------------
(* Splitting an edge.                                                      *)

LEMMA ModEdgeSplitSound ==
  ASSUME NEW s, Sound(s), NEW e \in DOMAIN s.edge, NEW p,
         NEW n \in NodeIds \ DOMAIN s.node, NEW e2 \in EdgeIds \ DOMAIN s.edge
  PROVE  Sound(ModEdgeSplit(s, e, p, n, e2))
<1> DEFINE old  == s.edge[e]
           tail == [old EXCEPT !.start_node = n,
                               !.next_left  = IF @ = -e THEN -e2 ELSE @,
                               !.next_right = -e]
           head == [old EXCEPT !.next_left = e2, !.end_node = n]
           rows == WithRow([s.edge EXCEPT ![e] = head], e2, tail)
           relinked(x) ==
             [rows[x] EXCEPT
                !.next_right = IF @ = -e /\ rows[x].start_node = old.end_node THEN -e2 ELSE @,
                !.next_left  = IF @ = -e /\ rows[x].end_node = old.end_node THEN -e2 ELSE @]
           t == ModEdgeSplit(s, e, p, n, e2)
<1>1. /\ DOMAIN t = Tables
      /\ t.node = WithRow(s.node, n, NotIsolated) /\ t.point = WithRow(s.point, n, p)
      /\ t.edge = [x \in DOMAIN rows |-> IF x = e2 THEN tail ELSE relinked(x)]
      /\ DOMAIN t.line = DOMAIN s.line \cup {e2}
      /\ t.mbr = s.mbr /\ t.areal = s.areal /\ t.lineal \subseteq s.lineal \cup {e2}
  BY DEF ModEdgeSplit, WithNode, WithRow, Sound, Typed, Tables
<1>2. old \in EdgeRow
  BY DEF Sound, Typed, IsTopology
<1>3. e \in Darts /\ -e \in Darts /\ e2 \in Darts /\ -e2 \in Darts
  BY IdentifiersArePositive DEF Darts, Sound, Typed, IsTopology
<1>4. tail \in EdgeRow /\ tail.start_node = n /\ tail.end_node = old.end_node
  BY <1>2, <1>3 DEF EdgeRow
<1>5. head \in EdgeRow /\ head.start_node = old.start_node /\ head.end_node = n
  BY <1>2, <1>3 DEF EdgeRow
<1> HIDE DEF t, tail, head
<1>6. /\ DOMAIN rows = DOMAIN s.edge \cup {e2}
      /\ rows[e2] = tail /\ rows[e] = head
      /\ \A x \in DOMAIN s.edge \ {e} : rows[x] = s.edge[x]
  BY DEF WithRow
<1> HIDE DEF rows
<1>7. \A x \in DOMAIN rows : rows[x] \in EdgeRow
  BY <1>4, <1>5, <1>6 DEF Sound, Typed, IsTopology
<1>8. \A x \in DOMAIN rows : /\ relinked(x) \in EdgeRow
                             /\ relinked(x).start_node = rows[x].start_node
                             /\ relinked(x).end_node = rows[x].end_node
  BY <1>3, <1>7 DEF EdgeRow
<1> HIDE DEF relinked
<1>9. /\ DOMAIN t.edge = DOMAIN s.edge \cup {e2}
      /\ \A x \in DOMAIN t.edge : /\ t.edge[x] \in EdgeRow
                                  /\ t.edge[x].start_node = rows[x].start_node
                                  /\ t.edge[x].end_node = rows[x].end_node
  BY <1>1, <1>4, <1>6, <1>8
<1>10. Typed(t)
  BY <1>1, <1>9 DEF Sound, Typed, IsTopology, WithRow, Faces
<1>11. IsolationMatchesEdges(t)
  <2> DEFINE marked == {m \in DOMAIN t.node : t.node[m] = NotIsolated}
  <2>a. n \in marked /\ \A m \in DOMAIN s.node : s.node[m] = NotIsolated => m \in marked
    BY <1>1 DEF WithRow
  <2>b. \A x \in DOMAIN s.edge : s.edge[x].start_node \in marked /\ s.edge[x].end_node \in marked
    BY <2>a DEF Sound, IsolationMatchesEdges
  <2> HIDE DEF marked
  <2>c. \A x \in DOMAIN rows : rows[x].start_node \in marked /\ rows[x].end_node \in marked
    BY <1>4, <1>5, <1>6, <2>a, <2>b
  <2>1. \A x \in DOMAIN t.edge : {t.edge[x].start_node, t.edge[x].end_node} \subseteq marked
    BY <1>6, <1>9, <2>c
  <2>2. \A m \in DOMAIN s.node : Incident(s, m) # {} => Incident(t, m) # {}
    BY <1>4, <1>5, <1>6, <1>9 DEF Incident
  <2>3. e2 \in Incident(t, n)
    BY <1>4, <1>6, <1>9 DEF Incident
  <2>4. \A m \in DOMAIN t.node : t.node[m] = NotIsolated => Incident(t, m) # {}
    BY <1>1, <2>2, <2>3 DEF Sound, IsolationMatchesEdges, WithRow
  <2> QED BY <2>1, <2>4 DEF IsolationMatchesEdges, marked
<1> QED BY <1>10, <1>11 DEF Sound, t

LEMMA NewEdgesSplitSound ==
  ASSUME NEW s, Sound(s), NEW e \in DOMAIN s.edge, NEW p,
         NEW n \in NodeIds \ DOMAIN s.node,
         NEW e1 \in EdgeIds \ DOMAIN s.edge, NEW e2 \in EdgeIds \ DOMAIN s.edge, e1 # e2
  PROVE  Sound(NewEdgesSplit(s, e, p, n, e1, e2))
<1> DEFINE old  == s.edge[e]
           head == [old EXCEPT !.end_node = n,
                               !.next_left = e2,
                               !.next_right = IF @ = e THEN e1 ELSE IF @ = -e THEN -e2 ELSE @]
           tail == [old EXCEPT !.start_node = n,
                               !.next_right = -e1,
                               !.next_left = IF @ = -e THEN -e2 ELSE IF @ = e THEN e1 ELSE @]
           rows == WithRow(WithRow(WithoutRows(s.edge, {e}), e1, head), e2, tail)
           relinked(x) ==
             [rows[x] EXCEPT
                !.next_right = IF @ = e /\ rows[x].start_node = old.start_node THEN e2
                               ELSE IF @ = -e /\ rows[x].start_node = old.end_node THEN -e1
                               ELSE @,
                !.next_left  = IF @ = e /\ rows[x].end_node = old.start_node THEN e1
                               ELSE IF @ = -e /\ rows[x].end_node = old.end_node THEN -e2
                               ELSE @]
           t == NewEdgesSplit(s, e, p, n, e1, e2)
<1>1. /\ DOMAIN t = Tables
      /\ t.node = WithRow(s.node, n, NotIsolated) /\ t.point = WithRow(s.point, n, p)
      /\ t.edge = [x \in DOMAIN rows |-> relinked(x)]
      /\ DOMAIN t.line = (DOMAIN s.line \ {e}) \cup {e1, e2}
      /\ t.mbr = s.mbr /\ t.areal = s.areal /\ t.lineal \subseteq s.lineal \cup {e1, e2}
  BY DEF NewEdgesSplit, WithNode, WithRow, WithoutRows, Sound, Typed, Tables
<1>2. old \in EdgeRow
  BY DEF Sound, Typed, IsTopology
<1>3. e1 \in Darts /\ -e1 \in Darts /\ e2 \in Darts /\ -e2 \in Darts
  BY IdentifiersArePositive DEF Darts
<1>4. tail \in EdgeRow /\ tail.start_node = n /\ tail.end_node = old.end_node
  BY <1>2, <1>3 DEF EdgeRow
<1>5. head \in EdgeRow /\ head.start_node = old.start_node /\ head.end_node = n
  BY <1>2, <1>3 DEF EdgeRow
<1> HIDE DEF t, tail, head
<1>6. /\ DOMAIN rows = (DOMAIN s.edge \ {e}) \cup {e1, e2}
      /\ rows[e2] = tail /\ rows[e1] = head
      /\ \A x \in DOMAIN s.edge \ {e} : rows[x] = s.edge[x]
  BY DEF WithRow, WithoutRows
<1> HIDE DEF rows
<1>7. \A x \in DOMAIN rows : rows[x] \in EdgeRow
  BY <1>4, <1>5, <1>6 DEF Sound, Typed, IsTopology
<1>8. \A x \in DOMAIN rows : /\ relinked(x) \in EdgeRow
                             /\ relinked(x).start_node = rows[x].start_node
                             /\ relinked(x).end_node = rows[x].end_node
  BY <1>3, <1>7 DEF EdgeRow
<1> HIDE DEF relinked
<1>9. /\ DOMAIN t.edge = (DOMAIN s.edge \ {e}) \cup {e1, e2}
      /\ \A x \in DOMAIN t.edge : /\ t.edge[x] \in EdgeRow
                                  /\ t.edge[x].start_node = rows[x].start_node
                                  /\ t.edge[x].end_node = rows[x].end_node
  BY <1>1, <1>6, <1>8
<1>10. Typed(t)
  BY <1>1, <1>9 DEF Sound, Typed, IsTopology, WithRow, Faces
<1>11. IsolationMatchesEdges(t)
  <2> DEFINE marked == {m \in DOMAIN t.node : t.node[m] = NotIsolated}
  <2>a. n \in marked /\ \A m \in DOMAIN s.node : s.node[m] = NotIsolated => m \in marked
    BY <1>1 DEF WithRow
  <2>b. \A x \in DOMAIN s.edge : s.edge[x].start_node \in marked /\ s.edge[x].end_node \in marked
    BY <2>a DEF Sound, IsolationMatchesEdges
  <2> HIDE DEF marked
  <2>c. \A x \in DOMAIN rows : rows[x].start_node \in marked /\ rows[x].end_node \in marked
    BY <1>4, <1>5, <1>6, <2>a, <2>b
  <2>1. \A x \in DOMAIN t.edge : {t.edge[x].start_node, t.edge[x].end_node} \subseteq marked
    BY <1>6, <1>9, <2>c
  <2>2. \A m \in DOMAIN s.node : Incident(s, m) # {} => Incident(t, m) # {}
    BY <1>4, <1>5, <1>6, <1>9 DEF Incident
  <2>3. e2 \in Incident(t, n)
    BY <1>4, <1>6, <1>9 DEF Incident
  <2>4. \A m \in DOMAIN t.node : t.node[m] = NotIsolated => Incident(t, m) # {}
    BY <1>1, <2>2, <2>3 DEF Sound, IsolationMatchesEdges, WithRow
  <2> QED BY <2>1, <2>4 DEF IsolationMatchesEdges, marked
<1> QED BY <1>10, <1>11 DEF Sound, t

-----------------------------------------------------------------------------
(* Healing two edges.                                                      *)

\* The two darts meet on a node no other edge uses, and neither is closed.
LEMMA MeetingTyped ==
  ASSUME NEW s, Typed(s), NEW e1, NEW e2, CanHealEdges(s, e1, e2),
         NEW m \in Meeting(s, e1, e2)
  PROVE  /\ m.arrive \in {e1, -e1} /\ m.leave \in {e2, -e2}
         /\ Origin(s, m.leave) = Target(s, m.arrive)
         /\ Incident(s, Target(s, m.arrive)) \subseteq {e1, e2}
<1> DEFINE only(n)  == Incident(s, n) \subseteq {e1, e2}
           meets(a) == {d \in {e2, -e2} : Origin(s, d) = Target(s, a) /\ only(Target(s, a))}
           at(a)    == {[arrive |-> a, leave |-> d] : d \in meets(a)}
<1>1. Meeting(s, e1, e2) \subseteq at(e1) \cup at(-e1)
  BY DEF Meeting
<1> QED BY <1>1

\* The healed edge joins the two free ends.
LEMMA HealedRowTyped ==
  ASSUME NEW s, Typed(s), NEW e1, NEW e2, CanHealEdges(s, e1, e2),
         NEW m \in Meeting(s, e1, e2)
  PROVE  LET row == HealedRow(s, e1, m)
         IN  /\ row \in EdgeRow
             /\ {row.start_node, row.end_node} = {Origin(s, m.arrive), Target(s, m.leave)}
<1> DEFINE first == IF m.arrive > 0 THEN m.arrive ELSE -m.leave
           last  == IF m.arrive > 0 THEN m.leave ELSE -m.arrive
           row   == HealedRow(s, e1, m)
<1>1. e1 \in DOMAIN s.edge /\ e2 \in DOMAIN s.edge /\ s.edge[e1] \in EdgeRow
  BY DEF CanHealEdges, Typed, IsTopology
<1>2. /\ m.arrive \in DartsOf(s) /\ m.leave \in DartsOf(s)
      /\ m.arrive \in Int /\ m.leave \in Int
  <2>1. m.arrive \in {e1, -e1} /\ m.leave \in {e2, -e2}
    BY MeetingTyped
  <2> DOMAIN s.edge \subseteq EdgeIds
    BY DEF Typed, IsTopology
  <2>2. e1 \in Nat \ {0} /\ e2 \in Nat \ {0}
    BY <1>1, IdentifiersArePositive
  <2>3. {e1, -e1, e2, -e2} \subseteq DartsOf(s)
    BY <1>1 DEF DartsOf
  <2> QED BY <2>1, <2>2, <2>3
<1>3. /\ first \in DartsOf(s) /\ -first \in DartsOf(s)
      /\ last \in DartsOf(s) /\ -last \in DartsOf(s)
      /\ first \in Int /\ last \in Int
  BY <1>2, DartsAreDarts
<1>4. row = [s.edge[e1] EXCEPT !.start_node = Origin(s, first), !.end_node = Target(s, last),
                               !.next_left = Next(s, last), !.next_right = Next(s, -first)]
  BY DEF HealedRow
<1>5. /\ Origin(s, first) \in NodeIds /\ Target(s, last) \in NodeIds
      /\ Next(s, last) \in Darts /\ Next(s, -first) \in Darts
  BY <1>3, DartsAreDarts
<1>6. {Origin(s, first), Target(s, last)} = {Origin(s, m.arrive), Target(s, m.leave)}
  <2>1. CASE m.arrive > 0
    BY <2>1
  <2>2. CASE ~ m.arrive > 0
    <3>1. first = -m.leave /\ -last = m.arrive
      BY <1>2, <2>2
    <3> QED BY <3>1 DEF Target
  <2> QED BY <2>1, <2>2
<1> HIDE DEF first, last
<1>7. row \in EdgeRow /\ row.start_node = Origin(s, first) /\ row.end_node = Target(s, last)
  BY <1>1, <1>4, <1>5 DEF EdgeRow
<1> QED BY <1>6, <1>7

LEMMA HealEdgesSound ==
  ASSUME NEW s, Sound(s), NEW e1, NEW e2, CanHealEdges(s, e1, e2),
         NEW m \in Meeting(s, e1, e2),
         NEW into \in EdgeIds, into = e1 \/ into \notin DOMAIN s.edge
  PROVE  Sound(HealEdges(s, e1, e2, m, into))
<1> DEFINE back   == IF m.arrive > 0 THEN -into ELSE into
           rename(d) == IF d = -m.leave THEN back ELSE IF d = m.arrive THEN -back ELSE d
           row    == HealedRow(s, e1, m)
           rows   == WithRow(s.edge, into, row)
           linked == [x \in DOMAIN rows |->
                        [rows[x] EXCEPT !.next_left = rename(@), !.next_right = rename(@)]]
           gone   == {e1, e2} \ {into}
           node0  == Target(s, m.arrive)
           t == [s EXCEPT !.edge = linked, !.line = WithRow(@, into, HealedLine(s, m)),
                          !.lineal = IF e2 \in @ THEN (@ \ gone) \cup {into} ELSE @]
           u == WithoutEdges(t, gone)
           v == WithoutNode(u, node0)
<1>1. /\ e1 \in DOMAIN s.edge /\ e2 \in DOMAIN s.edge /\ e1 # e2
      /\ s.edge[e1].start_node # s.edge[e1].end_node
      /\ s.edge[e2].start_node # s.edge[e2].end_node
  BY DEF CanHealEdges
<1>2. /\ row \in EdgeRow
      /\ {row.start_node, row.end_node} = {Origin(s, m.arrive), Target(s, m.leave)}
  BY HealedRowTyped DEF Sound
<1>3. HealEdges(s, e1, e2, m, into) = v
  BY DEF HealEdges
<1> HIDE DEF row
<1>4. /\ DOMAIN rows = DOMAIN s.edge \cup {into} /\ rows[into] = row
      /\ \A x \in DOMAIN s.edge \ {into} : rows[x] = s.edge[x]
      /\ \A x \in DOMAIN rows : rows[x] \in EdgeRow
  BY <1>2 DEF WithRow, Sound, Typed, IsTopology
<1> HIDE DEF rows
<1>5. /\ DOMAIN linked = DOMAIN s.edge \cup {into}
      /\ \A x \in DOMAIN linked : /\ linked[x] \in EdgeRow
                                  /\ linked[x].start_node = rows[x].start_node
                                  /\ linked[x].end_node = rows[x].end_node
  <2>1. into \in Darts /\ -into \in Darts /\ -(-into) \in Darts
    BY IdentifiersArePositive DEF Darts
  <2>2. back \in Darts /\ -back \in Darts
    BY <2>1
  <2> HIDE DEF back
  <2>3. \A d \in Darts : rename(d) \in Darts
    BY <2>2
  <2> HIDE DEF rename
  <2> QED BY <1>4, <2>3 DEF EdgeRow
<1> HIDE DEF linked
<1>6. /\ DOMAIN t = Tables
      /\ t.edge = linked /\ DOMAIN t.line = DOMAIN s.line \cup {into}
      /\ t.node = s.node /\ t.point = s.point /\ t.mbr = s.mbr /\ t.areal = s.areal
      /\ t.lineal \subseteq s.lineal \cup {into}
  BY DEF WithRow, Sound, Typed, Tables
<1> HIDE DEF t
<1>7. Typed(t)
  BY <1>5, <1>6 DEF Sound, Typed, IsTopology
<1>8. Typed(u)
  BY <1>7, WithoutEdgesTyped
<1>9. v.edge = WithoutRows(linked, gone) /\ v.node = WithoutRows(s.node, {node0})
  BY <1>6 DEF WithoutNode, WithoutEdges, Typed, Tables
<1> HIDE DEF u
<1>10. Typed(v)
  BY <1>8, WithoutNodeTyped
<1> HIDE DEF v
<1>11. /\ DOMAIN v.edge = (DOMAIN s.edge \ {e1, e2}) \cup {into}
       /\ {v.edge[into].start_node, v.edge[into].end_node}
            = {Origin(s, m.arrive), Target(s, m.leave)}
       /\ \A x \in DOMAIN s.edge \ {e1, e2} :
            /\ v.edge[x].start_node = s.edge[x].start_node
            /\ v.edge[x].end_node = s.edge[x].end_node
  <2>1. /\ DOMAIN v.edge = (DOMAIN s.edge \ {e1, e2}) \cup {into}
        /\ \A x \in DOMAIN v.edge : v.edge[x] = linked[x]
    BY <1>1, <1>5, <1>9 DEF WithoutRows
  <2>2. linked[into].start_node = row.start_node /\ linked[into].end_node = row.end_node
    BY <1>4, <1>5
  <2>3. \A x \in DOMAIN s.edge \ {e1, e2} : /\ linked[x].start_node = s.edge[x].start_node
                                            /\ linked[x].end_node = s.edge[x].end_node
    BY <1>4, <1>5
  <2> QED BY <1>2, <2>1, <2>2, <2>3
<1>12. /\ {s.edge[e1].start_node, s.edge[e1].end_node} = {Origin(s, m.arrive), node0}
       /\ {s.edge[e2].start_node, s.edge[e2].end_node} = {node0, Target(s, m.leave)}
       /\ Incident(s, node0) \subseteq {e1, e2}
  <2>1. /\ m.arrive \in {e1, -e1} /\ m.leave \in {e2, -e2}
        /\ Origin(s, m.leave) = node0 /\ Incident(s, node0) \subseteq {e1, e2}
    BY MeetingTyped DEF Sound
  <2>2. e1 \in Nat \ {0} /\ e2 \in Nat \ {0}
    BY <1>1, IdentifiersArePositive DEF Sound, Typed, IsTopology
  <2>3. {Origin(s, m.arrive), Target(s, m.arrive)}
          = {s.edge[e1].start_node, s.edge[e1].end_node}
    BY <2>1, <2>2 DEF Origin, Target
  <2>4. {Origin(s, m.leave), Target(s, m.leave)}
          = {s.edge[e2].start_node, s.edge[e2].end_node}
    BY <2>1, <2>2 DEF Origin, Target
  <2> QED BY <2>1, <2>3, <2>4
<1> HIDE DEF node0
<1>13. IsolationMatchesEdges(v)
  <2> DEFINE marked == {n \in DOMAIN s.node : s.node[n] = NotIsolated}
             kept   == {n \in DOMAIN v.node : v.node[n] = NotIsolated}
  <2>1. kept = marked \ {node0}
    BY <1>9 DEF WithoutRows
  <2>2. \A x \in DOMAIN s.edge : s.edge[x].start_node \in marked /\ s.edge[x].end_node \in marked
    BY DEF Sound, IsolationMatchesEdges
  <2>3. \A n \in marked : \E x \in DOMAIN s.edge : n \in {s.edge[x].start_node, s.edge[x].end_node}
    BY DEF Sound, IsolationMatchesEdges, Incident
  <2>4. \A x \in DOMAIN s.edge \ {e1, e2} :
          s.edge[x].start_node # node0 /\ s.edge[x].end_node # node0
    BY <1>12 DEF Incident
  <2> HIDE DEF marked
  <2>5. {Origin(s, m.arrive), Target(s, m.leave)} \subseteq marked \ {node0}
    BY <1>1, <1>12, <2>2
  <2>6. \A x \in DOMAIN v.edge : {v.edge[x].start_node, v.edge[x].end_node} \subseteq kept
    BY <1>11, <2>1, <2>2, <2>4, <2>5
  <2>7. ASSUME NEW n \in marked \ {node0}
        PROVE  \E x \in DOMAIN v.edge : n \in {v.edge[x].start_node, v.edge[x].end_node}
    <3>1. PICK x \in DOMAIN s.edge : n \in {s.edge[x].start_node, s.edge[x].end_node}
      BY <2>3
    <3>2. CASE x \in {e1, e2}
      <4>1. n \in {Origin(s, m.arrive), Target(s, m.leave)}
        BY <1>12, <3>1, <3>2
      <4> QED BY <1>11, <4>1
    <3>3. CASE x \notin {e1, e2}
      BY <1>11, <3>1, <3>3
    <3> QED BY <3>2, <3>3
  <2> QED BY <2>1, <2>6, <2>7 DEF IsolationMatchesEdges, Incident
<1> QED BY <1>3, <1>10, <1>13 DEF Sound

-----------------------------------------------------------------------------
(* Changing the shape of an edge.                                          *)

LEMMA ChangeEdgeGeomSound ==
  ASSUME NEW s, Sound(s), NEW e, NEW g
  PROVE  Sound(ChangeEdgeGeom(s, e, g))
<1> DEFINE t == ChangeEdgeGeom(s, e, g)
<1> SUFFICES Sound(t) OBVIOUS
<1>1. /\ DOMAIN t = Tables
      /\ t.node = s.node /\ t.point = s.point /\ t.edge = s.edge
      /\ DOMAIN t.line = DOMAIN s.line /\ DOMAIN t.mbr = DOMAIN s.mbr
      /\ t.areal = s.areal /\ t.lineal = s.lineal
  BY DEF ChangeEdgeGeom, Sound, Typed, Tables
<1> HIDE DEF t
<1>2. Typed(t)
  BY <1>1 DEF Sound, Typed, IsTopology
<1>3. Relabelled(s, t)
  BY <1>1 DEF Relabelled
<1> QED BY <1>2, <1>3, RelabellingKeepsSound

-----------------------------------------------------------------------------
(* The specification.                                                      *)

LEMMA TablesOfDb ==
  /\ DOMAIN db = Tables
  /\ db.node = node /\ db.point = point /\ db.edge = edge /\ db.line = line
  /\ db.mbr = mbr /\ db.areal = areal /\ db.lineal = lineal
BY DEF db, Tables

LEMMA CommitSound ==
  ASSUME NEW t, Sound(t), Commit(t)
  PROVE  Sound(db)'
<1>1. /\ DOMAIN db' = Tables
      /\ db'.node = t.node /\ db'.point = t.point /\ db'.edge = t.edge
      /\ db'.line = t.line /\ db'.mbr = t.mbr /\ db'.areal = t.areal
      /\ db'.lineal = t.lineal
  BY DEF Commit, db, Tables
<1> DEFINE u == db'
<1> HIDE DEF u
<1>2. Sound(u)
  BY <1>1 DEF u, Sound, Typed, IsTopology, IsolationMatchesEdges, Incident
<1> QED BY <1>2 DEF u

LEMMA NewIdentifiersAreFree ==
  /\ \A p : NewNodeId(p) \subseteq NodeIds \ DOMAIN db.node
  /\ \A g, taken : NewEdgeId(g, taken) \subseteq EdgeIds \ (DOMAIN db.edge \cup taken)
  /\ \A taken : NewFaceId(taken) \subseteq FaceIds
BY TablesOfDb DEF NewNodeId, NewEdgeId, NewFaceId, Smallest

LEMMA InitSound == Init => Sound(db)
<1> SUFFICES ASSUME Init PROVE Sound(db)
  OBVIOUS
<1>1. /\ DOMAIN db.node = {} /\ DOMAIN db.point = {} /\ DOMAIN db.edge = {}
      /\ DOMAIN db.line = {} /\ DOMAIN db.mbr = {} /\ db.areal = {} /\ db.lineal = {}
  BY TablesOfDb DEF Init, EmptyTable
<1> QED BY <1>1, TablesOfDb DEF Sound, Typed, IsTopology, IsolationMatchesEdges

LEMMA StepSound == Sound(db) /\ [NextCall]_vars => Sound(db)'
<1> SUFFICES ASSUME Sound(db), [NextCall]_vars PROVE Sound(db)'
  OBVIOUS
<1> USE TablesOfDb
<1>1. CASE rtt_AddIsoNode
  <2>1. PICK p \in Sites, face \in Faces \cup {-1} :
          \E n \in NewNodeId(p) : Commit(AddIsoNode(db, face, p, n))
    BY <1>1 DEF rtt_AddIsoNode
  <2>2. PICK n \in NewNodeId(p) : Commit(AddIsoNode(db, face, p, n))
    BY <2>1
  <2>3. Sound(AddIsoNode(db, face, p, n))
    BY NewIdentifiersAreFree, AddIsoNodeSound
  <2> QED BY <2>2, <2>3, CommitSound
<1>2. CASE rtt_MoveIsoNode
  <2>1. PICK n \in DOMAIN node, p \in Sites : Commit(MoveIsoNode(db, n, p))
    BY <1>2 DEF rtt_MoveIsoNode
  <2>2. Sound(MoveIsoNode(db, n, p))
    BY MoveIsoNodeSound
  <2> QED BY <2>1, <2>2, CommitSound
<1>3. CASE rtt_RemoveIsoNode
  <2>1. PICK n \in DOMAIN node : IsIsoNode(db, n) /\ Commit(WithoutNode(db, n))
    BY <1>3 DEF rtt_RemoveIsoNode
  <2>2. Sound(WithoutNode(db, n))
    BY <2>1, RemoveIsoNodeSound
  <2> QED BY <2>1, <2>2, CommitSound
<1>4. CASE rtt_AddIsoEdge
  <2>1. PICK n1 \in DOMAIN node, n2 \in DOMAIN node, g \in Curves :
          /\ CanAddIsoEdge(db, n1, n2, g)
          /\ \E e \in NewEdgeId(g, {}) : Commit(AddIsoEdge(db, n1, n2, g, e))
    BY <1>4 DEF rtt_AddIsoEdge
  <2>2. PICK e \in NewEdgeId(g, {}) : Commit(AddIsoEdge(db, n1, n2, g, e))
    BY <2>1
  <2>3. e \in EdgeIds \ DOMAIN db.edge
    BY NewIdentifiersAreFree
  <2>4. Sound(AddIsoEdge(db, n1, n2, g, e))
    BY <2>1, <2>3, AddIsoEdgeSound
  <2> QED BY <2>2, <2>4, CommitSound
<1>5. CASE rtt_RemIsoEdge
  <2>1. PICK e \in DOMAIN edge : CanRemIsoEdge(db, e) /\ Commit(RemIsoEdge(db, e))
    BY <1>5 DEF rtt_RemIsoEdge
  <2>2. Sound(RemIsoEdge(db, e))
    BY <2>1, RemIsoEdgeSound
  <2> QED BY <2>1, <2>2, CommitSound
<1>6. CASE rtt_ModEdgeSplit
  <2>1. PICK e \in DOMAIN edge, p \in Sites :
          \E n \in NewNodeId(p), e2 \in NewEdgeId(TailFrom(line[e], p), {}) :
            Commit(ModEdgeSplit(db, e, p, n, e2))
    BY <1>6 DEF rtt_ModEdgeSplit
  <2>2. PICK n \in NewNodeId(p), e2 \in NewEdgeId(TailFrom(line[e], p), {}) :
          Commit(ModEdgeSplit(db, e, p, n, e2))
    BY <2>1
  <2>3. n \in NodeIds \ DOMAIN db.node /\ e2 \in EdgeIds \ DOMAIN db.edge
    BY NewIdentifiersAreFree
  <2>4. Sound(ModEdgeSplit(db, e, p, n, e2))
    BY <2>3, ModEdgeSplitSound
  <2> QED BY <2>2, <2>4, CommitSound
<1>7. CASE rtt_NewEdgesSplit
  <2>1. PICK e \in DOMAIN edge, p \in Sites :
          \E n \in NewNodeId(p), e1 \in NewEdgeId(HeadUpTo(line[e], p), {}) :
            \E e2 \in NewEdgeId(TailFrom(line[e], p), {e1}) :
              Commit(NewEdgesSplit(db, e, p, n, e1, e2))
    BY <1>7 DEF rtt_NewEdgesSplit
  <2>2. PICK n \in NewNodeId(p), e1 \in NewEdgeId(HeadUpTo(line[e], p), {}) :
          \E e2 \in NewEdgeId(TailFrom(line[e], p), {e1}) :
            Commit(NewEdgesSplit(db, e, p, n, e1, e2))
    BY <2>1
  <2>3. PICK e2 \in NewEdgeId(TailFrom(line[e], p), {e1}) :
          Commit(NewEdgesSplit(db, e, p, n, e1, e2))
    BY <2>2
  <2>4. /\ n \in NodeIds \ DOMAIN db.node
        /\ e1 \in EdgeIds \ DOMAIN db.edge /\ e2 \in EdgeIds \ DOMAIN db.edge /\ e1 # e2
    BY NewIdentifiersAreFree
  <2>5. Sound(NewEdgesSplit(db, e, p, n, e1, e2))
    BY <2>4, NewEdgesSplitSound
  <2> QED BY <2>3, <2>5, CommitSound
<1>8. CASE rtt_AddEdgeModFace
  <2>1. PICK n1 \in DOMAIN node, n2 \in DOMAIN node, g \in Curves :
          \E a1 \in StartEnds(db, n1, n2, g), a2 \in EndEnds(db, n1, n2, g),
             e \in NewEdgeId(g, {}), nf \in NewFaceId({}) :
          \E spare \in NewFaceId({nf}) :
            LET f == NewEdgeFace(db, n1, n2, a1, a2)
            IN  f # -1 /\ Commit(AddEdgeModFace(db, n1, n2, g, f, a1, a2, e, nf, spare))
    BY <1>8 DEF rtt_AddEdgeModFace
  <2>2. PICK a1 \in StartEnds(db, n1, n2, g), a2 \in EndEnds(db, n1, n2, g),
             e \in NewEdgeId(g, {}), nf \in NewFaceId({}) :
          \E spare \in NewFaceId({nf}) :
            LET f == NewEdgeFace(db, n1, n2, a1, a2)
            IN  f # -1 /\ Commit(AddEdgeModFace(db, n1, n2, g, f, a1, a2, e, nf, spare))
    BY <2>1
  <2> DEFINE f == NewEdgeFace(db, n1, n2, a1, a2)
  <2>3. PICK spare \in NewFaceId({nf}) :
          f # -1 /\ Commit(AddEdgeModFace(db, n1, n2, g, f, a1, a2, e, nf, spare))
    BY <2>2
  <2>4. /\ e \in EdgeIds \ DOMAIN db.edge /\ nf \in FaceIds /\ spare \in FaceIds
    BY NewIdentifiersAreFree
  <2>5. /\ a1.cw \in DartsAt(db, n1) \cup {0} /\ a1.ccw \in DartsAt(db, n1) \cup {0}
        /\ a2.cw \in DartsAt(db, n2) \cup {0}
    BY AdjacentEndsAreEnds DEF StartEnds, EndEnds
  <2>6. f \in Faces
    BY <2>3, <2>5, NewEdgeFaceTyped DEF Sound
  <2> HIDE DEF f
  <2>7. Sound(AddEdgeModFace(db, n1, n2, g, f, a1, a2, e, nf, spare))
    BY <2>4, <2>5, <2>6, AddEdgeModFaceSound
  <2> QED BY <2>3, <2>7, CommitSound
<1>9. CASE rtt_AddEdgeNewFaces
  <2>1. PICK n1 \in DOMAIN node, n2 \in DOMAIN node, g \in Curves :
          \E a1 \in StartEnds(db, n1, n2, g), a2 \in EndEnds(db, n1, n2, g),
             e \in NewEdgeId(g, {}), nf1 \in NewFaceId({}) :
          \E nf \in NewFaceId({nf1}) :
            LET f == NewEdgeFace(db, n1, n2, a1, a2)
            IN  f # -1 /\ Commit(AddEdgeNewFaces(db, n1, n2, g, f, a1, a2, e, nf, nf1))
    BY <1>9 DEF rtt_AddEdgeNewFaces
  <2>2. PICK a1 \in StartEnds(db, n1, n2, g), a2 \in EndEnds(db, n1, n2, g),
             e \in NewEdgeId(g, {}), nf1 \in NewFaceId({}) :
          \E nf \in NewFaceId({nf1}) :
            LET f == NewEdgeFace(db, n1, n2, a1, a2)
            IN  f # -1 /\ Commit(AddEdgeNewFaces(db, n1, n2, g, f, a1, a2, e, nf, nf1))
    BY <2>1
  <2> DEFINE f == NewEdgeFace(db, n1, n2, a1, a2)
  <2>3. PICK nf \in NewFaceId({nf1}) :
          f # -1 /\ Commit(AddEdgeNewFaces(db, n1, n2, g, f, a1, a2, e, nf, nf1))
    BY <2>2
  <2>4. /\ e \in EdgeIds \ DOMAIN db.edge /\ nf \in FaceIds /\ nf1 \in FaceIds
    BY NewIdentifiersAreFree
  <2>5. /\ a1.cw \in DartsAt(db, n1) \cup {0} /\ a1.ccw \in DartsAt(db, n1) \cup {0}
        /\ a2.cw \in DartsAt(db, n2) \cup {0}
    BY AdjacentEndsAreEnds DEF StartEnds, EndEnds
  <2>6. f \in Faces
    BY <2>3, <2>5, NewEdgeFaceTyped DEF Sound
  <2> HIDE DEF f
  <2>7. Sound(AddEdgeNewFaces(db, n1, n2, g, f, a1, a2, e, nf, nf1))
    BY <2>4, <2>5, <2>6, AddEdgeNewFacesSound
  <2> QED BY <2>3, <2>7, CommitSound
<1>10. CASE rtt_RemEdgeModFace
  <2>1. PICK e \in DOMAIN edge : Commit(RemEdge(db, e, TRUE, Universe))
    BY <1>10 DEF rtt_RemEdgeModFace
  <2>2. Sound(RemEdge(db, e, TRUE, Universe))
    BY RemEdgeSound DEF Faces
  <2> QED BY <2>1, <2>2, CommitSound
<1>11. CASE rtt_RemEdgeNewFace
  <2>1. PICK e \in DOMAIN edge, nf \in NewFaceId({}) : Commit(RemEdge(db, e, FALSE, nf))
    BY <1>11 DEF rtt_RemEdgeNewFace
  <2>2. nf \in Faces
    BY NewIdentifiersAreFree DEF Faces
  <2>3. Sound(RemEdge(db, e, FALSE, nf))
    BY <2>2, RemEdgeSound
  <2> QED BY <2>1, <2>3, CommitSound
<1>12. CASE rtt_ModEdgeHeal
  <2>1. PICK e1 \in DOMAIN edge, e2 \in DOMAIN edge :
          /\ CanHealEdges(db, e1, e2)
          /\ \E m \in Meeting(db, e1, e2) : Commit(HealEdges(db, e1, e2, m, e1))
    BY <1>12 DEF rtt_ModEdgeHeal
  <2>2. PICK m \in Meeting(db, e1, e2) : Commit(HealEdges(db, e1, e2, m, e1))
    BY <2>1
  <2>3. e1 \in EdgeIds
    BY DEF Sound, Typed, IsTopology
  <2>4. Sound(HealEdges(db, e1, e2, m, e1))
    BY <2>1, <2>3, HealEdgesSound
  <2> QED BY <2>2, <2>4, CommitSound
<1>13. CASE rtt_NewEdgeHeal
  <2>1. PICK e1 \in DOMAIN edge, e2 \in DOMAIN edge :
          /\ CanHealEdges(db, e1, e2)
          /\ \E m \in Meeting(db, e1, e2) : \E e \in NewEdgeId(HealedLine(db, m), {}) :
               Commit(HealEdges(db, e1, e2, m, e))
    BY <1>13 DEF rtt_NewEdgeHeal
  <2>2. PICK m \in Meeting(db, e1, e2) : \E e \in NewEdgeId(HealedLine(db, m), {}) :
          Commit(HealEdges(db, e1, e2, m, e))
    BY <2>1
  <2>3. PICK e \in NewEdgeId(HealedLine(db, m), {}) : Commit(HealEdges(db, e1, e2, m, e))
    BY <2>2
  <2>4. e \in EdgeIds \ DOMAIN db.edge
    BY NewIdentifiersAreFree
  <2>5. Sound(HealEdges(db, e1, e2, m, e))
    BY <2>1, <2>4, HealEdgesSound
  <2> QED BY <2>3, <2>5, CommitSound
<1>14. CASE rtt_ChangeEdgeGeom
  <2>1. PICK e \in DOMAIN edge, g \in Curves : Commit(ChangeEdgeGeom(db, e, g))
    BY <1>14 DEF rtt_ChangeEdgeGeom
  <2>2. Sound(ChangeEdgeGeom(db, e, g))
    BY ChangeEdgeGeomSound
  <2> QED BY <2>1, <2>2, CommitSound
<1>15. CASE CreateArealTopoGeom
  <2> DEFINE t == [db EXCEPT !.areal = areal']
  <2>1. areal' \subseteq DOMAIN db.mbr
    BY <1>15 DEF CreateArealTopoGeom
  <2>2. /\ DOMAIN t = Tables /\ t.areal = areal'
        /\ t.node = node /\ t.point = point /\ t.edge = edge /\ t.line = line
        /\ t.mbr = mbr /\ t.lineal = lineal
    OBVIOUS
  <2>3. Commit(t)
    BY <1>15, <2>2 DEF CreateArealTopoGeom, Commit
  <2> HIDE DEF t
  <2>4. Sound(t)
    BY <2>1, <2>2 DEF Sound, Typed, IsTopology, IsolationMatchesEdges, Incident, Faces
  <2> QED BY <2>3, <2>4, CommitSound
<1>16. CASE CreateLinealTopoGeom
  <2> DEFINE t == [db EXCEPT !.lineal = lineal']
  <2>1. lineal' \subseteq DOMAIN db.edge
    BY <1>16 DEF CreateLinealTopoGeom
  <2>2. /\ DOMAIN t = Tables /\ t.lineal = lineal'
        /\ t.node = node /\ t.point = point /\ t.edge = edge /\ t.line = line
        /\ t.mbr = mbr /\ t.areal = areal
    OBVIOUS
  <2>3. Commit(t)
    BY <1>16, <2>2 DEF CreateLinealTopoGeom, Commit
  <2> HIDE DEF t
  <2>4. Sound(t)
    BY <2>1, <2>2 DEF Sound, Typed, IsTopology, IsolationMatchesEdges, Incident
  <2> QED BY <2>3, <2>4, CommitSound
<1>17. CASE UNCHANGED vars
  <2>1. db' = db
    BY <1>17 DEF vars, db
  <2> QED BY <2>1
<1> QED BY <1>1, <1>2, <1>3, <1>4, <1>5, <1>6, <1>7, <1>8, <1>9, <1>10, <1>11, <1>12,
           <1>13, <1>14, <1>15, <1>16, <1>17 DEF NextCall

LEMMA AlwaysSound == Spec => []Sound(db)
BY InitSound, StepSound, PTL DEF Spec

\* No placeholder for "no edge" or "no face" ever reaches a table, for every
\* set of points, lines and identifiers.
THEOREM TablesAreAlwaysTyped == Spec => []TypeOK
<1>1. Sound(db) => TypeOK
  BY DEF Sound, Typed, TypeOK
<1> QED BY <1>1, AlwaysSound, PTL

\* A node is marked as not isolated exactly while edges end on it, whatever is
\* added, split, healed, moved and removed, and for every geometry.
THEOREM IsolationAlwaysTracksEdges == Spec => []IsolationTracksEdges
<1>1. Sound(db) => IsolationTracksEdges
  BY DEF Sound, IsolationTracksEdges
<1> QED BY <1>1, AlwaysSound, PTL
=============================================================================
