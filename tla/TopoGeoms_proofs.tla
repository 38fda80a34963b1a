-------------------------- MODULE TopoGeoms_proofs --------------------------
(***************************************************************************)
(* TopoGeometry objects, whatever faces and edges are split, healed and    *)
(* removed beneath them, for clients that refrain from RemIsoEdge of an    *)
(* edge in use (its check is a TODO of the code): they refer to rows that  *)
(* are there, and a lineal one goes where it went.  Healing undoes         *)
(* splitting, objects included, and removing an edge undoes adding it, but *)
(* for what the faces are.                                                 *)
(*                                                                         *)
(* Refers(db) is not inductive alone: that healing with the universe does  *)
(* not put it into an areal object needs the typing of the face table, and *)
(* that AddEdgeNewFaces finds a face on both sides of the edge or on none  *)
(* needs Turning(db).  Most parts of an operation only add rows            *)
(* (KeepsRows), which is closed under composition; those that remove a row *)
(* or change an object are looked at one by one.  The shape is kept in the *)
(* same way, by KeepsShape.                                                *)
(***************************************************************************)
EXTENDS TopoLinks_proofs

Refers(s) == s.areal \subseteq DOMAIN s.mbr /\ s.lineal \subseteq DOMAIN s.edge

\* Every face and edge of s is there in t, and the objects are as they were.
KeepsRows(s, t) ==
  /\ DOMAIN s.mbr \subseteq DOMAIN t.mbr /\ DOMAIN s.edge \subseteq DOMAIN t.edge
  /\ t.areal = s.areal /\ t.lineal = s.lineal

LEMMA KeptRowsAreReferred ==
  ASSUME NEW s, NEW t, Refers(s), KeepsRows(s, t)
  PROVE  Refers(t)
BY DEF Refers, KeepsRows

LEMMA KeepingRowsIsTransitive ==
  ASSUME NEW s, NEW t, NEW u, KeepsRows(s, t), KeepsRows(t, u)
  PROVE  KeepsRows(s, u)
BY DEF KeepsRows

-----------------------------------------------------------------------------
(* Parts of operations that keep rows.                                     *)

LEMMA NodesKeepRows ==
  ASSUME NEW s, Typed(s)
  PROVE  /\ \A n, f, p : KeepsRows(s, WithNode(s, n, f, p))
         /\ \A n : KeepsRows(s, WithoutNode(s, n))
         /\ \A n, p : KeepsRows(s, MoveIsoNode(s, n, p))
         /\ \A ns, f : KeepsRows(s, WithContainingFace(s, ns, f))
<1>1. \A n, f, p : KeepsRows(s, WithNode(s, n, f, p))
  BY DEF KeepsRows, WithNode, Typed, Tables
<1>2. \A n : KeepsRows(s, WithoutNode(s, n))
  BY DEF KeepsRows, WithoutNode, Typed, Tables
<1>3. \A n, p : KeepsRows(s, MoveIsoNode(s, n, p))
  BY DEF KeepsRows, MoveIsoNode, Typed, Tables
<1>4. \A ns, f : KeepsRows(s, WithContainingFace(s, ns, f))
  BY DEF KeepsRows, WithContainingFace, Typed, Tables
<1> QED BY <1>1, <1>2, <1>3, <1>4

LEMMA EdgesKeepRows ==
  ASSUME NEW s, Typed(s)
  PROVE  /\ \A e, row, g : KeepsRows(s, WithEdge(s, e, row, g))
         /\ \A e, g : KeepsRows(s, ChangeEdgeGeom(s, e, g))
         /\ \A e : KeepsRows(s, UnlinkEdge(s, e))
         /\ \A old, new : KeepsRows(s, ReplaceFace(s, old, new))
<1>1. \A e, row, g : KeepsRows(s, WithEdge(s, e, row, g))
  BY DEF KeepsRows, WithEdge, WithRow, Typed, Tables
<1>2. \A e, g : KeepsRows(s, ChangeEdgeGeom(s, e, g))
  BY DEF KeepsRows, ChangeEdgeGeom, Typed, Tables
<1>3. \A e : KeepsRows(s, UnlinkEdge(s, e))
  BY DEF KeepsRows, UnlinkEdge, Typed, Tables
<1>4. \A old, new : KeepsRows(s, ReplaceFace(s, old, new))
  BY DEF KeepsRows, ReplaceFace, Typed, Tables
<1> QED BY <1>1, <1>2, <1>3, <1>4

LEMMA LinkEdgeKeepsRows ==
  ASSUME NEW s, Typed(s), NEW n1, NEW n2, NEW g, NEW f, NEW a1, NEW a2, NEW e
  PROVE  KeepsRows(s, LinkEdge(s, n1, n2, g, f, a1, a2, e))
BY DEF KeepsRows, LinkEdge, WithContainingFace, WithEdge, WithRow, Typed, Tables

\* A face that AddFaceSplit returns is a row.
LEMMA AddFaceSplitKeepsRows ==
  ASSUME NEW s, Typed(s), NEW d, NEW face, NEW mbrOnly, NEW nf \in FaceIds
  PROVE  LET split == AddFaceSplit(s, d, face, mbrOnly, nf)
         IN  /\ KeepsRows(s, split.topo)
             /\ split.face > 0 => split.face \in DOMAIN split.topo.mbr
<1> DEFINE ring    == Ring(s, d)
           isccw   == RingSweep(s, ring) >= 0
           outside == face # Universe /\ ~ isccw
           box     == SplitBox(s, ring, outside, face)
           narrowed == [s EXCEPT !.mbr[face] = box]
           divided  == [s EXCEPT
              !.mbr  = WithRow(@, nf, box),
              !.edge = [e \in DOMAIN @ |-> SplitEdgeRow(s, e, ring, outside, face, nf)],
              !.node = [n \in DOMAIN @ |-> SplitNodeFace(s, n, ring, outside, face, nf)]]
<1>1. AddFaceSplit(s, d, face, mbrOnly, nf) \in
        {[face |-> 0, topo |-> s], [face |-> -1, topo |-> s],
         [face |-> -1, topo |-> narrowed], [face |-> nf, topo |-> divided]}
  BY DEF AddFaceSplit
<1> HIDE DEF box, outside, ring
<1>2. KeepsRows(s, s) /\ KeepsRows(s, narrowed)
  BY DEF KeepsRows, Typed, Tables
<1>3. KeepsRows(s, divided) /\ nf \in DOMAIN divided.mbr
  BY DEF KeepsRows, WithRow, Typed, Tables
<1> HIDE DEF narrowed, divided
<1> QED BY <1>1, <1>2, <1>3

-----------------------------------------------------------------------------
(* Operations that change faces or objects.                                *)

LEMMA SplitModFaceRefers ==
  ASSUME NEW s, Typed(s), Refers(s), NEW e, NEW f \in Faces,
         NEW nf \in FaceIds, NEW spare \in FaceIds
  PROVE  Refers(SplitModFace(s, e, f, nf, spare))
<1> DEFINE onLeft  == AddFaceSplit(s, e, f, FALSE, nf)
           onRight == AddFaceSplit(s, -e, f, FALSE, nf)
           again   == AddFaceSplit(onLeft.topo, -e, f, TRUE, spare)
           split   == RightSide(s, onLeft, e, f, nf, spare)
<1>1. /\ Typed(onLeft.topo) /\ KeepsRows(s, onLeft.topo)
      /\ onLeft.face > 0 => onLeft.face \in DOMAIN onLeft.topo.mbr
      /\ Typed(onRight.topo) /\ KeepsRows(s, onRight.topo)
      /\ onRight.face > 0 => onRight.face \in DOMAIN onRight.topo.mbr
  BY AddFaceSplitRelabels, AddFaceSplitKeepsRows
<1>2. Typed(again.topo) /\ KeepsRows(onLeft.topo, again.topo)
  <2> HIDE DEF onLeft
  <2> QED BY <1>1, AddFaceSplitRelabels, AddFaceSplitKeepsRows
<1>3. SplitModFace(s, e, f, nf, spare) = KeepSplit(s, split, f)
  BY DEF SplitModFace
<1>4. /\ onLeft = [face |-> onLeft.face, topo |-> onLeft.topo]
      /\ split = IF onLeft.face = 0 THEN onLeft
                 ELSE IF onLeft.face > 0 THEN [onLeft EXCEPT !.topo = again.topo]
                 ELSE onRight
  BY DEF AddFaceSplit, RightSide
<1> HIDE DEF onLeft, onRight, again, split
<1>5. \/ split = onLeft \/ split = onRight
      \/ split.face = onLeft.face /\ split.topo = again.topo
  BY <1>4
<1>6. KeepsRows(s, again.topo) /\ DOMAIN onLeft.topo.mbr \subseteq DOMAIN again.topo.mbr
  BY <1>1, <1>2, KeepingRowsIsTransitive DEF KeepsRows
<1>7. /\ Typed(split.topo) /\ KeepsRows(s, split.topo)
      /\ split.face > 0 => split.face \in DOMAIN split.topo.mbr
  BY <1>1, <1>2, <1>5, <1>6
<1>8. Refers(split.topo)
  BY <1>7, KeptRowsAreReferred
<1> DEFINE parts == TopoGeomFaceSplit(split.topo, f, split.face, -1)
<1>9. split.face \in DOMAIN split.topo.mbr => Refers(parts)
  <2>1. /\ parts.mbr = split.topo.mbr /\ parts.edge = split.topo.edge
        /\ parts.lineal = split.topo.lineal
        /\ parts.areal \subseteq split.topo.areal \cup {split.face}
    BY <1>7 DEF TopoGeomFaceSplit, Typed, Tables
  <2> HIDE DEF parts
  <2> QED BY <1>8, <2>1 DEF Refers
<1>10. KeepSplit(s, split, f) \in {s, split.topo, parts}
  BY DEF KeepSplit
<1>11. split.face <= 0 => KeepSplit(s, split, f) = s
  BY DEF KeepSplit
<1>12. onLeft.face \in {-1, 0, nf} /\ onRight.face \in {-1, 0, nf}
  BY AddFaceSplitRelabels DEF onLeft, onRight
<1>13. split.face \in Int
  BY <1>5, <1>12, IdentifiersArePositive
<1> HIDE DEF parts
<1> QED BY <1>3, <1>7, <1>8, <1>9, <1>10, <1>11, <1>13

LEMMA AddEdgeModFaceRefers ==
  ASSUME NEW s, Sound(s), Refers(s), NEW n1 \in DOMAIN s.node, NEW n2 \in DOMAIN s.node,
         NEW g, NEW f \in Faces,
         NEW a1, a1.cw \in DartsAt(s, n1) \cup {0},
         NEW a2, a2.cw \in DartsAt(s, n2) \cup {0},
         NEW e \in EdgeIds \ DOMAIN s.edge, NEW nf \in FaceIds, NEW spare \in FaceIds
  PROVE  Refers(AddEdgeModFace(s, n1, n2, g, f, a1, a2, e, nf, spare))
<1> DEFINE t == LinkEdge(s, n1, n2, g, f, a1, a2, e)
<1>1. Typed(t)
  BY LinkEdgeSound DEF Sound
<1>2. Refers(t)
  BY LinkEdgeKeepsRows, KeptRowsAreReferred DEF Sound
<1> HIDE DEF t
<1>3. Refers(SplitModFace(t, e, f, nf, spare))
  BY <1>1, <1>2, SplitModFaceRefers
<1> QED BY <1>2, <1>3 DEF AddEdgeModFace, t

\* Objects follow two healed faces into the one that takes their place.  The
\* universe takes it only when no object has either.
LEMMA HealFacesRefers ==
  ASSUME NEW s, Typed(s), Refers(s), NEW fl \in Faces, NEW fr \in Faces, NEW flood \in Faces,
         flood = Universe => Universe \in {fl, fr},
         (fl \in s.areal) = (fr \in s.areal)
  PROVE  LET t == HealFaces(s, fl, fr, flood)
         IN  Refers(t) /\ t.lineal = s.lineal /\ DOMAIN t.edge = DOMAIN s.edge /\ Typed(t)
<1> DEFINE box   == HealedMbr(s, fl, fr)
           grown == IF flood = Universe THEN s
                    ELSE [s EXCEPT !.mbr = WithRow(@, flood, box)]
           gone  == {fl, fr} \ {flood}
           clean == ReplaceFace(grown, gone, flood)
           moved == TopoGeomFaceHeal(clean, fr, fl, flood)
           final == [moved EXCEPT !.mbr = WithoutRows(@, gone)]
<1>1. HealFaces(s, fl, fr, flood) = IF fl = fr THEN s ELSE final
  BY DEF HealFaces
<1>2. Universe \notin s.areal
  BY IdentifiersArePositive DEF Refers, Typed, IsTopology, Universe
<1> HIDE DEF box
<1>3. /\ DOMAIN grown = Tables
      /\ DOMAIN grown.mbr = DOMAIN s.mbr \cup ({flood} \ {Universe})
      /\ grown.edge = s.edge /\ grown.areal = s.areal /\ grown.lineal = s.lineal
  BY DEF WithRow, Typed, Tables
<1> HIDE DEF grown
<1>4. /\ DOMAIN clean = Tables
      /\ clean.mbr = grown.mbr /\ DOMAIN clean.edge = DOMAIN s.edge
      /\ clean.areal = s.areal /\ clean.lineal = s.lineal
  BY <1>3 DEF ReplaceFace, Tables
<1> HIDE DEF clean
<1>5. /\ DOMAIN moved = Tables
      /\ moved.mbr = clean.mbr /\ moved.edge = clean.edge /\ moved.lineal = s.lineal
      /\ moved.areal = IF {fr, fl} \cap s.areal = {} THEN s.areal
                       ELSE (s.areal \ {fr, fl}) \cup {flood}
  BY <1>4 DEF TopoGeomFaceHeal, Tables
<1> HIDE DEF moved
<1>6. /\ DOMAIN final.mbr = DOMAIN moved.mbr \ gone
      /\ final.edge = moved.edge /\ final.lineal = moved.lineal /\ final.areal = moved.areal
  BY <1>5 DEF WithoutRows, Tables
<1> HIDE DEF final
<1>7. flood = Universe => {fr, fl} \cap s.areal = {}
  BY <1>2
<1>8. final.areal \subseteq DOMAIN final.mbr
  <2>1. CASE {fr, fl} \cap s.areal = {}
    BY <2>1, <1>3, <1>4, <1>5, <1>6 DEF Refers
  <2>2. CASE {fr, fl} \cap s.areal # {}
    BY <2>2, <1>3, <1>4, <1>5, <1>6, <1>7 DEF Refers
  <2> QED BY <2>1, <2>2
<1>9. Refers(final) /\ final.lineal = s.lineal /\ DOMAIN final.edge = DOMAIN s.edge
  BY <1>3, <1>4, <1>5, <1>6, <1>8 DEF Refers
<1> QED BY <1>1, <1>9, HealFacesRelabels

LEMMA RemEdgeRefers ==
  ASSUME NEW s, Sound(s), Refers(s), NEW e, CanRemEdge(s, e),
         NEW modFace \in BOOLEAN, NEW nf \in Faces, modFace \/ nf # Universe
  PROVE  Refers(RemEdge(s, e, modFace, nf))
<1> DEFINE fl == s.edge[e].face_left
           fr == s.edge[e].face_right
           flood == FloodFace(s, e, modFace, nf)
           unlinked == UnlinkEdge(s, e)
           healed == HealFaces(unlinked, fl, fr, flood)
           t == WithoutEdges(healed, {e})
           u == WithContainingFace(t, LonelyEnds(s, e), flood)
<1>1. /\ e \in DOMAIN s.edge /\ e \notin s.lineal
      /\ (fl \in s.areal) = (fr \in s.areal)
  BY DEF CanRemEdge, TopoGeomAllowsRemEdge
<1>2. fl \in Faces /\ fr \in Faces
  BY <1>1 DEF Sound, Typed, IsTopology, EdgeRow
<1>3. /\ flood \in Faces
      /\ flood = Universe => Universe \in {fl, fr}
  BY <1>2 DEF FloodFace, Faces
<1>4. RemEdge(s, e, modFace, nf) = u
  BY DEF RemEdge
<1> HIDE DEF flood, fl, fr
<1>5. /\ Typed(unlinked) /\ Refers(unlinked)
      /\ unlinked.areal = s.areal /\ unlinked.lineal = s.lineal
  BY <1>1, UnlinkEdgeRelabels, EdgesKeepRows, KeptRowsAreReferred DEF Sound, KeepsRows
<1> HIDE DEF unlinked
<1>6. Refers(healed) /\ healed.lineal = s.lineal /\ Typed(healed)
  BY <1>1, <1>2, <1>3, <1>5, HealFacesRefers
<1> HIDE DEF healed
<1>7. Refers(t)
  BY <1>1, <1>6 DEF Refers, WithoutEdges, WithoutRows, Typed, Tables
<1>8. Typed(t)
  BY <1>6, WithoutEdgesTyped
<1> HIDE DEF t
<1>9. Refers(u)
  BY <1>7, <1>8, NodesKeepRows, KeptRowsAreReferred
<1> QED BY <1>4, <1>9

LEMMA RemIsoEdgeRefers ==
  ASSUME NEW s, Typed(s), Refers(s), NEW e, e \notin s.lineal
  PROVE  Refers(RemIsoEdge(s, e))
<1> DEFINE t == WithoutEdges(s, {e})
<1>1. Refers(t)
  BY DEF Refers, WithoutEdges, WithoutRows, Typed, Tables
<1>2. Typed(t)
  BY WithoutEdgesTyped
<1> HIDE DEF t
<1>3. \A ns, f : Refers(WithContainingFace(t, ns, f))
  BY <1>1, <1>2, NodesKeepRows, KeptRowsAreReferred
<1> QED BY <1>3 DEF RemIsoEdge, t

LEMMA AddIsoEdgeRefers ==
  ASSUME NEW s, Typed(s), Refers(s), NEW n1, NEW n2, NEW g, NEW e
  PROVE  Refers(AddIsoEdge(s, n1, n2, g, e))
BY DEF Refers, AddIsoEdge, WithContainingFace, WithEdge, WithRow, Typed, Tables

\* A lineal object follows an edge into its parts, and two edges into one.
LEMMA ModEdgeSplitRefers ==
  ASSUME NEW s, Typed(s), Refers(s), NEW e, NEW p, NEW n, NEW e2
  PROVE  Refers(ModEdgeSplit(s, e, p, n, e2))
<1> DEFINE t == ModEdgeSplit(s, e, p, n, e2)
<1>1. /\ t.mbr = s.mbr /\ t.areal = s.areal
      /\ DOMAIN t.edge = DOMAIN s.edge \cup {e2}
      /\ t.lineal \subseteq s.lineal \cup {e2}
  BY DEF ModEdgeSplit, WithNode, WithRow, Typed, Tables
<1> HIDE DEF t
<1>2. Refers(t)
  BY <1>1 DEF Refers
<1> QED BY <1>2 DEF t

LEMMA NewEdgesSplitRefers ==
  ASSUME NEW s, Typed(s), Refers(s), NEW e, NEW p, NEW n, NEW e1, NEW e2
  PROVE  Refers(NewEdgesSplit(s, e, p, n, e1, e2))
<1> DEFINE t == NewEdgesSplit(s, e, p, n, e1, e2)
<1>1. /\ t.mbr = s.mbr /\ t.areal = s.areal
      /\ DOMAIN t.edge = (DOMAIN s.edge \ {e}) \cup {e1, e2}
      /\ t.lineal = IF e \in s.lineal THEN (s.lineal \ {e}) \cup {e1, e2} ELSE s.lineal
  BY DEF NewEdgesSplit, WithNode, WithRow, WithoutRows, Typed, Tables
<1> HIDE DEF t
<1>2. Refers(t)
  BY <1>1 DEF Refers
<1> QED BY <1>2 DEF t

LEMMA HealEdgesRefers ==
  ASSUME NEW s, Typed(s), Refers(s), NEW e1, NEW e2, CanHealEdges(s, e1, e2), NEW m,
         NEW into, into = e1 \/ into \notin DOMAIN s.edge
  PROVE  Refers(HealEdges(s, e1, e2, m, into))
<1> DEFINE t == HealEdges(s, e1, e2, m, into)
           gone == {e1, e2} \ {into}
<1>1. /\ t.mbr = s.mbr /\ t.areal = s.areal
      /\ DOMAIN t.edge = (DOMAIN s.edge \cup {into}) \ gone
      /\ t.lineal = IF e2 \in s.lineal THEN (s.lineal \ gone) \cup {into} ELSE s.lineal
  BY DEF HealEdges, WithoutNode, WithoutEdges, WithRow, WithoutRows, Typed, Tables
<1>2. e1 # e2 /\ ((e1 \in s.lineal) = (e2 \in s.lineal))
  BY DEF CanHealEdges, TopoGeomAllowsHeal
<1> HIDE DEF t
<1>3. Refers(t)
  BY <1>1, <1>2 DEF Refers
<1> QED BY <1>3 DEF t

-----------------------------------------------------------------------------
(* The specification.                                                      *)

LEMMA NewFaceIsFree == \A taken : NewFaceId(taken) \subseteq FaceIds \ (DOMAIN db.mbr \cup taken)
BY TablesOfDb DEF NewFaceId, Smallest

\* Both sides get a face or none: an edge that is on the ring of its right side
\* is also on that of its left side, which is the same ring.
LEMMA SplitNewFacesRefers ==
  ASSUME NEW s, Typed(s), Refers(s), Linked(s), RingsAreCycles(s),
         NEW e \in DOMAIN s.edge, NEW f \in Faces,
         NEW nf \in FaceIds \ DOMAIN s.mbr, NEW nf1 \in FaceIds \ DOMAIN s.mbr
  PROVE  Refers(SplitNewFaces(s, e, f, nf, nf1))
<1> DEFINE onRight == AddFaceSplit(s, -e, f, FALSE, nf1)
           t       == onRight.topo
           onLeft  == AddFaceSplit(t, e, f, FALSE, nf)
           parts   == TopoGeomFaceSplit(onLeft.topo, f, onLeft.face, onRight.face)
           final   == [parts EXCEPT !.mbr = WithoutRows(@, {f})]
<1>1. /\ SplitNewFaces(s, e, f, nf, nf1) \in {s, onLeft.topo, final}
      /\ (onRight.face = 0 => SplitNewFaces(s, e, f, nf, nf1) = s)
      /\ (f = Universe => SplitNewFaces(s, e, f, nf, nf1) \in {s, onLeft.topo})
  BY DEF SplitNewFaces
<1>2. Typed(t) /\ SameLinks(s, t) /\ KeepsRows(s, t) /\ (onRight.face > 0 => onRight.face \in DOMAIN t.mbr)
  BY AddFaceSplitRelabels, AddFaceSplitKeepsLinks, AddFaceSplitKeepsRows
<1>3. e \in DartsOf(s) /\ -e \in DartsOf(s) /\ -(-e) = e
  <2>1. e \in DartsOf(s)
    BY DEF DartsOf
  <2> QED BY <2>1, DartIsSigned
<1>4. Ring(t, e) = Ring(s, e)
  BY <1>2, <1>3, SameLinksSameRings
<1>5. f # Universe => /\ onRight.face = IF e \in Ring(s, -e) THEN 0 ELSE nf1
                      /\ onLeft.face = IF -e \in Ring(s, e) THEN 0 ELSE nf
  <2> SUFFICES ASSUME f # Universe
               PROVE  /\ onRight.face = IF e \in Ring(s, -e) THEN 0 ELSE nf1
                      /\ onLeft.face = IF -e \in Ring(s, e) THEN 0 ELSE nf
    OBVIOUS
  <2> HIDE DEF t
  <2>1. onRight.face = IF -(-e) \in Ring(s, -e) THEN 0 ELSE nf1
    BY DEF AddFaceSplit
  <2>2. onLeft.face = IF -e \in Ring(t, e) THEN 0 ELSE nf
    BY DEF AddFaceSplit
  <2> HIDE DEF onRight, onLeft
  <2> QED BY <1>3, <1>4, <2>1, <2>2
<1>6. -e \in Ring(s, e) => e \in Ring(s, -e)
  <2>1. e \in Ring(s, e)
    BY <1>3, RingIsLeast
  <2> QED BY <1>3, <2>1 DEF RingsAreCycles
<1> HIDE DEF t
<1>7. /\ Typed(onLeft.topo) /\ KeepsRows(t, onLeft.topo)
      /\ onLeft.face > 0 => onLeft.face \in DOMAIN onLeft.topo.mbr
  BY <1>2, AddFaceSplitRelabels, AddFaceSplitKeepsRows
<1> HIDE DEF onRight, onLeft
<1>8. Refers(onLeft.topo) /\ KeepsRows(s, onLeft.topo)
  BY <1>2, <1>7, KeptRowsAreReferred, KeepingRowsIsTransitive
<1>9. CASE f = Universe \/ onRight.face = 0
  BY <1>1, <1>8, <1>9
<1>10. CASE f # Universe /\ onRight.face # 0
  <2>1. onRight.face = nf1 /\ onLeft.face = nf
    BY <1>5, <1>6, <1>10
  <2>2. nf > 0 /\ nf1 > 0
    BY IdentifiersArePositive
  <2>3. nf \in DOMAIN onLeft.topo.mbr /\ nf1 \in DOMAIN onLeft.topo.mbr
    BY <1>2, <1>7, <2>1, <2>2 DEF KeepsRows
  <2>4. f \in s.areal => f # nf /\ f # nf1
    BY DEF Refers
  <2>5. /\ final.areal = IF f \notin s.areal THEN s.areal ELSE (s.areal \ {f}) \cup {nf, nf1}
        /\ DOMAIN final.mbr = DOMAIN onLeft.topo.mbr \ {f}
        /\ DOMAIN final.edge = DOMAIN onLeft.topo.edge /\ final.lineal = onLeft.topo.lineal
    <3>1. nf1 # -1
      BY <2>2
    <3>2. onLeft.topo.areal = s.areal
      BY <1>8 DEF KeepsRows
    <3> QED BY <1>7, <2>1, <3>1, <3>2 DEF TopoGeomFaceSplit, WithoutRows, Typed, Tables
  <2> HIDE DEF final
  <2>6. s.areal \subseteq DOMAIN onLeft.topo.mbr /\ onLeft.topo.lineal \subseteq DOMAIN onLeft.topo.edge
    BY <1>8 DEF Refers, KeepsRows
  <2>7. Refers(final)
    BY <2>3, <2>4, <2>5, <2>6 DEF Refers
  <2> QED BY <1>1, <1>8, <2>7
<1> QED BY <1>9, <1>10

LEMMA AddEdgeNewFacesRefers ==
  ASSUME NEW s, Sound(s), Flat(s), Turning(s), IsFiniteSet(DOMAIN s.edge), Refers(s),
         NEW n1 \in DOMAIN s.node, NEW n2 \in DOMAIN s.node,
         NEW g \in Line, CanAddEdge(s, n1, n2, g), NEW f \in Faces,
         NEW a1 \in StartEnds(s, n1, n2, g), NEW a2 \in EndEnds(s, n1, n2, g),
         NEW e \in EdgeIds \ DOMAIN s.edge,
         NEW nf \in FaceIds \ DOMAIN s.mbr, NEW nf1 \in FaceIds \ DOMAIN s.mbr
  PROVE  Refers(AddEdgeNewFaces(s, n1, n2, g, f, a1, a2, e, nf, nf1))
<1> DEFINE t == LinkEdge(s, n1, n2, g, f, a1, a2, e)
<1>1. /\ a1.cw \in DartsAt(s, n1) \cup {0} /\ a2.cw \in DartsAt(s, n2) \cup {0}
  BY AdjacentEndsAreEnds DEF StartEnds, EndEnds
<1>2. Typed(t) /\ Flat(t)
  BY <1>1, LinkEdgeSound, LinkEdgeFlat DEF Sound
<1>3. Turning(t)
  BY <1>2, LinkEdgeTurns DEF Sound
<1>4. Refers(t)
  BY LinkEdgeKeepsRows, KeptRowsAreReferred DEF Sound
<1>5. IsFiniteSet(DOMAIN t.edge)
  BY EdgesAddFew, FewMoreIsFinite DEF Sound
<1>6. e \in DOMAIN t.edge /\ DOMAIN t.mbr = DOMAIN s.mbr
  BY DEF LinkEdge, WithContainingFace, WithEdge, WithRow, Sound, Typed, Tables
<1>7. AddEdgeNewFaces(s, n1, n2, g, f, a1, a2, e, nf, nf1) \in {t, SplitNewFaces(t, e, f, nf, nf1)}
  BY DEF AddEdgeNewFaces
<1> HIDE DEF t
<1>8. Linked(t) /\ RingsAreCycles(t)
  BY <1>2, <1>3, <1>5, TurningIsLinked, RingsComeBack
<1>9. Refers(SplitNewFaces(t, e, f, nf, nf1))
  BY <1>2, <1>4, <1>6, <1>8, SplitNewFacesRefers
<1> QED BY <1>4, <1>7, <1>9

LEMMA CommitRefers ==
  ASSUME NEW t, Refers(t), Commit(t)
  PROVE  Refers(db)'
<1> DEFINE u == db'
<1>1. /\ u.edge = t.edge /\ u.mbr = t.mbr /\ u.areal = t.areal /\ u.lineal = t.lineal
  BY DEF Commit, db
<1> HIDE DEF u
<1>2. Refers(u)
  BY <1>1 DEF Refers
<1> QED BY <1>2 DEF u

LEMMA StepRefers ==
  ASSUME "RemovesUsedEdge" \in Avoids, "AddEdgeNewFaces" \notin Ops \/ SplitsAreSafe,
         Sound(db), Flat(db), SplitsAreSafe => Turning(db), IsFiniteSet(DOMAIN db.edge),
         Refers(db), [NextCall]_vars
  PROVE  Refers(db)'
<1> USE TablesOfDb
<1>0. Typed(db)
  BY DEF Sound
<1>1. CASE rtt_AddIsoNode
  <2>1. PICK p \in Sites, face \in Faces \cup {-1} :
          \E n \in NewNodeId(p) : Commit(AddIsoNode(db, face, p, n))
    BY <1>1 DEF rtt_AddIsoNode
  <2>2. PICK n \in NewNodeId(p) : Commit(AddIsoNode(db, face, p, n))
    BY <2>1
  <2>3. Refers(AddIsoNode(db, face, p, n))
    BY <1>0, NodesKeepRows, KeptRowsAreReferred DEF AddIsoNode
  <2> QED BY <2>2, <2>3, CommitRefers
<1>2. CASE rtt_MoveIsoNode
  <2>1. PICK n \in DOMAIN node, p \in Sites : Commit(MoveIsoNode(db, n, p))
    BY <1>2 DEF rtt_MoveIsoNode
  <2>2. Refers(MoveIsoNode(db, n, p))
    BY <1>0, NodesKeepRows, KeptRowsAreReferred
  <2> QED BY <2>1, <2>2, CommitRefers
<1>3. CASE rtt_RemoveIsoNode
  <2>1. PICK n \in DOMAIN node : Commit(WithoutNode(db, n))
    BY <1>3 DEF rtt_RemoveIsoNode
  <2>2. Refers(WithoutNode(db, n))
    BY <1>0, NodesKeepRows, KeptRowsAreReferred
  <2> QED BY <2>1, <2>2, CommitRefers
<1>4. CASE rtt_AddIsoEdge
  <2>1. PICK n1 \in DOMAIN node, n2 \in DOMAIN node, g \in Curves :
          \E e \in NewEdgeId(g, {}) : Commit(AddIsoEdge(db, n1, n2, g, e))
    BY <1>4 DEF rtt_AddIsoEdge
  <2>2. \A e : Refers(AddIsoEdge(db, n1, n2, g, e))
    BY <1>0, AddIsoEdgeRefers
  <2> QED BY <2>1, <2>2, CommitRefers
<1>5. CASE rtt_RemIsoEdge
  <2>1. PICK e \in DOMAIN edge : ~ RemovesUsedEdge(e) /\ Commit(RemIsoEdge(db, e))
    BY <1>5 DEF rtt_RemIsoEdge, Avoided
  <2>2. Refers(RemIsoEdge(db, e))
    BY <1>0, <2>1, RemIsoEdgeRefers DEF RemovesUsedEdge
  <2> QED BY <2>1, <2>2, CommitRefers
<1>6. CASE rtt_ModEdgeSplit
  <2>1. PICK e \in DOMAIN edge, p \in Sites :
          \E n \in NewNodeId(p), e2 \in NewEdgeId(TailFrom(line[e], p), {}) :
            Commit(ModEdgeSplit(db, e, p, n, e2))
    BY <1>6 DEF rtt_ModEdgeSplit
  <2>2. \A n, e2 : Refers(ModEdgeSplit(db, e, p, n, e2))
    BY <1>0, ModEdgeSplitRefers
  <2> QED BY <2>1, <2>2, CommitRefers
<1>7. CASE rtt_NewEdgesSplit
  <2>1. PICK e \in DOMAIN edge, p \in Sites :
          \E n \in NewNodeId(p), e1 \in NewEdgeId(HeadUpTo(line[e], p), {}) :
            \E e2 \in NewEdgeId(TailFrom(line[e], p), {e1}) :
              Commit(NewEdgesSplit(db, e, p, n, e1, e2))
    BY <1>7 DEF rtt_NewEdgesSplit
  <2>2. \A n, e1, e2 : Refers(NewEdgesSplit(db, e, p, n, e1, e2))
    BY <1>0, NewEdgesSplitRefers
  <2> QED BY <2>1, <2>2, CommitRefers
<1>8. CASE rtt_AddEdgeModFace
  <2>1. PICK n1 \in DOMAIN node, n2 \in DOMAIN node, g \in Curves :
          \E a1 \in StartEnds(db, n1, n2, g), a2 \in EndEnds(db, n1, n2, g),
             e \in NewEdgeId(g, {}), nf \in NewFaceId({}) :
          \E spare \in NewFaceId({nf}) :
            LET f == NewEdgeFace(db, n1, n2, a1, a2)
            IN  f # -1 /\ Commit(AddEdgeModFace(db, n1, n2, g, f, a1, a2, e, nf, spare))
    BY <1>8 DEF rtt_AddEdgeModFace
  <2>2. PICK a1 \in StartEnds(db, n1, n2, g), a2 \in EndEnds(db, n1, n2, g),
             e \in NewEdgeId(g, {}), nf \in NewFaceId({}) :
          \E spare \in NewFaceId({nf}) :
            LET f == NewEdgeFace(db, n1, n2, a1, a2)
            IN  f # -1 /\ Commit(AddEdgeModFace(db, n1, n2, g, f, a1, a2, e, nf, spare))
    BY <2>1
  <2> DEFINE f == NewEdgeFace(db, n1, n2, a1, a2)
  <2>3. PICK spare \in NewFaceId({nf}) :
          f # -1 /\ Commit(AddEdgeModFace(db, n1, n2, g, f, a1, a2, e, nf, spare))
    BY <2>2
  <2>4. e \in EdgeIds \ DOMAIN db.edge /\ nf \in FaceIds /\ spare \in FaceIds
    BY NewIdentifiersAreFree
  <2>5. /\ a1.cw \in DartsAt(db, n1) \cup {0} /\ a1.ccw \in DartsAt(db, n1) \cup {0}
        /\ a2.cw \in DartsAt(db, n2) \cup {0}
    BY AdjacentEndsAreEnds DEF StartEnds, EndEnds
  <2>6. f \in Faces
    BY <1>0, <2>3, <2>5, NewEdgeFaceTyped
  <2> HIDE DEF f
  <2>7. Refers(AddEdgeModFace(db, n1, n2, g, f, a1, a2, e, nf, spare))
    BY <2>4, <2>5, <2>6, AddEdgeModFaceRefers
  <2> QED BY <2>3, <2>7, CommitRefers
<1>9. CASE rtt_AddEdgeNewFaces
  <2>0. Turning(db)
    BY <1>9 DEF rtt_AddEdgeNewFaces
  <2>1. PICK n1 \in DOMAIN node, n2 \in DOMAIN node, g \in Curves :
          /\ CanAddEdge(db, n1, n2, g)
          /\ \E a1 \in StartEnds(db, n1, n2, g), a2 \in EndEnds(db, n1, n2, g),
                e \in NewEdgeId(g, {}), nf1 \in NewFaceId({}) :
             \E nf \in NewFaceId({nf1}) :
               LET f == NewEdgeFace(db, n1, n2, a1, a2)
               IN  f # -1 /\ Commit(AddEdgeNewFaces(db, n1, n2, g, f, a1, a2, e, nf, nf1))
    BY <1>9 DEF rtt_AddEdgeNewFaces
  <2>2. PICK a1 \in StartEnds(db, n1, n2, g), a2 \in EndEnds(db, n1, n2, g),
             e \in NewEdgeId(g, {}), nf1 \in NewFaceId({}) :
          \E nf \in NewFaceId({nf1}) :
            LET f == NewEdgeFace(db, n1, n2, a1, a2)
            IN  f # -1 /\ Commit(AddEdgeNewFaces(db, n1, n2, g, f, a1, a2, e, nf, nf1))
    BY <2>1
  <2> DEFINE f == NewEdgeFace(db, n1, n2, a1, a2)
  <2>3. PICK nf \in NewFaceId({nf1}) :
          f # -1 /\ Commit(AddEdgeNewFaces(db, n1, n2, g, f, a1, a2, e, nf, nf1))
    BY <2>2
  <2>4. /\ e \in EdgeIds \ DOMAIN db.edge /\ g \in Line
        /\ nf \in FaceIds \ DOMAIN db.mbr /\ nf1 \in FaceIds \ DOMAIN db.mbr
    BY NewIdentifiersAreFree, NewFaceIsFree, InputsAreGeometries
  <2>5. /\ a1.cw \in DartsAt(db, n1) \cup {0} /\ a1.ccw \in DartsAt(db, n1) \cup {0}
        /\ a2.cw \in DartsAt(db, n2) \cup {0}
    BY AdjacentEndsAreEnds DEF StartEnds, EndEnds
  <2>6. f \in Faces
    BY <1>0, <2>3, <2>5, NewEdgeFaceTyped
  <2> HIDE DEF f
  <2>7. Refers(AddEdgeNewFaces(db, n1, n2, g, f, a1, a2, e, nf, nf1))
    BY <2>0, <2>1, <2>4, <2>6, AddEdgeNewFacesRefers
  <2> QED BY <2>3, <2>7, CommitRefers
<1>10. CASE rtt_RemEdgeModFace
  <2>1. PICK e \in DOMAIN edge : CanRemEdge(db, e) /\ Commit(RemEdge(db, e, TRUE, Universe))
    BY <1>10 DEF rtt_RemEdgeModFace
  <2>2. Refers(RemEdge(db, e, TRUE, Universe))
    BY <2>1, RemEdgeRefers DEF Faces
  <2> QED BY <2>1, <2>2, CommitRefers
<1>11. CASE rtt_RemEdgeNewFace
  <2>1. PICK e \in DOMAIN edge, nf \in NewFaceId({}) :
          CanRemEdge(db, e) /\ Commit(RemEdge(db, e, FALSE, nf))
    BY <1>11 DEF rtt_RemEdgeNewFace
  <2>2. nf \in Faces /\ nf # Universe
    BY NewIdentifiersAreFree, IdentifiersArePositive DEF Faces, Universe
  <2>3. Refers(RemEdge(db, e, FALSE, nf))
    BY <2>1, <2>2, RemEdgeRefers
  <2> QED BY <2>1, <2>3, CommitRefers
<1>12. CASE rtt_ModEdgeHeal
  <2>1. PICK e1 \in DOMAIN edge, e2 \in DOMAIN edge :
          /\ CanHealEdges(db, e1, e2)
          /\ \E m \in Meeting(db, e1, e2) : Commit(HealEdges(db, e1, e2, m, e1))
    BY <1>12 DEF rtt_ModEdgeHeal
  <2>2. \A m : Refers(HealEdges(db, e1, e2, m, e1))
    BY <1>0, <2>1, HealEdgesRefers
  <2> QED BY <2>1, <2>2, CommitRefers
<1>13. CASE rtt_NewEdgeHeal
  <2>1. PICK e1 \in DOMAIN edge, e2 \in DOMAIN edge :
          /\ CanHealEdges(db, e1, e2)
          /\ \E m \in Meeting(db, e1, e2) : \E e \in NewEdgeId(HealedLine(db, m), {}) :
               Commit(HealEdges(db, e1, e2, m, e))
    BY <1>13 DEF rtt_NewEdgeHeal
  <2>2. PICK m \in Meeting(db, e1, e2) : \E e \in NewEdgeId(HealedLine(db, m), {}) :
          Commit(HealEdges(db, e1, e2, m, e))
    BY <2>1
  <2>3. PICK e \in NewEdgeId(HealedLine(db, m), {}) : Commit(HealEdges(db, e1, e2, m, e))
    BY <2>2
  <2>4. e \notin DOMAIN db.edge
    BY NewIdentifiersAreFree
  <2>5. Refers(HealEdges(db, e1, e2, m, e))
    BY <1>0, <2>1, <2>4, HealEdgesRefers
  <2> QED BY <2>3, <2>5, CommitRefers
<1>14. CASE rtt_ChangeEdgeGeom
  <2>1. PICK e \in DOMAIN edge, g \in Curves : Commit(ChangeEdgeGeom(db, e, g))
    BY <1>14 DEF rtt_ChangeEdgeGeom
  <2>2. Refers(ChangeEdgeGeom(db, e, g))
    BY <1>0, EdgesKeepRows, KeptRowsAreReferred
  <2> QED BY <2>1, <2>2, CommitRefers
<1>15. CASE CreateArealTopoGeom
  BY <1>15 DEF CreateArealTopoGeom, Refers, db
<1>16. CASE CreateLinealTopoGeom
  BY <1>16 DEF CreateLinealTopoGeom, Refers, db
<1>17. CASE UNCHANGED vars
  <2>1. db' = db
    BY <1>17 DEF vars, db
  <2> QED BY <2>1
<1> QED BY <1>1, <1>2, <1>3, <1>4, <1>5, <1>6, <1>7, <1>8, <1>9, <1>10, <1>11, <1>12,
           <1>13, <1>14, <1>15, <1>16, <1>17 DEF NextCall

\* Clients that leave edges in use to RemEdge* never have a TopoGeometry that is
\* composed of a row that is gone: the callbacks for splits and heals, and the
\* checks before a removal, are called where they have to be, whatever the
\* geometry.  AddEdgeNewFaces looks for a face on both sides and would give a
\* TopoGeometry the face 0 if it found only one; that it does not is a fact
\* about the links, which NewEdgesSplit can spoil.
THEOREM TopoGeomsAlwaysReferToRows ==
  ASSUME "RemovesUsedEdge" \in Avoids, "AddEdgeNewFaces" \notin Ops \/ SplitsAreSafe
  PROVE  Spec => []TopoGeomsReferToRows
<1> DEFINE Inv == /\ Sound(db) /\ Flat(db) /\ (SplitsAreSafe => Turning(db))
                  /\ IsFiniteSet(DOMAIN db.edge) /\ Refers(db)
<1>1. Init => Inv
  <2>1. Init => Refers(db)
    BY DEF Init, Refers, db
  <2> QED BY <2>1, InitSound, InitFlat, InitTurns, InitFinite
<1>2. Inv /\ [NextCall]_vars => Inv'
  <2> SUFFICES ASSUME Inv, [NextCall]_vars PROVE Inv'
    OBVIOUS
  <2>1. Sound(db)' /\ Flat(db)' /\ IsFiniteSet(DOMAIN db.edge)'
    BY StepSound, StepFlat, StepFinite
  <2>2. (SplitsAreSafe => Turning(db))'
    <3>1. SplitsAreSafe' <=> SplitsAreSafe
      BY DEF SplitsAreSafe
    <3> QED BY <3>1, StepTurns
  <2>3. Refers(db)'
    BY StepRefers
  <2> QED BY <2>1, <2>2, <2>3
<1>3. Inv => TopoGeomsReferToRows
  BY DEF Refers, TopoGeomsReferToRows, db
<1> QED BY <1>1, <1>2, <1>3, PTL DEF Spec

-----------------------------------------------------------------------------
(* The shape of lineal objects.                                            *)

Composed(s) == s.lineal \subseteq DOMAIN s.edge

\* A lineal object goes through the point.
Covers(s, q) == \E e \in s.lineal : Passes(s.line[e], q)

KeepsShape(s, t) == Composed(t) /\ \A q \in Point : Covers(t, q) <=> Covers(s, q)

LEMMA SameLinesKeepShape ==
  ASSUME NEW s, Composed(s), NEW t, t.lineal = s.lineal,
         \A e \in s.lineal : e \in DOMAIN t.edge /\ t.line[e] = s.line[e]
  PROVE  KeepsShape(s, t)
BY DEF KeepsShape, Composed, Covers

LEMMA ShapeIsKeptOn ==
  ASSUME NEW s, NEW t, NEW u, KeepsShape(s, t), KeepsShape(t, u)
  PROVE  KeepsShape(s, u)
BY DEF KeepsShape

LEMMA RelabellingKeepsShape ==
  ASSUME NEW s, Composed(s), NEW t, Relabelled(s, t), SameGeometry(s, t)
  PROVE  KeepsShape(s, t)
BY SameLinesKeepShape DEF Relabelled, SameGeometry, Composed

LEMMA AddIsoEdgeKeepsShape ==
  ASSUME NEW s, Typed(s), Composed(s), NEW n1, NEW n2, NEW g, NEW e, e \notin DOMAIN s.edge
  PROVE  KeepsShape(s, AddIsoEdge(s, n1, n2, g, e))
<1> DEFINE t == AddIsoEdge(s, n1, n2, g, e)
<1>1. /\ DOMAIN t.edge = DOMAIN s.edge \cup {e}
      /\ t.line = WithRow(s.line, e, g) /\ t.lineal = s.lineal /\ DOMAIN s.line = DOMAIN s.edge
  BY DEF AddIsoEdge, WithContainingFace, WithEdge, WithRow, Typed, Tables, IsTopology
<1> HIDE DEF t
<1>2. KeepsShape(s, t)
  BY <1>1, SameLinesKeepShape DEF Composed, WithRow
<1> QED BY <1>2 DEF t

LEMMA LinkEdgeKeepsShape ==
  ASSUME NEW s, Typed(s), Composed(s), NEW n1, NEW n2, NEW g, NEW f, NEW a1, NEW a2,
         NEW e, e \notin DOMAIN s.edge
  PROVE  KeepsShape(s, LinkEdge(s, n1, n2, g, f, a1, a2, e))
<1> DEFINE t == LinkEdge(s, n1, n2, g, f, a1, a2, e)
<1>1. /\ DOMAIN t.edge = DOMAIN s.edge \cup {e}
      /\ t.line = WithRow(s.line, e, g) /\ t.lineal = s.lineal /\ DOMAIN s.line = DOMAIN s.edge
  BY DEF LinkEdge, WithContainingFace, WithEdge, WithRow, Typed, Tables, IsTopology
<1> HIDE DEF t
<1>2. KeepsShape(s, t)
  BY <1>1, SameLinesKeepShape DEF Composed, WithRow
<1> QED BY <1>2 DEF t

LEMMA AddEdgeKeepsShape ==
  ASSUME NEW s, Sound(s), Composed(s), NEW n1 \in DOMAIN s.node, NEW n2 \in DOMAIN s.node,
         NEW g, NEW f \in Faces,
         NEW a1, a1.cw \in DartsAt(s, n1) \cup {0},
         NEW a2, a2.cw \in DartsAt(s, n2) \cup {0},
         NEW e \in EdgeIds \ DOMAIN s.edge, NEW nf \in FaceIds, NEW other \in FaceIds
  PROVE  /\ KeepsShape(s, AddEdgeModFace(s, n1, n2, g, f, a1, a2, e, nf, other))
         /\ KeepsShape(s, AddEdgeNewFaces(s, n1, n2, g, f, a1, a2, e, nf, other))
<1> DEFINE t == LinkEdge(s, n1, n2, g, f, a1, a2, e)
           u == SplitModFace(t, e, f, nf, other)
           v == SplitNewFaces(t, e, f, nf, other)
<1>1. Typed(t) /\ KeepsShape(s, t)
  BY LinkEdgeSound, LinkEdgeKeepsShape DEF Sound
<1>2. /\ AddEdgeModFace(s, n1, n2, g, f, a1, a2, e, nf, other) \in {t, u}
      /\ AddEdgeNewFaces(s, n1, n2, g, f, a1, a2, e, nf, other) \in {t, v}
  BY DEF AddEdgeModFace, AddEdgeNewFaces
<1> HIDE DEF t
<1>3. Relabelled(t, u) /\ SameGeometry(t, u)
  BY <1>1, SplitModFaceRelabels, SplitModFaceKeepsGeometry
<1>4. Relabelled(t, v) /\ SameGeometry(t, v)
  BY <1>1, SplitNewFacesRelabels, SplitNewFacesKeepsGeometry
<1> HIDE DEF u, v
<1>5. KeepsShape(t, u) /\ KeepsShape(t, v)
  BY <1>1, <1>3, <1>4, RelabellingKeepsShape DEF KeepsShape
<1> QED BY <1>1, <1>2, <1>5, ShapeIsKeptOn

LEMMA RemIsoEdgeKeepsShape ==
  ASSUME NEW s, Typed(s), Composed(s), NEW e, e \notin s.lineal
  PROVE  KeepsShape(s, RemIsoEdge(s, e))
<1> DEFINE t == RemIsoEdge(s, e)
<1>1. /\ t.edge = WithoutRows(s.edge, {e}) /\ t.line = WithoutRows(s.line, {e})
      /\ t.lineal = s.lineal /\ DOMAIN s.line = DOMAIN s.edge
  BY DEF RemIsoEdge, WithContainingFace, WithoutEdges, Typed, Tables, IsTopology
<1> HIDE DEF t
<1>2. KeepsShape(s, t)
  BY <1>1, SameLinesKeepShape DEF Composed, WithoutRows
<1> QED BY <1>2 DEF t

LEMMA RemEdgeKeepsShape ==
  ASSUME NEW s, Sound(s), Composed(s), NEW e, CanRemEdge(s, e),
         NEW modFace \in BOOLEAN, NEW nf \in Faces
  PROVE  KeepsShape(s, RemEdge(s, e, modFace, nf))
<1> DEFINE fl == s.edge[e].face_left
           fr == s.edge[e].face_right
           flood == FloodFace(s, e, modFace, nf)
           unlinked == UnlinkEdge(s, e)
           healed == HealFaces(unlinked, fl, fr, flood)
           u == RemEdge(s, e, modFace, nf)
<1>1. e \in DOMAIN s.edge /\ e \notin s.lineal /\ fl \in Faces /\ fr \in Faces
  BY DEF CanRemEdge, TopoGeomAllowsRemEdge, Sound, Typed, IsTopology, EdgeRow
<1>2. flood \in Faces
  BY <1>1 DEF FloodFace, Faces
<1>3. u = WithContainingFace(WithoutEdges(healed, {e}), LonelyEnds(s, e), flood)
  BY DEF RemEdge
<1> HIDE DEF flood, fl, fr, u
<1>4. Typed(unlinked) /\ Relabelled(s, unlinked) /\ SameGeometry(s, unlinked)
  BY <1>1, UnlinkEdgeRelabels, UnlinkEdgeKeepsGeometry DEF Sound
<1> HIDE DEF unlinked
<1>5. Typed(healed) /\ Relabelled(unlinked, healed) /\ SameGeometry(unlinked, healed)
  BY <1>1, <1>2, <1>4, HealFacesRelabels, HealFacesKeepsGeometry
<1> HIDE DEF healed
<1>6. /\ u.edge = WithoutRows(healed.edge, {e}) /\ u.line = WithoutRows(healed.line, {e})
      /\ u.lineal = healed.lineal /\ DOMAIN healed.line = DOMAIN healed.edge
  BY <1>3, <1>5 DEF WithContainingFace, WithoutEdges, Typed, Tables, IsTopology
<1>7. /\ healed.lineal = s.lineal /\ healed.line = s.line /\ DOMAIN healed.edge = DOMAIN s.edge
  BY <1>4, <1>5 DEF Relabelled, SameGeometry
<1>8. KeepsShape(s, u)
  BY <1>1, <1>6, <1>7, SameLinesKeepShape DEF Composed, WithoutRows
<1> QED BY <1>8 DEF u

\* The object that was composed of the edge is composed of its two pieces.
LEMMA SplitKeepsShape ==
  ASSUME NEW s, Flat(s), Composed(s), NEW e, NEW p \in Point, CanSplitEdge(s, e, p),
         NEW t, NEW n, NEW a, NEW b, DrawsSplit(t, s, e, p, n, a, b),
         t.lineal = IF e \in s.lineal THEN (s.lineal \ {e}) \cup {a, b} ELSE s.lineal
  PROVE  KeepsShape(s, t)
<1>1. e \in DOMAIN s.edge /\ InInterior(p, s.line[e]) /\ s.line[e] \in Line
  BY DEF CanSplitEdge, Flat, EdgeDrawn
<1>2. /\ DOMAIN t.edge = (DOMAIN s.edge \ {e}) \cup {a, b}
      /\ t.line[a] = HeadUpTo(s.line[e], p) /\ t.line[b] = TailFrom(s.line[e], p)
      /\ \A x \in DOMAIN s.edge \ {e} : t.line[x] = s.line[x]
      /\ (a = e \/ a \notin DOMAIN s.edge) /\ b \notin DOMAIN s.edge
  BY DEF DrawsSplit
<1>3. CASE e \notin s.lineal
  BY <1>2, <1>3, SameLinesKeepShape DEF Composed
<1>4. CASE e \in s.lineal
  <2>1. t.lineal = (s.lineal \ {e}) \cup {a, b}
    BY <1>4
  <2>2. Composed(t)
    BY <1>2, <2>1 DEF Composed
  <2>3. ASSUME NEW q \in Point PROVE Covers(t, q) <=> Covers(s, q)
    <3>1. Passes(s.line[e], q) <=> Passes(t.line[a], q) \/ Passes(t.line[b], q)
      BY <1>1, <1>2, PassesPieces
    <3>2. \A x \in s.lineal \ {e} : t.line[x] = s.line[x]
      BY <1>2 DEF Composed
    <3>3. Covers(t, q) <=> \/ \E x \in s.lineal \ {e} : Passes(t.line[x], q)
                           \/ Passes(t.line[a], q) \/ Passes(t.line[b], q)
      BY <2>1 DEF Covers
    <3>4. Covers(s, q) <=> \/ \E x \in s.lineal \ {e} : Passes(s.line[x], q)
                           \/ Passes(s.line[e], q)
      BY <1>4 DEF Covers
    <3> QED BY <3>1, <3>2, <3>3, <3>4
  <2> QED BY <2>2, <2>3 DEF KeepsShape
<1> QED BY <1>3, <1>4

LEMMA ModEdgeSplitKeepsShape ==
  ASSUME NEW s, Sound(s), Flat(s), Composed(s), NEW e, NEW p \in Point, CanSplitEdge(s, e, p),
         NEW n \in NodeIds \ DOMAIN s.node, NEW e2 \in EdgeIds \ DOMAIN s.edge
  PROVE  KeepsShape(s, ModEdgeSplit(s, e, p, n, e2))
<1> DEFINE t == ModEdgeSplit(s, e, p, n, e2)
<1>1. t.lineal = IF e \in s.lineal THEN s.lineal \cup {e2} ELSE s.lineal
  BY DEF ModEdgeSplit, WithNode, Sound, Typed, Tables
<1>2. DrawsSplit(t, s, e, p, n, e, e2)
  BY ModEdgeSplitDraws
<1> HIDE DEF t
<1>3. t.lineal = IF e \in s.lineal THEN (s.lineal \ {e}) \cup {e, e2} ELSE s.lineal
  BY <1>1
<1>4. KeepsShape(s, t)
  BY <1>2, <1>3, SplitKeepsShape
<1> QED BY <1>4 DEF t

LEMMA NewEdgesSplitKeepsShape ==
  ASSUME NEW s, Sound(s), Flat(s), Composed(s), NEW e, NEW p \in Point, CanSplitEdge(s, e, p),
         NEW n \in NodeIds \ DOMAIN s.node,
         NEW e1 \in EdgeIds \ DOMAIN s.edge, NEW e2 \in EdgeIds \ DOMAIN s.edge, e1 # e2
  PROVE  KeepsShape(s, NewEdgesSplit(s, e, p, n, e1, e2))
<1> DEFINE t == NewEdgesSplit(s, e, p, n, e1, e2)
<1>1. t.lineal = IF e \in s.lineal THEN (s.lineal \ {e}) \cup {e1, e2} ELSE s.lineal
  BY DEF NewEdgesSplit, WithNode, Sound, Typed, Tables
<1>2. DrawsSplit(t, s, e, p, n, e1, e2)
  BY NewEdgesSplitDraws
<1> HIDE DEF t
<1>3. KeepsShape(s, t)
  BY <1>1, <1>2, SplitKeepsShape
<1> QED BY <1>3 DEF t

\* An edge walked in either direction passes through the same points.
LEMMA DartPasses ==
  ASSUME NEW s, Typed(s), Flat(s), NEW d \in DartsOf(s), NEW q \in Point
  PROVE  Passes(Path(s, d), q) <=> Passes(s.line[EdgeOf(d)], q)
<1>1. d \in Darts /\ d # 0 /\ EdgeOf(d) \in DOMAIN s.edge
  BY DartsAreDarts
<1>2. s.line[EdgeOf(d)] \in Line
  BY <1>1 DEF Flat, EdgeDrawn
<1>3. CASE d > 0
  BY <1>3 DEF Path, EdgeOf
<1>4. CASE ~ (d > 0)
  <2>1. Path(s, d) = Reverse(s.line[-d]) /\ EdgeOf(d) = -d
    BY <1>4 DEF Path, EdgeOf
  <2> QED BY <1>2, <2>1, PassesReversed
<1> QED BY <1>3, <1>4

\* The objects that were composed of both edges are composed of the healed one.
LEMMA HealEdgesKeepsShape ==
  ASSUME NEW s, Sound(s), Flat(s), Composed(s), NEW e1, NEW e2, CanHealEdges(s, e1, e2),
         NEW m \in Meeting(s, e1, e2),
         NEW into \in EdgeIds, into = e1 \/ into \notin DOMAIN s.edge
  PROVE  KeepsShape(s, HealEdges(s, e1, e2, m, into))
<1> DEFINE t    == HealEdges(s, e1, e2, m, into)
           gone == {e1, e2} \ {into}
           j    == HealedLine(s, m)
<1>1. /\ e1 \in DOMAIN s.edge /\ e2 \in DOMAIN s.edge /\ e1 # e2 /\ e2 # into
      /\ e1 \in s.lineal <=> e2 \in s.lineal
      /\ DOMAIN s.line = DOMAIN s.edge
  <2>1. /\ e1 \in DOMAIN s.edge /\ e2 \in DOMAIN s.edge /\ e1 # e2
        /\ e1 \in s.lineal <=> e2 \in s.lineal
    BY DEF CanHealEdges, TopoGeomAllowsHeal
  <2>2. DOMAIN s.line = DOMAIN s.edge
    BY DEF Sound, Typed, IsTopology
  <2> QED BY <2>1, <2>2
<1>2. /\ DOMAIN t.edge = (DOMAIN s.edge \cup {into}) \ gone
      /\ t.line = WithoutRows(WithRow(s.line, into, j), gone)
      /\ t.lineal = IF e2 \in s.lineal THEN (s.lineal \ gone) \cup {into} ELSE s.lineal
  BY DEF HealEdges, WithoutNode, WithoutEdges, WithRow, WithoutRows, Sound, Typed, Tables
<1>3. ASSUME NEW q \in Point
      PROVE  Passes(j, q) <=> Passes(s.line[e1], q) \/ Passes(s.line[e2], q)
  <2>1. PICK first \in DartsOf(s), last \in DartsOf(s) :
          /\ {EdgeOf(first), EdgeOf(last)} = {e1, e2}
          /\ Target(s, first) = Target(s, m.arrive) /\ Origin(s, last) = Target(s, m.arrive)
          /\ j = Joined(Path(s, first), Path(s, last))
    BY HealedDarts DEF Sound
  <2>2. /\ Path(s, first) \in Line /\ Path(s, last) \in Line
        /\ EndPoint(Path(s, first)) = StartPoint(Path(s, last))
    BY <2>1, DartDrawn DEF Sound
  <2>3. Passes(j, q) <=> Passes(Path(s, first), q) \/ Passes(Path(s, last), q)
    BY <2>1, <2>2, PassesJoined
  <2>4. /\ Passes(Path(s, first), q) <=> Passes(s.line[EdgeOf(first)], q)
        /\ Passes(Path(s, last), q) <=> Passes(s.line[EdgeOf(last)], q)
    BY DartPasses DEF Sound
  <2>5. \/ EdgeOf(first) = e1 /\ EdgeOf(last) = e2
        \/ EdgeOf(first) = e2 /\ EdgeOf(last) = e1
    BY <2>1
  <2> QED BY <2>3, <2>4, <2>5
<1> HIDE DEF t, j
<1>4. /\ t.line[into] = j
      /\ \A x \in DOMAIN s.edge \ {e1, e2, into} : t.line[x] = s.line[x]
  BY <1>1, <1>2 DEF WithRow, WithoutRows
<1>5. CASE e2 \notin s.lineal
  <2>1. \A x \in s.lineal : x \in DOMAIN s.edge \ {e1, e2, into}
    BY <1>1, <1>5 DEF Composed
  <2>2. KeepsShape(s, t)
    BY <1>2, <1>4, <1>5, <2>1, SameLinesKeepShape
  <2> QED BY <2>2 DEF t
<1>6. CASE e2 \in s.lineal
  <2>1. t.lineal = (s.lineal \ {e1, e2}) \cup {into}
    BY <1>2, <1>6
  <2>2. Composed(t)
    BY <1>1, <1>2, <2>1 DEF Composed
  <2>3. ASSUME NEW q \in Point PROVE Covers(t, q) <=> Covers(s, q)
    <3>1. \A x \in s.lineal \ {e1, e2} : t.line[x] = s.line[x]
      BY <1>1, <1>4 DEF Composed
    <3>2. Covers(t, q) <=> \/ \E x \in s.lineal \ {e1, e2} : Passes(t.line[x], q)
                           \/ Passes(j, q)
      BY <1>4, <2>1 DEF Covers
    <3>3. Covers(s, q) <=> \/ \E x \in s.lineal \ {e1, e2} : Passes(s.line[x], q)
                           \/ Passes(s.line[e1], q) \/ Passes(s.line[e2], q)
      BY <1>1, <1>6 DEF Covers
    <3> QED BY <1>3, <3>1, <3>2, <3>3
  <2>4. KeepsShape(s, t)
    BY <2>2, <2>3 DEF KeepsShape
  <2> QED BY <2>4 DEF t
<1> QED BY <1>5, <1>6

LEMMA NodesKeepShape ==
  ASSUME NEW s, Typed(s), Composed(s)
  PROVE  /\ \A n, f, p : KeepsShape(s, WithNode(s, n, f, p))
         /\ \A n : KeepsShape(s, WithoutNode(s, n))
         /\ \A n, p : KeepsShape(s, MoveIsoNode(s, n, p))
<1> DEFINE same(t) == t.edge = s.edge /\ t.line = s.line /\ t.lineal = s.lineal
<1>1. \A n, f, p : same(WithNode(s, n, f, p))
  BY DEF WithNode, Typed, Tables
<1>2. \A n : same(WithoutNode(s, n))
  BY DEF WithoutNode, Typed, Tables
<1>3. \A n, p : same(MoveIsoNode(s, n, p))
  BY DEF MoveIsoNode, Typed, Tables
<1>4. ASSUME NEW t, same(t) PROVE KeepsShape(s, t)
  BY <1>4, SameLinesKeepShape DEF Composed
<1> HIDE DEF same
<1> QED BY <1>1, <1>2, <1>3, <1>4

\* A step leaves the objects where they are when edges come or go.
ShapeStep ==
  /\ Composed(db)'
  /\ DOMAIN edge' # DOMAIN edge => \A q \in Point : Covers(db, q)' <=> Covers(db, q)

LEMMA CommitKeepsShape ==
  ASSUME NEW t, KeepsShape(db, t), Commit(t)
  PROVE  ShapeStep
<1>1. db'.edge = t.edge /\ db'.line = t.line /\ db'.lineal = t.lineal
  BY DEF Commit, db
<1> DEFINE u == db'
<1> HIDE DEF u
<1>2. Composed(u) /\ \A q \in Point : Covers(u, q) <=> Covers(db, q)
  BY <1>1 DEF u, KeepsShape, Composed, Covers
<1> QED BY <1>2 DEF ShapeStep, u

LEMMA SameEdgesShape ==
  ASSUME DOMAIN edge' = DOMAIN edge, lineal' \subseteq DOMAIN edge
  PROVE  ShapeStep
<1>1. db'.edge = edge' /\ db'.lineal = lineal'
  BY DEF db
<1> DEFINE u == db'
<1> HIDE DEF u
<1>2. Composed(u)
  BY <1>1 DEF u, Composed
<1> QED BY <1>2 DEF ShapeStep, u

LEMMA StepKeepsShape ==
  ASSUME "RemovesUsedEdge" \in Avoids, Sound(db), Flat(db), Composed(db), [NextCall]_vars
  PROVE  ShapeStep
<1> USE TablesOfDb
<1>a. Typed(db)
  BY DEF Sound
<1>b. Sites \subseteq Point /\ Curves \subseteq Line
  BY InputsAreGeometries
<1>1. CASE rtt_AddIsoNode
  <2>1. PICK p \in Sites, face \in Faces \cup {-1} :
          /\ CanAddIsoNode(db, face, p)
          /\ \E n \in NewNodeId(p) : Commit(AddIsoNode(db, face, p, n))
    BY <1>1 DEF rtt_AddIsoNode
  <2>2. PICK n \in NewNodeId(p) : Commit(AddIsoNode(db, face, p, n))
    BY <2>1
  <2>3. p \in Point /\ n \in NodeIds \ DOMAIN db.node
    BY <1>b, NewIdentifiersAreFree
  <2>4. KeepsShape(db, AddIsoNode(db, face, p, n))
    BY <1>a, NodesKeepShape DEF AddIsoNode
  <2> QED BY <2>2, <2>4, CommitKeepsShape
<1>2. CASE rtt_MoveIsoNode
  <2>1. PICK n \in DOMAIN node, p \in Sites :
          CanMoveIsoNode(db, n, p) /\ Commit(MoveIsoNode(db, n, p))
    BY <1>2 DEF rtt_MoveIsoNode
  <2>2. p \in Point
    BY <1>b
  <2>3. KeepsShape(db, MoveIsoNode(db, n, p))
    BY <1>a, NodesKeepShape
  <2> QED BY <2>1, <2>3, CommitKeepsShape
<1>3. CASE rtt_RemoveIsoNode
  <2>1. PICK n \in DOMAIN node : IsIsoNode(db, n) /\ Commit(WithoutNode(db, n))
    BY <1>3 DEF rtt_RemoveIsoNode
  <2>2. KeepsShape(db, WithoutNode(db, n))
    BY <1>a, NodesKeepShape
  <2> QED BY <2>1, <2>2, CommitKeepsShape
<1>4. CASE rtt_AddIsoEdge
  <2>1. PICK n1 \in DOMAIN node, n2 \in DOMAIN node, g \in Curves :
          /\ CanAddIsoEdge(db, n1, n2, g)
          /\ \E e \in NewEdgeId(g, {}) : Commit(AddIsoEdge(db, n1, n2, g, e))
    BY <1>4 DEF rtt_AddIsoEdge
  <2>2. PICK e \in NewEdgeId(g, {}) : Commit(AddIsoEdge(db, n1, n2, g, e))
    BY <2>1
  <2>3. g \in Line /\ e \in EdgeIds \ DOMAIN db.edge
    BY <1>b, NewIdentifiersAreFree
  <2>4. KeepsShape(db, AddIsoEdge(db, n1, n2, g, e))
    BY <1>a, <2>3, AddIsoEdgeKeepsShape
  <2> QED BY <2>2, <2>4, CommitKeepsShape
<1>5. CASE rtt_RemIsoEdge
  <2>1. PICK e \in DOMAIN edge : ~ RemovesUsedEdge(e) /\ Commit(RemIsoEdge(db, e))
    BY <1>5 DEF rtt_RemIsoEdge, Avoided
  <2>2. KeepsShape(db, RemIsoEdge(db, e))
    BY <1>a, <2>1, RemIsoEdgeKeepsShape DEF RemovesUsedEdge
  <2> QED BY <2>1, <2>2, CommitKeepsShape
<1>6. CASE rtt_ModEdgeSplit
  <2>1. PICK e \in DOMAIN edge, p \in Sites :
          /\ CanSplitEdge(db, e, p)
          /\ \E n \in NewNodeId(p), e2 \in NewEdgeId(TailFrom(line[e], p), {}) :
               Commit(ModEdgeSplit(db, e, p, n, e2))
    BY <1>6 DEF rtt_ModEdgeSplit
  <2>2. PICK n \in NewNodeId(p), e2 \in NewEdgeId(TailFrom(line[e], p), {}) :
          Commit(ModEdgeSplit(db, e, p, n, e2))
    BY <2>1
  <2>3. p \in Point /\ n \in NodeIds \ DOMAIN db.node /\ e2 \in EdgeIds \ DOMAIN db.edge
    BY <1>b, NewIdentifiersAreFree
  <2>4. KeepsShape(db, ModEdgeSplit(db, e, p, n, e2))
    BY <2>1, <2>3, ModEdgeSplitKeepsShape
  <2> QED BY <2>2, <2>4, CommitKeepsShape
<1>7. CASE rtt_NewEdgesSplit
  <2>1. PICK e \in DOMAIN edge, p \in Sites :
          /\ CanSplitEdge(db, e, p)
          /\ \E n \in NewNodeId(p), e1 \in NewEdgeId(HeadUpTo(line[e], p), {}) :
               \E e2 \in NewEdgeId(TailFrom(line[e], p), {e1}) :
                 Commit(NewEdgesSplit(db, e, p, n, e1, e2))
    BY <1>7 DEF rtt_NewEdgesSplit
  <2>2. PICK n \in NewNodeId(p), e1 \in NewEdgeId(HeadUpTo(line[e], p), {}) :
          \E e2 \in NewEdgeId(TailFrom(line[e], p), {e1}) :
            Commit(NewEdgesSplit(db, e, p, n, e1, e2))
    BY <2>1
  <2>3. PICK e2 \in NewEdgeId(TailFrom(line[e], p), {e1}) :
          Commit(NewEdgesSplit(db, e, p, n, e1, e2))
    BY <2>2
  <2>4. /\ p \in Point /\ n \in NodeIds \ DOMAIN db.node
        /\ e1 \in EdgeIds \ DOMAIN db.edge /\ e2 \in EdgeIds \ DOMAIN db.edge /\ e1 # e2
    BY <1>b, NewIdentifiersAreFree
  <2>5. KeepsShape(db, NewEdgesSplit(db, e, p, n, e1, e2))
    BY <2>1, <2>4, NewEdgesSplitKeepsShape
  <2> QED BY <2>3, <2>5, CommitKeepsShape
<1>8. CASE rtt_AddEdgeModFace
  <2>1. PICK n1 \in DOMAIN node, n2 \in DOMAIN node, g \in Curves :
          /\ CanAddEdge(db, n1, n2, g)
          /\ \E a1 \in StartEnds(db, n1, n2, g), a2 \in EndEnds(db, n1, n2, g),
                e \in NewEdgeId(g, {}), nf \in NewFaceId({}) :
             \E spare \in NewFaceId({nf}) :
               LET f == NewEdgeFace(db, n1, n2, a1, a2)
               IN  f # -1 /\ Commit(AddEdgeModFace(db, n1, n2, g, f, a1, a2, e, nf, spare))
    BY <1>8 DEF rtt_AddEdgeModFace
  <2>2. PICK a1 \in StartEnds(db, n1, n2, g), a2 \in EndEnds(db, n1, n2, g),
             e \in NewEdgeId(g, {}), nf \in NewFaceId({}) :
          \E spare \in NewFaceId({nf}) :
            LET f == NewEdgeFace(db, n1, n2, a1, a2)
            IN  f # -1 /\ Commit(AddEdgeModFace(db, n1, n2, g, f, a1, a2, e, nf, spare))
    BY <2>1
  <2> DEFINE f == NewEdgeFace(db, n1, n2, a1, a2)
  <2>3. PICK spare \in NewFaceId({nf}) :
          f # -1 /\ Commit(AddEdgeModFace(db, n1, n2, g, f, a1, a2, e, nf, spare))
    BY <2>2
  <2>4. /\ g \in Line /\ e \in EdgeIds \ DOMAIN db.edge /\ nf \in FaceIds /\ spare \in FaceIds
    BY <1>b, NewIdentifiersAreFree
  <2>5. /\ a1.cw \in DartsAt(db, n1) \cup {0} /\ a1.ccw \in DartsAt(db, n1) \cup {0}
        /\ a2.cw \in DartsAt(db, n2) \cup {0}
    BY AdjacentEndsAreEnds DEF StartEnds, EndEnds
  <2>6. f \in Faces
    BY <1>a, <2>3, <2>5, NewEdgeFaceTyped
  <2> HIDE DEF f
  <2>7. KeepsShape(db, AddEdgeModFace(db, n1, n2, g, f, a1, a2, e, nf, spare))
    BY <2>1, <2>4, <2>5, <2>6, AddEdgeKeepsShape
  <2> QED BY <2>3, <2>7, CommitKeepsShape
<1>9. CASE rtt_AddEdgeNewFaces
  <2>1. PICK n1 \in DOMAIN node, n2 \in DOMAIN node, g \in Curves :
          /\ CanAddEdge(db, n1, n2, g)
          /\ \E a1 \in StartEnds(db, n1, n2, g), a2 \in EndEnds(db, n1, n2, g),
                e \in NewEdgeId(g, {}), nf1 \in NewFaceId({}) :
             \E nf \in NewFaceId({nf1}) :
               LET f == NewEdgeFace(db, n1, n2, a1, a2)
               IN  f # -1 /\ Commit(AddEdgeNewFaces(db, n1, n2, g, f, a1, a2, e, nf, nf1))
    BY <1>9 DEF rtt_AddEdgeNewFaces
  <2>2. PICK a1 \in StartEnds(db, n1, n2, g), a2 \in EndEnds(db, n1, n2, g),
             e \in NewEdgeId(g, {}), nf1 \in NewFaceId({}) :
          \E nf \in NewFaceId({nf1}) :
            LET f == NewEdgeFace(db, n1, n2, a1, a2)
            IN  f # -1 /\ Commit(AddEdgeNewFaces(db, n1, n2, g, f, a1, a2, e, nf, nf1))
    BY <2>1
  <2> DEFINE f == NewEdgeFace(db, n1, n2, a1, a2)
  <2>3. PICK nf \in NewFaceId({nf1}) :
          f # -1 /\ Commit(AddEdgeNewFaces(db, n1, n2, g, f, a1, a2, e, nf, nf1))
    BY <2>2
  <2>4. /\ g \in Line /\ e \in EdgeIds \ DOMAIN db.edge /\ nf \in FaceIds /\ nf1 \in FaceIds
    BY <1>b, NewIdentifiersAreFree
  <2>5. /\ a1.cw \in DartsAt(db, n1) \cup {0} /\ a1.ccw \in DartsAt(db, n1) \cup {0}
        /\ a2.cw \in DartsAt(db, n2) \cup {0}
    BY AdjacentEndsAreEnds DEF StartEnds, EndEnds
  <2>6. f \in Faces
    BY <1>a, <2>3, <2>5, NewEdgeFaceTyped
  <2> HIDE DEF f
  <2>7. KeepsShape(db, AddEdgeNewFaces(db, n1, n2, g, f, a1, a2, e, nf, nf1))
    BY <2>1, <2>4, <2>5, <2>6, AddEdgeKeepsShape
  <2> QED BY <2>3, <2>7, CommitKeepsShape
<1>10. CASE rtt_RemEdgeModFace
  <2>1. PICK e \in DOMAIN edge : CanRemEdge(db, e) /\ Commit(RemEdge(db, e, TRUE, Universe))
    BY <1>10 DEF rtt_RemEdgeModFace
  <2>2. KeepsShape(db, RemEdge(db, e, TRUE, Universe))
    BY <2>1, RemEdgeKeepsShape DEF Faces
  <2> QED BY <2>1, <2>2, CommitKeepsShape
<1>11. CASE rtt_RemEdgeNewFace
  <2>1. PICK e \in DOMAIN edge, nf \in NewFaceId({}) :
          CanRemEdge(db, e) /\ Commit(RemEdge(db, e, FALSE, nf))
    BY <1>11 DEF rtt_RemEdgeNewFace
  <2>2. nf \in Faces
    BY NewIdentifiersAreFree DEF Faces
  <2>3. KeepsShape(db, RemEdge(db, e, FALSE, nf))
    BY <2>1, <2>2, RemEdgeKeepsShape
  <2> QED BY <2>1, <2>3, CommitKeepsShape
<1>12. CASE rtt_ModEdgeHeal
  <2>1. PICK e1 \in DOMAIN edge, e2 \in DOMAIN edge :
          /\ CanHealEdges(db, e1, e2)
          /\ \E m \in Meeting(db, e1, e2) : Commit(HealEdges(db, e1, e2, m, e1))
    BY <1>12 DEF rtt_ModEdgeHeal
  <2>2. PICK m \in Meeting(db, e1, e2) : Commit(HealEdges(db, e1, e2, m, e1))
    BY <2>1
  <2>3. e1 \in EdgeIds
    BY DEF Sound, Typed, IsTopology
  <2>4. KeepsShape(db, HealEdges(db, e1, e2, m, e1))
    BY <2>1, <2>3, HealEdgesKeepsShape
  <2> QED BY <2>2, <2>4, CommitKeepsShape
<1>13. CASE rtt_NewEdgeHeal
  <2>1. PICK e1 \in DOMAIN edge, e2 \in DOMAIN edge :
          /\ CanHealEdges(db, e1, e2)
          /\ \E m \in Meeting(db, e1, e2) : \E e \in NewEdgeId(HealedLine(db, m), {}) :
               Commit(HealEdges(db, e1, e2, m, e))
    BY <1>13 DEF rtt_NewEdgeHeal
  <2>2. PICK m \in Meeting(db, e1, e2) : \E e \in NewEdgeId(HealedLine(db, m), {}) :
          Commit(HealEdges(db, e1, e2, m, e))
    BY <2>1
  <2>3. PICK e \in NewEdgeId(HealedLine(db, m), {}) : Commit(HealEdges(db, e1, e2, m, e))
    BY <2>2
  <2>4. e \in EdgeIds \ DOMAIN db.edge
    BY NewIdentifiersAreFree
  <2>5. KeepsShape(db, HealEdges(db, e1, e2, m, e))
    BY <2>1, <2>4, HealEdgesKeepsShape
  <2> QED BY <2>3, <2>5, CommitKeepsShape
<1>14. CASE rtt_ChangeEdgeGeom
  <2>1. PICK e \in DOMAIN edge, g \in Curves : Commit(ChangeEdgeGeom(db, e, g))
    BY <1>14 DEF rtt_ChangeEdgeGeom
  <2>2. lineal' = db.lineal /\ DOMAIN edge' = DOMAIN db.edge
    BY <1>a, <2>1 DEF Commit, ChangeEdgeGeom, Typed, Tables
  <2> QED BY <2>2, SameEdgesShape DEF Composed
<1>15. CASE CreateArealTopoGeom
  BY <1>15, SameEdgesShape DEF CreateArealTopoGeom, Composed
<1>16. CASE CreateLinealTopoGeom
  BY <1>16, SameEdgesShape DEF CreateLinealTopoGeom
<1>17. CASE UNCHANGED vars
  BY <1>17, SameEdgesShape DEF vars, Composed
<1> QED BY <1>1, <1>2, <1>3, <1>4, <1>5, <1>6, <1>7, <1>8, <1>9, <1>10, <1>11, <1>12,
           <1>13, <1>14, <1>15, <1>16, <1>17 DEF NextCall

LEMMA AlwaysComposed ==
  ASSUME "RemovesUsedEdge" \in Avoids
  PROVE  Spec => []Composed(db) /\ [][ShapeStep]_vars
<1>1. Init => Sound(db) /\ Flat(db) /\ Composed(db)
  <2>1. Init => Composed(db)
    BY DEF Init, Composed, db
  <2> QED BY <2>1, InitSound, InitFlat
<1>2. Sound(db) /\ Flat(db) /\ Composed(db) /\ [NextCall]_vars
        => (Sound(db) /\ Flat(db) /\ Composed(db))' /\ ShapeStep
  BY StepSound, StepFlat, StepKeepsShape DEF ShapeStep
<1> QED BY <1>1, <1>2, PTL DEF Spec

LEMMA LinealShapeIsCovered == LinealShape =
  {q \in {InteriorPoint(t) : t \in UNION {Segments(g) : g \in Curves}} : Covers(db, q)}
BY TablesOfDb DEF LinealShape, Covers

LEMMA ProbesArePoints ==
  \A t \in UNION {Segments(g) : g \in Curves} : InteriorPoint(t) \in Point
<1> SUFFICES ASSUME NEW g \in Curves, NEW t \in Segments(g) PROVE InteriorPoint(t) \in Point
  OBVIOUS
<1>1. PICK i \in 1 .. Len(g) - 1 : t = <<g[i], g[i + 1]>>
  BY DEF Segments
<1>2. g[i] \in Point /\ g[i + 1] \in Point
  BY InputsAreGeometries, LineVertices
<1>3. Len(t) = 2 /\ t[1] = g[i] /\ t[2] = g[i + 1]
  BY <1>1
<1>4. PICK ax, ay \in Int : g[i] = <<ax, ay>> /\ g[i][1] = ax /\ g[i][2] = ay
  BY <1>2, Coordinates
<1>5. PICK bx, by \in Int : g[i + 1] = <<bx, by>> /\ g[i + 1][1] = bx /\ g[i + 1][2] = by
  BY <1>2, Coordinates
<1>6. InteriorPoint(t) = <<(ax + bx) \div 2, (ay + by) \div 2>>
  BY <1>3, <1>4, <1>5 DEF InteriorPoint
<1>7. (ax + bx) \div 2 \in Int /\ (ay + by) \div 2 \in Int
  OBVIOUS
<1> QED BY <1>6, <1>7 DEF Point

\* Splitting, healing, adding and removing edges never moves a lineal object: the
\* edges it is composed of are replaced by edges that cover the same points, or
\* the call is refused.  It takes clients that leave edges in use to RemEdge*.
THEOREM LinealShapeIsKept ==
  ASSUME "RemovesUsedEdge" \in Avoids
  PROVE  Spec => LinealShapeKept
<1>1. ShapeStep /\ DOMAIN edge' # DOMAIN edge => LinealShape' = LinealShape
  <2> DEFINE probes == {InteriorPoint(t) : t \in UNION {Segments(g) : g \in Curves}}
  <2>1. LinealShape = {q \in probes : Covers(db, q)}
    BY LinealShapeIsCovered
  <2>2. LinealShape' = {q \in probes : Covers(db, q)'}
    <3>1. db'.line = line' /\ db'.lineal = lineal'
      BY DEF db
    <3> QED BY <3>1 DEF LinealShape, Covers
  <2>3. probes \subseteq Point
    BY ProbesArePoints
  <2> QED BY <2>1, <2>2, <2>3 DEF ShapeStep
<1>2. [ShapeStep]_vars => [lineal # {} /\ DOMAIN edge' # DOMAIN edge => LinealShape' = LinealShape]_vars
  BY <1>1
<1> QED BY <1>2, AlwaysComposed, PTL DEF LinealShapeKept

-----------------------------------------------------------------------------
(* Tables are functions and stay so, which equality of tables needs.       *)

IsTable(f) == f = [x \in DOMAIN f |-> f[x]]
Tabular(s) ==
  /\ DOMAIN s = Tables
  /\ IsTable(s.node) /\ IsTable(s.point) /\ IsTable(s.edge) /\ IsTable(s.line)

LEMMA TablesChange ==
  /\ \A f, id, row : IsTable(WithRow(f, id, row))
  /\ \A f, ids : IsTable(WithoutRows(f, ids))
  /\ \A f, id, row : IsTable(f) => IsTable([f EXCEPT ![id] = row])
BY DEF IsTable, WithRow, WithoutRows

LEMMA NodesTabulate ==
  ASSUME NEW s, Tabular(s)
  PROVE  /\ \A n, f, p : Tabular(WithNode(s, n, f, p))
         /\ \A n : Tabular(WithoutNode(s, n))
         /\ \A n, p : Tabular(MoveIsoNode(s, n, p))
         /\ \A e, g : Tabular(ChangeEdgeGeom(s, e, g))
<1>1. ASSUME NEW n, NEW f, NEW p PROVE Tabular(WithNode(s, n, f, p))
  <2> DEFINE t == WithNode(s, n, f, p)
  <2>1. /\ t.node = WithRow(s.node, n, f) /\ t.point = WithRow(s.point, n, p)
        /\ t.edge = s.edge /\ t.line = s.line /\ DOMAIN t = Tables
    BY DEF WithNode, Tabular, Tables
  <2> QED BY <2>1, TablesChange DEF Tabular
<1>2. ASSUME NEW n PROVE Tabular(WithoutNode(s, n))
  <2> DEFINE t == WithoutNode(s, n)
  <2>1. /\ t.node = WithoutRows(s.node, {n}) /\ t.point = WithoutRows(s.point, {n})
        /\ t.edge = s.edge /\ t.line = s.line /\ DOMAIN t = Tables
    BY DEF WithoutNode, Tabular, Tables
  <2> QED BY <2>1, TablesChange DEF Tabular
<1>3. ASSUME NEW n, NEW p PROVE Tabular(MoveIsoNode(s, n, p))
  <2> DEFINE t == MoveIsoNode(s, n, p)
  <2>1. /\ t.node = s.node /\ t.point = [s.point EXCEPT ![n] = p]
        /\ t.edge = s.edge /\ t.line = s.line /\ DOMAIN t = Tables
    BY DEF MoveIsoNode, Tabular, Tables
  <2> QED BY <2>1, TablesChange DEF Tabular
<1>4. ASSUME NEW e, NEW g PROVE Tabular(ChangeEdgeGeom(s, e, g))
  <2> DEFINE t == ChangeEdgeGeom(s, e, g)
  <2>1. /\ t.node = s.node /\ t.point = s.point
        /\ t.edge = s.edge /\ t.line = [s.line EXCEPT ![e] = g] /\ DOMAIN t = Tables
    BY DEF ChangeEdgeGeom, Tabular, Tables
  <2> QED BY <2>1, TablesChange DEF Tabular
<1> QED BY <1>1, <1>2, <1>3, <1>4

\* A table written anew stays a function; faces and objects do not matter.
LEMMA EdgesTabulate ==
  ASSUME NEW s, Tabular(s)
  PROVE  /\ \A e, row, g : Tabular(WithEdge(s, e, row, g))
         /\ \A es : Tabular(WithoutEdges(s, es))
         /\ \A ns, f : Tabular(WithContainingFace(s, ns, f))
         /\ \A f : IsTable(f) => Tabular([s EXCEPT !.edge = f])
         /\ \A m : Tabular([s EXCEPT !.mbr = m])
         /\ \A a : Tabular([s EXCEPT !.areal = a])
<1>1. ASSUME NEW e, NEW row, NEW g PROVE Tabular(WithEdge(s, e, row, g))
  <2> DEFINE t == WithEdge(s, e, row, g)
  <2>1. /\ t.edge = WithRow(s.edge, e, row) /\ t.line = WithRow(s.line, e, g)
        /\ t.node = s.node /\ t.point = s.point /\ DOMAIN t = Tables
    BY DEF WithEdge, Tabular, Tables
  <2> QED BY <2>1, TablesChange DEF Tabular
<1>2. ASSUME NEW es PROVE Tabular(WithoutEdges(s, es))
  <2> DEFINE t == WithoutEdges(s, es)
  <2>1. /\ t.edge = WithoutRows(s.edge, es) /\ t.line = WithoutRows(s.line, es)
        /\ t.node = s.node /\ t.point = s.point /\ DOMAIN t = Tables
    BY DEF WithoutEdges, Tabular, Tables
  <2> QED BY <2>1, TablesChange DEF Tabular
<1>3. ASSUME NEW ns, NEW f PROVE Tabular(WithContainingFace(s, ns, f))
  <2> DEFINE t == WithContainingFace(s, ns, f)
  <2>1. /\ t.node = [n \in DOMAIN s.node |-> IF n \in ns THEN f ELSE s.node[n]]
        /\ t.edge = s.edge /\ t.line = s.line /\ t.point = s.point /\ DOMAIN t = Tables
    BY DEF WithContainingFace, Tabular, Tables
  <2>2. IsTable(t.node)
    BY <2>1 DEF IsTable
  <2> QED BY <2>1, <2>2 DEF Tabular
<1>4. ASSUME NEW f, IsTable(f) PROVE Tabular([s EXCEPT !.edge = f])
  <2> DEFINE t == [s EXCEPT !.edge = f]
  <2>1. /\ t.edge = f /\ t.line = s.line /\ t.node = s.node /\ t.point = s.point /\ DOMAIN t = Tables
    BY DEF Tabular, Tables
  <2> QED BY <1>4, <2>1 DEF Tabular
<1>5. ASSUME NEW m PROVE Tabular([s EXCEPT !.mbr = m]) /\ Tabular([s EXCEPT !.areal = m])
  BY DEF Tabular, Tables
<1> QED BY <1>1, <1>2, <1>3, <1>4, <1>5

LEMMA IsoEdgesTabulate ==
  ASSUME NEW s, Tabular(s)
  PROVE  /\ \A n1, n2, g, e : Tabular(AddIsoEdge(s, n1, n2, g, e))
         /\ \A e : Tabular(RemIsoEdge(s, e))
         /\ \A n1, n2, g, f, a1, a2, e : Tabular(LinkEdge(s, n1, n2, g, f, a1, a2, e))
<1>1. \A t : Tabular(t) => \A ns, f : Tabular(WithContainingFace(t, ns, f))
  BY EdgesTabulate
<1>2. ASSUME NEW n1, NEW n2, NEW g, NEW e PROVE Tabular(AddIsoEdge(s, n1, n2, g, e))
  BY <1>1, EdgesTabulate DEF AddIsoEdge
<1>3. ASSUME NEW e PROVE Tabular(RemIsoEdge(s, e))
  BY <1>1, EdgesTabulate DEF RemIsoEdge
<1>4. ASSUME NEW n1, NEW n2, NEW g, NEW f, NEW a1, NEW a2, NEW e
      PROVE  Tabular(LinkEdge(s, n1, n2, g, f, a1, a2, e))
  <2> DEFINE relinked(x) ==
               [s.edge[x] EXCEPT !.next_left  = Relinked(s, n1, n2, a1, a2, e, x, @),
                                 !.next_right = Relinked(s, n1, n2, a1, a2, e, -x, @)]
             rows == [x \in DOMAIN s.edge |-> relinked(x)]
             t == [s EXCEPT !.edge = rows]
             row == NewEdgeRow(s, n1, n2, f, a1, a2, e)
             ns == {n \in {n1, n2} : DartsAt(s, n) = {}}
  <2> HIDE DEF relinked
  <2>1. IsTable(rows)
    BY DEF IsTable
  <2>2. LinkEdge(s, n1, n2, g, f, a1, a2, e) = WithContainingFace(WithEdge(t, e, row, g), ns, NotIsolated)
    BY DEF LinkEdge, relinked
  <2> HIDE DEF rows, row, ns
  <2>3. Tabular(t)
    BY <2>1, EdgesTabulate
  <2> HIDE DEF t
  <2>4. Tabular(WithEdge(t, e, row, g))
    BY <2>3, EdgesTabulate
  <2> QED BY <1>1, <2>2, <2>4
<1> QED BY <1>2, <1>3, <1>4

LEMMA FaceSplitTabulates ==
  ASSUME NEW s, Tabular(s), NEW d, NEW face, NEW mbrOnly, NEW nf
  PROVE  Tabular(AddFaceSplit(s, d, face, mbrOnly, nf).topo)
<1> DEFINE ring    == Ring(s, d)
           isccw   == RingSweep(s, ring) >= 0
           outside == face # Universe /\ ~ isccw
           box     == SplitBox(s, ring, outside, face)
           edges   == [e \in DOMAIN s.edge |-> SplitEdgeRow(s, e, ring, outside, face, nf)]
           nodes   == [n \in DOMAIN s.node |-> SplitNodeFace(s, n, ring, outside, face, nf)]
           narrowed == [s EXCEPT !.mbr[face] = box]
           divided  == [s EXCEPT !.mbr = WithRow(@, nf, box), !.edge = edges, !.node = nodes]
<1>1. AddFaceSplit(s, d, face, mbrOnly, nf) \in
        {[face |-> 0, topo |-> s], [face |-> -1, topo |-> s],
         [face |-> -1, topo |-> narrowed], [face |-> nf, topo |-> divided]}
  BY DEF AddFaceSplit
<1>2. IsTable(edges) /\ IsTable(nodes)
  BY DEF IsTable
<1> HIDE DEF box, outside, ring, edges, nodes
<1>3. Tabular(narrowed)
  BY DEF Tabular, Tables
<1>4. Tabular(divided)
  <2>1. /\ divided.edge = edges /\ divided.node = nodes
        /\ divided.line = s.line /\ divided.point = s.point /\ DOMAIN divided = Tables
    BY DEF Tabular, Tables
  <2> HIDE DEF divided
  <2> QED BY <1>2, <2>1 DEF Tabular
<1> HIDE DEF narrowed, divided
<1> QED BY <1>1, <1>3, <1>4

LEMMA FaceHealTabulates ==
  ASSUME NEW s, Tabular(s), NEW fl, NEW fr, NEW flood
  PROVE  Tabular(HealFaces(s, fl, fr, flood))
<1> DEFINE box   == HealedMbr(s, fl, fr)
           grown == IF flood = Universe THEN s
                    ELSE [s EXCEPT !.mbr = WithRow(@, flood, box)]
           gone  == {fl, fr} \ {flood}
           clean == ReplaceFace(grown, gone, flood)
           moved == TopoGeomFaceHeal(clean, fr, fl, flood)
           final == [moved EXCEPT !.mbr = WithoutRows(@, gone)]
<1>1. HealFaces(s, fl, fr, flood) = IF fl = fr THEN s ELSE final
  BY DEF HealFaces
<1> HIDE DEF box, gone
<1>2. Tabular(grown)
  BY EdgesTabulate
<1> HIDE DEF grown
<1>3. Tabular(clean)
  <2> DEFINE sub(f) == IF f \in gone THEN flood ELSE f
             edges == [x \in DOMAIN grown.edge |->
                         [grown.edge[x] EXCEPT !.face_left = sub(@), !.face_right = sub(@)]]
             nodes == [n \in DOMAIN grown.node |-> sub(grown.node[n])]
  <2>1. IsTable(edges) /\ IsTable(nodes)
    BY DEF IsTable
  <2>2. clean = [grown EXCEPT !.edge = edges, !.node = nodes]
    BY DEF ReplaceFace
  <2> HIDE DEF edges, nodes, clean
  <2>3. /\ clean.edge = edges /\ clean.node = nodes
        /\ clean.line = grown.line /\ clean.point = grown.point /\ DOMAIN clean = Tables
    BY <1>2, <2>2 DEF Tabular, Tables
  <2> QED BY <1>2, <2>1, <2>3 DEF Tabular
<1> HIDE DEF clean
<1>4. Tabular(moved)
  BY <1>3, EdgesTabulate DEF TopoGeomFaceHeal
<1> HIDE DEF moved
<1>5. Tabular(final)
  BY <1>4, EdgesTabulate
<1> QED BY <1>1, <1>5

LEMMA AddEdgeTabulates ==
  ASSUME NEW s, Tabular(s), NEW n1, NEW n2, NEW g, NEW f, NEW a1, NEW a2, NEW e, NEW nf, NEW other
  PROVE  /\ Tabular(AddEdgeModFace(s, n1, n2, g, f, a1, a2, e, nf, other))
         /\ Tabular(AddEdgeNewFaces(s, n1, n2, g, f, a1, a2, e, nf, other))
<1> DEFINE t == LinkEdge(s, n1, n2, g, f, a1, a2, e)
<1>1. Tabular(t)
  BY IsoEdgesTabulate
<1> HIDE DEF t
<1>2. \A u, new1, new2 : Tabular(u) => Tabular(TopoGeomFaceSplit(u, f, new1, new2))
  BY EdgesTabulate DEF TopoGeomFaceSplit
<1>3. Tabular(SplitModFace(t, e, f, nf, other))
  <2> DEFINE onLeft == AddFaceSplit(t, e, f, FALSE, nf)
             again  == AddFaceSplit(onLeft.topo, -e, f, TRUE, other)
             split  == RightSide(t, onLeft, e, f, nf, other)
  <2>1. Tabular(onLeft.topo) /\ Tabular(AddFaceSplit(t, -e, f, FALSE, nf).topo)
    BY <1>1, FaceSplitTabulates
  <2>2. Tabular(again.topo)
    BY <2>1, FaceSplitTabulates
  <2>3. onLeft = [face |-> onLeft.face, topo |-> onLeft.topo]
    BY DEF AddFaceSplit
  <2> HIDE DEF onLeft, again
  <2>4. Tabular(split.topo)
    <3>1. CASE onLeft.face = 0
      BY <2>1, <3>1 DEF RightSide
    <3>2. CASE onLeft.face # 0 /\ onLeft.face > 0
      <4>1. split = [onLeft EXCEPT !.topo = again.topo]
        BY <3>2 DEF RightSide, again
      <4> QED BY <2>2, <2>3, <4>1
    <3>3. CASE onLeft.face # 0 /\ ~ (onLeft.face > 0)
      BY <2>1, <3>3 DEF RightSide
    <3> QED BY <3>1, <3>2, <3>3
  <2>5. SplitModFace(t, e, f, nf, other) = KeepSplit(t, split, f)
    BY DEF SplitModFace, onLeft
  <2> HIDE DEF split
  <2> QED BY <1>1, <1>2, <2>4, <2>5 DEF KeepSplit
<1>4. Tabular(SplitNewFaces(t, e, f, nf, other))
  <2> DEFINE onRight == AddFaceSplit(t, -e, f, FALSE, other)
             onLeft  == AddFaceSplit(onRight.topo, e, f, FALSE, nf)
             parts   == TopoGeomFaceSplit(onLeft.topo, f, onLeft.face, onRight.face)
  <2>1. Tabular(onRight.topo)
    BY <1>1, FaceSplitTabulates
  <2>2. Tabular(onLeft.topo)
    BY <2>1, FaceSplitTabulates
  <2>3. SplitNewFaces(t, e, f, nf, other) =
          IF onRight.face = 0 THEN t
          ELSE IF f = Universe THEN onLeft.topo
          ELSE [parts EXCEPT !.mbr = WithoutRows(@, {f})]
    BY DEF SplitNewFaces
  <2> HIDE DEF onRight, onLeft
  <2>4. Tabular(parts)
    BY <1>2, <2>2
  <2> HIDE DEF parts
  <2>5. Tabular([parts EXCEPT !.mbr = WithoutRows(@, {f})])
    BY <2>4, EdgesTabulate
  <2> QED BY <1>1, <2>2, <2>3, <2>5
<1> QED BY <1>1, <1>3, <1>4 DEF AddEdgeModFace, AddEdgeNewFaces, t

LEMMA RemEdgeTabulates ==
  ASSUME NEW s, Tabular(s), NEW e, NEW modFace, NEW nf
  PROVE  Tabular(RemEdge(s, e, modFace, nf))
<1> DEFINE row    == s.edge[e]
           flood  == FloodFace(s, e, modFace, nf)
           cut    == UnlinkEdge(s, e)
           healed == HealFaces(cut, row.face_left, row.face_right, flood)
<1>1. Tabular(cut)
  <2>1. cut = [s EXCEPT !.edge = cut.edge] /\ IsTable(cut.edge)
    BY DEF UnlinkEdge, IsTable, Tabular, Tables
  <2> QED BY <2>1, EdgesTabulate
<1> HIDE DEF cut, flood, row
<1>2. Tabular(healed)
  BY <1>1, FaceHealTabulates
<1>3. RemEdge(s, e, modFace, nf) = WithContainingFace(WithoutEdges(healed, {e}), LonelyEnds(s, e), flood)
  BY DEF RemEdge, cut, flood, row
<1> HIDE DEF healed
<1>4. Tabular(WithoutEdges(healed, {e}))
  BY <1>2, EdgesTabulate
<1> QED BY <1>3, <1>4, EdgesTabulate

LEMMA SplitsTabulate ==
  ASSUME NEW s, Tabular(s)
  PROVE  /\ \A e, p, n, e2 : Tabular(ModEdgeSplit(s, e, p, n, e2))
         /\ \A e, p, n, e1, e2 : Tabular(NewEdgesSplit(s, e, p, n, e1, e2))
<1>1. ASSUME NEW e, NEW p, NEW n, NEW e2 PROVE Tabular(ModEdgeSplit(s, e, p, n, e2))
  <2> DEFINE t == ModEdgeSplit(s, e, p, n, e2)
  <2>1. IsTable(t.edge)
    <3> DEFINE old  == s.edge[e]
               tail == [old EXCEPT !.start_node = n,
                                   !.next_left  = IF @ = -e THEN -e2 ELSE @,
                                   !.next_right = -e]
               head == [old EXCEPT !.next_left = e2, !.end_node = n]
               rows == WithRow([s.edge EXCEPT ![e] = head], e2, tail)
               relinked(x) ==
                 [rows[x] EXCEPT
                    !.next_right = IF @ = -e /\ rows[x].start_node = old.end_node THEN -e2 ELSE @,
                    !.next_left  = IF @ = -e /\ rows[x].end_node = old.end_node THEN -e2 ELSE @]
    <3>1. t.edge = [x \in DOMAIN rows |-> IF x = e2 THEN tail ELSE relinked(x)]
      BY DEF ModEdgeSplit, WithNode, Tabular, Tables
    <3> HIDE DEF t, rows, tail, relinked
    <3> QED BY <3>1 DEF IsTable
  <2>2. /\ t.node = WithRow(s.node, n, NotIsolated) /\ t.point = WithRow(s.point, n, p)
        /\ t.line = WithRow([s.line EXCEPT ![e] = HeadUpTo(s.line[e], p)], e2, TailFrom(s.line[e], p))
        /\ DOMAIN t = Tables
    BY DEF ModEdgeSplit, WithNode, Tabular, Tables
  <2> HIDE DEF t
  <2>3. Tabular(t)
    BY <2>1, <2>2, TablesChange DEF Tabular
  <2> QED BY <2>3 DEF t
<1>2. ASSUME NEW e, NEW p, NEW n, NEW e1, NEW e2 PROVE Tabular(NewEdgesSplit(s, e, p, n, e1, e2))
  <2> DEFINE t == NewEdgesSplit(s, e, p, n, e1, e2)
  <2>1. IsTable(t.edge)
    <3> DEFINE old  == s.edge[e]
               head == [old EXCEPT !.end_node = n,
                                   !.next_left = e2,
                                   !.next_right = IF @ = e THEN e1 ELSE IF @ = -e THEN -e2 ELSE @]
               tail == [old EXCEPT !.start_node = n,
                                   !.next_right = -e1,
                                   !.next_left = IF @ = -e THEN -e2 ELSE IF @ = e THEN e1 ELSE @]
               rows == WithRow(WithRow(WithoutRows(s.edge, {e}), e1, head), e2, tail)
               relinked(x) ==
                 [rows[x] EXCEPT
                    !.next_right = IF @ = e /\ rows[x].start_node = old.start_node THEN e2
                                   ELSE IF @ = -e /\ rows[x].start_node = old.end_node THEN -e1
                                   ELSE @,
                    !.next_left  = IF @ = e /\ rows[x].end_node = old.start_node THEN e1
                                   ELSE IF @ = -e /\ rows[x].end_node = old.end_node THEN -e2
                                   ELSE @]
    <3>1. t.edge = [x \in DOMAIN rows |-> relinked(x)]
      BY DEF NewEdgesSplit, WithNode, Tabular, Tables
    <3> HIDE DEF t, rows, relinked
    <3> QED BY <3>1 DEF IsTable
  <2>2. /\ t.node = WithRow(s.node, n, NotIsolated) /\ t.point = WithRow(s.point, n, p)
        /\ t.line = WithRow(WithRow(WithoutRows(s.line, {e}), e1, HeadUpTo(s.line[e], p)),
                            e2, TailFrom(s.line[e], p))
        /\ DOMAIN t = Tables
    BY DEF NewEdgesSplit, WithNode, Tabular, Tables
  <2> HIDE DEF t
  <2>3. Tabular(t)
    BY <2>1, <2>2, TablesChange DEF Tabular
  <2> QED BY <2>3 DEF t
<1> QED BY <1>1, <1>2

LEMMA HealTabulates ==
  ASSUME NEW s, Tabular(s), NEW e1, NEW e2, NEW m, NEW into
  PROVE  Tabular(HealEdges(s, e1, e2, m, into))
<1> DEFINE back   == IF m.arrive > 0 THEN -into ELSE into
           rename(d) == IF d = -m.leave THEN back ELSE IF d = m.arrive THEN -back ELSE d
           rows   == WithRow(s.edge, into, HealedRow(s, e1, m))
           linked == [x \in DOMAIN rows |->
                        [rows[x] EXCEPT !.next_left = rename(@), !.next_right = rename(@)]]
           gone   == {e1, e2} \ {into}
           used   == IF e2 \in s.lineal THEN (s.lineal \ gone) \cup {into} ELSE s.lineal
           lines  == WithRow(s.line, into, HealedLine(s, m))
           t      == [s EXCEPT !.edge = linked, !.line = lines, !.lineal = used]
<1>1. HealEdges(s, e1, e2, m, into) = WithoutNode(WithoutEdges(t, gone), Target(s, m.arrive))
  BY DEF HealEdges
<1> HIDE DEF rename, rows
<1>2. IsTable(linked) /\ IsTable(lines)
  BY TablesChange DEF IsTable
<1> HIDE DEF linked, lines, gone, used
<1>3. /\ t.edge = linked /\ t.line = lines /\ t.node = s.node /\ t.point = s.point /\ DOMAIN t = Tables
  BY DEF Tabular, Tables
<1> HIDE DEF t
<1>4. Tabular(t)
  BY <1>2, <1>3 DEF Tabular
<1>5. Tabular(WithoutEdges(t, gone))
  BY <1>4, EdgesTabulate
<1> QED BY <1>1, <1>5, NodesTabulate

LEMMA CommitTabulates ==
  ASSUME NEW t, Tabular(t), Commit(t)
  PROVE  Tabular(db)'
<1> DEFINE u == db'
<1>1. /\ u.node = t.node /\ u.point = t.point /\ u.edge = t.edge /\ u.line = t.line
      /\ DOMAIN u = Tables
  BY DEF Commit, db, Tables
<1> HIDE DEF u
<1>2. Tabular(u)
  BY <1>1 DEF Tabular
<1> QED BY <1>2 DEF u

LEMMA InitTabular == Init => Tabular(db)
<1>1. Init => IsTable(node) /\ IsTable(point) /\ IsTable(edge) /\ IsTable(line)
  BY DEF Init, EmptyTable, IsTable
<1> QED BY <1>1, TablesOfDb DEF Tabular

LEMMA StepTabulates == Tabular(db) /\ [NextCall]_vars => Tabular(db)'
<1> SUFFICES ASSUME Tabular(db), [NextCall]_vars PROVE Tabular(db)'
  OBVIOUS
<1>1. CASE rtt_AddIsoNode
  <2>1. PICK p, face, n : Commit(AddIsoNode(db, face, p, n))
    BY <1>1 DEF rtt_AddIsoNode
  <2>2. Tabular(AddIsoNode(db, face, p, n))
    BY NodesTabulate DEF AddIsoNode
  <2> QED BY <2>1, <2>2, CommitTabulates
<1>2. CASE rtt_MoveIsoNode
  <2>1. PICK n, p : Commit(MoveIsoNode(db, n, p))
    BY <1>2 DEF rtt_MoveIsoNode
  <2>2. Tabular(MoveIsoNode(db, n, p))
    BY NodesTabulate
  <2> QED BY <2>1, <2>2, CommitTabulates
<1>3. CASE rtt_RemoveIsoNode
  <2>1. PICK n : Commit(WithoutNode(db, n))
    BY <1>3 DEF rtt_RemoveIsoNode
  <2>2. Tabular(WithoutNode(db, n))
    BY NodesTabulate
  <2> QED BY <2>1, <2>2, CommitTabulates
<1>4. CASE rtt_AddIsoEdge
  <2>1. PICK n1, n2, g, e : Commit(AddIsoEdge(db, n1, n2, g, e))
    BY <1>4 DEF rtt_AddIsoEdge
  <2>2. Tabular(AddIsoEdge(db, n1, n2, g, e))
    BY IsoEdgesTabulate
  <2> QED BY <2>1, <2>2, CommitTabulates
<1>5. CASE rtt_RemIsoEdge
  <2>1. PICK e : Commit(RemIsoEdge(db, e))
    BY <1>5 DEF rtt_RemIsoEdge
  <2>2. Tabular(RemIsoEdge(db, e))
    BY IsoEdgesTabulate
  <2> QED BY <2>1, <2>2, CommitTabulates
<1>6. CASE rtt_ModEdgeSplit
  <2>1. PICK e, p, n, e2 : Commit(ModEdgeSplit(db, e, p, n, e2))
    BY <1>6 DEF rtt_ModEdgeSplit
  <2>2. Tabular(ModEdgeSplit(db, e, p, n, e2))
    BY SplitsTabulate
  <2> QED BY <2>1, <2>2, CommitTabulates
<1>7. CASE rtt_NewEdgesSplit
  <2>1. PICK e, p, n, e1, e2 : Commit(NewEdgesSplit(db, e, p, n, e1, e2))
    BY <1>7 DEF rtt_NewEdgesSplit
  <2>2. Tabular(NewEdgesSplit(db, e, p, n, e1, e2))
    BY SplitsTabulate
  <2> QED BY <2>1, <2>2, CommitTabulates
<1>8. CASE rtt_AddEdgeModFace
  <2>1. PICK n1, n2, g, f, a1, a2, e, nf, spare :
          Commit(AddEdgeModFace(db, n1, n2, g, f, a1, a2, e, nf, spare))
    BY <1>8 DEF rtt_AddEdgeModFace
  <2>2. Tabular(AddEdgeModFace(db, n1, n2, g, f, a1, a2, e, nf, spare))
    BY AddEdgeTabulates
  <2> QED BY <2>1, <2>2, CommitTabulates
<1>9. CASE rtt_AddEdgeNewFaces
  <2>1. PICK n1, n2, g, f, a1, a2, e, nf, nf1 :
          Commit(AddEdgeNewFaces(db, n1, n2, g, f, a1, a2, e, nf, nf1))
    BY <1>9 DEF rtt_AddEdgeNewFaces
  <2>2. Tabular(AddEdgeNewFaces(db, n1, n2, g, f, a1, a2, e, nf, nf1))
    BY AddEdgeTabulates
  <2> QED BY <2>1, <2>2, CommitTabulates
<1>10. CASE rtt_RemEdgeModFace \/ rtt_RemEdgeNewFace
  <2>1. PICK e, modFace, nf : Commit(RemEdge(db, e, modFace, nf))
    BY <1>10 DEF rtt_RemEdgeModFace, rtt_RemEdgeNewFace
  <2>2. Tabular(RemEdge(db, e, modFace, nf))
    BY RemEdgeTabulates
  <2> QED BY <2>1, <2>2, CommitTabulates
<1>11. CASE rtt_ModEdgeHeal \/ rtt_NewEdgeHeal
  <2>1. PICK e1, e2, m, e : Commit(HealEdges(db, e1, e2, m, e))
    BY <1>11 DEF rtt_ModEdgeHeal, rtt_NewEdgeHeal
  <2>2. Tabular(HealEdges(db, e1, e2, m, e))
    BY HealTabulates
  <2> QED BY <2>1, <2>2, CommitTabulates
<1>12. CASE rtt_ChangeEdgeGeom
  <2>1. PICK e, g : Commit(ChangeEdgeGeom(db, e, g))
    BY <1>12 DEF rtt_ChangeEdgeGeom
  <2>2. Tabular(ChangeEdgeGeom(db, e, g))
    BY NodesTabulate
  <2> QED BY <2>1, <2>2, CommitTabulates
<1>13. CASE CreateArealTopoGeom \/ CreateLinealTopoGeom \/ UNCHANGED vars
  <2> DEFINE u == db'
  <2>1. /\ u.node = db.node /\ u.point = db.point /\ u.edge = db.edge /\ u.line = db.line
        /\ DOMAIN u = Tables
    BY <1>13 DEF CreateArealTopoGeom, CreateLinealTopoGeom, vars, db, Tables
  <2> HIDE DEF u
  <2>2. Tabular(u)
    BY <2>1 DEF Tabular
  <2> QED BY <2>2 DEF u
<1> QED BY <1>1, <1>2, <1>3, <1>4, <1>5, <1>6, <1>7, <1>8, <1>9, <1>10, <1>11, <1>12,
           <1>13 DEF NextCall

-----------------------------------------------------------------------------
(* Healing undoes splitting.                                               *)

LEMMA JoinedPieces ==
  ASSUME NEW g \in Line, NEW p \in Point, InInterior(p, g)
  PROVE  Vertices(Joined(HeadUpTo(g, p), TailFrom(g, p))) = Vertices(g) \cup {p}
<1> DEFINE i == CutIndex(g, p)
           h == HeadUpTo(g, p)
           t == TailFrom(g, p)
           o == IF g[i + 1] = p THEN i ELSE i - 1
           j == Joined(h, t)
<1>1. /\ h \in Line /\ Len(h) = i + 1 /\ EndPoint(h) = p
      /\ \A k \in 1 .. i : h[k] = g[k]
  BY HeadOfLine
<1>2. /\ t \in Line /\ Len(t) = Len(g) - o /\ StartPoint(t) = p
      /\ \A k \in 2 .. Len(t) : t[k] = g[k + o]
  BY TailOfLine
<1>3. i \in 1 .. Len(g) - 1 /\ Len(g) \in Nat
  BY CutIndexOfPoint, LineVertices
<1>4. o = i \/ o = i - 1
  OBVIOUS
<1>5. g[i + 1] = p \/ o = i - 1
  OBVIOUS
<1> HIDE DEF i, o, h, t
<1>6. /\ Len(j) = Len(h) + Len(t) - 1
      /\ \A k \in 1 .. Len(h) : j[k] = h[k]
      /\ \A k \in 1 .. Len(t) : j[Len(h) + k - 1] = t[k]
  BY <1>1, <1>2, JoinedLine
<1> HIDE DEF j
<1>7. h[i + 1] = p /\ t[1] = p
  BY <1>1, <1>2 DEF EndPoint, StartPoint
<1>8. ASSUME NEW k \in 1 .. Len(j) PROVE j[k] \in Vertices(g) \cup {p}
  <2>1. CASE k \in 1 .. i
    <3>1. j[k] = g[k] /\ k \in 1 .. Len(g)
      BY <1>1, <1>3, <1>6, <2>1
    <3> QED BY <3>1 DEF Vertices
  <2>2. CASE k = i + 1
    BY <1>1, <1>3, <1>6, <1>7, <2>2
  <2>3. CASE k > i + 1
    <3> DEFINE l == k - i
    <3>1. l \in 2 .. Len(t) /\ l \in 1 .. Len(t) /\ Len(h) + l - 1 = k
      BY <1>1, <1>2, <1>3, <1>4, <1>6, <2>3
    <3>2. j[k] = g[l + o]
      <4> HIDE DEF l
      <4>1. j[Len(h) + l - 1] = t[l]
        BY <1>6, <3>1
      <4> QED BY <1>2, <3>1, <4>1
    <3>3. l + o \in 1 .. Len(g)
      BY <1>2, <1>3, <1>4, <3>1
    <3> QED BY <3>2, <3>3 DEF Vertices
  <2>4. k \in Int
    OBVIOUS
  <2> QED BY <1>3, <2>1, <2>2, <2>3, <2>4
<1>9. ASSUME NEW k \in 1 .. Len(g) PROVE \E l \in 1 .. Len(j) : j[l] = g[k]
  <2>1. CASE k <= i
    <3>1. k \in 1 .. i /\ k \in 1 .. Len(h) /\ k \in 1 .. Len(j)
      BY <1>1, <1>2, <1>3, <1>4, <1>6, <2>1
    <3> QED BY <1>1, <1>6, <3>1
  <2>2. CASE k > i /\ k - o < 2
    <3>1. k = i + 1 /\ o = i
      BY <1>3, <1>4, <2>2
    <3>2. g[k] = p
      BY <1>3, <1>5, <3>1
    <3>3. i + 1 \in 1 .. Len(h) /\ i + 1 \in 1 .. Len(j)
      BY <1>1, <1>2, <1>3, <1>4, <1>6
    <3> QED BY <1>6, <1>7, <3>2, <3>3
  <2>3. CASE k > i /\ k - o >= 2
    <3> DEFINE l == k - o
    <3>1. l \in 2 .. Len(t) /\ l \in 1 .. Len(t) /\ l + o = k
      BY <1>2, <1>3, <1>4, <2>3
    <3> HIDE DEF l
    <3>2. Len(h) + l - 1 \in 1 .. Len(j)
      <4>1. Len(t) \in Nat /\ Len(h) \in Nat /\ Len(h) >= 2
        BY <1>1, <1>2, <1>3, <1>4
      <4>2. Len(j) = Len(h) + Len(t) - 1 /\ l \in 1 .. Len(t)
        BY <1>6, <3>1
      <4> QED BY <4>1, <4>2
    <3>3. j[Len(h) + l - 1] = g[k]
      BY <1>2, <1>6, <3>1
    <3> QED BY <3>2, <3>3
  <2>4. k \in Int /\ o \in Int
    BY <1>3, <1>4
  <2> QED BY <1>3, <2>1, <2>2, <2>3, <2>4
<1>10. \E l \in 1 .. Len(j) : j[l] = p
  <2>1. i + 1 \in 1 .. Len(h) /\ i + 1 \in 1 .. Len(j)
    BY <1>1, <1>2, <1>3, <1>4, <1>6
  <2> QED BY <1>6, <1>7, <2>1
<1>11. Vertices(j) = Vertices(g) \cup {p}
  BY <1>8, <1>9, <1>10 DEF Vertices
<1> QED BY <1>11 DEF j, h, t

\* The row of edge x after ModEdgeSplit: links to the end of e may have become
\* links to the end of the new edge.
SplitRow(t, s, e, n, e2, x) ==
  \E nl, nr :
    /\ t.edge[x] = [s.edge[x] EXCEPT !.end_node   = IF x = e THEN n ELSE @,
                                     !.next_left  = IF x = e THEN e2 ELSE nl,
                                     !.next_right = nr]
    /\ nl \in {s.edge[x].next_left} \cup {y \in {-e2} : s.edge[x].next_left = -e}
    /\ nr \in {s.edge[x].next_right} \cup {y \in {-e2} : s.edge[x].next_right = -e}

\* The tables after ModEdgeSplit, row by row.
SplitRows(t, s, e, p, n, e2) ==
  /\ DOMAIN t = Tables /\ t.mbr = s.mbr /\ t.areal = s.areal
  /\ t.lineal = IF e \in s.lineal THEN s.lineal \cup {e2} ELSE s.lineal
  /\ t.node = WithRow(s.node, n, NotIsolated) /\ t.point = WithRow(s.point, n, p)
  /\ t.line = WithRow([s.line EXCEPT ![e] = HeadUpTo(s.line[e], p)], e2, TailFrom(s.line[e], p))
  /\ DOMAIN t.edge = DOMAIN s.edge \cup {e2}
  /\ t.edge[e2] = [s.edge[e] EXCEPT
                     !.start_node = n,
                     !.next_left  = IF @ = -e THEN -e2 ELSE @,
                     !.next_right = -e]
  /\ \A x \in DOMAIN s.edge : SplitRow(t, s, e, n, e2, x)

LEMMA ModEdgeSplitRows ==
  ASSUME NEW s, Typed(s), NEW e \in DOMAIN s.edge, NEW p,
         NEW n \in NodeIds \ DOMAIN s.node, NEW e2 \in EdgeIds \ DOMAIN s.edge
  PROVE  SplitRows(ModEdgeSplit(s, e, p, n, e2), s, e, p, n, e2)
<1> DEFINE old  == s.edge[e]
           tail == [old EXCEPT !.start_node = n,
                               !.next_left  = IF @ = -e THEN -e2 ELSE @,
                               !.next_right = -e]
           head == [old EXCEPT !.next_left = e2, !.end_node = n]
           rows == WithRow([s.edge EXCEPT ![e] = head], e2, tail)
           relinked(x) ==
             [rows[x] EXCEPT
                !.next_right = IF @ = -e /\ rows[x].start_node = old.end_node THEN -e2 ELSE @,
                !.next_left  = IF @ = -e /\ rows[x].end_node = old.end_node THEN -e2 ELSE @]
           edges == [x \in DOMAIN rows |-> IF x = e2 THEN tail ELSE relinked(x)]
           lines == WithRow([s.line EXCEPT ![e] = HeadUpTo(s.line[e], p)], e2, TailFrom(s.line[e], p))
           t == ModEdgeSplit(s, e, p, n, e2)
<1>1. /\ DOMAIN s = {"node", "point", "edge", "line", "mbr", "areal", "lineal"}
      /\ \A x \in DOMAIN s.edge : s.edge[x] \in EdgeRow
  BY DEF Typed, Tables, IsTopology
<1>2. e # e2 /\ e \in Nat \ {0} /\ e2 \in Nat \ {0}
  <2>1. e \in EdgeIds /\ e2 \in EdgeIds /\ e # e2
    BY DEF Typed, IsTopology
  <2> QED BY <2>1, IdentifiersArePositive
<1>3. t = [WithNode(s, n, NotIsolated, p) EXCEPT
             !.edge = edges,
             !.line = WithRow([@ EXCEPT ![e] = HeadUpTo(s.line[e], p)], e2, TailFrom(s.line[e], p)),
             !.lineal = IF e \in @ THEN @ \cup {e2} ELSE @]
  BY Zenon DEF ModEdgeSplit
<1> HIDE DEF t, edges
<1>4. /\ DOMAIN t = Tables /\ t.mbr = s.mbr /\ t.areal = s.areal
      /\ t.lineal = (IF e \in s.lineal THEN s.lineal \cup {e2} ELSE s.lineal)
      /\ t.node = WithRow(s.node, n, NotIsolated) /\ t.point = WithRow(s.point, n, p)
      /\ t.line = lines /\ t.edge = edges
  <2> DEFINE u == WithNode(s, n, NotIsolated, p)
  <2>1. /\ DOMAIN u = {"node", "point", "edge", "line", "mbr", "areal", "lineal"}
        /\ u.node = WithRow(s.node, n, NotIsolated) /\ u.point = WithRow(s.point, n, p)
        /\ u.line = s.line /\ u.mbr = s.mbr /\ u.areal = s.areal /\ u.lineal = s.lineal
    BY <1>1 DEF WithNode
  <2> HIDE DEF u
  <2>2. t = [u EXCEPT
             !.edge = edges,
             !.line = WithRow([@ EXCEPT ![e] = HeadUpTo(s.line[e], p)], e2, TailFrom(s.line[e], p)),
             !.lineal = IF e \in @ THEN @ \cup {e2} ELSE @]
    BY <1>3 DEF u
  <2> QED BY <2>1, <2>2 DEF Tables
<1> HIDE DEF lines
<1>5. /\ DOMAIN rows = DOMAIN s.edge \cup {e2} /\ rows[e] = head
      /\ \A x \in DOMAIN s.edge \ {e} : rows[x] = s.edge[x]
  BY <1>2 DEF WithRow
<1> HIDE DEF rows
<1>6. /\ DOMAIN t.edge = DOMAIN s.edge \cup {e2} /\ t.edge[e2] = tail
      /\ \A x \in DOMAIN s.edge : t.edge[x] = relinked(x)
  BY <1>4, <1>5 DEF edges
<1>7. ASSUME NEW x \in DOMAIN s.edge
      PROVE  \E nl, nr :
         /\ t.edge[x] = [s.edge[x] EXCEPT !.end_node   = IF x = e THEN n ELSE @,
                                          !.next_left  = IF x = e THEN e2 ELSE nl,
                                          !.next_right = nr]
         /\ nl \in {s.edge[x].next_left} \cup {y \in {-e2} : s.edge[x].next_left = -e}
         /\ nr \in {s.edge[x].next_right} \cup {y \in {-e2} : s.edge[x].next_right = -e}
  <2>1. s.edge[x] \in EdgeRow
    BY <1>1
  <2>2. CASE x = e
    <3> DEFINE nr == IF old.next_right = -e /\ old.start_node = old.end_node THEN -e2 ELSE old.next_right
    <3>1. head.next_left = e2 /\ head.next_right = old.next_right /\ head.start_node = old.start_node
      BY <2>1, <2>2 DEF EdgeRow
    <3>2. e2 # -e
      BY <1>2
    <3>3. relinked(e) = [old EXCEPT !.end_node = n, !.next_left = e2, !.next_right = nr]
      BY <1>5, <2>1, <2>2, <3>1, <3>2 DEF EdgeRow
    <3> QED BY <1>6, <2>2, <3>3
  <2>3. CASE x # e
    <3> DEFINE row == s.edge[x]
               nl == IF row.next_left = -e /\ row.end_node = old.end_node THEN -e2 ELSE row.next_left
               nr == IF row.next_right = -e /\ row.start_node = old.end_node THEN -e2 ELSE row.next_right
    <3>1. relinked(x) = [row EXCEPT !.next_left = nl, !.next_right = nr]
      BY <1>5, <2>1, <2>3 DEF EdgeRow
    <3>2. relinked(x) = [row EXCEPT !.end_node = @, !.next_left = nl, !.next_right = nr]
      BY <2>1, <3>1 DEF EdgeRow
    <3>3. t.edge[x] = [s.edge[x] EXCEPT !.end_node   = IF x = e THEN n ELSE @,
                                        !.next_left  = IF x = e THEN e2 ELSE nl,
                                        !.next_right = nr]
      BY <1>6, <2>3, <3>2
    <3>4. /\ nl \in {row.next_left} \cup {y \in {-e2} : row.next_left = -e}
          /\ nr \in {row.next_right} \cup {y \in {-e2} : row.next_right = -e}
      OBVIOUS
    <3> HIDE DEF nl, nr
    <3> QED BY <3>3, <3>4
  <2> QED BY <2>2, <2>3
<1>8. \A x \in DOMAIN s.edge : SplitRow(t, s, e, n, e2, x)
  BY <1>7 DEF SplitRow
<1> QED BY <1>4, <1>6, <1>8 DEF SplitRows, t, lines

\* The parts meet at the new node only, also when the edge was closed.
LEMMA PartsMeet ==
  ASSUME NEW s, Typed(s), Flat(s), NEW e \in DOMAIN s.edge, NEW p,
         NEW n \in NodeIds \ DOMAIN s.node, NEW e2 \in EdgeIds \ DOMAIN s.edge,
         NEW t, SplitRows(t, s, e, p, n, e2)
  PROVE  /\ Meeting(t, e, e2) = {[arrive |-> e, leave |-> e2]}
         /\ s.lineal \subseteq DOMAIN s.edge => CanHealEdges(t, e, e2)
<1>1. e # e2 /\ e \in Nat \ {0} /\ e2 \in Nat \ {0}
  <2>1. e \in EdgeIds /\ e2 \in EdgeIds /\ e # e2
    BY DEF Typed, IsTopology
  <2> QED BY <2>1, IdentifiersArePositive
<1>2. \A x \in DOMAIN s.edge : s.edge[x] \in EdgeRow
  BY DEF Typed, IsTopology
<1>3. \A x \in DOMAIN s.edge : s.edge[x].start_node # n /\ s.edge[x].end_node # n
  BY DEF Flat, EdgeDrawn
<1>4. \A x \in DOMAIN s.edge : /\ t.edge[x].start_node = s.edge[x].start_node
                               /\ t.edge[x].end_node = IF x = e THEN n ELSE s.edge[x].end_node
  <2> TAKE x \in DOMAIN s.edge
  <2>1. PICK nl, nr : t.edge[x] = [s.edge[x] EXCEPT !.end_node   = IF x = e THEN n ELSE @,
                                                   !.next_left  = IF x = e THEN e2 ELSE nl,
                                                   !.next_right = nr]
    <3>1. SplitRow(t, s, e, n, e2, x)
      BY DEF SplitRows
    <3> QED BY <3>1 DEF SplitRow
  <2> QED BY <1>2, <2>1 DEF EdgeRow
<1>5. t.edge[e2].start_node = n /\ t.edge[e2].end_node = s.edge[e].end_node
  <2>1. t.edge[e2] = [s.edge[e] EXCEPT !.start_node = n,
                                       !.next_left  = IF @ = -e THEN -e2 ELSE @,
                                       !.next_right = -e]
    BY DEF SplitRows
  <2> QED BY <1>2, <2>1 DEF EdgeRow
<1>6. DOMAIN t.edge = DOMAIN s.edge \cup {e2}
  BY DEF SplitRows
<1>7. Incident(t, n) \subseteq {e, e2}
  BY <1>3, <1>4, <1>6 DEF Incident
<1>8. Target(t, e) = n
  <2>1. ~ (-e > 0) /\ -(-e) = e
    BY <1>1
  <2> QED BY <1>4, <2>1 DEF Target, Origin
<1>9. Origin(t, e2) = n
  BY <1>1, <1>5 DEF Origin
<1>10. Origin(t, -e2) # n
  <2>1. ~ (-e2 > 0) /\ -(-e2) = e2
    BY <1>1
  <2>2. Origin(t, -e2) = s.edge[e].end_node
    BY <1>5, <2>1 DEF Origin
  <2> QED BY <1>3, <2>2
<1>11. {d \in {e2, -e2} : Origin(t, d) = Target(t, e) /\ Incident(t, Target(t, e)) \subseteq {e, e2}} = {e2}
  BY <1>7, <1>8, <1>9, <1>10
<1>12. Meeting(t, e, e2) = {[arrive |-> e, leave |-> e2]}
  <2> DEFINE at(a) == {[arrive |-> a, leave |-> d] :
                         d \in {x \in {e2, -e2} : Origin(t, x) = Target(t, a)
                                                  /\ Incident(t, Target(t, a)) \subseteq {e, e2}}}
  <2>1. Meeting(t, e, e2) = IF at(e) # {} THEN at(e) ELSE at(-e)
    BY DEF Meeting
  <2>2. at(e) = {[arrive |-> e, leave |-> d] : d \in {e2}}
    BY <1>11
  <2> HIDE DEF at
  <2> QED BY <2>1, <2>2
<1>13. ASSUME s.lineal \subseteq DOMAIN s.edge PROVE CanHealEdges(t, e, e2)
  <2>1. (e \in t.lineal) = (e2 \in t.lineal)
    <3>1. e2 \notin s.lineal
      BY <1>13
    <3>2. t.lineal = IF e \in s.lineal THEN s.lineal \cup {e2} ELSE s.lineal
      BY DEF SplitRows
    <3>3. e \in t.lineal <=> e2 \in t.lineal
      BY <3>1, <3>2
    <3> QED BY <3>3
  <2>2. \A x \in {e, e2} : t.edge[x].start_node # t.edge[x].end_node
    BY <1>3, <1>4, <1>5
  <2> QED BY <1>1, <1>6, <2>1, <2>2 DEF CanHealEdges, TopoGeomAllowsHeal
<1> QED BY <1>12, <1>13

\* A link to the far end of e2 becomes one to the end of e.
BackTo(e, e2, d) == IF d = -e2 THEN -e ELSE d

\* The tables after ModEdgeHeal of e and e2, where e ends.
HealedRows(u, t, e, e2, n) ==
  /\ DOMAIN u = Tables /\ u.mbr = t.mbr /\ u.areal = t.areal
  /\ u.lineal = IF e2 \in t.lineal THEN (t.lineal \ {e2}) \cup {e} ELSE t.lineal
  /\ u.node = WithoutRows(t.node, {n}) /\ u.point = WithoutRows(t.point, {n})
  /\ u.line = WithoutRows(WithRow(t.line, e, Joined(t.line[e], t.line[e2])), {e2})
  /\ IsTable(u.edge) /\ DOMAIN u.edge = DOMAIN t.edge \ {e2}
  /\ u.edge[e] = [t.edge[e] EXCEPT !.end_node   = t.edge[e2].end_node,
                                   !.next_left  = BackTo(e, e2, t.edge[e2].next_left),
                                   !.next_right = BackTo(e, e2, @)]
  /\ \A x \in DOMAIN t.edge \ {e, e2} :
       u.edge[x] = [t.edge[x] EXCEPT !.next_left = BackTo(e, e2, @), !.next_right = BackTo(e, e2, @)]

LEMMA ModEdgeHealRows ==
  ASSUME NEW t, Typed(t), NEW e \in DOMAIN t.edge, NEW e2 \in DOMAIN t.edge, e # e2, NEW n,
         t.edge[e].end_node = n
  PROVE  HealedRows(HealEdges(t, e, e2, [arrive |-> e, leave |-> e2], e), t, e, e2, n)
<1> DEFINE m == [arrive |-> e, leave |-> e2]
           rename(d) == IF d = -e2 THEN -e ELSE IF d = e THEN -(-e) ELSE d
           healed == [t.edge[e] EXCEPT !.start_node = t.edge[e].start_node,
                                       !.end_node   = t.edge[e2].end_node,
                                       !.next_left  = t.edge[e2].next_left,
                                       !.next_right = t.edge[e].next_right]
           rows   == WithRow(t.edge, e, healed)
           linked == [x \in DOMAIN rows |->
                        [rows[x] EXCEPT !.next_left = rename(@), !.next_right = rename(@)]]
           joined == Joined(t.line[e], t.line[e2])
           changed == [t EXCEPT !.edge = linked, !.line = WithRow(@, e, joined),
                                !.lineal = IF e2 \in @ THEN (@ \ {e2}) \cup {e} ELSE @]
           u == HealEdges(t, e, e2, m, e)
<1>1. e \in Nat \ {0} /\ e2 \in Nat \ {0} /\ t.edge[e] \in EdgeRow /\ t.edge[e2] \in EdgeRow
      /\ \A x \in DOMAIN t.edge : t.edge[x] \in EdgeRow
  <2>1. e \in EdgeIds /\ e2 \in EdgeIds
    BY DEF Typed, IsTopology
  <2>2. \A x \in DOMAIN t.edge : t.edge[x] \in EdgeRow
    BY DEF Typed, IsTopology
  <2> QED BY <2>1, <2>2, IdentifiersArePositive
<1>2. /\ Origin(t, e) = t.edge[e].start_node /\ Target(t, e2) = t.edge[e2].end_node
      /\ Target(t, e) = n /\ Next(t, e2) = t.edge[e2].next_left /\ Next(t, -e) = t.edge[e].next_right
      /\ Path(t, e) = t.line[e] /\ Path(t, e2) = t.line[e2]
  <2>1. /\ e > 0 /\ e2 > 0 /\ ~ (-e > 0) /\ ~ (-e2 > 0) /\ -(-e) = e /\ -(-e2) = e2
    BY <1>1
  <2> QED BY <2>1 DEF Origin, Target, Next, Path
<1>3. m.arrive = e /\ m.leave = e2 /\ e > 0
  BY <1>1
<1> HIDE DEF m
<1>4. HealedRow(t, e, m) = healed
  BY <1>2, <1>3 DEF HealedRow
<1>5. HealedLine(t, m) = joined
  BY <1>2, <1>3 DEF HealedLine
<1>6. u = WithoutNode(WithoutEdges(changed, {e2}), n)
  <2>1. {e, e2} \ {e} = {e2}
    OBVIOUS
  <2> HIDE DEF healed, joined
  <2> QED BY <1>2, <1>3, <1>4, <1>5, <2>1 DEF HealEdges
<1>7. DOMAIN t = {"node", "point", "edge", "line", "mbr", "areal", "lineal"}
  BY DEF Typed, Tables
<1> HIDE DEF u, linked, joined
<1>8. /\ DOMAIN changed = {"node", "point", "edge", "line", "mbr", "areal", "lineal"}
      /\ changed.edge = linked /\ changed.line = WithRow(t.line, e, joined)
      /\ changed.lineal = (IF e2 \in t.lineal THEN (t.lineal \ {e2}) \cup {e} ELSE t.lineal)
      /\ changed.node = t.node /\ changed.point = t.point
      /\ changed.mbr = t.mbr /\ changed.areal = t.areal
  BY <1>7
<1> HIDE DEF changed
<1>9. /\ DOMAIN u = Tables /\ u.mbr = t.mbr /\ u.areal = t.areal /\ u.lineal = changed.lineal
      /\ u.node = WithoutRows(t.node, {n}) /\ u.point = WithoutRows(t.point, {n})
      /\ u.line = WithoutRows(WithRow(t.line, e, joined), {e2})
      /\ u.edge = WithoutRows(linked, {e2})
  BY <1>6, <1>8 DEF WithoutNode, WithoutEdges, Tables
<1>10. /\ DOMAIN rows = DOMAIN t.edge /\ rows[e] = healed
       /\ \A x \in DOMAIN t.edge \ {e} : rows[x] = t.edge[x]
  BY DEF WithRow
<1> HIDE DEF rows
<1>11. /\ IsTable(u.edge) /\ DOMAIN u.edge = DOMAIN t.edge \ {e2}
       /\ \A x \in DOMAIN t.edge \ {e2} :
            u.edge[x] = [rows[x] EXCEPT !.next_left = rename(@), !.next_right = rename(@)]
  <2>1. DOMAIN linked = DOMAIN t.edge
        /\ \A x \in DOMAIN t.edge :
            linked[x] = [rows[x] EXCEPT !.next_left = rename(@), !.next_right = rename(@)]
    BY <1>10 DEF linked
  <2>2. IsTable(u.edge)
    BY <1>9, TablesChange
  <2>3. DOMAIN u.edge = DOMAIN linked \ {e2} /\ \A x \in DOMAIN linked \ {e2} : u.edge[x] = linked[x]
    BY <1>9 DEF WithoutRows
  <2> HIDE DEF rename
  <2>4. ASSUME NEW x \in DOMAIN t.edge \ {e2}
        PROVE  u.edge[x] = [rows[x] EXCEPT !.next_left = rename(@), !.next_right = rename(@)]
    BY <2>1, <2>3
  <2> QED BY <2>1, <2>2, <2>3, <2>4
<1>12. \A d : rename(d) = BackTo(e, e2, d)
  BY <1>1 DEF BackTo
<1> HIDE DEF rename
<1>13. u.edge[e] = [t.edge[e] EXCEPT !.end_node   = t.edge[e2].end_node,
                                     !.next_left  = rename(t.edge[e2].next_left),
                                     !.next_right = rename(@)]
  <2>1. u.edge[e] = [healed EXCEPT !.next_left = rename(@), !.next_right = rename(@)]
    BY <1>10, <1>11
  <2>2. /\ healed = [t.edge[e] EXCEPT !.end_node = t.edge[e2].end_node, !.next_left = t.edge[e2].next_left]
        /\ healed.next_left = t.edge[e2].next_left /\ healed.next_right = t.edge[e].next_right
    BY <1>1 DEF EdgeRow
  <2> HIDE DEF healed
  <2> QED BY <1>1, <2>1, <2>2 DEF EdgeRow
<1>14. u.edge[e] = [t.edge[e] EXCEPT !.end_node   = t.edge[e2].end_node,
                                     !.next_left  = BackTo(e, e2, t.edge[e2].next_left),
                                     !.next_right = BackTo(e, e2, @)]
  BY <1>12, <1>13
<1>15. \A x \in DOMAIN t.edge \ {e, e2} :
         u.edge[x] = [t.edge[x] EXCEPT !.next_left = BackTo(e, e2, @), !.next_right = BackTo(e, e2, @)]
  BY <1>10, <1>11, <1>12
<1>16. HealedRows(u, t, e, e2, n)
  BY <1>8, <1>9, <1>11, <1>14, <1>15 DEF HealedRows, joined
<1> QED BY <1>16 DEF u, m

\* Without the row that the split added, every row is as it was before.
LEMMA HealedRowsAreBack ==
  ASSUME NEW s, Typed(s), Linked(s),
         NEW e \in DOMAIN s.edge, NEW p,
         NEW n \in NodeIds \ DOMAIN s.node, NEW e2 \in EdgeIds \ DOMAIN s.edge,
         NEW t, SplitRows(t, s, e, p, n, e2), NEW u, HealedRows(u, t, e, e2, n)
  PROVE  \A x \in DOMAIN s.edge : u.edge[x] = s.edge[x]
<1>1. e # e2 /\ e \in Nat \ {0} /\ e2 \in Nat \ {0}
  <2>1. e \in EdgeIds /\ e2 \in EdgeIds /\ e # e2
    BY DEF Typed, IsTopology
  <2> QED BY <2>1, IdentifiersArePositive
<1>2. \A x \in DOMAIN s.edge : s.edge[x] \in EdgeRow
  BY DEF Typed, IsTopology
<1>3. \A x \in DOMAIN s.edge : s.edge[x].next_left # -e2 /\ s.edge[x].next_right # -e2
  <2>1. -e2 \notin DartsOf(s)
    BY <1>1 DEF DartsOf, Linked
  <2>2. ASSUME NEW x \in DOMAIN s.edge
        PROVE  s.edge[x].next_left \in DartsOf(s) /\ s.edge[x].next_right \in DartsOf(s)
    <3>1. x \in Nat \ {0} /\ x \in DartsOf(s) /\ -x \in DartsOf(s)
      BY DEF DartsOf, Linked
    <3>2. x > 0 /\ ~ (-x > 0) /\ -(-x) = x
      BY <3>1
    <3>3. Next(s, x) = s.edge[x].next_left /\ Next(s, -x) = s.edge[x].next_right
      BY <3>2 DEF Next
    <3> QED BY <3>1, <3>3 DEF Linked
  <2> QED BY <2>1, <2>2
<1>4. \A l, old : l \in {old} \cup {y \in {-e2} : old = -e} /\ old # -e2 => BackTo(e, e2, l) = old
  BY DEF BackTo
<1>5. -e2 # e2 /\ e2 # -e
  BY <1>1
<1>6. ASSUME NEW x \in DOMAIN s.edge \ {e} PROVE u.edge[x] = s.edge[x]
  <2> DEFINE row == s.edge[x]
  <2>1. SplitRow(t, s, e, n, e2, x)
    BY DEF SplitRows
  <2>2. PICK nl, nr : /\ t.edge[x] = [row EXCEPT !.end_node   = IF x = e THEN n ELSE @,
                                                 !.next_left  = IF x = e THEN e2 ELSE nl,
                                                 !.next_right = nr]
                      /\ nl \in {row.next_left} \cup {y \in {-e2} : row.next_left = -e}
                      /\ nr \in {row.next_right} \cup {y \in {-e2} : row.next_right = -e}
    BY <2>1 DEF SplitRow
  <2>3. row.next_left # -e2 /\ row.next_right # -e2 /\ row \in EdgeRow
    BY <1>2, <1>3
  <2>4. x \in DOMAIN t.edge \ {e, e2}
    BY DEF SplitRows
  <2>5. u.edge[x] = [t.edge[x] EXCEPT !.next_left = BackTo(e, e2, @), !.next_right = BackTo(e, e2, @)]
    BY <2>4 DEF HealedRows
  <2>6. BackTo(e, e2, nl) = row.next_left /\ BackTo(e, e2, nr) = row.next_right
    BY <1>4, <2>2, <2>3
  <2> HIDE DEF row
  <2>7. t.edge[x] = [row EXCEPT !.next_left = nl, !.next_right = nr]
    BY <2>2, <2>3 DEF EdgeRow
  <2>8. u.edge[x] = [row EXCEPT !.next_left = BackTo(e, e2, nl), !.next_right = BackTo(e, e2, nr)]
    BY <2>3, <2>5, <2>7 DEF EdgeRow
  <2>9. u.edge[x] = [row EXCEPT !.next_left = row.next_left, !.next_right = row.next_right]
    BY <2>6, <2>8
  <2>10. u.edge[x] = row
    BY <2>3, <2>9 DEF EdgeRow
  <2> QED BY <2>10 DEF row
<1>7. u.edge[e] = s.edge[e]
  <2> DEFINE row == s.edge[e]
             onwards == IF row.next_left = -e THEN -e2 ELSE row.next_left
  <2>1. SplitRow(t, s, e, n, e2, e)
    BY DEF SplitRows
  <2>2. PICK nl, nr : /\ t.edge[e] = [row EXCEPT !.end_node   = IF e = e THEN n ELSE @,
                                                 !.next_left  = IF e = e THEN e2 ELSE nl,
                                                 !.next_right = nr]
                      /\ nr \in {row.next_right} \cup {y \in {-e2} : row.next_right = -e}
    BY <2>1 DEF SplitRow
  <2>3. row.next_left # -e2 /\ row.next_right # -e2 /\ row \in EdgeRow
    BY <1>2, <1>3
  <2>4. t.edge[e2] = [row EXCEPT !.start_node = n, !.next_left = onwards, !.next_right = -e]
    BY DEF SplitRows
  <2>5. u.edge[e] = [t.edge[e] EXCEPT !.end_node   = t.edge[e2].end_node,
                                      !.next_left  = BackTo(e, e2, t.edge[e2].next_left),
                                      !.next_right = BackTo(e, e2, @)]
    BY DEF HealedRows
  <2>6. BackTo(e, e2, nr) = row.next_right
    BY <1>4, <2>2, <2>3
  <2>7. BackTo(e, e2, onwards) = row.next_left
    BY <2>3 DEF BackTo
  <2> HIDE DEF row, onwards
  <2>8. t.edge[e2].end_node = row.end_node /\ t.edge[e2].next_left = onwards
    BY <2>3, <2>4 DEF EdgeRow
  <2>9. t.edge[e] = [row EXCEPT !.end_node = n, !.next_left = e2, !.next_right = nr]
    BY <2>2, <2>3
  <2>10. u.edge[e] = [row EXCEPT !.end_node = row.end_node, !.next_left = BackTo(e, e2, onwards),
                                 !.next_right = BackTo(e, e2, nr)]
    BY <2>3, <2>5, <2>8, <2>9 DEF EdgeRow
  <2>11. u.edge[e] = [row EXCEPT !.end_node = row.end_node, !.next_left = row.next_left,
                                 !.next_right = row.next_right]
    BY <2>6, <2>7, <2>10
  <2>12. u.edge[e] = row
    BY <2>3, <2>11 DEF EdgeRow
  <2> QED BY <2>12 DEF row
<1> QED BY <1>6, <1>7

\* The tables u are those of s, but that the line of edge e is joined at p.
Restored(u, s, e, p) ==
  /\ [u EXCEPT !.line[e] = s.line[e]] = s
  /\ u.line[e] = Joined(HeadUpTo(s.line[e], p), TailFrom(s.line[e], p))

LEMMA HealedTablesAreBack ==
  ASSUME NEW s, Typed(s), Linked(s), Tabular(s), IsTable(s), s.lineal \subseteq DOMAIN s.edge,
         NEW e \in DOMAIN s.edge, NEW p,
         NEW n \in NodeIds \ DOMAIN s.node, NEW e2 \in EdgeIds \ DOMAIN s.edge,
         NEW t, SplitRows(t, s, e, p, n, e2), NEW u, HealedRows(u, t, e, e2, n)
  PROVE  Restored(u, s, e, p)
<1> DEFINE v == [u EXCEPT !.line[e] = s.line[e]]
           joined == Joined(HeadUpTo(s.line[e], p), TailFrom(s.line[e], p))
           heads == [s.line EXCEPT ![e] = HeadUpTo(s.line[e], p)]
<1>1. e # e2 /\ e2 \notin s.lineal /\ n \notin DOMAIN s.node /\ n \notin DOMAIN s.point
      /\ DOMAIN s.line = DOMAIN s.edge /\ DOMAIN s = Tables
  BY DEF Typed, IsTopology
<1>2. u.node = s.node /\ u.point = s.point
  <2>1. u.node = WithoutRows(WithRow(s.node, n, NotIsolated), {n})
        /\ u.point = WithoutRows(WithRow(s.point, n, p), {n})
    BY DEF SplitRows, HealedRows
  <2>2. \A f, row : IsTable(f) /\ n \notin DOMAIN f => WithoutRows(WithRow(f, n, row), {n}) = f
    BY DEF IsTable, WithRow, WithoutRows
  <2> QED BY <1>1, <2>1, <2>2 DEF Tabular
<1>3. u.edge = s.edge
  <2>1. \A x \in DOMAIN s.edge : u.edge[x] = s.edge[x]
    BY HealedRowsAreBack
  <2>2. IsTable(u.edge) /\ DOMAIN u.edge = DOMAIN t.edge \ {e2} /\ DOMAIN t.edge = DOMAIN s.edge \cup {e2}
    BY DEF SplitRows, HealedRows
  <2>3. DOMAIN u.edge = DOMAIN s.edge
    BY <2>2
  <2> QED BY <2>1, <2>2, <2>3 DEF IsTable, Tabular
<1>4. u.mbr = s.mbr /\ u.areal = s.areal /\ u.lineal = s.lineal /\ DOMAIN u = Tables
  <2>1. t.lineal = (IF e \in s.lineal THEN s.lineal \cup {e2} ELSE s.lineal)
        /\ u.lineal = (IF e2 \in t.lineal THEN (t.lineal \ {e2}) \cup {e} ELSE t.lineal)
    BY DEF SplitRows, HealedRows
  <2>2. u.lineal = s.lineal
    BY <1>1, <2>1
  <2>3. u.mbr = s.mbr /\ u.areal = s.areal /\ DOMAIN u = Tables
    BY DEF SplitRows, HealedRows
  <2> QED BY <2>2, <2>3
<1> HIDE DEF joined
<1>5. /\ IsTable(u.line) /\ DOMAIN u.line = DOMAIN s.line /\ u.line[e] = joined
      /\ \A x \in DOMAIN s.line \ {e} : u.line[x] = s.line[x]
  <2>1. t.line = WithRow(heads, e2, TailFrom(s.line[e], p))
    BY DEF SplitRows
  <2>2. u.line = WithoutRows(WithRow(t.line, e, Joined(t.line[e], t.line[e2])), {e2})
    BY DEF HealedRows
  <2>3. /\ DOMAIN heads = DOMAIN s.line /\ heads[e] = HeadUpTo(s.line[e], p)
        /\ \A x \in DOMAIN s.line \ {e} : heads[x] = s.line[x]
    BY <1>1
  <2> HIDE DEF heads
  <2>4. /\ DOMAIN t.line = DOMAIN s.line \cup {e2} /\ t.line[e] = HeadUpTo(s.line[e], p)
        /\ t.line[e2] = TailFrom(s.line[e], p)
        /\ \A x \in DOMAIN s.line \ {e} : t.line[x] = s.line[x]
    BY <1>1, <2>1, <2>3 DEF WithRow
  <2>5. u.line = WithoutRows(WithRow(t.line, e, joined), {e2})
    BY <2>2, <2>4 DEF joined
  <2>6. IsTable(u.line)
    BY <2>5, TablesChange
  <2>7. DOMAIN u.line = DOMAIN s.line /\ u.line[e] = joined
    BY <1>1, <2>4, <2>5 DEF WithRow, WithoutRows
  <2>8. \A x \in DOMAIN s.line \ {e} : u.line[x] = s.line[x]
    BY <1>1, <2>4, <2>5 DEF WithRow, WithoutRows
  <2> QED BY <2>6, <2>7, <2>8
<1>6. [u.line EXCEPT ![e] = s.line[e]] = s.line
  <2>1. IsTable(s.line)
    BY DEF Tabular
  <2> QED BY <1>1, <1>5, <2>1 DEF IsTable
<1>7. v = [u EXCEPT !.line = [u.line EXCEPT ![e] = s.line[e]]]
  OBVIOUS
<1>8. v = [u EXCEPT !.line = s.line]
  BY <1>6, <1>7
<1> HIDE DEF v
<1>9. IsTable(v) /\ DOMAIN v = Tables
  BY <1>4, <1>8 DEF IsTable
<1>10. /\ v.node = s.node /\ v.point = s.point /\ v.edge = s.edge /\ v.line = s.line
       /\ v.mbr = s.mbr /\ v.areal = s.areal /\ v.lineal = s.lineal
  BY <1>2, <1>3, <1>4, <1>8 DEF Tables
<1>11. \A k \in Tables : v[k] = s[k]
  BY <1>10 DEF Tables
<1>12. v = s
  BY <1>1, <1>9, <1>11 DEF IsTable
<1> QED BY <1>5, <1>12 DEF Restored, v, joined

\* Healing an edge that was just split gives the tables back, but for a vertex
\* more on the line, whatever rows were there and wherever their links led.
LEMMA SplitHeals ==
  ASSUME Sound(db), Flat(db), Turning(db), IsFiniteSet(DOMAIN db.edge), Composed(db), Tabular(db)
  PROVE  SplitThenHealRestores
<1>1. Typed(db) /\ Linked(db) /\ IsTable(db) /\ db.lineal \subseteq DOMAIN db.edge
  <2>1. Typed(db) /\ db.lineal \subseteq DOMAIN db.edge
    BY DEF Sound, Composed
  <2>2. IsTable(db)
    BY DEF db, IsTable
  <2> QED BY <2>1, <2>2, TurningIsLinked
<1>2. SUFFICES ASSUME NEW e \in DOMAIN edge, NEW p \in Sites, CanSplitEdge(db, e, p),
                      NEW n \in NewNodeId(p), NEW e2 \in NewEdgeId(TailFrom(line[e], p), {})
               PROVE  LET t == ModEdgeSplit(db, e, p, n, e2)
                      IN  /\ CanHealEdges(t, e, e2)
                          /\ Meeting(t, e, e2) # {}
                          /\ \A m \in Meeting(t, e, e2) :
                               LET u == HealEdges(t, e, e2, m, e)
                               IN  /\ [u EXCEPT !.line[e] = line[e]] = db
                                   /\ Vertices(u.line[e]) = Vertices(line[e]) \cup {p}
  BY DEF SplitThenHealRestores
<1> DEFINE t == ModEdgeSplit(db, e, p, n, e2)
           u == HealEdges(t, e, e2, [arrive |-> e, leave |-> e2], e)
<1>3. /\ e \in DOMAIN db.edge /\ n \in NodeIds \ DOMAIN db.node /\ e2 \in EdgeIds \ DOMAIN db.edge
      /\ db.line = line
  BY TablesOfDb, NewIdentifiersAreFree
<1>4. line[e] \in Line /\ p \in Point /\ InInterior(p, line[e])
  <2>1. p \in Point
    BY InputsAreGeometries
  <2>2. EdgeDrawn(db, e)
    BY <1>3 DEF Flat
  <2>3. db.line[e] \in Line
    BY <2>2 DEF EdgeDrawn
  <2>4. InInterior(p, db.line[e])
    BY <1>2 DEF CanSplitEdge
  <2> QED BY <1>3, <2>1, <2>3, <2>4
<1>5. SplitRows(t, db, e, p, n, e2)
  BY <1>1, <1>3, ModEdgeSplitRows
<1> HIDE DEF t
<1>6. Meeting(t, e, e2) = {[arrive |-> e, leave |-> e2]} /\ CanHealEdges(t, e, e2)
  BY <1>1, <1>3, <1>5, PartsMeet
<1>7. HealedRows(u, t, e, e2, n)
  <2>1. Typed(t)
    BY <1>3, ModEdgeSplitSound DEF Sound, t
  <2>2. e \in DOMAIN t.edge /\ e2 \in DOMAIN t.edge /\ e # e2
    BY <1>3, <1>5 DEF SplitRows
  <2>3. t.edge[e].end_node = n
    <3>1. SplitRow(t, db, e, n, e2, e) /\ db.edge[e] \in EdgeRow
      BY <1>1, <1>3, <1>5 DEF SplitRows, Typed, IsTopology
    <3> QED BY <3>1 DEF SplitRow, EdgeRow
  <2> QED BY <2>1, <2>2, <2>3, ModEdgeHealRows
<1> HIDE DEF u, t
<1>8. /\ [u EXCEPT !.line[e] = line[e]] = db
      /\ u.line[e] = Joined(HeadUpTo(line[e], p), TailFrom(line[e], p))
  <2>1. Restored(u, db, e, p)
    BY <1>1, <1>3, <1>5, <1>7, HealedTablesAreBack
  <2> QED BY <1>3, <2>1 DEF Restored
<1>9. Vertices(u.line[e]) = Vertices(line[e]) \cup {p}
  BY <1>4, <1>8, JoinedPieces
<1> QED BY <1>6, <1>8, <1>9 DEF u, t

\* ModEdgeHeal of the two parts that ModEdgeSplit made is always possible, and
\* leaves every row of every table and every object as before, but for a vertex
\* on the line: also when the edge is closed, when its own end continues it, and
\* whichever edges refer to its end.  It takes links that lead to rows, hence
\* the condition on NewEdgesSplit, and objects made of rows that are there.
THEOREM SplittingThenHealingRestores ==
  ASSUME SplitsAreSafe, "RemovesUsedEdge" \in Avoids
  PROVE  Spec => []SplitThenHealRestores
<1> DEFINE Inv == /\ Sound(db) /\ Flat(db) /\ Turning(db) /\ IsFiniteSet(DOMAIN db.edge)
                  /\ Composed(db) /\ Tabular(db)
<1>1. Init => Inv
  <2>1. Init => Composed(db)
    BY DEF Init, Composed, db
  <2> QED BY <2>1, InitSound, InitFlat, InitTurns, InitFinite, InitTabular
<1>2. Inv /\ [NextCall]_vars => Inv'
  BY StepSound, StepFlat, StepTurns, StepFinite, StepKeepsShape, StepTabulates DEF ShapeStep
<1>3. Inv => SplitThenHealRestores
  BY SplitHeals
<1> QED BY <1>1, <1>2, <1>3, PTL DEF Spec

-----------------------------------------------------------------------------
(* Adding an edge and removing it again, but for what the faces are.       *)

\* The same nodes, of which the same have edges, the same edges on the same
\* lines with the same links, and the same lineal object.
SameButFaces(s, t) == Relabelled(s, t) /\ SameGeometry(s, t) /\ SameLinks(s, t)

\* An edge that AddEdgeModFace (t) or AddEdgeNewFaces (u) added goes as it came:
\* removing it leaves the tables that there were, but for what the faces are, and
\* after AddEdgeModFace no object forbids it.
AddThenRemoveRelinks ==
  \A n1, n2 \in DOMAIN node, g \in Curves : CanAddEdge(db, n1, n2, g) =>
    \A a1 \in StartEnds(db, n1, n2, g), a2 \in EndEnds(db, n1, n2, g),
       e \in NewEdgeId(g, {}), nf \in NewFaceId({}) :
      \A nf1 \in NewFaceId({nf}) :
        LET f == NewEdgeFace(db, n1, n2, a1, a2)
            t == AddEdgeModFace(db, n1, n2, g, f, a1, a2, e, nf, nf1)
            u == AddEdgeNewFaces(db, n1, n2, g, f, a1, a2, e, nf, nf1)
        IN  f # -1 => /\ CanRemEdge(t, e)
                      /\ \A modFace \in BOOLEAN, h \in FaceIds :
                           /\ SameButFaces(db, RemEdge(t, e, modFace, h))
                           /\ SameButFaces(db, RemEdge(u, e, modFace, h))

\* There is one way only to link the edge ends of a drawing.
LEMMA DrawingTellsLinks ==
  ASSUME NEW s, Typed(s), Flat(s), Turning(s), NEW t, Turning(t),
         DOMAIN t.node = DOMAIN s.node, DOMAIN t.edge = DOMAIN s.edge, t.line = s.line,
         \A x \in DOMAIN s.edge : /\ t.edge[x].start_node = s.edge[x].start_node
                                  /\ t.edge[x].end_node = s.edge[x].end_node
  PROVE  SameLinks(s, t)
<1>1. DartsOf(t) = DartsOf(s)
  BY DEF DartsOf
<1>2. ASSUME NEW d \in DartsOf(s)
      PROVE  Origin(t, d) = Origin(s, d) /\ Leaving(t, d) = Leaving(s, d)
  <2>1. d \in Int /\ d # 0 /\ EdgeOf(d) \in DOMAIN s.edge
    BY DartIsSigned
  <2>2. Path(t, d) = Path(s, d)
    BY DEF Path
  <2>3. CASE d > 0
    BY <2>1, <2>2, <2>3 DEF EdgeOf, Origin, Leaving
  <2>4. CASE d < 0
    <3>1. ~ (d > 0) /\ -d \in DOMAIN s.edge
      BY <2>1, <2>4 DEF EdgeOf
    <3> QED BY <2>2, <3>1 DEF Origin, Leaving
  <2> QED BY <2>1, <2>3, <2>4
<1>3. \A n : DartsAt(t, n) = DartsAt(s, n)
  BY <1>1, <1>2 DEF DartsAt
<1>4. \A n : Star(t, n) = Star(s, n)
  BY <1>2, <1>3 DEF Star, DartsAt
<1>5. ASSUME NEW d \in DartsOf(s)
      PROVE  Next(t, d) = Next(s, d)
  <2> DEFINE n == Target(s, d)
             dir == Star(s, n)
  <2>1. -d \in DartsOf(s) /\ -(-d) = d /\ Origin(s, -d) = n /\ n \in DOMAIN s.node
    BY DartIsSigned, DartDrawn
  <2>2. -d \in DartsAt(s, n) /\ DOMAIN dir = DartsAt(s, n)
    BY <2>1 DEF DartsAt, Star
  <2>3. Rotation(dir, Links(s, n)) /\ Rotation(dir, Links(t, n))
    BY <1>4, <2>1 DEF Turning
  <2>4. Links(s, n)[-d] = Next(s, d) /\ Links(t, n)[-d] = Next(t, d)
    BY <1>3, <2>1, <2>2 DEF Links
  <2>5. Cyclic(dir)
    BY <2>1, EndsAreSpread, SpreadIsCyclic
  <2> HIDE DEF dir, n
  <2>6. Follows(dir, -d, Next(s, d)) /\ Follows(dir, -d, Next(t, d))
    BY <2>2, <2>3, <2>4 DEF Rotation
  <2> QED BY <2>2, <2>5, <2>6, FollowerIsOne
<1>6. ASSUME NEW x \in DOMAIN s.edge
      PROVE  t.edge[x].next_left = s.edge[x].next_left /\ t.edge[x].next_right = s.edge[x].next_right
  <2>1. x \in DartsOf(s) /\ -x \in DartsOf(s)
    BY DEF DartsOf
  <2>2. x \in Int /\ x > 0 /\ ~ (-x > 0) /\ -(-x) = x
    <3>1. x \in Nat \ {0}
      BY IdentifiersArePositive DEF Typed, IsTopology
    <3> QED BY <3>1
  <2> QED BY <1>5, <2>1, <2>2 DEF Next
<1> QED BY <1>6 DEF SameLinks

\* What adding an edge leaves, whatever happens to the faces.
Extends(s, t, n1, n2, g, e) ==
  /\ DOMAIN t.node = DOMAIN s.node /\ t.point = s.point
  /\ DOMAIN t.edge = DOMAIN s.edge \cup {e}
  /\ t.line = WithRow(s.line, e, g) /\ t.lineal = s.lineal
  /\ \A x \in DOMAIN s.edge : /\ t.edge[x].start_node = s.edge[x].start_node
                              /\ t.edge[x].end_node = s.edge[x].end_node

LEMMA AddEdgeExtends ==
  ASSUME NEW s, Sound(s), NEW n1 \in DOMAIN s.node, NEW n2 \in DOMAIN s.node,
         NEW g, NEW f \in Faces,
         NEW a1, a1.cw \in DartsAt(s, n1) \cup {0},
         NEW a2, a2.cw \in DartsAt(s, n2) \cup {0},
         NEW e \in EdgeIds \ DOMAIN s.edge, NEW nf \in FaceIds, NEW nf1 \in FaceIds
  PROVE  /\ Extends(s, AddEdgeModFace(s, n1, n2, g, f, a1, a2, e, nf, nf1), n1, n2, g, e)
         /\ Extends(s, AddEdgeNewFaces(s, n1, n2, g, f, a1, a2, e, nf, nf1), n1, n2, g, e)
<1> DEFINE t == LinkEdge(s, n1, n2, g, f, a1, a2, e)
           u == SplitModFace(t, e, f, nf, nf1)
           v == SplitNewFaces(t, e, f, nf, nf1)
<1>1. Typed(t)
  BY LinkEdgeSound DEF Sound
<1>2. Extends(s, t, n1, n2, g, e)
  <2>1. Joins(s, t, e) /\ DOMAIN t.node = DOMAIN s.node
    BY LinksOfNewEdge DEF Sound
  <2>2. t.point = s.point /\ t.line = WithRow(s.line, e, g) /\ t.lineal = s.lineal
    BY DEF LinkEdge, WithContainingFace, WithEdge, Sound, Typed, Tables
  <2> HIDE DEF t
  <2> QED BY <2>1, <2>2 DEF Joins, Extends
<1>3. /\ AddEdgeModFace(s, n1, n2, g, f, a1, a2, e, nf, nf1) \in {t, u}
      /\ AddEdgeNewFaces(s, n1, n2, g, f, a1, a2, e, nf, nf1) \in {t, v}
  BY DEF AddEdgeModFace, AddEdgeNewFaces
<1> HIDE DEF t
<1>4. Relabelled(t, u) /\ SameGeometry(t, u)
  BY <1>1, SplitModFaceRelabels, SplitModFaceKeepsGeometry
<1>5. Relabelled(t, v) /\ SameGeometry(t, v)
  BY <1>1, SplitNewFacesRelabels, SplitNewFacesKeepsGeometry
<1> HIDE DEF u, v
<1>6. Extends(s, u, n1, n2, g, e) /\ Extends(s, v, n1, n2, g, e)
  BY <1>2, <1>4, <1>5 DEF Extends, Relabelled, SameGeometry
<1> QED BY <1>2, <1>3, <1>6

\* What removing it leaves: the other ends and lines, and the objects.
Forgets(s, t, e) ==
  /\ DOMAIN t.node = DOMAIN s.node /\ t.point = s.point
  /\ DOMAIN t.edge = DOMAIN s.edge \ {e}
  /\ t.line = WithoutRows(s.line, {e}) /\ t.lineal = s.lineal
  /\ \A x \in DOMAIN t.edge : /\ t.edge[x].start_node = s.edge[x].start_node
                              /\ t.edge[x].end_node = s.edge[x].end_node

LEMMA RemEdgeForgets ==
  ASSUME NEW s, Sound(s), NEW e \in DOMAIN s.edge, NEW modFace \in BOOLEAN, NEW nf \in Faces
  PROVE  Forgets(s, RemEdge(s, e, modFace, nf), e)
<1> DEFINE fl == s.edge[e].face_left
           fr == s.edge[e].face_right
           flood == FloodFace(s, e, modFace, nf)
           unlinked == UnlinkEdge(s, e)
           healed == HealFaces(unlinked, fl, fr, flood)
           t == RemEdge(s, e, modFace, nf)
<1>1. fl \in Faces /\ fr \in Faces
  BY DEF Sound, Typed, IsTopology, EdgeRow
<1>2. flood \in Faces
  BY <1>1 DEF FloodFace, Faces
<1>3. t = WithContainingFace(WithoutEdges(healed, {e}), LonelyEnds(s, e), flood)
  BY DEF RemEdge
<1> HIDE DEF flood, fl, fr, t
<1>4. Typed(unlinked) /\ Relabelled(s, unlinked) /\ SameGeometry(s, unlinked)
  BY UnlinkEdgeRelabels, UnlinkEdgeKeepsGeometry DEF Sound
<1> HIDE DEF unlinked
<1>5. Typed(healed) /\ Relabelled(unlinked, healed) /\ SameGeometry(unlinked, healed)
  BY <1>1, <1>2, <1>4, HealFacesRelabels, HealFacesKeepsGeometry
<1> HIDE DEF healed
<1>6. /\ t.edge = WithoutRows(healed.edge, {e}) /\ t.line = WithoutRows(healed.line, {e})
      /\ DOMAIN t.node = DOMAIN healed.node /\ t.point = healed.point /\ t.lineal = healed.lineal
  BY <1>3, <1>5 DEF WithContainingFace, WithoutEdges, Typed, Tables
<1>7. Relabelled(s, healed) /\ SameGeometry(s, healed)
  BY <1>4, <1>5, RelabellingIsTransitive DEF SameGeometry
<1>8. /\ DOMAIN t.edge = DOMAIN healed.edge \ {e}
      /\ \A x \in DOMAIN t.edge : t.edge[x] = healed.edge[x]
  BY <1>6 DEF WithoutRows
<1>9. Forgets(s, t, e)
  BY <1>6, <1>7, <1>8 DEF Forgets, Relabelled, SameGeometry
<1> QED BY <1>9 DEF t

LEMMA RowsComeBack ==
  ASSUME NEW f, IsTable(f), NEW id, id \notin DOMAIN f, NEW row
  PROVE  WithoutRows(WithRow(f, id, row), {id}) = f
<1> DEFINE h == WithoutRows(WithRow(f, id, row), {id})
<1>1. h = [x \in DOMAIN f |-> f[x]]
  BY DEF WithRow, WithoutRows
<1> QED BY <1>1 DEF IsTable

\* A topology that has one edge more and is as good comes back.
LEMMA RemovedEdgeIsForgotten ==
  ASSUME NEW s, Sound(s), Flat(s), Turning(s), IsTable(s.line),
         NEW t, Sound(t), Flat(t), Turning(t),
         NEW n1, NEW n2, NEW g, NEW e, e \notin DOMAIN s.edge, Extends(s, t, n1, n2, g, e),
         NEW modFace \in BOOLEAN, NEW nf \in Faces
  PROVE  SameButFaces(s, RemEdge(t, e, modFace, nf))
<1> DEFINE u == RemEdge(t, e, modFace, nf)
<1>1. e \in DOMAIN t.edge
  BY DEF Extends
<1>2. Sound(u) /\ Turning(u)
  BY <1>1, RemEdgeSound, RemEdgeTurns DEF Sound
<1>3. Forgets(t, u, e)
  BY <1>1, RemEdgeForgets
<1> HIDE DEF u
<1>4. DOMAIN s.line = DOMAIN s.edge
  BY DEF Sound, Typed, IsTopology
<1>5. u.line = s.line
  BY <1>3, <1>4, RowsComeBack DEF Extends, Forgets
<1>6. /\ DOMAIN u.node = DOMAIN s.node /\ u.point = s.point
      /\ DOMAIN u.edge = DOMAIN s.edge /\ u.lineal = s.lineal
      /\ \A x \in DOMAIN s.edge : /\ u.edge[x].start_node = s.edge[x].start_node
                                  /\ u.edge[x].end_node = s.edge[x].end_node
  BY <1>3 DEF Extends, Forgets
<1>7. SameLinks(s, u)
  BY <1>2, <1>5, <1>6, DrawingTellsLinks DEF Sound
<1>8. \A n \in DOMAIN s.node : Incident(u, n) = Incident(s, n)
  BY <1>6 DEF Incident
<1>9. \A n \in DOMAIN s.node : (u.node[n] = NotIsolated) <=> (s.node[n] = NotIsolated)
  <2>1. ASSUME NEW v, Sound(v), NEW n \in DOMAIN v.node
        PROVE  (v.node[n] = NotIsolated) <=> Incident(v, n) # {}
    <3>1. IsolationMatchesEdges(v)
      BY <2>1 DEF Sound
    <3>2. ASSUME NEW x \in Incident(v, n)
          PROVE  v.node[n] = NotIsolated
      <4>1. x \in DOMAIN v.edge /\ n \in {v.edge[x].start_node, v.edge[x].end_node}
        BY <3>2 DEF Incident
      <4> QED BY <3>1, <4>1 DEF IsolationMatchesEdges
    <3> QED BY <2>1, <3>1, <3>2 DEF IsolationMatchesEdges
  <2> QED BY <1>2, <1>6, <1>8, <2>1
<1>10. SameButFaces(s, u)
  BY <1>5, <1>6, <1>7, <1>9 DEF SameButFaces, Relabelled, SameGeometry
<1> QED BY <1>10 DEF u

-----------------------------------------------------------------------------
(* No object forbids to remove the edge that was added.                    *)

\* A side of an edge changes to the new face or not at all, and the objects wait
\* for updateTopoGeomFaceSplit.
MovesSides(s, t, nf) ==
  /\ t.areal = s.areal
  /\ \A x \in DOMAIN s.edge : /\ t.edge[x].face_left \in {s.edge[x].face_left, nf}
                              /\ t.edge[x].face_right \in {s.edge[x].face_right, nf}

LEMMA AddFaceSplitSides ==
  ASSUME NEW s, Typed(s), NEW d, NEW face, NEW mbrOnly, NEW nf
  PROVE  MovesSides(s, AddFaceSplit(s, d, face, mbrOnly, nf).topo, nf)
<1> DEFINE ring    == Ring(s, d)
           isccw   == RingSweep(s, ring) >= 0
           outside == face # Universe /\ ~ isccw
           box     == SplitBox(s, ring, outside, face)
           narrowed == [s EXCEPT !.mbr[face] = box]
           divided  == [s EXCEPT
              !.mbr  = WithRow(@, nf, box),
              !.edge = [e \in DOMAIN @ |-> SplitEdgeRow(s, e, ring, outside, face, nf)],
              !.node = [n \in DOMAIN @ |-> SplitNodeFace(s, n, ring, outside, face, nf)]]
<1>1. AddFaceSplit(s, d, face, mbrOnly, nf) \in
        {[face |-> 0, topo |-> s], [face |-> -1, topo |-> s],
         [face |-> -1, topo |-> narrowed], [face |-> nf, topo |-> divided]}
  BY DEF AddFaceSplit
<1> HIDE DEF box, outside, ring
<1>2. narrowed.areal = s.areal /\ narrowed.edge = s.edge
  BY DEF Typed, Tables
<1>3. /\ divided.areal = s.areal
      /\ divided.edge = [x \in DOMAIN s.edge |-> SplitEdgeRow(s, x, ring, outside, face, nf)]
  BY DEF Typed, Tables
<1> HIDE DEF narrowed, divided
<1>4. ASSUME NEW x \in DOMAIN s.edge
      PROVE  /\ divided.edge[x].face_left \in {s.edge[x].face_left, nf}
             /\ divided.edge[x].face_right \in {s.edge[x].face_right, nf}
  <2>1. s.edge[x] \in EdgeRow /\ divided.edge[x] = SplitEdgeRow(s, x, ring, outside, face, nf)
    BY <1>3 DEF Typed, IsTopology
  <2>2. PICK fl \in {s.edge[x].face_left, nf}, fr \in {s.edge[x].face_right, nf} :
          divided.edge[x] \in
            {s.edge[x], [s.edge[x] EXCEPT !.face_left = fl, !.face_right = fr]}
    BY <2>1 DEF SplitEdgeRow
  <2> QED BY <2>1, <2>2 DEF EdgeRow
<1>5. MovesSides(s, s, nf) /\ MovesSides(s, narrowed, nf) /\ MovesSides(s, divided, nf)
  BY <1>2, <1>3, <1>4 DEF MovesSides
<1> QED BY <1>1, <1>5

\* Asked for the mbr of a face only, it divides no face but the universe.
KeepsSides(s, t) == t.edge = s.edge

LEMMA NarrowingKeepsSides ==
  ASSUME NEW s, Typed(s), NEW d, NEW face, face # Universe, NEW nf
  PROVE  KeepsSides(s, AddFaceSplit(s, d, face, TRUE, nf).topo)
<1> DEFINE ring    == Ring(s, d)
           outside == face # Universe /\ ~ (RingSweep(s, ring) >= 0)
           narrowed == [s EXCEPT !.mbr[face] = SplitBox(s, ring, outside, face)]
           split   == AddFaceSplit(s, d, face, TRUE, nf)
<1>1. split \in {[face |-> 0, topo |-> s], [face |-> -1, topo |-> s], [face |-> -1, topo |-> narrowed]}
  BY DEF AddFaceSplit
<1>2. narrowed.edge = s.edge
  BY DEF Typed, Tables
<1> HIDE DEF narrowed, split
<1>3. split.topo.edge = s.edge
  BY <1>1, <1>2
<1> QED BY <1>3 DEF split, KeepsSides

\* The objects of the face that is split have both parts of it, and no object has
\* the universe: what asks to have one side of the new edge has the other too.
LEMMA SplitSidesAgree ==
  ASSUME NEW s, Typed(s), NEW e \in DOMAIN s.edge, NEW f \in Faces,
         s.edge[e].face_left = f, s.edge[e].face_right = f,
         NEW nf \in FaceIds, nf \notin s.areal, NEW spare \in FaceIds, spare \notin s.areal,
         Universe \notin s.areal
  PROVE  LET t == SplitModFace(s, e, f, nf, spare)
         IN  (t.edge[e].face_left \in t.areal) = (t.edge[e].face_right \in t.areal)
<1> DEFINE onLeft  == AddFaceSplit(s, e, f, FALSE, nf)
           onRight == AddFaceSplit(s, -e, f, FALSE, nf)
           again   == AddFaceSplit(onLeft.topo, -e, f, TRUE, spare)
           split   == RightSide(s, onLeft, e, f, nf, spare)
           t       == SplitModFace(s, e, f, nf, spare)
           sides(v) == {v.edge[e].face_left, v.edge[e].face_right}
<1>1. /\ onLeft.topo.areal = s.areal /\ sides(onLeft.topo) \subseteq {f, nf}
      /\ onRight.topo.areal = s.areal /\ sides(onRight.topo) \subseteq {f, nf}
  <2>1. MovesSides(s, onLeft.topo, nf) /\ MovesSides(s, onRight.topo, nf)
    BY AddFaceSplitSides
  <2> HIDE DEF onLeft, onRight
  <2> QED BY <2>1 DEF MovesSides
<1>2. /\ Typed(onLeft.topo) /\ e \in DOMAIN onLeft.topo.edge /\ Typed(onRight.topo)
      /\ onLeft.face \in {-1, 0, nf} /\ onRight.face \in {-1, 0, nf}
      /\ f # Universe => onLeft.face \in {0, nf} /\ onRight.face \in {0, nf}
  <2>1. /\ Typed(onLeft.topo) /\ Relabelled(s, onLeft.topo) /\ Typed(onRight.topo)
        /\ onLeft.face \in {-1, 0, nf} /\ onRight.face \in {-1, 0, nf}
        /\ f # Universe => onLeft.face \in {0, nf} /\ onRight.face \in {0, nf}
    BY AddFaceSplitRelabels
  <2> HIDE DEF onLeft, onRight
  <2> QED BY <2>1 DEF Relabelled
<1>3. /\ onLeft = [face |-> onLeft.face, topo |-> onLeft.topo]
      /\ split = IF onLeft.face = 0 THEN onLeft
                 ELSE IF onLeft.face > 0 THEN [onLeft EXCEPT !.topo = again.topo]
                 ELSE onRight
  BY DEF AddFaceSplit, RightSide
<1>4. t = KeepSplit(s, split, f)
  BY DEF SplitModFace
<1> HIDE DEF onLeft, onRight, split, t
<1>5. /\ again.topo.areal = s.areal /\ Typed(again.topo)
      /\ sides(again.topo) \subseteq {f, nf, spare}
      /\ f # Universe => sides(again.topo) \subseteq {f, nf}
  <2>1. MovesSides(onLeft.topo, again.topo, spare)
    BY <1>2, AddFaceSplitSides
  <2>a. f # Universe => KeepsSides(onLeft.topo, again.topo)
    BY <1>2, NarrowingKeepsSides
  <2>2. Typed(again.topo)
    BY <1>2, AddFaceSplitRelabels
  <2> HIDE DEF again
  <2>3. /\ again.topo.edge[e].face_left \in {onLeft.topo.edge[e].face_left, spare}
        /\ again.topo.edge[e].face_right \in {onLeft.topo.edge[e].face_right, spare}
        /\ again.topo.areal = onLeft.topo.areal
    BY <1>2, <2>1 DEF MovesSides
  <2> QED BY <1>1, <2>2, <2>3, <2>a DEF KeepsSides
<1> HIDE DEF again
<1>6. nf \in Int /\ nf > 0
  BY IdentifiersArePositive
<1>7. /\ split.topo.areal = s.areal /\ Typed(split.topo)
      /\ sides(split.topo) \subseteq {f, nf, spare}
      /\ f # Universe => split.face \in {0, nf} /\ sides(split.topo) \subseteq {f, nf}
      /\ split.face \in {-1, 0, nf}
  <2>1. \/ split = onLeft \/ split = onRight
        \/ split = [face |-> onLeft.face, topo |-> again.topo]
    BY <1>3
  <2> HIDE DEF sides
  <2>2. split.topo \in {onLeft.topo, onRight.topo, again.topo} /\ split.face \in {onLeft.face, onRight.face}
    BY <2>1
  <2> QED BY <1>1, <1>2, <1>5, <2>2
<1> HIDE DEF split
<1>8. CASE split.face # nf
  <2>1. t = s
    BY <1>4, <1>6, <1>7, <1>8 DEF KeepSplit
  <2> QED BY <2>1 DEF t
<1>9. CASE split.face = nf /\ f = Universe
  <2>1. t = split.topo
    BY <1>4, <1>6, <1>9 DEF KeepSplit
  <2> QED BY <1>7, <1>9, <2>1 DEF t
<1>10. CASE split.face = nf /\ f # Universe
  <2>1. t = TopoGeomFaceSplit(split.topo, f, nf, -1)
    BY <1>4, <1>6, <1>10 DEF KeepSplit
  <2>2. /\ t.edge = split.topo.edge
        /\ t.areal = IF f \notin s.areal THEN s.areal ELSE s.areal \cup {nf}
    BY <1>7, <2>1 DEF TopoGeomFaceSplit, Typed, Tables
  <2>3. (f \in t.areal) = (nf \in t.areal)
    BY <2>2
  <2>4. t.edge[e].face_left \in {f, nf} /\ t.edge[e].face_right \in {f, nf}
    BY <1>7, <1>10, <2>2
  <2> QED BY <2>3, <2>4 DEF t
<1> QED BY <1>8, <1>9, <1>10

LEMMA AddedEdgeIsRemovable ==
  ASSUME NEW s, Sound(s), Refers(s), NEW n1 \in DOMAIN s.node, NEW n2 \in DOMAIN s.node,
         NEW g, NEW f \in Faces,
         NEW a1, a1.cw \in DartsAt(s, n1) \cup {0},
         NEW a2, a2.cw \in DartsAt(s, n2) \cup {0},
         NEW e \in EdgeIds \ DOMAIN s.edge,
         NEW nf \in FaceIds \ DOMAIN s.mbr, NEW spare \in FaceIds \ DOMAIN s.mbr
  PROVE  CanRemEdge(AddEdgeModFace(s, n1, n2, g, f, a1, a2, e, nf, spare), e)
<1> DEFINE t == LinkEdge(s, n1, n2, g, f, a1, a2, e)
           u == AddEdgeModFace(s, n1, n2, g, f, a1, a2, e, nf, spare)
<1>1. Extends(s, u, n1, n2, g, e)
  BY AddEdgeExtends
<1>2. Typed(t)
  BY LinkEdgeSound DEF Sound
<1>3. t.areal = s.areal /\ t.edge[e].face_left = f /\ t.edge[e].face_right = f /\ e \in DOMAIN t.edge
  <2>1. t.areal = s.areal
    BY DEF LinkEdge, WithContainingFace, WithEdge, Sound, Typed, Tables
  <2>2. t.edge[e] = NewEdgeRow(s, n1, n2, f, a1, a2, e) /\ e \in DOMAIN t.edge
    BY DEF LinkEdge, WithContainingFace, WithEdge, WithRow, Sound, Typed, Tables
  <2> HIDE DEF t
  <2> QED BY <2>1, <2>2 DEF NewEdgeRow
<1>4. s.areal \subseteq DOMAIN s.mbr /\ DOMAIN s.mbr \subseteq FaceIds /\ Universe \notin FaceIds
  BY IdentifiersArePositive DEF Refers, Sound, Typed, IsTopology, Universe
<1>5. u = IF MaySplitFace(s, n1, n2) THEN SplitModFace(t, e, f, nf, spare) ELSE t
  BY DEF AddEdgeModFace
<1> HIDE DEF t, u
<1>6. (u.edge[e].face_left \in u.areal) = (u.edge[e].face_right \in u.areal)
  <2>1. LET v == SplitModFace(t, e, f, nf, spare)
        IN  (v.edge[e].face_left \in v.areal) = (v.edge[e].face_right \in v.areal)
    BY <1>2, <1>3, <1>4, SplitSidesAgree
  <2> QED BY <1>3, <1>5, <2>1
<1>7. e \in DOMAIN u.edge /\ e \notin u.lineal
  BY <1>1 DEF Extends, Refers
<1> QED BY <1>6, <1>7 DEF CanRemEdge, TopoGeomAllowsRemEdge, u

-----------------------------------------------------------------------------
(* The specification.                                                      *)

LEMMA AddedEdgeIsForgotten ==
  ASSUME Sound(db), Flat(db), Turning(db), Refers(db), Tabular(db)
  PROVE  AddThenRemoveRelinks
<1>1. SUFFICES ASSUME NEW n1 \in DOMAIN node, NEW n2 \in DOMAIN node, NEW g \in Curves,
                      CanAddEdge(db, n1, n2, g),
                      NEW a1 \in StartEnds(db, n1, n2, g), NEW a2 \in EndEnds(db, n1, n2, g),
                      NEW e \in NewEdgeId(g, {}), NEW nf \in NewFaceId({}),
                      NEW nf1 \in NewFaceId({nf}),
                      NewEdgeFace(db, n1, n2, a1, a2) # -1
               PROVE  LET f == NewEdgeFace(db, n1, n2, a1, a2)
                          t == AddEdgeModFace(db, n1, n2, g, f, a1, a2, e, nf, nf1)
                          u == AddEdgeNewFaces(db, n1, n2, g, f, a1, a2, e, nf, nf1)
                      IN  /\ CanRemEdge(t, e)
                          /\ \A modFace \in BOOLEAN, h \in FaceIds :
                               /\ SameButFaces(db, RemEdge(t, e, modFace, h))
                               /\ SameButFaces(db, RemEdge(u, e, modFace, h))
  BY DEF AddThenRemoveRelinks
<1> DEFINE f == NewEdgeFace(db, n1, n2, a1, a2)
           t == AddEdgeModFace(db, n1, n2, g, f, a1, a2, e, nf, nf1)
           u == AddEdgeNewFaces(db, n1, n2, g, f, a1, a2, e, nf, nf1)
<1>2. /\ n1 \in DOMAIN db.node /\ n2 \in DOMAIN db.node /\ g \in Line
      /\ e \in EdgeIds \ DOMAIN db.edge
      /\ nf \in FaceIds \ DOMAIN db.mbr /\ nf1 \in FaceIds \ DOMAIN db.mbr
  BY TablesOfDb, NewIdentifiersAreFree, NewFaceIsFree, InputsAreGeometries
<1>3. /\ a1.cw \in DartsAt(db, n1) \cup {0} /\ a1.ccw \in DartsAt(db, n1) \cup {0}
      /\ a2.cw \in DartsAt(db, n2) \cup {0} /\ a2.ccw \in DartsAt(db, n2) \cup {0}
  BY AdjacentEndsAreEnds DEF StartEnds, EndEnds
<1>4. f \in Faces
  <2>1. f \in Faces \cup {-1}
    BY <1>2, <1>3, NewEdgeFaceTyped DEF Sound
  <2> QED BY <1>1, <2>1
<1> HIDE DEF f
<1>5. Extends(db, t, n1, n2, g, e) /\ Extends(db, u, n1, n2, g, e)
  BY <1>2, <1>3, <1>4, AddEdgeExtends
<1>6. Sound(t) /\ Flat(t) /\ Turning(t)
  BY <1>1, <1>2, <1>3, <1>4, AddEdgeModFaceSound, AddEdgeModFaceFlat, AddEdgeTurns
<1>7. Sound(u) /\ Flat(u) /\ Turning(u)
  BY <1>1, <1>2, <1>3, <1>4, AddEdgeNewFacesSound, AddEdgeNewFacesFlat, AddEdgeTurns
<1>8. CanRemEdge(t, e)
  BY <1>2, <1>3, <1>4, AddedEdgeIsRemovable
<1> HIDE DEF t, u
<1>9. ASSUME NEW modFace \in BOOLEAN, NEW h \in FaceIds
      PROVE  /\ SameButFaces(db, RemEdge(t, e, modFace, h))
             /\ SameButFaces(db, RemEdge(u, e, modFace, h))
  <2>1. h \in Faces /\ e \notin DOMAIN db.edge /\ IsTable(db.line)
    BY <1>2 DEF Faces, Tabular
  <2> QED BY <1>5, <1>6, <1>7, <2>1, RemovedEdgeIsForgotten
<1> QED BY <1>8, <1>9 DEF t, u, f

\* RemEdgeModFace and RemEdgeNewFace of the edge that AddEdgeModFace or
\* AddEdgeNewFaces has just added leave every node with its place and isolation
\* mark, every edge with its line, ends and links, and every lineal object as
\* before, and after AddEdgeModFace no TopoGeometry object stands in the way.
\* Links come back because there is one way only to turn around the nodes of a
\* drawing, and both calls keep it.
THEOREM AddingThenRemovingRelinks ==
  ASSUME SplitsAreSafe, "RemovesUsedEdge" \in Avoids
  PROVE  Spec => []AddThenRemoveRelinks
<1> DEFINE Inv == /\ Sound(db) /\ Flat(db) /\ Turning(db) /\ IsFiniteSet(DOMAIN db.edge)
                  /\ Refers(db) /\ Tabular(db)
<1>1. Init => Inv
  <2>1. Init => Refers(db)
    BY DEF Init, Refers, db
  <2> QED BY <2>1, InitSound, InitFlat, InitTurns, InitFinite, InitTabular
<1>2. Inv /\ [NextCall]_vars => Inv'
  BY StepSound, StepFlat, StepTurns, StepFinite, StepRefers, StepTabulates
<1>3. Inv => AddThenRemoveRelinks
  BY AddedEdgeIsForgotten
<1> QED BY <1>1, <1>2, <1>3, PTL DEF Spec
================================================================================
