------------------------------- MODULE TopoOps ------------------------------
(***************************************************************************)
(* The editing operations of rtgeom_topo.c (SQL/MM names) as functions of  *)
(* the topology.  For each operation there is a condition CanX, what the   *)
(* code checks before it reports an error with rterror, and the topology X *)
(* that it leaves when it succeeds.  The identifiers the backend hands out *)
(* are parameters.  An operation that reports an error, also in the middle *)
(* of its writes, leaves no topology here: the callers of the library run  *)
(* an operation in a transaction of the backend.                           *)
(*                                                                         *)
(* The checks are those of skipISOChecks = 0.                              *)
(*                                                                         *)
(* An operator X_mutant before an operator X is X with a plausible slip of *)
(* the pen.  No specification uses it: README.md tells which property      *)
(* would catch it.                                                         *)
(***************************************************************************)
EXTENDS Topology

-----------------------------------------------------------------------------
(* Nodes.                                                                  *)

\* face is -1 when the caller leaves it to the library to find it.
CanAddIsoNode(s, face, p) ==
  /\ ~ ExistsCoincidentNode(s, p)
  /\ ~ ExistsEdgeIntersectingPoint(s, p)
  /\ face \in {-1, FaceContaining(s, p)}

WithNode(s, n, face, p) ==
  [s EXCEPT !.node = WithRow(@, n, face), !.point = WithRow(@, n, p)]

AddIsoNode(s, face, p, n) ==
  WithNode(s, n, IF face = -1 THEN FaceContaining(s, p) ELSE face, p)

\* _rtt_GetIsoNode
IsIsoNode(s, n) == n \in DOMAIN s.node /\ s.node[n] # NotIsolated

\* The new place is not checked to be in the containing face of the node.
CanMoveIsoNode(s, n, p) ==
  /\ IsIsoNode(s, n)
  /\ ~ ExistsCoincidentNode(s, p)
  /\ ~ ExistsEdgeIntersectingPoint(s, p)

MoveIsoNode(s, n, p) == [s EXCEPT !.point[n] = p]

WithoutNode_mutant(s, n) == [s EXCEPT !.node = WithoutRows(@, {n})]
WithoutNode(s, n) ==
  [s EXCEPT !.node = WithoutRows(@, {n}), !.point = WithoutRows(@, {n})]

-----------------------------------------------------------------------------
(* Isolated edges.                                                         *)

WithEdge(s, e, row, g) ==
  [s EXCEPT !.edge = WithRow(@, e, row), !.line = WithRow(@, e, g)]
WithoutEdges(s, es) ==
  [s EXCEPT !.edge = WithoutRows(@, es), !.line = WithoutRows(@, es)]

WithContainingFace(s, ns, face) ==
  [s EXCEPT !.node = [n \in DOMAIN @ |-> IF n \in ns THEN face ELSE @[n]]]

CanAddIsoEdge(s, n1, n2, g) ==
  /\ n1 # n2
  /\ IsSimple(g)
  /\ IsIsoNode(s, n1)
  /\ IsIsoNode(s, n2)
  /\ s.node[n1] = s.node[n2]
  /\ StartPoint(g) = s.point[n1]
  /\ EndPoint(g) = s.point[n2]
  /\ ~ EdgeCrossing(s, n1, n2, g, 0)

AddIsoEdge(s, n1, n2, g, e) ==
  LET row == [start_node |-> n1, end_node |-> n2,
              next_left |-> -e, next_right |-> e,
              face_left |-> s.node[n1], face_right |-> s.node[n1]]
  IN  WithContainingFace(WithEdge(s, e, row, g), {n1, n2}, NotIsolated)

\* The TopoGeometry objects are not asked.
CanRemIsoEdge(s, e) ==
  /\ e \in DOMAIN s.edge
  /\ s.edge[e].face_left = s.edge[e].face_right
  /\ Incident(s, s.edge[e].start_node) \cup Incident(s, s.edge[e].end_node) = {e}

RemIsoEdge_mutant(s, e) ==
  WithContainingFace(WithoutEdges(s, {e}), {s.edge[e].start_node}, s.edge[e].face_left)
RemIsoEdge(s, e) ==
  WithContainingFace(WithoutEdges(s, {e}),
                     {s.edge[e].start_node, s.edge[e].end_node},
                     s.edge[e].face_left)

-----------------------------------------------------------------------------
(* Splitting an edge at a point.                                           *)

CanSplitEdge(s, e, p) ==
  /\ e \in DOMAIN s.edge
  /\ ~ ExistsCoincidentNode(s, p)
  /\ InInterior(p, s.line[e])

\* Edge e keeps the part before p, a new edge e2 takes the rest.
ModEdgeSplit(s, e, p, n, e2) ==
  LET old  == s.edge[e]
      tail == [old EXCEPT !.start_node = n,
                          !.next_left  = IF @ = -e THEN -e2 ELSE @,
                          !.next_right = -e]
      head == [old EXCEPT !.next_left = e2, !.end_node = n]
      rows == WithRow([s.edge EXCEPT ![e] = head], e2, tail)
      relinked(x) ==
        [rows[x] EXCEPT
           !.next_right = IF @ = -e /\ rows[x].start_node = old.end_node THEN -e2 ELSE @,
           !.next_left  = IF @ = -e /\ rows[x].end_node = old.end_node THEN -e2 ELSE @]
  IN  [WithNode(s, n, NotIsolated, p) EXCEPT
         !.edge   = [x \in DOMAIN rows |-> IF x = e2 THEN tail ELSE relinked(x)],
         !.line   = WithRow([@ EXCEPT ![e] = HeadUpTo(s.line[e], p)],
                            e2, TailFrom(s.line[e], p)),
         !.lineal = IF e \in @ THEN @ \cup {e2} ELSE @]

\* Edge e gives way to e1, the part before p, and e2, the rest.
NewEdgesSplit(s, e, p, n, e1, e2) ==
  LET old   == s.edge[e]
      head  == [old EXCEPT !.end_node = n,
                           !.next_left = e2,
                           !.next_right = IF @ = e THEN e1 ELSE IF @ = -e THEN -e2 ELSE @]
      tail  == [old EXCEPT !.start_node = n,
                           !.next_right = -e1,
                           !.next_left = IF @ = -e THEN -e2 ELSE IF @ = e THEN e1 ELSE @]
      rows  == WithRow(WithRow(WithoutRows(s.edge, {e}), e1, head), e2, tail)
      relinked(x) ==
        [rows[x] EXCEPT
           !.next_right = IF @ = e /\ rows[x].start_node = old.start_node THEN e2
                          ELSE IF @ = -e /\ rows[x].start_node = old.end_node THEN -e1
                          ELSE @,
           !.next_left  = IF @ = e /\ rows[x].end_node = old.start_node THEN e1
                          ELSE IF @ = -e /\ rows[x].end_node = old.end_node THEN -e2
                          ELSE @]
  IN  [WithNode(s, n, NotIsolated, p) EXCEPT
         !.edge   = [x \in DOMAIN rows |-> relinked(x)],
         !.line   = WithRow(WithRow(WithoutRows(@, {e}), e1, HeadUpTo(s.line[e], p)),
                            e2, TailFrom(s.line[e], p)),
         !.lineal = IF e \in @ THEN (@ \ {e}) \cup {e1, e2} ELSE @]

-----------------------------------------------------------------------------
(* Adding an edge.                                                         *)

\* Is the point on the side of the ring that goes to the new face?
Separated_mutant(s, ring, outside, q) == Inside(q, RingLines(s, ring))
Separated(s, ring, outside, q) == Inside(q, RingLines(s, ring)) # outside

\* The mbr of the new face: the box of the ring, or that of the old face when
\* the new one is around it.
SplitBox(s, ring, outside, face) ==
  IF outside THEN s.mbr[face] ELSE RingBox(s, ring)

\* The rows of `face` are looked at in the box of the ring, and all of them when
\* the new face is around it: newface.mbr is NULL then.
Fetched(s, ring, outside, box) == outside \/ BoxesMeet(box, RingBox(s, ring))

\* An edge of the ring has the new face on its side of the ring; another one on
\* both sides that were `face`, when its point is in the new face.
SplitEdgeRow(s, e, ring, outside, face, nf) ==
  LET side(d, old) ==
        IF {e, -e} \cap ring # {}
        THEN IF d \in ring THEN nf ELSE old
        ELSE IF old = face /\ Separated(s, ring, outside, InteriorPoint(s.line[e]))
             THEN nf ELSE old
  IN  IF /\ face \in {s.edge[e].face_left, s.edge[e].face_right}
         /\ Fetched(s, ring, outside, LineBox(s.line[e]))
      THEN [s.edge[e] EXCEPT !.face_left = side(e, @), !.face_right = side(-e, @)]
      ELSE s.edge[e]

\* An isolated node of `face` on the new face's side of the ring moves to it.
SplitNodeFace(s, n, ring, outside, face, nf) ==
  IF /\ s.node[n] = face
     /\ Fetched(s, ring, outside, BoxOf({s.point[n]}))
     /\ Separated(s, ring, outside, s.point[n])
  THEN nf ELSE s.node[n]

\* _rtt_AddFaceSplit.  `face` is the face known to be on both sides of the new
\* edge and nf the identifier for a new one.  The result holds the returned
\* value: a face identifier, 0 when the edge does not separate its two sides,
\* -1 when no face is to be created on the side of d.
AddFaceSplit(s, d, face, mbrOnly, nf) ==
  LET ring    == Ring(s, d)
      isccw   == RingSweep(s, ring) >= 0
      outside == face # Universe /\ ~ isccw
      box     == SplitBox(s, ring, outside, face)
  IN  IF -d \in ring
      THEN [face |-> 0, topo |-> s]
      ELSE IF face = Universe /\ ~ isccw
      THEN [face |-> -1, topo |-> s]
      ELSE IF mbrOnly /\ face # Universe
      THEN [face |-> -1,
            topo |-> IF isccw THEN [s EXCEPT !.mbr[face] = box] ELSE s]
      ELSE [face |-> nf,
            topo |-> [s EXCEPT
              !.mbr  = WithRow(@, nf, box),
              !.edge = [e \in DOMAIN @ |-> SplitEdgeRow(s, e, ring, outside, face, nf)],
              !.node = [n \in DOMAIN @ |-> SplitNodeFace(s, n, ring, outside, face, nf)]]]

\* updateTopoGeomFaceSplit: what was composed of face f now has its parts too.
TopoGeomFaceSplit(s, f, new1, new2) ==
  [s EXCEPT !.areal = IF f \notin @ THEN @
                      ELSE IF new2 = -1 THEN @ \cup {new1}
                      ELSE (@ \ {f}) \cup {new1, new2}]

\* The face splitting of _rtt_AddEdge once edge e is in, with face f on both
\* sides.  With modFace the face on the left of e is new and f keeps the rest:
\* `left` is what the left side gave, and the right side is asked to narrow the
\* mbr of f, or to be the new face when the left one is in the universe.
RightSide(s, left, e, f, nf, spare) ==
  IF left.face = 0 THEN left
  ELSE IF left.face > 0
  THEN [left EXCEPT !.topo = AddFaceSplit(left.topo, -e, f, TRUE, spare).topo]
  ELSE AddFaceSplit(s, -e, f, FALSE, nf)

KeepSplit(s, split, f) ==
  IF split.face <= 0 THEN s
  ELSE IF f = Universe THEN split.topo
  ELSE TopoGeomFaceSplit(split.topo, f, split.face, -1)

SplitModFace(s, e, f, nf, spare) ==
  KeepSplit(s, RightSide(s, AddFaceSplit(s, e, f, FALSE, nf), e, f, nf, spare), f)

\* Without it both sides are new and f goes away, unless it is the universe.
SplitNewFaces(s, e, f, nf, nf1) ==
  LET onRight == AddFaceSplit(s, -e, f, FALSE, nf1)
      onLeft  == AddFaceSplit(onRight.topo, e, f, FALSE, nf)
      parts   == TopoGeomFaceSplit(onLeft.topo, f, onLeft.face, onRight.face)
  IN  IF onRight.face = 0 THEN s
      ELSE IF f = Universe THEN onLeft.topo
      ELSE [parts EXCEPT !.mbr = WithoutRows(@, {f})]

\* The faces on both sides of the new edge: the one its isolated ends name, else
\* what the edges adjacent to its start (a1) bind; -1 unknown.  first holds what
\* is known before the end of the edge is looked at.
NewEdgeSides(s, n1, n2, a1, a2) ==
  LET linked1 == DartsAt(s, n1) # {}
      linked2 == DartsAt(s, n2) # {}
      named   == {s.node[n1], s.node[n2]} \ {NotIsolated}
      given   == IF named = {} THEN -1 ELSE CHOOSE f \in named : TRUE
      orElse(f, g) == IF f = -1 THEN g ELSE f
      right1  == IF linked1 THEN orElse(given, CwFace(s, a1)) ELSE given
      left1   == IF linked1 THEN orElse(given, CcwFace(s, a1)) ELSE given
  IN  [firstRight |-> right1,
       firstLeft  |-> left1,
       right |-> IF linked2 THEN orElse(right1, CcwFace(s, a1)) ELSE right1,
       left  |-> IF linked2 THEN orElse(left1, CwFace(s, a1)) ELSE left1]

\* Neither the ends nor the adjacent edges contradict each other.  Only with
\* face handling are the faces at the end compared with those at the start.
SidesAgree(s, n1, n2, a1, a2, faceHandling) ==
  LET sides == NewEdgeSides(s, n1, n2, a1, a2)
      agree(f, g) == -1 \in {f, g} \/ f = g
      bindsOneFace(n, a) == DartsAt(s, n) # {} => agree(CwFace(s, a), CcwFace(s, a))
  IN  /\ Cardinality({s.node[n1], s.node[n2]} \ {NotIsolated}) <= 1
      /\ bindsOneFace(n1, a1)
      /\ bindsOneFace(n2, a2)
      /\ (faceHandling /\ DartsAt(s, n2) # {}) =>
           /\ sides.firstRight \in {-1, CcwFace(s, a2)}
           /\ sides.firstLeft \in {-1, CwFace(s, a2)}
      /\ sides.right = sides.left

\* The face the new edge is in, -1 when there is none to be found.
NewEdgeFace(s, n1, n2, a1, a2) ==
  IF SidesAgree(s, n1, n2, a1, a2, TRUE) THEN NewEdgeSides(s, n1, n2, a1, a2).left ELSE -1

CanAddEdge_mutant(s, n1, n2, g) ==
  /\ IsSimple(g)
  /\ {n1, n2} \subseteq DOMAIN s.node
  /\ StartPoint(g) = s.point[n1]
  /\ EndPoint(g) = s.point[n2]

CanAddEdge(s, n1, n2, g) ==
  /\ IsSimple(g)
  /\ {n1, n2} \subseteq DOMAIN s.node
  /\ StartPoint(g) = s.point[n1]
  /\ EndPoint(g) = s.point[n2]
  /\ ~ EdgeCrossing(s, n1, n2, g, 0)

\* The ends adjacent to the new edge at its start and at its end.
StartEnds(s, n1, n2, g) ==
  AdjacentEnds(s, n1, Direction(g[1], g[2]),
               IF n1 = n2 THEN {Direction(g[Len(g)], g[Len(g) - 1])} ELSE {}, -1)
EndEnds_mutant(s, n1, n2, g) ==
  AdjacentEnds(s, n2, Direction(g[Len(g) - 1], g[Len(g)]),
               IF n1 = n2 THEN {Direction(g[1], g[2])} ELSE {}, -1)
EndEnds(s, n1, n2, g) ==
  AdjacentEnds(s, n2, Direction(g[Len(g)], g[Len(g) - 1]),
               IF n1 = n2 THEN {Direction(g[1], g[2])} ELSE {}, -1)

\* The dart that continues into the node where `a` is adjacent.
NextAfter(a, back) == IF a.cw # 0 THEN a.cw ELSE back

\* The row of the new edge e, with face f on both sides.
NewEdgeRow(s, n1, n2, f, a1, a2, e) ==
  LET alone(d) == IF n1 # n2 THEN d ELSE -d
      nextRight == IF DartsAt(s, n1) # {} THEN NextAfter(a1, -e) ELSE alone(e)
      nextLeft  == IF DartsAt(s, n2) # {} THEN NextAfter(a2, e) ELSE alone(-e)
  IN  [start_node |-> n1, end_node |-> n2,
       next_left |-> nextLeft, next_right |-> nextRight,
       face_left |-> f, face_right |-> f]

\* The link `old` once the darts adjacent to the new edge continue with it.
Relinked(s, n1, n2, a1, a2, e, d, old) ==
  IF DartsAt(s, n2) # {} /\ d = -a2.ccw THEN -e
  ELSE IF DartsAt(s, n1) # {} /\ d = -a1.ccw THEN e
  ELSE old

\* The new edge e with its links, in face f, before faces are split.
LinkEdge(s, n1, n2, g, f, a1, a2, e) ==
  LET relinked(x) ==
        [s.edge[x] EXCEPT !.next_left  = Relinked(s, n1, n2, a1, a2, e, x, @),
                          !.next_right = Relinked(s, n1, n2, a1, a2, e, -x, @)]
      t == [s EXCEPT !.edge = [x \in DOMAIN @ |-> relinked(x)]]
  IN  WithContainingFace(WithEdge(t, e, NewEdgeRow(s, n1, n2, f, a1, a2, e), g),
                         {n \in {n1, n2} : DartsAt(s, n) = {}}, NotIsolated)

\* Faces can only be split when both ends were linked, or the edge is closed.
MaySplitFace_mutant(s, n1, n2) == DartsAt(s, n1) # {} /\ DartsAt(s, n2) # {}
MaySplitFace(s, n1, n2) ==
  n1 = n2 \/ (DartsAt(s, n1) # {} /\ DartsAt(s, n2) # {})

AddEdgeModFace(s, n1, n2, g, f, a1, a2, e, nf, spare) ==
  LET t == LinkEdge(s, n1, n2, g, f, a1, a2, e)
  IN  IF MaySplitFace(s, n1, n2) THEN SplitModFace(t, e, f, nf, spare) ELSE t

AddEdgeNewFaces(s, n1, n2, g, f, a1, a2, e, nf, nf1) ==
  LET t == LinkEdge(s, n1, n2, g, f, a1, a2, e)
  IN  IF MaySplitFace(s, n1, n2) THEN SplitNewFaces(t, e, f, nf, nf1) ELSE t

-----------------------------------------------------------------------------
(* Removing an edge.                                                       *)

\* checkTopoGeomRemEdge: no lineal object uses the edge, no areal object has
\* the face on one side of it only.
TopoGeomAllowsRemEdge_mutant(s, e) == e \notin s.lineal
TopoGeomAllowsRemEdge(s, e) ==
  /\ e \notin s.lineal
  /\ (s.edge[e].face_left \in s.areal) = (s.edge[e].face_right \in s.areal)

CanRemEdge(s, e) == e \in DOMAIN s.edge /\ TopoGeomAllowsRemEdge(s, e)

\* The links that pointed to either side of edge e now skip it.
UnlinkEdge(s, e) ==
  LET row == s.edge[e]
      afterBack == IF row.next_left # e THEN row.next_left ELSE row.next_right
      afterFore == IF row.next_right # -e THEN row.next_right ELSE row.next_left
      skip(d) == IF d = -e THEN afterBack ELSE IF d = e THEN afterFore ELSE d
      near == Incident(s, row.start_node) \cup Incident(s, row.end_node)
  IN  [s EXCEPT !.edge = [x \in DOMAIN @ |->
         IF x \in near \ {e}
         THEN [s.edge[x] EXCEPT !.next_left = skip(@), !.next_right = skip(@)]
         ELSE s.edge[x]]]

\* _rtt_UpdateEdgeFaceRef and _rtt_UpdateNodeFaceRef
ReplaceFace_mutant(s, old, new) ==
  LET sub(f) == IF f \in old THEN new ELSE f
  IN  [s EXCEPT
         !.edge = [x \in DOMAIN @ |-> [s.edge[x] EXCEPT !.face_left = sub(@)]],
         !.node = [n \in DOMAIN @ |-> sub(@[n])]]
ReplaceFace(s, old, new) ==
  LET sub(f) == IF f \in old THEN new ELSE f
  IN  [s EXCEPT
         !.edge = [x \in DOMAIN @ |-> [s.edge[x] EXCEPT !.face_left = sub(@), !.face_right = sub(@)]],
         !.node = [n \in DOMAIN @ |-> sub(@[n])]]

\* updateTopoGeomFaceHeal
TopoGeomFaceHeal_mutant(s, f1, f2, new) ==
  [s EXCEPT !.areal = IF {f1, f2} \cap @ = {} THEN @ ELSE @ \cup {new}]
TopoGeomFaceHeal(s, f1, f2, new) ==
  [s EXCEPT !.areal = IF {f1, f2} \cap @ = {} THEN @ ELSE (@ \ {f1, f2}) \cup {new}]

\* The face that takes the space of both sides of edge e: the universe when it
\* is one of them, else the right face or, without modFace, a new one.
FloodFace_mutant(s, e, modFace, nf) ==
  LET fl == s.edge[e].face_left
      fr == s.edge[e].face_right
  IN  IF fl = fr THEN fr
      ELSE IF Universe \in {fl, fr} THEN Universe
      ELSE IF modFace THEN fl ELSE nf
FloodFace(s, e, modFace, nf) ==
  LET fl == s.edge[e].face_left
      fr == s.edge[e].face_right
  IN  IF fl = fr THEN fr
      ELSE IF Universe \in {fl, fr} THEN Universe
      ELSE IF modFace THEN fr ELSE nf

\* The mbr of the face healed out of fl and fr.
HealedMbr_mutant(s, fl, fr) == s.mbr[fr]
HealedMbr(s, fl, fr) == BoxUnion(s.mbr[fl], s.mbr[fr])

HealFaces(s, fl, fr, flood) ==
  IF fl = fr THEN s
  ELSE LET grown == IF flood = Universe THEN s
                    ELSE [s EXCEPT !.mbr = WithRow(@, flood, HealedMbr(s, fl, fr))]
           gone  == {fl, fr} \ {flood}
           moved == TopoGeomFaceHeal(ReplaceFace(grown, gone, flood), fr, fl, flood)
       IN  [moved EXCEPT !.mbr = WithoutRows(@, gone)]

\* The ends of edge e that no other edge uses.
LonelyEnds_mutant(s, e) == {n \in {s.edge[e].start_node} : Incident(s, n) = {e}}
LonelyEnds(s, e) ==
  {n \in {s.edge[e].start_node, s.edge[e].end_node} : Incident(s, n) = {e}}

RemEdge(s, e, modFace, nf) ==
  LET row    == s.edge[e]
      flood  == FloodFace(s, e, modFace, nf)
      healed == HealFaces(UnlinkEdge(s, e), row.face_left, row.face_right, flood)
  IN  WithContainingFace(WithoutEdges(healed, {e}), LonelyEnds(s, e), flood)

-----------------------------------------------------------------------------
(* Healing two edges at the node they share.                               *)

\* How e1 and e2 meet: `arrive` is the dart of e1 that ends on the common node
\* and `leave` the dart of e2 that continues from it.  The end of e1 is tried
\* first, its start only when the end cannot be the common node.
Meeting_mutant(s, e1, e2) ==
  LET meets(a) == {d \in {e2, -e2} : Origin(s, d) = Target(s, a)}
      at(a)    == {[arrive |-> a, leave |-> d] : d \in meets(a)}
  IN  IF at(e1) # {} THEN at(e1) ELSE at(-e1)

Meeting(s, e1, e2) ==
  LET only(n)  == Incident(s, n) \subseteq {e1, e2}
      meets(a) == {d \in {e2, -e2} : Origin(s, d) = Target(s, a) /\ only(Target(s, a))}
      \* e2 is not closed: at most one of its darts leaves the node
      at(a)    == {[arrive |-> a, leave |-> d] : d \in meets(a)}
  IN  IF at(e1) # {} THEN at(e1) ELSE at(-e1)

\* checkTopoGeomRemNode
TopoGeomAllowsHeal_mutant(s, e1, e2) == TRUE
TopoGeomAllowsHeal(s, e1, e2) == (e1 \in s.lineal) = (e2 \in s.lineal)

CanHealEdges(s, e1, e2) ==
  /\ e1 # e2
  /\ {e1, e2} \subseteq DOMAIN s.edge
  /\ \A e \in {e1, e2} : s.edge[e].start_node # s.edge[e].end_node
  /\ TopoGeomAllowsHeal(s, e1, e2)

\* The edge healed out of e1 and e2 has the direction of e1: m.arrive followed
\* by m.leave when e1 ends on the common node, else their reverse.
HealedRow_mutant(s, e1, m) ==
  LET first == IF m.arrive > 0 THEN m.arrive ELSE -m.leave
      last  == IF m.arrive > 0 THEN m.leave ELSE -m.arrive
  IN  [s.edge[e1] EXCEPT !.start_node = Origin(s, first),
                         !.end_node   = Target(s, last)]
HealedRow(s, e1, m) ==
  LET first == IF m.arrive > 0 THEN m.arrive ELSE -m.leave
      last  == IF m.arrive > 0 THEN m.leave ELSE -m.arrive
  IN  [s.edge[e1] EXCEPT !.start_node = Origin(s, first),
                         !.end_node   = Target(s, last),
                         !.next_left  = Next(s, last),
                         !.next_right = Next(s, -first)]

HealedLine(s, m) ==
  IF m.arrive > 0 THEN Joined(Path(s, m.arrive), Path(s, m.leave))
  ELSE Joined(Path(s, -m.leave), Path(s, -m.arrive))

\* Edge `into` (e1 itself, or a new one) replaces e1 and e2.  Links to the free
\* ends of the two follow.
HealEdges(s, e1, e2, m, into) ==
  LET back   == IF m.arrive > 0 THEN -into ELSE into  \* of into, from e2's free end
      rename(d) == IF d = -m.leave THEN back
                   ELSE IF d = m.arrive THEN -back
                   ELSE d
      rows   == WithRow(s.edge, into, HealedRow(s, e1, m))
      linked == [x \in DOMAIN rows |->
                   [rows[x] EXCEPT !.next_left = rename(@), !.next_right = rename(@)]]
      gone   == {e1, e2} \ {into}
      node   == Target(s, m.arrive)
      t      == [s EXCEPT !.edge = linked, !.line = WithRow(@, into, HealedLine(s, m)),
                          !.lineal = IF e2 \in @ THEN (@ \ gone) \cup {into} ELSE @]
  IN  WithoutNode(WithoutEdges(t, gone), node)

-----------------------------------------------------------------------------
(* Changing the shape of an edge.                                          *)

\* p is strictly inside the area between the line and the chord of its ends.
InMotionArea(p, g) ==
  IF IsClosed(g) THEN Inside(p, {g})
  ELSE Inside(p, {g, <<EndPoint(g), StartPoint(g)>>})

\* No node changes side of the motion, as far as its two areas tell.
MotionSparesNodes(s, e, g) ==
  \A n \in DOMAIN s.node \ {s.edge[e].start_node, s.edge[e].end_node} :
    InMotionArea(s.point[n], s.line[e]) = InMotionArea(s.point[n], g)

CanChangeEdgeGeom(s, e, g) ==
  LET old  == s.line[e]
      row  == s.edge[e]
      n1   == row.start_node
      n2   == row.end_node
      first(h) == Direction(h[1], h[2])
      last(h)  == Direction(h[Len(h)], h[Len(h) - 1])
      around(n, u, v) == AdjacentEnds(s, n, u, IF n1 = n2 THEN {v} ELSE {}, e)
  IN  /\ IsSimple(g)
      /\ StartPoint(g) = StartPoint(old)
      /\ EndPoint(g) = EndPoint(old)
      /\ IsClosed(old) => (Sweep(old) >= 0) = (Sweep(g) >= 0)
      /\ ~ EdgeCrossing(s, n1, n2, g, e)
      /\ MotionSparesNodes(s, e, g)
      /\ around(n1, first(old), last(old)) = around(n1, first(g), last(g))
      /\ around(n2, last(old), first(old)) = around(n2, last(g), first(g))

\* The box of the area built out of the edges with face f on a side.
FaceGeometryBox(s, f) ==
  LET bounding == {e \in DOMAIN s.edge :
                     (s.edge[e].face_left = f) # (s.edge[e].face_right = f)}
  IN  BoxOf(UNION {Vertices(s.line[e]) : e \in bounding})

ChangeEdgeGeom_mutant(s, e, g) == [s EXCEPT !.line[e] = g]
ChangeEdgeGeom(s, e, g) ==
  LET t     == [s EXCEPT !.line[e] = g]
      sides == {s.edge[e].face_left, s.edge[e].face_right} \ {Universe}
  IN  [t EXCEPT !.mbr = [f \in DOMAIN @ |->
                           IF f \in sides THEN FaceGeometryBox(t, f) ELSE @[f]]]

=============================================================================
