------------------------------ MODULE TopoEdit ------------------------------
(***************************************************************************)
(* A topology under edition: any sequence of calls of the editing          *)
(* functions of librttopo.h, each in a transaction of the backend.         *)
(***************************************************************************)
EXTENDS TopoValid

CONSTANTS
  Sites,          \* points given to the functions that take a point
  Curves,         \* lines given to the functions that take a line
  NodeIdsAt(_),   \* identifiers the backend may give to a node at a point
  EdgeIdsFor(_),  \* identifiers the backend may give to an edge of a shape
  Ops,            \* names of the functions that are called
  Avoids          \* names of the calls the callers refrain from (see Calls)

ASSUME InputsAreGeometries ==
  /\ Sites \subseteq Point
  /\ Curves \subseteq Line

VARIABLES
  node, point,    \* NODE table: containing_face, geom
  edge, line,     \* EDGE table: identifiers, geom
  mbr,            \* FACE table
  areal, lineal   \* TopoGeometry objects

vars == <<node, point, edge, line, mbr, areal, lineal>>

db == [node |-> node, point |-> point, edge |-> edge, line |-> line,
       mbr |-> mbr, areal |-> areal, lineal |-> lineal]

\* The transaction of an operation ends with these tables.
Commit(t) ==
  /\ node' = t.node /\ point' = t.point
  /\ edge' = t.edge /\ line' = t.line
  /\ mbr' = t.mbr
  /\ areal' = t.areal /\ lineal' = t.lineal

\* Identifiers are taken from sequences of the backend: the model takes the
\* smallest that is free.
Smallest(ids) == {i \in ids : \A j \in ids : i <= j}
NewNodeId(p)  == Smallest((NodeIdsAt(p) \cap NodeIds) \ DOMAIN node)
NewEdgeId(g, taken) == Smallest((EdgeIdsFor(g) \cap EdgeIds) \ (DOMAIN edge \cup taken))
NewFaceId(taken)    == Smallest(FaceIds \ (DOMAIN mbr \cup taken))

Init ==
  /\ node = EmptyTable /\ point = EmptyTable
  /\ edge = EmptyTable /\ line = EmptyTable
  /\ mbr = EmptyTable
  /\ areal = {} /\ lineal = {}

-----------------------------------------------------------------------------
(* Calls the code accepts and its callers may have to refrain from, named  *)
(* in Avoids: with them the tables stop describing the plane.              *)

\* MoveIsoNode to a place in another face than the containing face.
MovesOutOfFace(n, p) == FaceContaining(db, p) # node[n]

\* NewEdgesSplit of an edge that next_right of another edge refers to.
SplitsReferredEdge(e) ==
  \E x \in DOMAIN edge \ {e} : edge[x].next_right \in {e, -e}

\* RemIsoEdge of an edge a lineal TopoGeometry is composed of.
RemovesUsedEdge(e) == e \in lineal

\* ChangeEdgeGeom with a node on the straight line between the ends.
MovesOverChord(e) ==
  LET chord == <<EndPoint(line[e]), StartPoint(line[e])>>
  IN  \E n \in DOMAIN node : InInterior(point[n], chord)

\* ChangeEdgeGeom across another edge between the same two nodes.
MovesOverTwin(e, g) ==
  \E x \in DOMAIN edge \ {e} :
    /\ {edge[x].start_node, edge[x].end_node} = {edge[e].start_node, edge[e].end_node}
    /\ Inside(InteriorPoint(line[x]), {line[e], g})

Calls == {"MovesOutOfFace", "SplitsReferredEdge", "RemovesUsedEdge",
          "MovesOverChord", "MovesOverTwin"}

Avoided(call, applies) == call \in Avoids /\ applies

ASSUME AvoidsCalls == Avoids \subseteq Calls

-----------------------------------------------------------------------------
(* The functions of librttopo.h.                                           *)

rtt_AddIsoNode ==
  /\ "AddIsoNode" \in Ops
  /\ \E p \in Sites, face \in Faces \cup {-1} :
       /\ CanAddIsoNode(db, face, p)
       /\ \E n \in NewNodeId(p) : Commit(AddIsoNode(db, face, p, n))

rtt_MoveIsoNode ==
  /\ "MoveIsoNode" \in Ops
  /\ \E n \in DOMAIN node, p \in Sites :
       /\ CanMoveIsoNode(db, n, p)
       /\ ~ Avoided("MovesOutOfFace", MovesOutOfFace(n, p))
       /\ Commit(MoveIsoNode(db, n, p))

rtt_RemoveIsoNode ==
  /\ "RemoveIsoNode" \in Ops
  /\ \E n \in DOMAIN node : IsIsoNode(db, n) /\ Commit(WithoutNode(db, n))

rtt_AddIsoEdge ==
  /\ "AddIsoEdge" \in Ops
  /\ \E n1, n2 \in DOMAIN node, g \in Curves :
       /\ CanAddIsoEdge(db, n1, n2, g)
       /\ \E e \in NewEdgeId(g, {}) : Commit(AddIsoEdge(db, n1, n2, g, e))

rtt_RemIsoEdge ==
  /\ "RemIsoEdge" \in Ops
  /\ \E e \in DOMAIN edge :
       /\ CanRemIsoEdge(db, e)
       /\ ~ Avoided("RemovesUsedEdge", RemovesUsedEdge(e))
       /\ Commit(RemIsoEdge(db, e))

rtt_ModEdgeSplit ==
  /\ "ModEdgeSplit" \in Ops
  /\ \E e \in DOMAIN edge, p \in Sites :
       /\ CanSplitEdge(db, e, p)
       /\ \E n \in NewNodeId(p), e2 \in NewEdgeId(TailFrom(line[e], p), {}) :
            Commit(ModEdgeSplit(db, e, p, n, e2))

rtt_NewEdgesSplit ==
  /\ "NewEdgesSplit" \in Ops
  /\ \E e \in DOMAIN edge, p \in Sites :
       /\ CanSplitEdge(db, e, p)
       /\ ~ Avoided("SplitsReferredEdge", SplitsReferredEdge(e))
       /\ \E n \in NewNodeId(p), e1 \in NewEdgeId(HeadUpTo(line[e], p), {}) :
            \E e2 \in NewEdgeId(TailFrom(line[e], p), {e1}) :
              Commit(NewEdgesSplit(db, e, p, n, e1, e2))

rtt_AddEdgeModFace ==
  /\ "AddEdgeModFace" \in Ops
  /\ \E n1, n2 \in DOMAIN node, g \in Curves :
       /\ CanAddEdge(db, n1, n2, g)
       /\ \E a1 \in StartEnds(db, n1, n2, g), a2 \in EndEnds(db, n1, n2, g),
             e \in NewEdgeId(g, {}), nf \in NewFaceId({}) :
          \E spare \in NewFaceId({nf}) :
            LET f == NewEdgeFace(db, n1, n2, a1, a2)
            IN  /\ f # -1
                /\ Commit(AddEdgeModFace(db, n1, n2, g, f, a1, a2, e, nf, spare))

rtt_AddEdgeNewFaces ==
  /\ "AddEdgeNewFaces" \in Ops
  /\ \E n1, n2 \in DOMAIN node, g \in Curves :
       /\ CanAddEdge(db, n1, n2, g)
       /\ \E a1 \in StartEnds(db, n1, n2, g), a2 \in EndEnds(db, n1, n2, g),
             e \in NewEdgeId(g, {}), nf1 \in NewFaceId({}) :
          \E nf \in NewFaceId({nf1}) :
            LET f == NewEdgeFace(db, n1, n2, a1, a2)
            IN  /\ f # -1
                /\ Commit(AddEdgeNewFaces(db, n1, n2, g, f, a1, a2, e, nf, nf1))

rtt_RemEdgeModFace ==
  /\ "RemEdgeModFace" \in Ops
  /\ \E e \in DOMAIN edge :
       CanRemEdge(db, e) /\ Commit(RemEdge(db, e, TRUE, Universe))

rtt_RemEdgeNewFace ==
  /\ "RemEdgeNewFace" \in Ops
  /\ \E e \in DOMAIN edge, nf \in NewFaceId({}) :
       CanRemEdge(db, e) /\ Commit(RemEdge(db, e, FALSE, nf))

rtt_ModEdgeHeal ==
  /\ "ModEdgeHeal" \in Ops
  /\ \E e1, e2 \in DOMAIN edge :
       /\ CanHealEdges(db, e1, e2)
       /\ \E m \in Meeting(db, e1, e2) : Commit(HealEdges(db, e1, e2, m, e1))

rtt_NewEdgeHeal ==
  /\ "NewEdgeHeal" \in Ops
  /\ \E e1, e2 \in DOMAIN edge :
       /\ CanHealEdges(db, e1, e2)
       /\ \E m \in Meeting(db, e1, e2) :
            \E e \in NewEdgeId(HealedLine(db, m), {}) :
              Commit(HealEdges(db, e1, e2, m, e))

rtt_ChangeEdgeGeom ==
  /\ "ChangeEdgeGeom" \in Ops
  /\ \E e \in DOMAIN edge, g \in Curves :
       /\ CanChangeEdgeGeom(db, e, g)
       /\ ~ Avoided("MovesOverChord", MovesOverChord(e))
       /\ ~ Avoided("MovesOverTwin", MovesOverTwin(e, g))
       /\ Commit(ChangeEdgeGeom(db, e, g))

\* A client of the library composes a TopoGeometry of existing rows.
CreateArealTopoGeom ==
  /\ "CreateArealTopoGeom" \in Ops
  /\ areal = {}
  /\ areal' \in SUBSET DOMAIN mbr
  /\ UNCHANGED <<node, point, edge, line, mbr, lineal>>

CreateLinealTopoGeom ==
  /\ "CreateLinealTopoGeom" \in Ops
  /\ lineal = {}
  /\ lineal' \in SUBSET DOMAIN edge
  /\ UNCHANGED <<node, point, edge, line, mbr, areal>>

NextCall ==
  \/ rtt_AddIsoNode \/ rtt_MoveIsoNode \/ rtt_RemoveIsoNode
  \/ rtt_AddIsoEdge \/ rtt_RemIsoEdge
  \/ rtt_ModEdgeSplit \/ rtt_NewEdgesSplit
  \/ rtt_AddEdgeModFace \/ rtt_AddEdgeNewFaces
  \/ rtt_RemEdgeModFace \/ rtt_RemEdgeNewFace
  \/ rtt_ModEdgeHeal \/ rtt_NewEdgeHeal
  \/ rtt_ChangeEdgeGeom
  \/ CreateArealTopoGeom \/ CreateLinealTopoGeom

Spec == Init /\ [][NextCall]_vars

-----------------------------------------------------------------------------
(* Properties of every state.                                              *)

\* The identifiers the functions write are identifiers of nodes, edges and
\* faces: none of the placeholders 0 and -1 that the code uses for "no edge"
\* and "no face" on its way ever reaches a table.
TypeOK == IsTopology(db)

\* Edges cross neither each other nor nodes, and end where their nodes are:
\* what _rtt_CheckEdgeCrossing and the geometry checks of the functions keep.
Planar == IsPlanar(db)

\* The links computed from azimuths when an edge is added, and patched by
\* identifier when edges are split, healed or removed, are at all times those
\* of the clockwise order of the edge ends around each node.
LinksFollowRotation == LinksTurnClockwise(db)

\* A walk along next_left and next_right sees one face, and that face is in
\* the face table: relabelling after a split or a heal forgets no edge.
RingsCarryOneFace == RingsBindOneFace(db)

\* A face is split exactly when the new edge separates it, and two faces are
\* healed exactly when the removed edge was between them.
OneShellPerFace == FacesHaveOneShell(db)

\* The edges inside a face that was split are relabelled to the part they are
\* in, although only one point of each is looked at.
HolesInTheirFace == HolesLieInTheirFace(db)

\* containing_face of every isolated node is the face around it, and is NULL
\* for every other node.
NodesInTheirFace == NodesLieInTheirFace(db)

\* The mbr of a face is exact after any history of splits, heals and moves:
\* later splits search the rows of a face with it.
MbrsFitFaces == MbrsBoundFaces(db)

\* All of the above at once, for the runs that vary the functions called.
Valid == IsValid(db)

\* The foreign keys between the node and the edge table: the ends of an edge
\* are nodes marked as not isolated, and a node so marked has an edge.  It is
\* what _rtt_GetIsoNode relies on when RemoveIsoNode deletes a row.
IsolationTracksEdges == IsolationMatchesEdges(db)

\* AddEdgeModFace followed by RemEdgeModFace of the same edge gives the tables
\* back as they were, whatever faces the edge split, relabelled or enclosed
\* ("to be symmetric with ST_AddEdgeModFace", says _rtt_RemEdge).
AddThenRemoveRestores ==
  \A n1, n2 \in DOMAIN node, g \in Curves : CanAddEdge(db, n1, n2, g) =>
    \A a1 \in StartEnds(db, n1, n2, g), a2 \in EndEnds(db, n1, n2, g),
       e \in NewEdgeId(g, {}), nf \in NewFaceId({}) :
      \A spare \in NewFaceId({nf}) :
        LET f == NewEdgeFace(db, n1, n2, a1, a2)
            t == AddEdgeModFace(db, n1, n2, g, f, a1, a2, e, nf, spare)
        IN  /\ f # -1
            /\ CanRemEdge(t, e)
            /\ RemEdge(t, e, TRUE, Universe) = db

\* ModEdgeSplit followed by ModEdgeHeal of the two parts gives the tables back,
\* but for a vertex more on the line; also for a closed edge, whose parts meet
\* at both ends, and for an edge its own end continues.
SplitThenHealRestores ==
  \A e \in DOMAIN edge, p \in Sites : CanSplitEdge(db, e, p) =>
    \A n \in NewNodeId(p), e2 \in NewEdgeId(TailFrom(line[e], p), {}) :
      LET t == ModEdgeSplit(db, e, p, n, e2)
      IN  /\ CanHealEdges(t, e, e2)
          /\ Meeting(t, e, e2) # {}
          /\ \A m \in Meeting(t, e, e2) :
               LET u == HealEdges(t, e, e2, m, e)
               IN  /\ [u EXCEPT !.line[e] = line[e]] = db
                   /\ Vertices(u.line[e]) = Vertices(line[e]) \cup {p}

\* TopoGeometry objects never refer to a row that is gone.
TopoGeomsReferToRows == areal \subseteq DOMAIN mbr /\ lineal \subseteq DOMAIN edge

-----------------------------------------------------------------------------
(* Properties of steps.                                                    *)

\* Where the lineal TopoGeometry goes, told by the middle of each segment.
LinealShape ==
  LET probes == {InteriorPoint(t) : t \in UNION {Segments(g) : g \in Curves}}
  IN  {q \in probes : \E e \in lineal : Passes(line[e], q)}

\* Splitting, healing and removing edges never changes the shape of a lineal
\* TopoGeometry, although the edges composing it come and go.
LinealShapeKept ==
  [][lineal # {} /\ DOMAIN edge' # DOMAIN edge => LinealShape' = LinealShape]_vars
=============================================================================
