------------------------------ MODULE TopoValid -----------------------------
(***************************************************************************)
(* What makes the tables of a topology a planar partition: the conditions  *)
(* every editing operation takes for granted when it starts and has to     *)
(* leave behind.                                                           *)
(***************************************************************************)
EXTENDS TopoOps

\* Edges are simple lines that meet at nodes only, and a node is where its
\* edges end.
IsPlanar(s) ==
  /\ \A m, n \in DOMAIN s.node : s.point[m] = s.point[n] => m = n
  /\ \A e \in DOMAIN s.edge :
       /\ IsSimple(s.line[e])
       /\ {s.edge[e].start_node, s.edge[e].end_node} \subseteq DOMAIN s.node
       /\ StartPoint(s.line[e]) = s.point[s.edge[e].start_node]
       /\ EndPoint(s.line[e]) = s.point[s.edge[e].end_node]
       /\ \A n \in DOMAIN s.node : ~ InInterior(s.point[n], s.line[e])
       /\ \A x \in DOMAIN s.edge \ {e} : ~ InteriorsMeet(s.line[e], s.line[x])

\* Walking a side of an edge, next_left and next_right turn into the first
\* edge end met clockwise around the node that is reached.
LinksTurnClockwise(s) ==
  \A d \in DartsOf(s) :
    LET others == DartsAt(s, Target(s, d)) \ {-d}
    IN  IF others = {} THEN Next(s, d) = -d
        ELSE /\ Next(s, d) \in others
             /\ \A x \in others :
                  ~ MetBefore(Leaving(s, -d), Leaving(s, x), Leaving(s, Next(s, d)))

\* A ring has one face all along its side, a row of the face table.
RingsBindOneFace(s) ==
  \A d \in DartsOf(s) :
    /\ Left(s, d) \in DOMAIN s.mbr \cup {Universe}
    /\ Left(s, Next(s, d)) = Left(s, d)

Shells(s, f) == {r \in Rings(s) : RingSweep(s, r) > 0 /\ \E d \in r : Left(s, d) = f}

\* Every face has one outer boundary, the universe has none.
FacesHaveOneShell(s) ==
  /\ Shells(s, Universe) = {}
  /\ \A f \in DOMAIN s.mbr : Cardinality(Shells(s, f)) = 1

\* A ring that is no shell (the outside of a connected component) is labelled
\* with the face the component lies in.
HolesLieInTheirFace(s) ==
  \A r \in {x \in Rings(s) : RingSweep(s, x) <= 0} :
    LET d == CHOOSE x \in r : TRUE
    IN  Left(s, d) = FaceContaining(s, InteriorPoint(s.line[EdgeOf(d)]))

\* A node has a containing face iff no edge ends on it, and lies in that face.
NodesLieInTheirFace(s) ==
  \A n \in DOMAIN s.node :
    s.node[n] = IF Incident(s, n) = {} THEN FaceContaining(s, s.point[n])
                ELSE NotIsolated

\* The ends of an edge are nodes without containing face, and a node without
\* containing face has an edge.
IsolationMatchesEdges(s) ==
  /\ \A e \in DOMAIN s.edge :
       {s.edge[e].start_node, s.edge[e].end_node}
         \subseteq {n \in DOMAIN s.node : s.node[n] = NotIsolated}
  /\ \A n \in DOMAIN s.node : s.node[n] = NotIsolated => Incident(s, n) # {}

\* The mbr of a face is the bounding box of its outer boundary.
MbrsBoundFaces(s) ==
  \A f \in DOMAIN s.mbr : \A r \in Shells(s, f) : s.mbr[f] = RingBox(s, r)

IsValid(s) ==
  /\ IsPlanar(s)
  /\ LinksTurnClockwise(s)
  /\ RingsBindOneFace(s)
  /\ FacesHaveOneShell(s)
  /\ HolesLieInTheirFace(s)
  /\ NodesLieInTheirFace(s)
  /\ MbrsBoundFaces(s)
=============================================================================
