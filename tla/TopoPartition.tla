---------------------------- MODULE TopoPartition ---------------------------
(***************************************************************************)
(* The editing functions implement the division of the plane into faces    *)
(* (FacePartition).  The two variables of FacePartition are views of the   *)
(* tables: a point belongs to the face the backend finds around it.        *)
(***************************************************************************)
EXTENDS TopoEdit

CONSTANT Atoms    \* sample points that are on no curve

ASSUME AtomsAreOffCurves ==
  Atoms \subseteq Point /\ \A p \in Atoms, g \in Curves : ~ Passes(g, p)

VARIABLES cell, covered

CellsOf(s) ==
  LET faceAt == [p \in Atoms |-> FaceContaining(s, p)]
  IN  [f \in DOMAIN s.mbr \cup {Universe} |-> {p \in Atoms : faceAt[p] = f}]

CoveredOf(cells, faces) == UNION {cells[f] : f \in faces \cap DOMAIN cells}

ViewInit == Init /\ cell = CellsOf(db) /\ covered = {}
ViewNext == NextCall /\ cell' = CellsOf(db') /\ covered' = CoveredOf(cell', areal')
ViewSpec == ViewInit /\ [][ViewNext]_<<vars, cell, covered>>

Partition == INSTANCE FacePartition WITH cell <- cell, covered <- covered, Atoms <- Atoms,
                                         FaceIds <- FaceIds

\* Every call divides the plane the way FacePartition says or leaves it alone:
\* adding and removing edges splits and heals the faces on the ground as the
\* tables say, a split never disturbs a third face, and no call but a change of
\* geometry moves what an areal TopoGeometry covers.
ImplementsPartition == Partition!Spec
=============================================================================
