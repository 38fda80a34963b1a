---------------------------- MODULE FacePartition ---------------------------
(***************************************************************************)
(* What a client of the library sees of the faces, without nodes, edges    *)
(* and geometry: they divide the plane between them, one of them, the      *)
(* universe, being the unbounded rest, and an areal TopoGeometry occupies  *)
(* whole faces.  The plane is a set Atoms of sample points.                *)
(***************************************************************************)
EXTENDS Integers

CONSTANTS
  Atoms,      \* sample points of the plane
  FaceIds     \* identifiers of faces, the universe face (0) excluded

VARIABLES
  cell,       \* the points of each face, the universe (0) included
  covered     \* the points of the areal TopoGeometry

cvars == <<cell, covered>>

Init ==
  /\ cell = [f \in {0} |-> Atoms]
  /\ covered = {}

\* The table of cells without those of `gone` and with those of `new`.
Recut(gone, new) ==
  cell' = [f \in (DOMAIN cell \ gone) \cup DOMAIN new |->
             IF f \in DOMAIN new THEN new[f] ELSE cell[f]]

Unused == FaceIds \ DOMAIN cell

\* A face (or the universe) is split: it keeps a part, a new face has the rest.
Split ==
  \E f \in DOMAIN cell, g \in Unused : \E part \in SUBSET cell[f] :
    /\ Recut({}, [x \in {f, g} |-> IF x = g THEN part ELSE cell[f] \ part])
    /\ UNCHANGED covered

\* A face is replaced by two new ones.
SplitAnew ==
  \E f \in DOMAIN cell \ {0}, g, h \in Unused : \E part \in SUBSET cell[f] :
    /\ g # h
    /\ Recut({f}, [x \in {g, h} |-> IF x = g THEN part ELSE cell[f] \ part])
    /\ UNCHANGED covered

\* The areal TopoGeometry has both faces, the universe excluded, or none.
Alike(f, g) == \/ 0 \notin {f, g} /\ cell[f] \cup cell[g] \subseteq covered
               \/ (cell[f] \cup cell[g]) \cap covered = {}

\* Two faces become one: one of them, always the universe when it takes part,
\* or a new one.
Merge ==
  \E f, g \in DOMAIN cell : \E h \in Unused \cup {f, g} :
    /\ f # g
    /\ 0 \in {f, g} => h = 0
    /\ Alike(f, g)
    /\ Recut({f, g}, [x \in {h} |-> cell[f] \cup cell[g]])
    /\ UNCHANGED covered

\* Two faces share out their points anew.
Redrawn(f, g, part) ==
  [x \in {f, g} |-> IF x = f THEN part ELSE (cell[f] \cup cell[g]) \ part]

\* The boundary between two faces moves; the TopoGeometry follows its faces.
Reshape ==
  \E f, g \in DOMAIN cell : \E part \in SUBSET (cell[f] \cup cell[g]),
     kept \in SUBSET ({f, g} \ {0}) :
    /\ f # g
    /\ Recut({}, Redrawn(f, g, part))
    /\ covered' = (covered \ (cell[f] \cup cell[g]))
                     \cup UNION {Redrawn(f, g, part)[x] : x \in kept}

\* A client creates an areal TopoGeometry out of faces.
Cover ==
  \E fs \in SUBSET (DOMAIN cell \ {0}) :
    /\ covered' = UNION {cell[f] : f \in fs}
    /\ UNCHANGED cell

Next == Split \/ SplitAnew \/ Merge \/ Reshape \/ Cover

Spec == Init /\ [][Next]_cvars

-----------------------------------------------------------------------------
\* Every point of the plane is in one face: no split, heal or move of a
\* boundary loses a point or gives it to two faces.
FacesDividePlane ==
  /\ 0 \in DOMAIN cell
  /\ \A p \in Atoms : \E f \in DOMAIN cell : p \in cell[f]
  /\ \A f, g \in DOMAIN cell : f # g => cell[f] \cap cell[g] = {}

\* The areal TopoGeometry occupies whole faces and never the universe, so it
\* can always be told by the faces composing it.
CoveredIsWholeFaces ==
  /\ cell[0] \cap covered = {}
  /\ \A f \in DOMAIN cell : cell[f] \subseteq covered \/ cell[f] \cap covered = {}
=============================================================================
