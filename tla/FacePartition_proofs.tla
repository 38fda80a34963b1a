------------------------ MODULE FacePartition_proofs -----------------------
(***************************************************************************)
(* The two promises of FacePartition for every set of sample points and of *)
(* face identifiers.  Their conjunction is inductive as it stands.         *)
(***************************************************************************)
EXTENDS FacePartition, TLAPS

Promises == FacesDividePlane /\ CoveredIsWholeFaces

LEMMA InitMakesPromises == Init => Promises
BY DEF Init, Promises, FacesDividePlane, CoveredIsWholeFaces

LEMMA SplitKeepsPromises == Promises /\ Split => Promises'
<1> SUFFICES ASSUME Promises,
                    NEW f \in DOMAIN cell, NEW g \in Unused, NEW part \in SUBSET cell[f],
                    Recut({}, [x \in {f, g} |-> IF x = g THEN part ELSE cell[f] \ part]),
                    UNCHANGED covered
             PROVE  Promises'
  BY DEF Split
<1>1. /\ DOMAIN cell' = DOMAIN cell \cup {g}
      /\ cell'[g] = part
      /\ cell'[f] = cell[f] \ part
      /\ \A x \in DOMAIN cell \ {f} : cell'[x] = cell[x]
      /\ g \notin DOMAIN cell
  BY DEF Recut, Unused
<1>2. FacesDividePlane'
  BY <1>1 DEF Promises, FacesDividePlane
<1>3. CoveredIsWholeFaces'
  BY <1>1 DEF Promises, FacesDividePlane, CoveredIsWholeFaces
<1> QED BY <1>2, <1>3 DEF Promises

LEMMA SplitAnewKeepsPromises == Promises /\ SplitAnew => Promises'
<1> SUFFICES ASSUME Promises,
                    NEW f \in DOMAIN cell \ {0}, NEW g \in Unused, NEW h \in Unused,
                    NEW part \in SUBSET cell[f], g # h,
                    Recut({f}, [x \in {g, h} |-> IF x = g THEN part ELSE cell[f] \ part]),
                    UNCHANGED covered
             PROVE  Promises'
  BY DEF SplitAnew
<1>1. /\ DOMAIN cell' = (DOMAIN cell \ {f}) \cup {g, h}
      /\ cell'[g] = part
      /\ cell'[h] = cell[f] \ part
      /\ \A x \in DOMAIN cell \ {f} : cell'[x] = cell[x]
      /\ {g, h} \cap DOMAIN cell = {}
  BY DEF Recut, Unused
<1>2. FacesDividePlane'
  BY <1>1 DEF Promises, FacesDividePlane
<1>3. CoveredIsWholeFaces'
  BY <1>1 DEF Promises, FacesDividePlane, CoveredIsWholeFaces
<1> QED BY <1>2, <1>3 DEF Promises

LEMMA MergeKeepsPromises == Promises /\ Merge => Promises'
<1> SUFFICES ASSUME Promises,
                    NEW f \in DOMAIN cell, NEW g \in DOMAIN cell,
                    NEW h \in Unused \cup {f, g},
                    f # g, 0 \in {f, g} => h = 0, Alike(f, g),
                    Recut({f, g}, [x \in {h} |-> cell[f] \cup cell[g]]),
                    UNCHANGED covered
             PROVE  Promises'
  BY DEF Merge
<1>1. /\ DOMAIN cell' = (DOMAIN cell \ {f, g}) \cup {h}
      /\ cell'[h] = cell[f] \cup cell[g]
      /\ \A x \in DOMAIN cell \ {f, g} : cell'[x] = cell[x]
      /\ h \notin DOMAIN cell \ {f, g}
  BY DEF Recut, Unused
<1>2. FacesDividePlane'
  BY <1>1 DEF Promises, FacesDividePlane
<1>3. CoveredIsWholeFaces'
  BY <1>1 DEF Promises, FacesDividePlane, CoveredIsWholeFaces, Alike
<1> QED BY <1>2, <1>3 DEF Promises

LEMMA ReshapeKeepsPromises == Promises /\ Reshape => Promises'
<1> SUFFICES ASSUME Promises,
                    NEW f \in DOMAIN cell, NEW g \in DOMAIN cell,
                    NEW part \in SUBSET (cell[f] \cup cell[g]),
                    NEW kept \in SUBSET ({f, g} \ {0}), f # g,
                    Recut({}, Redrawn(f, g, part)),
                    covered' = (covered \ (cell[f] \cup cell[g]))
                                 \cup UNION {Redrawn(f, g, part)[x] : x \in kept}
             PROVE  Promises'
  BY DEF Reshape
<1> DEFINE both == cell[f] \cup cell[g]
<1>1. /\ DOMAIN cell' = DOMAIN cell
      /\ cell'[f] = part
      /\ cell'[g] = both \ part
      /\ \A x \in DOMAIN cell \ {f, g} : cell'[x] = cell[x]
  BY DEF Recut, Redrawn
<1>2. \A p : p \in covered' <=>
        \/ p \in covered /\ p \notin both
        \/ f \in kept /\ p \in part
        \/ g \in kept /\ p \in both /\ p \notin part
  <2>1. Redrawn(f, g, part)[f] = part /\ Redrawn(f, g, part)[g] = both \ part
    BY DEF Redrawn
  <2>2. \A p : p \in UNION {Redrawn(f, g, part)[x] : x \in kept}
                  <=> \E x \in kept : p \in Redrawn(f, g, part)[x]
    OBVIOUS
  <2> QED BY <2>1, <2>2
<1>3. FacesDividePlane'
  BY <1>1 DEF Promises, FacesDividePlane
<1>4. \A x \in DOMAIN cell \ {f, g} : cell[x] \cap both = {}
  BY DEF Promises, FacesDividePlane
<1>5. 0 \notin kept /\ part \subseteq both
  OBVIOUS
<1>6. CoveredIsWholeFaces'
  <2>1. ASSUME NEW x \in DOMAIN cell \ {f, g}
        PROVE  cell'[x] \subseteq covered' \/ cell'[x] \cap covered' = {}
    BY <1>1, <1>2, <1>4, <1>5 DEF Promises, CoveredIsWholeFaces
  <2>2. \A x \in {f, g} : cell'[x] \subseteq covered' \/ cell'[x] \cap covered' = {}
    BY <1>1, <1>2, <1>5
  <2>3. cell'[0] \cap covered' = {}
    <3>1. CASE 0 \in {f, g}
      BY <3>1, <1>1, <1>2, <1>5
    <3>2. CASE 0 \notin {f, g}
      BY <3>2, <1>1, <1>2, <1>4, <1>5 DEF Promises, FacesDividePlane, CoveredIsWholeFaces
    <3> QED BY <3>1, <3>2
  <2> QED BY <1>1, <2>1, <2>2, <2>3 DEF CoveredIsWholeFaces
<1> QED BY <1>3, <1>6 DEF Promises

LEMMA CoverKeepsPromises == Promises /\ Cover => Promises'
<1> SUFFICES ASSUME Promises, NEW fs \in SUBSET (DOMAIN cell \ {0}),
                    covered' = UNION {cell[f] : f \in fs}, UNCHANGED cell
             PROVE  Promises'
  BY DEF Cover
<1>1. FacesDividePlane'
  BY DEF Promises, FacesDividePlane
<1>2. CoveredIsWholeFaces'
  BY DEF Promises, FacesDividePlane, CoveredIsWholeFaces
<1> QED BY <1>1, <1>2 DEF Promises

LEMMA StutterKeepsPromises == Promises /\ UNCHANGED cvars => Promises'
BY DEF Promises, FacesDividePlane, CoveredIsWholeFaces, cvars

\* In every history of splits, heals and moved boundaries each point of the
\* plane is in exactly one face.
THEOREM FacesAlwaysDividePlane == Spec => []FacesDividePlane
<1>1. Promises /\ [Next]_cvars => Promises'
  BY SplitKeepsPromises, SplitAnewKeepsPromises, MergeKeepsPromises, ReshapeKeepsPromises,
     CoverKeepsPromises, StutterKeepsPromises DEF Next
<1>2. Promises => FacesDividePlane
  BY DEF Promises
<1> QED BY InitMakesPromises, <1>1, <1>2, PTL DEF Spec

\* An areal TopoGeometry always occupies whole faces, and never the universe.
THEOREM CoveredIsAlwaysWholeFaces == Spec => []CoveredIsWholeFaces
<1>1. Promises /\ [Next]_cvars => Promises'
  BY SplitKeepsPromises, SplitAnewKeepsPromises, MergeKeepsPromises, ReshapeKeepsPromises,
     CoverKeepsPromises, StutterKeepsPromises DEF Next
<1>2. Promises => CoveredIsWholeFaces
  BY DEF Promises
<1> QED BY InitMakesPromises, <1>1, <1>2, PTL DEF Spec
=============================================================================
