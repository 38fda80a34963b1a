-------------------------- MODULE TopoPopulate_proofs -------------------------
(***************************************************************************)
(* Populating keeps what editing keeps.  AddPoint, AddLine and AddPolygon  *)
(* are sequences of editing operations whose length and whose arguments    *)
(* depend on the geometry: where a line is cut, which piece comes first,   *)
(* what the ends of a piece split.  Whatever they come to, the edges stay  *)
(* a plane drawing, the links a rotation and the tables typed.             *)
(*                                                                         *)
(* With faces, each operation leads from a topology with the invariant of  *)
(* the editing functions, Good, to another one, provided that what it is   *)
(* given is a line: so the pieces GEOS returns are shown to be lines       *)
(* first.  Without faces the tables are not typed, as sides have face -1,  *)
(* and a node may be marked as linked before its edge comes.  What is left *)
(* then, Loaded, is that some good topology has the same drawing and the   *)
(* same links; an operation is shown to keep the two alike.  That is all   *)
(* rtt_Polygonize needs to make a good topology again.                     *)
(*                                                                         *)
(* The recursive functions of the model are shown to exist, by the least   *)
(* size for which they would not, and then to have the property, by the    *)
(* least argument for which they would not.                                *)
(***************************************************************************)
EXTENDS TopoPopulate, TopoLinks_proofs

Good(s) == Sound(s) /\ Flat(s) /\ Turning(s) /\ IsFiniteSet(DOMAIN s.edge)

-----------------------------------------------------------------------------
(* Finite sets.                                                            *)

LEMMA ImageIsFinite ==
  ASSUME NEW S, IsFiniteSet(S), NEW f, DOMAIN f = S
  PROVE  IsFiniteSet({f[x] : x \in S})
<1> DEFINE T == {f[x] : x \in S}
           h == [x \in S |-> f[x]]
<1>1. h \in Surjection(S, T)
  BY DEF Surjection
<1> QED BY <1>1, FS_Surjection

LEMMA UnionOfImagesIsFinite ==
  ASSUME NEW S, IsFiniteSet(S), NEW f, DOMAIN f = S, \A x \in S : IsFiniteSet(f[x])
  PROVE  IsFiniteSet(UNION {f[x] : x \in S})
<1> DEFINE T == {f[x] : x \in S}
<1>1. IsFiniteSet(T)
  BY ImageIsFinite
<1>2. \A t \in T : IsFiniteSet(t)
  OBVIOUS
<1> HIDE DEF T
<1>3. IsFiniteSet(UNION T)
  BY <1>1, <1>2, FS_UNION
<1> QED BY <1>3 DEF T

\* A subset less one of its elements is smaller.
LEMMA OneLess ==
  ASSUME NEW S, IsFiniteSet(S), NEW P \in SUBSET S, NEW x \in P
  PROVE  /\ IsFiniteSet(P) /\ P \ {x} \in SUBSET S
         /\ Cardinality(P) \in Nat /\ Cardinality(P \ {x}) \in Nat
         /\ Cardinality(P \ {x}) = Cardinality(P) - 1
<1>1. IsFiniteSet(P)
  BY FS_Subset
<1>2. IsFiniteSet(P \ {x}) /\ Cardinality(P \ {x}) = Cardinality(P) - 1
  BY <1>1, FS_RemoveElement
<1>3. Cardinality(P) \in Nat /\ Cardinality(P \ {x}) \in Nat
  BY <1>1, <1>2, FS_CardinalityType
<1> QED BY <1>1, <1>2, <1>3

-----------------------------------------------------------------------------
(* The pieces of a line.                                                   *)

\* What CutAt makes of one line.
CutOnce(g, p) ==
  IF Passages(g, p) = {} THEN {g}
  ELSE LET i == Min(Passages(g, p)) IN {HeadAt(g, i, p), TailAt(g, i, p)}

\* A line is cut into lines.
LEMMA CutOnceMakesLines ==
  ASSUME NEW g \in Line, NEW p \in Point
  PROVE  CutOnce(g, p) \subseteq Line /\ IsFiniteSet(CutOnce(g, p))
<1>1. CASE Passages(g, p) = {}
  BY <1>1, FS_Singleton DEF CutOnce
<1>2. CASE Passages(g, p) # {}
  <2> DEFINE i == Min(Passages(g, p))
  <2>1. Passages(g, p) \in SUBSET Nat
    BY DEF Passages
  <2>2. i \in Passages(g, p)
    <3>1. \E x \in Passages(g, p) : \A y \in Passages(g, p) : x <= y
      BY <1>2, <2>1, LeastNumber
    <3> QED BY <3>1 DEF Min
  <2> HIDE DEF i
  <2>3. i \in 1 .. Len(g) - 1 /\ p # g[i] /\ (i = Len(g) - 1 => p # EndPoint(g))
    BY <2>2 DEF Passages
  <2>4. HeadAt(g, i, p) \in Line /\ TailAt(g, i, p) \in Line
    BY <2>3, HeadAtPart, TailAtPart
  <2>5. CutOnce(g, p) = {HeadAt(g, i, p), TailAt(g, i, p)}
    BY <1>2 DEF CutOnce, i
  <2>6. IsFiniteSet({HeadAt(g, i, p)} \cup {TailAt(g, i, p)})
    BY FS_Singleton, FS_Union
  <2>7. {HeadAt(g, i, p)} \cup {TailAt(g, i, p)} = {HeadAt(g, i, p), TailAt(g, i, p)}
    OBVIOUS
  <2> QED BY <2>4, <2>5, <2>6, <2>7
<1> QED BY <1>1, <1>2

\* Finitely many lines.
Lines(pieces) == pieces \subseteq Line /\ IsFiniteSet(pieces)

LEMMA CutsMakeLines ==
  ASSUME NEW pieces, Lines(pieces), NEW p \in Point
  PROVE  Lines(UNION {CutOnce(g, p) : g \in pieces})
<1> DEFINE f == [g \in pieces |-> CutOnce(g, p)]
<1>1. \A g \in pieces : CutOnce(g, p) \subseteq Line /\ IsFiniteSet(CutOnce(g, p))
  BY CutOnceMakesLines DEF Lines
<1>2. IsFiniteSet(UNION {f[g] : g \in pieces})
  <2>1. DOMAIN f = pieces /\ \A g \in pieces : IsFiniteSet(f[g])
    BY <1>1
  <2> HIDE DEF f
  <2> QED BY <2>1, UnionOfImagesIsFinite DEF Lines
<1>3. UNION {f[g] : g \in pieces} = UNION {CutOnce(g, p) : g \in pieces}
  OBVIOUS
<1> QED BY <1>1, <1>2, <1>3 DEF Lines

LEMMA CutAtMakesLines ==
  ASSUME NEW pieces, Lines(pieces), NEW p \in Point
  PROVE  Lines(CutAt(pieces, p))
<1> DEFINE f == [g \in pieces |-> UNION {CutOnce(h, p) : h \in CutOnce(g, p)}]
<1>1. CutAt(pieces, p) = UNION {f[g] : g \in pieces}
  BY DEF CutAt, CutOnce
<1>2. \A g \in pieces : f[g] \subseteq Line /\ IsFiniteSet(f[g])
  <2> SUFFICES ASSUME NEW g \in pieces PROVE f[g] \subseteq Line /\ IsFiniteSet(f[g])
    OBVIOUS
  <2>1. Lines(CutOnce(g, p))
    BY CutOnceMakesLines DEF Lines
  <2>2. Lines(UNION {CutOnce(h, p) : h \in CutOnce(g, p)})
    BY <2>1, CutsMakeLines
  <2> QED BY <2>2 DEF Lines
<1>3. DOMAIN f = pieces
  OBVIOUS
<1> HIDE DEF f
<1> QED BY <1>1, <1>2, <1>3, UnionOfImagesIsFinite DEF Lines

-----------------------------------------------------------------------------
(* Cutting at one point after another.                                     *)

\* w is the recursive function of Pieces for the subsets of up to k points.
Cutting(g, S, k, w) ==
  w = [P \in {x \in SUBSET S : Cardinality(x) <= k} |->
         IF P = {} THEN {g}
         ELSE LET p == CHOOSE x \in P : TRUE IN CutAt(w[P \ {p}], p)]

LEMMA CuttingExists ==
  ASSUME NEW g, NEW S, IsFiniteSet(S), NEW k \in Nat
  PROVE  \E w : Cutting(g, S, k, w)
<1> DEFINE none == {m \in Nat : ~ \E w : Cutting(g, S, m, w)}
<1>1. none = {}
  <2> SUFFICES ASSUME none # {} PROVE FALSE
    OBVIOUS
  <2>1. PICK m \in none : \A y \in none : m <= y
    BY LeastNumber
  <2>2. m \in Nat
    BY <2>1
  <2> DEFINE small(j) == {x \in SUBSET S : Cardinality(x) <= j}
             any(P) == CHOOSE x \in P : TRUE
  <2>3. \A P \in SUBSET S : P # {} =>
          any(P) \in P /\ Cardinality(P) \in Nat /\ P \ {any(P)} \in SUBSET S
            /\ Cardinality(P \ {any(P)}) = Cardinality(P) - 1
    BY OneLess
  <2>4. CASE m = 0
    <3> DEFINE w == [P \in small(0) |-> {g}]
    <3>1. \A P \in small(0) : P = {}
      <4> SUFFICES ASSUME NEW P \in small(0) PROVE P = {}
        OBVIOUS
      <4>1. IsFiniteSet(P) /\ Cardinality(P) <= 0
        BY FS_Subset
      <4>2. Cardinality(P) = 0
        BY <4>1, FS_CardinalityType
      <4> QED BY <4>1, <4>2, FS_EmptySet
    <3>2. w = [P \in small(0) |-> IF P = {} THEN {g} ELSE CutAt(w[P \ {any(P)}], any(P))]
      BY <3>1
    <3> HIDE DEF w
    <3>3. Cutting(g, S, 0, w)
      BY <3>2 DEF Cutting
    <3> QED BY <2>1, <2>4, <3>3
  <2>5. CASE m # 0
    <3>1. m - 1 \in Nat /\ ~ (m <= m - 1)
      BY <2>2, <2>5
    <3>2. PICK w : Cutting(g, S, m - 1, w)
      <4>1. m - 1 \notin none
        BY <2>1, <3>1
      <4> QED BY <3>1, <4>1
    <3> DEFINE to(v, P) == IF P = {} THEN {g} ELSE CutAt(v[P \ {any(P)}], any(P))
               v == [P \in small(m) |-> IF Cardinality(P) = m THEN to(w, P) ELSE w[P]]
    <3>3. w = [P \in small(m - 1) |-> to(w, P)]
      BY <3>2 DEF Cutting
    <3>4. \A P \in small(m - 1) : P \in small(m) /\ v[P] = w[P]
      <4> SUFFICES ASSUME NEW P \in small(m - 1) PROVE P \in small(m) /\ v[P] = w[P]
        OBVIOUS
      <4>1. Cardinality(P) \in Nat
        BY FS_Subset, FS_CardinalityType
      <4>2. Cardinality(P) <= m /\ Cardinality(P) # m
        BY <2>2, <4>1
      <4> QED BY <4>2
    <3>5. \A P \in small(m) : v[P] = to(v, P)
      <4> SUFFICES ASSUME NEW P \in small(m) PROVE v[P] = to(v, P)
        OBVIOUS
      <4>1. P # {} => /\ P \ {any(P)} \in small(m - 1)
                      /\ v[P \ {any(P)}] = w[P \ {any(P)}]
        <5> SUFFICES ASSUME P # {} PROVE P \ {any(P)} \in small(m - 1)
          BY <3>4
        <5> HIDE DEF any
        <5>1. Cardinality(P) <= m /\ Cardinality(P) \in Nat
          BY <2>3
        <5> QED BY <2>2, <2>3, <5>1
      <4>2. to(v, P) = to(w, P)
        BY <4>1
      <4>3. v[P] = IF Cardinality(P) = m THEN to(w, P) ELSE w[P]
        OBVIOUS
      <4>4. Cardinality(P) # m => P \in small(m - 1)
        <5>1. Cardinality(P) <= m /\ Cardinality(P) \in Nat
          BY FS_Subset, FS_CardinalityType
        <5> QED BY <2>2, <5>1
      <4> HIDE DEF v, to
      <4> QED BY <3>3, <4>2, <4>3, <4>4
    <3>6. v = [P \in small(m) |-> v[P]]
      OBVIOUS
    <3> HIDE DEF v
    <3>7. v = [P \in small(m) |-> to(v, P)]
      BY <3>5, <3>6
    <3>8. Cutting(g, S, m, v)
      BY <3>7 DEF Cutting
    <3> QED BY <2>1, <3>8
  <2> QED BY <2>4, <2>5
<1> QED BY <1>1

\* Wherever a line is cut, it is cut into finitely many lines.
LEMMA PiecesAreLines ==
  ASSUME NEW s, NEW g \in Line
  PROVE  Lines(Pieces(s, g))
<1> DEFINE S == CutPoints(s, g)
           any(P) == CHOOSE x \in P : TRUE
           step(w) == [P \in SUBSET S |-> IF P = {} THEN {g} ELSE CutAt(w[P \ {any(P)}], any(P))]
           cut == CHOOSE w : w = step(w)
<1>1. S \in SUBSET Point /\ IsFiniteSet(S)
  BY WorldIsExact, FS_Subset DEF CutPoints
<1>2. Pieces(s, g) = cut[S]
  BY DEF Pieces, FoldSet, MapThenFoldSet
<1> HIDE DEF S, cut
<1>3. cut = step(cut)
  <2>1. Cardinality(S) \in Nat /\ \A P \in SUBSET S : Cardinality(P) <= Cardinality(S)
    BY <1>1, FS_CardinalityType, FS_Subset
  <2>2. PICK w : Cutting(g, S, Cardinality(S), w)
    BY <1>1, <2>1, CuttingExists
  <2>3. {x \in SUBSET S : Cardinality(x) <= Cardinality(S)} = SUBSET S
    BY <2>1
  <2>4. w = step(w)
    BY <2>2, <2>3 DEF Cutting
  <2> HIDE DEF step
  <2> QED BY <2>4 DEF cut
<1>4. \A P \in SUBSET S : cut[P] = IF P = {} THEN {g} ELSE CutAt(cut[P \ {any(P)}], any(P))
  BY <1>3
<1> HIDE DEF step
<1> DEFINE bad == {m \in Nat : \E P \in SUBSET S : Cardinality(P) = m /\ ~ Lines(cut[P])}
<1>5. bad = {}
  <2> SUFFICES ASSUME bad # {} PROVE FALSE
    OBVIOUS
  <2>1. PICK m \in bad : \A y \in bad : m <= y
    BY LeastNumber
  <2>2. PICK P \in SUBSET S : Cardinality(P) = m /\ ~ Lines(cut[P])
    BY <2>1
  <2>3. P # {}
    <3>1. Lines({g})
      BY FS_Singleton DEF Lines
    <3> QED BY <1>4, <2>2, <3>1
  <2> DEFINE p == any(P)
  <2>4. p \in P
    BY <2>3
  <2>5. cut[P] = CutAt(cut[P \ {p}], p)
    BY <1>4, <2>3
  <2> HIDE DEF p
  <2>6. P \ {p} \in SUBSET S /\ Cardinality(P \ {p}) \in Nat /\ Cardinality(P \ {p}) = m - 1
    BY <1>1, <2>2, <2>4, OneLess
  <2>7. Lines(cut[P \ {p}])
    <3>1. m - 1 \notin bad
      BY <2>1, <2>6
    <3> QED BY <2>6, <3>1
  <2>8. p \in Point
    BY <1>1, <2>4
  <2>9. Lines(CutAt(cut[P \ {p}], p))
    BY <2>7, <2>8, CutAtMakesLines
  <2> QED BY <2>2, <2>5, <2>9
<1>6. Lines(cut[S])
  <2>1. Cardinality(S) \in Nat
    BY <1>1, FS_CardinalityType
  <2> QED BY <1>5, <2>1
<1> QED BY <1>2, <1>6

-----------------------------------------------------------------------------
(* Points.                                                                 *)

LEMMA IdentifiersInAreFree ==
  ASSUME NEW s
  PROVE  /\ \A p : NodeIdIn(s, p) \subseteq NodeIds \ DOMAIN s.node
         /\ \A g : EdgeIdIn(s, g) \subseteq EdgeIds \ DOMAIN s.edge
         /\ \A taken : FaceIdIn(s, taken) \subseteq FaceIds
BY DEF NodeIdIn, EdgeIdIn, FaceIdIn, Smallest

\* An edge passes where there is no node: the point is inside it.
LEMMA PassingEdgeCanBeSplit ==
  ASSUME NEW s, Good(s), NEW p, ~ ExistsCoincidentNode(s, p),
         NEW e \in DOMAIN s.edge, Passes(s.line[e], p)
  PROVE  CanSplitEdge(s, e, p)
<1>1. EdgeDrawn(s, e)
  BY DEF Good, Flat
<1>2. p # StartPoint(s.line[e]) /\ p # EndPoint(s.line[e])
  BY <1>1 DEF EdgeDrawn, ExistsCoincidentNode
<1> QED BY <1>2 DEF CanSplitEdge, InInterior

LEMMA SplitIsGood ==
  ASSUME NEW s, Good(s), NEW p \in Point, NEW e, CanSplitEdge(s, e, p),
         NEW n \in NodeIds \ DOMAIN s.node, NEW e2 \in EdgeIds \ DOMAIN s.edge
  PROVE  Good(ModEdgeSplit(s, e, p, n, e2))
<1> DEFINE t == ModEdgeSplit(s, e, p, n, e2)
<1>1. e \in DOMAIN s.edge
  BY DEF CanSplitEdge
<1>2. Sound(t)
  BY <1>1, ModEdgeSplitSound DEF Good
<1>3. Flat(t)
  BY ModEdgeSplitFlat DEF Good
<1>4. Turning(t)
  BY <1>2, ModEdgeSplitTurns DEF Good, Sound
<1>5. FewMore(s, t)
  BY SplitsAndHealsAddFew DEF Good, Sound
<1> HIDE DEF t
<1>6. Good(t)
  BY <1>2, <1>3, <1>4, <1>5, FewMoreIsFinite DEF Good
<1> QED BY <1>6 DEF t

LEMMA IsolatedPointIsGood ==
  ASSUME NEW s, Good(s), NEW p \in Point,
         ~ ExistsCoincidentNode(s, p), ~ ExistsEdgeIntersectingPoint(s, p),
         NEW n \in NodeIds \ DOMAIN s.node
  PROVE  Good(AddIsoNode(s, -1, p, n))
<1> DEFINE t == AddIsoNode(s, -1, p, n)
<1>1. CanAddIsoNode(s, -1, p)
  BY DEF CanAddIsoNode
<1>2. Sound(t)
  BY AddIsoNodeSound DEF Good
<1>3. Flat(t)
  BY <1>1, AddIsoNodeFlat DEF Good, Sound
<1>4. Turning(t)
  BY AddIsoNodeTurns DEF Good
<1>5. FewMore(s, t)
  BY NodesAddFew DEF AddIsoNode, Good, Sound
<1> HIDE DEF t
<1>6. Good(t)
  BY <1>2, <1>3, <1>4, <1>5, FewMoreIsFinite DEF Good
<1> QED BY <1>6 DEF t

LEMMA AddPointIsGood ==
  ASSUME NEW s, Good(s), NEW p \in Point, NEW t \in AddPoint(s, p, TRUE)
  PROVE  Good(t)
<1>1. CASE ExistsCoincidentNode(s, p)
  <2>1. t = s
    BY <1>1 DEF AddPoint
  <2> QED BY <2>1
<1>2. CASE ~ ExistsCoincidentNode(s, p) /\ ExistsEdgeIntersectingPoint(s, p)
  <2>1. t \in UNION {{ModEdgeSplit(s, e, p, n, e2) :
                 n \in NodeIdIn(s, p), e2 \in EdgeIdIn(s, TailFrom(s.line[e], p))} :
              e \in {x \in DOMAIN s.edge : Passes(s.line[x], p)}}
    BY <1>2 DEF AddPoint
  <2>2. PICK e \in {x \in DOMAIN s.edge : Passes(s.line[x], p)} :
          t \in {ModEdgeSplit(s, e, p, n, e2) :
                 n \in NodeIdIn(s, p), e2 \in EdgeIdIn(s, TailFrom(s.line[e], p))}
    BY <2>1
  <2>3. PICK n \in NodeIdIn(s, p), e2 \in EdgeIdIn(s, TailFrom(s.line[e], p)) :
          t = ModEdgeSplit(s, e, p, n, e2)
    BY <2>2
  <2>4. n \in NodeIds \ DOMAIN s.node /\ e2 \in EdgeIds \ DOMAIN s.edge
    BY IdentifiersInAreFree
  <2>5. CanSplitEdge(s, e, p)
    BY <1>2, <2>2, PassingEdgeCanBeSplit
  <2> QED BY <2>3, <2>4, <2>5, SplitIsGood
<1>3. CASE ~ ExistsCoincidentNode(s, p) /\ ~ ExistsEdgeIntersectingPoint(s, p)
  <2>1. t \in {WithNode(s, n, FaceContaining(s, p), p) : n \in NodeIdIn(s, p)}
    BY <1>3 DEF AddPoint
  <2>2. PICK n \in NodeIdIn(s, p) : t = WithNode(s, n, FaceContaining(s, p), p)
    BY <2>1
  <2>3. n \in NodeIds \ DOMAIN s.node
    BY IdentifiersInAreFree
  <2>4. t = AddIsoNode(s, -1, p, n)
    BY <2>2 DEF AddIsoNode
  <2> QED BY <1>3, <2>3, <2>4, IsolatedPointIsGood
<1> QED BY <1>1, <1>2, <1>3

-----------------------------------------------------------------------------
(* Lines.                                                                  *)

LEMMA OutcomesLeave ==
  ASSUME NEW s
  PROVE  Done(s).topo = s /\ Failed(s).topo = s
BY DEF Done, Failed

\* The edge that AddEdgeTo makes between the adjacent ends a1 and a2.
NewEdge(s, n1, n2, g, faces, a1, a2, e, nf, spare) ==
  LET f == NewEdgeSides(s, n1, n2, a1, a2).left
  IN  IF faces THEN AddEdgeModFace(s, n1, n2, g, f, a1, a2, e, nf, spare)
      ELSE LinkEdge(s, n1, n2, g, f, a1, a2, e)

Makes(s, n1, n2, g, faces, o) ==
  \E a1 \in StartEnds(s, n1, n2, g), a2 \in EndEnds(s, n1, n2, g),
     e \in EdgeIdIn(s, g), nf \in FaceIds, spare \in FaceIds :
    /\ SidesAgree(s, n1, n2, a1, a2, faces)
    /\ faces => NewEdgeSides(s, n1, n2, a1, a2).left # -1
    /\ o = Done(NewEdge(s, n1, n2, g, faces, a1, a2, e, nf, spare))

LEMMA AddEdgeToMakesEdge ==
  ASSUME NEW s, NEW n1, NEW n2, NEW g, NEW faces \in BOOLEAN,
         NEW o \in AddEdgeTo(s, n1, n2, g, faces)
  PROVE  o = Failed(s) \/ (CanAddEdge(s, n1, n2, g) /\ Makes(s, n1, n2, g, faces, o))
<1> DEFINE fits(a1, a2) == /\ CanAddEdge(s, n1, n2, g)
                           /\ SidesAgree(s, n1, n2, a1, a2, faces)
                           /\ faces => NewEdgeSides(s, n1, n2, a1, a2).left # -1
           made(a1, a2, nf) == {Done(NewEdge(s, n1, n2, g, faces, a1, a2, e, nf, spare)) :
                                  e \in EdgeIdIn(s, g), spare \in FaceIdIn(s, {nf})}
           tried(a1, a2, nf) == IF fits(a1, a2) THEN made(a1, a2, nf) ELSE {Failed(s)}
           all(nf) == UNION {tried(a1, a2, nf) :
                               a1 \in StartEnds(s, n1, n2, g), a2 \in EndEnds(s, n1, n2, g)}
<1>1. AddEdgeTo(s, n1, n2, g, faces) = UNION {all(nf) : nf \in FaceIdIn(s, {})}
  BY DEF AddEdgeTo, NewEdge
<1> HIDE DEF all
<1>2. PICK nf \in FaceIdIn(s, {}) : o \in all(nf)
  BY <1>1
<1> HIDE DEF tried
<1>3. PICK T \in {tried(a1, a2, nf) :
                    a1 \in StartEnds(s, n1, n2, g), a2 \in EndEnds(s, n1, n2, g)} : o \in T
  BY <1>2 DEF all
<1>4. PICK a1 \in StartEnds(s, n1, n2, g), a2 \in EndEnds(s, n1, n2, g) :
        T = tried(a1, a2, nf)
  BY <1>3
<1>5. CASE ~ fits(a1, a2)
  BY <1>3, <1>4, <1>5 DEF tried
<1>6. CASE fits(a1, a2)
  <2>1. o \in made(a1, a2, nf)
    BY <1>3, <1>4, <1>6 DEF tried
  <2>2. PICK e \in EdgeIdIn(s, g), spare \in FaceIdIn(s, {nf}) :
          o = Done(NewEdge(s, n1, n2, g, faces, a1, a2, e, nf, spare))
    BY <2>1
  <2>3. FaceIdIn(s, {}) \subseteq FaceIds /\ FaceIdIn(s, {nf}) \subseteq FaceIds
    BY DEF FaceIdIn, Smallest
  <2>4. nf \in FaceIds /\ spare \in FaceIds
    BY <2>3
  <2> QED BY <1>6, <2>2, <2>4 DEF Makes
<1> QED BY <1>5, <1>6

LEMMA AddEdgeToIsGood ==
  ASSUME NEW s, Good(s), NEW n1 \in DOMAIN s.node, NEW n2 \in DOMAIN s.node,
         NEW g \in Line, NEW o \in AddEdgeTo(s, n1, n2, g, TRUE)
  PROVE  Good(o.topo)
<1>1. CASE o = Failed(s)
  BY <1>1, OutcomesLeave
<1>2. CASE o # Failed(s)
  <2>1. CanAddEdge(s, n1, n2, g) /\ Makes(s, n1, n2, g, TRUE, o)
    BY <1>2, AddEdgeToMakesEdge
  <2>2. PICK a1 \in StartEnds(s, n1, n2, g), a2 \in EndEnds(s, n1, n2, g),
             e \in EdgeIdIn(s, g), nf \in FaceIds, spare \in FaceIds :
          /\ SidesAgree(s, n1, n2, a1, a2, TRUE)
          /\ NewEdgeSides(s, n1, n2, a1, a2).left # -1
          /\ o = Done(NewEdge(s, n1, n2, g, TRUE, a1, a2, e, nf, spare))
    BY <2>1 DEF Makes
  <2> DEFINE f == NewEdgeSides(s, n1, n2, a1, a2).left
             t == AddEdgeModFace(s, n1, n2, g, f, a1, a2, e, nf, spare)
  <2>3. /\ a1.cw \in DartsAt(s, n1) \cup {0} /\ a1.ccw \in DartsAt(s, n1) \cup {0}
        /\ a2.cw \in DartsAt(s, n2) \cup {0}
    BY AdjacentEndsAreEnds DEF StartEnds, EndEnds
  <2>4. NewEdgeFace(s, n1, n2, a1, a2) \in Faces \cup {-1}
    BY <2>3, NewEdgeFaceTyped DEF Good, Sound
  <2>5. f \in Faces
    BY <2>2, <2>4 DEF NewEdgeFace
  <2>6. o.topo = t
    BY <2>2, OutcomesLeave DEF NewEdge
  <2> HIDE DEF f
  <2>7. e \in EdgeIds \ DOMAIN s.edge
    BY IdentifiersInAreFree
  <2>8. Sound(t)
    BY <2>3, <2>5, <2>7, AddEdgeModFaceSound DEF Good
  <2>9. Flat(t)
    BY <2>1, <2>3, <2>5, <2>7, AddEdgeModFaceFlat DEF Good
  <2>10. Turning(t) /\ FewMore(s, t)
    BY <2>1, <2>5, <2>7, AddEdgeTurns, AddEdgeAddsFew DEF Good
  <2> HIDE DEF t
  <2> QED BY <2>6, <2>8, <2>9, <2>10, FewMoreIsFinite DEF Good
<1> QED BY <1>1, <1>2

\* The ends are joined unless the piece is there already.
LEMMA JoinEndsAddsEdge ==
  ASSUME NEW s, NEW g, NEW faces \in BOOLEAN, NEW o \in JoinEnds(s, g, faces)
  PROVE  \/ EqualEdges(s, g) # {} /\ o = Done(s)
         \/ \E n1 \in NodesAt(s, StartPoint(g)), n2 \in NodesAt(s, EndPoint(g)) :
              o \in AddEdgeTo(s, n1, n2, g, faces)
<1>1. CASE EqualEdges(s, g) # {}
  BY <1>1 DEF JoinEnds
<1>2. CASE EqualEdges(s, g) = {}
  <2>1. PICK T \in {AddEdgeTo(s, n1, n2, g, faces) :
                     n1 \in NodesAt(s, StartPoint(g)), n2 \in NodesAt(s, EndPoint(g))} :
          o \in T
    BY <1>2 DEF JoinEnds
  <2> QED BY <2>1
<1> QED BY <1>1, <1>2

LEMMA JoinEndsIsGood ==
  ASSUME NEW s, Good(s), NEW g \in Line, NEW o \in JoinEnds(s, g, TRUE)
  PROVE  Good(o.topo)
<1>1. CASE o = Done(s)
  BY <1>1, OutcomesLeave
<1>2. CASE o # Done(s)
  <2>1. PICK n1 \in NodesAt(s, StartPoint(g)), n2 \in NodesAt(s, EndPoint(g)) :
          o \in AddEdgeTo(s, n1, n2, g, TRUE)
    BY <1>2, JoinEndsAddsEdge
  <2>2. n1 \in DOMAIN s.node /\ n2 \in DOMAIN s.node
    BY DEF NodesAt
  <2> QED BY <2>1, <2>2, AddEdgeToIsGood
<1> QED BY <1>1, <1>2

\* Adding the ends of a piece may split edges before the piece is joined to them.
LEMMA AddLineEdgeIsGood ==
  ASSUME NEW s, Good(s), NEW g \in Line, NEW o \in AddLineEdge(s, g, TRUE)
  PROVE  Good(o.topo)
<1>1. o \in UNION {UNION {JoinEnds(ended, g, TRUE) :
              ended \in AddPoint(started, EndPoint(g), TRUE)} :
            started \in AddPoint(s, StartPoint(g), TRUE)}
  BY DEF AddLineEdge
<1>2. PICK started \in AddPoint(s, StartPoint(g), TRUE) :
        o \in UNION {JoinEnds(ended, g, TRUE) : ended \in AddPoint(started, EndPoint(g), TRUE)}
  BY <1>1
<1>3. PICK ended \in AddPoint(started, EndPoint(g), TRUE) : o \in JoinEnds(ended, g, TRUE)
  BY <1>2
<1>4. Good(started)
  BY LineVertices, AddPointIsGood
<1>5. Good(ended)
  BY <1>4, LineVertices, AddPointIsGood
<1> QED BY <1>3, <1>5, JoinEndsIsGood

-----------------------------------------------------------------------------
(* Loading without faces.                                                  *)

\* A row whose sides may have no face.
LooseRow ==
  [start_node : NodeIds, end_node   : NodeIds,
   next_left  : Darts,   next_right : Darts,
   face_left  : Faces \cup {-1}, face_right : Faces \cup {-1}]

\* s draws and links what t does, whatever faces and marks it has.
Alike(t, s) ==
  /\ SameLinks(t, s)
  /\ DOMAIN s.node = DOMAIN t.node /\ s.point = t.point
  /\ s.lineal = t.lineal /\ s.areal = t.areal

\* While faces are missing the sides of an edge may have none and a node may be
\* marked before its edge comes: what is left of Good is what s has in common
\* with some good topology.
Loaded(s) ==
  /\ DOMAIN s = Tables
  /\ \A x \in DOMAIN s.edge : s.edge[x] \in LooseRow
  /\ \A n \in DOMAIN s.node : s.node[n] \in Faces \cup {NotIsolated}
  /\ \A x \in DOMAIN s.edge :
       s.node[s.edge[x].start_node] = NotIsolated /\ s.node[s.edge[x].end_node] = NotIsolated
  /\ \E t : Good(t) /\ Alike(t, s)

\* Nodes marked before their edge came.
Strays(s) == {n \in DOMAIN s.node : s.node[n] = NotIsolated /\ Incident(s, n) = {}}

LEMMA AlikeDarts ==
  ASSUME NEW t, Good(t), NEW s, Alike(t, s)
  PROVE  /\ DartsOf(s) = DartsOf(t)
         /\ \A d \in DartsOf(t) : /\ Origin(s, d) = Origin(t, d)
                                  /\ Leaving(s, d) = Leaving(t, d)
                                  /\ Next(s, d) = Next(t, d)
         /\ \A n : DartsAt(s, n) = DartsAt(t, n) /\ Incident(s, n) = Incident(t, n)
<1>1. DartsOf(s) = DartsOf(t)
  BY DEF Alike, SameLinks, DartsOf
<1>2. ASSUME NEW d \in DartsOf(t)
      PROVE  Origin(s, d) = Origin(t, d) /\ Leaving(s, d) = Leaving(t, d) /\ Next(s, d) = Next(t, d)
  <2>1. d \in Int /\ d # 0 /\ EdgeOf(d) \in DOMAIN t.edge
    BY DartIsSigned DEF Good, Sound
  <2>2. Path(s, d) = Path(t, d)
    BY DEF Path, Alike, SameLinks
  <2>3. CASE d > 0
    BY <2>1, <2>2, <2>3 DEF EdgeOf, Origin, Leaving, Next, Alike, SameLinks
  <2>4. CASE d < 0
    <3>1. ~ (d > 0) /\ -d \in DOMAIN t.edge
      BY <2>1, <2>4 DEF EdgeOf
    <3> QED BY <2>2, <3>1 DEF Origin, Leaving, Next, Alike, SameLinks
  <2> QED BY <2>1, <2>3, <2>4
<1>3. \A n : DartsAt(s, n) = DartsAt(t, n)
  BY <1>1, <1>2 DEF DartsAt
<1>4. \A n : Incident(s, n) = Incident(t, n)
  BY DEF Incident, Alike, SameLinks
<1> QED BY <1>1, <1>2, <1>3, <1>4

\* The plane drawing and the clockwise links are seen in s itself.
LEMMA LoadedIsDrawn ==
  ASSUME NEW s, Loaded(s)
  PROVE  IsPlanar(s) /\ LinksTurnClockwise(s)
<1>1. PICK t : Good(t) /\ Alike(t, s)
  BY DEF Loaded
<1>2. IsPlanar(s)
  <2>1. IsPlanar(t)
    BY <1>1, FlatIsPlanar DEF Good
  <2> QED BY <1>1, <2>1 DEF IsPlanar, Alike, SameLinks
<1>3. LinksTurnClockwise(s)
  <2>1. LinksTurnClockwise(t)
    BY <1>1, TurningIsClockwise DEF Good, Sound
  <2> SUFFICES ASSUME NEW d \in DartsOf(s)
               PROVE  LET others == DartsAt(s, Target(s, d)) \ {-d}
                      IN  IF others = {} THEN Next(s, d) = -d
                          ELSE /\ Next(s, d) \in others
                               /\ \A x \in others :
                                    ~ MetBefore(Leaving(s, -d), Leaving(s, x), Leaving(s, Next(s, d)))
    BY DEF LinksTurnClockwise
  <2> DEFINE others == DartsAt(t, Target(t, d)) \ {-d}
  <2>2. d \in DartsOf(t) /\ -d \in DartsOf(t)
    BY <1>1, AlikeDarts, DartIsSigned DEF Good, Sound
  <2>3. /\ DartsAt(s, Target(s, d)) = DartsAt(t, Target(t, d))
        /\ Next(s, d) = Next(t, d) /\ Leaving(s, -d) = Leaving(t, -d)
    BY <1>1, <2>2, AlikeDarts DEF Target
  <2>4. \A x \in others : Leaving(s, x) = Leaving(t, x)
    BY <1>1, AlikeDarts DEF DartsAt
  <2>5. IF others = {} THEN Next(t, d) = -d
        ELSE /\ Next(t, d) \in others
             /\ \A x \in others :
                  ~ MetBefore(Leaving(t, -d), Leaving(t, x), Leaving(t, Next(t, d)))
    BY <2>1, <2>2 DEF LinksTurnClockwise
  <2> QED BY <2>3, <2>4, <2>5
<1> QED BY <1>2, <1>3

\* So are the rings.
LEMMA LoadedRingsAreCycles ==
  ASSUME NEW s, Loaded(s)
  PROVE  RingsAreCycles(s)
<1>1. PICK t : Good(t) /\ Alike(t, s)
  BY DEF Loaded
<1>2. RingsAreCycles(t) /\ Linked(t)
  BY <1>1, RingsComeBack, TurningIsLinked DEF Good, Sound
<1>3. SameLinks(t, s)
  BY <1>1 DEF Alike
<1>4. DartsOf(s) = DartsOf(t)
  BY <1>1, AlikeDarts
<1>5. \A d \in DartsOf(t) : Ring(s, d) = Ring(t, d) /\ Ring(t, d) \subseteq DartsOf(t)
  BY <1>2, <1>3, SameLinksSameRings, RingIsLeast
<1> QED BY <1>2, <1>4, <1>5 DEF RingsAreCycles

LEMMA GoodIsLoaded ==
  ASSUME NEW s, Good(s)
  PROVE  Loaded(s) /\ Strays(s) = {}
<1>1. Alike(s, s)
  BY DEF Alike, SameLinks
<1>2. \A x \in DOMAIN s.edge : s.edge[x] \in LooseRow
  BY DEF Good, Sound, Typed, IsTopology, EdgeRow, LooseRow
<1>3. /\ \A n \in DOMAIN s.node : s.node[n] \in Faces \cup {NotIsolated}
      /\ \A x \in DOMAIN s.edge :
           s.node[s.edge[x].start_node] = NotIsolated /\ s.node[s.edge[x].end_node] = NotIsolated
  BY DEF Good, Sound, Typed, IsTopology, IsolationMatchesEdges
<1>4. Strays(s) = {}
  BY DEF Good, Sound, IsolationMatchesEdges, Strays
<1> QED BY <1>1, <1>2, <1>3, <1>4 DEF Loaded, Good, Sound, Typed

LEMMA LoadedTracksEdges ==
  ASSUME NEW s, Loaded(s), Strays(s) = {}
  PROVE  IsolationMatchesEdges(s)
<1>1. PICK t : Good(t) /\ Alike(t, s)
  BY DEF Loaded
<1>2. \A x \in DOMAIN s.edge : {s.edge[x].start_node, s.edge[x].end_node} \subseteq DOMAIN s.node
  BY <1>1 DEF Alike, SameLinks, Good, Sound, IsolationMatchesEdges
<1> QED BY <1>2 DEF Loaded, Strays, IsolationMatchesEdges

\* The other way round, with faces on the sides of the edges.
LEMMA LoadedWithFacesIsGood ==
  ASSUME NEW s, Loaded(s), Strays(s) = {}, DOMAIN s.mbr \subseteq FaceIds,
         \A x \in DOMAIN s.edge : s.edge[x].face_left \in Faces /\ s.edge[x].face_right \in Faces
  PROVE  Good(s)
<1>1. PICK t : Good(t) /\ Alike(t, s)
  BY DEF Loaded
<1>2. \A x \in DOMAIN s.edge : s.edge[x] \in EdgeRow
  BY DEF Loaded, LooseRow, EdgeRow
<1>3. Typed(s)
  BY <1>1, <1>2 DEF Typed, IsTopology, Loaded, Alike, SameLinks, Good, Sound
<1>4. IsolationMatchesEdges(s)
  BY LoadedTracksEdges
<1>5. Flat(s)
  BY <1>1 DEF Good, Flat, NodesPlaced, EdgeDrawn, Alike, SameLinks
<1>6. Turning(s)
  BY <1>1, SameLinksTurn DEF Good, Sound, Alike
<1>7. IsFiniteSet(DOMAIN s.edge)
  BY <1>1 DEF Good, Alike, SameLinks
<1> QED BY <1>3, <1>4, <1>5, <1>6, <1>7 DEF Good, Sound

-----------------------------------------------------------------------------
(* Points and edges of a topology that is loaded without faces.            *)

\* The marks without an edge are at the points X.
StraysAt(s, X) == \A n \in Strays(s) : s.point[n] \in X

LEMMA AlikeTables ==
  ASSUME NEW t, Good(t), NEW s, Alike(t, s)
  PROVE  /\ DOMAIN s.node = DOMAIN t.node /\ s.point = t.point /\ DOMAIN s.point = DOMAIN s.node
         /\ DOMAIN s.edge = DOMAIN t.edge /\ s.line = t.line /\ DOMAIN s.line = DOMAIN s.edge
         /\ DOMAIN s.edge \subseteq EdgeIds
         /\ \A x \in DOMAIN s.edge : s.edge[x].start_node \in DOMAIN s.node
                                     /\ s.edge[x].end_node \in DOMAIN s.node
<1>1. /\ DOMAIN s.node = DOMAIN t.node /\ s.point = t.point
      /\ DOMAIN s.edge = DOMAIN t.edge /\ s.line = t.line
  BY DEF Alike, SameLinks
<1>2. /\ DOMAIN t.point = DOMAIN t.node /\ DOMAIN t.line = DOMAIN t.edge
      /\ DOMAIN t.edge \subseteq EdgeIds
  BY DEF Good, Sound, Typed, IsTopology
<1>3. \A x \in DOMAIN t.edge : EdgeDrawn(t, x)
  BY DEF Good, Flat
<1>4. \A x \in DOMAIN s.edge : s.edge[x].start_node \in DOMAIN s.node
                               /\ s.edge[x].end_node \in DOMAIN s.node
  BY <1>1, <1>3 DEF EdgeDrawn, Alike, SameLinks
<1> QED BY <1>1, <1>2, <1>4

\* What ModEdgeSplit writes, field by field.
WritesSplit(u, s, e, p, n, e2) ==
  LET end == s.edge[e].end_node
      nextLeft(x) == IF x = e THEN e2 ELSE s.edge[x].next_left
      other(link, applies) == IF link = -e /\ applies THEN -e2 ELSE link
  IN  /\ DOMAIN u = Tables
      /\ u.node = WithRow(s.node, n, NotIsolated) /\ u.point = WithRow(s.point, n, p)
      /\ u.line = WithRow([s.line EXCEPT ![e] = HeadUpTo(s.line[e], p)],
                          e2, TailFrom(s.line[e], p))
      /\ u.areal = s.areal
      /\ u.lineal = IF e \in s.lineal THEN s.lineal \cup {e2} ELSE s.lineal
      /\ DOMAIN u.edge = DOMAIN s.edge \cup {e2}
      /\ \A x \in DOMAIN u.edge : u.edge[x] \in LooseRow
      /\ u.edge[e2].start_node = n /\ u.edge[e2].end_node = end
      /\ u.edge[e2].next_left = other(s.edge[e].next_left, TRUE) /\ u.edge[e2].next_right = -e
      /\ \A x \in DOMAIN s.edge :
           /\ u.edge[x].start_node = s.edge[x].start_node
           /\ u.edge[x].end_node = IF x = e THEN n ELSE s.edge[x].end_node
           /\ u.edge[x].next_right = other(s.edge[x].next_right, u.edge[x].start_node = end)
           /\ u.edge[x].next_left = other(nextLeft(x), u.edge[x].end_node = end)

LEMMA SplitRows ==
  ASSUME NEW s, DOMAIN s = Tables, \A x \in DOMAIN s.edge : s.edge[x] \in LooseRow,
         DOMAIN s.edge \subseteq EdgeIds,
         NEW e \in DOMAIN s.edge, NEW p, NEW n \in NodeIds, NEW e2 \in EdgeIds \ DOMAIN s.edge
  PROVE  WritesSplit(ModEdgeSplit(s, e, p, n, e2), s, e, p, n, e2)
<1> DEFINE old  == s.edge[e]
           tail == [old EXCEPT !.start_node = n,
                               !.next_left  = IF @ = -e THEN -e2 ELSE @,
                               !.next_right = -e]
           head == [old EXCEPT !.next_left = e2, !.end_node = n]
           rows == WithRow([s.edge EXCEPT ![e] = head], e2, tail)
           relinked(x) ==
             [rows[x] EXCEPT
                !.next_right = IF @ = -e /\ rows[x].start_node = old.end_node THEN -e2 ELSE @,
                !.next_left  = IF @ = -e /\ rows[x].end_node = old.end_node THEN -e2 ELSE @]
           u == ModEdgeSplit(s, e, p, n, e2)
<1>0. old = s.edge[e]
  OBVIOUS
<1>1. e2 # e /\ old \in LooseRow /\ {-e, e2, -e2} \subseteq Darts
  BY DEF Darts
<1>2. /\ DOMAIN u = Tables
      /\ u.node = WithRow(s.node, n, NotIsolated) /\ u.point = WithRow(s.point, n, p)
      /\ u.edge = [x \in DOMAIN rows |-> IF x = e2 THEN tail ELSE relinked(x)]
      /\ u.line = WithRow([s.line EXCEPT ![e] = HeadUpTo(s.line[e], p)],
                          e2, TailFrom(s.line[e], p))
      /\ u.mbr = s.mbr /\ u.areal = s.areal
      /\ u.lineal = IF e \in s.lineal THEN s.lineal \cup {e2} ELSE s.lineal
  BY DEF ModEdgeSplit, WithNode, Tables
<1>3. /\ tail \in LooseRow /\ tail.start_node = n /\ tail.end_node = old.end_node
      /\ tail.next_left = IF old.next_left = -e THEN -e2 ELSE old.next_left
      /\ tail.next_right = -e
  BY <1>1 DEF LooseRow
<1>4. /\ head \in LooseRow /\ head.start_node = old.start_node /\ head.end_node = n
      /\ head.next_left = e2 /\ head.next_right = old.next_right
  BY <1>1 DEF LooseRow
<1> HIDE DEF u, tail, head, old
<1>5. /\ DOMAIN rows = DOMAIN s.edge \cup {e2} /\ rows[e] = head
      /\ \A x \in DOMAIN s.edge \ {e} : rows[x] = s.edge[x]
  BY <1>1 DEF WithRow
<1> HIDE DEF rows
<1>6. \A x \in DOMAIN s.edge : rows[x] \in LooseRow
  BY <1>4, <1>5
<1>7. ASSUME NEW x \in DOMAIN s.edge
      PROVE  /\ relinked(x) \in LooseRow
             /\ relinked(x).start_node = rows[x].start_node
             /\ relinked(x).end_node = rows[x].end_node
             /\ relinked(x).next_right =
                  IF rows[x].next_right = -e /\ rows[x].start_node = old.end_node
                  THEN -e2 ELSE rows[x].next_right
             /\ relinked(x).next_left =
                  IF rows[x].next_left = -e /\ rows[x].end_node = old.end_node
                  THEN -e2 ELSE rows[x].next_left
  <2>1. rows[x] \in LooseRow
    BY <1>6
  <2> QED BY <1>1, <2>1 DEF LooseRow
<1> HIDE DEF relinked
<1>8. /\ DOMAIN u.edge = DOMAIN s.edge \cup {e2} /\ u.edge[e2] = tail
      /\ \A x \in DOMAIN s.edge : u.edge[x] = relinked(x)
  BY <1>2, <1>5
<1>9. \A x \in DOMAIN u.edge : u.edge[x] \in LooseRow
  BY <1>3, <1>7, <1>8
<1>10. ASSUME NEW x \in DOMAIN s.edge
       PROVE  /\ u.edge[x].start_node = s.edge[x].start_node
              /\ u.edge[x].end_node = IF x = e THEN n ELSE s.edge[x].end_node
              /\ u.edge[x].next_right =
                   IF s.edge[x].next_right = -e /\ u.edge[x].start_node = old.end_node
                   THEN -e2 ELSE s.edge[x].next_right
              /\ u.edge[x].next_left =
                   IF (IF x = e THEN e2 ELSE s.edge[x].next_left) = -e
                        /\ u.edge[x].end_node = old.end_node
                   THEN -e2 ELSE IF x = e THEN e2 ELSE s.edge[x].next_left
  <2>1. CASE x = e
    BY <1>0, <1>4, <1>5, <1>7, <1>8, <2>1
  <2>2. CASE x # e
    BY <1>5, <1>7, <1>8, <2>2
  <2> QED BY <2>1, <2>2
<1>11. /\ u.edge[e2].start_node = n /\ u.edge[e2].end_node = old.end_node
       /\ u.edge[e2].next_left = IF old.next_left = -e THEN -e2 ELSE old.next_left
       /\ u.edge[e2].next_right = -e
  BY <1>3, <1>8
<1>12. /\ DOMAIN u = Tables
       /\ u.node = WithRow(s.node, n, NotIsolated) /\ u.point = WithRow(s.point, n, p)
       /\ u.line = WithRow([s.line EXCEPT ![e] = HeadUpTo(s.line[e], p)],
                           e2, TailFrom(s.line[e], p))
       /\ u.areal = s.areal
       /\ u.lineal = IF e \in s.lineal THEN s.lineal \cup {e2} ELSE s.lineal
       /\ DOMAIN u.edge = DOMAIN s.edge \cup {e2}
  BY <1>2, <1>8
<1>13. WritesSplit(u, s, e, p, n, e2)
  BY <1>0, <1>9, <1>10, <1>11, <1>12 DEF WritesSplit
<1> QED BY <1>13 DEF u

\* The splits of two topologies that are alike are alike.
LEMMA SplitsAreAlike ==
  ASSUME NEW t, Good(t), NEW s, Loaded(s), Alike(t, s),
         NEW e \in DOMAIN s.edge, NEW p, NEW n \in NodeIds, NEW e2 \in EdgeIds \ DOMAIN s.edge
  PROVE  Alike(ModEdgeSplit(t, e, p, n, e2), ModEdgeSplit(s, e, p, n, e2))
<1> DEFINE v == ModEdgeSplit(t, e, p, n, e2)
           u == ModEdgeSplit(s, e, p, n, e2)
<1>1. /\ DOMAIN s.edge = DOMAIN t.edge /\ DOMAIN s.node = DOMAIN t.node
      /\ s.point = t.point /\ s.line = t.line /\ DOMAIN s.edge \subseteq EdgeIds
      /\ e2 \in EdgeIds \ DOMAIN t.edge
  BY AlikeTables
<1>2. s.lineal = t.lineal /\ s.areal = t.areal
  BY DEF Alike
<1>3. \A x \in DOMAIN s.edge : /\ s.edge[x].start_node = t.edge[x].start_node
                               /\ s.edge[x].end_node = t.edge[x].end_node
                               /\ s.edge[x].next_left = t.edge[x].next_left
                               /\ s.edge[x].next_right = t.edge[x].next_right
  BY DEF Alike, SameLinks
<1>4. DOMAIN s = Tables /\ \A x \in DOMAIN s.edge : s.edge[x] \in LooseRow
  BY DEF Loaded
<1>5. DOMAIN t = Tables /\ \A x \in DOMAIN t.edge : t.edge[x] \in LooseRow
  BY GoodIsLoaded DEF Loaded
<1> HIDE DEF u, v
<1>6. WritesSplit(u, s, e, p, n, e2)
  BY <1>1, <1>4, SplitRows DEF u
<1>7. WritesSplit(v, t, e, p, n, e2)
  BY <1>1, <1>5, SplitRows DEF v
<1>8. u.point = v.point /\ u.line = v.line /\ u.areal = v.areal /\ u.lineal = v.lineal
  BY <1>1, <1>2, <1>6, <1>7 DEF WritesSplit
<1>9. DOMAIN u.node = DOMAIN v.node /\ DOMAIN u.edge = DOMAIN s.edge \cup {e2}
        /\ DOMAIN v.edge = DOMAIN s.edge \cup {e2}
  BY <1>1, <1>6, <1>7 DEF WritesSplit, WithRow
<1>10. ASSUME NEW x \in DOMAIN s.edge
       PROVE  /\ u.edge[x].start_node = v.edge[x].start_node
              /\ u.edge[x].end_node = v.edge[x].end_node
              /\ u.edge[x].next_left = v.edge[x].next_left
              /\ u.edge[x].next_right = v.edge[x].next_right
  BY <1>1, <1>3, <1>6, <1>7 DEF WritesSplit
<1>11. /\ u.edge[e2].start_node = v.edge[e2].start_node
       /\ u.edge[e2].end_node = v.edge[e2].end_node
       /\ u.edge[e2].next_left = v.edge[e2].next_left
       /\ u.edge[e2].next_right = v.edge[e2].next_right
  BY <1>1, <1>3, <1>6, <1>7 DEF WritesSplit
<1>12. SameLinks(v, u)
  BY <1>8, <1>9, <1>10, <1>11 DEF SameLinks
<1>13. Alike(v, u)
  BY <1>8, <1>9, <1>12 DEF Alike
<1> QED BY <1>13 DEF u, v

LEMMA LoadedSplit ==
  ASSUME NEW s, Loaded(s), NEW p \in Point, ~ ExistsCoincidentNode(s, p),
         NEW e \in DOMAIN s.edge, Passes(s.line[e], p),
         NEW n \in NodeIds \ DOMAIN s.node, NEW e2 \in EdgeIds \ DOMAIN s.edge
  PROVE  LET u == ModEdgeSplit(s, e, p, n, e2)
         IN  Loaded(u) /\ \A X : StraysAt(s, X) => StraysAt(u, X)
<1> DEFINE u == ModEdgeSplit(s, e, p, n, e2)
<1>1. PICK t : Good(t) /\ Alike(t, s)
  BY DEF Loaded
<1> DEFINE v == ModEdgeSplit(t, e, p, n, e2)
<1>2. /\ DOMAIN s.edge = DOMAIN t.edge /\ DOMAIN s.node = DOMAIN t.node
      /\ s.point = t.point /\ s.line = t.line
      /\ DOMAIN s.point = DOMAIN s.node /\ DOMAIN s.edge \subseteq EdgeIds
      /\ \A x \in DOMAIN s.edge : s.edge[x].start_node \in DOMAIN s.node
                                  /\ s.edge[x].end_node \in DOMAIN s.node
  BY <1>1, AlikeTables
<1>3. CanSplitEdge(t, e, p)
  <2>1. ~ ExistsCoincidentNode(t, p)
    BY <1>2 DEF ExistsCoincidentNode
  <2> QED BY <1>1, <1>2, <2>1, PassingEdgeCanBeSplit
<1>4. Good(v)
  BY <1>1, <1>2, <1>3, SplitIsGood
<1>5. Alike(v, u)
  BY <1>1, SplitsAreAlike
<1> HIDE DEF u, v
<1>a. WritesSplit(u, s, e, p, n, e2)
  BY <1>2, SplitRows DEF Loaded, u
<1>6. /\ DOMAIN u = Tables /\ \A x \in DOMAIN u.edge : u.edge[x] \in LooseRow
      /\ u.node = WithRow(s.node, n, NotIsolated) /\ u.point = WithRow(s.point, n, p)
      /\ DOMAIN u.edge = DOMAIN s.edge \cup {e2}
  BY <1>a DEF WritesSplit
<1>7. /\ u.edge[e2].start_node = n /\ u.edge[e2].end_node = s.edge[e].end_node
  BY <1>a DEF WritesSplit
<1>8. \A x \in DOMAIN s.edge :
        /\ u.edge[x].start_node = s.edge[x].start_node
        /\ u.edge[x].end_node = IF x = e THEN n ELSE s.edge[x].end_node
  BY <1>a DEF WritesSplit
<1>9. /\ DOMAIN u.node = DOMAIN s.node \cup {n} /\ u.node[n] = NotIsolated
      /\ \A m \in DOMAIN s.node : u.node[m] = s.node[m] /\ u.point[m] = s.point[m]
  BY <1>2, <1>6 DEF WithRow
<1>10. /\ \A m \in DOMAIN s.node : s.node[m] \in Faces \cup {NotIsolated}
       /\ \A x \in DOMAIN s.edge :
            s.node[s.edge[x].start_node] = NotIsolated /\ s.node[s.edge[x].end_node] = NotIsolated
  BY DEF Loaded
<1>11. ASSUME NEW x \in DOMAIN u.edge
       PROVE  u.node[u.edge[x].start_node] = NotIsolated /\ u.node[u.edge[x].end_node] = NotIsolated
  <2>1. CASE x = e2
    BY <1>2, <1>7, <1>9, <1>10, <2>1
  <2>2. CASE x \in DOMAIN s.edge
    BY <1>2, <1>8, <1>9, <1>10, <2>2
  <2> QED BY <1>6, <2>1, <2>2
<1>12. Loaded(u)
  BY <1>4, <1>5, <1>6, <1>9, <1>10, <1>11 DEF Loaded
<1>13. ASSUME NEW m \in Strays(u) PROVE m \in Strays(s) /\ u.point[m] = s.point[m]
  <2>1. m \in DOMAIN u.node /\ u.node[m] = NotIsolated /\ Incident(u, m) = {}
    BY DEF Strays
  <2>2. \A x \in DOMAIN u.edge : m # u.edge[x].start_node /\ m # u.edge[x].end_node
    BY <2>1 DEF Incident
  <2>3. m # n
    BY <1>6, <1>7, <2>2
  <2>4. \A x \in DOMAIN s.edge : m # s.edge[x].start_node /\ m # s.edge[x].end_node
    BY <1>6, <1>7, <1>8, <2>2
  <2>5. Incident(s, m) = {}
    BY <2>4 DEF Incident
  <2> QED BY <1>9, <2>1, <2>3, <2>5 DEF Strays
<1>14. \A X : StraysAt(s, X) => StraysAt(u, X)
  BY <1>13 DEF StraysAt
<1> QED BY <1>12, <1>14 DEF u

\* A point that is not on anything: no face is looked for.
LEMMA LoadedNode ==
  ASSUME NEW s, Loaded(s), NEW p \in Point,
         ~ ExistsCoincidentNode(s, p), ~ ExistsEdgeIntersectingPoint(s, p),
         NEW n \in NodeIds \ DOMAIN s.node
  PROVE  LET u == WithNode(s, n, NotIsolated, p)
         IN  Loaded(u) /\ \A X : StraysAt(s, X) => StraysAt(u, X \cup {p})
<1> DEFINE u == WithNode(s, n, NotIsolated, p)
<1>1. PICK t : Good(t) /\ Alike(t, s)
  BY DEF Loaded
<1> DEFINE f == FaceContaining(t, p)
           v == WithNode(t, n, f, p)
<1>2. /\ DOMAIN s.edge = DOMAIN t.edge /\ DOMAIN s.node = DOMAIN t.node
      /\ s.point = t.point /\ s.line = t.line
      /\ DOMAIN s.point = DOMAIN s.node
      /\ \A x \in DOMAIN s.edge : s.edge[x].start_node \in DOMAIN s.node
                                  /\ s.edge[x].end_node \in DOMAIN s.node
  BY <1>1, AlikeTables
<1>3. Good(v)
  <2>1. ~ ExistsCoincidentNode(t, p) /\ ~ ExistsEdgeIntersectingPoint(t, p)
    BY <1>2 DEF ExistsCoincidentNode, ExistsEdgeIntersectingPoint
  <2>2. AddIsoNode(t, -1, p, n) = v
    BY DEF AddIsoNode
  <2>3. Good(AddIsoNode(t, -1, p, n))
    BY <1>1, <1>2, <2>1, IsolatedPointIsGood
  <2> QED BY <2>2, <2>3
<1> HIDE DEF f
<1>4. /\ DOMAIN u = Tables /\ u.edge = s.edge /\ u.line = s.line
      /\ u.node = WithRow(s.node, n, NotIsolated) /\ u.point = WithRow(s.point, n, p)
      /\ u.areal = s.areal /\ u.lineal = s.lineal
  BY DEF WithNode, Loaded, Tables
<1>5. /\ v.edge = t.edge /\ v.line = t.line
      /\ v.node = WithRow(t.node, n, f) /\ v.point = WithRow(t.point, n, p)
      /\ v.areal = t.areal /\ v.lineal = t.lineal
  BY <1>1 DEF WithNode, Good, Sound, Typed, Tables
<1> HIDE DEF u, v
<1>6. Alike(v, u)
  BY <1>1, <1>2, <1>4, <1>5 DEF Alike, SameLinks, WithRow
<1>7. /\ DOMAIN u.node = DOMAIN s.node \cup {n} /\ u.node[n] = NotIsolated /\ u.point[n] = p
      /\ \A m \in DOMAIN s.node : u.node[m] = s.node[m] /\ u.point[m] = s.point[m]
  BY <1>2, <1>4 DEF WithRow
<1>8. Loaded(u)
  BY <1>2, <1>3, <1>4, <1>6, <1>7 DEF Loaded
<1>9. \A m \in Strays(u) : m = n \/ (m \in Strays(s) /\ u.point[m] = s.point[m])
  BY <1>4, <1>7 DEF Strays, Incident
<1>10. \A X : StraysAt(s, X) => StraysAt(u, X \cup {p})
  BY <1>7, <1>9 DEF StraysAt
<1> QED BY <1>8, <1>10 DEF u

LEMMA LoadedPoint ==
  ASSUME NEW s, Loaded(s), NEW p \in Point, NEW X, StraysAt(s, X), NEW u \in AddPoint(s, p, FALSE)
  PROVE  Loaded(u) /\ StraysAt(u, X \cup {p})
<1>1. CASE ExistsCoincidentNode(s, p)
  <2>1. u = s
    BY <1>1 DEF AddPoint
  <2> QED BY <2>1 DEF StraysAt
<1>2. CASE ~ ExistsCoincidentNode(s, p) /\ ExistsEdgeIntersectingPoint(s, p)
  <2>1. u \in UNION {{ModEdgeSplit(s, e, p, n, e2) :
                 n \in NodeIdIn(s, p), e2 \in EdgeIdIn(s, TailFrom(s.line[e], p))} :
              e \in {x \in DOMAIN s.edge : Passes(s.line[x], p)}}
    BY <1>2 DEF AddPoint
  <2>2. PICK e \in {x \in DOMAIN s.edge : Passes(s.line[x], p)} :
          u \in {ModEdgeSplit(s, e, p, n, e2) :
                 n \in NodeIdIn(s, p), e2 \in EdgeIdIn(s, TailFrom(s.line[e], p))}
    BY <2>1
  <2>3. PICK n \in NodeIdIn(s, p), e2 \in EdgeIdIn(s, TailFrom(s.line[e], p)) :
          u = ModEdgeSplit(s, e, p, n, e2)
    BY <2>2
  <2>4. n \in NodeIds \ DOMAIN s.node /\ e2 \in EdgeIds \ DOMAIN s.edge
    BY IdentifiersInAreFree
  <2>5. Loaded(u) /\ StraysAt(u, X)
    BY <1>2, <2>2, <2>3, <2>4, LoadedSplit
  <2> QED BY <2>5 DEF StraysAt
<1>3. CASE ~ ExistsCoincidentNode(s, p) /\ ~ ExistsEdgeIntersectingPoint(s, p)
  <2>1. u \in {WithNode(s, n, NotIsolated, p) : n \in NodeIdIn(s, p)}
    BY <1>3 DEF AddPoint
  <2>2. PICK n \in NodeIdIn(s, p) : u = WithNode(s, n, NotIsolated, p)
    BY <2>1
  <2>3. n \in NodeIds \ DOMAIN s.node
    BY IdentifiersInAreFree
  <2> QED BY <1>3, <2>2, <2>3, LoadedNode
<1> QED BY <1>1, <1>2, <1>3

\* What LinkEdge writes, field by field.
WritesLink(u, s, n1, n2, g, f, a1, a2, e) ==
  /\ DOMAIN u = Tables
  /\ u.node = [m \in DOMAIN s.node |->
                 IF m \in {n1, n2} /\ DartsAt(s, m) = {} THEN NotIsolated ELSE s.node[m]]
  /\ u.point = s.point
  /\ u.line = WithRow(s.line, e, g)
  /\ u.areal = s.areal /\ u.lineal = s.lineal
  /\ DOMAIN u.edge = DOMAIN s.edge \cup {e}
  /\ \A x \in DOMAIN u.edge : u.edge[x] \in LooseRow
  /\ u.edge[e] = NewEdgeRow(s, n1, n2, f, a1, a2, e)
  /\ \A x \in DOMAIN s.edge :
       /\ u.edge[x].start_node = s.edge[x].start_node
       /\ u.edge[x].end_node = s.edge[x].end_node
       /\ u.edge[x].next_left = Relinked(s, n1, n2, a1, a2, e, x, s.edge[x].next_left)
       /\ u.edge[x].next_right = Relinked(s, n1, n2, a1, a2, e, -x, s.edge[x].next_right)

LEMMA LinkRows ==
  ASSUME NEW s, DOMAIN s = Tables, \A x \in DOMAIN s.edge : s.edge[x] \in LooseRow,
         NEW n1 \in NodeIds, NEW n2 \in NodeIds, NEW g, NEW f \in Faces \cup {-1},
         NEW a1, a1.cw \in Darts \cup {0}, NEW a2, a2.cw \in Darts \cup {0},
         NEW e \in EdgeIds \ DOMAIN s.edge
  PROVE  WritesLink(LinkEdge(s, n1, n2, g, f, a1, a2, e), s, n1, n2, g, f, a1, a2, e)
<1> DEFINE relinked(x) ==
             [s.edge[x] EXCEPT !.next_left  = Relinked(s, n1, n2, a1, a2, e, x, @),
                               !.next_right = Relinked(s, n1, n2, a1, a2, e, -x, @)]
           row == NewEdgeRow(s, n1, n2, f, a1, a2, e)
           old == [x \in DOMAIN s.edge |-> relinked(x)]
           u   == LinkEdge(s, n1, n2, g, f, a1, a2, e)
<1>1. e \in Darts /\ -e \in Darts /\ -(-e) \in Darts
  BY IdentifiersArePositive DEF Darts
<1>2. ASSUME NEW x \in DOMAIN s.edge
      PROVE  /\ relinked(x) \in LooseRow
             /\ relinked(x).start_node = s.edge[x].start_node
             /\ relinked(x).end_node = s.edge[x].end_node
             /\ relinked(x).next_left = Relinked(s, n1, n2, a1, a2, e, x, s.edge[x].next_left)
             /\ relinked(x).next_right = Relinked(s, n1, n2, a1, a2, e, -x, s.edge[x].next_right)
  <2>1. \A d, link : link \in Darts => Relinked(s, n1, n2, a1, a2, e, d, link) \in Darts
    BY <1>1 DEF Relinked
  <2>2. s.edge[x] \in LooseRow
    OBVIOUS
  <2> QED BY <2>1, <2>2 DEF LooseRow
<1>3. row \in LooseRow
  BY <1>1 DEF NewEdgeRow, NextAfter, LooseRow
<1> HIDE DEF row
<1>4. /\ DOMAIN u = Tables /\ u.edge = WithRow(old, e, row) /\ u.line = WithRow(s.line, e, g)
      /\ u.node = [m \in DOMAIN s.node |->
                     IF m \in {n \in {n1, n2} : DartsAt(s, n) = {}} THEN NotIsolated ELSE s.node[m]]
      /\ u.point = s.point /\ u.areal = s.areal /\ u.lineal = s.lineal
  BY DEF LinkEdge, WithContainingFace, WithEdge, Tables, row
<1>5. DOMAIN old = DOMAIN s.edge /\ \A x \in DOMAIN s.edge : old[x] = relinked(x)
  OBVIOUS
<1> HIDE DEF u, relinked, old
<1>6. /\ DOMAIN u.edge = DOMAIN s.edge \cup {e} /\ u.edge[e] = row
      /\ \A x \in DOMAIN s.edge : u.edge[x] = relinked(x)
  BY <1>4, <1>5 DEF WithRow
<1>7. \A x \in DOMAIN u.edge : u.edge[x] \in LooseRow
  BY <1>2, <1>3, <1>6
<1>8. u.node = [m \in DOMAIN s.node |->
                  IF m \in {n1, n2} /\ DartsAt(s, m) = {} THEN NotIsolated ELSE s.node[m]]
  BY <1>4
<1>9. WritesLink(u, s, n1, n2, g, f, a1, a2, e)
  BY <1>2, <1>4, <1>6, <1>7, <1>8 DEF WritesLink, row
<1> QED BY <1>9 DEF u

\* The same edge is linked in two topologies that are alike.
LEMMA LinksAreAlike ==
  ASSUME NEW t, Good(t), NEW s, Alike(t, s), NEW n1, NEW n2, NEW g, NEW f, NEW h,
         NEW a1, NEW a2, NEW e,
         NEW v, WritesLink(v, t, n1, n2, g, h, a1, a2, e),
         NEW u, WritesLink(u, s, n1, n2, g, f, a1, a2, e)
  PROVE  Alike(v, u)
<1>1. /\ DOMAIN s.edge = DOMAIN t.edge /\ DOMAIN s.node = DOMAIN t.node
      /\ s.point = t.point /\ s.line = t.line
      /\ \A n : DartsAt(s, n) = DartsAt(t, n)
  BY AlikeTables, AlikeDarts
<1>2. /\ s.lineal = t.lineal /\ s.areal = t.areal
      /\ \A x \in DOMAIN s.edge : /\ s.edge[x].start_node = t.edge[x].start_node
                                  /\ s.edge[x].end_node = t.edge[x].end_node
                                  /\ s.edge[x].next_left = t.edge[x].next_left
                                  /\ s.edge[x].next_right = t.edge[x].next_right
  BY DEF Alike, SameLinks
<1>3. /\ u.point = v.point /\ u.line = v.line /\ u.areal = v.areal /\ u.lineal = v.lineal
      /\ DOMAIN u.node = DOMAIN v.node
      /\ DOMAIN u.edge = DOMAIN s.edge \cup {e} /\ DOMAIN v.edge = DOMAIN s.edge \cup {e}
  BY <1>1, <1>2 DEF WritesLink
<1>4. \A d, link : Relinked(s, n1, n2, a1, a2, e, d, link) = Relinked(t, n1, n2, a1, a2, e, d, link)
  BY <1>1 DEF Relinked
<1>5. ASSUME NEW x \in DOMAIN s.edge
      PROVE  /\ u.edge[x].start_node = v.edge[x].start_node
             /\ u.edge[x].end_node = v.edge[x].end_node
             /\ u.edge[x].next_left = v.edge[x].next_left
             /\ u.edge[x].next_right = v.edge[x].next_right
  BY <1>1, <1>2, <1>4 DEF WritesLink
<1>6. /\ u.edge[e].start_node = v.edge[e].start_node
      /\ u.edge[e].end_node = v.edge[e].end_node
      /\ u.edge[e].next_left = v.edge[e].next_left
      /\ u.edge[e].next_right = v.edge[e].next_right
  <2>1. u.edge[e] = NewEdgeRow(s, n1, n2, f, a1, a2, e) /\ v.edge[e] = NewEdgeRow(t, n1, n2, h, a1, a2, e)
    BY DEF WritesLink
  <2> QED BY <1>1, <2>1 DEF NewEdgeRow
<1>7. SameLinks(v, u)
  BY <1>3, <1>5, <1>6 DEF SameLinks
<1> QED BY <1>3, <1>7 DEF Alike

LEMMA AlikeEnds ==
  ASSUME NEW t, Good(t), NEW s, Alike(t, s), NEW n1, NEW n2, NEW g
  PROVE  /\ StartEnds(s, n1, n2, g) = StartEnds(t, n1, n2, g)
         /\ EndEnds(s, n1, n2, g) = EndEnds(t, n1, n2, g)
         /\ CanAddEdge(s, n1, n2, g) = CanAddEdge(t, n1, n2, g)
<1>1. ASSUME NEW n, NEW u, NEW others, NEW myself
      PROVE  AdjacentEnds(s, n, u, others, myself) = AdjacentEnds(t, n, u, others, myself)
  <2> DEFINE ends(r) == {[id |-> d, dir |-> Leaving(r, d)] :
                           d \in {x \in DartsAt(r, n) : EdgeOf(x) # myself}}
                        \cup {[id |-> 0, dir |-> v] : v \in others}
  <2>1. DartsAt(s, n) = DartsAt(t, n)
    BY AlikeDarts
  <2>2. \A d \in DartsAt(t, n) : Leaving(s, d) = Leaving(t, d)
    BY AlikeDarts DEF DartsAt
  <2>3. ends(s) = ends(t)
    BY <2>1, <2>2
  <2>4. \A r : AdjacentEnds(r, n, u, others, myself) =
          IF ends(r) = {} THEN {[cw |-> 0, ccw |-> 0]}
          ELSE {[cw |-> a.id, ccw |-> b.id] :
                  a \in {x \in ends(r) : \A y \in ends(r) : ~ MetBefore(u, y.dir, x.dir)},
                  b \in {x \in ends(r) : \A y \in ends(r) : ~ MetBefore(u, x.dir, y.dir)}}
    BY DEF AdjacentEnds
  <2> HIDE DEF ends
  <2> QED BY <2>3, <2>4
<1>2. CanAddEdge(s, n1, n2, g) = CanAddEdge(t, n1, n2, g)
  BY AlikeTables DEF CanAddEdge, EdgeCrossing
<1> QED BY <1>1, <1>2 DEF StartEnds, EndEnds

\* The side of the new edge in a topology without faces.
LEMMA LoadedSideTyped ==
  ASSUME NEW s, Loaded(s), NEW n1 \in DOMAIN s.node, NEW n2 \in DOMAIN s.node, NEW g,
         NEW a1 \in StartEnds(s, n1, n2, g), NEW a2
  PROVE  NewEdgeSides(s, n1, n2, a1, a2).left \in Faces \cup {-1}
<1> DEFINE named == {s.node[n1], s.node[n2]} \ {NotIsolated}
           given == IF named = {} THEN -1 ELSE CHOOSE f \in named : TRUE
<1>1. PICK t : Good(t) /\ Alike(t, s)
  BY DEF Loaded
<1>2. \A d \in DartsOf(s) : Left(s, d) \in Faces \cup {-1} /\ -d \in DartsOf(s)
  <2> SUFFICES ASSUME NEW d \in DartsOf(s) PROVE Left(s, d) \in Faces \cup {-1} /\ -d \in DartsOf(s)
    OBVIOUS
  <2>1. d \in DartsOf(t)
    BY <1>1, AlikeDarts
  <2>2. EdgeOf(d) \in DOMAIN s.edge /\ -d \in DartsOf(s)
    BY <1>1, <2>1, DartIsSigned, AlikeDarts, AlikeTables DEF Good, Sound
  <2>3. s.edge[EdgeOf(d)] \in LooseRow
    BY <2>2 DEF Loaded
  <2> QED BY <2>2, <2>3 DEF Left, EdgeOf, LooseRow
<1>3. CwFace(s, a1) \in Faces \cup {-1} /\ CcwFace(s, a1) \in Faces \cup {-1}
  <2>1. a1.cw \in DartsAt(s, n1) \cup {0} /\ a1.ccw \in DartsAt(s, n1) \cup {0}
    BY AdjacentEndsAreEnds DEF StartEnds
  <2> QED BY <1>2, <2>1 DEF CwFace, CcwFace, DartsAt
<1>4. given \in Faces \cup {-1}
  BY DEF Loaded
<1> HIDE DEF given
<1>5. NewEdgeSides(s, n1, n2, a1, a2).left \in {-1, given, CwFace(s, a1), CcwFace(s, a1)}
  BY DEF NewEdgeSides, given
<1> QED BY <1>3, <1>4, <1>5

\* The same edge in the good topology that looks like it, in the universe.
LEMMA ShadowEdge ==
  ASSUME NEW t, Good(t), NEW n1 \in DOMAIN t.node, NEW n2 \in DOMAIN t.node,
         NEW g \in Line, CanAddEdge(t, n1, n2, g),
         NEW a1 \in StartEnds(t, n1, n2, g), NEW a2 \in EndEnds(t, n1, n2, g),
         NEW e \in EdgeIds \ DOMAIN t.edge
  PROVE  Good(LinkEdge(t, n1, n2, g, Universe, a1, a2, e))
<1> DEFINE v == LinkEdge(t, n1, n2, g, Universe, a1, a2, e)
<1>1. a1.cw \in DartsAt(t, n1) \cup {0} /\ a2.cw \in DartsAt(t, n2) \cup {0}
  BY AdjacentEndsAreEnds DEF StartEnds, EndEnds
<1>2. Universe \in Faces
  BY DEF Faces
<1>3. Sound(v) /\ Flat(v)
  BY <1>1, <1>2, LinkEdgeSound, LinkEdgeFlat DEF Good
<1>4. Turning(v)
  BY <1>3, LinkEdgeTurns DEF Good, Sound
<1>5. FewMore(t, v)
  BY EdgesAddFew DEF Good, Sound
<1> HIDE DEF v
<1>6. Good(v)
  BY <1>3, <1>4, <1>5, FewMoreIsFinite DEF Good
<1> QED BY <1>6 DEF v

\* Both ends are marked, by this edge or before: of a loaded topology every node
\* with an edge is.
LEMMA LoadedEdge ==
  ASSUME NEW s, Loaded(s), NEW n1 \in DOMAIN s.node, NEW n2 \in DOMAIN s.node,
         NEW g \in Line, CanAddEdge(s, n1, n2, g), NEW f \in Faces \cup {-1},
         NEW a1 \in StartEnds(s, n1, n2, g), NEW a2 \in EndEnds(s, n1, n2, g),
         NEW e \in EdgeIds \ DOMAIN s.edge,
         StraysAt(s, {StartPoint(g), EndPoint(g)})
  PROVE  LET u == LinkEdge(s, n1, n2, g, f, a1, a2, e)
         IN  Loaded(u) /\ Strays(u) = {}
<1> DEFINE u == LinkEdge(s, n1, n2, g, f, a1, a2, e)
<1>1. PICK t : Good(t) /\ Alike(t, s)
  BY DEF Loaded
<1> DEFINE v == LinkEdge(t, n1, n2, g, Universe, a1, a2, e)
<1>2. /\ DOMAIN s.edge = DOMAIN t.edge /\ DOMAIN s.node = DOMAIN t.node
      /\ s.point = t.point /\ s.line = t.line
      /\ \A x \in DOMAIN s.edge : s.edge[x].start_node \in DOMAIN s.node
                                  /\ s.edge[x].end_node \in DOMAIN s.node
  BY <1>1, AlikeTables
<1>3. /\ a1 \in StartEnds(t, n1, n2, g) /\ a2 \in EndEnds(t, n1, n2, g)
      /\ CanAddEdge(t, n1, n2, g)
  BY <1>1, AlikeEnds
<1>4. Good(v)
  BY <1>1, <1>2, <1>3, ShadowEdge
<1>5. /\ n1 \in NodeIds /\ n2 \in NodeIds
      /\ a1.cw \in Darts \cup {0} /\ a2.cw \in Darts \cup {0}
  <2>1. DOMAIN t.node \subseteq NodeIds /\ Typed(t)
    BY <1>1 DEF Good, Sound, Typed, IsTopology
  <2>2. a1.cw \in DartsAt(t, n1) \cup {0} /\ a2.cw \in DartsAt(t, n2) \cup {0}
    BY <1>3, AdjacentEndsAreEnds DEF StartEnds, EndEnds
  <2>3. \A n : DartsAt(t, n) \subseteq Darts
    BY <2>1, DartsAreDarts DEF DartsAt
  <2> QED BY <1>2, <2>1, <2>2, <2>3
<1>6. DOMAIN s = Tables /\ \A x \in DOMAIN s.edge : s.edge[x] \in LooseRow
  BY DEF Loaded
<1>7. DOMAIN t = Tables /\ \A x \in DOMAIN t.edge : t.edge[x] \in LooseRow
  BY <1>1, GoodIsLoaded DEF Loaded
<1>8. WritesLink(u, s, n1, n2, g, f, a1, a2, e)
  BY <1>5, <1>6, LinkRows
<1>9. WritesLink(v, t, n1, n2, g, Universe, a1, a2, e)
  <2>1. Universe \in Faces \cup {-1} /\ e \in EdgeIds \ DOMAIN t.edge
    BY <1>2 DEF Faces
  <2> QED BY <1>5, <1>7, <2>1, LinkRows
<1> HIDE DEF u, v
<1>10. Alike(v, u)
  BY <1>1, <1>8, <1>9, LinksAreAlike
<1>11. /\ DOMAIN u = Tables /\ \A x \in DOMAIN u.edge : u.edge[x] \in LooseRow
       /\ DOMAIN u.edge = DOMAIN s.edge \cup {e} /\ DOMAIN u.node = DOMAIN s.node
       /\ u.point = s.point
       /\ u.edge[e].start_node = n1 /\ u.edge[e].end_node = n2
  BY <1>8 DEF WritesLink, NewEdgeRow
<1>12. \A x \in DOMAIN s.edge : /\ u.edge[x].start_node = s.edge[x].start_node
                                /\ u.edge[x].end_node = s.edge[x].end_node
  BY <1>8 DEF WritesLink
<1>13. \A n \in DOMAIN s.node :
         u.node[n] = IF n \in {n1, n2} /\ DartsAt(s, n) = {} THEN NotIsolated ELSE s.node[n]
  BY <1>8 DEF WritesLink
<1>14. \A x \in DOMAIN s.edge :
         s.node[s.edge[x].start_node] = NotIsolated /\ s.node[s.edge[x].end_node] = NotIsolated
  BY DEF Loaded
<1>15. ASSUME NEW n \in {n1, n2} PROVE u.node[n] = NotIsolated
  <2>1. CASE DartsAt(s, n) = {}
    BY <1>13, <2>1
  <2>2. CASE DartsAt(s, n) # {}
    <3>1. Incident(s, n) # {}
      <4>1. DartsAt(t, n) # {} /\ Incident(s, n) = Incident(t, n)
        BY <1>1, <2>2, AlikeDarts
      <4> QED BY <1>1, <4>1, LinkedNodesHaveEdges DEF Good, Sound
    <3>2. s.node[n] = NotIsolated
      BY <1>14, <3>1 DEF Incident
    <3> QED BY <1>13, <2>2, <3>2
  <2> QED BY <2>1, <2>2
<1>16. \A n \in DOMAIN s.node : u.node[n] \in {s.node[n], NotIsolated}
  BY <1>13
<1>17. \A x \in DOMAIN u.edge :
         u.node[u.edge[x].start_node] = NotIsolated /\ u.node[u.edge[x].end_node] = NotIsolated
  BY <1>2, <1>11, <1>12, <1>14, <1>15, <1>16
<1>18. Loaded(u)
  <2>1. \A n \in DOMAIN u.node : u.node[n] \in Faces \cup {NotIsolated}
    BY <1>11, <1>16 DEF Loaded
  <2> QED BY <1>4, <1>10, <1>11, <1>17, <2>1 DEF Loaded
<1>19. ASSUME NEW m \in Strays(u) PROVE FALSE
  <2>1. m \in DOMAIN s.node /\ u.node[m] = NotIsolated /\ Incident(u, m) = {}
    BY <1>11 DEF Strays
  <2>2. \A x \in DOMAIN u.edge : m # u.edge[x].start_node /\ m # u.edge[x].end_node
    BY <2>1 DEF Incident
  <2>3. m # n1 /\ m # n2
    BY <1>11, <2>2
  <2>4. Incident(s, m) = {}
    BY <1>11, <1>12, <2>2 DEF Incident
  <2>5. s.node[m] = NotIsolated
    BY <1>13, <2>1, <2>3
  <2>6. s.point[m] \in {StartPoint(g), EndPoint(g)}
    BY <2>1, <2>4, <2>5 DEF Strays, StraysAt
  <2>7. StartPoint(g) = s.point[n1] /\ EndPoint(g) = s.point[n2]
    BY DEF CanAddEdge
  <2>8. \A a, b \in DOMAIN t.node : t.point[a] = t.point[b] => a = b
    BY <1>1 DEF Good, Flat, NodesPlaced
  <2> QED BY <1>2, <2>1, <2>3, <2>6, <2>7, <2>8
<1>20. Loaded(u) /\ Strays(u) = {}
  BY <1>18, <1>19
<1> QED BY <1>20 DEF u

\* A line that covers another passes its ends.
LEMMA CoveringPassesEnds ==
  ASSUME NEW g \in Line, NEW h, Covers(h, g)
  PROVE  Passes(h, StartPoint(g)) /\ Passes(h, EndPoint(g))
<1>1. /\ 1 \in 1 .. Len(g) - 1 /\ Len(g) - 1 \in 1 .. Len(g) - 1 /\ (Len(g) - 1) + 1 = Len(g)
  BY LineVertices
<1>2. \A t \in Segments(g) : Passes(h, t[1]) /\ Passes(h, t[2])
  BY DEF Covers
<1>3. \A i \in 1 .. Len(g) - 1 : Passes(h, g[i]) /\ Passes(h, g[i + 1])
  BY <1>2, SegmentsAreParts
<1> QED BY <1>1, <1>3 DEF StartPoint, EndPoint

\* The piece is there already: the marks its ends were given are of nodes of the
\* edge that equals it.
LEMMA EqualEdgeLeavesNoStrays ==
  ASSUME NEW s, Loaded(s), NEW g \in Line, EqualEdges(s, g) # {},
         StraysAt(s, {StartPoint(g), EndPoint(g)})
  PROVE  Strays(s) = {}
<1>1. PICK t : Good(t) /\ Alike(t, s)
  BY DEF Loaded
<1>2. /\ DOMAIN s.edge = DOMAIN t.edge /\ DOMAIN s.node = DOMAIN t.node
      /\ s.point = t.point /\ s.line = t.line
  BY <1>1, AlikeTables
<1>3. PICK e \in DOMAIN s.edge : Covers(s.line[e], g)
  BY DEF EqualEdges
<1>4. EdgeDrawn(t, e)
  BY <1>1, <1>2 DEF Good, Flat
<1>5. ASSUME NEW m \in Strays(s) PROVE FALSE
  <2>1. m \in DOMAIN s.node /\ Incident(s, m) = {} /\ s.point[m] \in {StartPoint(g), EndPoint(g)}
    BY DEF Strays, StraysAt
  <2>2. Passes(t.line[e], t.point[m])
    BY <1>2, <1>3, <2>1, CoveringPassesEnds
  <2>3. ~ InInterior(t.point[m], t.line[e])
    BY <1>2, <1>4, <2>1 DEF EdgeDrawn
  <2>4. t.point[m] \in {StartPoint(t.line[e]), EndPoint(t.line[e])}
    BY <2>2, <2>3 DEF InInterior
  <2>5. t.point[m] \in {t.point[t.edge[e].start_node], t.point[t.edge[e].end_node]}
    BY <1>4, <2>4 DEF EdgeDrawn
  <2>6. \A a, b \in DOMAIN t.node : t.point[a] = t.point[b] => a = b
    BY <1>1 DEF Good, Flat, NodesPlaced
  <2>7. m \in {t.edge[e].start_node, t.edge[e].end_node}
    BY <1>2, <1>4, <2>1, <2>5, <2>6 DEF EdgeDrawn
  <2>8. e \in Incident(t, m)
    BY <1>2, <2>7 DEF Incident
  <2>9. Incident(t, m) = Incident(s, m)
    BY <1>1, AlikeDarts
  <2> QED BY <2>1, <2>8, <2>9
<1> QED BY <1>5

\* Whatever is put in keeps this, with and without faces.
Kept(s, faces) == IF faces THEN Good(s) ELSE Loaded(s) /\ Strays(s) = {}

LEMMA LoadedJoinEnds ==
  ASSUME NEW s, Loaded(s), NEW g \in Line, StraysAt(s, {StartPoint(g), EndPoint(g)}),
         NEW o \in JoinEnds(s, g, FALSE), o.ok
  PROVE  Kept(o.topo, FALSE)
<1>1. CASE EqualEdges(s, g) # {} /\ o = Done(s)
  BY <1>1, EqualEdgeLeavesNoStrays, OutcomesLeave DEF Kept
<1>2. CASE \E n1 \in NodesAt(s, StartPoint(g)), n2 \in NodesAt(s, EndPoint(g)) :
             o \in AddEdgeTo(s, n1, n2, g, FALSE)
  <2>1. PICK n1 \in NodesAt(s, StartPoint(g)), n2 \in NodesAt(s, EndPoint(g)) :
          o \in AddEdgeTo(s, n1, n2, g, FALSE)
    BY <1>2
  <2>2. n1 \in DOMAIN s.node /\ n2 \in DOMAIN s.node
    BY DEF NodesAt
  <2>3. CanAddEdge(s, n1, n2, g) /\ Makes(s, n1, n2, g, FALSE, o)
    <3>1. o # Failed(s)
      BY DEF Failed
    <3> QED BY <2>1, <3>1, AddEdgeToMakesEdge
  <2>4. PICK a1 \in StartEnds(s, n1, n2, g), a2 \in EndEnds(s, n1, n2, g),
             e \in EdgeIdIn(s, g), nf \in FaceIds, spare \in FaceIds :
          o = Done(NewEdge(s, n1, n2, g, FALSE, a1, a2, e, nf, spare))
    BY <2>3 DEF Makes
  <2> DEFINE f == NewEdgeSides(s, n1, n2, a1, a2).left
  <2>5. f \in Faces \cup {-1}
    BY <2>2, LoadedSideTyped
  <2>6. o.topo = LinkEdge(s, n1, n2, g, f, a1, a2, e)
    BY <2>4, OutcomesLeave DEF NewEdge
  <2>7. e \in EdgeIds \ DOMAIN s.edge
    BY IdentifiersInAreFree
  <2>8. CanAddEdge(s, n1, n2, g)
    BY <2>3
  <2> DEFINE u == LinkEdge(s, n1, n2, g, f, a1, a2, e)
  <2> HIDE DEF f
  <2>9. Loaded(u) /\ Strays(u) = {}
    BY <2>2, <2>5, <2>7, <2>8, LoadedEdge
  <2> HIDE DEF u
  <2> QED BY <2>6, <2>9 DEF Kept, u
<1> QED BY <1>1, <1>2, JoinEndsAddsEdge

LEMMA LoadedLineEdge ==
  ASSUME NEW s, Loaded(s), Strays(s) = {}, NEW g \in Line,
         NEW o \in AddLineEdge(s, g, FALSE), o.ok
  PROVE  Kept(o.topo, FALSE)
<1>1. o \in UNION {UNION {JoinEnds(ended, g, FALSE) :
              ended \in AddPoint(started, EndPoint(g), FALSE)} :
            started \in AddPoint(s, StartPoint(g), FALSE)}
  BY DEF AddLineEdge
<1>2. PICK started \in AddPoint(s, StartPoint(g), FALSE) :
        o \in UNION {JoinEnds(ended, g, FALSE) : ended \in AddPoint(started, EndPoint(g), FALSE)}
  BY <1>1
<1>3. PICK ended \in AddPoint(started, EndPoint(g), FALSE) : o \in JoinEnds(ended, g, FALSE)
  BY <1>2
<1>4. StartPoint(g) \in Point /\ EndPoint(g) \in Point
  BY LineVertices
<1>5. StraysAt(s, {})
  BY DEF StraysAt
<1>6. Loaded(started) /\ StraysAt(started, {} \cup {StartPoint(g)})
  BY <1>4, <1>5, LoadedPoint
<1>7. Loaded(ended) /\ StraysAt(ended, ({} \cup {StartPoint(g)}) \cup {EndPoint(g)})
  BY <1>4, <1>6, LoadedPoint
<1>8. ({} \cup {StartPoint(g)}) \cup {EndPoint(g)} = {StartPoint(g), EndPoint(g)}
  OBVIOUS
<1> QED BY <1>3, <1>7, <1>8, LoadedJoinEnds

-----------------------------------------------------------------------------
(* Piece after piece, in any order, with and without faces.                *)

\* What the addition of one more piece makes of an outcome.
AfterPiece(o, h, faces) == IF o.ok THEN AddLineEdge(o.topo, h, faces) ELSE {o}

AfterPieces(outcomes, h, faces) == UNION {AfterPiece(o, h, faces) : o \in outcomes}

GoodOutcomes(outcomes, faces) == \A o \in outcomes : o.ok => Kept(o.topo, faces)

LEMMA AfterPiecesIsGood ==
  ASSUME NEW faces \in BOOLEAN, NEW outcomes, GoodOutcomes(outcomes, faces), NEW h \in Line
  PROVE  GoodOutcomes(AfterPieces(outcomes, h, faces), faces)
<1> SUFFICES ASSUME NEW x \in AfterPieces(outcomes, h, faces), x.ok PROVE Kept(x.topo, faces)
  BY DEF GoodOutcomes
<1>1. PICK o \in outcomes : x \in AfterPiece(o, h, faces)
  BY DEF AfterPieces
<1>2. o.ok
  BY <1>1 DEF AfterPiece
<1>3. Kept(o.topo, faces) /\ x \in AddLineEdge(o.topo, h, faces)
  BY <1>1, <1>2 DEF GoodOutcomes, AfterPiece
<1>4. CASE faces
  <2>1. Good(o.topo) /\ x \in AddLineEdge(o.topo, h, TRUE)
    BY <1>3, <1>4 DEF Kept
  <2>2. Good(x.topo)
    BY <2>1, AddLineEdgeIsGood
  <2> QED BY <1>4, <2>2 DEF Kept
<1>5. CASE ~ faces
  <2>1. Loaded(o.topo) /\ Strays(o.topo) = {} /\ x \in AddLineEdge(o.topo, h, FALSE)
    BY <1>3, <1>5 DEF Kept
  <2>2. Kept(x.topo, FALSE)
    BY <2>1, LoadedLineEdge
  <2> QED BY <1>5, <2>2
<1> QED BY <1>4, <1>5

\* w is the recursive function of AddLine for the sets of up to k pieces.
Adding(s, S, faces, k, w) ==
  w = [done \in {x \in SUBSET S : Cardinality(x) <= k} |->
         IF done = {} THEN {Done(s)}
         ELSE UNION {AfterPieces(w[done \ {h}], h, faces) : h \in done}]

LEMMA AddingExists ==
  ASSUME NEW s, NEW S, IsFiniteSet(S), NEW faces, NEW k \in Nat
  PROVE  \E w : Adding(s, S, faces, k, w)
<1> DEFINE none == {m \in Nat : ~ \E w : Adding(s, S, faces, m, w)}
<1>1. none = {}
  <2> SUFFICES ASSUME none # {} PROVE FALSE
    OBVIOUS
  <2>1. PICK m \in none : \A y \in none : m <= y
    BY LeastNumber
  <2>2. m \in Nat
    BY <2>1
  <2> DEFINE small(j) == {x \in SUBSET S : Cardinality(x) <= j}
             to(v, P) == IF P = {} THEN {Done(s)}
                         ELSE UNION {AfterPieces(v[P \ {h}], h, faces) : h \in P}
  <2>3. CASE m = 0
    <3> DEFINE w == [P \in small(0) |-> {Done(s)}]
    <3>1. \A P \in small(0) : P = {}
      <4> SUFFICES ASSUME NEW P \in small(0) PROVE P = {}
        OBVIOUS
      <4>1. IsFiniteSet(P) /\ Cardinality(P) <= 0
        BY FS_Subset
      <4>2. Cardinality(P) = 0
        BY <4>1, FS_CardinalityType
      <4> QED BY <4>1, <4>2, FS_EmptySet
    <3>2. w = [P \in small(0) |-> to(w, P)]
      BY <3>1
    <3> HIDE DEF w
    <3>3. Adding(s, S, faces, 0, w)
      BY <3>2 DEF Adding
    <3> QED BY <2>1, <2>3, <3>3
  <2>4. CASE m # 0
    <3>1. m - 1 \in Nat /\ ~ (m <= m - 1)
      BY <2>2, <2>4
    <3>2. PICK w : Adding(s, S, faces, m - 1, w)
      <4>1. m - 1 \notin none
        BY <2>1, <3>1
      <4> QED BY <3>1, <4>1
    <3> DEFINE v == [P \in small(m) |-> IF Cardinality(P) = m THEN to(w, P) ELSE w[P]]
    <3>3. w = [P \in small(m - 1) |-> to(w, P)]
      BY <3>2 DEF Adding
    <3>4. \A P \in small(m - 1) : P \in small(m) /\ v[P] = w[P]
      <4> SUFFICES ASSUME NEW P \in small(m - 1) PROVE P \in small(m) /\ v[P] = w[P]
        OBVIOUS
      <4>1. Cardinality(P) \in Nat
        BY FS_Subset, FS_CardinalityType
      <4>2. Cardinality(P) <= m /\ Cardinality(P) # m
        BY <2>2, <4>1
      <4> QED BY <4>2
    <3>5. \A P \in small(m) : v[P] = to(v, P)
      <4> SUFFICES ASSUME NEW P \in small(m) PROVE v[P] = to(v, P)
        OBVIOUS
      <4>1. \A h \in P : v[P \ {h}] = w[P \ {h}]
        <5> SUFFICES ASSUME NEW h \in P PROVE P \ {h} \in small(m - 1)
          BY <3>4
        <5>1. Cardinality(P) <= m
          OBVIOUS
        <5>2. /\ Cardinality(P) \in Nat /\ P \ {h} \in SUBSET S
              /\ Cardinality(P \ {h}) = Cardinality(P) - 1
          BY OneLess
        <5> QED BY <2>2, <5>1, <5>2
      <4>2. to(v, P) = to(w, P)
        <5> HIDE DEF v
        <5> QED BY <4>1
      <4>3. v[P] = IF Cardinality(P) = m THEN to(w, P) ELSE w[P]
        OBVIOUS
      <4>4. Cardinality(P) # m => P \in small(m - 1)
        <5>1. Cardinality(P) <= m /\ Cardinality(P) \in Nat
          BY FS_Subset, FS_CardinalityType
        <5> QED BY <2>2, <5>1
      <4> HIDE DEF v, to
      <4> QED BY <3>3, <4>2, <4>3, <4>4
    <3>6. v = [P \in small(m) |-> v[P]]
      OBVIOUS
    <3> HIDE DEF v
    <3>7. v = [P \in small(m) |-> to(v, P)]
      BY <3>5, <3>6
    <3>8. Adding(s, S, faces, m, v)
      BY <3>7 DEF Adding
    <3> QED BY <2>1, <3>8
  <2> QED BY <2>3, <2>4
<1> QED BY <1>1

LEMMA AddLineIsGood ==
  ASSUME NEW faces \in BOOLEAN, NEW s, Kept(s, faces), NEW g \in Line
  PROVE  GoodOutcomes(AddLine(s, g, faces), faces)
<1> DEFINE S == Pieces(s, g)
           step(w) == [done \in SUBSET S |->
                         IF done = {} THEN {Done(s)}
                         ELSE UNION {AfterPieces(w[done \ {h}], h, faces) : h \in done}]
           after == CHOOSE w : w = step(w)
<1>1. S \subseteq Line /\ IsFiniteSet(S)
  BY PiecesAreLines DEF Lines
<1>2. AddLine(s, g, faces) = after[S]
  BY DEF AddLine, AfterPieces, AfterPiece
<1> HIDE DEF S, after
<1>3. after = step(after)
  <2>1. Cardinality(S) \in Nat /\ \A P \in SUBSET S : Cardinality(P) <= Cardinality(S)
    BY <1>1, FS_CardinalityType, FS_Subset
  <2>2. PICK w : Adding(s, S, faces, Cardinality(S), w)
    BY <1>1, <2>1, AddingExists
  <2>3. {x \in SUBSET S : Cardinality(x) <= Cardinality(S)} = SUBSET S
    BY <2>1
  <2>4. w = step(w)
    BY <2>2, <2>3 DEF Adding
  <2> HIDE DEF step
  <2> QED BY <2>4 DEF after
<1>4. \A P \in SUBSET S :
        after[P] = IF P = {} THEN {Done(s)} ELSE UNION {AfterPieces(after[P \ {h}], h, faces) : h \in P}
  BY <1>3
<1> HIDE DEF step
<1> DEFINE bad == {m \in Nat : \E P \in SUBSET S : Cardinality(P) = m /\ ~ GoodOutcomes(after[P], faces)}
<1>5. bad = {}
  <2> SUFFICES ASSUME bad # {} PROVE FALSE
    OBVIOUS
  <2>1. PICK m \in bad : \A y \in bad : m <= y
    BY LeastNumber
  <2>2. PICK P \in SUBSET S : Cardinality(P) = m /\ ~ GoodOutcomes(after[P], faces)
    BY <2>1
  <2>3. P # {}
    <3>1. GoodOutcomes({Done(s)}, faces)
      BY OutcomesLeave DEF GoodOutcomes
    <3> QED BY <1>4, <2>2, <3>1
  <2>4. ASSUME NEW h \in P PROVE GoodOutcomes(AfterPieces(after[P \ {h}], h, faces), faces)
    <3>1. P \ {h} \in SUBSET S /\ Cardinality(P \ {h}) \in Nat /\ Cardinality(P \ {h}) = m - 1
      BY <1>1, <2>2, OneLess
    <3>2. GoodOutcomes(after[P \ {h}], faces)
      <4>1. m - 1 \notin bad
        BY <2>1, <3>1
      <4> QED BY <3>1, <4>1
    <3>3. h \in Line
      BY <1>1
    <3> QED BY <3>2, <3>3, AfterPiecesIsGood
  <2>5. after[P] = UNION {AfterPieces(after[P \ {h}], h, faces) : h \in P}
    BY <1>4, <2>3
  <2>6. GoodOutcomes(after[P], faces)
    BY <2>4, <2>5 DEF GoodOutcomes
  <2> QED BY <2>2, <2>6
<1>6. GoodOutcomes(after[S], faces)
  <2>1. Cardinality(S) \in Nat
    BY <1>1, FS_CardinalityType
  <2> QED BY <1>5, <2>1
<1> QED BY <1>2, <1>6


-----------------------------------------------------------------------------
(* Ring after ring.                                                        *)

AfterRing(o, ring) == IF o.ok THEN AddLine(o.topo, ring, TRUE) ELSE {o}

AfterRings(outcomes, ring) == UNION {AfterRing(o, ring) : o \in outcomes}

LEMMA AfterRingsIsGood ==
  ASSUME NEW outcomes, GoodOutcomes(outcomes, TRUE), NEW ring \in Line
  PROVE  GoodOutcomes(AfterRings(outcomes, ring), TRUE)
<1> SUFFICES ASSUME NEW x \in AfterRings(outcomes, ring), x.ok PROVE Kept(x.topo, TRUE)
  BY DEF GoodOutcomes
<1>1. PICK o \in outcomes : x \in AfterRing(o, ring)
  BY DEF AfterRings
<1>2. o.ok
  BY <1>1 DEF AfterRing
<1>3. Kept(o.topo, TRUE) /\ x \in AddLine(o.topo, ring, TRUE)
  BY <1>1, <1>2 DEF GoodOutcomes, AfterRing
<1>4. GoodOutcomes(AddLine(o.topo, ring, TRUE), TRUE)
  BY <1>3, AddLineIsGood
<1> QED BY <1>3, <1>4 DEF GoodOutcomes

\* w is the recursive function of AddPolygon for the first k rings.
AddingRings(s, rings, k, w) ==
  w = [i \in 0 .. k |-> IF i = 0 THEN {Done(s)} ELSE AfterRings(w[i - 1], rings[i])]

LEMMA AddingRingsExists ==
  ASSUME NEW s, NEW rings, NEW k \in Nat
  PROVE  \E w : AddingRings(s, rings, k, w)
<1> DEFINE none == {m \in Nat : ~ \E w : AddingRings(s, rings, m, w)}
<1>1. none = {}
  <2> SUFFICES ASSUME none # {} PROVE FALSE
    OBVIOUS
  <2>1. PICK m \in none : \A y \in none : m <= y
    BY LeastNumber
  <2>2. CASE m = 0
    <3> DEFINE w == [i \in 0 .. 0 |-> {Done(s)}]
    <3>1. w = [i \in 0 .. 0 |-> IF i = 0 THEN {Done(s)} ELSE AfterRings(w[i - 1], rings[i])]
      OBVIOUS
    <3> HIDE DEF w
    <3>2. AddingRings(s, rings, 0, w)
      BY <3>1 DEF AddingRings
    <3> QED BY <2>1, <2>2, <3>2
  <2>3. CASE m # 0
    <3>0. m \in Nat
      BY <2>1
    <3>1. m - 1 \in Nat /\ ~ (m <= m - 1)
      BY <2>3, <3>0
    <3>2. PICK w : AddingRings(s, rings, m - 1, w)
      <4>1. m - 1 \notin none
        BY <2>1, <3>1
      <4> QED BY <3>1, <4>1
    <3> DEFINE v == [i \in 0 .. m |-> IF i = m THEN AfterRings(w[m - 1], rings[m]) ELSE w[i]]
    <3>3. \A i \in 0 .. m - 1 : v[i] = w[i]
      BY <3>0
    <3>4. v[m] = AfterRings(v[m - 1], rings[m])
      BY <3>1, <3>3
    <3>5. ASSUME NEW i \in 0 .. m
          PROVE  v[i] = IF i = 0 THEN {Done(s)} ELSE AfterRings(v[i - 1], rings[i])
      <4>1. CASE i = m
        BY <2>3, <3>4, <4>1
      <4>2. CASE i # m
        <5>1. i \in 0 .. m - 1
          BY <4>2
        <5>2. i # 0 => i - 1 \in 0 .. m - 1
          BY <5>1
        <5>3. w[i] = IF i = 0 THEN {Done(s)} ELSE AfterRings(w[i - 1], rings[i])
          BY <3>2, <5>1 DEF AddingRings
        <5> HIDE DEF v
        <5> QED BY <3>3, <5>1, <5>2, <5>3
      <4> QED BY <4>1, <4>2
    <3>6. v = [i \in 0 .. m |-> v[i]]
      OBVIOUS
    <3> HIDE DEF v
    <3>7. v = [i \in 0 .. m |-> IF i = 0 THEN {Done(s)} ELSE AfterRings(v[i - 1], rings[i])]
      BY <3>5, <3>6
    <3>8. AddingRings(s, rings, m, v)
      BY <3>7 DEF AddingRings
    <3> QED BY <2>1, <3>8
  <2> QED BY <2>2, <2>3
<1> QED BY <1>1

LEMMA AddPolygonIsGood ==
  ASSUME NEW s, Good(s), NEW rings \in Seq(Line)
  PROVE  GoodOutcomes(AddPolygon(s, rings), TRUE)
<1> DEFINE n == Len(rings)
           step(w) == [i \in 0 .. n |->
                         IF i = 0 THEN {Done(s)} ELSE AfterRings(w[i - 1], rings[i])]
           added == CHOOSE w : w = step(w)
<1>1. n \in Nat /\ \A i \in 1 .. n : rings[i] \in Line
  BY ElementOfSeq, LenProperties
<1>2. AddPolygon(s, rings) = added[n]
  BY DEF AddPolygon, AfterRings, AfterRing
<1> HIDE DEF n, added
<1>3. added = step(added)
  <2>1. PICK w : AddingRings(s, rings, n, w)
    BY <1>1, AddingRingsExists
  <2>2. w = step(w)
    BY <2>1 DEF AddingRings
  <2> HIDE DEF step
  <2> QED BY <2>2 DEF added
<1>4. \A i \in 0 .. n : added[i] = IF i = 0 THEN {Done(s)} ELSE AfterRings(added[i - 1], rings[i])
  BY <1>3
<1> HIDE DEF step
<1> DEFINE bad == {i \in Nat : i \in 0 .. n /\ ~ GoodOutcomes(added[i], TRUE)}
<1>5. bad = {}
  <2> SUFFICES ASSUME bad # {} PROVE FALSE
    OBVIOUS
  <2>1. PICK m \in bad : \A y \in bad : m <= y
    BY LeastNumber
  <2>2. m # 0
    <3>1. GoodOutcomes({Done(s)}, TRUE)
      BY OutcomesLeave DEF GoodOutcomes, Kept
    <3>2. 0 \in 0 .. n
      BY <1>1
    <3>3. added[0] = {Done(s)}
      BY <1>4, <3>2
    <3> QED BY <2>1, <3>1, <3>3
  <2>3. m \in 1 .. n /\ m - 1 \in Nat /\ m - 1 \in 0 .. n /\ ~ (m <= m - 1)
    BY <1>1, <2>1, <2>2
  <2>4. GoodOutcomes(added[m - 1], TRUE)
    <3>1. m - 1 \notin bad
      BY <2>1, <2>3
    <3> QED BY <2>3, <3>1
  <2>5. GoodOutcomes(AfterRings(added[m - 1], rings[m]), TRUE)
    BY <1>1, <2>3, <2>4, AfterRingsIsGood
  <2>6. added[m] = AfterRings(added[m - 1], rings[m])
    BY <1>4, <2>1, <2>2
  <2> QED BY <2>1, <2>5, <2>6
<1>6. n \in 0 .. n
  BY <1>1
<1>7. n \notin bad
  BY <1>5
<1> QED BY <1>1, <1>2, <1>6, <1>7

-----------------------------------------------------------------------------
(* Faces for a topology that was loaded without them.                      *)

\* Every edge side is in a ring, so that it is given the face of a ring.
LEMMA SidesGetFaces ==
  ASSUME NEW s, Loaded(s), NEW l, DOMAIN l = Rings(s), \A r \in Rings(s) : l[r] \in Faces
  PROVE  LET v == WithSideFaces(s, l)
         IN  /\ DOMAIN v = Tables
             /\ v.node = s.node /\ v.point = s.point /\ v.line = s.line
             /\ v.areal = s.areal /\ v.lineal = s.lineal
             /\ SameLinks(s, v)
             /\ \A e \in DOMAIN s.edge : /\ v.edge[e] \in LooseRow
                                         /\ v.edge[e].face_left \in Faces
                                         /\ v.edge[e].face_right \in Faces
<1> DEFINE left(d) == l[CHOOSE r \in DOMAIN l : d \in r]
           row(e) == [s.edge[e] EXCEPT !.face_left = left(e), !.face_right = left(-e)]
           v == WithSideFaces(s, l)
<1>1. ASSUME NEW d \in DartsOf(s) PROVE left(d) \in Faces
  <2>1. IsFiniteSet(DOMAIN s.edge)
    BY DEF Loaded, Good, Alike, SameLinks
  <2>2. PICK w : LET steps == 2 * Cardinality(DOMAIN s.edge)
                 IN  steps \in Nat /\ w[0] = d /\ Ring(s, d) = {w[i] : i \in 0 .. steps}
    BY <2>1, RingIsWalked
  <2>3. d \in Ring(s, d)
    <3>1. 0 \in 0 .. 2 * Cardinality(DOMAIN s.edge)
      BY <2>2
    <3> QED BY <2>2, <3>1
  <2>4. Ring(s, d) \in DOMAIN l
    BY DEF Rings
  <2>5. (CHOOSE r \in DOMAIN l : d \in r) \in DOMAIN l
    BY <2>3, <2>4
  <2> QED BY <2>5
<1> HIDE DEF left
<1>2. ASSUME NEW e \in DOMAIN s.edge
      PROVE  /\ row(e) \in LooseRow
             /\ row(e).face_left \in Faces /\ row(e).face_right \in Faces
             /\ row(e).start_node = s.edge[e].start_node
             /\ row(e).end_node = s.edge[e].end_node
             /\ row(e).next_left = s.edge[e].next_left
             /\ row(e).next_right = s.edge[e].next_right
  <2>0. e \in DartsOf(s) /\ -e \in DartsOf(s)
    BY DEF DartsOf
  <2>1. left(e) \in Faces /\ left(-e) \in Faces
    BY <1>1, <2>0
  <2>2. s.edge[e] \in LooseRow
    BY DEF Loaded
  <2> QED BY <2>1, <2>2 DEF LooseRow
<1>3. /\ DOMAIN v = Tables /\ v.edge = [e \in DOMAIN s.edge |-> row(e)]
      /\ v.node = s.node /\ v.point = s.point /\ v.line = s.line
      /\ v.areal = s.areal /\ v.lineal = s.lineal
  BY DEF WithSideFaces, Loaded, Tables, left
<1> HIDE DEF v, row
<1>4. DOMAIN v.edge = DOMAIN s.edge /\ \A e \in DOMAIN s.edge : v.edge[e] = row(e)
  BY <1>3
<1>5. SameLinks(s, v)
  BY <1>2, <1>3, <1>4 DEF SameLinks
<1> QED BY <1>2, <1>3, <1>4, <1>5 DEF v

\* The identifiers of the backend suffice for the shells.
ShellsHaveIds(s) == \A r \in ShellRings(s) : ShellFaceId(ShellRings(s), r) # {}

LEMMA ShellFacesAreFaces ==
  ASSUME NEW s, ShellsHaveIds(s)
  PROVE  /\ DOMAIN ShellFaces(s) = ShellRings(s)
         /\ \A r \in ShellRings(s) : ShellFaces(s)[r] \in FaceIds
<1>1. ShellFaces(s) = [r \in ShellRings(s) |-> CHOOSE f \in ShellFaceId(ShellRings(s), r) : TRUE]
  BY DEF ShellFaces
<1>2. \A r \in ShellRings(s) :
        (CHOOSE f \in ShellFaceId(ShellRings(s), r) : TRUE) \in ShellFaceId(ShellRings(s), r)
  BY DEF ShellsHaveIds
<1>3. \A r : ShellFaceId(ShellRings(s), r) \subseteq FaceIds
  BY DEF ShellFaceId, NthFaceId
<1> QED BY <1>1, <1>2, <1>3

\* The shells have the faces of faceOf, the other rings those of f.
RingFaces(s, faceOf, f) ==
  [r \in Rings(s) |-> IF r \in DOMAIN faceOf THEN faceOf[r] ELSE f[r]]

\* The faces of the sides and the boxes of a result.
Builds(s, t) ==
  \E f \in [Rings(s) \ ShellRings(s) -> {Universe} \cup Range(ShellFaces(s))] : \E boxes :
    t = [WithSideFaces(s, RingFaces(s, ShellFaces(s), f)) EXCEPT
           !.mbr = [x \in Range(ShellFaces(s)) |-> boxes[x]]]

LEMMA PolygonizeBuilds ==
  ASSUME NEW s, DOMAIN ShellFaces(s) = ShellRings(s), NEW t \in Polygonize(s)
  PROVE  Builds(s, t)
<1> DEFINE faceOf  == ShellFaces(s)
           shells  == DOMAIN faceOf
           holes   == Rings(s) \ shells
           near(r) == {x \in shells : InBox(s.line[EdgeOf(FirstDart(r))][1], RingBox(s, x))}
           faceIn(h) == IF h = {} THEN Universe ELSE faceOf[CHOOSE x \in h : TRUE]
           around  == UNION {{<<r, faceIn(ContainingShells(s, r, order))>> :
                                order \in SetToSeqs(near(r))} : r \in holes}
           given   == {f \in [holes -> {Universe} \cup Range(faceOf)] :
                         \A r \in holes : <<r, f[r]>> \in around}
           mbrOf(f) == RingBox(s, CHOOSE r \in shells : faceOf[r] = f)
           boxes   == [x \in Range(faceOf) |-> mbrOf(x)]
<1>1. Polygonize(s) = {[WithSideFaces(s, RingFaces(s, faceOf, f)) EXCEPT !.mbr = boxes] : f \in given}
  BY DEF Polygonize, RingFaces
<1> HIDE DEF given, boxes
<1>2. PICK f \in given : t = [WithSideFaces(s, RingFaces(s, faceOf, f)) EXCEPT !.mbr = boxes]
  BY <1>1
<1>3. f \in [holes -> {Universe} \cup Range(faceOf)]
  BY DEF given
<1>4. boxes = [x \in Range(faceOf) |-> boxes[x]]
  BY DEF boxes
<1> QED BY <1>2, <1>3, <1>4 DEF Builds

\* A topology of lines becomes one with faces on all sides.
LEMMA PolygonizeIsGood ==
  ASSUME NEW s, Loaded(s), Strays(s) = {}, ShellsHaveIds(s), NEW t \in Polygonize(s)
  PROVE  Good(t)
<1> DEFINE faceOf == ShellFaces(s)
           shells == ShellRings(s)
           holes  == Rings(s) \ shells
<1>1. DOMAIN faceOf = shells /\ \A r \in shells : faceOf[r] \in FaceIds
  BY ShellFacesAreFaces
<1>2. PICK f \in [holes -> {Universe} \cup Range(faceOf)] : \E boxes :
        t = [WithSideFaces(s, RingFaces(s, faceOf, f)) EXCEPT !.mbr = [x \in Range(faceOf) |-> boxes[x]]]
  BY <1>1, PolygonizeBuilds DEF Builds
<1>a. PICK boxes :
        t = [WithSideFaces(s, RingFaces(s, faceOf, f)) EXCEPT !.mbr = [x \in Range(faceOf) |-> boxes[x]]]
  BY <1>2
<1>3. Range(faceOf) \subseteq FaceIds /\ FaceIds \subseteq Faces /\ Universe \in Faces
  BY <1>1 DEF Range, Faces
<1>4. shells \subseteq Rings(s)
  BY DEF ShellRings
<1> DEFINE l == RingFaces(s, faceOf, f)
<1>5. DOMAIN l = Rings(s) /\ \A r \in Rings(s) : l[r] = IF r \in shells THEN faceOf[r] ELSE f[r]
  BY <1>1, <1>4 DEF RingFaces
<1>6. \A r \in Rings(s) : l[r] \in Faces
  BY <1>1, <1>2, <1>3, <1>5
<1> HIDE DEF l
<1> DEFINE v == WithSideFaces(s, l)
<1>7. /\ DOMAIN v = Tables
      /\ v.node = s.node /\ v.point = s.point /\ v.line = s.line
      /\ v.areal = s.areal /\ v.lineal = s.lineal
      /\ SameLinks(s, v)
      /\ \A e \in DOMAIN s.edge : /\ v.edge[e] \in LooseRow
                                  /\ v.edge[e].face_left \in Faces
                                  /\ v.edge[e].face_right \in Faces
  BY <1>5, <1>6, SidesGetFaces
<1>8. t = [v EXCEPT !.mbr = [x \in Range(faceOf) |-> boxes[x]]]
  BY <1>a DEF l
<1> HIDE DEF v
<1>9. /\ DOMAIN t = Tables /\ t.edge = v.edge /\ DOMAIN t.mbr \subseteq FaceIds
      /\ t.node = s.node /\ t.point = s.point /\ t.line = s.line
      /\ t.areal = s.areal /\ t.lineal = s.lineal
  BY <1>3, <1>7, <1>8 DEF Tables
<1>10. SameLinks(s, t)
  BY <1>7, <1>9 DEF SameLinks
<1>11. PICK g : Good(g) /\ Alike(g, s)
  BY DEF Loaded
<1>12. Alike(g, t)
  BY <1>9, <1>10, <1>11 DEF Alike, SameLinks
<1>13. /\ DOMAIN t.edge = DOMAIN s.edge
       /\ \A x \in DOMAIN s.edge : /\ t.edge[x].start_node = s.edge[x].start_node
                                   /\ t.edge[x].end_node = s.edge[x].end_node
  BY <1>10 DEF SameLinks
<1>14. Loaded(t)
  BY <1>7, <1>9, <1>11, <1>12, <1>13 DEF Loaded
<1>15. Strays(t) = {}
  BY <1>9, <1>13 DEF Strays, Incident
<1>16. \A x \in DOMAIN t.edge : t.edge[x].face_left \in Faces /\ t.edge[x].face_right \in Faces
  BY <1>7, <1>9, <1>13
<1> QED BY <1>9, <1>14, <1>15, <1>16, LoadedWithFacesIsGood

-----------------------------------------------------------------------------
(* The specification.                                                      *)

LEMMA CommitGood ==
  ASSUME NEW t, Good(t), Commit(t)
  PROVE  Good(db)'
<1>1. Sound(db)' /\ Flat(db)' /\ Turning(db)'
  BY CommitSound, CommitFlat, CommitTurns DEF Good
<1> DEFINE u == db'
<1>2. u.edge = t.edge
  BY DEF Commit, db
<1>3. Sound(u) /\ Flat(u) /\ Turning(u)
  BY <1>1
<1> HIDE DEF u
<1>4. Good(u)
  BY <1>2, <1>3 DEF Good
<1> QED BY <1>4 DEF u

LEMMA CommitLoaded ==
  ASSUME NEW t, Loaded(t), Strays(t) = {}, Commit(t)
  PROVE  (Loaded(db) /\ Strays(db) = {})'
<1> DEFINE u == db'
<1>1. /\ DOMAIN u = Tables
      /\ u.node = t.node /\ u.point = t.point /\ u.edge = t.edge /\ u.line = t.line
      /\ u.areal = t.areal /\ u.lineal = t.lineal
  BY DEF Commit, db, Tables
<1> HIDE DEF u
<1>2. \A s : Alike(s, t) => Alike(s, u)
  BY <1>1 DEF Alike, SameLinks
<1>3. Loaded(u)
  BY <1>1, <1>2 DEF Loaded
<1>4. Strays(u) = {}
  BY <1>1 DEF Strays, Incident
<1>5. Loaded(u) /\ Strays(u) = {}
  BY <1>3, <1>4
<1> QED BY <1>5 DEF u

\* While lines are loaded without faces the topology looks like a good one,
\* otherwise it is one.
PopulateInv == IF loading THEN Loaded(db) /\ Strays(db) = {} ELSE Good(db)

LEMMA InvIsLoaded ==
  ASSUME PopulateInv
  PROVE  Loaded(db) /\ Strays(db) = {}
BY GoodIsLoaded DEF PopulateInv

\* The calls that add to a topology with faces, and leave one.
LEMMA AddingStepGood ==
  ASSUME PopulateInv, rtt_AddPoint \/ rtt_AddLine \/ rtt_AddPolygon
  PROVE  PopulateInv'
<1>1. \E t : Good(t) /\ Commit(t) /\ loading' = FALSE
  <2>1. CASE rtt_AddPoint
    <3>1. PICK p \in Sites : Leaves(AddPoint(db, p, TRUE), FALSE)
      BY <2>1 DEF rtt_AddPoint
    <3>2. PICK t \in AddPoint(db, p, TRUE) : Commit(t) /\ loading' = FALSE
      BY <3>1 DEF Leaves
    <3>3. p \in Point /\ Good(db)
      BY <2>1, InputsAreGeometries DEF rtt_AddPoint, PopulateInv
    <3>4. Good(t)
      BY <3>3, AddPointIsGood
    <3> QED BY <3>2, <3>4
  <2>2. CASE rtt_AddLine
    <3>1. PICK g \in Curves : Leaves(Successes(AddLine(db, g, TRUE)), FALSE)
      BY <2>2 DEF rtt_AddLine
    <3>2. PICK o \in AddLine(db, g, TRUE) : o.ok /\ Commit(o.topo) /\ loading' = FALSE
      BY <3>1 DEF Leaves, Successes
    <3>3. g \in Line /\ Kept(db, TRUE)
      BY <2>2, InputsAreGeometries DEF rtt_AddLine, PopulateInv, Kept
    <3>4. Good(o.topo)
      BY <3>2, <3>3, AddLineIsGood DEF GoodOutcomes, Kept
    <3> QED BY <3>2, <3>4
  <2>3. CASE rtt_AddPolygon
    <3>1. PICK q \in Polygons : Leaves(Successes(AddPolygon(db, q)), FALSE)
      BY <2>3 DEF rtt_AddPolygon
    <3>2. PICK o \in AddPolygon(db, q) : o.ok /\ Commit(o.topo) /\ loading' = FALSE
      BY <3>1 DEF Leaves, Successes
    <3>3. q \in Seq(Line) /\ Good(db)
      BY <2>3, WorldIsExact DEF rtt_AddPolygon, PopulateInv
    <3>4. Good(o.topo)
      BY <3>2, <3>3, AddPolygonIsGood DEF GoodOutcomes, Kept
    <3> QED BY <3>2, <3>4
  <2> QED BY <2>1, <2>2, <2>3
<1>2. Good(db)' /\ loading' = FALSE
  BY <1>1, CommitGood
<1> QED BY <1>2 DEF PopulateInv

LEMMA LoadingStep ==
  ASSUME PopulateInv, rtt_AddLineNoFace
  PROVE  PopulateInv'
<1>1. PICK g \in Curves : Leaves(Successes(AddLine(db, g, FALSE)), TRUE)
  BY DEF rtt_AddLineNoFace
<1>2. PICK o \in AddLine(db, g, FALSE) : o.ok /\ Commit(o.topo) /\ loading' = TRUE
  BY <1>1 DEF Leaves, Successes
<1>3. g \in Line /\ Kept(db, FALSE)
  BY InputsAreGeometries, InvIsLoaded DEF Kept
<1>4. Loaded(o.topo) /\ Strays(o.topo) = {}
  BY <1>2, <1>3, AddLineIsGood DEF GoodOutcomes, Kept
<1>5. (Loaded(db) /\ Strays(db) = {})'
  BY <1>2, <1>4, CommitLoaded
<1> QED BY <1>2, <1>5 DEF PopulateInv

LEMMA PolygonizeStepGood ==
  ASSUME PopulateInv, rtt_Polygonize
  PROVE  PopulateInv'
<1>1. PICK t \in Polygonize(db) : Commit(t)
  BY DEF rtt_Polygonize
<1>2. ShellsHaveIds(db) /\ loading' = FALSE
  BY DEF rtt_Polygonize, ShellsHaveIds
<1>3. Good(t)
  BY <1>2, InvIsLoaded, PolygonizeIsGood
<1>4. Good(db)'
  BY <1>1, <1>3, CommitGood
<1> QED BY <1>2, <1>4 DEF PopulateInv

\* An editing call, when faces are there.
LEMMA EditingStepGood ==
  ASSUME SplitsAreSafe, PopulateInv, ~ loading, NextCall, UNCHANGED loading
  PROVE  PopulateInv'
<1>1. Good(db)
  BY DEF PopulateInv
<1>2. Good(db)'
  BY <1>1, StepSound, StepFlat, StepTurns, StepFinite DEF Good
<1> QED BY <1>2 DEF PopulateInv

LEMMA PopulateStep ==
  ASSUME SplitsAreSafe
  PROVE  PopulateInv /\ [PopulateNext]_<<vars, loading>> => PopulateInv'
<1> SUFFICES ASSUME PopulateInv, [PopulateNext]_<<vars, loading>> PROVE PopulateInv'
  OBVIOUS
<1>1. CASE PopulateNext
  BY <1>1, AddingStepGood, LoadingStep, PolygonizeStepGood, EditingStepGood DEF PopulateNext
<1>2. CASE UNCHANGED <<vars, loading>>
  BY <1>2 DEF PopulateInv, vars, db
<1> QED BY <1>1, <1>2

LEMMA AlwaysPopulateInv ==
  ASSUME SplitsAreSafe
  PROVE  PopulateSpec => []PopulateInv
<1>1. PopulateInit => PopulateInv
  BY InitSound, InitFlat, InitTurns, InitFinite DEF PopulateInit, PopulateInv, Good
<1> QED BY <1>1, PopulateStep, PTL DEF PopulateSpec

\* Whatever the populating functions put together out of editing operations, for
\* every set of points, lines and polygons, every order of the pieces and every
\* mixture with editing calls, with and without faces: edges cross neither each
\* other nor nodes, and the links go on with the edge end that is next in
\* clockwise order.  Cutting, splitting and joining by _rtt_AddLine keeps it.
THEOREM PopulatingKeepsTheDrawing ==
  ASSUME "SplitsReferredEdge" \in Avoids \/ "NewEdgesSplit" \notin Ops
  PROVE  PopulateSpec => [](Planar /\ LinksFollowRotation)
<1>1. SplitsAreSafe
  BY DEF SplitsAreSafe
<1>2. PopulateInv => Planar /\ LinksFollowRotation
  BY InvIsLoaded, LoadedIsDrawn DEF Planar, LinksFollowRotation
<1> QED BY <1>1, <1>2, AlwaysPopulateInv, PTL

\* The containing face that AddPoint writes and that _rtt_AddEdge overwrites says
\* at all times, also while faces are missing, whether a node has edges, and
\* getRingEdges comes back to where it starts.
THEOREM PopulatingTracksEdges ==
  ASSUME "SplitsReferredEdge" \in Avoids \/ "NewEdgesSplit" \notin Ops
  PROVE  PopulateSpec => [](IsolationTracksEdges /\ RingsAreCycles(db))
<1>1. SplitsAreSafe
  BY DEF SplitsAreSafe
<1>2. PopulateInv => IsolationTracksEdges /\ RingsAreCycles(db)
  BY InvIsLoaded, LoadedTracksEdges, LoadedRingsAreCycles DEF IsolationTracksEdges
<1> QED BY <1>1, <1>2, AlwaysPopulateInv, PTL

\* Tables are typed unless lines were loaded without faces: rtt_Polygonize gives
\* a face to every side of an edge that AddLineNoFace left without.
THEOREM PopulatedTablesAreTyped ==
  ASSUME "SplitsReferredEdge" \in Avoids \/ "NewEdgesSplit" \notin Ops
  PROVE  PopulateSpec => [](~ loading => TypeOK)
<1>1. SplitsAreSafe
  BY DEF SplitsAreSafe
<1>2. PopulateInv => (~ loading => TypeOK)
  BY DEF PopulateInv, Good, Sound, Typed, TypeOK
<1> QED BY <1>1, <1>2, AlwaysPopulateInv, PTL
=============================================================================
