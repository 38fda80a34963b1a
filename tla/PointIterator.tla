----------------------------- MODULE PointIterator ---------------------------
(***************************************************************************)
(* The point iterator (rtiterator.c): a stack of geometries that are still *)
(* to be visited and a stack of point arrays taken from the last of them.  *)
(* A step reads, skips or replaces one point.                              *)
(***************************************************************************)
EXTENDS Geometry

CONSTANTS Visited,      \* geometries to iterate over; no polygon has an empty ring
          Replacements  \* points written by rtpointiterator_modify_next

VARIABLES
  geom,         \* the geometry iterated over
  geoms,        \* geometries still to visit, the next one first
  pointarrays,  \* arrays of the last one, the current one first
  i,            \* the next point of the current array, from 0
  passed        \* points passed so far, as the iterator left them
iteratorVars == <<geom, geoms, pointarrays, i, passed>>

\* add_rtgeom_to_stack, parts from the last to the first: the first one comes
\* on top, empty ones are left out.
Stacked(parts, stack) == SelectSeq(parts, LAMBDA g : ~ IsEmpty(g)) \o stack

\* unroll_collections
RECURSIVE Unrolled(_)
Unrolled(stack) ==
  IF stack = <<>> \/ ~ IsCollection(Head(stack)) THEN stack
  ELSE Unrolled(Stacked(Head(stack).geoms, Tail(stack)))

\* rtpointiterator_advance when no array is left: the arrays of the next
\* geometry, if there is one.
NextGeometry(stack) ==
  IF stack = <<>> THEN pointarrays' = <<>> /\ geoms' = <<>>
  ELSE pointarrays' = Head(stack).arrays /\ geoms' = Tail(stack)

\* rtpointiterator_create_rw
IteratorInit ==
  /\ geom \in Visited /\ i = 0 /\ passed = <<>>
  /\ LET stack == Unrolled(Stacked(<<geom>>, <<>>))
     IN  IF stack = <<>> THEN pointarrays = <<>> /\ geoms = <<>>
         ELSE pointarrays = Head(stack).arrays /\ geoms = Tail(stack)

\* rtpointiterator_has_next
HasNext == pointarrays # <<>> /\ i < Len(pointarrays[1])

\* rtpointiterator_advance: in the array, to the next array or to the next
\* geometry
Advance_mutant(arrays) ==
  IF i + 1 < Len(arrays[1]) THEN i' = i + 1 /\ pointarrays' = arrays /\ UNCHANGED geoms
  ELSE IF Len(arrays) > 1 THEN pointarrays' = Tail(arrays) /\ UNCHANGED <<i, geoms>>
  ELSE i' = 0 /\ NextGeometry(Unrolled(geoms))
Advance(arrays) ==
  IF i + 1 < Len(arrays[1]) THEN i' = i + 1 /\ pointarrays' = arrays /\ UNCHANGED geoms
  ELSE IF Len(arrays) > 1 THEN i' = 0 /\ pointarrays' = Tail(arrays) /\ UNCHANGED geoms
  ELSE i' = 0 /\ NextGeometry(Unrolled(geoms))

rtpointiterator_next ==
  /\ HasNext
  /\ passed' = Append(passed, pointarrays[1][i + 1])
  /\ Advance(pointarrays)
  /\ UNCHANGED geom

\* The point is replaced by one with the ordinates the geometry has.
rtpointiterator_modify_next(p) ==
  /\ HasNext
  /\ passed' = Append(passed, SubSeq(p, 1, Len(pointarrays[1][i + 1])))
  /\ Advance([pointarrays EXCEPT ![1][i + 1] = SubSeq(p, 1, Len(@))])
  /\ UNCHANGED geom

IteratorNext ==
  rtpointiterator_next \/ \E p \in Replacements : rtpointiterator_modify_next(p)

-----------------------------------------------------------------------------
(* Properties *)

RECURSIVE Points(_)
Points(g) ==
  IF IsCollection(g) THEN FlattenSeq([k \in DOMAIN g.geoms |-> Points(g.geoms[k])])
  ELSE FlattenSeq(g.arrays)

IteratorOK ==
  /\ geom \in Visited /\ i \in Nat
  /\ \A k \in DOMAIN geoms : ~ IsEmpty(geoms[k])
  /\ \A k \in DOMAIN pointarrays : pointarrays[k] # <<>>

\* The iterator passes every point of every part, ring and array once and in
\* order: when there is no next point none was missed, and a point that was
\* replaced stands where the old one did.
PassesEveryPoint ==
  /\ Len(passed) <= Len(Points(geom))
  /\ ~ HasNext => Len(passed) = Len(Points(geom))
  /\ \A k \in DOMAIN passed :
       \/ passed[k] = Points(geom)[k]
       \/ \E p \in Replacements : passed[k] = SubSeq(p, 1, Len(Points(geom)[k]))
=============================================================================
