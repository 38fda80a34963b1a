------------------------------- MODULE Thinning ------------------------------
(***************************************************************************)
(* What thinning a point array promises: some of its points are passed, in *)
(* their order, the first and the last one among them; between two passed  *)
(* next to each other none is left out that is too far from the segment    *)
(* they span.  A passed point is kept unless it equals the last one kept,  *)
(* so the kept ones go through every place that was passed.  A closed      *)
(* array may come down to a single point.                                  *)
(***************************************************************************)
EXTENDS Integers, Sequences

VARIABLES
  npoints,   \* how many points the array has
  minpts,    \* how many are asked to be kept at least
  same,      \* the first point that each point equals
  near,      \* pairs <<p, q>>: the points between p and q are near p--q
  kept,      \* indexes of the kept points
  passed,    \* index of the last point passed
  ended      \* no more are passed
vars == <<npoints, minpts, same, near, kept, passed, ended>>

Gaps(n) == {pq \in (1..n) \X (1..n) : pq[1] + 1 < pq[2]}

Init ==
  /\ npoints \in Nat /\ npoints >= 2 /\ minpts \in Nat /\ near \subseteq Gaps(npoints)
  /\ same \in [1..npoints -> 1..npoints]
  /\ kept = <<1>> /\ passed = 1 /\ ended = FALSE

LastOf(points) == points[Len(points)]

\* The points asked for are there, counting the last of the array even when it
\* was dropped for being equal to the last one kept; or all are that differ
\* from the point before them.
Enough(points) ==
  \/ Len(points) + (IF LastOf(points) = npoints THEN 0 ELSE 1) >= minpts
  \/ \A q \in 2..npoints :
       same[q] = same[q - 1] \/ \E i \in 1..Len(points) : points[i] = q

Pass(q) ==
  /\ passed < q /\ q <= npoints
  /\ <<passed, q>> \in near \/ q = passed + 1
  /\ passed' = q
  /\ kept' = IF same[q] = same[LastOf(kept)] THEN kept ELSE Append(kept, q)
  /\ ended' = (q = npoints)
  /\ ended' => Enough(kept')
  /\ UNCHANGED <<npoints, minpts, same, near>>

Next == ~ ended /\ \E q \in 1..npoints : Pass(q)

Spec == Init /\ [][Next]_vars
=============================================================================
