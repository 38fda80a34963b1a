----------------------------- MODULE SimplifyLoop ----------------------------
(***************************************************************************)
(* The loop of ptarray_simplify (Douglas and Peucker): a stack holds the   *)
(* points that are kept for sure after the last one visited, the nearest   *)
(* of them on top.  Of the coordinates the loop uses which point between   *)
(* two others is farthest from their segment, whether it is farther than   *)
(* the tolerance, and which points are equal: one that equals the last one *)
(* written is not written again.                                           *)
(***************************************************************************)
EXTENDS Integers, Sequences

CONSTANT MaxPoints   \* bound on the points of the array

ASSUME MaxPointsAssumption == MaxPoints \in Nat /\ MaxPoints >= 2

VARIABLES
  npoints,   \* of the array
  minpts,    \* the argument: points to keep at least
  same,      \* the first point that each point equals
  near,      \* pairs <<p, q>> whose points between are within the tolerance
  out,       \* points written: their indexes
  p1,        \* the last one visited
  stack
simplifyVars == <<npoints, minpts, same, near, out, p1, stack>>

Gaps(n) == {pq \in (1..n) \X (1..n) : pq[1] + 1 < pq[2]}

\* Which of n points may be equal, and the pairs that are then near with any
\* tolerance: all between equal one of the two.
Equalities(n) == {f \in [1..n -> 1..n] : \A k \in 1..n : f[k] <= k /\ f[f[k]] = f[k]}
NearAnyway(n, eq) ==
  {pq \in Gaps(n) : \A k \in (pq[1] + 1)..(pq[2] - 1) : eq[k] \in {eq[pq[1]], eq[pq[2]]}}

SimplifyInit ==
  /\ npoints \in 2..MaxPoints /\ minpts \in 0..(MaxPoints + 1)
  /\ same \in Equalities(npoints)
  /\ near \in {pairs \in SUBSET Gaps(npoints) : NearAnyway(npoints, same) \subseteq pairs}
  /\ out = <<1>> /\ p1 = 1 /\ stack = <<npoints>>

Top == stack[Len(stack)]

\* dist > eps_sqr, or too few points while there is one between
MustSplit_mutant == p1 + 1 < Top /\ <<p1, Top>> \notin near
MustSplit ==
  /\ p1 + 1 < Top
  /\ <<p1, Top>> \notin near \/ Len(out) + Len(stack) < minpts

\* ptarray_dp_findsplit, the first of the farthest points between: no point
\* before it nor an end is equal to it, unless all are at no distance.
Farthest(k) ==
  /\ p1 < k /\ k < Top
  /\ \/ \A j \in (p1..(k - 1)) \cup {Top} : same[j] # same[k]
     \/ k = p1 + 1 /\ <<p1, Top>> \in near

Split(k) ==
  /\ stack # <<>> /\ MustSplit
  /\ Farthest(k)
  /\ stack' = Append(stack, k)
  /\ UNCHANGED <<npoints, minpts, same, near, out, p1>>

\* The top of the stack is written, by ptarray_append_point without repeats.
LastWritten == out[Len(out)]
WriteTop_mutant ==
  /\ stack # <<>> /\ ~ MustSplit
  /\ out' = IF same[Top] = same[LastWritten] THEN out ELSE Append(out, Top)
  /\ p1' = stack[1]
  /\ stack' = SubSeq(stack, 1, Len(stack) - 1)
  /\ UNCHANGED <<npoints, minpts, same, near>>
WriteTop ==
  /\ stack # <<>> /\ ~ MustSplit
  /\ out' = IF same[Top] = same[LastWritten] THEN out ELSE Append(out, Top)
  /\ p1' = Top
  /\ stack' = SubSeq(stack, 1, Len(stack) - 1)
  /\ UNCHANGED <<npoints, minpts, same, near>>

SimplifyNext == WriteTop \/ \E k \in 1..npoints : Split(k)

SimplifySpec == SimplifyInit /\ [][SimplifyNext]_simplifyVars

-----------------------------------------------------------------------------
(* Properties *)

\* What is on the stack is after what was visited, the last point lowest;
\* the stack never holds more than the points it was allocated for.
StackOK ==
  /\ Len(stack) < npoints
  /\ \A i \in 1..Len(stack) :
       /\ stack[i] \in (p1 + 1)..(npoints + 1 - i)
       /\ \A j \in 1..Len(stack) : i < j => stack[j] < stack[i]
  /\ IF stack = <<>> THEN p1 = npoints ELSE stack[1] = npoints

\* Simplifying thins the array: the first point stays and one equal to the
\* last, the order too, no two neighbours are equal, every point left out is
\* within the tolerance of the segment that replaces it, and as many points
\* are kept as Thinning says, which the dropping of equal ones makes one less
\* than asked for when the last point repeats the one kept before it.
Result == INSTANCE Thinning WITH kept <- out, passed <- p1, ended <- (stack = <<>>),
            npoints <- npoints, minpts <- minpts, same <- same, near <- near
ImplementsThinning == Result!Spec

\* As many points are kept as asked for, unless each that differs from the one
\* before it was kept already.  librttopo_geom_internal.h:240 says of minpts:
\* "minimun number of points to retain, if possible."
MinimumIsKept ==
  stack = <<>> =>
    \/ Len(out) >= minpts
    \/ \A q \in 2..npoints : same[q] = same[q - 1] \/ \E i \in 1..Len(out) : out[i] = q
=============================================================================
