----------------------------- MODULE MCTopoEdit -----------------------------
(***************************************************************************)
(* Small worlds of points and lines for TLC.  Around the square A B C D:   *)
(*                                                                         *)
(*      D-----------C      low  = A B C      diag = A C                    *)
(*      |         / |      up   = C D A      loop = a triangle from P      *)
(*      |      /    |      spur = A P        big  = a square around all,   *)
(*      |   /   P>  |                               through A              *)
(*      | /         |      over = A .. P, crosses diag                     *)
(*      A-----------B      wide, bend = other ways from A to C             *)
(***************************************************************************)
EXTENDS TopoEdit

A == <<0, 0>>   B == <<16, 0>>   C == <<16, 16>>   D == <<0, 16>>
P == <<8, 4>>   Q == <<10, 4>>   M == <<8, 8>>

low  == <<A, B, C>>
up   == <<C, D, A>>
diag == <<A, C>>
loop == <<P, <<12, 2>>, <<12, 6>>, P>>
spur == <<A, P>>
big  == <<A, <<20, -4>>, <<20, 20>>, <<-4, 20>>, A>>
over == <<A, <<4, 10>>, P>>
wide == <<A, <<20, -4>>, C>>
bend == <<A, <<4, 12>>, C>>
bow  == <<P, <<14, 6>>, Q>>

shapes == <<low, up, diag, loop, spur, big, over, wide, bend, bow>>

SquareSites  == {A, C, P, Q}
EdgeCurves   == {low, up, diag, Reverse(diag), loop, spur, over, big}

SplitSites  == {A, B, C}
SplitCurves == {low, up, diag}

ShapeSites  == {A, C, P, Q}
ShapeCurves == {low, wide, diag, bend, spur}

\* One identifier per node place, three per shape of an edge: an edge keeps a
\* shape in either direction, and takes that of its first segment when it is a
\* part of one.
IdAt(p) == CASE p = A -> {1} [] p = B -> {2} [] p = C -> {3} [] p = D -> {4}
             [] p = P -> {5} [] p = Q -> {6} [] OTHER -> {7}
IdFor(g) ==
  LET on(h) == Passes(h, g[1]) /\ Passes(h, g[2]) /\ Passes(h, InteriorPoint(<<g[1], g[2]>>))
      k == CHOOSE i \in DOMAIN shapes : on(shapes[i])
  IN  {3 * k - 2, 3 * k - 1, 3 * k}

=============================================================================
