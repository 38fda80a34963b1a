--------------------------- MODULE MCTopoPartition --------------------------
(***************************************************************************)
(* The square of MCTopoEdit with a sample point in each of its regions and *)
(* one outside.                                                            *)
(***************************************************************************)
EXTENDS MCTopoEdit, TopoPartition

GroundSites  == {A, C}
GroundCurves == {low, up, diag, bend}
SquareAtoms  == {<<10, 2>>, <<4, 8>>, <<2, 14>>, <<30, 30>>}
=============================================================================
