---------------------------- MODULE MCTopoQuery -----------------------------
(***************************************************************************)
(* The questions, asked in every state of a world of MCTopoEdit: at nodes, *)
(* on edges, in each part of the plane and close to the square.            *)
(***************************************************************************)
EXTENDS MCTopoEdit, TopoQuery

WorldQueryPoints ==
  {A, M, Q, <<14, 4>>, <<4, 12>>, <<17, 8>>, <<4, 2>>}
=============================================================================
