------------------------------ MODULE MCBuffers ------------------------------
(***************************************************************************)
(* Instances of Buffers: axes with one, two and no flow bins, one that     *)
(* grows at its end and one that grows at either end.                      *)
(***************************************************************************)
EXTENDS Buffers

MCShapes ==
  {<<MakeAxis("regular", Flow, 1), MakeAxis("category", {"growth"}, 1)>>,
   <<MakeAxis("category", {}, 1), MakeAxis("integer", {}, 2)>>,
   <<MakeAxis("regular", Flow \cup {"growth"}, 1)>>}
=============================================================================
