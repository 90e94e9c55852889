--------------------------- MODULE MCIterationLoop ---------------------------
(***************************************************************************)
(* Small instances of the iteration loop.  The shapes hold a prompt that   *)
(* needs two chunks, one that ends inside a page, outputs that cross a     *)
(* page, and shapes that submit_request must refuse.                       *)
(***************************************************************************)
EXTENDS IterationLoopProperties

MCShapes     == {<<1, 4>>, <<3, 2>>, <<1, 2>>, <<0, 1>>, <<4, 2>>}
MCLiveShapes == {<<1, 3>>, <<2, 2>>}

=============================================================================
