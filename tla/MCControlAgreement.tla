-------------------------- MODULE MCControlAgreement --------------------------
(***************************************************************************)
(* The two controls on the small instances of the iteration loop.          *)
(***************************************************************************)
EXTENDS ControlAgreement, MCIterationLoop

=============================================================================
