----------------------------- MODULE MCVtmDemo -----------------------------
(***************************************************************************)
(* The instance of VtmDemo: a queue that fills and a viewer that stalls.   *)
(***************************************************************************)
EXTENDS VtmDemo

=============================================================================
