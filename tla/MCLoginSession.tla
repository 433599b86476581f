--------------------------- MODULE MCLoginSession ---------------------------
(***************************************************************************)
(* Instances of LoginSession: two handlers, which are alike.               *)
(***************************************************************************)
EXTENDS LoginSession

Symmetry == Permutations(Handlers)
=============================================================================
