------------------------- MODULE MCSystemConnection -------------------------
(***************************************************************************)
(* Instances of SystemConnection for TLC: the .cfg files give the sizes.   *)
(***************************************************************************)
EXTENDS SystemConnection
=============================================================================
