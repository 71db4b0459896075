------------------------ MODULE MCStreamApplication ------------------------
(***************************************************************************)
(* Instances of StreamApplication for TLC: the .cfg files give the sizes.  *)
(***************************************************************************)
EXTENDS StreamApplication
=============================================================================
