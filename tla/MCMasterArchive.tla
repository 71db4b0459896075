--------------------------- MODULE MCMasterArchive ---------------------------
(***************************************************************************)
(* Instances of MasterArchive for TLC: two slots, so that the third data   *)
(* message may wrap around, and as few numbers as the archive allows.      *)
(***************************************************************************)
EXTENDS MasterArchive
=============================================================================
