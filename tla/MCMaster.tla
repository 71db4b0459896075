------------------------------ MODULE MCMaster ------------------------------
(***************************************************************************)
(* Instances of Master for TLC.  The .cfg files choose the messages that   *)
(* arrive and what goes wrong.                                             *)
(***************************************************************************)
EXTENDS Master
=============================================================================
