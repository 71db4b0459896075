-------------------------- MODULE MCSeedlinkStation --------------------------
(***************************************************************************)
(* Instances of SeedlinkStation for TLC.  The .cfg files choose how large  *)
(* memory and disk are and what happens to the server.                     *)
(***************************************************************************)
EXTENDS SeedlinkStation

\* Real-time with a selector and a handshake that only END finishes, and dial-up
\* without either.
Mode(realtime, multi, selective) ==
  [realtime |-> realtime, multi |-> multi, selective |-> selective]
MCModes == {Mode(TRUE, TRUE, TRUE), Mode(FALSE, FALSE, FALSE)}
=============================================================================
