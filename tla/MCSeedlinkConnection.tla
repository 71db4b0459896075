------------------------ MODULE MCSeedlinkConnection ------------------------
(***************************************************************************)
(* Instances of SeedlinkConnection for TLC.                                *)
(***************************************************************************)
EXTENDS SeedlinkConnection

\* Nothing, or a packet the client has not selected, one that it has, and the end of
\* a time window.
MCBacklogs == {<<>>, <<"out", "in", "late">>}
=============================================================================
