--------------------------- MODULE MCThreadedQueue ---------------------------
(***************************************************************************)
(* The instance of ThreadedQueue for TLC: threads that may each push and   *)
(* pop, a queue constructed with or resized to any of a few capacities.    *)
(***************************************************************************)
EXTENDS ThreadedQueue
==============================================================================
