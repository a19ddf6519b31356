---------------------------- MODULE MCRecording ----------------------------
(***************************************************************************)
(* Instance of Recording: two recordings of one leg, of either kind, and   *)
(* two media workers.                                                      *)
(***************************************************************************)
EXTENDS Recording
=============================================================================
