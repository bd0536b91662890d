-------------------------- MODULE MCCollabSession --------------------------
(* Instances of CollabSession: guests are model values, nothing is bounded  *)
(* but the batches and the faults.                                          *)
EXTENDS CollabSession
=============================================================================
