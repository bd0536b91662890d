---------------------------- MODULE MCWriterLease ----------------------------
(* Small instances of WriterLease: hosts and standalone saves.             *)
EXTENDS WriterLease

CONSTANTS h1, s1
=============================================================================
