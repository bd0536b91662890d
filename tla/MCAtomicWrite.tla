---------------------------- MODULE MCAtomicWrite ----------------------------
(* Small instances of AtomicWrite.                                         *)
EXTENDS AtomicWrite

CONSTANTS a, b, c
ThreeContents == {a, b, c}
=============================================================================
