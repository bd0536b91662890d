-------------------------- MODULE MCDocumentSession --------------------------
(* Small instances of DocumentSession; documents are interchangeable.      *)
EXTENDS DocumentSession, TLC

CONSTANTS d1, d2, d3
ThreeDocuments == {d1, d2, d3}
DocumentSymmetry == Permutations(Documents)
=============================================================================
