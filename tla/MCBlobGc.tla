------------------------------ MODULE MCBlobGc ------------------------------
(* Small instances of BlobGc: assets are numbers, in the order of the names of *)
(* their blobs.                                                            *)
EXTENDS BlobGc

CONSTANTS s1, s2
Symmetry == Permutations(Sessions)

\* Two kinds of behaviours.  In one, the sessions do all they can do with the first
\* asset, but propose it only while no other session has files.  In the other, one
\* session opens, closes and recovers documents of several assets, but does not edit
\* or save them, so that the limits of a pass bite.
VARIABLE kind

WithOneAsset ==
    /\ \A s \in Sessions : opening[s] # NoDocument => opening[s].doc \subseteq {1}
    /\ \A s \in Sessions : imports[s] # NoImport => imports[s].hash = 1
    /\ \A s \in Sessions : proposals[s] \subseteq {1}
    /\ \A s \in Sessions : proposals[s] # {} => Candidates \cup Opening = {s}
Unedited ==
    /\ \A s \in Sessions : imports[s] = NoImport /\ proposals[s] = {}
    /\ \A s \in Live : memory[s].undo = <<>> /\ memory[s].redo = <<>>
    /\ rotating = {} /\ Cardinality(Candidates \cup Opening) <= 1

BoundedInit == Init /\ kind \in {"one asset", "unedited"}
BoundedNext ==
    /\ Next /\ kind' = kind
    /\ IF kind = "unedited" THEN Unedited' ELSE WithOneAsset'
BoundedSpec == BoundedInit /\ [][BoundedNext]_<<vars, kind>>

\* Behaviours in which no presentation is being opened, and no stored blob
\* registered, while a pass runs: what comes into use then is imported.
ImportNext == BoundedNext /\ (pass' # NoPass => Unstaged' = {})
ImportSpec == BoundedInit /\ [][ImportNext]_<<vars, kind>>
=============================================================================
