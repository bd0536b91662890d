---------------------------- MODULE MCCollabHost ----------------------------
(* Small instances of CollabHost, one set of bodies per question.          *)
EXTENDS CollabHost

CONSTANTS shape, title, c1, c2

\* Conflicts: a batch may read one key and write the other, or write both.
B(reads, writes, drops, size) ==
    [reads |-> reads, writes |-> writes, drops |-> drops, size |-> size]
OrderingBodies ==
    {B({}, {shape}, {}, 1), B({shape}, {title}, {}, 1), B({}, {title}, {}, 2)}
\* Sizes and sequences only.
WindowBodies == {B({}, {shape}, {}, 1), B({}, {shape}, {}, 2)}
\* Leases: a group protects both elements' text, one batch deletes title.
LeaseKeys == {"shape", "title", "group"}
LeaseBodies ==
    {B({}, {"shape"}, {}, 1), B({}, {"title"}, {title}, 1), B({}, {"group"}, {}, 1)}
NoElements == {}
NoProtects == <<>>
LeaseElements == {shape, title}
LeaseProtects == [e \in {shape, title} |->
                    IF e = shape THEN {"shape", "group"} ELSE {"title", "group"}]
OneRevision == {"r0"}
TwoRevisions == {"r0", "r1"}
=============================================================================
