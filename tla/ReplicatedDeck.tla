--------------------------- MODULE ReplicatedDeck ---------------------------
(***************************************************************************)
(* What a collaboration session promises its participants, whatever the    *)
(* transport does: there is one history of transactions, it only grows at  *)
(* its end, and every copy of the deck is a beginning of it that only      *)
(* moves forward.                                                          *)
(***************************************************************************)
EXTENDS Sequences, SequencesExt

CONSTANTS
    Replicas,     \* the copies of the deck, the host's authoritative one apart
    Transactions  \* command batches

VARIABLES
    history,      \* what the host committed, in order
    copy          \* per replica the transactions it holds, in order

vars == <<history, copy>>

Init == history = <<>> /\ copy = [r \in Replicas |-> <<>>]

Commit == \E t \in Transactions :
    /\ history' = Append(history, t)
    /\ UNCHANGED copy

\* A replica moves to a later beginning of the history.
Advance(r) == \E n \in (Len(copy[r]) + 1)..Len(history) :
    /\ copy' = [copy EXCEPT ![r] = SubSeq(history, 1, n)]
    /\ UNCHANGED history

Next == Commit \/ \E r \in Replicas : Advance(r)

Spec == Init /\ [][Next]_vars

Agreement == \A r \in Replicas : IsPrefix(copy[r], history)
=============================================================================
