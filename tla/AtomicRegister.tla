--------------------------- MODULE AtomicRegister ---------------------------
(***************************************************************************)
(* What a write to a private recovery file promises its callers: the file  *)
(* reads as the old or as the new content, as a whole, whether the write   *)
(* succeeds, fails or is cut short; a write that succeeded is not undone.  *)
(* DocumentSession relies on this and no more.  Once a clean-up has left a *)
(* generation behind, nothing is promised.                                 *)
(***************************************************************************)
CONSTANTS Contents, Missing, Unknown

VARIABLES
    value,    \* what a reader, or the next startup, finds
    old,      \* what it was when the last write began
    new,      \* what that write brings
    writing   \* a write has begun and has not returned

vars == <<value, old, new, writing>>

Init ==
    /\ value = Missing /\ old = Missing /\ new = Missing
    /\ writing = FALSE

Begin(v) ==
    /\ ~writing
    /\ writing' = TRUE
    /\ old' = value /\ new' = v
    /\ UNCHANGED value

\* Before it returns a write may take effect, and be taken back when it fails.
Change ==
    /\ writing
    /\ value' \in {old, new}
    /\ UNCHANGED <<old, new, writing>>

Succeed ==
    /\ writing /\ value = new
    /\ writing' = FALSE
    /\ UNCHANGED <<value, old, new>>

\* The caller is told nothing certain, or is gone.
Fail ==
    /\ writing
    /\ writing' = FALSE
    /\ UNCHANGED <<value, old, new>>

Degrade ==
    /\ value' = Unknown /\ old' = Unknown /\ new' = Unknown
    /\ writing' = FALSE

Next == (\E v \in Contents : Begin(v)) \/ Change \/ Succeed \/ Fail \/ Degrade

Spec == Init /\ [][Next]_vars
=============================================================================
