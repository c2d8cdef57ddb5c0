----------------------------- MODULE Reconciler -----------------------------
(***************************************************************************)
(* What the configurator promises: a request it sends puts one part of the *)
(* repository right and never a part wrong, and when people stop changing  *)
(* things, nothing stays wrong for good unless a person has to settle it.  *)
(***************************************************************************)
EXTENDS Naturals

CONSTANTS Parts, MaxEdits

VARIABLES
    drift,     \* the parts that are not as the manifest says
    blocked,   \* a person has to settle something first
    edits      \* changes made by people so far

vars == <<drift, blocked, edits>>

Init ==
    /\ drift \in SUBSET Parts
    /\ blocked \in BOOLEAN
    /\ edits = 0

PutRight ==
    /\ \E part \in drift : drift' = drift \ {part}
    /\ UNCHANGED <<blocked, edits>>

Edit ==
    /\ edits < MaxEdits
    /\ edits' = edits + 1
    /\ drift' \in SUBSET Parts
    /\ blocked' \in BOOLEAN

Next == PutRight \/ Edit

Converges == <>[](drift = {} \/ blocked)

Safety == Init /\ [][Next]_vars
Spec == Safety /\ Converges

=============================================================================
