------------------------------ MODULE ScanJob ------------------------------
(***************************************************************************)
(* What a scan engine promises, whatever its workers, retries and restarts *)
(* do: items are admitted, each is settled by a result of its own, and the *)
(* job is called over only when no admitted item is left.  An item may be  *)
(* lost to a fault, and a settled one may be opened again by a late worker *)
(* or dropped with all others by a fresh start, but none just disappears.  *)
(***************************************************************************)
CONSTANT Item

VARIABLES
    todo,     \* items admitted and without a result
    settled,  \* items with a result
    lost,     \* items a fault left behind
    over      \* the job has been called over

sjVars == <<todo, settled, lost, over>>

SjInit == todo = {} /\ settled = {} /\ lost = {} /\ over = FALSE

\* New items, or lost ones again; the job goes on.
Admit ==
    /\ \E T \in SUBSET (Item \ settled) : todo' = todo \cup T /\ lost' = lost \ T
    /\ over' = FALSE /\ UNCHANGED settled

\* A fresh start: everything known is dropped.
Restart ==
    /\ todo' \in SUBSET Item
    /\ settled' = {} /\ lost' = {} /\ over' = FALSE

\* A result, for an item that waits for one, was lost, or was not known before.
Settle ==
    /\ ~over
    /\ \E S \in SUBSET (Item \ settled) :
          todo' = todo \ S /\ lost' = lost \ S /\ settled' = settled \cup S
    /\ UNCHANGED over

\* A result is taken back, and the item waits again.
Reopen ==
    /\ ~over
    /\ \E i \in settled : settled' = settled \ {i} /\ todo' = todo \cup {i}
    /\ UNCHANGED <<lost, over>>

\* A fault: items are left behind.
Lose ==
    /\ ~over
    /\ \E S \in SUBSET todo : todo' = todo \ S /\ lost' = lost \cup S
    /\ UNCHANGED <<settled, over>>

End == todo = {} /\ over' = TRUE /\ UNCHANGED <<todo, settled, lost>>

\* The job is thrown away.
Discard == todo' = {} /\ settled' = {} /\ lost' = {} /\ UNCHANGED over

SjNext == Admit \/ Restart \/ Settle \/ Reopen \/ Lose \/ End \/ Discard

SjSpec == SjInit /\ [][SjNext]_sjVars
=============================================================================
