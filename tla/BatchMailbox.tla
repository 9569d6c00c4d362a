---------------------------- MODULE BatchMailbox ----------------------------
(***************************************************************************)
(* What the hand-off between the main thread and the detached worker       *)
(* promises, with no lock, no length word and no worker loop: a mailbox of *)
(* one cell that holds the latest batch.  Putting a newer batch replaces   *)
(* an older one that is still there ("the buffer holds exactly one, so     *)
(* pausing drops data by replacement rather than growing a queue",         *)
(* detached-observe-worker.ts), the batch in the cell reaches the          *)
(* collector at most once, and batches reach it in the order they were     *)
(* built.                                                                  *)
(***************************************************************************)
EXTENDS Naturals, Sequences

VARIABLES cell,      \* the batch in the cell, 0 when there is none
          newest,    \* the newest batch ever put
          ingested   \* the batches the collector took, in the order it did

mailboxVars == <<cell, newest, ingested>>

Init ==
    /\ cell = 0
    /\ newest = 0
    /\ ingested = <<>>

\* A newer batch takes the cell, whatever is in it.
Put ==
    /\ newest' \in Nat
    /\ newest' > newest
    /\ cell' = newest'
    /\ UNCHANGED ingested

\* The collector takes the batch in the cell, unless it has it already.
Ingest ==
    /\ cell # 0
    /\ \A i \in 1..Len(ingested) : ingested[i] < cell
    /\ ingested' = Append(ingested, cell)
    /\ UNCHANGED <<cell, newest>>

\* The batch leaves the cell, ingested or dropped.
Discard ==
    /\ cell # 0
    /\ cell' = 0
    /\ UNCHANGED <<newest, ingested>>

Next == Put \/ Ingest \/ Discard

Spec == Init /\ [][Next]_mailboxVars
=============================================================================
