------------------------- MODULE OperationLifecycle -------------------------
(***************************************************************************)
(* What the operation journal promises about one operation, whatever the   *)
(* steps do: the abstract specification StepEngine implements.             *)
(*                                                                         *)
(* Only durable facts appear here: the status of the newest record, and    *)
(* the steps the journal credits as done and not to be done again.  A      *)
(* journal write may be lost without failing the operation, so a later     *)
(* record may skip a status an earlier, lost one would have shown.         *)
(***************************************************************************)

CONSTANT StepIDs

VARIABLES
  status,   \* status of the newest journaled record, "none" before the first
  credit    \* step ids recorded as finished and not safe to repeat

lifecycleVars == <<status, credit>>

OpStatus == {"running", "succeeded", "failed", "compensated", "interrupted",
             "requires-manual-intervention"}

\* What --resume and findResumable accept of the newest record.
Reopenable == {"running", "interrupted", "failed"}

LifecycleInit == status = "none" /\ credit = {}

Begin == /\ status = "none"
         /\ status' \in OpStatus
         /\ credit' \in SUBSET StepIDs

\* A run, or a resumed one, writes its next record: credit is never lost.
Advance == /\ status \in Reopenable
           /\ status' \in OpStatus
           /\ credit' \in SUBSET StepIDs
           /\ credit \subseteq credit'

\* An operator acknowledges an operation; its steps stay as recorded.
Acknowledge == /\ status \in {"running", "requires-manual-intervention"}
               /\ status' = "failed"
               /\ UNCHANGED credit

LifecycleNext == Begin \/ Advance \/ Acknowledge

LifecycleSpec == LifecycleInit /\ [][LifecycleNext]_lifecycleVars
=============================================================================
