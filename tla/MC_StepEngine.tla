---------------------------- MODULE MC_StepEngine ----------------------------
(***************************************************************************)
(* Step lists for StepEngine, cut down from the operations that can be     *)
(* resumed.  A field left out of a step is as S gives it.                  *)
(***************************************************************************)
EXTENDS StepEngine

S(id, policy) == [id |-> id, policy |-> policy, idempotent |-> TRUE,
                  restartable |-> FALSE, checks |-> FALSE, verifies |-> FALSE,
                  compensates |-> FALSE, intervenes |-> FALSE, passes |-> FALSE]

\* An operation with one step of every kind: a restore's stop and volumes, then
\* an update's configuration, migration, bookkeeping and optional pruning.
Every == <<[S("stop-services", "compensate") EXCEPT !.compensates = TRUE],
           [S("restore-volumes", "compensate") EXCEPT !.idempotent = FALSE,
              !.restartable = TRUE, !.intervenes = TRUE],
           [S("render-secrets", "compensate") EXCEPT !.checks = TRUE,
              !.verifies = TRUE, !.compensates = TRUE],
           [S("migrate", "compensate") EXCEPT !.intervenes = TRUE, !.passes = TRUE],
           S("record-state", "abort"),
           S("prune-releases", "continue")>>

\* The same operation in a manager that no longer calls the volumes safe to
\* start again nor the migration safe to repeat, and in one with another step,
\* which compensates, in fifth place.
Reclassified == [Every EXCEPT ![2].restartable = FALSE, ![4].idempotent = FALSE]
Replaced == [Every EXCEPT ![5] = S("start-services", "compensate")]

EveryIDs == {Every[i].id : i \in DOMAIN Every} \cup {"start-services"}

EveryPlan == [b \in Builds |-> CASE b = "v1" -> Every
                                 [] b = "v2" -> Reclassified
                                 [] b = "v3" -> Replaced]

\* An update, from its restore point to its release record.
Update == <<[S("restore-point", "abort") EXCEPT !.compensates = TRUE],
            [S("render-configuration", "compensate") EXCEPT !.checks = TRUE,
               !.compensates = TRUE],
            S("pull-images", "compensate"),
            [S("migrate", "compensate") EXCEPT !.intervenes = TRUE, !.passes = TRUE],
            [S("start-services", "compensate") EXCEPT !.verifies = TRUE],
            S("record-state", "abort")>>

UpdateIDs == {Update[i].id : i \in DOMAIN Update}

UpdatePlan == [b \in Builds |-> Update]
=============================================================================
