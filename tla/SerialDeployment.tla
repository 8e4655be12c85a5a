-------------------------- MODULE SerialDeployment --------------------------
(***************************************************************************)
(* What the deployment lock and the checks repeated under it are for: the  *)
(* abstract specification DeploymentGate implements.  Commands follow one  *)
(* another, and each decides on the installation as it is when it begins,  *)
(* as if its plan and its work were one step.                              *)
(***************************************************************************)

CONSTANTS Ops,       \* operation ids
          Releases,
          NoRelease,
          None

VARIABLES
  current, previous,  \* the release records
  stopped,            \* an operator has the product down
  type, status,       \* of the newest record of each operation
  active              \* the operation at work, with the release it begins on

serialVars == <<current, previous, stopped, type, status, active>>

Gated == {"apply", "start", "update", "stop", "rollback"}
Types == Gated \cup {"backup"}
Resumable == {"apply", "start", "update", "stop"}

\* Operations that would bring the product up while it is to stay down.
Starts == {"apply", "update", "rollback"}

Idle == [op |-> None, on |-> NoRelease, to |-> NoRelease]

SerialInit == /\ current \in Releases /\ previous \in Releases \cup {NoRelease}
              /\ stopped = FALSE
              /\ type = [o \in Ops |-> "none"] /\ status = [o \in Ops |-> "none"]
              /\ active = Idle

Unfinished == {o \in Ops : status[o] \in {"running", "requires-manual-intervention"}}

\* A new operation, or one continued from where it stopped.  A gated one is for
\* the release that is current, a rollback for the one before it.
Begin(o, t) ==
  /\ active = Idle
  /\ \/ status[o] = "none"
     \/ type[o] = t /\ t \in Resumable /\ status[o] \in {"running", "interrupted", "failed"}
  /\ t \in Gated => Unfinished \subseteq {o}
  /\ t \in Starts => ~stopped
  /\ \E on \in IF t \in Gated THEN {current} ELSE {NoRelease},
        to \in Releases \cup {NoRelease} :
       /\ t = "rollback" => to = previous
       /\ active' = [op |-> o, on |-> on, to |-> to]
  /\ type' = [type EXCEPT ![o] = t]
  /\ status' = [status EXCEPT ![o] = "running"]
  /\ UNCHANGED <<current, previous, stopped>>

\* Only a stop, and the compensation of one, and a start decide what stays down.
Works == /\ active # Idle
         /\ \/ /\ type[active.op] = "stop" /\ stopped' \in BOOLEAN
               /\ UNCHANGED <<current, previous>>
            \/ /\ type[active.op] = "start" /\ stopped' = FALSE
               /\ UNCHANGED <<current, previous>>
            \/ /\ type[active.op] \in {"update", "rollback"}
               /\ current' \in {current, active.on, active.to}
               /\ previous' \in {previous, current}
               /\ UNCHANGED stopped
         /\ UNCHANGED <<type, status, active>>

Ends == /\ active # Idle
        /\ status' \in {[status EXCEPT ![active.op] = s] :
                          s \in {"running", "succeeded", "failed", "compensated",
                                 "interrupted", "requires-manual-intervention"}}
        /\ active' = Idle
        /\ UNCHANGED <<current, previous, stopped, type>>

Acknowledge == /\ active = Idle
               /\ \E o \in Unfinished : status' = [status EXCEPT ![o] = "failed"]
               /\ UNCHANGED <<current, previous, stopped, type, active>>

SerialNext == \/ \E o \in Ops, t \in Types : Begin(o, t)
              \/ Works \/ Ends \/ Acknowledge

SerialSpec == SerialInit /\ [][SerialNext]_serialVars
=============================================================================
