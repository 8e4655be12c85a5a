-------------------------- MODULE MC_DeploymentGate --------------------------
(***************************************************************************)
(* DeploymentGate on a few commands, which may be swapped one for another: *)
(* each draws its kind when it is invoked.                                 *)
(***************************************************************************)
EXTENDS DeploymentGate, TLC

Symmetry == {p @@ q : p \in Permutations(Commands), q \in Permutations(Releases)}
=============================================================================
