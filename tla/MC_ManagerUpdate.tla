-------------------------- MODULE MC_ManagerUpdate --------------------------
(***************************************************************************)
(* ManagerUpdate on two installations.                                     *)
(***************************************************************************)
EXTENDS ManagerUpdate

MCProducts == <<"app", "shop">>
=============================================================================
