----------------------------- MODULE MC_Channel -----------------------------
(***************************************************************************)
(* Channel on three versions, the second of which comes as two bundles.    *)
(***************************************************************************)
EXTENDS Channel

MCArtefacts == {"a2", "a3"}
MCBundles == {"b1", "b2", "b2x", "b3"}

MCBundleOf == [a \in MCArtefacts |-> IF a = "a2" THEN "b2" ELSE "b3"]

MCVersionOf == [b \in MCBundles |-> CASE b = "b1" -> 1 [] b = "b3" -> 3 [] OTHER -> 2]
=============================================================================
