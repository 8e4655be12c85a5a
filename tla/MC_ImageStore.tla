--------------------------- MODULE MC_ImageStore ---------------------------
(* Two installations.  One has four releases, so that a prune removes the
   first; the other has none yet.  The first carries an image that the
   second pulls: the alias of the one and the digest of the other are one name
   to the runtime.  Its other image is its own. *)
EXTENDS ImageStore, TLC

FourReleases == 1..4
FourBundles == <<{"k1", "k3"}, {}, {}, {"k2"}>>
FourPulls == <<{}, {"k1"}, {"k2"}, {}>>
TwoInstalled ==
  ("a" :> [store |-> 1..4, roles |-> [current |-> 4, previous |-> 3, candidate |-> None]]) @@
  ("b" :> [store |-> {}, roles |-> [current |-> None, previous |-> None, candidate |-> None]])
Ops == ("a" :> 2) @@ ("b" :> 1)
=============================================================================
