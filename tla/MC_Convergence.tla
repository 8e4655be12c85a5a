-------------------------- MODULE MC_Convergence --------------------------
(* Three releases.  In the run of the compensations the third migrates past
   what the others can run against, with a hook that its manifest does not
   speak for; the second has no migrations and declares nothing; the first
   migrates with a service.  In the run of the stale record all is declared, and
   the second can run what the third migrates to. *)
EXTENDS Convergence

ThreeReleases == 1..3

SilentLeaves == <<1, 0, 2>>
SilentRuns == <<1, 1, 2>>
SilentProduces == <<1, 0, 0>>
SilentReads == <<1, 0, 2>>

DeclaredLeaves == <<1, 1, 2>>
DeclaredRuns == <<1, 2, 2>>
=============================================================================
