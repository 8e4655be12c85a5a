SPECIFICATION Spec
CONSTANTS
  Installations = {"a", "b"}
  Releases <- FourReleases
  Bundles <- FourBundles
  Pulls <- FourPulls
  Keep = 1
  Installed <- TwoInstalled
  None = None
  MaxOps <- Ops
  MaxCrashes = 1
INVARIANT ImagesStay
PROPERTY RolesStay
CHECK_DEADLOCK FALSE
