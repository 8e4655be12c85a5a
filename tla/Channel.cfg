CONSTANTS
  Artefacts <- MCArtefacts
  Bundles <- MCBundles
  BundleOf <- MCBundleOf
  VersionOf <- MCVersionOf
  First = "b1"
  Unusable = {}
  None = "none"
SPECIFICATION Spec
INVARIANTS
  LoweredMarkIsSeen
  UpstreamIsWhatIsInstalled
PROPERTIES
  NeverDowngrades
  NeverBelowDelivered
  OnlyTheFailedIsBlamed
  FailureIsKept
CHECK_DEADLOCK FALSE
