SPECIFICATION PrepSpec
CONSTANTS
  Frames <- MCFrames
  Fraction <- MCSplit
  Percent <- MCPercent
  MaxPreparations = 2
INVARIANTS
  TrustedIsClosed
  ManifestIsPartition
  LoadedExactly
CHECK_DEADLOCK FALSE
