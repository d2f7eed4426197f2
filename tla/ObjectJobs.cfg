SPECIFICATION Spec
CONSTANTS
  k1 = k1
  k2 = k2
  short = short
  long = long
  o1 = o1
  Keys = {k1, k2}
  Contents = {short, long}
  SizeOf <- MCSizeOf
  Gone = Gone
  Invocations = {o1}
  MaxReceives = 2
  Limits <- MCLimits
SYMMETRY MCSymmetry
INVARIANTS
  ReadsAreTheObject
  CompletedReadEverything
  AcknowledgedIsPlanned
  ManifestIsAttainable
CHECK_DEADLOCK FALSE
