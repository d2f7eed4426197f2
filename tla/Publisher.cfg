SPECIFICATION FairSpec
CONSTANTS
  RecordCount = 3
  Sizes = {1, 2, 5}
  Modes = {"single", "bundle"}
  MaxEvents = {3, 5}
  BundleLimits = {4}
  MaxEnvelopes = {0, 1}
  Settings <- MCSettings
  Overhead = 1
  PhysicalLimit = 5
  BatchEntries = 2
  BatchSize = 2
  Concurrency = 2
  Faults = {"someFail", "callFails", "refused", "deadline"}
  MaxFaults = 3
INVARIANTS
  PublisherTypeOK
  SuccessIsComplete
  RequestsFit
  CauseIsReported
  FailuresAreExplained
PROPERTIES
  ImplementsPass
  PassEnds
CHECK_DEADLOCK FALSE
