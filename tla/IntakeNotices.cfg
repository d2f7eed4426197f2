SPECIFICATION Spec
CONSTANTS
  o1 = o1
  o2 = o2
  m1 = m1
  m2 = m2
  w1 = w1
  conf = conf
  coarse = coarse
  shifted = shifted
  faulty = faulty
  MaxChunks = 2
  Configs = {conf, shifted, coarse, faulty}
  NoConfig = NoConfig
  ChunkCount <- MCChunkCount
  RangeOf <- MCRangeOf
  Callers = {w1}
  Attempts = {1}
  Counts <- MCCounts
  MaxReceiveCount = 1
  RefusesUnused = FALSE
  Invocations = {o1, o2}
  Notices = {m1, m2}
  Admits = TRUE
  Plannable = {conf, shifted, coarse}
  BatchSize = 1
  MaxReceives = 2
  Faults = {"crash", "callFails", "replyLost", "sendFails", "redelivery", "leaseExpires", "configChanges"}
  MaxFaults = 2
SYMMETRY MCSymmetry
INVARIANTS
  IntakeTypeOK
  AcknowledgedIsSent
PROPERTIES
  AdmissionIsExclusive
  RefinesLedger
CHECK_DEADLOCK FALSE
