SPECIFICATION FairSpec
CONSTANTS
  o1 = o1
  o2 = o2
  m1 = m1
  m2 = m2
  w1 = w1
  conf = conf
  coarse = coarse
  shifted = shifted
  faulty = faulty
  MaxChunks = 3
  Configs = {conf}
  NoConfig = NoConfig
  ChunkCount <- MCChunkCount
  RangeOf <- MCRangeOf
  Callers = {w1}
  Attempts = {1}
  Counts <- MCCounts
  MaxReceiveCount = 2
  RefusesUnused = TRUE
  Invocations = {o1}
  Notices = {m1}
  Admits = FALSE
  Plannable = {conf}
  BatchSize = 2
  MaxReceives = 4
  Faults = {"crash", "callFails", "replyLost", "sendFails"}
  MaxFaults = 3
INVARIANTS
  CheckpointsAreSent
PROPERTIES
  ManifestReachesQueue
  NoResendAfterCheckpoint
CHECK_DEADLOCK FALSE
