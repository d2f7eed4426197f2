SPECIFICATION FairSpec
CONSTANTS
  o1 = o1
  o2 = o2
  m1 = m1
  m2 = m2
  w1 = w1
  conf = conf
  coarse = coarse
  shifted = shifted
  faulty = faulty
  MaxChunks = 2
  Configs = {conf}
  NoConfig = NoConfig
  ChunkCount <- MCChunkCount
  RangeOf <- MCRangeOf
  Callers = {w1}
  Attempts = {1}
  Counts <- MCCounts
  MaxReceiveCount = 1
  RefusesUnused = FALSE
  Invocations = {o1}
  Notices = {m1}
  Admits = TRUE
  Plannable = {conf}
  BatchSize = 1
  MaxReceives = 3
  Faults = {"crash", "leaseExpires"}
  MaxFaults = 2
PROPERTIES
  SealedIsResumed
CHECK_DEADLOCK FALSE
