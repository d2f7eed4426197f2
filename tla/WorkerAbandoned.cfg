SPECIFICATION FairSpec
CONSTANTS
  w1 = w1
  w2 = w2
  conf = conf
  empty = empty
  oversized = oversized
  MaxChunks = 2
  Configs = {conf}
  NoConfig = NoConfig
  ChunkCount <- MCChunkCount
  RangeOf <- MCRangeOf
  Callers = {w1, w2}
  Attempts = {1, 2}
  Counts <- MCCounts
  MaxReceiveCount = 2
  RefusesUnused = FALSE
  MaxCopies = 1
  RedriveLimit = 2
  Invalid <- MCInvalid
  RecordsOf <- MCRecordsOf
  Faults = {"crash"}
  MaxFaults = 1
PROPERTIES
  AbandonedIsRetried
CHECK_DEADLOCK FALSE
