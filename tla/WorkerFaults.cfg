SPECIFICATION Spec
CONSTANTS
  w1 = w1
  w2 = w2
  conf = conf
  empty = empty
  oversized = oversized
  MaxChunks = 2
  Configs = {conf, empty, oversized}
  NoConfig = NoConfig
  ChunkCount <- MCChunkCount
  RangeOf <- MCRangeOf
  Callers = {w1, w2}
  Attempts = {1, 2}
  Counts <- MCCounts
  MaxReceiveCount = 2
  RefusesUnused = FALSE
  MaxCopies = 2
  RedriveLimit = 2
  Invalid <- MCInvalid
  RecordsOf <- MCRecordsOf
  Faults = {"crash", "callFails", "replyLost", "redelivery", "resend", "redrive", "schedulingFails"}
  MaxFaults = 1
SYMMETRY MCSymmetry
INVARIANTS
  PipelineTypeOK
  EventsAreTheIntent
  AckedChunksAreDone
  AcknowledgedMeansAnnounced
PROPERTIES
  RefinesLedger
CHECK_DEADLOCK FALSE
