SPECIFICATION LedgerSpec
CONSTANTS
  w1 = w1
  w2 = w2
  wide = wide
  shifted = shifted
  short = short
  MaxChunks = 3
  Configs = {wide, shifted, short}
  NoConfig = NoConfig
  ChunkCount <- MCChunkCount
  RangeOf <- MCRangeOf
  Callers = {w1, w2}
  Attempts = {1, 2}
  Counts <- MCCounts
  MaxReceiveCount = 2
  RefusesUnused = FALSE
SYMMETRY MCSymmetry
INVARIANTS
  CountersMatchChunks
  TotalsMatchChunks
  TerminalIsSettled
  OutboxMatchesJob
  LedgerInv
PROPERTIES
  TerminalNeverRegresses
  JobFollowsTable
  ChunkFollowsTable
  ImplementsOutcome
CHECK_DEADLOCK FALSE
