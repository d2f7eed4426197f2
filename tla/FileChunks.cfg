SPECIFICATION Spec
CONSTANTS
  TextSizes = {0, 1, 2, 3, 4}
  PlainSizes = {5, 6}
  Plain = {"a", "CR", "LF"}
  TextLimits = {0, 1, 2}
  MaxChunkBytes = {1, 2, 3}
  Targets = {0, 2}
  MultiLineSizes = {1, 4, 5, 6}
  MultiLineLimits = {1, 2, 3}
  MultiLineMaxChunks = {2, 4}
  Elements = {0, 1, 2, 3}
  ElementLimits = {4, 5}
  RecordsPerChunk = {1, 2}
  Inputs <- MCInputs
  MinimumTarget = 2
  AutomaticChunkCount = 1
  OverlapRecords = 1
  DefaultLineLimit = 3
  BreakFields <- Break
  IncludeFields <- Include
INVARIANTS
  ChunksTypeOK
  PlannedChunksFit
  EventsAreRecords
  OffsetIsPosition
  EachRecordOnce
CHECK_DEADLOCK FALSE
