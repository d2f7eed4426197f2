SPECIFICATION Spec
CONSTANTS
  TextSizes = {}
  PlainSizes = {}
  Plain = {"a", "LF"}
  TextLimits = {1}
  MaxChunkBytes = {7}
  Targets = {0}
  MultiLineSizes = {}
  MultiLineLimits = {1}
  MultiLineMaxChunks = {1}
  Elements = {3, 4}
  ElementLimits = {6}
  RecordsPerChunk = {1}
  Inputs <- MCInputs
  MinimumTarget = 2
  AutomaticChunkCount = 100
  OverlapRecords = 9
  DefaultLineLimit = 3
  BreakFields <- Break
  IncludeFields <- Include
INVARIANTS
  RecordsHaveIdentities
CHECK_DEADLOCK FALSE
