SPECIFICATION Spec
CHECK_DEADLOCK FALSE
CONSTANTS
  ChunkSizes <- MCChunkSizes
  Depths <- MCDepths
  FileSizes <- MCFileSizes
INVARIANTS
  RunsWhereAsked
  LayersAgree
  ReadersAgree
