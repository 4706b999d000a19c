SPECIFICATION Spec
CONSTANTS
  BufSize <- MCBufSize
  SrcSize <- MCSrcSize
  MaxInput <- MCMaxInput
  MaxPacked <- MCMaxPacked
  MaxChunks <- MCMaxChunks
  MaxOffset <- MCMaxOffset
  Sfxs <- MCSfxs
INVARIANTS
  TypeOK
  AtTheRightField
  OutputsExact
  CleanRunSucceeds
PROPERTIES
  ImplementsExtraction
  Terminates
