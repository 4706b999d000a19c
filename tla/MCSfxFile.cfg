SPECIFICATION Spec
CONSTANTS
  BufSize <- MCBufSize
  SrcSize <- MCSrcSize
  MaxInput <- MCMaxInput
  MaxPacked <- MCMaxPacked
  MaxChunks <- MCMaxChunks
  MaxOffset <- MCMaxOffset
  MaxSfxInput = 200
  Inside <- MCInside
  Images <- MCImages
  StubLen <- MCStubLen
  MaxImage = 120
  MaxEntry = 100
  MaxRuns = 2
INVARIANTS
  TypeOK
  OnlyFinishedFilesAccepted
  ReportedFilesLast
  ReportedFilesUnpack
  UnpackedFilesExact
CHECK_DEADLOCK FALSE
