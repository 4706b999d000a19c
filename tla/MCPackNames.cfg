SPECIFICATION Spec
CONSTANTS
  StemMax = 4
  ExtMax = 1
  MaxSuffix = 2
  MaxFiles = 4
  Digits <- MCDigits
  Reserved <- MCReserved
  Sources <- MCSources
INVARIANTS
  TypeOK
  UniqueOnDos
  AcceptedEverywhere
  Reproducible
  ExhaustedOnlyWhenFull
