SPECIFICATION Spec
CONSTANTS
  StemMax = 4
  ExtMax = 1
  MaxSuffix = 2
  MaxFiles = 3
  Digits <- MCDigits
  Reserved <- MCReserved
  Sources <- MCSources
INVARIANT
  SortedByStoredName
