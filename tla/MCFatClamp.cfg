SPECIFICATION WalkSpec
CONSTANTS
  FirstYear = 2107
  LastYear = 2109
  Seconds <- MCSeconds
CHECK_DEADLOCK FALSE
INVARIANT ClampsAfter2107
