SPECIFICATION WalkSpec
CONSTANTS
  FirstYear = 1969
  LastYear = 2109
  Seconds <- MCSeconds
CHECK_DEADLOCK FALSE
INVARIANTS
  ShowsTheCalendar
  AlwaysADosDate
PROPERTIES
  NeverGoesBack
