SPECIFICATION Spec
CONSTANTS
  Threads = {t1, t2}
  Sizes = {0, 2}
  Dicts = {4095, 4096}
  DictMin = 4096
CHECK_DEADLOCK FALSE
INVARIANTS
  TableReadyFirst
  EveryDecoderFreed
  OkIsWhole
  RoundTrips
PROPERTIES
  AllReturn
