SPECIFICATION Spec
CONSTANTS
  Radix = 3
  Near = 2
  Min3 = 4
  Min4 = 6
  Ports = {"p5", "mmx", "sse"}
  Width <- MCWidth
  Chunks <- MCChunks
  BufferSize = 12
  Old = 99
  MaxMatches = 3
  MaxShort = 1
INVARIANT WindowsApart
