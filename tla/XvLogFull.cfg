CONSTANTS
  Procs = {p1, p2, p3}
  Blocks = {b1, b2, b3}
  NoBlock = NoBlock
  MaxOpBlocks = 1
  LogSize = 3
  NLog = 3
  MaxCalls = 3
  MaxStops = 0
SPECIFICATION Spec
INVARIANT LogFits
