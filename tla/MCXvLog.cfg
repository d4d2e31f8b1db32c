CONSTANTS
  Procs = {p1, p2}
  Blocks = {b1, b2, b3}
  NoBlock = NoBlock
  MaxOpBlocks = 2
  LogSize = 4
  NLog = 4
  MaxCalls = 3
  MaxStops = 2
SPECIFICATION FairSpec
INVARIANTS PanicsOnlyFull IdleIsDurable
PROPERTIES ImplementsAtomicDisk BeginReturns
