SPECIFICATION KernelSpec
CONSTANTS
  NFRAMES = 14
  NPDENTRIES = 4
  NPTENTRIES = 2
  PGSIZE = 2
  KERNBASE = 8
  KMAP = {2, 3}
  NPROC = 3
  MAXARG = 2
  Images <- Programs
  Arguments <- Pushed
  Growth <- Amounts
  Targets = {1}
  MaxCalls = 4
INVARIANTS MemorySound SchedulerRight
PROPERTIES ImplementsAddressSpaces
CHECK_DEADLOCK FALSE
