CONSTANTS
  Width = 4
  Height = 6
  Steps = 3
  MaxThreads = 4
  Starts <- ShiftedColumns
SPECIFICATION FairSpec
INVARIANTS NoRace
PROPERTIES ImplementsLife Terminates
