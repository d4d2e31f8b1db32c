SPECIFICATION TreeSpec
CONSTANTS
  Proc = {p, q}
  Nobody = Nobody
  NINODES = 4
  NBLOCKS = 8
  NDIRECT = 1
  NINDIRECT = 2
  MaxChunk = 1
  Names = {"d", "f"}
  Image = "f"
  ImageSize = 2
  Programs <- Tree
  MaxCalls = 3
  MaxCrashes = 1
SYMMETRY ProcSymmetry
INVARIANTS RefsCounted LinksBacked BlocksOwnedOnce OpenStaysAllocated NoPanic
CHECK_DEADLOCK FALSE
