SPECIFICATION Spec
CONSTANTS
  Proc = {p, q}
  Nobody = Nobody
  NINODES = 4
  NBLOCKS = 8
  NDIRECT = 1
  NINDIRECT = 2
  MaxChunk = 1
  Names = {"d", "f"}
  Image = "f"
  ImageSize = 2
  Programs <- SameName
  MaxCalls = 2
  MaxCrashes = 0
SYMMETRY ProcSymmetry
INVARIANTS NoCircle
CHECK_DEADLOCK FALSE
