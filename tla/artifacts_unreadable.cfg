SPECIFICATION Spec
CONSTANTS
  a1 = a1  a2 = a2  a3 = a3  a4 = a4  w1 = w1  w2 = w2  c1 = c1  c2 = c2
  promote1 = promote1  promote2 = promote2  cleanup1 = cleanup1  cleanup2 = cleanup2
  delete1 = delete1  delete2 = delete2
  None = None
  Artifacts = {a1, a2, a3}
  Contents = {c1, c2}
  Workspaces = {w1}
  Existing = {a1, a2}
  Uploads = {a3}
  Promotes = {promote1, promote2}
  Cleanups = {cleanup1, cleanup2}
  Deletes = {}
  Target <- TargetsOneSpace
  Space <- SpacesOneSpace
  ContentOf <- ContentOneSpace
  SpaceOf <- SpaceOneSpace
  Born <- BornOneSpace
  Final = {a2, a3}
  MaxFaults = 1
INVARIANTS PromotedBytesKept
CHECK_DEADLOCK FALSE
