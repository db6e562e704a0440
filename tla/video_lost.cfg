CONSTANTS
  v1 = v1
  s1 = s1
  None = None
  Videos = {v1}
  Names = {"a"}
  Lower <- MCLower
  Streamers = {s1}
  Lens = {1, 2}
  DBChunkSize = 2
  MaxSize = 5
SPECIFICATION Spec
INVARIANTS
  AckedBytesStored
