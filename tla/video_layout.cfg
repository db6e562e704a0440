CONSTANTS
  v1 = v1
  v2 = v2
  s1 = s1
  s2 = s2
  None = None
  Videos = {v1, v2}
  Names = {"A", "a"}
  Lower <- MCLower
  Streamers = {s1, s2}
  Lens = {1, 3, 4}
  DBChunkSize = 2
  MaxSize = 8
  SectionSize = 4
  Sections <- MCSections
SPECIFICATION DownloadSpec
CONSTRAINT LongOrMany
INVARIANTS
  TypeOK
  MetaUnique
  ChunkIndexUnique
  SizeCoversChunks
  BytesInOrder
  CompleteUnlessLossy
  DownloadInOrder
  QuietDownloadComplete
PROPERTIES
  OnlyOwnerWrites
  AppendOnly
