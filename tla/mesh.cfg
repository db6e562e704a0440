CONSTANTS
  u1 = u1
  u2 = u2
  u3 = u3
  None = None
  Uids <- ThreeUids
  Ids = {}
  Names = {}
  Https = {}
  MaxMoves = 2
SYMMETRY Alike
CONSTRAINT MovesOfTwo
SPECIFICATION MeshSpec
CHECK_DEADLOCK FALSE
INVARIANTS
  MeshTypeOK
  AnswerFindsItsPeer
  MeshComplete
  MemberUnlessOvertaken
