CONSTANTS
  r1 = r1
  r2 = r2
  r3 = r3
  None = None
  Requests = {r1, r2, r3}
  MaxConns = 2
  Kinds = {"newcomer", "delete", "old", "chunk"}
SPECIFICATION FairSpec
CHECK_DEADLOCK FALSE
INVARIANTS
  TypeOK
  Conserved
  NeverAllWaiting
PROPERTIES
  KeptOnlyBySend
  RequestsEnd
