CONSTANTS
  c1 = c1
  c2 = c2
  u1 = u1
  u2 = u2
  i1 = i1
  i2 = i2
  n1 = n1
  n2 = n2
  h1 = h1
  None = None
  Conns <- MCConns
  Uids <- MCUids
  UidOf <- MCUidOf
  Notes <- RtcNotes
  Ids <- MCIds
  Names <- MCNames
  StreamLists <- EmptyOnly
  Https = {h1}
  Kinds <- MembershipKinds
  HttpKinds = {"login", "old"}
  MaxEvents = 2
SPECIFICATION FairSpec
CONSTRAINT EventsOrRequests
CHECK_DEADLOCK FALSE
PROPERTIES
  HandlersServed
  HttpServed
