CONSTANTS
  b1 = b1
  r1 = r1
  r2 = r2
  d1 = d1
  d2 = d2
  e1 = e1
  e2 = e2
  e3 = e3
  None = None
  Lower <- MCLower
  Trim <- MCTrim
  Browsers = {b1}
  Reqs = {r1, r2}
  Kinds <- AllKinds
  Ids = {d1, d2}
  Sids = {e1, e2, e3}
  Names = {"a", "A", " a"}
SPECIFICATION Spec
SYMMETRY Alike
INVARIANTS
  TypeOK
  ClashesOnlyByRace
  CookieOfOwnLogin
  CookieStaysUsable
