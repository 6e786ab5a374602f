SPECIFICATION Spec
CONSTANTS
  page = page
  panel = panel
  k1 = k1
  k2 = k2
  r1 = r1
  r2 = r2
  Users = {page, panel}
  Keys = {k1}
  StaticKeys = {}
  Requests = {r1, r2}
INVARIANTS
  AskedIsUnderWay
PROPERTIES
  SettledOrOvertaken
  MissingIsNoticed
