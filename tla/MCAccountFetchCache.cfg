SPECIFICATION Spec
CONSTANTS
  page = page
  panel = panel
  k1 = k1
  k2 = k2
  r1 = r1
  r2 = r2
  Users = {page}
  Keys = {k1, k2}
  StaticKeys = {k2}
  Requests = {r1}
INVARIANTS
  ListenersMatchWatchers
  FollowedOrPolled
