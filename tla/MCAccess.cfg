CONSTANTS
  t1 = t1
  t2 = t2
  Tabs = {t1, t2}
  Browsers = {"b"}
  BrowserOf <- OneBrowser
  Requests = {1, 2}
  MaxTokens = 3
  MaxFamilies = 2
  Users = {"u1", "u2", "u3"}
  Staff = {"staff"}
  Handlers = {1, 2}
  NewRoles = {"OWNER", "ADMIN"}
  MaxInvites = 1
  w1 = w1
  w2 = w2
  Templates = {"SERVICE"}
  Switched = {"BOOKING", "SERVICES"}
  Writers = {w1, w2}
  Readers = {1}
  MaxUpdates = 1
SPECIFICATION Spec
SYMMETRY Symmetry
INVARIANTS EndedStaysDead OneLiveToken ReuseOnlyIfDisturbed OwnerRemains DependenciesMet CacheIsFresh
CHECK_DEADLOCK FALSE
