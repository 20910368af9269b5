SPECIFICATION StreamSpec
CONSTANTS
  Null = Null
  Viewers = {w1, w2}
  Watchers = {}
  Expiry = TRUE
  Pods = {p1}
  Runs = {1, 2}
  MaxLength = 4
  Limit = 3
  Handlers = {h1}
  MaxPosts = 3
  Faults = TRUE
INVARIANTS StreamTypeOK AckedIsStored ShownIsStored
PROPERTY WrittenIsKept
