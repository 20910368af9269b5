SPECIFICATION StreamFairSpec
CONSTANTS
  Null = Null
  Viewers = {w1}
  Watchers = {w2}
  Expiry = FALSE
  Pods = {p1, p2}
  Runs = {1}
  MaxLength = 3
  Limit = 3
  Handlers = {h1, h2}
  MaxPosts = 2
  Faults = FALSE
INVARIANTS NoGaps NothingMissed
PROPERTIES StoredIsShown NewRowIsShown
