SPECIFICATION Spec
CONSTANTS
  Null = Null
  Pods = {p1, p2, p3}
  Types = 3
  Plan = 2
  MaxRerun = 1
  InClusterGenerations = {8, 9, 10}
  MaxApprovals = 2
  Handlers = {h1, h2}
  Faults = TRUE
SYMMETRY Symmetry
INVARIANTS TypeOK ShowsLatest OverviewShowsLatest RequiredIsLatest AckedIsDecided
PROPERTY DecisionIsFinal
