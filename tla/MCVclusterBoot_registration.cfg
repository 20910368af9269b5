SPECIFICATION FairSpec
CONSTANTS
  Null = Null
  Names = {n1, n2}
  Handlers = {h1, h2}
  MaxPosts = 3
  MaxDeletions = 1
  Faults = TRUE
INVARIANTS TypeOK VclusterIsRegistered
PROPERTIES NameKeepsItsId RequestEnds
