SPECIFICATION Spec
CONSTANTS
  Null = Null
  Pods = {p1}
  Runs = {1}
  MaxLength = 3
  Limit = 3
  Handlers = {h1, h2}
  MaxPosts = 3
  Faults = FALSE
PROPERTY WrittenIsKept
