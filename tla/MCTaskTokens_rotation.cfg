SPECIFICATION Spec
CONSTANTS
  Null = Null
  MaxGeneration = 2
  Handlers = {h1, h2}
  MaxMints = 4
  FaultKinds = {"call", "version"}
  SameSecond = FALSE
SYMMETRY Symmetry
INVARIANTS TypeOK UsedIsRefused AcceptedWasHandedOut
PROPERTY WithdrawnStaysWithdrawn
