SPECIFICATION Spec
CONSTANTS
  Null = Null
  MaxGeneration = 1
  Handlers = {h1}
  MaxMints = 5
  FaultKinds = {"call"}
  SameSecond = TRUE
INVARIANTS SecretTokenRefreshes PreviousTokensInvalidated
