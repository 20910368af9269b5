SPECIFICATION FairSpec
CONSTANTS
  Null = Null
  Sessions = {s1, s2}
  Unlocks = {u1}
  TimeToLive = 3
  MaxRequests = 2
  Faults = TRUE
INVARIANTS TypeOK UnlockPodIsDeleted OutcomeIsTrue
PROPERTIES DebugPodIsDeleted DebuggerReturns UnlockEnds
