SPECIFICATION Spec
CONSTANTS
  u1 = u1
  u2 = u2
  u3 = u3
  k1 = k1
  k2 = k2
  Null = Null
  Uuids = {u1, u2}
  Keys = {k1}
  KeyOf <- OneKey
  Generations <- Gens1
  Handlers = {h1, h2}
  Endpoints <- EventsAndStatus
  MaxRequests = 3
  Faults = FALSE
INVARIANT SoleLive
