SPECIFICATION Spec
CONSTANTS
  Clients = {c1, c2}
  MaxNodes = 5
  MaxWorkers = 1
  MaxFaults = 2
  DefaultToResume = TRUE
  Introspection = TRUE
  Typed = {2}
  MayLoseDb = FALSE
  NoNode = NoNode
INVARIANTS ConversationsAreKept NobodyWaitsInVain
CHECK_DEADLOCK FALSE
