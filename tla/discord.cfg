CONSTANTS
  MaxPosts = 3
  MaxWaiting = 1
  MaxNodes = 5
  MaxThreads = 1
  MaxEvents = 2
  MaxMsgNodes = 4
  TurnTimeout = TRUE
  MayLoseDb = FALSE
  WithDms = FALSE
  NoNode = NoNode
SPECIFICATION Spec
INVARIANTS ContextIsTheSessions ResetForgets ShownIsRemembered
CHECK_DEADLOCK FALSE
