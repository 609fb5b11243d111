SPECIFICATION Spec
CONSTANTS
  r1 = r1  r2 = r2  r3 = r3  s1 = s1  s2 = s2  m1 = m1
  NoSession = NoSession
  Sessions <- OneSession
  Runs <- ThreeRuns
  Passives <- Nobody
  ManageCtx <- TwoRuns
  Abortable <- TwoRuns
  Resettable <- Nobody
  MaxWorkers = 2
  MaxCycles = 1
  MaxEmptyRetries = 1
  ErrorIntrospection = TRUE
SYMMETRY PairAlike
INVARIANTS TypeOK NothingLeaks EndingsAreComplete CompletedWorkAccountedFor
CHECK_DEADLOCK FALSE
