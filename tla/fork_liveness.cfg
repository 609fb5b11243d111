SPECIFICATION FairSpec
CONSTANTS
  r1 = r1  r2 = r2  r3 = r3  s1 = s1  s2 = s2  m1 = m1
  NoSession = NoSession
  Sessions <- TwoSessions
  Runs <- TwoRuns
  Passives <- OnePassive
  ManageCtx <- OneRun
  Abortable <- OneRun
  Resettable <- OneSession
  MaxWorkers = 1
  MaxCycles = 2
  MaxEmptyRetries = 1
  ErrorIntrospection = FALSE
INVARIANTS SessionsIsolated
PROPERTIES AbortBeforeInferenceWins ImplementsFairPool
CHECK_DEADLOCK FALSE
