SPECIFICATION FairSpec
CONSTANTS
  a = a
  b = b
  Chat = Chat
  Jobs <- Both
  Kind <- OneOfEach
  Isolated <- OnlyB
  Resetting <- Neither
  SelfScheduled <- OnlyB
  Period = 2
  Minute = 2
  Poll = 2
  MaxMessages = 1
  MaxChanges = 1
  MaxCrashes = 1
  MaxFaults = 2
  MaxEvents = 1
  Horizon = 4
INVARIANTS RunsAreNotRepeated ChatSeesNoIsolatedTurn
PROPERTIES RemovedStaysRemoved DueJobsRun
CHECK_DEADLOCK FALSE
