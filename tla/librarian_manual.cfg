CONSTANTS
  Nodes = {1, 2, 3}
  Branch <- MCBranch
  Silent = {}
  BatchSize = 2
  OverlapNodes = 1
  MaxConcurrent = 2
  Problems = {"p"}
  MaxEvents = 1
SPECIFICATION Spec
CHECK_DEADLOCK FALSE
PROPERTY ManualIsReviewed
