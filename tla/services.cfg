CONSTANTS
  Files = {"f", "g"}
  Texts = {"t", "u"}
  Blank = Blank
  Absent = Absent
  Searchers = {"i", "j"}
  Models = {"", "m"}
  MaxEdits = 2
  MaxBanks = 2
  CoarseTime = FALSE
  QuickMoves = FALSE
  Requests = {"s1", "e1", "e2", "e3"}
  Streams = {"s1"}
  Ask <- MCAsk
  Urgent = {"s1", "e2"}
  Parallel = 2
  CacheSize = 2
  MaxEvents = 1
  NoVector = NoVector
  Authors = {"a"}
  Skills = {"s"}
  Chat = {"c"}
  MaxNodes = 6
  MaxAsides = 2
  Perms = {"write", "read"}
  Unknown = {}
  Implies <- MCImplies
  Template = {}
  Legacy <- MCLegacy
  TargetOf <- MCTarget
SPECIFICATION Spec
CHECK_DEADLOCK FALSE
INVARIANTS
  AnswersAreFresh WorkIsNeverAsleep VectorsMatchTexts LossesAreToldOnce
  MoreNeverNeedsLess UntouchedRulesStay ModesAreKept ChunksCoverTheText WhatIsHiddenIsDenied
  MemoriesAreShown CallsComeThroughOnce RepliesArriveWhole WhatIsShownLoads
