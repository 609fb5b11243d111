SPECIFICATION Spec
CONSTANTS
  Sigs <- OneSig
  Sizes <- Lengths
  Thinking <- Either
  Followups <- Either
  MaxCalls = 1
  MaxEntries = 6
  SystemSize = 1
  FooterSize = 1
  TokenLimit = 11
  DedupAfter = 1
  TruncateAfter = 1
  MaxOutput = 2
  TrimAfter = 3
  Tokenade = 3
INVARIANTS WithinBudget UnansweredOnlyIfBlank DedupKeepsNewest
CHECK_DEADLOCK FALSE
