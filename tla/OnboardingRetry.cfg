\* Expected to be violated: a lost answer, then a retry.
SPECIFICATION SetupSpec
CONSTANTS
  Drafts = {d1, d2}
  MaxLost = 1
  MaxMounts = 0
INVARIANT RetrySendsOnlyTheRest
CHECK_DEADLOCK FALSE
