CONSTANTS
  Requests = {r1, r2, r3}
  MaxConcurrent = 1
SPECIFICATION FairSpec
INVARIANTS OrderlyStop WorkBounded
PROPERTIES FailuresHaveCause DrainAnswersEveryone
