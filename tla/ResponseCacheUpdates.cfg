SPECIFICATION FairSpec
CONSTANTS
  r1 = r1
  r2 = r2
  r3 = r3
  u1 = u1
  u2 = u2
  Requests = {r1, r2}
  Updates = {u1, u2}
  Keys <- OneKey
  Selections <- GetsAndRest
  Responses <- PlainResponses
  MaxEntries = 1
  MaxBytes = 1
  MaxEntryBytes = 1
  MaxPending = 2
  MaxTtl = 1
  MaxGeneration = 1
  MaxTime = 0
INVARIANT CacheFenced
INVARIANT CoalescingExact
PROPERTY EveryRequestAnswered
