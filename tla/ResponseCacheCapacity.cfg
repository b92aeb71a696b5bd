SPECIFICATION Spec
CONSTANTS
  r1 = r1
  r2 = r2
  r3 = r3
  u1 = u1
  u2 = u2
  Requests = {r1, r2, r3}
  Updates = {}
  Keys <- TwoKeys
  Selections <- Gets
  Responses <- MixedResponses
  MaxEntries = 2
  MaxBytes = 3
  MaxEntryBytes = 3
  MaxPending = 2
  MaxTtl = 2
  MaxGeneration = 1
  MaxTime = 2
INVARIANT StoreWithinLimits
PROPERTY HitIsCurrent
SYMMETRY RequestSymmetry
