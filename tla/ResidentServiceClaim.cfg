CONSTANTS
  Requests = {r1, r2}
  MaxConcurrent = 1
SPECIFICATION Spec
INVARIANT ConcurrencyBound
