CONSTANTS
  Requests = {r1, r2}
  MaxConcurrent = 2
SPECIFICATION Spec
PROPERTY RunsUntilDeadline
