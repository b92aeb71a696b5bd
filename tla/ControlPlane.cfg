SPECIFICATION Spec
CONSTANTS
  Callers = {c1, c2}
  None = None
  c1 = c1
  c2 = c2
  MaxRetries = 1
  Quota = 2
  AdmissionPolicy <- MCPolicy
  SignatureKeys <- MCKeys
  UsageLimit = 3
  BudgetLimit = 3
  MaxAttempts = 2
  Workloads <- MCWorkloads
  Requests <- MCRequests
INVARIANTS
  SerializableOutsideRaces
  RetriesConverge
  QuotaOvershootIsBounded
  OutboxesSurviveRaces
  KeysAndRoutesHold
PROPERTIES
  Twin
  LastOwnerStays
  EveryCallIsAnswered
