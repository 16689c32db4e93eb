SPECIFICATION ActivationSpec
CONSTANTS
  t1 = t1
  t2 = t2
  v1 = v1
  v2 = v2
  Traces = {t1, t2}
  ByName <- MCByName
  ValueIds = {v1, v2}
  ByValue <- MCByValue
  Runtimes = {cpu, gpu}
  MaxLength = 1
  MaxRuns = 3
  MaxFaults = 1
  Budgets = {1, 2}
  None = None
SYMMETRY MCSymmetry
CHECK_DEADLOCK FALSE
INVARIANTS
  RecordsHonest
  BytesCharged
  CommittedStays
