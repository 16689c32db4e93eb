SPECIFICATION Spec
CONSTANTS
  Tensors = {t1, t2}
  Values = {0, 1}
  BaseValue = 0
  Passes = {p1, p2}
  Reads = 2
  Sessions = {s1, s2}
  Own = s1
  CacheSize = 1
  MaxRevisions = 1
  Days <- MCDays
INVARIANTS
  StatisticsSound
  ReportedStatisticsKept
SYMMETRY Interchangeable
