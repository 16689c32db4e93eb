SPECIFICATION Spec
SYMMETRY TensorsAlike
CONSTANTS
  Tensors = {t1, t2}
  Values = {0, 1}
  BaseValue = 0
  Sessions = {s1}
  TheSession = s1
  MaxRevisions = 2
  MaxBatch = 1
  MaxFaults = 2
  Faults = {"save", "unlink", "damage", "mismatch", "rename", "transient"}
INVARIANTS
  ChainsSound
  AckedOnDisk
  OnlySkippedReplaced
PROPERTIES
  ImplementsHistory
