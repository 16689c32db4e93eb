SPECIFICATION Spec
CONSTANTS
  Tensors = {t1, t2}
  Embedded = {t1}
  Values = {0, 1}
  BaseValue = 0
  Exports = {e1, e2}
  HexEdits = TRUE
  MaxRevisions = 2
INVARIANTS
  ExportSound
  TraceIsKeyedRevision
SYMMETRY Interchangeable
