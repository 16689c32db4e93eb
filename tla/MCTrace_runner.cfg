SPECIFICATION Spec
CONSTANTS
  Requests <- MCRequests
  Machines <- MCMachines
  Nodes = 2
  Ceiling = 3
  Files = {manifest, code}
  MaxEdits = 1
CHECK_DEADLOCK FALSE
INVARIANTS
  RunsLeaveWholeTraces
  CeilingsKept
  RunAsReported
PROPERTIES
  RunnerEnds
