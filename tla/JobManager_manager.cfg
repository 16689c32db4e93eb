SPECIFICATION Spec
CONSTANTS
  Jobs = {j1, j2}
  Workers = 2
  Retention = 0
  MaxCloses = 2
  WaitModes = {TRUE, FALSE}
CHECK_DEADLOCK FALSE
INVARIANTS
  JobsSound
PROPERTIES
  TerminalIsFinal
  EveryJobEnds
