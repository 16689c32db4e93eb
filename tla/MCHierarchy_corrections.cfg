SPECIFICATION NavSpec
CONSTANTS
  Sessions = {s1, s2}
  Shown = s1
  Graphs <- MCGraphs
  Nodes <- MCNodes
  Removable = {2}
  Artifacts <- MCArtifacts
  Patterns <- MCPatterns
  MaxDominatorNodes = 7
  MaxRepeatNodes = 8
  KindPriority <- MCKindPriority
  Modes <- MCModes
  KindsOf <- MCKindsOf
  Names = {5}
  MaxCorrections = 2
  MaxOverview = 3
  SliceCapacity = 1
  Entry = "main"
  BlockNames = {3}
  Days <- MCDays
INVARIANTS
  CorrectionsKept
  PictureSound
  BlocksAreReal
PROPERTIES
  LockedKept
