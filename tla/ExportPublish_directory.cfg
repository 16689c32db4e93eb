SPECIFICATION PublishSpec
CONSTANTS
  PayloadCount = 2
  Attempts = {a1, a2, a3}
CHECK_DEADLOCK FALSE
INVARIANTS
  PublicationSound
  ReportMeansComplete
