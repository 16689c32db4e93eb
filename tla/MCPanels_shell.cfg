SPECIFICATION PanelsSpec
CONSTANTS
  PreviewValueCount = 2
  AdvisoryBytes = 3
  GraphOf <- MCGraphOf
  cpu = cpu
  gpu = gpu
  Variants = {cpu, gpu}
  Forms <- MCForms
  MaxWatchJobs = 1
  OverlayKinds = {"statistics"}
  Days <- MCDays
CHECK_DEADLOCK FALSE
INVARIANTS
  RequestsSound
  MarkersSound
PROPERTIES
  PanelsAnswer
