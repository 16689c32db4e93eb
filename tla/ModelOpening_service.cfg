SPECIFICATION Spec
CONSTANTS
  Models = {a, b}
  MaxOpens = 2
  MaxDialogs = 2
  MaxRecent = 2
  None = None
INVARIANTS
  SessionsAccounted
  OpensSound
PROPERTIES
  OverlayClears
