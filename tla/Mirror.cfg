SPECIFICATION Spec
CONSTANTS
  Results = {"typed"}
  Questions = {"close?"}
  ControlQueue = 1
  MaxChanges = 2
  MaxToggles = 1
  MaxCalls = 1
  MaxLives = 1
INVARIANTS
  Mirrors
PROPERTIES
  CallsReturn
CHECK_DEADLOCK FALSE
