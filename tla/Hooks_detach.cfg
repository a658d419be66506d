\* An injected library that was detached
SPECIFICATION Spec
CONSTANTS
  Native = {}
  Wine = {w}
  Hook = {h1, h2}
  None = None
  EventCapacity = 2
  CommandCapacity = 2
  MaxConnections = 2
  MaxShown = 2
  MaxUser = 3
SYMMETRY HookSymmetry
PROPERTY DetachIsFinal
CHECK_DEADLOCK FALSE
