\* A preloaded and an injected library with one hook each; three launches
SPECIFICATION PartSpec
CONSTANTS
  Native = {n}
  Wine = {w}
  Hook = {h}
  None = None
  EventCapacity = 1
  CommandCapacity = 2
  MaxConnections = 2
  MaxShown = 2
  MaxUser = 3
  Setting = {"a", "b"}
  Default = "a"
  Unreadable = "unreadable"
  MaxLaunches = 3
  MaxChanges = 1
INVARIANTS PartTypeOK Agreement RunsReachable
PROPERTIES WantedGetsEnabled OnlyEnabledText NotLockedOut SettingsKept GameReconnects
CHECK_DEADLOCK FALSE
