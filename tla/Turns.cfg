\* Two programs, main and a side branch
SPECIFICATION Spec
CONSTANTS
  Client = {"engine", "user"}
  None = None
  Branch = {main, side}
  Main = main
  Slot = {summary, scratchpad}
  Scratchpad = scratchpad
  Value = {empty, x}
  Empty = empty
  OpsOf <- Divided
  Start <- Diverged
  MaxCommits = 5
INVARIANTS TypeOK ScratchpadAccounted HistoryOrdered FirstMergeKeepsOneSided
PROPERTY AdvancesOnNewest
CHECK_DEADLOCK FALSE
