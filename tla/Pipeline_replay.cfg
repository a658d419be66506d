SPECIFICATION Spec
CONSTANTS
  Structural = Structural
  Unreadable = Unreadable
  Main = 1
  Game = {0, 1}
  Default = 0
  None = None
  Source = {1}
  NativeSource = {}
  GameOf <- OneGame
  HooksOf <- EveryHook
  Hook = {1, 2}
  Text = {"x"}
  Blank = "blank"
  Branch = {1, 2, 3, 4}
  UserBranch = {}
  History <- PlayedByTwo
  Saved <- EnabledHooks
  StoreFails = FALSE
  Window = 0
  MaxPending = 3
  FirstId = 100
  MaxTexts = 3
  MaxTime = 1
  MaxUser = 1
INVARIANTS DetectedReplayed InOrder
PROPERTY ReplayContinues
