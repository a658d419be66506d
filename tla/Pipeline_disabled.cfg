SPECIFICATION Spec
CONSTANTS
  Structural = Structural
  Unreadable = Unreadable
  Main = 1
  Game = {0, 1}
  Default = 0
  None = None
  Source = {1}
  NativeSource = {}
  GameOf <- OneGame
  HooksOf <- EveryHook
  Hook = {1}
  Text = {"x"}
  Blank = "blank"
  Branch = {1}
  UserBranch = {}
  History <- Fresh
  Saved <- EnabledHooks
  StoreFails = FALSE
  Window = 0
  MaxPending = 2
  FirstId = 100
  MaxTexts = 2
  MaxTime = 1
  MaxUser = 1
PROPERTY DisabledNeverSent
