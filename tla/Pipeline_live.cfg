SPECIFICATION FairSpec
CONSTANTS
  Structural = Structural
  Unreadable = Unreadable
  Main = 1
  Game = {0, 1}
  Default = 0
  None = None
  Source = {1}
  NativeSource = {}
  GameOf <- OneGame
  HooksOf <- EveryHook
  Hook = {1}
  Text = {"x"}
  Blank = "blank"
  Branch = {1, 2, 3}
  UserBranch = {}
  History <- Played
  Saved <- EnabledHooks
  StoreFails = FALSE
  Window = 0
  MaxPending = 2
  FirstId = 100
  MaxTexts = 2
  MaxTime = 1
  MaxUser = 0
PROPERTY TextsLeave
