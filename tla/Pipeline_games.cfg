SPECIFICATION Spec
CONSTANTS
  Structural = Structural
  Unreadable = Unreadable
  Main = 1
  Game = {0, 1, 2}
  Default = 0
  None = None
  Source = {1, 2}
  NativeSource = {2}
  GameOf <- TwoGames
  HooksOf <- TwoHooks
  Hook = {1, 2}
  Text = {"x"}
  Blank = "blank"
  Branch = {0, 1, 2}
  UserBranch = {0}
  History <- Fresh
  Saved <- KnownHooks
  StoreFails = TRUE
  Window = 0
  MaxPending = 1
  FirstId = 100
  MaxTexts = 2
  MaxTime = 0
  MaxUser = 1
INVARIANTS TypeOK QueuedForActiveGame
