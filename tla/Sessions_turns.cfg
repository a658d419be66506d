SPECIFICATION Spec
CONSTANTS
  CommitId = {c1, c2, c3}
  Game = {default}
  Default = default
  Name = {main, side}
  Main = main
  None = None
  Client = {app, cli}
  Ops = {"turn", "resume", "merge"}
  RawIds = FALSE
SYMMETRY Symmetry
INVARIANTS TypeOK NoTurnLost
PROPERTY KeepsPromise
