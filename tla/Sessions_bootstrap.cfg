SPECIFICATION Spec
CONSTANTS
  CommitId = {c1, c2, c3, c4}
  Game = {default, game}
  Default = default
  Name = {main}
  Main = main
  None = None
  Client = {app, cli}
  Ops = {"turn"}
  RawIds = FALSE
SYMMETRY Symmetry
PROPERTY MainOnlyIfNeeded
