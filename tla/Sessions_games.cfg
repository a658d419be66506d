SPECIFICATION Spec
CONSTANTS
  CommitId = {c1, c2, c3}
  Game = {default, g1}
  Default = default
  Name = {main, side}
  Main = main
  None = None
  Client = {app, cli}
  Ops = {"select", "edit", "branch"}
  RawIds = FALSE
SYMMETRY Symmetry
INVARIANT OwnHistory
