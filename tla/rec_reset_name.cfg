\* A name typed while a reset waits for a process.
SPECIFICATION Spec
CONSTANTS
  t1 = t1
  t2 = t2
  p1 = p1
  p2 = p2
  w1 = w1
  NoTab = NoTab
  Unborn = Unborn
  Gone = Gone
  Tab = {t1}
  Pane = {p1}
  Workspace = {w1}
  WorkspaceOf <- OneWorkspace
  FirstOrder <- OneTab
  FirstPlace <- OnePane
  Settings <- BothOn
  Names <- IdleOrOne
  UserLabels <- AnyTyped
  FreshLabel <- Fresh
  MaxRenames = 1
  MaxMoves = 0
  CalmPasses = 0
INVARIANTS
  NameTypedDuringResetKept
