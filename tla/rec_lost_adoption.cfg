\* One tab that waits for automatic naming, and passes that are cut short.
SPECIFICATION Spec
CONSTANTS
  t1 = t1
  t2 = t2
  p1 = p1
  p2 = p2
  w1 = w1
  NoTab = NoTab
  Unborn = Unborn
  Gone = Gone
  Tab = {t1}
  Pane = {p1}
  Workspace = {w1}
  WorkspaceOf <- OneWorkspace
  FirstOrder <- OneTab
  FirstPlace <- OnePane
  Settings <- BothOn
  Names <- OneProgram
  UserLabels <- AnyTyped
  FreshLabel <- Fresh
  MaxRenames = 0
  MaxMoves = 0
  CalmPasses = 0
PROPERTIES
  AdoptionNotLost
