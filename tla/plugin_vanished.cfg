\* As plugin_events, but Herdr reports a pane that takes its tab with it as pane.closed.
SPECIFICATION PluginSpec
CONSTANTS
  t1 = t1
  t2 = t2
  t3 = t3
  p1 = p1
  p2 = p2
  p3 = p3
  p4 = p4
  w1 = w1
  w2 = w2
  NoTab = NoTab
  Unborn = Unborn
  Gone = Gone
  Proc = {1, 2}
  MaxPasses = 3
  Tab = {t1, t2, t3}
  Pane = {p1, p2, p3, p4}
  Workspace = {w1, w2}
  WorkspaceOf <- TwoWorkspaces
  FirstOrder <- TwoTabs
  FirstPlace <- FirstPanes
  FirstName <- TheProgram
  LastPaneReports = {"pane.closed"}
  Settings <- BothOn
  Names <- OneProgram
  UserLabels <- OneWord
  FreshLabel <- Fresh
  MaxRenames = 1
  MaxMoves = 1
  CalmPasses = 0
INVARIANTS
  EventsRenumber
