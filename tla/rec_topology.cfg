\* One tab with one pane; two changes among: a tab or a pane opened, closed or moved.
SPECIFICATION Spec
CONSTANTS
  t1 = t1
  t2 = t2
  p1 = p1
  p2 = p2
  w1 = w1
  NoTab = NoTab
  Unborn = Unborn
  Gone = Gone
  Tab = {t1, t2}
  Pane = {p1, p2}
  Workspace = {w1}
  WorkspaceOf <- OneWorkspace
  FirstOrder <- OneTab
  FirstPlace <- NewPane
  Settings <- BothOn
  Names <- OneProgram
  UserLabels <- OneWord
  FreshLabel <- Fresh
  MaxRenames = 0
  MaxMoves = 2
  CalmPasses = 2
INVARIANTS
  NumberingConverges
  StateFollowsSession
  OwnLabelRecognised
