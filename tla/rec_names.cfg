\* One tab, any settings, two renames of the user of any form.
SPECIFICATION Spec
CONSTANTS
  t1 = t1
  t2 = t2
  p1 = p1
  p2 = p2
  w1 = w1
  NoTab = NoTab
  Unborn = Unborn
  Gone = Gone
  Tab = {t1}
  Pane = {p1}
  Workspace = {w1}
  WorkspaceOf <- OneWorkspace
  FirstOrder <- OneTab
  FirstPlace <- OnePane
  Settings <- AnySettings
  Names <- IdleOrOne
  UserLabels <- AnyTyped
  FreshLabel <- Fresh
  MaxRenames = 2
  MaxMoves = 0
  CalmPasses = 3
INVARIANTS
  TypeOK
  UserNameKept
  OwnLabelRecognised
  ClaimsOnlyOwnLabels
  NumberingConverges
PROPERTIES
  NoNamingWhenOff
