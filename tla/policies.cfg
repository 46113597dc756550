\* All 3906 labels of at most five tokens, and the observations of MCPolicies.
SPECIFICATION Spec
CONSTANTS
  Shells <- MCShells
  Ignored <- MCIgnored
  Aliases <- MCAliases
  Shortened <- MCShortened
  Inputs <- AllLabels
  Observations <- MCObservations
INVARIANTS
  TextKept
  NumberingSettles
  BestProcessRepresents
  IgnoredShowsShell
  BlankOnlyWhenHidden
  NamedByOwnPane
PROPERTY LoopComputesStrip
