\* Two lines of nine kinds and a focus event, in zsh and in two kinds of bash.
SPECIFICATION FairSpec
CONSTANTS
  Program <- MCProgram
  Job <- MCJob
  Setups <- MCSetups
  Lines <- MCLines
  Shells <- MCShells
  Ignored <- MCIgnored
  Aliases <- MCAliases
  Shortened <- MCShortened
  LoginShell = "zsh"
  ShellPid = 1
  Group <- MCGroup
  Agent <- MCAgent
  Hide = FALSE
  Limit = 24
  MaxLines = 2
  MaxFocus = 1
  MaxRunning = 1
INVARIANTS
  ObservationTypeOK
  OneReportPerLine
  EveryLineReported
  OncePerForm
  ClaimFirst
  NameIsInFront
  PromptNamed
PROPERTY ShellStarts
