\* Two shells with a DEBUG trap of the user, otherwise the instance of shell_session.
SPECIFICATION FairSpec
CONSTANTS
  Program <- MCProgram
  Job <- MCJob
  Setups <- ForeignSetups
  Lines <- MCLines
  Shells <- MCShells
  Ignored <- MCIgnored
  Aliases <- MCAliases
  Shortened <- MCShortened
  LoginShell = "zsh"
  ShellPid = 1
  Group <- MCGroup
  Agent <- MCAgent
  Hide = FALSE
  Limit = 24
  MaxLines = 2
  MaxFocus = 1
  MaxRunning = 1
PROPERTY ForeignTrapPreserved
