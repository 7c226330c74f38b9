CONSTANTS
  Word <- MCWord
  Stored <- MCStored
  SHELL_MAX_ENV_VARS = 4
  Users <- MCUsers
  DefaultPath = "default"
  Dirs <- MCDirs
  Opens <- MCOpens
  Lines <- MCLines
CHECK_DEADLOCK FALSE
SPECIFICATION FairSpec
INVARIANTS CommandTakesEffect FirstOfPath
PROPERTIES RestartKeepsTheRest SearchEnds
