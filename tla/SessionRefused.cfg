SPECIFICATION Spec
CONSTANTS
  HugePage = 2048
  Files <- MCFiles
  Hosts <- MCHosts
  Runs = 1
  MaxKills = 0
INVARIANT ProceedsOnlyWhenSwitchHasAll
CHECK_DEADLOCK FALSE
