SPECIFICATION FairSpec
CONSTANTS
  HugePage = 2048
  Files <- MCFiles
  Hosts <- MCHosts
  Runs = 2
  MaxKills = 1
INVARIANTS
  Consistent
  SwitchReady
  NobodyAborts
  NobodySendsWithoutAll
  ThreadsPartition
PROPERTIES
  RunsEnd
CHECK_DEADLOCK FALSE
