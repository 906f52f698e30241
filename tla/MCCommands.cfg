CONSTANTS
  MaxLaunches = 2
  PoolSize = 1
  MaxEntries = 2
  PipeCap = 1
  MaxReloads = 1
  MaxFailures = 2
  Plans <- MCPlans
SPECIFICATION FairSpec
INVARIANTS
  TypeOK
  EntriesAccounted
  DescriptorsAccounted
  OutputInOrder
  OutputKept
PROPERTIES
  OutputsPromised
  EveryCommandReaped
CHECK_DEADLOCK FALSE
