SPECIFICATION FairSpec
CONSTANTS
  LogGranularity = 1
  Opcodes = {0}
  Granularities <- ShrinkingGranularity
  MaxOps = 4
  MaxCrashes = 2
INVARIANTS TypeOk HoldsDurable
PROPERTIES CallsReturn OnlyUnreadIsLost
