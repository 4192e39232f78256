SPECIFICATION Spec
CONSTANTS
  LogGranularity = 2
  Opcodes = {0}
  Granularities <- GrowingGranularity
  MaxOps = 6
  MaxCrashes = 2
INVARIANTS DurabilityInvariant TreeIsDurablePlusBuffer LastWriterWins OperationCountIsReplayDebt
PROPERTIES DurableStays LossBound StoreSpec
