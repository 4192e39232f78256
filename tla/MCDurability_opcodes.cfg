SPECIFICATION Spec
CONSTANTS
  LogGranularity = 2
  Opcodes = {0, 1, 2}
  Granularities <- SameGranularity
  MaxOps = 2
  MaxCrashes = 1
INVARIANTS ReplayRepeatsTheCall
