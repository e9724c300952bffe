SPECIFICATION Spec
CONSTANTS
  DATA_SIZE_BITS = 1
  ENTROPY_SAFETY_FACTOR = 1
  RecoveryLoops = 2
  MemCutoffs <- MCCutoffs
  MemCutoffsNtg1 <- MCCutoffsNtg1
  StartupWrap = 65536
  MinOsr = 1
  MaxOsr = 3
  MaxMem = 3
  MaxHash = 1
  CacheMem = 1
  Flags <- MCFlags
  Lengths = {2}
  MaxCalls = 2
  None = None
INVARIANTS NothingLeaks TimerRunsWhileMeasuring HandleKeepsAccount MemoryCapRespected StartupSamplesBoth
PROPERTIES LadderClimbs BlockIsComplete
CHECK_DEADLOCK FALSE
