SPECIFICATION FairSpec
CONSTANTS
  DATA_SIZE_BITS = 1
  ENTROPY_SAFETY_FACTOR = 1
  RecoveryLoops = 2
  MemCutoffs <- MCCutoffs
  MemCutoffsNtg1 <- MCCutoffsNtg1
  StartupWrap = 65536
  MinOsr = 1
  MaxOsr = 2
  MaxMem = 3
  MaxHash = 1
  CacheMem = 1
  Flags <- Ntg1Flags
  Lengths = {1}
  MaxCalls = 1
  None = None
PROPERTY CallsAlwaysReturn
CHECK_DEADLOCK FALSE
