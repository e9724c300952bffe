SPECIFICATION Spec
CONSTANTS
  Delta <- SmallDeltas
  Modulus = 16
  MinOsr = 2
  MaxOsr = 4
  RctRate = 1
  Safety = 0
  APT_WINDOW_SIZE = 4
  AptCutoffLookup <- AptCutoffs
  AptPermanentLookup <- AptPermanents
  LAG_WINDOW_SIZE = 7
  LAG_HISTORY_SIZE = 4
  LagGlobalLookup <- LagGlobals
  LagLocalLookup <- LagLocals
  MaxSamples = 8
  CLEARCACHE = 1
  COARSE = 5
  MaxInits = 1
INVARIANTS AcceptedTimerIsUsable RctIsRunLength AptIsProportion LagScoresAreHits ResetKeepsStuckRun ResetKeepsProportion
CHECK_DEADLOCK FALSE
