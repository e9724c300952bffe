SPECIFICATION Spec
CONSTANTS
  Delta <- SmallDeltas
  Modulus = 16
  MinOsr = 2
  MaxOsr = 3
  RctRate = 4
  Safety = 8
  APT_WINDOW_SIZE = 4
  AptCutoffLookup <- AptCutoffs
  AptPermanentLookup <- AptPermanents
  LAG_WINDOW_SIZE = 7
  LAG_HISTORY_SIZE = 4
  LagGlobalLookup <- LagGlobals
  LagLocalLookup <- LagLocals
  MaxSamples = 9
  CLEARCACHE = 1
  COARSE = 5
  MaxInits = 0
PROPERTY RctResumesAtCutoff
CHECK_DEADLOCK FALSE
