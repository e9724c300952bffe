CONSTANTS
  HISTORY_RING_SIZE = 3
  JITTER_RING_SIZE = 4
  ByteCounts <- MCBytes
  Latencies <- MCLatencies
  MaxCalls = 4
  BITS = 2
  JITTER_HEALTH_ALPHA = 2
  JITTER_HEALTH_H_BITS = 1
  JITTER_HEALTH_APT_WINDOW = 2
SPECIFICATION Spec
INVARIANTS
  HistoryMatchesCalls
  FrameIsConsistent
  FrameVerdictsAreTests
  ReportIsSound
PROPERTY RingsAreLogs
