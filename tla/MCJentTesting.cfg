CONSTANTS
  r1 = r1
  r2 = r2
  p1 = p1
  Free = Free
  Reader <- MCReader
  Producer <- MCProducer
  RB_SIZE = 4
  CHUNK = 2
  MaxWords = 2
  MaxStores = 6
  MaxReads = 2
  MaxSets = 1
SPECIFICATION FairSpec
INVARIANTS
  UnreadAreNewest
  RecordingIsFresh
  
  BootKeepsEarliest
PROPERTY SleeperIsWoken
CHECK_DEADLOCK FALSE
