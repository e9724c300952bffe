CONSTANTS
  w1 = w1
  w2 = w2
  ui_thread = ui_thread
  plain = plain
  fips = fips
  NoSettings = NoSettings
  NoResult = NoResult
  NoWorker = NoWorker
  Free = Free
  Worker <- MCWorker
  UI = ui_thread
  Thread <- MCThread
  Settings <- MCSettings
  DefaultSettings = plain
  FipsSettings <- MCFips
  MaxChunks = 2
SPECIFICATION Spec
INVARIANTS
  OneJobAtATime
  UiNeverWaitsForCollector
  NoLeakedWorker
  NoUseAfterDelete
  FrameShowsSettings
  OneConfigurationInSession
  StopIsNotForgotten
  InitializedIsHonest
  PendingTimelineHasResult
  BenchmarkReleasesCollector
PROPERTY ImplementsJobSlot
