CONSTANTS
  w1 = w1
  w2 = w2
  ui_thread = ui_thread
  plain = plain
  fips = fips
  NoSettings = NoSettings
  NoResult = NoResult
  NoWorker = NoWorker
  Free = Free
  Worker <- MCWorker
  UI = ui_thread
  Thread <- MCThread
  Settings <- MCFips
  DefaultSettings = fips
  FipsSettings <- MCFips
  MaxChunks = 1
SPECIFICATION Spec
PROPERTY UnreadResultSurvives
