CONSTANTS
  t1 = t1
  t2 = t2
  t3 = t3
  plain = plain
  fips = fips
  NoSettings = NoSettings
  Free = Free
  Thread <- MCThread
  Settings <- MCSettings
  DefaultSettings = plain
  FipsSettings <- MCFips
SPECIFICATION RngSpec
SYMMETRY Symmetry
INVARIANTS
  CollectorExclusive
  CollectorMatchesSettings
  CollectorWasSelfTested
