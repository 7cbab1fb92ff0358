SPECIFICATION FairSpec
CONSTANTS
  Tickers = {t1, t2}
  Calls = {m1, m2}
  MaxRuns = 1
INVARIANTS
  TypeOK
  RunOutlivesTickers
  CrashesHaveCauses
PROPERTIES
  NothingBeginsOnClosedChannel
  SignalEndsProcess
  BacklogDrains
