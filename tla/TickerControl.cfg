\* Two tickers let two sweeps meet at one ticker and pass each other at the
\* other; four sweeps let an exclusive sweep follow two overlapping ones.
SPECIFICATION FairSpec
CONSTANTS
  t1 = t1
  t2 = t2
  Tickers = {t1, t2}
  NoTicker = NoTicker
  MaxSweeps = 4
INVARIANTS
  TypeOK
  SweepsTakeEffect
  PausedHoldsNoTimer
  StoppedTickersAreLeftAlone
PROPERTIES
  TimersAreLostOnlyWhenNotPaused
  ShutdownInOrder
  SweepsReturn
  DaemonStopEndsAll
