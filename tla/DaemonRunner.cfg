CONSTANTS
  Loops <- TwoLoops
  Interval <- Intervals
SPECIFICATION FairSpec
INVARIANTS TypeOK TickerPhase OverrunWasDue
PROPERTIES NoBurst ShutdownIsNoFailure Returns RunsAgain
