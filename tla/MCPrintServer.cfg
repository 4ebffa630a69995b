CONSTANTS
  ConsumerCount = 1
  MaxPrinters = 1
  NumJobs = 6
  JobsPerRun = 2
  MinPapers = 1
  MaxPapers = 1
  PaperCapacity = 1
  QueueCapacity = 2
  UserMayInterrupt = TRUE
  WakesSpuriously = FALSE
  MaxStops = 1

SPECIFICATION FairSpec

INVARIANT TypeOK
INVARIANT JobOwnership
INVARIANT NoThreadOutlivesItsRun
INVARIANT FirstComeFirstServed
INVARIANT StopLeavesOneJobAtMost
PROPERTY RunsEndOrStarve

CHECK_DEADLOCK FALSE
