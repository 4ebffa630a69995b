CONSTANTS
  ConsumerCount = 2
  MaxPrinters = 2
  NumJobs = 2
  MinPapers = 2
  MaxPapers = 2
  PaperCapacity = 2
  QueueCapacity <- Unlimited
  UserMayInterrupt = TRUE
  WakesSpuriously = FALSE

SPECIFICATION FairSpec

INVARIANT FirstComeFirstServed
PROPERTY EndsOrStarves
PROPERTY AllJobsHandled

CHECK_DEADLOCK FALSE
