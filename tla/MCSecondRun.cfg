CONSTANTS
  ConsumerCount = 1
  MaxPrinters = 1
  NumJobs = 6
  JobsPerRun = 2
  MinPapers = 1
  MaxPapers = 1
  PaperCapacity = 1
  QueueCapacity = 3
  UserMayInterrupt = TRUE
  WakesSpuriously = FALSE
  MaxStops = 0

SPECIFICATION Spec


CHECK_DEADLOCK FALSE
INVARIANT AllJobsProcessed
