CONSTANTS
  ConsumerCount = 2
  MaxPrinters = 2
  NumJobs = 2
  MinPapers = 1
  MaxPapers = 2
  PaperCapacity = 2
  QueueCapacity <- Unlimited
  UserMayInterrupt = FALSE
  WakesSpuriously = FALSE

SPECIFICATION Spec

INVARIANT TestedJobIsAllocated

CHECK_DEADLOCK FALSE
