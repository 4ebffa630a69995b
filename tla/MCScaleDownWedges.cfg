CONSTANTS
  ConsumerCount = 2
  MaxPrinters = 3
  NumJobs = 2
  MinPapers = 1
  MaxPapers = 1
  PaperCapacity = 1
  QueueCapacity <- Unlimited
  UserMayInterrupt = FALSE
  WakesSpuriously = FALSE
  ScaleUpLength = 1
  ScaleDownLength = 2

SPECIFICATION ScaledFairSpec

PROPERTY ScaleDownReturns

CHECK_DEADLOCK FALSE
