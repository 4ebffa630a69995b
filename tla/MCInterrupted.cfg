CONSTANTS
  ConsumerCount = 2
  MaxPrinters = 2
  NumJobs = 2
  MinPapers = 1
  MaxPapers = 2
  PaperCapacity = 2
  QueueCapacity = 1
  UserMayInterrupt = TRUE
  WakesSpuriously = TRUE

SPECIFICATION Spec

INVARIANT TypeOK
INVARIANT JobOwnership
INVARIANT JobConservation
INVARIANT QueueWithinCapacity
INVARIANT NoLostJobWakeup
INVARIANT NoForgottenPrinter
INVARIANT NoLostRefillRequest
INVARIANT PaperWithinCapacity
INVARIANT NoWorkLeftWhenServed
INVARIANT CompleteAtEnd
PROPERTY ImplementsJobFlow

CHECK_DEADLOCK FALSE
