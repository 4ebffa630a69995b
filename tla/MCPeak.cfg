SPECIFICATION Spec
CONSTANTS
  MaxNodes = 3
  Data = {1, 2, 3}
  NoData = 0
  NumJobs = 3
  NumPrinters = 2
  Capacities = {1, 2}
  MaxTime = 2
  SquareRange = 16
INVARIANT MaxQueueIsPeak
