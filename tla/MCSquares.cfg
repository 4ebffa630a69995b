SPECIFICATION Spec
CONSTANTS
  MaxNodes = 1
  Data = {1}
  NoData = 0
  NumJobs = 1
  NumPrinters = 1
  Capacities = {1}
  MaxTime = 4
  SquareRange = 16
INVARIANT SquaresAreSummed
