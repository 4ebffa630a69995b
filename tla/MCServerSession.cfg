SPECIFICATION Spec
CONSTANTS
  Defaults <- MCDefaults
  Arguments <- MCArguments
  MaxArguments = 1
  MaxPrinters = 2
  Connections = {c1, c2}
  NoConnection = NoConnection
  Threads <- MCThreads
  PipeSize = 1
  Configs <- MCConfigs
  MaxCommands = 2
INVARIANT LatestOpenIsActive
INVARIANT LastUpdateIsFinal
INVARIANT ParametersHold
CHECK_DEADLOCK FALSE
SYMMETRY Symmetry
