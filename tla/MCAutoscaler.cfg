CONSTANTS
  ConsumerCount = 2
  MaxPrinters = 4
  Cooldown = 1
  LowQueueWait = 2
  IdleTimeout = 2
  LowQueue = 2
  HighQueue = 1
  Lengths = {0, 1, 2, 3, 4}
  NoScaling = 99
  StartTime = 1
  MaxTime = 6
  TimeRange = 16

SPECIFICATION FairSpec

INVARIANT TypeOK
INVARIANT PoolWithinLimits
INVARIANT AnnouncedCountIsTrue
PROPERTY CooldownKept
PROPERTY SomePrinterWasIdle
PROPERTY LongQueueExhaustsPool

CHECK_DEADLOCK FALSE
