\* Timers fire at any moment, one loss.
SPECIFICATION Spec
CONSTANTS
  N = 2
  InitCwnd = 2
  InitSsthresh = 4
  AdvWnds <- Wide
  WndMod = 16
  SynPending = FALSE
  AnyFlagAcks = TRUE
  WithClose = FALSE
  BurstTimers = FALSE
  QuietTimers = FALSE
  QueueLen = 2
  MaxLoss = 1
INVARIANTS
  InOrderDelivery AckedReceived InflightCounts RecoveryReachable
