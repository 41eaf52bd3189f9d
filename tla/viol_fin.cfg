\* A FIN that overtakes lost data.
SPECIFICATION Spec
CONSTANTS
  N = 1
  InitCwnd = 2
  InitSsthresh = 4
  AdvWnds <- Wide
  WndMod = 16
  SynPending = FALSE
  AnyFlagAcks = TRUE
  WithClose = TRUE
  BurstTimers = TRUE
  QuietTimers = TRUE
  QueueLen = 2
  MaxLoss = 2
INVARIANT AckedReceived
