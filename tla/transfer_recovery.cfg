\* Fast recovery and out-of-order segments, three losses, a receiver that may close its
\* window; and progress, under fairness.
SPECIFICATION FairSpec
CONSTANTS
  N = 5
  InitCwnd = 6
  InitSsthresh = 3
  AdvWnds <- SixOrNil
  WndMod = 16
  SynPending = FALSE
  AnyFlagAcks = TRUE
  WithClose = FALSE
  BurstTimers = TRUE
  QuietTimers = TRUE
  QueueLen = 5
  MaxLoss = 3
INVARIANT IInv
PROPERTIES ImplementsStream 
