\* The Lab15 start, with the SYN in send_buf, and the close, with a window that may close too.
SPECIFICATION Spec
CONSTANTS
  N = 3
  InitCwnd = 1
  InitSsthresh = 4
  AdvWnds <- WideOrNil
  WndMod = 16
  SynPending = TRUE
  AnyFlagAcks = FALSE
  WithClose = TRUE
  BurstTimers = FALSE
  QuietTimers = TRUE
  QueueLen = 3
  MaxLoss = 2
INVARIANTS TypeOK SendBufComplete SleeperHasWaker
