\* One client; every packet may be lost, sent again or late.
SPECIFICATION FairSpec
CONSTANTS
  Clients = {c1}
  Serves = 1
  MaxChild = 2
  QueueLen = 3
  MaxLoss = 2
INVARIANTS HandshakeAgreed OneChild AcceptWakes 
PROPERTIES ClientCloses  QueuedIsAccepted
