\* Answers that cross sends and sweeps, a lost ARP packet, a neighbour that is down.
SPECIFICATION Spec
CONSTANTS
  Ips = {"a", "b", "dead"}
  Own = "own"
  Answering = {"a", "b"}
  Slots = {1, 2}
  Retries = 2
  Senders = {"app", "timer"}
  Work <- Traffic
  MaxOdd = 1
INVARIANTS OneEntry InOnePlace
PROPERTY AllSettled
