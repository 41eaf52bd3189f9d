\* Two routers between two hosts that ping and trace what is there and what is not.
\* When every probe is answered and the caches are at rest, nothing is left to do.
SPECIFICATION Spec
CONSTANTS
  Routers = {"r1", "r2"}
  Ifaces <- TwoRouters
  rtable <- Tables
  Hosts = {"h1", "h2"}
  HostAddr <- Addrs
  Gateway <- Gates
  Gone = {}
  Journeys <- Trips
  DefaultTtl = 4
  Slots = {1, 2}
  Retries = 1
  MaxLoss = 1
INVARIANTS OnePlace TrueAnswers
PROPERTY Answered
CHECK_DEADLOCK FALSE
