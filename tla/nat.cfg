\* A pool of one port that runs dry, a rule for a server, two remotes.
SPECIFICATION Spec
CONSTANTS
  i1 = i1
  i2 = i2
  r1 = r1
  r2 = r2
  Inside = {i1, i2}
  Remote = {r1, r2}
  Buckets = {1, 2}
  Bucket <- TwoBuckets
  PortMin = 12345
  PortMax = 12346
  MaxMappings = 3
  Packets <- FinAndAck
  Rules <- ServerRule
INVARIANT PortsExact
PROPERTIES AddressStable PortsReturned
