\* Four switches in a ring and a host at two of them: the tree, the tables, the frames.
SPECIFICATION Spec
CONSTANTS
  Switches = {1, 2, 3, 4}
  h1 = h1
  h2 = h2
  Hosts = {h1, h2}
  nports <- RingPorts
  Peer <- RingPeer
  MaxHellos = 1
  MaxFrames = 3
  MaxAged = 1
  Staggered = FALSE
INVARIANTS RootPathsDescend TreeSpans
PROPERTIES BeliefImproves TreeFound 
\* The timers have expired and no config is under way: the network is at rest.
CHECK_DEADLOCK FALSE
