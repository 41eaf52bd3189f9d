\* One cut link, restarted router or lost LSU in a ring whose numbers wrap.
SPECIFICATION Spec
CONSTANTS
  Routers = {1, 2, 3, 4}
  Links <- Ring
  Refreshing = {1, 4}
  SeqRange = 3
  MaxFloods = 1
  MaxFaults = 1
INVARIANTS RoutesShortest 
PROPERTY EntriesHeal
