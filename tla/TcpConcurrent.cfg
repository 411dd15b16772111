CONSTANTS
  Callers = {c1, c2}
  Conns = {k1}
  Ports = {p1, p2}
  Free = Free
  MaxStarts = 2
SPECIFICATION Spec
SYMMETRY Symmetric
INVARIANTS TypeOK NoDoubleClose WgCountsGoroutines RunningListens StopCutsClients
CHECK_DEADLOCK FALSE
