CONSTANTS
  Callers = {c1}
  Ids = {a, b}
  Ports = {p}
  Domains = {d}
  MaxObjs = 2
  MaxRoutes = 3
  Nobody = Nobody
SPECIFICATION Spec
INVARIANT DisabledIsStopped
