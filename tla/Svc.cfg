CONSTANTS
  Callers = {c1, c2}
  Ids = {a, b}
  Ports = {p}
  Domains = {d}
  MaxObjs = 2
  MaxRoutes = 2
  Nobody = Nobody
SPECIFICATION Spec
INVARIANTS NoStrayRoutes DisabledServesNoHttp KeyedById
SYMMETRY Symmetric
