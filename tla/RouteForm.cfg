CONSTANTS
  h1 = h1
  h2 = h2
  host = host
  a1 = a1
  a2 = a2
  d = d
  Empty = Empty
  Starts <- MCStarts
  Hosts <- MCHosts
  Addresses = {a2}
  Domains = {d}
  Numbers = {0, 80, 70000}
  Kinds = {"http", "tcp"}
  Headers = {h1, h2}
  Values = {d}
  MaxEdits = 3
SPECIFICATION Spec
INVARIANTS OnlySentHeadersLeak SavedIsShown
PROPERTY EditsOneRoute
CHECK_DEADLOCK FALSE
