CONSTANTS
  Clients = {c1, c2}
  Ports = {p1, p2}
  Nobody = Nobody
SPECIFICATION FairSpec
INVARIANT StoppedReleases
PROPERTIES SilentAreForgotten KeepsPromise
CHECK_DEADLOCK FALSE
