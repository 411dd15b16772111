CONSTANTS
  Callers = {c1}
  Conns = {k1}
  Ports = {p1}
  Free = Free
  MaxStarts = 3
SPECIFICATION FairSpec
INVARIANTS StoppedIsQuiet SoleGeneration NeverCrashes
PROPERTIES KeepsPromise SignalStopsGoroutines CallsReturn
