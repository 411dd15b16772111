---------------------------- MODULE MCTcpRoute ----------------------------
\* Model values for TLC.
EXTENDS TcpRoute, TLC

\* Safety runs only: callers and connections are interchangeable.
Symmetric == Permutations(Callers) \cup Permutations(Conns)
=============================================================================
