----------------------------- MODULE MCDisplay -----------------------------
\* Three nodes, two of them with the same status.
EXTENDS Display

MCFields == {"hostname", "online", "last_seen"}
Node(h, o, s) == [hostname |-> h, online |-> o, last_seen |-> s]
MCRows == {Node(1, 0, 3), Node(2, 1, 1), Node(3, 1, 2)}
=============================================================================
