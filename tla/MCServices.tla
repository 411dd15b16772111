---------------------------- MODULE MCServices ----------------------------
\* Callers and ids are interchangeable.
EXTENDS Services

Symmetric == Permutations(Callers) \cup Permutations(Ids)
===========================================================================
