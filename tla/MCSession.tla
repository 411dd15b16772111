----------------------------- MODULE MCSession -----------------------------
\* An administrator and a user, and who each token is issued to.
EXTENDS Session

CONSTANTS ann, bob, a1, a2, b1

MCUsers == {ann, bob}
MCAdmins == {ann}
MCTokens == {a1, a2, b1}
MCOwner == [t \in MCTokens |-> IF t = b1 THEN bob ELSE ann]
MCTwoTokens == {a1, b1}
MCTwoOwner == [t \in MCTwoTokens |-> IF t = b1 THEN bob ELSE ann]
=============================================================================
