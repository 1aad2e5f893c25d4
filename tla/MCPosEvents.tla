---------------------------- MODULE MCPosEvents ----------------------------
EXTENDS PosEvents, TLC

CONSTANTS pizza, wine, e1, e2, s1, s2

\* One order of two items.
TwoItems == [e \in Events |-> Items]
=============================================================================
