-------------------------- MODULE MCReceiveBuffer --------------------------
EXTENDS ReceiveBuffer

CONSTANTS p1, p2, p3  \* packs

\* Two packs of an old version and one of a new one.
TwoVersions == [p \in Callers |-> IF p \in {p1, p2} THEN 1 ELSE 2]
=============================================================================
