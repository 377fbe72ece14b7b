------------------------ MODULE MCSequenceLifecycle ------------------------
EXTENDS SequenceLifecycle

CONSTANTS p1, p2  \* the Pack calls
=============================================================================
