----------------------------- MODULE MCTransfer -----------------------------
EXTENDS Transfer

\* Items of one byte each.
UnitSize == [i \in Seqs |-> 1]
=============================================================================
