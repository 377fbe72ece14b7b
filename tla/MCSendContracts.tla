-------------------------- MODULE MCSendContracts --------------------------
EXTENDS SendContracts

CONSTANTS c1, c2,      \* contracts
          m1, m2, m3   \* messages

\* m1 is smaller than MinBytes, the others larger.
Sizes == [m \in Messages |-> IF m = m1 THEN 1 ELSE 3]

\* c1 holds its announcement and two messages; c2 its announcement and m1.
Capacities == [c \in Contracts |-> IF c = c1 THEN 7 ELSE 4]
=============================================================================
