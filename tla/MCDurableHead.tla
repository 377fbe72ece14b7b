--------------------------- MODULE MCDurableHead ---------------------------
EXTENDS DurableHead

\* A head whose machine stays up, one on a journaling file system, and one on a file
\* system that promises nothing of what was not synced.
AllStorages == {"reliable", "journal", "unordered"}

\* The machine stays up; only processes are killed and calls fail.
ProcessFaultsOnly == {"reliable"}
=============================================================================
