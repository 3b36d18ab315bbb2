---------------------------- MODULE MCSqliteWal ----------------------------
\* Three transactions over a submission that may be there already.
EXTENDS SqliteWal
=============================================================================
