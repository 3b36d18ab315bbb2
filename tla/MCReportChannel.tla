--------------------------- MODULE MCReportChannel ---------------------------
\* ReportChannel on a small instance; the requests are interchangeable.
EXTENDS ReportChannel, TLC

Interchangeable == Permutations(Requests)
=============================================================================
