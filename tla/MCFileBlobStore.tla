--------------------------- MODULE MCFileBlobStore ---------------------------
\* FileBlobStore on a small instance; the calls are interchangeable up to
\* whether they may be cut.
EXTENDS FileBlobStore, TLC

Interchangeable ==
    Permutations(Abortable) \cup Permutations(Requests \ Abortable)
=============================================================================
