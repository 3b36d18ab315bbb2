\* Five calls, two of which may be cut: two uploads beside two deletes of an
\* earlier one, or a download beside them.
CONSTANTS
    Requests = {r1, r2, r3, r4, r5}
    Abortable = {r4, r5}
SPECIFICATION Spec
SYMMETRY Interchangeable
INVARIANT FailedUploadPublishesNothing
INVARIANT UploadsFailOnlyOnTheirOwn
INVARIANT NothingLeftBehind
PROPERTY ImplementsBlobStore
\* Every call is served once.
CHECK_DEADLOCK FALSE
