\* Four requests of any kind, two of them at a time, any of which may be cut,
\* and a submission that is begun twice, on a page that may be sealed or deleted.
CONSTANTS
    Requests = {r1, r2, r3, r4}
    Menu = {"attach", "remove", "setStatus", "deleteSubmission", "download",
            "deletePage", "deletePageAndFiles"}
    Statuses = {"reviewed"}
    MaxTokens = 2
    MaxInFlight = 2
    Abortable = {r1, r2, r3, r4}
    NoKey = NoKey
SPECIFICATION Spec
SYMMETRY Interchangeable
INVARIANT TokenGetsItsOwnReports
INVARIANT OfferedReportExists
INVARIANT DeletionEventsTruthful
INVARIANT StatusFollowsReport
INVARIANT OnlyTheReportIsKept
\* Every request is served once.
CHECK_DEADLOCK FALSE
