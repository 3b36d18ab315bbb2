\* Four requests of any kind, any of which may be cut: two uploads with two
\* deletes of the same file around them, in every order.
CONSTANTS
    Requests = {r1, r2, r3, r4}
    Menu = {"upload", "deleteFile", "deleteSubmission", "deletePage",
            "download", "zip", "manifest"}
    MaxRow = 3
    MaxEnvelope = 3
    Submissions = {a, b}
    Abortable = {r1, r2, r3, r4}
    NoSub = NoSub
    NoRow = NoRow
    NoEnvelope = NoEnvelope
    NoToken = NoToken
SPECIFICATION Spec
SYMMETRY Interchangeable
INVARIANT AcceptedExactlyOnce
INVARIANT ReceiptCoversUpload
INVARIANT DeletionEventsTruthful
INVARIANT MissingObjectWasDeleted
INVARIANT ManifestLogCoversFiles
INVARIANT FinishedArchiveIsComplete
PROPERTY CleanupSparesRecorded
PROPERTY ImplementsLedger
\* Every request is served once.
CHECK_DEADLOCK FALSE
