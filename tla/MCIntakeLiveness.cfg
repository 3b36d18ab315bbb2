\* No request is cut.  Four uploads and deletes in every mixture.
CONSTANTS
    Requests = {r1, r2, r3, r4}
    Menu = {"upload", "deleteFile", "deleteSubmission"}
    MaxRow = 4
    MaxEnvelope = 4
    Submissions = {a}
    Abortable = {}
    NoSub = NoSub
    NoRow = NoRow
    NoEnvelope = NoEnvelope
    NoToken = NoToken
SPECIFICATION FairSpec
PROPERTY NoObjectStranded
\* Every request is served once.
CHECK_DEADLOCK FALSE
