\* Three requests of any kind, each of which may be cut, over one row id and
\* three slugs: enough for a request to be overtaken by a delete, a new page
\* under the same id and a third request.
CONSTANTS
    Requests = {r1, r2, r3}
    MaxPageId = 1
    Slugs = {s1, s2, s3}
    Keys = {k1, k2}
    Abortable = {r1, r2, r3}
    NoPage = NoPage
SPECIFICATION FairSpec
INVARIANT SealMarksTruthful
PROPERTY IdentityFixedUntilADelete
PROPERTY ImplementsRegister
PROPERTY SealEventuallyRecorded
\* Every request is served once and the slugs run out.
CHECK_DEADLOCK FALSE
