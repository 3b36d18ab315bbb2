\* A delete that has passed both of its checks, and a seal.
CONSTANTS
    Requests = {r1, r2}
    MaxPageId = 1
    Slugs = {s1}
    Keys = {k1}
    Abortable = {}
    NoPage = NoPage
SPECIFICATION Spec
PROPERTY SealedPageIsNotDeleted
\* Every request is served once and the slugs run out.
CHECK_DEADLOCK FALSE
