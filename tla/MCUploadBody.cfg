SPECIFICATION FairBodySpec
CONSTANTS
    GlobalLimit = 2
    PageLimits = {1, 3}
    NoLimit = NoLimit
    Allowance = 4
    CipherOverhead = 1
    MaxFields = 2
    MaxFieldBytes = 1
    Ext = {pdf, txt}
    FieldName = {"submission_id", "e2e_envelope", "junk"}
    Sizes = {0, 1, 2, 3, 4}
INVARIANTS
    RecordedWholeAndWithinLimits
    RefusedForSizeRightly
PROPERTIES
    EveryUploadIsAnswered
CHECK_DEADLOCK FALSE
