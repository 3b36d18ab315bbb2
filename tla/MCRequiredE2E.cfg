\* A page of an earlier version, and a process told to require encryption.
CONSTANTS
    MaxRow = 2
    MaxEnvelope = 2
    MaxKey = 2
    MaxToken = 2
    MaxCrashes = 1
    Legacy = 1
    Configs <- MCConfigs
    NoRow = NoRow
SPECIFICATION Spec
PROPERTY RequiredRejectsPlaintext
CHECK_DEADLOCK FALSE
