\* Two uploads of an earlier version, two more, and two crashes.
CONSTANTS
    MaxRow = 3
    MaxEnvelope = 4
    MaxKey = 4
    MaxToken = 5
    MaxCrashes = 2
    Legacy = 2
    Configs <- MCConfigs
    NoRow = NoRow
SPECIFICATION Spec
INVARIANT ServesCompleteRecords
INVARIANT AddressesAreDigests
INVARIANT WhatAllKeptOutIsOut
PROPERTY ReceiptsSurviveRestarts
PROPERTY SubmissionIsImmutable
\* The ids run out.
CHECK_DEADLOCK FALSE
