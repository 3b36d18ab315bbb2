SPECIFICATION FairSpec
CONSTANTS
    Tx = {t1, t2, t3}
    Earlier = {k1}
    None = None
INVARIANTS
    ObjectsAccountedFor
PROPERTIES
    NobodyFailsAlone
    ImplementsSerialStore
    EveryTransactionEnds
CHECK_DEADLOCK FALSE
