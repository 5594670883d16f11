\* The deployment: two threads record through the facade under the orchestrator's lock.
SPECIFICATION FairSpec
CONSTANTS
    Thread = {t1, t2}
    Facade = {t1, t2}
    Serialized = TRUE
    RecordId = {r1, r2, r3}
    Day <- MCDay
    Time <- MCTime
    DayOf <- MCDayOf
    Faults <- MCCrashes
    NoThread = nobody
INVARIANTS
    TypeOK
    ChainIntact
    TimesMonotone
    IndexGapExplained
    IndexSeqUnique
PROPERTIES
    ImplementsLedger
    Answered
CHECK_DEADLOCK FALSE
