\* Two threads record through the facade with no outer lock.
SPECIFICATION Spec
CONSTANTS
    Thread = {t1, t2}
    Facade = {t1, t2}
    Serialized = FALSE
    RecordId = {r1, r2}
    Day <- MCDay
    Time <- MCTime
    DayOf <- MCDayOf
    Faults <- MCNoFaults
    NoThread = nobody
INVARIANT
    ChainIntact
CHECK_DEADLOCK FALSE
