\* Two direct callers of append_record, every fault of the host, and a rebuild.
SPECIFICATION Spec
CONSTANTS
    Thread = {t1, t2}
    Facade <- MCNoFacade
    Serialized = FALSE
    RecordId = {r1, r2, r3}
    Day <- MCDay
    Time <- MCTime
    DayOf <- MCDayOf
    Faults <- MCAllFaults
    NoThread = nobody
INVARIANTS
    NoSilentLoss
    IndexNeverAhead
    ChainIsTree
CHECK_DEADLOCK FALSE
