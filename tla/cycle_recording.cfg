\* Two threads share an orchestrator; every failure may happen.
SPECIFICATION FairSpec
CONSTANTS
    Thread = {t1, t2}
    Cycle = {c1, c2}
    MaxTime = 2
    Drift = 1
    Faults <- MCAllFaults
    NoThread = nobody
INVARIANTS
    TypeOK
    EnterIsOnRecord
    AuditFollowsCycle
    NeverUpgraded
    ErrorsMarked
    PoisonBounded
PROPERTY
    CycleEnds
CHECK_DEADLOCK FALSE
