\* Two threads work on two lessons over two days, with every fault.
SPECIFICATION Spec
CONSTANTS
    Thread = {t1, t2}
    Lesson = {l1, l2}
    MaxTime = 2
    DayLength = 1
    MaxSeq = 3
    Faults <- MCAllFaults
SYMMETRY MCSymmetry
INVARIANTS
    TypeOK
    LineageRooted
    LaterCallWins
    RetirementSticks
\* With the sequence ids used up, two calls that wait for one can only crash.
CHECK_DEADLOCK FALSE
