SPECIFICATION Spec
CONSTANTS
    Callers = {c, d}
    MaxRecords = 3
    MaxStops = 1
    QueueSize = 1
    Clean = {2}
SYMMETRY MCSymmetry
INVARIANTS
    ChainVerifies
    PostedIsRecorded
    StoredOnce
    FlushMeansTried
CHECK_DEADLOCK FALSE
