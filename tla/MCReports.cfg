SPECIFICATION Spec
CONSTANTS
    Body = {r1, r2}
    Callers = {c1, c2}
    Housekeeper = h
    NoOne = none
    MaxPending = 2
    HasFile = TRUE
    MaxSeq = 3
    Heartbeats = TRUE
    MaxUnposted = 1
    MaxRestarts = 1
SYMMETRY MCSymmetry
INVARIANTS
    NothingVanishes
    RecordedInOrder
    TrueMeansRecorded
    CountedOnce
CHECK_DEADLOCK FALSE
