SPECIFICATION FairSpec
CONSTANTS
    Body = {r1, r2}
    Callers = {c1}
    Housekeeper = h
    NoOne = none
    MaxPending = 1
    HasFile = TRUE
    MaxSeq = 3
    Heartbeats = FALSE
    MaxUnposted = 0
    MaxRestarts = 1
PROPERTY
    EveryReportLeaves
CHECK_DEADLOCK FALSE
