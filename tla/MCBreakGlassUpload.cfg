SPECIFICATION FairSpec
CONSTANTS
    Body <- MCBody
    MaxPending = 2
    HasFile = TRUE
    MaxSeq = 2
    MaxWindows = 1
    Minutes = 1
    UploadBatch = 2
    MaxTime = 1
    MaxClockSets = 0
    MaxRestarts = 2
    Uploads = TRUE
    ReadMayFail = FALSE
INVARIANTS
    UploadsContinue
PROPERTIES
    WindowEnds
    EverythingIsTaken
    ImplementsRelay
CHECK_DEADLOCK FALSE
