SPECIFICATION Spec
CONSTANTS
    Body <- MCBody
    MaxPending = 3
    HasFile = TRUE
    MaxSeq = 4
    MaxWindows = 2
    Minutes = 2
    UploadBatch = 2
    MaxTime = 3
    MaxClockSets = 1
    MaxRestarts = 2
    Uploads = FALSE
    ReadMayFail = TRUE
INVARIANTS
    GlassTypeOK
    AllowedAreRecorded
PROPERTIES
    WindowIsBounded
    EndedForGood
CHECK_DEADLOCK FALSE
