SPECIFICATION JournalSpec
CONSTANTS
    Body = {b1, b2}
    MaxPending = 3
    HasFile = TRUE
    MaxSeq = 4
INVARIANTS
    JournalTypeOK
    ChainHolds
    FileIsCurrent
PROPERTIES
    ImplementsOutbox
