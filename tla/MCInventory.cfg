SPECIFICATION Spec
CONSTANTS
    Names = {"a"}
    MaxId = 2
    MaxDeletes = 1
    MaxRestarts = 1
    Callers = {"get"}
INVARIANTS
    WholeMeansEverySandbox
    FileFollowsMemory
    ChangesAreNoticed
PROPERTY
    EngineCatchesUp
CHECK_DEADLOCK FALSE
