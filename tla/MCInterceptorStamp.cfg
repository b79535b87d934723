SPECIFICATION Spec
CONSTANTS
    MaxOps = 2
    MaxId = 3
    Kinds = {"update"}
    Contents = {x}
    Bases = {"set"}
    MaxDecisions = 2
    MaxReviews = 2
    MaxRestarts = 1
PROPERTIES
    PassedMeansJournaled
CHECK_DEADLOCK FALSE
