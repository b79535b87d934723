SPECIFICATION Spec
CONSTANTS
    MaxOps = 2
    MaxId = 3
    Kinds = {"create", "update", "global", "delete"}
    Contents = {x, y}
    Bases = {"set"}
    MaxDecisions = 1
    MaxReviews = 1
    MaxRestarts = 1
SYMMETRY MCSymmetry
INVARIANTS
    CommitsAreGrounded
    RefusalsHold
    CitesItsOwnReview
CHECK_DEADLOCK FALSE
