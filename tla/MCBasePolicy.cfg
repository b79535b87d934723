SPECIFICATION BaseSpec
CONSTANTS
    MaxOps = 1
    MaxId = 2
    Kinds = {"create", "update", "global", "global policy", "delete"}
    Contents = {x, y}
    Bases = {"unknown", "none", "set"}
    Policies = {p, q}
    MaxDecisions = 1
    MaxReviews = 1
    MaxRestarts = 2
SYMMETRY MCSymmetry
INVARIANTS
    NoBareCreate
    BaseIsLastWord
CHECK_DEADLOCK FALSE
