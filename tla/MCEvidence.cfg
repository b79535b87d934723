SPECIFICATION Spec
CONSTANTS
    Last = 5
    Batch = 2
    TeamRecords = {1, 3, 4}
    WithAttrs = {2, 4}
    HandoverAt = 2
    Chains <- MCChains
    Pins = {"root"}
    MaxDamage = 2
INVARIANTS
    ExportsVerify
    VerifiedMeansExported
    AttestedIsEarned
    SealsGuard
CHECK_DEADLOCK FALSE
