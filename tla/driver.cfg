SPECIFICATION Spec
CONSTANTS
    Conn = {c1, c2, c3}
    Updater = updater
    Proc = {updater}
    User = {u1, u2}
    RuleLists <- MCRuleLists
    Lookups <- MCLookups
    QueueMaxCount = 2
    BatchMax = 2
    MaxLoads = 1
INVARIANT RecordsOwned
INVARIANT UnloadedHoldsNothing
INVARIANT StatsConsistent
INVARIANT ExemptStaysExempt
PROPERTY QueueIsFifo
SYMMETRY MCSymmetry
CHECK_DEADLOCK FALSE
