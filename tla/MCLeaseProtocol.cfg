CONSTANTS
    NoProof = NoProof
    NoReclaim = NoReclaim
    w1 = w1
    w2 = w2
    Workers <- TwoWorkers
    LeaseIds = {10, 20}
    Times <- Clock
    Occurrences = 2
SPECIFICATION Spec
CHECK_DEADLOCK FALSE
INVARIANTS
    LeaseInv
    OneEffectPerOccurrence
