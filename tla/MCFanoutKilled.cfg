CONSTANTS
    NumCoders = 2
    MaxParallel = 2
    Worker = {1, 2}
SPECIFICATION Spec
INVARIANTS
    KilledNeverCommitted
CHECK_DEADLOCK FALSE
