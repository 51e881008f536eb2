CONSTANTS
    NumCoders = 2
    MaxParallel = 1
    Worker = {1, 2}
SPECIFICATION FairSpec
PROPERTY RunTerminates
CHECK_DEADLOCK FALSE
